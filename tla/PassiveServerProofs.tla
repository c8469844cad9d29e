------------------------ MODULE PassiveServerProofs ------------------------
(***************************************************************************)
(* Proofs about PassiveServer: for any requests, adapters, timers and any  *)
(* number of frames and of other hosts' messages, answers come one for     *)
(* one, what is refused is not kept, and what a peer reads never goes back.*)
(***************************************************************************)
EXTENDS PassiveServer, SequenceTheorems, FiniteSetTheorems, NaturalsInduction, WellFoundedInduction, TLAPS

-----------------------------------------------------------------------------
(* The line of frames, what is due, and the pending answers *)

(* What the line keeps while the peer is there, and while it is served.     *)
Line(frames, dues, pending) ==
  /\ Rising(frames) /\ Rising(dues) /\ AnswersRise(pending, frames) /\ InOrder(pending, dues)
Service(state, frames, dues, pending) ==
  FramesAreDue(state, frames, dues) /\ DuesAreServed(state, frames, dues, pending)
Numbered(s) == \A i \in DOMAIN s : s[i].sys \in Int

(* The state after a frame was served.                                      *)
After(state, frames) == IF frames[1].type = "select" THEN "Selected" ELSE state

(* Taking the head off, and appending, by the elements.                    *)
LEMMA TailFacts ==
  ASSUME NEW S, NEW s \in Seq(S), s # <<>>
  PROVE  /\ Tail(s) \in Seq(S) /\ Len(s) \in Nat /\ Len(Tail(s)) = Len(s) - 1
         /\ DOMAIN s = 1 .. Len(s) /\ DOMAIN Tail(s) = 1 .. Len(s) - 1
         /\ 1 \in DOMAIN s /\ Head(s) = s[1]
         /\ \A i \in DOMAIN Tail(s) : i + 1 \in DOMAIN s /\ Tail(s)[i] = s[i + 1]
         /\ \A i \in DOMAIN s : i # 1 => i - 1 \in DOMAIN Tail(s) /\ Tail(s)[i - 1] = s[i]
OBVIOUS

LEMMA AppendFacts ==
  ASSUME NEW S, NEW s \in Seq(S), NEW T, NEW e \in T
  PROVE  /\ Append(s, e) \in Seq(S \cup T) /\ Len(s) \in Nat /\ Len(Append(s, e)) = Len(s) + 1
         /\ DOMAIN s = 1 .. Len(s) /\ DOMAIN Append(s, e) = 1 .. Len(s) + 1
         /\ \A i \in DOMAIN s : i \in DOMAIN Append(s, e) /\ Append(s, e)[i] = s[i]
         /\ Append(s, e)[Len(s) + 1] = e
<1>1. s \in Seq(S \cup T) /\ e \in S \cup T
  BY SeqMonotonic
<1>2. QED
  BY <1>1

(* Serving a frame moves the others one place forward and changes nothing   *)
(* of what they expect.                                                     *)
LEMMA ExpectationsStay ==
  ASSUME NEW F, NEW frames \in Seq(F), frames # <<>>, NEW state,
         NEW j \in 1 .. Len(frames)
  PROVE  SelectedBefore(After(state, frames), Tail(frames), j)
           <=> SelectedBefore(state, frames, j + 1)
<1> USE TailFacts
<1>1. ASSUME SelectedBefore(After(state, frames), Tail(frames), j)
      PROVE  SelectedBefore(state, frames, j + 1)
  <2>1. CASE After(state, frames) = "Selected"
    BY <2>1 DEF After, SelectedBefore
  <2>2. CASE After(state, frames) # "Selected"
    <3>1. PICK h \in 1 .. j - 1 : Tail(frames)[h].type = "select"
      BY <1>1, <2>2 DEF SelectedBefore
    <3>2. h + 1 \in 1 .. j /\ frames[h + 1].type = "select"
      BY <3>1
    <3>3. QED
      BY <3>2 DEF SelectedBefore
  <2>3. QED
    BY <2>1, <2>2
<1>2. ASSUME SelectedBefore(state, frames, j + 1)
      PROVE  SelectedBefore(After(state, frames), Tail(frames), j)
  <2>1. CASE state = "Selected" \/ frames[1].type = "select"
    BY <2>1 DEF After, SelectedBefore
  <2>2. CASE ~(state = "Selected" \/ frames[1].type = "select")
    <3>1. PICK h \in 1 .. j : frames[h].type = "select"
      BY <1>2, <2>2 DEF SelectedBefore
    <3>2. h # 1 /\ h - 1 \in 1 .. j - 1 /\ Tail(frames)[h - 1].type = "select"
      BY <2>2, <3>1
    <3>3. QED
      BY <3>2 DEF SelectedBefore
  <2>3. QED
    BY <2>1, <2>2
<1>3. QED
  BY <1>1, <1>2

LEMMA FirstExpectation ==
  ASSUME NEW frames, NEW state
  PROVE  SelectedBefore(state, frames, 1) <=> state = "Selected"
BY DEF SelectedBefore

LEMMA ExpectsStay ==
  ASSUME NEW F, NEW frames \in Seq(F), frames # <<>>, NEW state,
         NEW j \in DOMAIN Tail(frames)
  PROVE  Expects(After(state, frames), Tail(frames), j) = Expects(state, frames, j + 1)
<1>1. j \in 1 .. Len(frames) /\ Tail(frames)[j] = frames[j + 1]
  BY TailFacts
<1>2. SelectedBefore(After(state, frames), Tail(frames), j)
        <=> SelectedBefore(state, frames, j + 1)
  BY <1>1, ExpectationsStay
<1>3. QED
  BY <1>1, <1>2 DEF Expects, Expected

(* Rising numbers keep rising when the first goes or a greater one comes.  *)
LEMMA TailRises ==
  ASSUME NEW S, NEW s \in Seq(S), s # <<>>, Numbered(s), Rising(s)
  PROVE  Rising(Tail(s)) /\ Numbered(Tail(s))
         /\ \A i \in DOMAIN Tail(s) : s[1].sys < Tail(s)[i].sys
<1>1. \A i \in DOMAIN Tail(s) : i + 1 \in DOMAIN s /\ Tail(s)[i] = s[i + 1] /\ 1 \in DOMAIN s /\ i \in Nat \ {0}
  BY TailFacts
<1>2. QED
  BY <1>1 DEF Rising, Numbered

LEMMA AppendRises ==
  ASSUME NEW S, NEW s \in Seq(S), NEW T, NEW e \in T, Numbered(s), Rising(s),
         e.sys \in Int, \A i \in DOMAIN s : s[i].sys < e.sys
  PROVE  Rising(Append(s, e)) /\ Numbered(Append(s, e))
<1>1. \A i \in DOMAIN Append(s, e) :
        (i \in DOMAIN s /\ Append(s, e)[i] = s[i]) \/ (i = Len(s) + 1 /\ Append(s, e)[i] = e)
  BY AppendFacts
<1>2. \A i \in DOMAIN s : i < Len(s) + 1
  BY AppendFacts
<1>3. QED
  BY <1>1, <1>2, AppendFacts DEF Rising, Numbered

(* What is due before the first frame has been answered.                    *)
LEMMA EarlierDuesAreAnswered ==
  ASSUME NEW F, NEW frames \in Seq(F), frames # <<>>, Numbered(frames), Rising(frames),
         NEW state, NEW dues, NEW pending, DuesAreServed(state, frames, dues, pending),
         NEW h \in DOMAIN dues, dues[h].sys \in Int, dues[h].sys < frames[1].sys
  PROVE  \E i \in DOMAIN pending : AnswersTo(pending[i], dues[h])
<1>1. ASSUME NEW j \in DOMAIN frames, frames[j].sys = dues[h].sys PROVE FALSE
  <2>1. j = 1 \/ (1 \in DOMAIN frames /\ 1 < j /\ frames[1].sys < frames[j].sys)
    BY TailFacts DEF Rising
  <2>2. frames[1].sys \in Int /\ frames[j].sys \in Int
    BY TailFacts DEF Numbered
  <2>3. QED
    BY <1>1, <2>1, <2>2
<1>2. QED
  BY <1>1 DEF DuesAreServed

(* A frame that is answered.                                                *)
LEMMA FrameAnswered ==
  ASSUME NEW F, NEW frames \in Seq(F), frames # <<>>, Numbered(frames),
         NEW D, NEW dues \in Seq(D), Numbered(dues),
         NEW P, NEW pending \in Seq(P), NEW state,
         Line(frames, dues, pending), Service(state, frames, dues, pending),
         NEW a, IsAnswer(a), a.sys = frames[1].sys, a.type = Expects(state, frames, 1),
         a.type # "none"
  PROVE  Line(Tail(frames), dues, Append(pending, a))
<1> DEFINE rest == Tail(frames)
           all  == Append(pending, a)
<1>1. Rising(rest) /\ \A j \in DOMAIN rest : frames[1].sys < rest[j].sys
  BY TailRises DEF Line
<1>2. \A i \in DOMAIN all : (i \in DOMAIN pending /\ all[i] = pending[i]) \/ (i = Len(pending) + 1 /\ all[i] = a)
  BY a \in {a}, AppendFacts
<1>3. Len(pending) \in Nat /\ DOMAIN pending = 1 .. Len(pending) /\ DOMAIN all = 1 .. Len(pending) + 1
  BY a \in {a}, AppendFacts
<1>4. \A j \in DOMAIN rest : j + 1 \in DOMAIN frames /\ rest[j] = frames[j + 1]
  BY TailFacts
<1>5. 1 \in DOMAIN frames /\ frames[1].sys \in Int
  BY TailFacts DEF Numbered
<1> HIDE DEF rest, all
<1>6. AnswersRise(all, rest)
  <2>0. AnswersRise(pending, frames)
    BY DEF Line
  <2>1. ASSUME NEW i \in DOMAIN all, IsAnswer(all[i])
        PROVE  /\ \A j \in DOMAIN all : i < j /\ IsAnswer(all[j]) => all[i].sys < all[j].sys
               /\ \A j \in DOMAIN rest : all[i].sys < rest[j].sys
    <3>1. CASE i \in DOMAIN pending /\ all[i] = pending[i]
      <4>1. \A j \in DOMAIN pending : i < j /\ IsAnswer(pending[j]) => pending[i].sys < pending[j].sys
        BY <2>0, <2>1, <3>1 DEF AnswersRise
      <4>2. \A j \in DOMAIN frames : pending[i].sys < frames[j].sys
        BY <2>0, <2>1, <3>1 DEF AnswersRise
      <4>3. QED
        BY <1>2, <1>4, <1>5, <3>1, <4>1, <4>2
    <3>2. CASE i = Len(pending) + 1 /\ all[i] = a
      <4>1. \A j \in DOMAIN all : ~(i < j)
        BY <1>3, <3>2
      <4>2. QED
        BY <1>1, <3>2, <4>1
    <3>3. QED
      BY <1>2, <3>1, <3>2
  <2>2. QED
    BY <2>1 DEF AnswersRise
<1>7. PICK k \in DOMAIN dues : dues[k].sys = frames[1].sys /\ dues[k].type = Expects(state, frames, 1)
  BY <1>5 DEF Service, FramesAreDue
<1>8. ASSUME NEW h \in 1 .. k - 1
      PROVE  \E j \in 1 .. Len(pending) : AnswersTo(all[j], dues[h])
  <2>1. h \in DOMAIN dues /\ k \in Nat /\ h < k
    OBVIOUS
  <2>2. dues[h].sys \in Int /\ dues[h].sys < frames[1].sys
    BY <2>1, <1>7 DEF Line, Rising, Numbered
  <2>3. \E i \in DOMAIN pending : AnswersTo(pending[i], dues[h])
    BY <2>1, <2>2, EarlierDuesAreAnswered DEF Line, Service
  <2>4. QED
    BY <2>3, <1>2, <1>3
<1>9. InOrder(all, dues)
  <2>1. ASSUME NEW i \in DOMAIN all, IsAnswer(all[i])
        PROVE  \E n \in DOMAIN dues :
                 /\ AnswersTo(all[i], dues[n])
                 /\ \A h \in 1 .. n - 1 : \E j \in 1 .. i - 1 : AnswersTo(all[j], dues[h])
    <3>1. CASE i \in DOMAIN pending
      <4>1. all[i] = pending[i]
        BY <3>1, <1>2, <1>3
      <4>2. PICK n \in DOMAIN dues :
              /\ AnswersTo(pending[i], dues[n])
              /\ \A h \in 1 .. n - 1 : \E j \in 1 .. i - 1 : AnswersTo(pending[j], dues[h])
        BY <2>1, <3>1, <4>1 DEF Line, InOrder
      <4>3. \A j \in 1 .. i - 1 : all[j] = pending[j]
        BY <3>1, <1>2, <1>3
      <4>4. QED
        BY <4>1, <4>2, <4>3
    <3>2. CASE i = Len(pending) + 1
      <4>1. all[i] = a /\ AnswersTo(a, dues[k]) /\ i - 1 = Len(pending)
        BY <3>2, <1>2, <1>3, <1>7 DEF AnswersTo
      <4>2. QED
        BY <4>1, <1>8
    <3>3. QED
      BY <3>1, <3>2, <1>2
  <2>2. QED
    BY <2>1 DEF InOrder
<1>10. QED
  BY <1>1, <1>6, <1>9 DEF Line, rest, all


(* ... and the service continues.                                          *)
LEMMA FrameAnsweredServed ==
  ASSUME NEW F, NEW frames \in Seq(F), frames # <<>>, Numbered(frames),
         NEW D, NEW dues \in Seq(D), Numbered(dues), Rising(dues),
         NEW P, NEW pending \in Seq(P), NEW state,
         Service(state, frames, dues, pending),
         NEW a, IsAnswer(a), a.sys = frames[1].sys, a.type = Expects(state, frames, 1),
         a.type # "none"
  PROVE  Service(After(state, frames), Tail(frames), dues, Append(pending, a))
<1> DEFINE rest == Tail(frames)
           all  == Append(pending, a)
           next == After(state, frames)
<1>1. \A i \in DOMAIN pending : i \in DOMAIN all /\ all[i] = pending[i]
  BY a \in {a}, AppendFacts
<1>2. Len(pending) + 1 \in DOMAIN all /\ all[Len(pending) + 1] = a
  BY a \in {a}, AppendFacts
<1>3. \A j \in DOMAIN rest : /\ j + 1 \in DOMAIN frames /\ rest[j] = frames[j + 1]
                             /\ Expects(next, rest, j) = Expects(state, frames, j + 1)
  BY TailFacts, ExpectsStay
<1>4. \A j \in DOMAIN frames : j # 1 => j - 1 \in DOMAIN rest /\ rest[j - 1] = frames[j]
                                          /\ Expects(next, rest, j - 1) = Expects(state, frames, j)
  <2>1. \A j \in DOMAIN frames : j # 1 => j - 1 \in DOMAIN rest /\ rest[j - 1] = frames[j] /\ (j - 1) + 1 = j
    BY TailFacts
  <2>2. QED
    BY <2>1, ExpectsStay
<1> HIDE DEF rest, all, next
<1>5. FramesAreDue(next, rest, dues)
  BY <1>3 DEF Service, FramesAreDue
<1>6. DuesAreServed(next, rest, dues, all)
  <2>1. ASSUME NEW k \in DOMAIN dues
        PROVE  \/ \E i \in DOMAIN all : AnswersTo(all[i], dues[k])
               \/ \E j \in DOMAIN rest : rest[j].sys = dues[k].sys /\ Expects(next, rest, j) # "none"
    <3>1. CASE \E i \in DOMAIN pending : AnswersTo(pending[i], dues[k])
      BY <3>1, <1>1
    <3>2. CASE \E j \in DOMAIN frames : frames[j].sys = dues[k].sys /\ Expects(state, frames, j) # "none"
      <4>1. PICK j \in DOMAIN frames : frames[j].sys = dues[k].sys /\ Expects(state, frames, j) # "none"
        BY <3>2
      <4>2. CASE j = 1
        <5>1. PICK h \in DOMAIN dues : dues[h].sys = frames[1].sys /\ dues[h].type = Expects(state, frames, 1)
          BY <4>1, <4>2 DEF Service, FramesAreDue
        <5>2. h = k
          BY <4>1, <4>2, <5>1 DEF Rising, Numbered
        <5>3. AnswersTo(a, dues[k])
          BY <5>1, <5>2 DEF AnswersTo
        <5>4. QED
          BY <5>3, <1>2
      <4>3. CASE j # 1
        BY <4>1, <4>3, <1>4
      <4>4. QED
        BY <4>2, <4>3
    <3>3. QED
      BY <3>1, <3>2 DEF Service, DuesAreServed
  <2>2. QED
    BY <2>1 DEF DuesAreServed
<1>7. QED
  BY <1>5, <1>6 DEF Service, rest, all, next

(* A frame that is not answered.                                            *)
LEMMA FramePassed ==
  ASSUME NEW F, NEW frames \in Seq(F), frames # <<>>, Numbered(frames),
         NEW dues, NEW pending, NEW state,
         Line(frames, dues, pending)
  PROVE  Line(Tail(frames), dues, pending)
<1>1. \A j \in DOMAIN Tail(frames) : j + 1 \in DOMAIN frames /\ Tail(frames)[j] = frames[j + 1]
  BY TailFacts
<1>2. Rising(Tail(frames))
  BY TailRises DEF Line
<1>3. AnswersRise(pending, Tail(frames))
  BY <1>1 DEF Line, AnswersRise
<1>4. QED
  BY <1>2, <1>3 DEF Line

(* ... and the service continues.                                          *)
LEMMA FramePassedServed ==
  ASSUME NEW F, NEW frames \in Seq(F), frames # <<>>,
         NEW dues, NEW pending, NEW state,
         Service(state, frames, dues, pending), Expects(state, frames, 1) = "none"
  PROVE  Service(After(state, frames), Tail(frames), dues, pending)
<1> DEFINE rest == Tail(frames)
           next == After(state, frames)
<1>3. \A j \in DOMAIN rest : /\ j + 1 \in DOMAIN frames /\ rest[j] = frames[j + 1]
                             /\ Expects(next, rest, j) = Expects(state, frames, j + 1)
  BY TailFacts, ExpectsStay
<1>4. \A j \in DOMAIN frames : j # 1 => j - 1 \in DOMAIN rest /\ rest[j - 1] = frames[j]
                                          /\ Expects(next, rest, j - 1) = Expects(state, frames, j)
  <2>1. \A j \in DOMAIN frames : j # 1 => j - 1 \in DOMAIN rest /\ rest[j - 1] = frames[j] /\ (j - 1) + 1 = j
    BY TailFacts
  <2>2. QED
    BY <2>1, ExpectsStay
<1> HIDE DEF rest, next
<1>5. FramesAreDue(next, rest, dues)
  BY <1>3 DEF Service, FramesAreDue
<1>6. DuesAreServed(next, rest, dues, pending)
  BY <1>4 DEF Service, DuesAreServed
<1>7. QED
  BY <1>5, <1>6 DEF Service, rest, next


-----------------------------------------------------------------------------
(* The peer reads. *)

(* The first thing to be read, if it is an answer, is to the first due.     *)
LEMMA FirstAnswer ==
  ASSUME NEW P, NEW pending \in Seq(P), pending # <<>>,
         NEW D, NEW dues \in Seq(D), NEW frames,
         Line(frames, dues, pending), IsAnswer(pending[1])
  PROVE  dues # <<>> /\ AnswersTo(pending[1], dues[1])
<1>1. 1 \in DOMAIN pending
  BY TailFacts
<1>2. PICK k \in DOMAIN dues :
        /\ AnswersTo(pending[1], dues[k])
        /\ \A h \in 1 .. k - 1 : \E j \in 1 .. 1 - 1 : AnswersTo(pending[j], dues[h])
  BY <1>1 DEF Line, InOrder
<1>3. k = 1
  <2>1. k \in Nat \ {0}
    OBVIOUS
  <2>2. 1 .. 1 - 1 = {}
    OBVIOUS
  <2>3. 1 .. k - 1 = {}
    BY <1>2, <2>2
  <2>4. k > 1 => 1 \in 1 .. k - 1
    BY <2>1
  <2>5. QED
    BY <2>1, <2>3, <2>4
<1>4. QED
  BY <1>2, <1>3

(* The peer reads the first answer: the rest of the line is in order.      *)
LEMMA AnswerRead ==
  ASSUME NEW P, NEW pending \in Seq(P), pending # <<>>,
         NEW D, NEW dues \in Seq(D), NEW frames, Numbered(dues),
         Line(frames, dues, pending), IsAnswer(pending[1])
  PROVE  Line(frames, Tail(dues), Tail(pending))
<1> DEFINE p == Tail(pending)
           d == Tail(dues)
<1>1. dues # <<>> /\ AnswersTo(pending[1], dues[1])
  BY FirstAnswer
<1>2. /\ Len(pending) \in Nat /\ DOMAIN pending = 1 .. Len(pending)
      /\ \A i \in DOMAIN p : i + 1 \in DOMAIN pending /\ p[i] = pending[i + 1] /\ i \in Nat \ {0}
      /\ \A i \in DOMAIN pending : i # 1 => i - 1 \in DOMAIN p /\ p[i - 1] = pending[i]
      /\ 1 \in DOMAIN pending
  BY TailFacts
<1>3. /\ Len(dues) \in Nat /\ DOMAIN dues = 1 .. Len(dues)
      /\ \A i \in DOMAIN d : i + 1 \in DOMAIN dues /\ d[i] = dues[i + 1] /\ i \in Nat \ {0}
      /\ \A i \in DOMAIN dues : i # 1 => i - 1 \in DOMAIN d /\ d[i - 1] = dues[i]
      /\ 1 \in DOMAIN dues
  BY <1>1, TailFacts
<1>4. Rising(d)
  BY <1>1, TailRises DEF Line
<1> HIDE DEF p, d
<1>5. AnswersRise(p, frames)
  <2>1. ASSUME NEW i \in DOMAIN p, IsAnswer(p[i])
        PROVE  /\ \A j \in DOMAIN p : i < j /\ IsAnswer(p[j]) => p[i].sys < p[j].sys
               /\ \A j \in DOMAIN frames : p[i].sys < frames[j].sys
    <3>1. i + 1 \in DOMAIN pending /\ p[i] = pending[i + 1]
      BY <1>2
    <3>2. \A j \in DOMAIN p : i < j => i + 1 < j + 1
      BY <1>2
    <3>3. QED
      BY <2>1, <3>1, <3>2, <1>2 DEF Line, AnswersRise
  <2>2. QED
    BY <2>1 DEF AnswersRise
<1>6. InOrder(p, d)
  <2>1. ASSUME NEW i \in DOMAIN p, IsAnswer(p[i])
        PROVE  \E k \in DOMAIN d :
                 /\ AnswersTo(p[i], d[k])
                 /\ \A h \in 1 .. k - 1 : \E j \in 1 .. i - 1 : AnswersTo(p[j], d[h])
    <3>1. i + 1 \in DOMAIN pending /\ p[i] = pending[i + 1] /\ i \in Nat \ {0}
      BY <1>2
    <3>2. PICK k \in DOMAIN dues :
            /\ AnswersTo(pending[i + 1], dues[k])
            /\ \A h \in 1 .. k - 1 : \E j \in 1 .. (i + 1) - 1 : AnswersTo(pending[j], dues[h])
      BY <2>1, <3>1 DEF Line, InOrder
    <3>3. k # 1
      <4>0. AnswersRise(pending, frames) /\ 1 < i + 1 /\ IsAnswer(pending[i + 1])
        BY <2>1, <3>1 DEF Line
      <4>1. pending[1].sys < pending[i + 1].sys
        BY <1>2, <3>1, <4>0 DEF AnswersRise
      <4>2. dues[1].sys < pending[i + 1].sys /\ pending[i + 1].sys = dues[k].sys
        BY <4>1, <1>1, <3>2 DEF AnswersTo
      <4>3. QED
        BY <4>2, <1>3 DEF Numbered
    <3>4. k - 1 \in DOMAIN d /\ d[k - 1] = dues[k]
      BY <1>3, <3>3
    <3>5. ASSUME NEW h \in 1 .. (k - 1) - 1
          PROVE  \E j \in 1 .. i - 1 : AnswersTo(p[j], d[h])
      <4>0. k \in 1 .. Len(dues) /\ Len(dues) \in Nat /\ DOMAIN dues = 1 .. Len(dues) /\ h \in Nat
            /\ 1 <= h /\ h <= (k - 1) - 1
        BY <1>3
      <4>1. h + 1 \in 1 .. k - 1 /\ h + 1 \in DOMAIN dues /\ 1 < h + 1 /\ (h + 1) - 1 = h
        BY <4>0
      <4>2. d[h] = dues[h + 1]
        BY <4>1, <1>3
      <4>3. PICK j \in 1 .. (i + 1) - 1 : AnswersTo(pending[j], dues[h + 1])
        BY <3>2, <4>1
      <4>4. j # 1
        <5>0. dues[1].sys < dues[h + 1].sys
          BY <1>3, <4>1 DEF Line, Rising
        <5>1. dues[1].sys < dues[h + 1].sys /\ dues[1].sys = pending[1].sys
          BY <1>1, <5>0 DEF AnswersTo
        <5>2. QED
          BY <4>1, <4>3, <5>1 DEF Numbered, AnswersTo
      <4>5. j - 1 \in 1 .. i - 1 /\ j \in DOMAIN pending
        BY <1>2, <3>1, <4>3, <4>4
      <4>6. p[j - 1] = pending[j]
        BY <4>4, <4>5, <1>2
      <4>7. QED
        BY <4>2, <4>3, <4>5, <4>6
    <3>6. QED
      BY <3>1, <3>2, <3>4, <3>5
  <2>2. QED
    BY <2>1 DEF InOrder
<1>7. QED
  BY <1>4, <1>5, <1>6 DEF Line, p, d

(* ... and the service continues.                                          *)
LEMMA AnswerReadServed ==
  ASSUME NEW P, NEW pending \in Seq(P), pending # <<>>,
         NEW D, NEW dues \in Seq(D), NEW frames, Numbered(dues), Numbered(frames), NEW state,
         Line(frames, dues, pending), IsAnswer(pending[1]),
         Service(state, frames, dues, pending)
  PROVE  Service(state, frames, Tail(dues), Tail(pending))
<1> DEFINE p == Tail(pending)
           d == Tail(dues)
<1>1. dues # <<>> /\ AnswersTo(pending[1], dues[1])
  BY FirstAnswer
<1>2. /\ \A i \in DOMAIN pending : i # 1 => i - 1 \in DOMAIN p /\ p[i - 1] = pending[i]
      /\ 1 \in DOMAIN pending
  BY TailFacts
<1>3. /\ \A i \in DOMAIN d : i + 1 \in DOMAIN dues /\ d[i] = dues[i + 1] /\ 1 < i + 1
      /\ \A i \in DOMAIN dues : i # 1 => i - 1 \in DOMAIN d /\ d[i - 1] = dues[i]
      /\ 1 \in DOMAIN dues
  BY <1>1, TailFacts
<1> HIDE DEF p, d
<1>4. FramesAreDue(state, frames, d)
  <2>1. ASSUME NEW j \in DOMAIN frames, Expects(state, frames, j) # "none"
        PROVE  \E k \in DOMAIN d : /\ d[k].sys = frames[j].sys /\ d[k].req = frames[j].req
                                   /\ d[k].type = Expects(state, frames, j)
    <3>1. PICK k \in DOMAIN dues : /\ dues[k].sys = frames[j].sys /\ dues[k].req = frames[j].req
                                   /\ dues[k].type = Expects(state, frames, j)
      BY <2>1 DEF Service, FramesAreDue
    <3>2. k # 1
      <4>0. AnswersRise(pending, frames)
        BY DEF Line
      <4>1. pending[1].sys < frames[j].sys /\ pending[1].sys = dues[1].sys
        BY <1>1, <1>2, <4>0 DEF AnswersRise, AnswersTo
      <4>2. QED
        BY <3>1, <4>1 DEF Numbered
    <3>3. k - 1 \in DOMAIN d /\ d[k - 1] = dues[k]
      BY <1>3, <3>2
    <3>4. QED
      BY <3>1, <3>3
  <2>2. QED
    BY <2>1 DEF FramesAreDue
<1>5. DuesAreServed(state, frames, d, p)
  <2>1. ASSUME NEW k \in DOMAIN d
        PROVE  \/ \E i \in DOMAIN p : AnswersTo(p[i], d[k])
               \/ \E j \in DOMAIN frames : frames[j].sys = d[k].sys /\ Expects(state, frames, j) # "none"
    <3>1. k + 1 \in DOMAIN dues /\ d[k] = dues[k + 1] /\ dues[1].sys < dues[k + 1].sys
      BY <1>3 DEF Line, Rising
    <3>2. CASE \E i \in DOMAIN pending : AnswersTo(pending[i], dues[k + 1])
      <4>1. PICK i \in DOMAIN pending : AnswersTo(pending[i], dues[k + 1])
        BY <3>2
      <4>2. i # 1
        <5>1. dues[1].sys = pending[1].sys /\ dues[k + 1].sys = pending[i].sys
          BY <1>1, <4>1 DEF AnswersTo
        <5>2. dues[1].sys \in Int
          BY <1>3 DEF Numbered
        <5>3. QED
          BY <3>1, <5>1, <5>2
      <4>3. QED
        BY <1>2, <3>1, <4>1, <4>2
    <3>3. CASE \E j \in DOMAIN frames : frames[j].sys = dues[k + 1].sys /\ Expects(state, frames, j) # "none"
      BY <3>1, <3>3
    <3>4. QED
      BY <3>1, <3>2, <3>3 DEF Service, DuesAreServed
  <2>2. QED
    BY <2>1 DEF DuesAreServed
<1>6. QED
  BY <1>4, <1>5 DEF Service, p, d


(* The event reports of a job are read, or written, between the answers.    *)
LEMMA EventRead ==
  ASSUME NEW P, NEW pending \in Seq(P), pending # <<>>, NEW dues, NEW frames,
         Line(frames, dues, pending), ~IsAnswer(pending[1])
  PROVE  Line(frames, dues, Tail(pending))
<1> DEFINE p == Tail(pending)
<1>1. /\ \A i \in DOMAIN p : i + 1 \in DOMAIN pending /\ p[i] = pending[i + 1] /\ i \in Nat \ {0}
      /\ \A i \in DOMAIN pending : i # 1 => i - 1 \in DOMAIN p /\ p[i - 1] = pending[i]
      /\ DOMAIN pending = 1 .. Len(pending) /\ Len(pending) \in Nat
  BY TailFacts
<1> HIDE DEF p
<1>2. AnswersRise(p, frames)
  <2>1. ASSUME NEW i \in DOMAIN p, IsAnswer(p[i])
        PROVE  /\ \A j \in DOMAIN p : i < j /\ IsAnswer(p[j]) => p[i].sys < p[j].sys
               /\ \A j \in DOMAIN frames : p[i].sys < frames[j].sys
    <3>1. i + 1 \in DOMAIN pending /\ p[i] = pending[i + 1]
      BY <1>1
    <3>2. \A j \in DOMAIN p : i < j => i + 1 < j + 1
      BY <1>1
    <3>3. QED
      BY <2>1, <3>1, <3>2, <1>1 DEF Line, AnswersRise
  <2>2. QED
    BY <2>1 DEF AnswersRise
<1>3. InOrder(p, dues)
  <2>1. ASSUME NEW i \in DOMAIN p, IsAnswer(p[i])
        PROVE  \E k \in DOMAIN dues :
                 /\ AnswersTo(p[i], dues[k])
                 /\ \A h \in 1 .. k - 1 : \E j \in 1 .. i - 1 : AnswersTo(p[j], dues[h])
    <3>1. i + 1 \in DOMAIN pending /\ p[i] = pending[i + 1] /\ i \in Nat \ {0}
      BY <1>1
    <3>2. PICK k \in DOMAIN dues :
            /\ AnswersTo(pending[i + 1], dues[k])
            /\ \A h \in 1 .. k - 1 : \E j \in 1 .. (i + 1) - 1 : AnswersTo(pending[j], dues[h])
      BY <2>1, <3>1 DEF Line, InOrder
    <3>3. ASSUME NEW h \in 1 .. k - 1
          PROVE  \E j \in 1 .. i - 1 : AnswersTo(p[j], dues[h])
      <4>1. PICK j \in 1 .. (i + 1) - 1 : AnswersTo(pending[j], dues[h])
        BY <3>2
      <4>2. j # 1
        BY <4>1 DEF AnswersTo
      <4>3. j - 1 \in 1 .. i - 1 /\ j \in DOMAIN pending
        BY <1>1, <3>1, <4>1, <4>2
      <4>4. p[j - 1] = pending[j]
        BY <1>1, <4>2, <4>3
      <4>5. QED
        BY <4>1, <4>3, <4>4
    <3>4. QED
      BY <3>1, <3>2, <3>3
  <2>2. QED
    BY <2>1 DEF InOrder
<1>4. QED
  BY <1>2, <1>3 DEF Line, p

(* ... and the service continues.                                          *)
LEMMA EventReadServed ==
  ASSUME NEW P, NEW pending \in Seq(P), pending # <<>>, NEW dues, NEW frames, NEW state,
         Service(state, frames, dues, pending), ~IsAnswer(pending[1])
  PROVE  Service(state, frames, dues, Tail(pending))
<1>1. \A i \in DOMAIN pending : i # 1 => i - 1 \in DOMAIN Tail(pending) /\ Tail(pending)[i - 1] = pending[i]
  BY TailFacts
<1>2. \A k \in DOMAIN dues : ~AnswersTo(pending[1], dues[k])
  BY DEF AnswersTo
<1>3. QED
  BY <1>1, <1>2 DEF Service, DuesAreServed

(* An event report joins the pending answers.                              *)
LEMMA EventWritten ==
  ASSUME NEW P, NEW pending \in Seq(P), NEW dues, NEW frames, NEW state,
         Line(frames, dues, pending), NEW e, ~IsAnswer(e)
  PROVE  /\ Line(frames, dues, Append(pending, e))
         /\ Service(state, frames, dues, pending) => Service(state, frames, dues, Append(pending, e))
<1> DEFINE p == Append(pending, e)
<1>1. /\ \A i \in DOMAIN pending : i \in DOMAIN p /\ p[i] = pending[i]
      /\ \A i \in DOMAIN p : i \in DOMAIN pending \/ p[i] = e
      /\ DOMAIN pending = 1 .. Len(pending) /\ Len(pending) \in Nat
  BY e \in {e}, AppendFacts
<1> HIDE DEF p
<1>2. AnswersRise(p, frames)
  BY <1>1 DEF Line, AnswersRise
<1>3. InOrder(p, dues)
  <2>1. ASSUME NEW i \in DOMAIN p, IsAnswer(p[i])
        PROVE  \E k \in DOMAIN dues :
                 /\ AnswersTo(p[i], dues[k])
                 /\ \A h \in 1 .. k - 1 : \E j \in 1 .. i - 1 : AnswersTo(p[j], dues[h])
    <3>1. i \in DOMAIN pending /\ p[i] = pending[i]
      BY <1>1, <2>1
    <3>2. PICK k \in DOMAIN dues :
            /\ AnswersTo(pending[i], dues[k])
            /\ \A h \in 1 .. k - 1 : \E j \in 1 .. i - 1 : AnswersTo(pending[j], dues[h])
      BY <2>1, <3>1 DEF Line, InOrder
    <3>3. \A j \in 1 .. i - 1 : p[j] = pending[j]
      BY <1>1, <3>1
    <3>4. QED
      BY <3>1, <3>2, <3>3
  <2>2. QED
    BY <2>1 DEF InOrder
<1>4. Service(state, frames, dues, pending) => Service(state, frames, dues, p)
  BY <1>1 DEF Service, DuesAreServed
<1>5. QED
  BY <1>2, <1>3, <1>4 DEF Line, p


-----------------------------------------------------------------------------
(* The peer sends. *)

(* A new frame does not change what the others expect.                      *)
LEMMA ExpectationsOfOthersStay ==
  ASSUME NEW F, NEW frames \in Seq(F), NEW f, NEW state
  PROVE  /\ \A j \in DOMAIN frames : Expects(state, Append(frames, f), j) = Expects(state, frames, j)
         /\ \A j \in 1 .. Len(frames) + 1 :
              SelectedBefore(state, Append(frames, f), j) <=> SelectedBefore(state, frames, j)
<1>1. /\ \A i \in DOMAIN frames : Append(frames, f)[i] = frames[i]
      /\ DOMAIN frames = 1 .. Len(frames) /\ Len(frames) \in Nat
  BY f \in {f}, AppendFacts
<1>2. ASSUME NEW j \in 1 .. Len(frames) + 1
      PROVE  SelectedBefore(state, Append(frames, f), j) <=> SelectedBefore(state, frames, j)
  <2>1. \A h \in 1 .. j - 1 : Append(frames, f)[h] = frames[h]
    BY <1>1
  <2>2. QED
    BY <2>1 DEF SelectedBefore
<1>3. ASSUME NEW j \in DOMAIN frames
      PROVE  Expects(state, Append(frames, f), j) = Expects(state, frames, j)
  <2>1. j \in 1 .. Len(frames) + 1 /\ Append(frames, f)[j] = frames[j]
    BY <1>1
  <2>2. SelectedBefore(state, Append(frames, f), j) <=> SelectedBefore(state, frames, j)
    BY <2>1, <1>2
  <2>3. QED
    BY <2>1, <2>2 DEF Expects, Expected
<1>4. QED
  BY <1>2, <1>3

(* A frame with a new number is sent, and perhaps something is due for it.  *)
LEMMA FrameSent ==
  ASSUME NEW F, NEW frames \in Seq(F), Numbered(frames), NEW n \in Int,
         NEW D, NEW dues \in Seq(D), Numbered(dues), NEW pending,
         Line(frames, dues, pending), NEW f, f.sys = n,
         \A i \in DOMAIN frames : frames[i].sys < n,
         \A k \in DOMAIN dues : dues[k].sys < n,
         NEW d, d.sys = n
  PROVE  Line(Append(frames, f), dues, pending) /\ Line(Append(frames, f), Append(dues, d), pending)
<1> SUFFICES ASSUME NEW more \in {dues, Append(dues, d)}
             PROVE  Line(Append(frames, f), more, pending)
  OBVIOUS
<1> DEFINE all == Append(frames, f)
<1>1. \A i \in DOMAIN all : (i \in DOMAIN frames /\ all[i] = frames[i]) \/ (i = Len(frames) + 1 /\ all[i] = f)
  BY f \in {f}, AppendFacts
<1>2. Rising(all)
  BY f \in {f}, AppendRises DEF Line
<1>3. Rising(more)
  BY d \in {d}, AppendRises DEF Line
<1>4. \A k \in DOMAIN dues : k \in DOMAIN more /\ more[k] = dues[k]
  <2>1. \A k \in DOMAIN dues : k \in DOMAIN Append(dues, d) /\ Append(dues, d)[k] = dues[k]
    BY d \in {d}, AppendFacts
  <2>2. more = dues \/ more = Append(dues, d)
    OBVIOUS
  <2>3. QED
    BY <2>1, <2>2
<1>5. DOMAIN dues = 1 .. Len(dues) /\ Len(dues) \in Nat
  OBVIOUS
<1> HIDE DEF all
<1>6. \A i \in DOMAIN pending : IsAnswer(pending[i]) => pending[i].sys < n
  BY DEF Line, InOrder, AnswersTo
<1>7. AnswersRise(pending, all)
  BY <1>1, <1>6 DEF Line, AnswersRise
<1>8. InOrder(pending, more)
  <2>1. ASSUME NEW i \in DOMAIN pending, IsAnswer(pending[i])
        PROVE  \E k \in DOMAIN more :
                 /\ AnswersTo(pending[i], more[k])
                 /\ \A h \in 1 .. k - 1 : \E j \in 1 .. i - 1 : AnswersTo(pending[j], more[h])
    <3>1. PICK k \in DOMAIN dues :
            /\ AnswersTo(pending[i], dues[k])
            /\ \A h \in 1 .. k - 1 : \E j \in 1 .. i - 1 : AnswersTo(pending[j], dues[h])
      BY <2>1 DEF Line, InOrder
    <3>2. \A h \in 1 .. k - 1 : more[h] = dues[h]
      BY <1>4, <1>5
    <3>3. QED
      BY <1>4, <3>1, <3>2
  <2>2. QED
    BY <2>1 DEF InOrder
<1>9. QED
  BY <1>2, <1>3, <1>7, <1>8 DEF Line, all

(* ... and the service continues.                                          *)
LEMMA FrameSentServed ==
  ASSUME NEW F, NEW frames \in Seq(F), NEW state,
         NEW D, NEW dues \in Seq(D), NEW pending,
         Service(state, frames, dues, pending), NEW f,
         NEW answer, answer = Expected(SelectedBefore(state, frames, Len(frames) + 1), f.type, f.req),
         NEW d, d.sys = f.sys, d.type = answer, d.req = f.req,
         NEW more, more = IF answer = "none" THEN dues ELSE Append(dues, d)
  PROVE  Service(state, Append(frames, f), more, pending)
<1> DEFINE all  == Append(frames, f)
           last == Len(frames) + 1
<1>1. /\ \A i \in DOMAIN frames : i \in DOMAIN all /\ all[i] = frames[i]
      /\ \A i \in DOMAIN all : i \in DOMAIN frames \/ i = last
      /\ last \in DOMAIN all /\ all[last] = f /\ last \in 1 .. last
  BY f \in {f}, AppendFacts
<1>2. /\ \A k \in DOMAIN dues : k \in DOMAIN more /\ more[k] = dues[k]
      /\ \A k \in DOMAIN more : k \in DOMAIN dues \/ (more[k] = d /\ answer # "none")
  BY d \in {d}, AppendFacts
<1>3. answer # "none" => \E k \in DOMAIN more : more[k] = d
  BY d \in {d}, AppendFacts
<1>4. \A j \in DOMAIN frames : Expects(state, all, j) = Expects(state, frames, j)
  BY ExpectationsOfOthersStay
<1>5. Expects(state, all, last) = answer
  <2>1. SelectedBefore(state, all, last) <=> SelectedBefore(state, frames, last)
    BY <1>1, ExpectationsOfOthersStay
  <2> HIDE DEF all, last
  <2>2. QED
    BY <1>1, <2>1 DEF Expects, Expected, last
<1> HIDE DEF all, last
<1>6. FramesAreDue(state, all, more)
  <2>1. ASSUME NEW j \in DOMAIN all, Expects(state, all, j) # "none"
        PROVE  \E k \in DOMAIN more : /\ more[k].sys = all[j].sys /\ more[k].req = all[j].req
                                      /\ more[k].type = Expects(state, all, j)
    <3>1. CASE j \in DOMAIN frames
      <4>1. all[j] = frames[j] /\ Expects(state, all, j) = Expects(state, frames, j)
        BY <3>1, <1>1, <1>4
      <4>2. PICK k \in DOMAIN dues : /\ dues[k].sys = frames[j].sys /\ dues[k].req = frames[j].req
                                     /\ dues[k].type = Expects(state, frames, j)
        BY <2>1, <3>1, <4>1 DEF Service, FramesAreDue
      <4>3. QED
        BY <1>2, <4>1, <4>2
    <3>2. CASE j = last
      BY <2>1, <3>2, <1>1, <1>3, <1>5
    <3>3. QED
      BY <3>1, <3>2, <1>1
  <2>2. QED
    BY <2>1 DEF FramesAreDue
<1>7. DuesAreServed(state, all, more, pending)
  <2>1. ASSUME NEW k \in DOMAIN more
        PROVE  \/ \E i \in DOMAIN pending : AnswersTo(pending[i], more[k])
               \/ \E j \in DOMAIN all : all[j].sys = more[k].sys /\ Expects(state, all, j) # "none"
    <3>1. CASE k \in DOMAIN dues
      <4>1. more[k] = dues[k]
        BY <3>1, <1>2
      <4>2. \/ \E i \in DOMAIN pending : AnswersTo(pending[i], dues[k])
            \/ \E j \in DOMAIN frames : frames[j].sys = dues[k].sys /\ Expects(state, frames, j) # "none"
        BY <3>1 DEF Service, DuesAreServed
      <4>3. QED
        BY <1>1, <1>4, <4>1, <4>2
    <3>2. CASE k \notin DOMAIN dues
      <4>1. more[k] = d /\ answer # "none"
        BY <3>2, <1>2
      <4>2. all[last].sys = more[k].sys /\ Expects(state, all, last) # "none" /\ last \in DOMAIN all
        BY <4>1, <1>1, <1>5
      <4>3. QED
        BY <4>2
    <3>3. QED
      BY <3>1, <3>2
  <2>2. QED
    BY <2>1 DEF DuesAreServed
<1>8. QED
  BY <1>6, <1>7 DEF Service, all


-----------------------------------------------------------------------------
(* The engine *)

(* Which handler a message goes to.                                         *)
LEMMA HandlerOf ==
  ASSUME NEW engine, NEW req
  PROVE  /\ req.type \in {"S1F13", "S1F15", "S1F17", "S2F41"} =>
              HandleMessage(engine, req) = Result(engine, Acknowledge(Secondary[req.type], 0))
         /\ req.type = "S1F1"  => HandleMessage(engine, req) = OnLineData(engine)
         /\ req.type = "S1F3"  => HandleMessage(engine, req) = StatusValues(engine, req)
         /\ req.type = "S2F13" => HandleMessage(engine, req) = EquipmentConstants(engine, req)
         /\ req.type = "S2F15" => HandleMessage(engine, req) = NewEquipmentConstants(engine, req)
         /\ req.type = "S2F31" => HandleMessage(engine, req) = DateTime(engine, req)
         /\ req.type = "S7F1"  => HandleMessage(engine, req) = LoadPpRequest(engine, req)
         /\ req.type = "S7F3"  => HandleMessage(engine, req) = ProcessProgram(engine, req)
         /\ req.type = "S7F5"  => HandleMessage(engine, req) = PpRequest(engine, req)
         /\ req.type = "S10F3" => HandleMessage(engine, req) = Terminal(engine, req)
         /\ req.type \notin DOMAIN Secondary => HandleMessage(engine, req) = Result(engine, NoReply)
<1>1. DOMAIN Granted = {"S1F13", "S1F15", "S1F17", "S2F41"}
  BY DEF Granted
<1>2. DOMAIN Secondary = {"S1F1", "S1F3", "S1F13", "S1F15", "S1F17", "S2F13", "S2F15", "S2F31",
                          "S2F41", "S7F1", "S7F3", "S7F5", "S10F3"}
  BY DEF Secondary
<1>3. \A t \in {"S1F13", "S1F15", "S1F17", "S2F41"} : Granted[t] = Secondary[t]
  BY DEF Granted, Secondary
<1>4. QED
  BY <1>1, <1>2, <1>3 DEF HandleMessage


Below == {p \in Nat \X Nat : p[1] < p[2]}

(* Every set of naturals that is not empty has a least member, and every    *)
(* bounded one a greatest.                                                  *)
LEMMA LeastNatural ==
  ASSUME NEW S \in SUBSET Nat, S # {}
  PROVE  \E k \in S : \A i \in S : k <= i
<1>1. OpToRel(<, Nat) = Below
  BY ZenonT(20) DEF OpToRel, Below
<1>2. IsWellFoundedOn(Below, Nat)
  BY <1>1, NatLessThanWellFounded, Zenon
<1>3. PICK k \in S : \A i \in S : ~ (<<i, k>> \in Below)
  BY <1>2, WFMin
<1>4. \A i \in S : ~ (i < k)
  BY <1>3 DEF Below
<1> QED
  BY <1>4

(* A finite set of naturals that is not empty has a greatest member.       *)
LEMMA Greatest ==
  ASSUME NEW n \in Nat, NEW S \in SUBSET (1 .. n), S # {}
  PROVE  Max(S) \in S /\ \A x \in S : Max(S) >= x
<1> DEFINE T == {x \in 0 .. n : n - x \in S}
<1>1. T \in SUBSET Nat /\ T # {}
  <2>1. PICK x \in S : TRUE
    OBVIOUS
  <2>2. n - x \in 0 .. n /\ n - (n - x) = x
    BY <2>1
  <2>3. n - x \in T
    BY <2>1, <2>2
  <2>4. \A y \in T : y \in Nat
    OBVIOUS
  <2> HIDE DEF T
  <2>5. QED
    BY <2>3, <2>4
<1>2. PICK k \in T : \A i \in T : k <= i
  <2> HIDE DEF T
  <2>1. QED
    BY <1>1, LeastNatural
<1>3. n - k \in S
  OBVIOUS
<1>4. \A x \in S : n - k >= x
  <2>1. ASSUME NEW x \in S PROVE n - k >= x
    <3>1. n - x \in T
      BY <2>1
    <3>2. k <= n - x /\ k \in Nat /\ x \in Nat
      BY <1>2, <3>1
    <3>3. QED
      BY <3>2
  <2>2. QED
    BY <2>1
<1>5. \E x \in S : \A y \in S : x >= y
  BY <1>3, <1>4
<1> HIDE DEF T
<1>6. QED
  BY <1>5 DEF Max

(* What a handler keeps of the engine, and that its reply tells the values  *)
(* that are stored after it.                                                *)
Keeps(engine, next) == EngineOK(next) /\ \A n \in Names : Value(engine, n) <= Value(next, n)
TellsTruth(next, reply, req) ==
  \A n \in Names :
    About(reply, req, n) # {} => reply.tells[Max(About(reply, req, n))] = Value(next, n)

LEMMA ValueTypes ==
  ASSUME NEW engine, EngineOK(engine), NEW n
  PROVE  /\ Value(engine, n) \in Nat
         /\ ValueOf(engine.ecids, n) \in 0 .. engine.clock
         /\ ValueOf(engine.programs, n) \in 0 .. engine.clock
<1>1. n \in DOMAIN engine.ecids => engine.ecids[n] \in Range(engine.ecids)
  BY DEF Range
<1>2. n \in DOMAIN engine.programs => engine.programs[n] \in Range(engine.programs)
  BY DEF Range
<1>3. ValueOf(engine.ecids, n) \in 0 .. engine.clock /\ ValueOf(engine.programs, n) \in 0 .. engine.clock
  BY <1>1, <1>2 DEF EngineOK, ValueOf, Missing
<1>4. ValueOf([s \in Svids |-> 1], n) \in Nat
  BY DEF ValueOf, Missing
<1>5. engine.clock \in Nat
  BY DEF EngineOK
<1>6. QED
  BY <1>3, <1>4, <1>5 DEF Value

(* A handler that stores no value.                                          *)
LEMMA SameValues ==
  ASSUME NEW engine, EngineOK(engine), NEW next, EngineOK(next),
         next.ecids = engine.ecids, next.programs = engine.programs
  PROVE  Keeps(engine, next)
<1>1. \A n : Value(engine, n) = Value(next, n)
  BY DEF Value
<1>2. QED
  BY <1>1, ValueTypes DEF Keeps

LEMMA NothingTold ==
  ASSUME NEW next, NEW reply, NEW req, DOMAIN reply.tells = {}
  PROVE  TellsTruth(next, reply, req)
BY DEF TellsTruth, About


(* Names in a request are of its kind.                                      *)
LEMMA NamesAsked ==
  ASSUME ServerAssumption, NEW req \in Requests \cup OtherRequests, NEW types, req.type \in types,
         NEW n \in Names, NEW i \in DOMAIN req.names, req.names[i] = n
  PROVE  n # Malformed /\ n \in NamesIn(types)
<1>1. n # Malformed
  BY DEF ServerAssumption, Names
<1>2. n \in Range(req.names)
  BY DEF Range
<1>3. req \in {r \in Requests \cup OtherRequests : r.type \in types}
  OBVIOUS
<1>4. n \in UNION {Range(r.names) : r \in {r \in Requests \cup OtherRequests : r.type \in types}}
  BY <1>2, <1>3, Zenon
<1>5. QED
  BY <1>1, <1>4 DEF NamesIn

LEMMA KindsApart ==
  ASSUME NamesAreApart, NEW engine, NEW n
  PROVE  /\ n \in StatusNames => Value(engine, n) = ValueOf([s \in Svids |-> 1], n)
         /\ n \in ConstantNames => Value(engine, n) = ValueOf(engine.ecids, n)
         /\ n \in ProgramNames => Value(engine, n) = ValueOf(engine.programs, n)
BY DEF NamesAreApart, Value

(* What is looked up is told.                                               *)
LEMMA LookTells ==
  ASSUME ServerAssumption, NEW req \in Requests \cup OtherRequests, NEW engine, NEW map,
         NEW names \in {req.names, <<Ppid(req)>>},
         \A n \in NamesIn({req.type}) : Value(engine, n) = ValueOf(map, n),
         NEW reply, reply.tells = Look(map, names)
  PROVE  TellsTruth(engine, reply, req)
<1>1. req.names \in Seq(STRING)
  BY DEF ServerAssumption
<1>2. ASSUME NEW n \in Names, About(reply, req, n) # {}
      PROVE  reply.tells[Max(About(reply, req, n))] = Value(engine, n)
  <2>1. About(reply, req, n) \subseteq 1 .. Len(req.names) /\ Len(req.names) \in Nat
    BY <1>1 DEF About
  <2>2. PICK m \in About(reply, req, n) : m = Max(About(reply, req, n))
    BY <1>2, <2>1, Greatest
  <2>3. m \in DOMAIN req.names /\ req.names[m] = n /\ m \in DOMAIN Look(map, names)
    BY <2>2 DEF About
  <2>4. n # Malformed /\ n \in NamesIn({req.type})
    BY <2>3, NamesAsked
  <2>5. names # <<>> /\ m \in DOMAIN names /\ names[m] = n
    <3>1. req.names # <<>>
      BY <1>1, <2>3
    <3>2. names # <<>>
      <4>1. <<Ppid(req)>> # <<>>
        OBVIOUS
      <4>2. QED
        BY <3>1, <4>1
    <3>3. DOMAIN Look(map, names) = DOMAIN names
      BY <3>2 DEF Look
    <3>4. CASE names = <<Ppid(req)>>
      <4>1. m = 1
        BY <2>3, <3>3, <3>4
      <4>2. Head(req.names) = n
        BY <1>1, <3>1, <2>3, <4>1
      <4>3. Ppid(req) = n
        BY <4>2, <3>1, <2>4 DEF Ppid
      <4>4. QED
        BY <3>4, <4>1, <4>3
    <3>5. QED
      BY <3>2, <3>4, <2>3
  <2>6. Look(map, names)[m] = ValueOf(map, n)
    BY <2>5 DEF Look, ValueOf
  <2>7. QED
    BY <2>2, <2>4, <2>6
<1>3. QED
  BY <1>2 DEF TellsTruth


(* What a handler does: it answers with its secondary message, keeps the    *)
(* engine's values in order, and tells the values that are stored.          *)
Handled(engine, r, req) ==
  /\ r.reply.type = Secondary[req.type]
  /\ Keeps(engine, r.engine) /\ TellsTruth(r.engine, r.reply, req)

(* Handlers that read leave the engine as it is and tell what is stored.   *)
LEMMA HandlersThatRead ==
  ASSUME ServerAssumption, NamesAreApart, NEW engine, EngineOK(engine),
         NEW req \in Requests \cup OtherRequests
  PROVE  /\ req.type = "S1F3" => Handled(engine, StatusValues(engine, req), req)
         /\ req.type = "S2F13" => Handled(engine, EquipmentConstants(engine, req), req)
         /\ req.type = "S7F5" => Handled(engine, PpRequest(engine, req), req)
<1>0. Keeps(engine, engine)
  BY SameValues
<1>1. ASSUME req.type = "S1F3" PROVE Handled(engine, StatusValues(engine, req), req)
  <2>1. \A n \in NamesIn({req.type}) : Value(engine, n) = ValueOf([s \in Svids |-> 1], n)
    BY <1>1, KindsApart DEF StatusNames
  <2>2. TellsTruth(engine, StatusValues(engine, req).reply, req)
    BY <2>1, LookTells DEF StatusValues, Result, Reply
  <2>3. QED
    BY <1>0, <1>1, <2>2 DEF Handled, StatusValues, Result, Reply, Secondary
<1>2. ASSUME req.type = "S2F13" PROVE Handled(engine, EquipmentConstants(engine, req), req)
  <2>1. \A n \in NamesIn({req.type}) : Value(engine, n) = ValueOf(engine.ecids, n)
    BY <1>2, KindsApart DEF ConstantNames, NamesIn
  <2>2. TellsTruth(engine, EquipmentConstants(engine, req).reply, req)
    BY <2>1, LookTells DEF EquipmentConstants, Result, Reply
  <2>3. QED
    BY <1>0, <1>2, <2>2 DEF Handled, EquipmentConstants, Result, Reply, Secondary
<1>3. ASSUME req.type = "S7F5" PROVE Handled(engine, PpRequest(engine, req), req)
  <2>1. \A n \in NamesIn({req.type}) : Value(engine, n) = ValueOf(engine.programs, n)
    BY <1>3, KindsApart DEF ProgramNames, NamesIn
  <2>2. TellsTruth(engine, PpRequest(engine, req).reply, req)
    BY <2>1, LookTells DEF PpRequest, Result, Reply
  <2>3. QED
    BY <1>0, <1>3, <2>2 DEF Handled, PpRequest, Result, Reply, Secondary
<1>4. QED
  BY <1>1, <1>2, <1>3

(* Handlers that acknowledge store no value and tell nothing of one.       *)
LEMMA HandlersThatAcknowledge ==
  ASSUME NEW engine, EngineOK(engine), NEW req
  PROVE  /\ req.type \in {"S1F13", "S1F15", "S1F17", "S2F41"} =>
              Handled(engine, Result(engine, Acknowledge(Secondary[req.type], 0)), req)
         /\ req.type = "S1F1" => Handled(engine, OnLineData(engine), req)
         /\ req.type = "S2F31" => Handled(engine, DateTime(engine, req), req)
         /\ req.type = "S7F1" => Handled(engine, LoadPpRequest(engine, req), req)
         /\ req.type = "S10F3" => Handled(engine, Terminal(engine, req), req)
<1>1. Keeps(engine, engine)
  BY SameValues
<1>2. \A type, code : TellsTruth(engine, Acknowledge(type, code), req)
  BY NothingTold DEF Acknowledge, Reply
<1>3. req.type \in {"S1F13", "S1F15", "S1F17", "S2F41"} =>
        Handled(engine, Result(engine, Acknowledge(Secondary[req.type], 0)), req)
  BY <1>1, <1>2 DEF Handled, Result, Acknowledge, Reply
<1>4. req.type = "S1F1" => Handled(engine, OnLineData(engine), req)
  BY <1>1, NothingTold DEF Handled, OnLineData, Result, Reply, Secondary
<1>5. req.type = "S7F1" => Handled(engine, LoadPpRequest(engine, req), req)
  BY <1>1, <1>2 DEF Handled, LoadPpRequest, Result, Acknowledge, Reply, Secondary
<1>6. ASSUME NEW next, next = [engine EXCEPT !.date = @ + 1] \/ next = engine
                       \/ next = [engine EXCEPT !.terminal = Append(@, Len(@) + 1)]
      PROVE  Keeps(engine, next)
  <2>1. engine = [ecids |-> engine.ecids, programs |-> engine.programs, date |-> engine.date,
                  terminal |-> engine.terminal, clock |-> engine.clock, refused |-> engine.refused]
    BY DEF EngineOK
  <2>2. /\ next.ecids = engine.ecids /\ next.programs = engine.programs
        /\ next.clock = engine.clock /\ next.refused = engine.refused
        /\ next = [ecids |-> next.ecids, programs |-> next.programs, date |-> next.date,
                   terminal |-> next.terminal, clock |-> next.clock, refused |-> next.refused]
    BY <1>6, <2>1
  <2>3. EngineOK(next)
    BY <2>2 DEF EngineOK
  <2>4. QED
    BY <2>2, <2>3, SameValues
<1>7. req.type = "S2F31" => Handled(engine, DateTime(engine, req), req)
  <2>1. Keeps(engine, DateTime(engine, req).engine)
    BY <1>6 DEF DateTime, Result
  <2>2. QED
    BY <2>1, NothingTold DEF Handled, DateTime, Result, Acknowledge, Reply, Secondary
<1>8. req.type = "S10F3" => Handled(engine, Terminal(engine, req), req)
  <2>1. Keeps(engine, Terminal(engine, req).engine)
    BY <1>6 DEF Terminal, Result
  <2>2. QED
    BY <2>1, NothingTold DEF Handled, Terminal, Result, Acknowledge, Reply, Secondary
<1>9. QED
  BY <1>3, <1>4, <1>5, <1>7, <1>8


(* A map after a handler: what is in it was there, or is of the new values. *)
Grows(map, after, new) ==
  /\ DOMAIN map \subseteq DOMAIN after
  /\ \A n \in DOMAIN after : after[n] \in new \/ (n \in DOMAIN map /\ after[n] = map[n])

LEMMA WrittenGrows ==
  ASSUME NEW map, NEW values, NEW new, \A n \in DOMAIN values : values[n] \in new
  PROVE  Grows(map, Written(map, values), new)
BY DEF Grows, Written

(* Writes bring newer values.                                              *)
LEMMA ValuesGrow ==
  ASSUME NEW map, NEW after, NEW clock \in Nat, NEW new \in SUBSET Nat, Grows(map, after, new),
         \A x \in new : x > clock, \A m : ValueOf(map, m) \in 0 .. clock,
         NEW n
  PROVE  ValueOf(map, n) <= ValueOf(after, n)
<1>1. ValueOf(map, n) \in 0 .. clock
  OBVIOUS
<1>2. CASE n \in DOMAIN after /\ after[n] \in new
  <2>1. ValueOf(after, n) = after[n]
    BY <1>2 DEF ValueOf
  <2>2. after[n] \in Nat /\ after[n] > clock
    BY <1>2
  <2>3. QED
    BY <1>1, <2>1, <2>2
<1>3. CASE n \in DOMAIN map /\ n \in DOMAIN after /\ after[n] = map[n]
  BY <1>1, <1>3 DEF ValueOf
<1>4. CASE n \notin DOMAIN after
  BY <1>1, <1>4 DEF ValueOf, Grows
<1>5. QED
  BY <1>2, <1>3, <1>4 DEF Grows

LEMMA WritesKeep ==
  ASSUME NEW engine, EngineOK(engine), NEW next,
         next = [ecids |-> next.ecids, programs |-> next.programs, date |-> next.date,
                 terminal |-> next.terminal, clock |-> next.clock, refused |-> next.refused],
         next.clock \in Nat, engine.clock <= next.clock,
         NEW extra \in SUBSET (engine.clock + 1 .. next.clock),
         next.refused = engine.refused \cup extra,
         NEW new, new = (engine.clock + 1 .. next.clock) \ extra,
         Grows(engine.ecids, next.ecids, new), Grows(engine.programs, next.programs, new)
  PROVE  Keeps(engine, next)
<1>1. engine.clock \in Nat /\ engine.refused \subseteq 1 .. engine.clock
  BY DEF EngineOK
<1>2. next.refused \subseteq 1 .. next.clock
  BY <1>1
<1>3. Ecids \subseteq DOMAIN next.ecids
  BY DEF EngineOK, Grows
<1>4. new \subseteq (0 .. next.clock) \ next.refused
  BY <1>1
<1>5. (0 .. engine.clock) \ engine.refused \subseteq (0 .. next.clock) \ next.refused
  BY <1>1
<1>6. ASSUME NEW map, NEW after, Grows(map, after, new),
             Range(map) \subseteq (0 .. engine.clock) \ engine.refused
      PROVE  Range(after) \subseteq (0 .. next.clock) \ next.refused
  <2>1. \A n \in DOMAIN map : map[n] \in Range(map)
    BY DEF Range
  <2>2. \A n \in DOMAIN after : after[n] \in (0 .. next.clock) \ next.refused
    BY <1>4, <1>5, <1>6, <2>1 DEF Grows
  <2>3. QED
    BY <2>2 DEF Range
<1>7. Range(engine.ecids) \subseteq (0 .. engine.clock) \ engine.refused
      /\ Range(engine.programs) \subseteq (0 .. engine.clock) \ engine.refused
  BY DEF EngineOK
<1>8. Range(next.ecids) \cup Range(next.programs) \subseteq (0 .. next.clock) \ next.refused
  BY <1>6, <1>7
<1>9. EngineOK(next)
  BY <1>2, <1>3, <1>8 DEF EngineOK
<1>10. new \in SUBSET Nat /\ \A x \in new : x > engine.clock
  BY <1>1
<1>11. \A n : /\ ValueOf(engine.ecids, n) <= ValueOf(next.ecids, n)
              /\ ValueOf(engine.programs, n) <= ValueOf(next.programs, n)
  BY <1>1, <1>10, ValuesGrow, ValueTypes
<1>12. \A n : ValueOf([s \in Svids |-> 1], n) <= ValueOf([s \in Svids |-> 1], n)
  BY DEF ValueOf, Missing
<1>13. QED
  BY <1>9, <1>11, <1>12 DEF Keeps, Value

(* S7F3 stores one program or refuses it.                                  *)
LEMMA ProgramIsHandled ==
  ASSUME ServerAssumption, NamesAreApart, NEW engine, EngineOK(engine),
         NEW req \in Requests \cup OtherRequests, req.type = "S7F3"
  PROVE  Handled(engine, ProcessProgram(engine, req), req)
<1> DEFINE stored == req.shape \in {"binary", "ascii"}
           value  == engine.clock + 1
           r      == ProcessProgram(engine, req)
           extra  == IF stored THEN {} ELSE {value}
           new    == (engine.clock + 1 .. value) \ extra
           kept   == [p \in {Ppid(req)} |-> value]
<1>1. engine = [ecids |-> engine.ecids, programs |-> engine.programs, date |-> engine.date,
                terminal |-> engine.terminal, clock |-> engine.clock, refused |-> engine.refused]
      /\ engine.clock \in Nat
  BY DEF EngineOK
<1>2. /\ r.engine.ecids = engine.ecids /\ r.engine.clock = value
      /\ r.engine.refused = engine.refused \cup extra
      /\ r.engine.programs = IF stored THEN Written(engine.programs, kept) ELSE engine.programs
      /\ r.engine = [ecids |-> r.engine.ecids, programs |-> r.engine.programs, date |-> r.engine.date,
                     terminal |-> r.engine.terminal, clock |-> r.engine.clock,
                     refused |-> r.engine.refused]
  BY <1>1 DEF ProcessProgram, Result
<1>3. r.reply.type = "S7F4" /\ r.reply.tells = IF stored THEN <<value>> ELSE <<>>
  BY DEF ProcessProgram, Result, Reply, Acknowledge
<1>4. extra \in SUBSET (engine.clock + 1 .. value) /\ value \in Nat /\ engine.clock <= value
  BY <1>1
<1>5. stored => value \in new
  BY <1>1
<1>6. Grows(engine.ecids, r.engine.ecids, new)
  BY <1>2 DEF Grows
<1>7. Grows(engine.programs, r.engine.programs, new)
  <2>1. CASE stored
    <3>1. \A n \in DOMAIN kept : kept[n] \in new
      BY <1>5, <2>1
    <3> HIDE DEF kept, new, r
    <3>2. QED
      BY <1>2, <2>1, <3>1, WrittenGrows
  <2>2. CASE ~stored
    BY <1>2, <2>2 DEF Grows
  <2>3. QED
    BY <2>1, <2>2
<1>8. Keeps(engine, r.engine)
  <2> HIDE DEF r, value, extra
  <2>1. QED
    BY <1>2, <1>4, <1>6, <1>7, WritesKeep
<1>9. TellsTruth(r.engine, r.reply, req)
  <2>1. CASE ~stored
    BY <1>3, <2>1, NothingTold
  <2>2. CASE stored
    <3>1. ASSUME NEW n \in Names, About(r.reply, req, n) # {}
          PROVE  r.reply.tells[Max(About(r.reply, req, n))] = Value(r.engine, n)
      <4>1. r.reply.tells = <<value>>
        BY <1>3, <2>2
      <4>2. PICK i \in About(r.reply, req, n) : TRUE
        BY <3>1
      <4>3. i \in DOMAIN req.names /\ i = 1 /\ req.names[i] = n
        BY <4>1 DEF About
      <4>4. About(r.reply, req, n) = {1}
        BY <4>1, <4>2, <4>3 DEF About
      <4>5. Max(About(r.reply, req, n)) = 1
        BY <4>4 DEF Max
      <4>6. n # Malformed /\ n \in ProgramNames
        BY <4>3, NamesAsked DEF ProgramNames
      <4>7. Ppid(req) = n
        <5>1. req.names \in Seq(STRING)
          BY DEF ServerAssumption
        <5>2. req.names # <<>> /\ Head(req.names) = n
          BY <4>3, <5>1
        <5>3. QED
          BY <5>2, <4>6 DEF Ppid
      <4>8. Value(r.engine, n) = ValueOf(r.engine.programs, n)
        BY <4>6, KindsApart
      <4>9. ValueOf(r.engine.programs, n) = value
        BY <1>2, <2>2, <4>7 DEF ValueOf, Written
      <4>10. QED
        BY <4>1, <4>5, <4>8, <4>9
    <3>2. QED
      BY <3>1 DEF TellsTruth
  <2>3. QED
    BY <2>1, <2>2
<1>10. QED
  BY <1>3, <1>8, <1>9 DEF Handled, Secondary


(* S2F15 stores its well-formed pairs and keeps nothing of the others.     *)
LEMMA ConstantsAreHandled ==
  ASSUME ServerAssumption, NamesAreApart, NEW engine, EngineOK(engine),
         NEW req \in Requests \cup OtherRequests, req.type = "S2F15"
  PROVE  Handled(engine, NewEquipmentConstants(engine, req), req)
<1> DEFINE pairs    == DOMAIN req.names
           at(n)    == {i \in pairs : req.names[i] = n}
           refused  == {i \in pairs : req.names[i] = Malformed}
           stored   == [c \in {req.names[i] : i \in pairs \ refused} |-> engine.clock + Max(at(c))]
           r        == NewEquipmentConstants(engine, req)
           extra    == {engine.clock + i : i \in refused}
           clock    == engine.clock + Len(req.names)
           new      == (engine.clock + 1 .. clock) \ extra
<1>1. engine = [ecids |-> engine.ecids, programs |-> engine.programs, date |-> engine.date,
                terminal |-> engine.terminal, clock |-> engine.clock, refused |-> engine.refused]
      /\ engine.clock \in Nat
  BY DEF EngineOK
<1>2. req.names \in Seq(STRING) /\ Len(req.names) \in Nat /\ pairs = 1 .. Len(req.names)
  BY DEF ServerAssumption
<1>3. CASE req.shape # "list"
  <2>1. r.engine = engine /\ r.reply = Acknowledge("S2F16", 1)
    BY <1>3 DEF NewEquipmentConstants, Result
  <2>2. Keeps(engine, r.engine)
    BY <2>1, SameValues
  <2>3. TellsTruth(r.engine, r.reply, req) /\ r.reply.type = "S2F16"
    BY <2>1, NothingTold DEF Acknowledge, Reply
  <2>4. QED
    BY <2>2, <2>3 DEF Handled, Secondary
<1>4. CASE req.shape = "list"
  <2>1. /\ r.engine.ecids = Written(engine.ecids, stored) /\ r.engine.clock = clock
        /\ r.engine.refused = engine.refused \cup extra /\ r.engine.programs = engine.programs
        /\ r.engine = [ecids |-> r.engine.ecids, programs |-> r.engine.programs,
                       date |-> r.engine.date, terminal |-> r.engine.terminal,
                       clock |-> r.engine.clock, refused |-> r.engine.refused]
    BY <1>1, <1>4 DEF NewEquipmentConstants, Result
  <2>2. /\ r.reply.type = "S2F16" /\ DOMAIN r.reply.tells = pairs
        /\ \A i \in pairs : r.reply.tells[i] = IF i \in refused THEN Silent ELSE engine.clock + i
    BY <1>4 DEF NewEquipmentConstants, Result, Reply
  <2>3. \A n : at(n) # {} => Max(at(n)) \in at(n)
    <3>1. \A n : at(n) \in SUBSET (1 .. Len(req.names))
      BY <1>2
    <3> HIDE DEF at
    <3>2. QED
      BY <1>2, <3>1, Greatest
  <2>4. extra \in SUBSET (engine.clock + 1 .. clock) /\ clock \in Nat /\ engine.clock <= clock
    BY <1>1, <1>2
  <2>5. \A i \in pairs \ refused : engine.clock + i \in new
    <3>1. ASSUME NEW i \in pairs \ refused PROVE engine.clock + i \in new
      <4>1. i \in Nat /\ engine.clock + i \in engine.clock + 1 .. clock
        BY <1>1, <1>2
      <4>2. ASSUME engine.clock + i \in extra PROVE FALSE
        <5>1. PICK k \in refused : engine.clock + i = engine.clock + k
          BY <4>2
        <5>2. k \in Nat
          BY <1>2
        <5>3. k = i
          BY <1>1, <4>1, <5>1, <5>2
        <5>4. QED
          BY <5>3
      <4>3. QED
        BY <4>1, <4>2
    <3>2. QED
      BY <3>1
  <2>6. \A c \in DOMAIN stored : stored[c] = engine.clock + Max(at(c)) /\ Max(at(c)) \in pairs \ refused
    <3>1. ASSUME NEW c \in DOMAIN stored PROVE Max(at(c)) \in pairs \ refused
      <4>1. PICK i \in pairs \ refused : c = req.names[i]
        OBVIOUS
      <4>2. i \in at(c) /\ c # Malformed
        BY <4>1
      <4>3. Max(at(c)) \in at(c)
        BY <2>3, <4>2
      <4>4. QED
        BY <4>2, <4>3
    <3>2. QED
      BY <3>1
  <2>7. Grows(engine.ecids, r.engine.ecids, new)
    <3>1. \A c \in DOMAIN stored : stored[c] \in new
      BY <2>5, <2>6
    <3> HIDE DEF stored, new, r
    <3>2. QED
      BY <2>1, <3>1, WrittenGrows
  <2>8. Grows(engine.programs, r.engine.programs, new)
    BY <2>1 DEF Grows
  <2>9. Keeps(engine, r.engine)
    <3> HIDE DEF r, clock, extra, stored
    <3>1. QED
      BY <2>1, <2>4, <2>7, <2>8, WritesKeep
  <2>10. TellsTruth(r.engine, r.reply, req)
    <3>1. ASSUME NEW n \in Names, About(r.reply, req, n) # {}
          PROVE  r.reply.tells[Max(About(r.reply, req, n))] = Value(r.engine, n)
      <4>1. PICK i \in About(r.reply, req, n) : TRUE
        BY <3>1
      <4>2. i \in pairs /\ req.names[i] = n
        BY DEF About
      <4>3. n # Malformed /\ n \in ConstantNames
        BY <4>2, NamesAsked DEF ConstantNames
      <4>4. \A k \in at(n) : k \notin refused /\ r.reply.tells[k] # Silent
        <5>1. \A k \in at(n) : k \in pairs /\ k \notin refused /\ k \in Nat
          BY <1>2, <4>3
        <5>2. \A k \in at(n) : r.reply.tells[k] = engine.clock + k
          BY <2>2, <5>1
        <5> HIDE DEF at, refused, r
        <5>3. QED
          BY <1>1, <5>1, <5>2 DEF Silent
      <4>5. About(r.reply, req, n) = at(n)
        BY <2>2, <4>4 DEF About
      <4>6. Max(at(n)) \in at(n) /\ n \in DOMAIN stored
        BY <2>3, <4>2, <4>4
      <4>7. r.reply.tells[Max(at(n))] = engine.clock + Max(at(n))
        BY <2>2, <4>4, <4>6
      <4>8. Value(r.engine, n) = ValueOf(r.engine.ecids, n)
        BY <4>3, KindsApart
      <4>9. ValueOf(r.engine.ecids, n) = stored[n]
        BY <2>1, <4>6 DEF ValueOf, Written
      <4>10. stored[n] = engine.clock + Max(at(n))
        BY <4>6
      <4>11. QED
        BY <4>5, <4>7, <4>8, <4>9, <4>10
    <3>2. QED
      BY <3>1 DEF TellsTruth
  <2>11. QED
    BY <2>2, <2>9, <2>10 DEF Handled, Secondary
<1>5. QED
  BY <1>3, <1>4

(* handle_message: every message it knows is handled, others change and     *)
(* answer nothing.                                                          *)
LEMMA MessageIsHandled ==
  ASSUME ServerAssumption, NamesAreApart, NEW engine, EngineOK(engine),
         NEW req \in Requests \cup OtherRequests
  PROVE  /\ req.type \in DOMAIN Secondary => Handled(engine, HandleMessage(engine, req), req)
         /\ req.type \notin DOMAIN Secondary => HandleMessage(engine, req) = Result(engine, NoReply)
         /\ Keeps(engine, HandleMessage(engine, req).engine)
<1>1. req.type \in DOMAIN Secondary => Handled(engine, HandleMessage(engine, req), req)
  <2>1. DOMAIN Secondary = {"S1F1", "S1F3", "S1F13", "S1F15", "S1F17", "S2F13", "S2F15", "S2F31",
                            "S2F41", "S7F1", "S7F3", "S7F5", "S10F3"}
    BY DEF Secondary
  <2>2. QED
    BY <2>1, HandlerOf, HandlersThatRead, HandlersThatAcknowledge, ProgramIsHandled,
       ConstantsAreHandled
<1>2. req.type \notin DOMAIN Secondary => HandleMessage(engine, req) = Result(engine, NoReply)
  BY HandlerOf
<1>3. req.type \notin DOMAIN Secondary => HandleMessage(engine, req).engine = engine
  BY <1>2 DEF Result
<1>4. QED
  BY <1>1, <1>2, <1>3, SameValues DEF Handled


-----------------------------------------------------------------------------
(* What was told, what is to be read, and what is stored *)

(* The values of the engine only grow.                                      *)
LEMMA TellsRiseWithEngine ==
  ASSUME NEW engine, EngineOK(engine), NEW next, Keeps(engine, next),
         NEW pending, NEW dues, NEW old \in [Names -> Int], TellsRise(pending, dues, old, engine)
  PROVE  TellsRise(pending, dues, old, next)
<1>1. \A n \in Names : Value(engine, n) \in Nat /\ Value(next, n) \in Nat
                       /\ Value(engine, n) <= Value(next, n)
  BY ValueTypes DEF Keeps
<1>2. QED
  BY <1>1 DEF TellsRise

(* An answer that tells what is stored is added, or one that tells nothing. *)
LEMMA TellsRiseWithAnswer ==
  ASSUME NEW engine, EngineOK(engine), NEW P, NEW pending \in Seq(P), NEW dues,
         NEW old \in [Names -> Int], TellsRise(pending, dues, old, engine), NEW a,
         \A n \in Names, k \in DOMAIN dues :
           Tells(a, dues[k], n) => Tell(a, dues[k], n) = Value(engine, n)
  PROVE  TellsRise(Append(pending, a), dues, old, engine)
<1> DEFINE all == Append(pending, a)
<1>1. /\ Len(pending) \in Nat /\ DOMAIN pending = 1 .. Len(pending)
      /\ \A i \in DOMAIN all : (i \in DOMAIN pending /\ all[i] = pending[i])
                               \/ (i = Len(pending) + 1 /\ all[i] = a)
  BY a \in {a}, AppendFacts
<1>2. ASSUME NEW n \in Names
      PROVE  /\ old[n] <= Value(engine, n) /\ Value(engine, n) \in Nat
             /\ \A k \in DOMAIN dues : Tells(a, dues[k], n) => Tell(a, dues[k], n) = Value(engine, n)
  BY ValueTypes DEF TellsRise
<1> HIDE DEF all
<1>3. ASSUME NEW n \in Names, NEW i \in DOMAIN all, NEW k \in DOMAIN dues, Tells(all[i], dues[k], n)
      PROVE  /\ Tell(all[i], dues[k], n) \in Nat
             /\ old[n] <= Tell(all[i], dues[k], n)
             /\ Tell(all[i], dues[k], n) <= Value(engine, n)
  <2>1. CASE i \in DOMAIN pending /\ all[i] = pending[i]
    BY <1>3, <2>1 DEF TellsRise
  <2>2. CASE i = Len(pending) + 1 /\ all[i] = a
    BY <1>2, <1>3, <2>2
  <2>3. QED
    BY <1>1, <2>1, <2>2
<1>4. ASSUME NEW n \in Names, NEW i \in DOMAIN all, NEW k \in DOMAIN dues, Tells(all[i], dues[k], n),
             NEW j \in DOMAIN all, NEW h \in DOMAIN dues, j < i, Tells(all[j], dues[h], n)
      PROVE  Tell(all[j], dues[h], n) <= Tell(all[i], dues[k], n)
  <2>1. j \in DOMAIN pending /\ all[j] = pending[j]
    BY <1>1, <1>4
  <2>2. CASE i \in DOMAIN pending /\ all[i] = pending[i]
    BY <1>4, <2>1, <2>2 DEF TellsRise
  <2>3. CASE i = Len(pending) + 1 /\ all[i] = a
    <3>1. Tell(all[i], dues[k], n) = Value(engine, n)
      BY <1>2, <1>4, <2>3
    <3>2. Tell(all[j], dues[h], n) <= Value(engine, n)
      BY <1>3, <1>4
    <3>3. QED
      BY <3>1, <3>2
  <2>4. QED
    BY <1>1, <2>2, <2>3
<1>5. TellsRise(all, dues, old, engine)
  BY <1>2, <1>3, <1>4 DEF TellsRise
<1>6. QED
  BY <1>5 DEF all

(* Nothing that is to be read answers a frame that was just sent.           *)
LEMMA TellsRiseWithFrame ==
  ASSUME NEW engine, NEW pending, NEW D, NEW dues \in Seq(D), NEW old,
         TellsRise(pending, dues, old, engine),
         NEW d, \A i \in DOMAIN pending : ~AnswersTo(pending[i], d)
  PROVE  TellsRise(pending, dues, old, engine) /\ TellsRise(pending, Append(dues, d), old, engine)
<1> SUFFICES ASSUME NEW more \in {dues, Append(dues, d)}
             PROVE  TellsRise(pending, more, old, engine)
  OBVIOUS
<1>1. \A k \in DOMAIN more : (k \in DOMAIN dues /\ more[k] = dues[k]) \/ more[k] = d
  BY d \in {d}, AppendFacts
<1>2. \A i \in DOMAIN pending, n \in Names : ~Tells(pending[i], d, n)
  BY DEF Tells
<1>3. ASSUME NEW n \in Names, NEW i \in DOMAIN pending, NEW k \in DOMAIN more,
             Tells(pending[i], more[k], n)
      PROVE  k \in DOMAIN dues /\ more[k] = dues[k] /\ Tells(pending[i], dues[k], n)
  BY <1>1, <1>2, <1>3
<1>4. QED
  BY <1>3 DEF TellsRise

(* What it knows then.                                                      *)
ToldBy(a, d, old) == [n \in Names |-> IF About(a, d.req, n) = {} THEN old[n] ELSE Tell(a, d, n)]

(* The peer reads the first answer, which is to the first thing due.        *)
LEMMA TellsRiseWithReading ==
  ASSUME NEW engine, NEW P, NEW pending \in Seq(P), pending # <<>>,
         NEW D, NEW dues \in Seq(D), dues # <<>>, AnswersTo(pending[1], dues[1]),
         NEW old \in [Names -> Int], TellsRise(pending, dues, old, engine)
  PROVE  /\ TellsRise(Tail(pending), Tail(dues), ToldBy(pending[1], dues[1], old), engine)
         /\ ToldBy(pending[1], dues[1], old) \in [Names -> Int]
         /\ \A n \in Names : ToldBy(pending[1], dues[1], old)[n] >= old[n]
<1> DEFINE p == Tail(pending)
           d == Tail(dues)
<1> SUFFICES ASSUME NEW next, next = [n \in Names |-> IF About(pending[1], dues[1].req, n) = {}
                                                      THEN old[n] ELSE Tell(pending[1], dues[1], n)]
             PROVE  /\ TellsRise(p, d, next, engine)
                    /\ next \in [Names -> Int] /\ \A n \in Names : next[n] >= old[n]
  BY DEF ToldBy
<1>1. /\ \A i \in DOMAIN p : i + 1 \in DOMAIN pending /\ p[i] = pending[i + 1] /\ i \in Nat \ {0}
      /\ 1 \in DOMAIN pending
  BY TailFacts
<1>2. /\ \A k \in DOMAIN d : k + 1 \in DOMAIN dues /\ d[k] = dues[k + 1]
      /\ 1 \in DOMAIN dues
  BY TailFacts
<1> HIDE DEF p, d
<1>3. ASSUME NEW n \in Names
      PROVE  /\ next[n] \in Int /\ next[n] >= old[n] /\ next[n] <= Value(engine, n)
             /\ \A i \in DOMAIN p, k \in DOMAIN d :
                  Tells(p[i], d[k], n) => next[n] <= Tell(p[i], d[k], n)
  <2>1. CASE About(pending[1], dues[1].req, n) = {}
    <3>1. next[n] = old[n] /\ old[n] \in Int /\ old[n] <= Value(engine, n)
      BY <2>1 DEF TellsRise
    <3>2. ASSUME NEW i \in DOMAIN p, NEW k \in DOMAIN d, Tells(p[i], d[k], n)
          PROVE  old[n] <= Tell(p[i], d[k], n)
      <4>1. i + 1 \in DOMAIN pending /\ k + 1 \in DOMAIN dues /\ Tells(pending[i + 1], dues[k + 1], n)
            /\ p[i] = pending[i + 1] /\ d[k] = dues[k + 1]
        BY <1>1, <1>2, <3>2
      <4>2. QED
        BY <4>1 DEF TellsRise
    <3>3. QED
      BY <3>1, <3>2
  <2>2. CASE About(pending[1], dues[1].req, n) # {}
    <3>1. next[n] = Tell(pending[1], dues[1], n) /\ Tells(pending[1], dues[1], n)
      BY <2>2 DEF Tells
    <3>2. old[n] \in Int /\ next[n] \in Nat /\ old[n] <= next[n] /\ next[n] <= Value(engine, n)
      BY <1>1, <1>2, <3>1 DEF TellsRise
    <3>3. ASSUME NEW i \in DOMAIN p, NEW k \in DOMAIN d, Tells(p[i], d[k], n)
          PROVE  next[n] <= Tell(p[i], d[k], n)
      <4>1. i + 1 \in DOMAIN pending /\ k + 1 \in DOMAIN dues /\ Tells(pending[i + 1], dues[k + 1], n)
            /\ p[i] = pending[i + 1] /\ d[k] = dues[k + 1] /\ 1 < i + 1
        BY <1>1, <1>2, <3>3
      <4>2. QED
        BY <1>1, <1>2, <3>1, <4>1 DEF TellsRise
    <3>4. QED
      BY <3>2, <3>3
  <2>3. QED
    BY <2>1, <2>2
<1>4. ASSUME NEW n \in Names, NEW i \in DOMAIN p, NEW k \in DOMAIN d, Tells(p[i], d[k], n)
      PROVE  /\ Tell(p[i], d[k], n) \in Nat
             /\ Tell(p[i], d[k], n) <= Value(engine, n)
             /\ \A j \in DOMAIN p, h \in DOMAIN d :
                  j < i /\ Tells(p[j], d[h], n) => Tell(p[j], d[h], n) <= Tell(p[i], d[k], n)
  <2>1. i + 1 \in DOMAIN pending /\ k + 1 \in DOMAIN dues /\ Tells(pending[i + 1], dues[k + 1], n)
        /\ p[i] = pending[i + 1] /\ d[k] = dues[k + 1]
    BY <1>1, <1>2, <1>4
  <2>2. ASSUME NEW j \in DOMAIN p, NEW h \in DOMAIN d, j < i, Tells(p[j], d[h], n)
        PROVE  Tell(p[j], d[h], n) <= Tell(p[i], d[k], n)
    <3>1. j + 1 \in DOMAIN pending /\ h + 1 \in DOMAIN dues /\ Tells(pending[j + 1], dues[h + 1], n)
          /\ p[j] = pending[j + 1] /\ d[h] = dues[h + 1] /\ j + 1 < i + 1
      BY <1>1, <1>2, <2>2
    <3>2. QED
      BY <2>1, <3>1 DEF TellsRise
  <2>3. QED
    BY <2>1, <2>2 DEF TellsRise
<1>5. TellsRise(p, d, next, engine)
  BY <1>3, <1>4 DEF TellsRise
<1>6. next \in [Names -> Int] /\ \A n \in Names : next[n] >= old[n]
  BY <1>3
<1>7. QED
  BY <1>5, <1>6

(* It reads an event report.                                                *)
LEMMA TellsRiseWithEvent ==
  ASSUME NEW engine, NEW P, NEW pending \in Seq(P), pending # <<>>, NEW dues, NEW old,
         TellsRise(pending, dues, old, engine)
  PROVE  TellsRise(Tail(pending), dues, old, engine)
<1> DEFINE p == Tail(pending)
<1>1. \A i \in DOMAIN p : i + 1 \in DOMAIN pending /\ p[i] = pending[i + 1] /\ i \in Nat
  BY TailFacts
<1> HIDE DEF p
<1>2. \A i, j \in DOMAIN p : j < i => j + 1 < i + 1
  BY <1>1
<1>3. TellsRise(p, dues, old, engine)
  BY <1>1, <1>2 DEF TellsRise
<1>4. QED
  BY <1>3 DEF p


-----------------------------------------------------------------------------
(* The steps *)

LEMMA InvFacts ==
  ASSUME ServerInv
  PROVE  /\ toServer \in Seq(Frames) /\ Numbered(toServer) /\ Rising(toServer)
         /\ due \in Seq(Dues) /\ Numbered(due) /\ Rising(due)
         /\ toPeer \in Seq(Range(toPeer))
         /\ \A i \in DOMAIN toServer : toServer[i] \in Frames
         /\ \A i \in DOMAIN due : due[i] \in Dues
         /\ spc # "answering" => Pending = toPeer
         /\ spc = "answering" => Pending = Append(toPeer, out)
         /\ Pending \in Seq(Range(toPeer) \cup {out})
         /\ ~left => Line(toServer, due, Pending)
         /\ ~left /\ spc # "returned" =>
              /\ selects <=> SelectedBefore(hsms, toServer, Len(toServer) + 1)
              /\ Service(hsms, toServer, due, Pending)
<1>1. toServer \in Seq(Frames) /\ due \in Seq(Dues) /\ toPeer \in Seq(Range(toPeer)) /\ sent \in Nat
  BY DEF ServerInv
<1>2. /\ \A i \in DOMAIN toServer : toServer[i] \in Frames
      /\ \A i \in DOMAIN due : due[i] \in Dues
  BY <1>1, ElementOfSeq
<1>3. (\A f \in Frames : f.sys \in Int) /\ (\A d \in Dues : d.sys \in Int)
  BY <1>1 DEF Frames, Dues
<1>4. Numbered(toServer) /\ Numbered(due)
  BY <1>2, <1>3 DEF Numbered
<1>5. spc # "answering" => Pending = toPeer
  BY <1>1 DEF Pending
<1>6. spc = "answering" => Pending = Append(toPeer, out)
  BY <1>1 DEF Pending
<1>7. Append(toPeer, out) \in Seq(Range(toPeer) \cup {out})
  BY <1>1, out \in {out}, AppendFacts
<1>8. Pending \in Seq(Range(toPeer) \cup {out})
  BY <1>1, <1>5, <1>6, <1>7, SeqMonotonic
<1>9. LineInv
  BY DEF ServerInv
<1>10. QED
  BY <1>1, <1>2, <1>4, <1>5, <1>6, <1>8, <1>9 DEF LineInv, Line, Service

(* The invariant holds at the connection, and is kept by each action.      *)
LEMMA InitServer == ASSUME ServerAssumption, PassiveInit PROVE ServerInv
<1> USE DEF PassiveInit
<1>1. Engine0.ecids = [e \in Ecids |-> 0] /\ Engine0.clock = 0 /\ Engine0.refused = {}
      /\ Engine0.programs = <<>>
  BY DEF Engine0, Missing
<1>2. EngineOK(gem)
  <2>1. Range(gem.ecids) \subseteq {0} /\ Range(gem.programs) = {} /\ DOMAIN gem.ecids = Ecids
    BY <1>1 DEF Range
  <2>2. QED
    BY <1>1, <2>1 DEF EngineOK, Engine0
<1>3. Pending = <<>>
  BY DEF Pending
<1>4. LineInv
  <2>1. AnswersRise(<<>>, <<>>) /\ InOrder(<<>>, <<>>) /\ Rising(<<>>)
    BY DEF AnswersRise, InOrder, Rising
  <2>2. FramesAreDue(hsms, <<>>, <<>>) /\ DuesAreServed(hsms, <<>>, <<>>, <<>>)
    BY DEF FramesAreDue, DuesAreServed
  <2>3. ~SelectedBefore(hsms, toServer, Len(toServer) + 1)
    BY DEF SelectedBefore
  <2>4. QED
    BY <1>3, <2>1, <2>2, <2>3 DEF LineInv
<1>5. PassiveTypeOK
  <2>1. Range(gem.ecids) \subseteq 0 .. gem.clock /\ Ecids \subseteq DOMAIN gem.ecids
    BY <1>2 DEF EngineOK
  <2>2. Limit \in Nat /\ T7 \in Nat /\ MaxAhead \in Nat
    BY DEF Limit, ServerAssumption
  <2>3. QED
    BY <2>1, <2>2 DEF PassiveTypeOK
<1>6. TellsRise(Pending, due, told, gem)
  <2>1. \A n \in Names : told[n] = 0 /\ Value(gem, n) \in Nat
    BY <1>2, ValueTypes
  <2>2. QED
    BY <1>3, <2>1 DEF TellsRise
<1>7. toPeer \in Seq(Range(toPeer)) /\ toServer \in Seq(Frames) /\ due \in Seq(Dues)
  OBVIOUS
<1>8. QED
  BY <1>2, <1>4, <1>5, <1>6, <1>7 DEF ServerInv

(* The steps that leave the frames, what is due, what is to be read and the *)
(* engine alone.                                                            *)
LEMMA TypeParts ==
  ASSUME ServerInv
  PROVE  /\ spc \in {"reading", "answering", "running", "returned"}
         /\ hsms \in {"NotConnected", "ConnectedNotSelected", "Selected"}
         /\ idle \in 0 .. Limit /\ age \in 0 .. T7 + 1
         /\ Len(toServer) <= MaxAhead /\ sent \in Nat /\ told \in [Names -> Int]
         /\ spc = "returned" <=> hsms = "NotConnected"
         /\ spc # "answering" => out = NoAnswer
         /\ EngineOK(gem) /\ (~left => TellsRise(Pending, due, told, gem))
BY DEF ServerInv, PassiveTypeOK

(* The invariant after a step, part by part.                                *)
LEMMA InvFromParts ==
  ASSUME spc' \in {"reading", "answering", "running", "returned"},
         hsms' \in {"NotConnected", "ConnectedNotSelected", "Selected"},
         idle' \in 0 .. Limit', age' \in 0 .. T7 + 1, Len(toServer') <= MaxAhead,
         sent' \in Nat, told' \in [Names -> Int],
         toServer' \in Seq(Frames'), due' \in Seq(Dues'), toPeer' \in Seq(Range(toPeer')),
         spc' = "returned" <=> hsms' = "NotConnected", spc' # "answering" => out' = NoAnswer,
         Rising(toServer'), Rising(due'), ~left' => Line(toServer', due', Pending'),
         ~left' /\ spc' # "returned" =>
           /\ selects' <=> SelectedBefore(hsms', toServer', Len(toServer') + 1)
           /\ Service(hsms', toServer', due', Pending'),
         EngineOK(gem'), ~left' => TellsRise(Pending', due', told', gem')
  PROVE  ServerInv'
<1>1. Ecids \subseteq DOMAIN gem'.ecids /\ Range(gem'.ecids) \subseteq 0 .. gem'.clock
  BY DEF EngineOK
<1>2. PassiveTypeOK'
  BY <1>1 DEF PassiveTypeOK
<1>3. LineInv'
  BY DEF LineInv, Line, Service
<1>4. QED
  BY <1>2, <1>3 DEF ServerInv

(* A frame is taken, and what it expects is what is written next.           *)
LEMMA FrameIsServed ==
  ASSUME ServerAssumption, ServerInv, NEW types, NEW answer, Serve(types, answer),
         hsms' = After(hsms, toServer), Keeps(gem, gem'),
         \/ answer = NoAnswer /\ Expects(hsms, toServer, 1) = "none"
         \/ /\ IsAnswer(answer) /\ answer.sys = toServer[1].sys /\ answer.type # "none"
            /\ answer.type = Expects(hsms, toServer, 1),
         \A n \in Names :
           About(answer, toServer[1].req, n) # {} =>
             answer.tells[Max(About(answer, toServer[1].req, n))] = Value(gem', n)
  PROVE  ServerInv'
<1>1. /\ spc = "reading" /\ toServer # <<>> /\ toServer' = Tail(toServer) /\ idle' = 0
      /\ out' = answer /\ spc' = IF answer = NoAnswer THEN "reading" ELSE "answering"
      /\ toPeer' = toPeer /\ left' = left /\ age' = age
      /\ sent' = sent /\ selects' = selects /\ due' = due /\ told' = told
  BY DEF Serve, peerVars
<1> USE InvFacts
<1>2. Pending = toPeer /\ Frames' = Frames /\ Dues' = Dues
  BY <1>1 DEF Frames, Dues
<1>3. Rising(toServer') /\ toServer' \in Seq(Frames)
  BY <1>1, TailRises, TailFacts
<1>4. Len(toServer') <= MaxAhead
  <2>1. Len(toServer') = Len(toServer) - 1 /\ Len(toServer) \in Nat
    BY <1>1, TailFacts
  <2>2. MaxAhead \in Nat /\ Len(toServer) <= MaxAhead
    BY TypeParts DEF ServerAssumption
  <2>3. QED
    BY <2>1, <2>2
<1>5. idle' \in 0 .. Limit'
  BY <1>1 DEF Limit, ServerAssumption
<1>6. hsms' \in {"ConnectedNotSelected", "Selected"} /\ spc' \in {"reading", "answering"}
  BY <1>1, TypeParts DEF After
<1>7. ~left => (selects <=> SelectedBefore(hsms', toServer', Len(toServer') + 1))
  <2>1. Len(toServer') + 1 = Len(toServer) /\ Len(toServer) \in 1 .. Len(toServer)
    BY <1>1, TailFacts
  <2>2. SelectedBefore(hsms', toServer', Len(toServer))
          <=> SelectedBefore(hsms, toServer, Len(toServer) + 1)
    BY <1>1, <2>1, ExpectationsStay
  <2>3. QED
    BY <1>1, <2>1, <2>2
<1>8. ~left => Line(toServer', due', Pending') /\ Service(hsms', toServer', due', Pending')
  <2>1. CASE answer = NoAnswer /\ Expects(hsms, toServer, 1) = "none"
    <3>1. Pending' = Pending
      BY <1>1, <1>2, <2>1 DEF Pending
    <3>2. QED
      BY <1>1, <2>1, <3>1, FramePassed, FramePassedServed
  <2>2. CASE /\ IsAnswer(answer) /\ answer.sys = toServer[1].sys /\ answer.type # "none"
             /\ answer.type = Expects(hsms, toServer, 1)
    <3>1. answer # NoAnswer
      BY <2>2 DEF NoAnswer, Plain, Answer
    <3>2. Pending' = Append(Pending, answer)
      BY <1>1, <1>2, <3>1 DEF Pending
    <3>3. QED
      BY <1>1, <2>2, <3>2, FrameAnswered, FrameAnsweredServed
  <2>3. QED
    BY <2>1, <2>2
<1>9. ~left => TellsRise(Pending', due', told', gem')
  <2>0. TellsRise(Pending, due, told, gem') \/ left
    BY TypeParts, TellsRiseWithEngine
  <2>1. CASE answer = NoAnswer
    <3>1. Pending' = Pending
      BY <1>1, <1>2, <2>1 DEF Pending
    <3>2. QED
      BY <1>1, <2>0, <3>1
  <2>2. CASE answer # NoAnswer /\ ~left
    <3>1. Pending' = Append(Pending, answer)
      BY <1>1, <1>2, <2>2 DEF Pending
    <3>2. ASSUME NEW n \in Names, NEW k \in DOMAIN due, Tells(answer, due[k], n)
          PROVE  Tell(answer, due[k], n) = Value(gem', n)
      <4>1. due[k].sys = toServer[1].sys /\ 1 \in DOMAIN toServer
        BY <1>1, <2>2, <3>2, TailFacts DEF Tells, AnswersTo
      <4>2. Expects(hsms, toServer, 1) # "none"
        BY <2>2
      <4>0. FramesAreDue(hsms, toServer, due)
        BY <1>1, <2>2 DEF Service
      <4>3. PICK h \in DOMAIN due : due[h].sys = toServer[1].sys /\ due[h].req = toServer[1].req
        BY <4>0, <4>1, <4>2 DEF FramesAreDue
      <4>4. h = k
        <5>1. h \in Int /\ k \in Int /\ due[h].sys = due[k].sys /\ due[k].sys \in Int
          BY <4>1, <4>3 DEF Numbered
        <5>2. ~(h < k) /\ ~(k < h)
          BY <5>1 DEF Rising
        <5>3. QED
          BY <5>1, <5>2
      <4>5. QED
        BY <3>2, <4>3, <4>4 DEF Tells, Tell
    <3>3. EngineOK(gem')
      BY DEF Keeps
    <3>4. QED
      BY <1>1, <2>0, <2>2, <3>1, <3>2, <3>3, TypeParts, TellsRiseWithAnswer
  <2>3. QED
    BY <2>1, <2>2, <1>1
<1>10. EngineOK(gem')
  BY DEF Keeps
<1>11. QED
  BY <1>1, <1>2, <1>3, <1>4, <1>5, <1>6, <1>7, <1>8, <1>9, <1>10, TypeParts, InvFromParts

LEMMA OwnRange ==
  ASSUME NEW S, NEW s \in Seq(S) PROVE s \in Seq(Range(s))
BY DEF Range

(* The thread returns; the answers that are there may still be read.        *)
LEMMA ReturnKeepsInv ==
  ASSUME ServerAssumption, ServerInv, Returned, UNCHANGED <<engineVars, toPeer, left, peerVars, age>>,
         left \/ spc \in {"reading", "running"}
  PROVE  ServerInv'
<1>1. /\ spc' = "returned" /\ hsms' = "NotConnected" /\ idle' = 0 /\ out' = NoAnswer
      /\ toServer' = <<>> /\ toPeer' = toPeer /\ left' = left /\ gem' = gem
      /\ sent' = sent /\ due' = due /\ told' = told /\ age' = age
  BY DEF Returned, engineVars, peerVars
<1>2. Frames' = Frames /\ Dues' = Dues
  BY <1>1 DEF Frames, Dues
<1>3. ~left => Pending' = Pending
  BY <1>1 DEF Pending
<1>4. Rising(<<>>) /\ <<>> \in Seq(Frames)
  BY DEF Rising
<1>5. ~left => Line(toServer', due', Pending')
  <2>1. ASSUME ~left PROVE AnswersRise(Pending, <<>>)
    BY <2>1, InvFacts DEF Line, AnswersRise
  <2>2. QED
    BY <1>1, <1>3, <1>4, <2>1, InvFacts DEF Line
<1>6. idle' \in 0 .. Limit' /\ Len(toServer') <= MaxAhead
  BY <1>1 DEF Limit, ServerAssumption
<1>7. ~left => TellsRise(Pending', due', told', gem')
  BY <1>1, <1>3, TypeParts
<1>8. QED
  BY <1>1, <1>2, <1>4, <1>5, <1>6, <1>7, InvFacts, TypeParts, InvFromParts

(* Nothing of the line changes but, perhaps, where its answers are.         *)
LEMMA LineStaysKeepsInv ==
  ASSUME ServerInv, UNCHANGED <<hsms, toServer, left, peerVars>>,
         spc' \in {"reading", "answering", "running", "returned"}, spc' = "returned" <=> spc = "returned",
         spc' # "answering" => out' = NoAnswer,
         idle' \in 0 .. Limit', age' \in 0 .. T7 + 1, toPeer' \in Seq(Range(toPeer')),
         ~left => Pending' = Pending, Keeps(gem, gem')
  PROVE  ServerInv'
<1>1. /\ hsms' = hsms /\ toServer' = toServer /\ left' = left
      /\ sent' = sent /\ selects' = selects /\ due' = due /\ told' = told
  BY DEF peerVars
<1>2. Frames' = Frames /\ Dues' = Dues
  BY <1>1 DEF Frames, Dues
<1>3. ~left => TellsRise(Pending', due', told', gem')
  BY <1>1, TypeParts, TellsRiseWithEngine
<1>4. EngineOK(gem')
  BY DEF Keeps
<1>5. QED
  BY <1>1, <1>2, <1>3, <1>4, InvFacts, TypeParts, InvFromParts

LEMMA WriteKeepsInv == ASSUME ServerAssumption, ServerInv, WriteAnswer PROVE ServerInv'
<1>1. /\ spc = "answering" /\ toPeer' = IF left THEN <<>> ELSE Append(toPeer, out)
      /\ out' = NoAnswer /\ spc' \in {"running", "reading"} /\ hsms' = hsms /\ idle' = idle
      /\ gem' = gem /\ age' = age /\ UNCHANGED <<hsms, toServer, left, peerVars>>
  BY DEF WriteAnswer, engineVars
<1>2. toPeer' \in Seq(Range(toPeer'))
  <2>1. Append(toPeer, out) \in Seq(Range(toPeer) \cup {out})
    BY out \in {out}, AppendFacts, InvFacts
  <2>2. <<>> \in Seq(Range(<<>>))
    OBVIOUS
  <2>3. Append(toPeer, out) \in Seq(Range(Append(toPeer, out)))
    BY <2>1, OwnRange
  <2>4. QED
    BY <1>1, <2>2, <2>3
<1>3. ~left => Pending' = Pending
  <2>1. ASSUME ~left PROVE Pending' = toPeer' /\ Pending = toPeer'
    <3>1. toPeer' = Append(toPeer, out)
      BY <1>1, <2>1
    <3>2. Pending = Append(toPeer, out)
      BY <1>1, InvFacts
    <3>3. Pending' = toPeer'
      <4>1. toPeer' \o <<>> = toPeer'
        BY <1>2
      <4>2. QED
        BY <1>1, <4>1 DEF Pending
    <3>4. QED
      BY <3>1, <3>2, <3>3
  <2>2. QED
    BY <2>1
<1>4. Keeps(gem, gem') /\ Limit' = Limit
  BY <1>1, TypeParts, SameValues DEF Limit
<1>5. QED
  BY <1>1, <1>2, <1>3, <1>4, TypeParts, LineStaysKeepsInv

LEMMA TickKeepsInv == ASSUME ServerAssumption, ServerInv, Tick PROVE ServerInv'
<1>1. /\ spc = "reading" /\ idle < Limit /\ idle' = idle + 1
      /\ age' = IF hsms = "ConnectedNotSelected" /\ age <= T7 THEN age + 1 ELSE age
      /\ spc' = spc /\ hsms' = hsms /\ out' = out /\ gem' = gem /\ toPeer' = toPeer
      /\ UNCHANGED <<hsms, toServer, left, peerVars>>
  BY DEF Tick, engineVars, wireVars
<1>2. Limit' = Limit /\ Limit \in Nat /\ T7 \in Nat
  BY <1>1 DEF Limit, ServerAssumption
<1>3. idle' \in 0 .. Limit' /\ age' \in 0 .. T7 + 1
  <2>1. idle \in 0 .. Limit /\ age \in 0 .. T7 + 1
    BY TypeParts
  <2> HIDE DEF Limit
  <2>2. idle' \in 0 .. Limit'
    BY <1>1, <1>2, <2>1
  <2>3. age' \in 0 .. T7 + 1
    BY <1>1, <1>2, <2>1
  <2>4. QED
    BY <2>2, <2>3
<1>4. Pending' = Pending /\ Keeps(gem, gem')
  BY <1>1, TypeParts, SameValues DEF Pending
<1>5. QED
  BY <1>1, <1>3, <1>4, InvFacts, TypeParts, LineStaysKeepsInv

LEMMA OtherHostKeepsInv ==
  ASSUME ServerAssumption, NamesAreApart, ServerInv, OtherHost PROVE ServerInv'
<1>1. PICK req \in OtherRequests : gem' = HandleMessage(gem, req).engine
  BY DEF OtherHost
<1>2. Keeps(gem, gem')
  BY <1>1, MessageIsHandled, TypeParts
<1>3. /\ spc' = spc /\ hsms' = hsms /\ idle' = idle /\ out' = out /\ toPeer' = toPeer /\ age' = age
      /\ UNCHANGED <<hsms, toServer, left, peerVars>>
  BY DEF OtherHost, serverVars, wireVars
<1>4. Pending' = Pending /\ Limit' = Limit
  BY <1>3 DEF Pending, Limit
<1>5. QED
  BY <1>2, <1>3, <1>4, InvFacts, TypeParts, LineStaysKeepsInv

LEMMA RunJobKeepsInv == ASSUME ServerAssumption, ServerInv, RunJob PROVE ServerInv'
<1> DEFINE e == Plain(0, "S6F11")
<1>1. /\ spc = "running" /\ toPeer' = IF left THEN <<>> ELSE Append(toPeer, e)
      /\ spc' = "reading" /\ hsms' = hsms /\ idle' = idle /\ out' = out /\ gem' = gem
      /\ toServer' = toServer /\ left' = left /\ age' = age
      /\ sent' = sent /\ selects' = selects /\ due' = due /\ told' = told
  BY DEF RunJob, engineVars, peerVars
<1>2. ~IsAnswer(e)
  BY DEF IsAnswer, Plain, Answer
<1> HIDE DEF e
<1>3. toPeer' \in Seq(Range(toPeer'))
  <2>1. Append(toPeer, e) \in Seq(Range(toPeer) \cup {e})
    BY e \in {e}, AppendFacts, InvFacts
  <2>2. <<>> \in Seq(Range(<<>>))
    OBVIOUS
  <2>3. Append(toPeer, e) \in Seq(Range(Append(toPeer, e)))
    BY <2>1, OwnRange
  <2>4. QED
    BY <1>1, <2>2, <2>3
<1>4. ~left => Pending' = Append(Pending, e)
  <2>1. Pending = toPeer
    BY <1>1, InvFacts
  <2>2. Pending' = toPeer'
    BY <1>1, <1>3 DEF Pending
  <2>3. QED
    BY <1>1, <2>1, <2>2
<1>5. ~left => Line(toServer', due', Pending') /\ Service(hsms', toServer', due', Pending')
  <2>1. Pending \in Seq(Range(toPeer) \cup {out})
        /\ (~left => Line(toServer, due, Pending) /\ Service(hsms, toServer, due, Pending))
    BY <1>1, InvFacts
  <2>2. ~left => Line(toServer, due, Append(Pending, e))
                 /\ Service(hsms, toServer, due, Append(Pending, e))
    BY <1>2, <2>1, EventWritten
  <2>3. QED
    BY <1>1, <1>4, <2>2
<1>6. ~left => TellsRise(Pending', due', told', gem')
  <2>1. \A n \in Names, k \in DOMAIN due : ~Tells(e, due[k], n)
    BY <1>2 DEF Tells, AnswersTo
  <2>2. EngineOK(gem) /\ told \in [Names -> Int] /\ Pending \in Seq(Range(toPeer) \cup {out})
        /\ (~left => TellsRise(Pending, due, told, gem))
    BY InvFacts, TypeParts
  <2>3. ~left => TellsRise(Append(Pending, e), due, told, gem)
    BY <2>1, <2>2, TellsRiseWithAnswer
  <2>4. QED
    BY <1>1, <1>4, <2>3
<1>7. Limit' = Limit /\ Frames' = Frames /\ Dues' = Dues
  BY <1>1 DEF Limit, Frames, Dues
<1>8. QED
  BY <1>1, <1>3, <1>5, <1>6, <1>7, InvFacts, TypeParts, InvFromParts


(* Answers to what is no data message tell nothing.                         *)
LEMMA PlainTellsNothing ==
  ASSUME NEW sys, NEW type, NEW req, NEW n
  PROVE  /\ About(Plain(sys, type), req, n) = {}
         /\ Plain(sys, type).sys = sys /\ Plain(sys, type).type = type
         /\ About(NoAnswer, req, n) = {}
BY DEF Plain, Answer, About, NoAnswer

LEMMA ControlKeepsInv ==
  ASSUME ServerAssumption, ServerInv,
         ServeSelect \/ ServeLinktest \/ ServeUnused \/ ServeUnselected
  PROVE  ServerInv'
<1> DEFINE f == toServer[1]
<1>0. toServer # <<>> /\ Head(toServer) = f
  BY InvFacts, TailFacts DEF ServeSelect, ServeLinktest, ServeUnused, ServeUnselected, Serve
<1>1. Expects(hsms, toServer, 1) = Expected(hsms = "Selected", f.type, f.req)
  BY FirstExpectation DEF Expects, Expected
<1>2. CASE ServeSelect
  <2>1. PICK answer : answer = Plain(f.sys, IF hsms = "Selected" THEN "not ready" ELSE "accepted")
    OBVIOUS
  <2>2. Serve({"select"}, answer) /\ hsms' = "Selected" /\ f.type = "select" /\ gem' = gem
    BY <1>0, <1>2, <2>1 DEF ServeSelect, Serve, engineVars
  <2>3. answer.sys = f.sys /\ answer.type = (IF hsms = "Selected" THEN "not ready" ELSE "accepted")
        /\ \A n : About(answer, f.req, n) = {}
    BY <2>1, PlainTellsNothing
  <2>4. answer.type = Expects(hsms, toServer, 1) /\ IsAnswer(answer) /\ answer.type # "none"
    BY <1>1, <2>2, <2>3 DEF Expected, IsAnswer
  <2>5. Keeps(gem, gem') /\ hsms' = After(hsms, toServer)
    BY <2>2, TypeParts, SameValues DEF After
  <2>6. QED
    BY <2>2, <2>3, <2>4, <2>5, FrameIsServed
<1>3. CASE ServeLinktest
  <2>1. PICK answer : answer = Plain(f.sys, "linktest")
    OBVIOUS
  <2>2. Serve({"linktest"}, answer) /\ hsms' = hsms /\ f.type = "linktest" /\ gem' = gem
    BY <1>0, <1>3, <2>1 DEF ServeLinktest, Serve, engineVars
  <2>3. answer.sys = f.sys /\ answer.type = "linktest" /\ \A n : About(answer, f.req, n) = {}
    BY <2>1, PlainTellsNothing
  <2>4. answer.type = Expects(hsms, toServer, 1) /\ IsAnswer(answer) /\ answer.type # "none"
    BY <1>1, <2>2, <2>3 DEF Expected, IsAnswer
  <2>5. Keeps(gem, gem') /\ hsms' = After(hsms, toServer)
    BY <2>2, TypeParts, SameValues DEF After
  <2>6. QED
    BY <2>2, <2>3, <2>4, <2>5, FrameIsServed
<1>4. CASE ServeUnused
  <2>1. Serve({"unused"}, NoAnswer) /\ hsms' = hsms /\ f.type = "unused" /\ gem' = gem
    BY <1>0, <1>4 DEF ServeUnused, Serve, engineVars
  <2>2. Expects(hsms, toServer, 1) = "none" /\ \A n : About(NoAnswer, f.req, n) = {}
    BY <1>1, <2>1, PlainTellsNothing DEF Expected
  <2>3. Keeps(gem, gem') /\ hsms' = After(hsms, toServer)
    BY <2>1, TypeParts, SameValues DEF After
  <2>4. QED
    BY <2>1, <2>2, <2>3, FrameIsServed
<1>5. CASE ServeUnselected
  <2>1. PICK answer : answer = Plain(f.sys, "reject")
    OBVIOUS
  <2>2. Serve({"data"}, answer) /\ hsms' = hsms /\ hsms # "Selected" /\ f.type = "data" /\ gem' = gem
    BY <1>0, <1>5, <2>1 DEF ServeUnselected, Serve, engineVars
  <2>3. answer.sys = f.sys /\ answer.type = "reject" /\ \A n : About(answer, f.req, n) = {}
    BY <2>1, PlainTellsNothing
  <2>4. answer.type = Expects(hsms, toServer, 1) /\ IsAnswer(answer) /\ answer.type # "none"
    BY <1>1, <2>2, <2>3 DEF Expected, IsAnswer
  <2>5. Keeps(gem, gem') /\ hsms' = After(hsms, toServer)
    BY <2>2, TypeParts, SameValues DEF After
  <2>6. QED
    BY <2>2, <2>3, <2>4, <2>5, FrameIsServed
<1>6. QED
  BY <1>2, <1>3, <1>4, <1>5

LEMMA SecondaryTypes ==
  \A t \in DOMAIN Secondary :
    Secondary[t] \in Kinds /\ Secondary[t] # "none" /\ Secondary[t] # "S6F11"
<1>1. DOMAIN Secondary = {"S1F1", "S1F3", "S1F13", "S1F15", "S1F17", "S2F13", "S2F15", "S2F31",
                          "S2F41", "S7F1", "S7F3", "S7F5", "S10F3"}
  BY DEF Secondary
<1>2. ASSUME NEW t \in DOMAIN Secondary
      PROVE  Secondary[t] \in {"S1F2", "S1F4", "S1F14", "S1F16", "S1F18", "S2F14", "S2F16", "S2F32",
                               "S2F42", "S7F2", "S7F4", "S7F6", "S10F4"}
  BY <1>1 DEF Secondary
<1>3. \A t \in DOMAIN Secondary : Secondary[t] \in Kinds
  BY DEF Kinds, Range
<1>4. QED
  BY <1>2, <1>3

LEMMA DataKeepsInv ==
  ASSUME ServerAssumption, NamesAreApart, ServerInv, ServeData PROVE ServerInv'
<1> DEFINE f   == toServer[1]
           req == f.req
           r   == IF Dropped(req) THEN Result(gem, NoReply) ELSE HandleMessage(gem, req)
<1>1. PICK answer :
        answer = IF r.reply = NoReply THEN NoAnswer
                 ELSE Answer(f.sys, r.reply.type, r.reply.tells, Len(Adapters))
  OBVIOUS
<1>2. toServer # <<>> /\ Head(toServer) = f
  BY InvFacts, TailFacts DEF ServeData
<1>3. /\ hsms = "Selected" /\ hsms' = hsms /\ Serve({"data"}, answer) /\ gem' = r.engine
      /\ f.type = "data"
  BY <1>1, <1>2 DEF ServeData, Serve
<1>4. req \in Requests
  <2>1. f \in Frames
    BY <1>2, InvFacts, TailFacts
  <2>2. QED
    BY <1>3, <2>1 DEF Frames, Control
<1>5. Expects(hsms, toServer, 1) = IF Dropped(req) THEN "none"
                                   ELSE IF req.type \in DOMAIN Secondary THEN Secondary[req.type]
                                   ELSE "none"
  BY <1>3, FirstExpectation DEF Expects, Expected
<1>6. hsms' = After(hsms, toServer)
  BY <1>3 DEF After
<1> HIDE DEF r
<1>7. CASE Dropped(req) \/ req.type \notin DOMAIN Secondary
  <2>1. r = Result(gem, NoReply)
    BY <1>4, <1>7, MessageIsHandled, TypeParts DEF r
  <2>2. answer = NoAnswer /\ gem' = gem
    BY <1>1, <1>3, <2>1 DEF Result
  <2>3. Expects(hsms, toServer, 1) = "none" /\ Keeps(gem, gem')
    BY <1>5, <1>7, <2>2, TypeParts, SameValues
  <2>4. \A n : About(answer, f.req, n) = {}
    BY <2>2, PlainTellsNothing
  <2>5. QED
    BY <1>3, <1>6, <2>2, <2>3, <2>4, FrameIsServed
<1>8. CASE ~Dropped(req) /\ req.type \in DOMAIN Secondary
  <2>1. r = HandleMessage(gem, req)
    BY <1>8 DEF r
  <2>2. Handled(gem, r, req)
    BY <1>4, <1>8, <2>1, MessageIsHandled, TypeParts
  <2>3. r.reply.type = Secondary[req.type] /\ Keeps(gem, gem') /\ TellsTruth(gem', r.reply, req)
    BY <1>3, <2>2 DEF Handled
  <2>4. r.reply.type # "none" /\ r.reply.type # "S6F11"
    BY <1>8, <2>3, SecondaryTypes
  <2>5. answer = Answer(f.sys, r.reply.type, r.reply.tells, Len(Adapters))
    BY <1>1, <2>4 DEF NoReply, Reply
  <2>6. answer.sys = f.sys /\ answer.type = r.reply.type /\ answer.tells = r.reply.tells
    BY <2>5 DEF Answer
  <2>7. IsAnswer(answer) /\ answer.type # "none" /\ answer.type = Expects(hsms, toServer, 1)
    BY <1>5, <1>8, <2>3, <2>4, <2>6 DEF IsAnswer
  <2>8. \A n : About(answer, req, n) = About(r.reply, req, n)
    BY <2>6 DEF About
  <2>9. \A n \in Names : About(answer, req, n) # {} =>
                           answer.tells[Max(About(answer, req, n))] = Value(gem', n)
    BY <2>3, <2>6, <2>8 DEF TellsTruth
  <2>10. QED
    BY <1>3, <1>6, <2>3, <2>6, <2>7, <2>9, FrameIsServed
<1>9. QED
  BY <1>7, <1>8

LEMMA ReturningKeepsInv ==
  ASSUME ServerAssumption, ServerInv,
         ServeSeparate \/ ServeUndecodable \/ RunJobFails \/ WriteFails \/ EndOfStream \/ TimedOut
  PROVE  ServerInv'
BY ReturnKeepsInv
DEF ServeSeparate, ServeUndecodable, RunJobFails, WriteFails, EndOfStream, TimedOut


(* How the frame that is sent next will find the session.                  *)
LEMMA SelectionOfNext ==
  ASSUME NEW F, NEW frames \in Seq(F), NEW f, NEW state
  PROVE  SelectedBefore(state, Append(frames, f), Len(Append(frames, f)) + 1)
           <=> SelectedBefore(state, frames, Len(frames) + 1) \/ f.type = "select"
<1> DEFINE all == Append(frames, f)
<1>1. /\ Len(frames) \in Nat /\ Len(all) = Len(frames) + 1 /\ DOMAIN frames = 1 .. Len(frames)
      /\ all[Len(frames) + 1] = f /\ \A i \in 1 .. Len(frames) : all[i] = frames[i]
  BY f \in {f}, AppendFacts
<1> HIDE DEF all
<1>2. (\E h \in 1 .. (Len(all) + 1) - 1 : all[h].type = "select")
        <=> (\E h \in 1 .. (Len(frames) + 1) - 1 : frames[h].type = "select") \/ f.type = "select"
  <2>1. 1 .. (Len(all) + 1) - 1 = (1 .. Len(frames)) \cup {Len(frames) + 1}
    BY <1>1
  <2>2. 1 .. (Len(frames) + 1) - 1 = 1 .. Len(frames)
    BY <1>1
  <2>3. QED
    BY <1>1, <2>1, <2>2
<1>3. QED
  BY <1>2 DEF SelectedBefore, all

LEMMA SendKeepsInv == ASSUME ServerAssumption, ServerInv, PeerSends PROVE ServerInv'
<1>1. PICK type \in Control \cup {"data"} : \E req \in IF type = "data" THEN Requests ELSE {NoRequest} :
        /\ toServer' = Append(toServer, Frame(sent + 1, type, req))
        /\ due' = IF Expected(selects, type, req) = "none" THEN due
                  ELSE Append(due, [sys |-> sent + 1, type |-> Expected(selects, type, req), req |-> req])
        /\ selects' = (selects \/ type = "select")
  BY DEF PeerSends
<1>2. PICK req \in IF type = "data" THEN Requests ELSE {NoRequest} :
        /\ toServer' = Append(toServer, Frame(sent + 1, type, req))
        /\ due' = IF Expected(selects, type, req) = "none" THEN due
                  ELSE Append(due, [sys |-> sent + 1, type |-> Expected(selects, type, req), req |-> req])
        /\ selects' = (selects \/ type = "select")
  BY <1>1
<1> DEFINE n      == sent + 1
           answer == Expected(selects, type, req)
           f      == Frame(n, type, req)
           d      == [sys |-> n, type |-> answer, req |-> req]
<1>3. /\ ~left /\ left' = left /\ Len(toServer) < MaxAhead /\ sent' = n
      /\ spc' = spc /\ hsms' = hsms /\ idle' = idle /\ out' = out /\ gem' = gem
      /\ toPeer' = toPeer /\ told' = told /\ age' = age
  BY DEF PeerSends, serverVars, engineVars
<1>4. f.sys = n /\ f.type = type /\ f.req = req /\ d.sys = n /\ d.type = answer /\ d.req = req
      /\ sent \in Nat /\ n \in Nat
  BY TypeParts DEF Frame
<1>5. f \in Frames' /\ Frames \subseteq Frames'
  BY <1>3, <1>4 DEF Frames, Frame, Control
<1>6. (answer # "none" => d \in Dues') /\ Dues \subseteq Dues'
  <2>1. answer = "none" \/ answer \in Kinds
    <3>1. type \in {"select", "separate", "linktest", "unused", "data"}
      BY DEF Control
    <3>2. CASE type = "data"
      BY <3>2, SecondaryTypes DEF Expected, Kinds
    <3>3. CASE type # "data"
      BY <3>1, <3>3 DEF Expected, Kinds
    <3>4. QED
      BY <3>2, <3>3
  <2>2. req \in Requests \cup {NoRequest}
    OBVIOUS
  <2> HIDE DEF answer
  <2>3. QED
    BY <1>3, <1>4, <2>1, <2>2 DEF Dues
<1> HIDE DEF answer, f, d
<1>7. toServer' = Append(toServer, f) /\ due' = IF answer = "none" THEN due ELSE Append(due, d)
  BY <1>2 DEF answer, f, d
<1>8. toServer' \in Seq(Frames') /\ due' \in Seq(Dues')
  <2>1. toServer \in Seq(Frames') /\ due \in Seq(Dues')
    BY <1>5, <1>6, InvFacts, SeqMonotonic
  <2>2. Append(toServer, f) \in Seq(Frames') /\ (answer # "none" => Append(due, d) \in Seq(Dues'))
    BY <1>5, <1>6, <2>1
  <2>3. QED
    BY <1>7, <2>1, <2>2
<1>9. /\ \A i \in DOMAIN toServer : toServer[i].sys < n
      /\ \A k \in DOMAIN due : due[k].sys < n
  <2>1. (\A e \in Frames : e.sys < n) /\ (\A e \in Dues : e.sys < n)
    BY <1>4 DEF Frames, Dues
  <2>2. QED
    BY <2>1, InvFacts
<1>10. Line(toServer', due', Pending')
  <2>1. Pending' = Pending
    BY <1>3 DEF Pending
  <2>2. due' \in {due, Append(due, d)} /\ n \in Int
    BY <1>4, <1>7
  <2>3. /\ toServer \in Seq(Frames) /\ Numbered(toServer)
        /\ due \in Seq(Dues) /\ Numbered(due) /\ Line(toServer, due, Pending)
    BY <1>3, InvFacts
  <2> HIDE DEF n
  <2>5. Line(Append(toServer, f), due, Pending) /\ Line(Append(toServer, f), Append(due, d), Pending)
    BY <1>4, <1>9, <2>2, <2>3, FrameSent
  <2>4. QED
    BY <1>7, <2>1, <2>2, <2>5
<1>11. spc # "returned" =>
         /\ selects' <=> SelectedBefore(hsms', toServer', Len(toServer') + 1)
         /\ Service(hsms', toServer', due', Pending')
  <2>1. ASSUME spc # "returned"
        PROVE  /\ selects' <=> SelectedBefore(hsms', toServer', Len(toServer') + 1)
               /\ Service(hsms', toServer', due', Pending')
    <3>1. /\ selects <=> SelectedBefore(hsms, toServer, Len(toServer) + 1)
          /\ Service(hsms, toServer, due, Pending) /\ Pending' = Pending
      BY <1>3, <2>1, InvFacts DEF Pending
    <3>2. selects' <=> SelectedBefore(hsms', toServer', Len(toServer') + 1)
      <4>1. toServer \in Seq(Frames)
        BY InvFacts
      <4>2. SelectedBefore(hsms, Append(toServer, f), Len(Append(toServer, f)) + 1)
              <=> SelectedBefore(hsms, toServer, Len(toServer) + 1) \/ f.type = "select"
        BY <4>1, SelectionOfNext
      <4>3. selects' <=> selects \/ f.type = "select"
        BY <1>2, <1>4
      <4>4. QED
        BY <1>3, <1>7, <3>1, <4>2, <4>3
    <3>3. answer = Expected(SelectedBefore(hsms, toServer, Len(toServer) + 1), f.type, f.req)
      BY <1>4, <3>1 DEF answer, Expected
    <3>4. Service(hsms, Append(toServer, f), due', Pending)
      BY <1>4, <1>7, <3>1, <3>3, InvFacts, FrameSentServed
    <3>5. QED
      BY <1>3, <1>7, <3>1, <3>2, <3>4
  <2>2. QED
    BY <2>1
<1>12. TellsRise(Pending', due', told', gem')
  <2>1. Pending' = Pending
    BY <1>3 DEF Pending
  <2>2. \A i \in DOMAIN Pending : ~AnswersTo(Pending[i], d)
    <3>1. InOrder(Pending, due)
      BY <1>3, InvFacts DEF Line
    <3>2. ASSUME NEW i \in DOMAIN Pending, AnswersTo(Pending[i], d) PROVE FALSE
      <4>1. Pending[i].sys = n /\ IsAnswer(Pending[i])
        BY <1>4, <3>2 DEF AnswersTo
      <4>2. PICK k \in DOMAIN due : AnswersTo(Pending[i], due[k])
        BY <3>1, <4>1 DEF InOrder
      <4>3. due[k].sys = n /\ due[k].sys < n
        BY <1>9, <4>1, <4>2 DEF AnswersTo
      <4>4. QED
        BY <1>4, <4>3
    <3>3. QED
      BY <3>2
  <2>3. due' \in {due, Append(due, d)}
    BY <1>7
  <2>6. due \in Seq(Dues) /\ TellsRise(Pending, due, told, gem)
    BY <1>3, InvFacts, TypeParts
  <2>7. TellsRise(Pending, due, told, gem) /\ TellsRise(Pending, Append(due, d), told, gem)
    BY <2>2, <2>6, TellsRiseWithFrame
  <2>4. TellsRise(Pending, due', told, gem)
    BY <2>3, <2>7
  <2>5. QED
    BY <1>3, <2>1, <2>4
<1>13. Len(toServer') <= MaxAhead /\ Rising(toServer') /\ Rising(due')
  <2>1. Len(toServer') = Len(toServer) + 1 /\ Len(toServer) \in Nat
    BY <1>7, InvFacts
  <2>2. QED
    BY <1>3, <1>10, <2>1 DEF Line, ServerAssumption
<1>14. Limit' = Limit
  BY <1>3 DEF Limit
<1>15. QED
  BY <1>3, <1>4, <1>8, <1>10, <1>11, <1>12, <1>13, <1>14, InvFacts, TypeParts, InvFromParts

(* The peer reads: the first of what it has to read.                        *)
LEMMA WhatIsRead ==
  ASSUME ServerInv, PeerReads
  PROVE  /\ Pending # <<>> /\ Head(toPeer) = Pending[1] /\ Pending' = Tail(Pending)
         /\ toPeer' \in Seq(Range(toPeer'))
<1>1. toPeer # <<>> /\ toPeer' = Tail(toPeer) /\ spc' = spc /\ out' = out
  BY DEF PeerReads, serverVars
<1>2. toPeer \in Seq(Range(toPeer)) /\ Tail(toPeer) \in Seq(Range(toPeer))
  BY <1>1, InvFacts, TailFacts
<1>3. CASE spc = "answering"
  <2>1. Pending = toPeer \o <<out>> /\ Pending' = Tail(toPeer) \o <<out>>
    BY <1>1, <1>3 DEF Pending
  <2>2. out \in {out}
    OBVIOUS
  <2>3. ASSUME NEW S, NEW s \in Seq(S), s # <<>>, NEW T, NEW e \in T
        PROVE  s \o <<e>> # <<>> /\ Head(s) = (s \o <<e>>)[1] /\ Tail(s \o <<e>>) = Tail(s) \o <<e>>
    <3>1. s \in Seq(S \cup T) /\ e \in S \cup T
      BY SeqMonotonic
    <3>2. QED
      BY <2>3, <3>1
  <2>4. QED
    BY <1>1, <1>2, <2>1, <2>2, <2>3, OwnRange
<1>4. CASE spc # "answering"
  <2>1. Pending = toPeer \o <<>> /\ Pending' = Tail(toPeer) \o <<>>
    BY <1>1, <1>4 DEF Pending
  <2>2. toPeer \o <<>> = toPeer /\ Tail(toPeer) \o <<>> = Tail(toPeer)
    BY <1>2
  <2>3. Head(toPeer) = toPeer[1]
    BY <1>1, <1>2
  <2>4. Tail(toPeer) \in Seq(Range(Tail(toPeer)))
    BY <1>2, OwnRange
  <2>5. QED
    BY <1>1, <2>1, <2>2, <2>3, <2>4
<1>5. QED
  BY <1>3, <1>4


LEMMA ReadKeepsInv ==
  ASSUME ServerInv, PeerReads
  PROVE  ServerInv' /\ \A n \in Names : told'[n] >= told[n]
<1> DEFINE a == Head(toPeer)
<1>1. /\ ~left /\ left' = left /\ toServer' = toServer /\ sent' = sent /\ selects' = selects
      /\ spc' = spc /\ hsms' = hsms /\ idle' = idle /\ out' = out /\ gem' = gem /\ age' = age
  BY DEF PeerReads, serverVars, engineVars
<1>2. /\ Pending # <<>> /\ a = Pending[1] /\ Pending' = Tail(Pending)
      /\ toPeer' \in Seq(Range(toPeer'))
  BY WhatIsRead
<1>3. /\ Pending \in Seq(Range(toPeer) \cup {out}) /\ due \in Seq(Dues) /\ Numbered(due) /\ Rising(due)
      /\ toServer \in Seq(Frames) /\ Numbered(toServer) /\ Rising(toServer)
      /\ Line(toServer, due, Pending)
      /\ spc # "returned" => /\ selects <=> SelectedBefore(hsms, toServer, Len(toServer) + 1)
                             /\ Service(hsms, toServer, due, Pending)
  BY <1>1, InvFacts
<1>4. told \in [Names -> Int] /\ TellsRise(Pending, due, told, gem)
  BY <1>1, TypeParts
<1>5. Frames' = Frames /\ Dues' = Dues /\ Limit' = Limit
  BY <1>1 DEF Frames, Dues, Limit
<1> HIDE DEF a
<1>6. /\ due' \in Seq(Dues) /\ Rising(due') /\ Line(toServer, due', Tail(Pending))
      /\ spc # "returned" => Service(hsms, toServer, due', Tail(Pending))
      /\ TellsRise(Tail(Pending), due', told', gem) /\ told' \in [Names -> Int]
      /\ \A n \in Names : told'[n] >= told[n]
  <2>1. CASE a.type = "S6F11"
    <3>1. due' = due /\ told' = told
      BY <2>1 DEF PeerReads, a
    <3>2. ~IsAnswer(Pending[1])
      BY <1>2, <2>1 DEF IsAnswer
    <3>3. Line(toServer, due, Tail(Pending))
      BY <1>2, <1>3, <3>2, EventRead
    <3>4. spc # "returned" => Service(hsms, toServer, due, Tail(Pending))
      BY <1>2, <1>3, <3>2, EventReadServed
    <3>5. TellsRise(Tail(Pending), due, told, gem)
      BY <1>2, <1>3, <1>4, TellsRiseWithEvent
    <3>6. \A n \in Names : told[n] >= told[n]
      BY <1>4
    <3>7. QED
      BY <1>3, <1>4, <3>1, <3>3, <3>4, <3>5, <3>6
  <2>2. CASE a.type # "S6F11"
    <3>1. due' = Tail(due) /\ told' = Told(a, Head(due).req)
      BY <2>2 DEF PeerReads, a
    <3>2. IsAnswer(Pending[1])
      BY <1>2, <2>2 DEF IsAnswer
    <3>3. due # <<>> /\ AnswersTo(Pending[1], due[1])
      BY <1>2, <1>3, <3>2, FirstAnswer
    <3>4. Head(due) = due[1] /\ Tail(due) \in Seq(Dues)
      BY <1>3, <3>3, TailFacts
    <3>5. Rising(Tail(due))
      BY <1>3, <3>3, TailRises
    <3>6. Line(toServer, Tail(due), Tail(Pending))
      BY <1>2, <1>3, <3>2, AnswerRead
    <3>7. spc # "returned" => Service(hsms, toServer, Tail(due), Tail(Pending))
      BY <1>2, <1>3, <3>2, AnswerReadServed
    <3>8. told' = ToldBy(Pending[1], due[1], told)
      BY <1>2, <3>1, <3>4 DEF Told, Tell, ToldBy
    <3>9. /\ TellsRise(Tail(Pending), Tail(due), told', gem)
          /\ told' \in [Names -> Int] /\ \A n \in Names : told'[n] >= told[n]
      BY <1>2, <1>3, <1>4, <3>3, <3>8, TellsRiseWithReading
    <3>10. QED
      BY <3>1, <3>4, <3>5, <3>6, <3>7, <3>9
  <2>3. QED
    BY <2>1, <2>2
<1>7. QED
  BY <1>1, <1>2, <1>3, <1>5, <1>6, TypeParts, InvFromParts

LEMMA LeaveKeepsInv == ASSUME ServerAssumption, ServerInv, PeerLeaves PROVE ServerInv'
<1>1. PICK n \in 0 .. Len(toServer) : toServer' = SubSeq(toServer, 1, n)
  BY DEF PeerLeaves
<1>2. /\ left' /\ toPeer' = <<>> /\ sent' = sent /\ selects' = selects /\ due' = due /\ told' = told
      /\ spc' = spc /\ hsms' = hsms /\ idle' = idle /\ out' = out /\ gem' = gem /\ age' = age
  BY DEF PeerLeaves, serverVars, engineVars, peerVars
<1>3. Frames' = Frames /\ Dues' = Dues /\ Limit' = Limit
  BY <1>2 DEF Frames, Dues, Limit
<1>4. /\ toServer' \in Seq(Frames) /\ Len(toServer') = n
      /\ \A i \in 1 .. n : i \in DOMAIN toServer /\ toServer'[i] = toServer[i]
  <2>1. toServer \in Seq(Frames)
    BY InvFacts
  <2>2. QED
    BY <1>1, <2>1
<1>5. Rising(toServer')
  <2>1. DOMAIN toServer' = 1 .. n
    BY <1>4
  <2>2. QED
    BY <1>4, <2>1, InvFacts DEF Rising
<1>6. Len(toServer') <= MaxAhead
  <2>1. Len(toServer) \in Nat /\ Len(toServer) <= MaxAhead /\ n <= Len(toServer)
    BY InvFacts, TypeParts
  <2>2. MaxAhead \in Nat
    BY DEF ServerAssumption
  <2>3. QED
    BY <1>4, <2>1, <2>2
<1>7. QED
  BY <1>2, <1>3, <1>4, <1>5, <1>6, InvFacts, TypeParts, InvFromParts

LEMMA StutterKeepsInv == ASSUME ServerInv, UNCHANGED passiveVars PROVE ServerInv'
<1>1. /\ spc' = spc /\ hsms' = hsms /\ idle' = idle /\ out' = out /\ toPeer' = toPeer /\ age' = age
      /\ gem' = gem /\ UNCHANGED <<hsms, toServer, left, peerVars>>
  BY DEF passiveVars, serverVars, engineVars, wireVars
<1>2. Pending' = Pending /\ Keeps(gem, gem') /\ Limit' = Limit
  BY <1>1, TypeParts, SameValues DEF Pending, Limit
<1>3. QED
  BY <1>1, <1>2, InvFacts, TypeParts, LineStaysKeepsInv

LEMMA StepKeepsInv ==
  ASSUME ServerAssumption, NamesAreApart, ServerInv, [PassiveNext]_passiveVars PROVE ServerInv'
<1>1. CASE PeerSends
  BY <1>1, SendKeepsInv
<1>2. CASE PeerReads
  BY <1>2, ReadKeepsInv
<1>3. CASE PeerLeaves
  BY <1>3, LeaveKeepsInv
<1>4. CASE ServerStep
  BY <1>4, ControlKeepsInv, DataKeepsInv, WriteKeepsInv, RunJobKeepsInv, TickKeepsInv,
     ReturningKeepsInv DEF ServerStep
<1>5. CASE OtherHost
  BY <1>5, OtherHostKeepsInv
<1>6. CASE UNCHANGED passiveVars
  BY <1>6, StutterKeepsInv
<1>7. QED
  BY <1>1, <1>2, <1>3, <1>4, <1>5, <1>6 DEF PassiveNext

(* The frames on the way, the answers that are due, written and to be read, *)
(* the values the engine holds and those the peer was told stay in order in *)
(* every state (sim.rs: serve_connection; gem.rs: handle_message).          *)
THEOREM ServerInvariant == PassiveSpec => []ServerInv
<1>1. PassiveInit => ServerInv
  BY InitServer, ServerAssumption
<1>2. ServerInv /\ [PassiveNext]_passiveVars => ServerInv'
  BY StepKeepsInv, ServerAssumption, NamesAreApart
<1>3. QED
  BY <1>1, <1>2, PTL DEF PassiveSpec

-----------------------------------------------------------------------------
(* What the invariant means *)

(* A value that was refused is neither a constant nor a program, whatever   *)
(* else its message brought (gem.rs: handle_s2f15, handle_s7f3).            *)
THEOREM RefusedIsNeverStored == PassiveSpec => []RefusedIsNotStored
<1>1. ServerInv => RefusedIsNotStored
  BY TypeParts DEF EngineOK, RefusedIsNotStored
<1>2. QED
  BY <1>1, ServerInvariant, PTL

(* A peer never reads a value older than one it was told before, nor than   *)
(* one that was accepted from it (gem.rs: the readers and writers of ecids  *)
(* and process_programs).                                                   *)
THEOREM ReadsOnlyAdvance == PassiveSpec => ReadsNeverGoBack
<1>1. ServerInv /\ [PassiveNext]_passiveVars
        => [\A n \in Names : told'[n] >= told[n]]_passiveVars
  <2> SUFFICES ASSUME ServerInv, PassiveNext
               PROVE  \A n \in Names : told'[n] >= told[n]
    OBVIOUS
  <2>1. CASE PeerReads
    BY <2>1, ReadKeepsInv
  <2>2. CASE ~PeerReads
    <3>1. told' = told
      BY <2>2 DEF PassiveNext, ServerStep, PeerSends, PeerLeaves, OtherHost, ServeSelect,
         ServeLinktest, ServeUnused, ServeSeparate, ServeUnselected, ServeUndecodable, ServeData,
         Serve, WriteAnswer, RunJob, RunJobFails, WriteFails, EndOfStream, Tick, TimedOut, peerVars
    <3>2. told \in [Names -> Int]
      BY TypeParts
    <3>3. QED
      BY <3>1, <3>2
  <2>3. QED
    BY <2>1, <2>2
<1>2. QED
  BY <1>1, ServerInvariant, PTL DEF ReadsNeverGoBack, PassiveSpec


(* Counting: when i things hold answers to the first k due and no others,   *)
(* they hold k answers.                                                     *)
LEMMA OneForOne ==
  ASSUME NEW P, NEW pending \in Seq(P), NEW D, NEW dues \in Seq(D), Numbered(dues), NEW frames,
         Line(frames, dues, pending),
         NEW i \in 0 .. Len(pending), NEW k \in 0 .. Len(dues),
         \A h \in 1 .. k : \E j \in 1 .. i : AnswersTo(pending[j], dues[h]),
         \A j \in 1 .. i : IsAnswer(pending[j]) => \E m \in 1 .. k : AnswersTo(pending[j], dues[m])
  PROVE  Cardinality({j \in 1 .. i : IsAnswer(pending[j])}) = k
<1> DEFINE A == {j \in 1 .. i : IsAnswer(pending[j])}
           f == [h \in 1 .. k |-> CHOOSE j \in A : AnswersTo(pending[j], dues[h])]
<1>1. \A h \in 1 .. k : f[h] \in A /\ AnswersTo(pending[f[h]], dues[h])
  <2>1. \A h \in 1 .. k : \E j \in A : AnswersTo(pending[j], dues[h])
    BY DEF AnswersTo
  <2> HIDE DEF A
  <2>2. QED
    BY <2>1
<1>2. (1 .. k) \subseteq DOMAIN dues /\ A \subseteq DOMAIN pending /\ A \subseteq Int /\ k \in Nat
  OBVIOUS
<1>3. \A h \in 1 .. k, m \in 1 .. k : dues[h].sys = dues[m].sys => h = m
  <2>1. \A h \in 1 .. k, m \in 1 .. k : h < m => dues[h].sys < dues[m].sys
    BY <1>2 DEF Line, Rising
  <2>2. \A h \in 1 .. k : dues[h].sys \in Int
    BY <1>2 DEF Numbered
  <2>3. QED
    BY <2>1, <2>2
<1>4. \A j \in A, l \in A : pending[j].sys = pending[l].sys => j = l
  <2>0. AnswersRise(pending, frames)
    BY DEF Line
  <2>1. \A j \in A, l \in A : j < l => pending[j].sys < pending[l].sys
    BY <1>2, <2>0 DEF AnswersRise
  <2>2. \A j \in A : pending[j].sys \in Int
    BY <1>2 DEF Numbered, AnswersTo
  <2> HIDE DEF A
  <2>3. ASSUME NEW j \in A, NEW l \in A, pending[j].sys = pending[l].sys PROVE j = l
    <3>1. j \in Int /\ l \in Int /\ pending[j].sys \in Int
      BY <1>2, <2>2
    <3>2. ~(j < l) /\ ~(l < j)
      BY <2>1, <2>3, <3>1
    <3>3. QED
      BY <3>1, <3>2
  <2>4. QED
    BY <2>3
<1>5. f \in [1 .. k -> A]
  BY <1>1
<1>6. ASSUME NEW h \in 1 .. k, NEW m \in 1 .. k, f[h] = f[m] PROVE h = m
  <2> HIDE DEF A, f
  <2>1. dues[h].sys = pending[f[h]].sys /\ dues[m].sys = pending[f[m]].sys
    BY <1>1 DEF AnswersTo
  <2>2. QED
    BY <1>3, <1>6, <2>1
<1>7. ASSUME NEW j \in A PROVE \E h \in 1 .. k : f[h] = j
  <2>1. PICK m \in 1 .. k : AnswersTo(pending[j], dues[m])
    OBVIOUS
  <2>2. pending[f[m]].sys = pending[j].sys /\ f[m] \in A
    BY <1>1, <2>1 DEF AnswersTo
  <2>3. QED
    BY <1>4, <2>2
<1> HIDE DEF A, f
<1>8. f \in Bijection(1 .. k, A)
  BY <1>5, <1>6, <1>7 DEF Bijection, Injection, Surjection, IsInjective
<1>9. Cardinality(A) = k
  BY <1>2, <1>8, FS_CountingElements DEF ExistsBijection
<1>10. QED
  BY <1>9 DEF A

(* A peer that sends ahead is answered one for one: in the order of its     *)
(* frames, each answer with its frame's transaction number and of the kind  *)
(* E37 and E30 have for it, whether the frame asks for it or not; when the  *)
(* thread waits for a frame, all are there (sim.rs: serve_connection,       *)
(* handle_data).                                                            *)
THEOREM AnswersAlwaysOneForOne == PassiveSpec => []AnswersAreOneForOne
<1>1. ASSUME ServerInv, ~left PROVE AnswersAreDue
  <2>1. /\ Pending \in Seq(Range(toPeer) \cup {out}) /\ due \in Seq(Dues) /\ Numbered(due)
        /\ Line(toServer, due, Pending)
    BY <1>1, InvFacts
  <2>2. ASSUME NEW i \in 1 .. Len(Pending), IsAnswer(Pending[i])
        PROVE  \E k \in DOMAIN due : AnswersTo(Pending[i], due[k]) /\ k = Cardinality(Answers(i))
    <3>1. i \in DOMAIN Pending /\ DOMAIN due = 1 .. Len(due) /\ Len(due) \in Nat
          /\ DOMAIN Pending = 1 .. Len(Pending) /\ Len(Pending) \in Nat
      BY <2>1
    <3>2. PICK k \in DOMAIN due :
            /\ AnswersTo(Pending[i], due[k])
            /\ \A h \in 1 .. k - 1 : \E j \in 1 .. i - 1 : AnswersTo(Pending[j], due[h])
      BY <2>1, <2>2, <3>1 DEF Line, InOrder
    <3>3. ASSUME NEW h \in 1 .. k PROVE \E j \in 1 .. i : AnswersTo(Pending[j], due[h])
      <4>1. CASE h = k
        BY <3>2, <4>1
      <4>2. CASE h # k
        <5>1. h \in 1 .. k - 1
          BY <3>1, <4>2
        <5>2. QED
          BY <3>2, <5>1
      <4>3. QED
        BY <4>1, <4>2
    <3>4. ASSUME NEW j \in 1 .. i, IsAnswer(Pending[j])
          PROVE  \E m \in 1 .. k : AnswersTo(Pending[j], due[m])
      <4>1. PICK m \in DOMAIN due : AnswersTo(Pending[j], due[m])
        BY <2>1, <3>1, <3>4 DEF Line, InOrder
      <4>2. Pending[j].sys <= Pending[i].sys
        <5>1. AnswersRise(Pending, toServer)
          BY <2>1 DEF Line
        <5>2. j < i => Pending[j].sys < Pending[i].sys
          BY <2>2, <3>1, <3>4, <5>1 DEF AnswersRise
        <5>3. Pending[j].sys \in Int /\ Pending[i].sys \in Int
          BY <2>1, <3>2, <4>1 DEF AnswersTo, Numbered
        <5>4. j = i \/ j < i
          BY <3>1
        <5>5. QED
          BY <5>2, <5>3, <5>4
      <4>3. due[m].sys <= due[k].sys
        BY <3>2, <4>1, <4>2 DEF AnswersTo
      <4>4. k < m => due[k].sys < due[m].sys
        BY <2>1 DEF Line, Rising
      <4>5. due[m].sys \in Int /\ due[k].sys \in Int
        BY <2>1 DEF Numbered
      <4>6. m \in 1 .. k
        BY <3>1, <4>3, <4>4, <4>5
      <4>7. QED
        BY <4>1, <4>6
    <3>5. i \in 0 .. Len(Pending) /\ k \in 0 .. Len(due)
      BY <3>1
    <3>6. Cardinality({j \in 1 .. i : IsAnswer(Pending[j])}) = k
      BY <2>1, <3>3, <3>4, <3>5, OneForOne
    <3>7. QED
      BY <3>2, <3>6 DEF Answers, IsAnswer
  <2>3. ASSUME NEW i \in Answers(Len(Pending))
        PROVE  Cardinality(Answers(i)) <= Len(due)
               /\ Pending[i].sys = due[Cardinality(Answers(i))].sys
               /\ Pending[i].type = due[Cardinality(Answers(i))].type
    <3>1. i \in 1 .. Len(Pending) /\ IsAnswer(Pending[i])
      BY DEF Answers, IsAnswer
    <3>2. PICK k \in DOMAIN due : AnswersTo(Pending[i], due[k]) /\ k = Cardinality(Answers(i))
      BY <2>2, <3>1
    <3>3. k <= Len(due)
      BY <2>1
    <3>4. QED
      BY <3>2, <3>3 DEF AnswersTo
  <2>4. QED
    BY <2>3 DEF AnswersAreDue
<1>2. ASSUME ServerInv, spc = "reading", toServer = <<>>, ~left
      PROVE  Cardinality(Answers(Len(Pending))) = Len(due)
  <2>1. /\ Pending \in Seq(Range(toPeer) \cup {out}) /\ due \in Seq(Dues) /\ Numbered(due)
        /\ Line(toServer, due, Pending) /\ DuesAreServed(hsms, toServer, due, Pending)
    BY <1>2, InvFacts DEF Service
  <2>2. DOMAIN toServer = {}
    BY <1>2
  <2>3. DOMAIN due = 1 .. Len(due) /\ Len(due) \in 0 .. Len(due)
        /\ DOMAIN Pending = 1 .. Len(Pending) /\ Len(Pending) \in 0 .. Len(Pending)
    BY <2>1
  <2>4. \A h \in 1 .. Len(due) : \E j \in 1 .. Len(Pending) : AnswersTo(Pending[j], due[h])
    BY <2>1, <2>2, <2>3 DEF DuesAreServed
  <2>5. \A j \in 1 .. Len(Pending) :
          IsAnswer(Pending[j]) => \E m \in 1 .. Len(due) : AnswersTo(Pending[j], due[m])
    BY <2>1, <2>3 DEF Line, InOrder
  <2>6. Cardinality({j \in 1 .. Len(Pending) : IsAnswer(Pending[j])}) = Len(due)
    <3>1. PICK i \in 0 .. Len(Pending) : i = Len(Pending)
      BY <2>3
    <3>2. PICK k \in 0 .. Len(due) : k = Len(due)
      BY <2>3
    <3>3. \A h \in 1 .. k : \E j \in 1 .. i : AnswersTo(Pending[j], due[h])
      BY <2>4, <3>1, <3>2
    <3>4. \A j \in 1 .. i : IsAnswer(Pending[j]) => \E m \in 1 .. k : AnswersTo(Pending[j], due[m])
      BY <2>5, <3>1, <3>2
    <3>5. Cardinality({j \in 1 .. i : IsAnswer(Pending[j])}) = k
      BY <2>1, <3>3, <3>4, OneForOne
    <3>6. QED
      BY <3>1, <3>2, <3>5
  <2>7. QED
    BY <2>6 DEF Answers, IsAnswer
<1>3. ServerInv => AnswersAreOneForOne
  <2>1. ServerInv => PassiveTypeOK
    BY DEF ServerInv
  <2>2. ServerInv => AnswersAreDue
    BY <1>1 DEF AnswersAreDue
  <2>3. ServerInv => NothingIsPassedOver
    BY <1>2 DEF NothingIsPassedOver
  <2>4. QED
    BY <2>1, <2>2, <2>3 DEF AnswersAreOneForOne
<1>4. QED
  BY <1>3, ServerInvariant, PTL


=============================================================================
