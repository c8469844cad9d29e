-------------------------- MODULE GemEngineProofs --------------------------
(***************************************************************************)
(* Proofs about GemEngine: the status copies and the process programs are  *)
(* invariants of the host's messages, and identifiers in use are distinct, *)
(* for any programs, bodies and identifier range.                          *)
(***************************************************************************)
EXTENDS GemEngine, SequenceTheorems, TLAPS

(* The part of the type invariant that the recipes need. *)
RecipesOK ==
  /\ process_programs \in [Ppids -> Bodies \cup {NoBody}]
  /\ recipes \in [Ppids -> Seq(Bodies)]

LEMMA LastOfAppend ==
  ASSUME NEW S, NEW s \in Seq(S), NEW e \in S
  PROVE  Append(s, e) \in Seq(S) /\ Append(s, e) # <<>> /\ Last(Append(s, e)) = e
BY DEF Last

(* Every host message leaves the status variables equal to the state of the *)
(* engine (update_svids at the end of handle_data), so they are stale only  *)
(* from an operator's action to the next host message.                      *)
THEOREM StatusStaysCurrent ==
  GemSpec => []StatusIsCurrent
<1>1. GemInit => StatusIsCurrent
  BY DEF GemInit, StatusIsCurrent
<1>2. StatusIsCurrent /\ [GemNext]_gemVars => StatusIsCurrent'
  <2> SUFFICES ASSUME StatusIsCurrent, [GemNext]_gemVars
               PROVE  StatusIsCurrent'
    OBVIOUS
  <2>1. CASE HandleData
    BY <2>1 DEF HandleData, UpdateSvids, StatusIsCurrent
  <2>2. CASE MakeAlarm
    BY <2>2 DEF MakeAlarm, StatusIsCurrent
  <2>3. CASE MakeEventReport
    BY <2>3 DEF MakeEventReport, StatusIsCurrent
  <2>4. CASE OperatorAction
    BY <2>4 DEF OperatorAction, StatusIsCurrent
  <2>5. CASE AddRecipe
    BY <2>5 DEF AddRecipe, StatusIsCurrent
  <2>6. CASE UNCHANGED gemVars
    BY <2>6 DEF gemVars, StatusIsCurrent
  <2>7. QED
    BY <2>1, <2>2, <2>3, <2>4, <2>5, <2>6 DEF GemNext
<1>3. QED
  BY <1>1, <1>2, PTL DEF GemSpec

(* A step that leaves programs and recipes alone. *)
LEMMA RecipesUntouched ==
  ASSUME RecipesOK, StoreFollowsPrograms, UNCHANGED <<process_programs, recipes, added>>
  PROVE  RecipesOK' /\ StoreFollowsPrograms'
BY DEF RecipesOK, StoreFollowsPrograms

(* S7F3 stores the same body in both places. *)
LEMMA DownloadKeepsStore ==
  ASSUME RecipesOK, StoreFollowsPrograms,
         NEW p \in Ppids, NEW b \in Bodies, ProcessProgram(p, b)
  PROVE  RecipesOK' /\ StoreFollowsPrograms'
<1>1. recipes[p] \in Seq(Bodies)
  BY DEF RecipesOK
<1> DEFINE chain == Append(recipes[p], b)
<1>2. chain \in Seq(Bodies) /\ chain # <<>> /\ Last(chain) = b
  BY <1>1, LastOfAppend
<1>3. /\ process_programs' = [process_programs EXCEPT ![p] = b]
      /\ recipes' = [recipes EXCEPT ![p] = chain]
      /\ added' = added \ {p}
  BY DEF ProcessProgram, Apply
<1> HIDE DEF chain
<1>4. RecipesOK'
  BY <1>2, <1>3 DEF RecipesOK
<1>5. StoreFollowsPrograms'
  <2> SUFFICES ASSUME NEW q \in Ppids \ added', process_programs'[q] # NoBody
               PROVE  recipes'[q] # <<>> /\ Last(recipes'[q]) = process_programs'[q]
    BY DEF StoreFollowsPrograms
  <2>1. CASE q = p
    BY <2>1, <1>2, <1>3 DEF RecipesOK
  <2>2. CASE q # p
    <3>1. /\ process_programs'[q] = process_programs[q] /\ recipes'[q] = recipes[q]
          /\ q \notin added
      BY <2>2, <1>3 DEF RecipesOK
    <3>2. QED
      BY <3>1 DEF StoreFollowsPrograms
  <2>3. QED
    BY <2>1, <2>2
<1>6. QED
  BY <1>4, <1>5

(* RecipeStore::add starts a chain, and marks the recipe as added. *)
LEMMA AddedRecipesAreMarked ==
  ASSUME RecipesOK, AddRecipe
  PROVE  /\ RecipesOK'
         /\ process_programs' = process_programs
         /\ added \subseteq added'
         /\ \A q \in Ppids \ added' : recipes'[q] = recipes[q]
<1> PICK p \in Ppids, b \in Bodies : /\ recipes' = [recipes EXCEPT ![p] = <<b>>]
                                     /\ added' = added \cup {p}
  BY DEF AddRecipe
<1>1. <<b>> \in Seq(Bodies)
  OBVIOUS
<1>2. process_programs' = process_programs
  BY DEF AddRecipe
<1>3. RecipesOK'
  BY <1>1, <1>2 DEF RecipesOK
<1>4. \A q \in Ppids \ added' : recipes'[q] = recipes[q]
  BY DEF RecipesOK
<1>5. QED
  BY <1>2, <1>3, <1>4

(* Unless RecipeStore::add put a recipe there since, the latest version of a *)
(* recipe that a host downloaded is the program the equipment would send     *)
(* back.                                                                     *)
THEOREM StoreAlwaysFollows ==
  GemSpec => []StoreFollowsPrograms
<1> DEFINE Inv == RecipesOK /\ StoreFollowsPrograms
<1>1. GemInit => Inv
  <2> SUFFICES ASSUME GemInit PROVE Inv
    OBVIOUS
  <2>1. RecipesOK
    BY DEF GemInit, RecipesOK
  <2>2. StoreFollowsPrograms
    BY DEF GemInit, StoreFollowsPrograms
  <2>3. QED
    BY <2>1, <2>2
<1>2. Inv /\ [GemNext]_gemVars => Inv'
  <2> SUFFICES ASSUME Inv, [GemNext]_gemVars PROVE Inv'
    OBVIOUS
  <2>1. CASE HandleData
    <3>1. CASE UNCHANGED <<process_programs, recipes, added>>
      BY <3>1, RecipesUntouched
    <3>2. CASE \E p \in Ppids, b \in Bodies : ProcessProgram(p, b)
      BY <3>2, DownloadKeepsStore
    <3>3. QED
      BY <2>1, <3>1, <3>2
         DEF HandleData, EstablishCommunications, RequestOffline, RequestOnline, RemoteCommand
  <2>2. CASE AddRecipe
    BY <2>2, AddedRecipesAreMarked DEF StoreFollowsPrograms
  <2>3. CASE UNCHANGED <<process_programs, recipes, added>>
    BY <2>3, RecipesUntouched
  <2>4. QED
    BY <2>1, <2>2, <2>3 DEF GemNext, MakeAlarm, MakeEventReport, OperatorAction, gemVars
<1>3. QED
  BY <1>1, <1>2, PTL DEF GemSpec

LEMMA SequenceIsItsPrefix ==
  ASSUME NEW S, NEW s \in Seq(S)
  PROVE  IsPrefix(s, s)
BY DEF IsPrefix

LEMMA AppendExtends ==
  ASSUME NEW S, NEW s \in Seq(S), NEW e \in S
  PROVE  IsPrefix(s, Append(s, e))
BY DEF IsPrefix

(* Only RecipeStore::add cuts the version chain of a recipe: every other    *)
(* step leaves it alone or appends to it.                                   *)
THEOREM VersionsAreAppended ==
  GemSpec => VersionsAreKept
<1> DEFINE Grows == \A p \in Ppids : p \in added' \/ IsPrefix(recipes[p], recipes'[p])
<1>1. GemInit => RecipesOK
  BY DEF GemInit, RecipesOK
<1>2. RecipesOK /\ [GemNext]_gemVars => RecipesOK' /\ (Grows \/ UNCHANGED gemVars)
  <2> SUFFICES ASSUME RecipesOK, [GemNext]_gemVars PROVE RecipesOK' /\ Grows
    OBVIOUS
  <2>1. CASE UNCHANGED <<process_programs, recipes>>
    BY <2>1, SequenceIsItsPrefix DEF RecipesOK
  <2>2. ASSUME NEW p \in Ppids, NEW b \in Bodies, ProcessProgram(p, b)
        PROVE  RecipesOK' /\ Grows
    <3>1. recipes[p] \in Seq(Bodies)
      BY DEF RecipesOK
    <3> DEFINE chain == Append(recipes[p], b)
    <3>2. chain \in Seq(Bodies) /\ IsPrefix(recipes[p], chain)
      BY <3>1, AppendExtends, LastOfAppend
    <3>3. /\ process_programs' = [process_programs EXCEPT ![p] = b]
          /\ recipes' = [recipes EXCEPT ![p] = chain]
      BY <2>2 DEF ProcessProgram, Apply
    <3> HIDE DEF chain
    <3>4. RecipesOK'
      BY <3>2, <3>3 DEF RecipesOK
    <3>5. Grows
      <4> SUFFICES ASSUME NEW q \in Ppids PROVE IsPrefix(recipes[q], recipes'[q])
        OBVIOUS
      <4>1. CASE q = p
        BY <4>1, <3>2, <3>3 DEF RecipesOK
      <4>2. CASE q # p
        <5>1. recipes'[q] = recipes[q] /\ recipes[q] \in Seq(Bodies)
          BY <4>2, <3>3 DEF RecipesOK
        <5>2. QED
          BY <5>1, SequenceIsItsPrefix
      <4>3. QED
        BY <4>1, <4>2
    <3>6. QED
      BY <3>4, <3>5
  <2>3. CASE AddRecipe
    BY <2>3, AddedRecipesAreMarked, SequenceIsItsPrefix DEF RecipesOK
  <2>4. QED
    BY <2>1, <2>2, <2>3
       DEF GemNext, HandleData, EstablishCommunications, RequestOffline, RequestOnline,
           RemoteCommand, MakeAlarm, MakeEventReport, OperatorAction, gemVars
<1>3. QED
  BY <1>1, <1>2, PTL DEF GemSpec, VersionsAreKept

(* Local control is left by going offline only, whoever asks for what.      *)
THEOREM LocalIsLeftByGoingOffline ==
  GemSpec => LocalStaysLocal
<1> DEFINE Kept == ctrl_state = "OnlineLocal" =>
                     ctrl_state' \in {"OnlineLocal", "EquipmentOffline", "HostOffline"}
<1>1. [GemNext]_gemVars => Kept \/ UNCHANGED gemVars
  <2> SUFFICES ASSUME GemNext, ctrl_state = "OnlineLocal"
               PROVE  ctrl_state' \in {"OnlineLocal", "EquipmentOffline", "HostOffline"}
    BY DEF gemVars
  <2>1. CASE HandleData
    BY <2>1 DEF HandleData, EstablishCommunications, RequestOffline, RequestOnline,
                ProcessProgram, RemoteCommand, GoOffline, OperatorRequestOnline, IsOffline
  <2>2. CASE OperatorAction
    BY <2>2 DEF OperatorAction, GoOffline, OperatorRequestOnline, IsOffline
  <2>3. CASE MakeAlarm \/ MakeEventReport \/ AddRecipe
    BY <2>3 DEF MakeAlarm, MakeEventReport, AddRecipe
  <2>4. QED
    BY <2>1, <2>2, <2>3 DEF GemNext
<1>2. QED
  BY <1>1, PTL DEF GemSpec, LocalStaysLocal
-----------------------------------------------------------------------------
(* Identifiers.  The shared counter is a place on a circle of IdRange; what  *)
(* is remembered lies behind it, the older the further.                      *)

Behind(n, x) == IF x <= n THEN n - x ELSE n - x + IdRange

LEMMA BumpIs ==
  ASSUME NEW n \in Id
  PROVE  Bump(n) = (IF n + 1 = IdRange THEN 0 ELSE n + 1) /\ Bump(n) \in Id
<1>1. IdRange \in Nat \ {0} /\ n \in Nat /\ n + 1 <= IdRange
  BY GemAssumption DEF Id
<1>2. CASE n + 1 = IdRange
  <2>1. IdRange % IdRange = 0
    BY <1>1
  <2> QED
    BY <1>1, <1>2, <2>1 DEF Bump, Id
<1>3. CASE n + 1 < IdRange
  <2>1. (n + 1) % IdRange = n + 1
    BY <1>1, <1>3
  <2> QED
    BY <1>1, <1>3, <2>1 DEF Bump, Id
<1> QED
  BY <1>1, <1>2, <1>3

LEMMA BehindIsNat ==
  ASSUME NEW n \in Id, NEW x \in Id
  PROVE  Behind(n, x) \in Nat
<1>1. IdRange \in Nat \ {0} /\ n \in 0 .. IdRange - 1 /\ x \in 0 .. IdRange - 1
  BY GemAssumption DEF Id
<1> QED
  BY <1>1 DEF Behind

(* The counter moves one further away from everything but what is right      *)
(* ahead of it, and different numbers are followed by different numbers.      *)
LEMMA BumpMovesOn ==
  ASSUME NEW n \in Id, NEW x \in Id, Behind(n, x) + 1 < IdRange
  PROVE  Behind(Bump(n), x) = Behind(n, x) + 1
<1>1. IdRange \in Nat \ {0} /\ n \in 0 .. IdRange - 1 /\ x \in 0 .. IdRange - 1
  BY GemAssumption DEF Id
<1> QED
  BY <1>1, BumpIs DEF Behind

LEMMA BumpIsInjective ==
  ASSUME NEW n \in Id, NEW m \in Id, Bump(n) = Bump(m)
  PROVE  n = m
<1>1. IdRange \in Nat \ {0} /\ n \in 0 .. IdRange - 1 /\ m \in 0 .. IdRange - 1
  BY GemAssumption DEF Id
<1> QED
  BY <1>1, BumpIs

Identifiers == [sys : Id, data : Id \cup {NoId}]

(* The newest message is put in front, and the oldest dropped when there are *)
(* too many.                                                                 *)
LEMMA Remembered ==
  ASSUME NEW s \in Seq(Identifiers), NEW e \in Identifiers, Len(s) <= Recent,
         NEW t, t = SubSeq(<<e>> \o s, 1, IF Len(s) < Recent THEN Len(s) + 1 ELSE Recent)
  PROVE  /\ t \in Seq(Identifiers) /\ Len(t) <= Recent
         /\ t # <<>> => t[1] = e
         /\ \A i \in 1 .. Len(t) : i # 1 => i - 1 \in 1 .. Len(s) /\ t[i] = s[i - 1]
<1> DEFINE u == <<e>> \o s
           n == IF Len(s) < Recent THEN Len(s) + 1 ELSE Recent
<1>1. Recent \in Nat /\ Len(s) \in Nat /\ n \in Nat /\ n <= Len(s) + 1 /\ n <= Recent
  BY GemAssumption
<1>2. <<e>> \in Seq(Identifiers) /\ Len(<<e>>) = 1 /\ <<e>>[1] = e
  OBVIOUS
<1>3. /\ u \in Seq(Identifiers) /\ Len(u) = Len(s) + 1
      /\ \A i \in 1 .. Len(u) : u[i] = IF i <= 1 THEN <<e>>[i] ELSE s[i - 1]
  BY <1>2, ConcatProperties
<1> HIDE DEF u, n
<1>4. \A i \in 1 .. n : i \in DOMAIN u
  BY <1>1, <1>3
<1>5. /\ t \in Seq(Identifiers) /\ Len(t) = n
      /\ \A i \in 1 .. n : t[i] = u[i]
  <2>1. t = SubSeq(u, 1, n)
    BY DEF u, n
  <2> QED
    BY <1>1, <1>3, <2>1, SubSeqProperties
<1>6. t # <<>> => t[1] = e
  BY <1>1, <1>2, <1>3, <1>5
<1>7. ASSUME NEW i \in 1 .. Len(t), i # 1
      PROVE  i - 1 \in 1 .. Len(s) /\ t[i] = s[i - 1]
  BY <1>1, <1>3, <1>5, <1>7
<1> QED
  BY <1>1, <1>5, <1>6, <1>7


(* What the counter and the remembered messages have to do with each other:  *)
(* the newest transaction number is the counter itself, the i-th lies at     *)
(* most 2 * (i - 1) behind it and behind the one after, and the data id of a *)
(* report comes two numbers before its transaction number.                   *)
IdsInv ==
  /\ Len(recent) <= Recent
  /\ recent # <<>> => recent[1].sys = next_data_id
  /\ \A i \in 1 .. Len(recent) : Behind(next_data_id, recent[i].sys) <= 2 * (i - 1)
  /\ \A i, k \in 1 .. Len(recent) :
       i < k => Behind(next_data_id, recent[i].sys) < Behind(next_data_id, recent[k].sys)
  /\ \A i \in 1 .. Len(recent) :
       recent[i].data # NoId => Bump(Bump(recent[i].data)) = recent[i].sys

(* Numbers that lie differently far behind the counter are different.        *)
LEMMA IdsInvIsFresh ==
  ASSUME GemTypeOK, IdsInv
  PROVE  FreshIds
<1>1. recent \in Seq(Identifiers) /\ next_data_id \in Id
  BY DEF GemTypeOK, Identifiers
<1>6. \A i \in 1 .. Len(recent) : Behind(next_data_id, recent[i].sys) \in Nat
  <2>1. \A i \in 1 .. Len(recent) : recent[i].sys \in Id
    <3>1. \A i \in 1 .. Len(recent) : recent[i] \in Identifiers
      BY <1>1
    <3> QED
      BY <3>1 DEF Identifiers
  <2> QED
    BY <1>1, <2>1, BehindIsNat
<1>2. ASSUME NEW i \in 1 .. Len(recent), NEW k \in 1 .. Len(recent), i < k
      PROVE  recent[i].sys # recent[k].sys
  <2>1. Behind(next_data_id, recent[i].sys) < Behind(next_data_id, recent[k].sys)
    BY <1>2 DEF IdsInv
  <2> QED
    BY <1>6, <2>1
<1>3. Len(recent) \in Nat
  BY <1>1
<1>4. ASSUME NEW i \in 1 .. Len(recent), NEW k \in 1 .. Len(recent), i # k
      PROVE  recent[i].sys # recent[k].sys
  <2>1. i < k \/ k < i
    BY <1>3, <1>4
  <2> QED
    BY <1>2, <2>1
<1>5. ASSUME NEW i \in 1 .. Len(recent), NEW k \in 1 .. Len(recent), i # k,
             recent[i].data # NoId, recent[i].data = recent[k].data
      PROVE  FALSE
  <2>1. /\ Bump(Bump(recent[i].data)) = recent[i].sys
        /\ Bump(Bump(recent[k].data)) = recent[k].sys
    BY <1>5 DEF IdsInv
  <2> QED
    BY <1>4, <1>5, <2>1
<1> QED
  BY <1>4, <1>5 DEF FreshIds

(* One message more: the counter has moved on by one or two numbers, to the  *)
(* new transaction number.                                                   *)
LEMMA RememberKeepsIds ==
  ASSUME 2 * Recent <= IdRange, GemTypeOK, IdsInv,
         NEW sys \in Id, NEW data \in Id \cup {NoId}, Remember(sys, data),
         next_data_id' = sys,
         \/ sys = Bump(next_data_id)
         \/ sys = Bump(Bump(next_data_id)),
         data # NoId => Bump(Bump(data)) = sys
  PROVE  recent' \in Seq(Identifiers) /\ IdsInv'
<1> DEFINE e == [sys |-> sys, data |-> data]
           n == next_data_id
           B(i) == Behind(n, recent[i].sys)
<1>0. /\ IdRange \in Nat \ {0} /\ Recent \in Nat /\ n \in Id /\ Bump(n) \in Id
      /\ recent \in Seq(Identifiers) /\ Len(recent) \in Nat
  BY GemAssumption, BumpIs DEF GemTypeOK, Identifiers
<1>1. /\ recent' \in Seq(Identifiers) /\ Len(recent') <= Recent
      /\ recent' # <<>> => recent'[1] = e
      /\ \A i \in 1 .. Len(recent') :
           i # 1 => i - 1 \in 1 .. Len(recent) /\ recent'[i] = recent[i - 1]
  <2>1. e \in Identifiers
    BY DEF Identifiers
  <2> QED
    BY <1>0, <2>1, Remembered DEF IdsInv, Remember
<1>2. Len(recent') \in Nat
  BY <1>1
<1>3. \A i \in 1 .. Len(recent) : /\ recent[i].sys \in Id /\ B(i) \in Nat
                                  /\ B(i) <= 2 * (i - 1)
  <2>1. \A i \in 1 .. Len(recent) : recent[i].sys \in Id
    <3>1. \A i \in 1 .. Len(recent) : recent[i] \in Identifiers
      BY <1>0
    <3> QED
      BY <3>1 DEF Identifiers
  <2>2. \A i \in 1 .. Len(recent) : Behind(n, recent[i].sys) \in Nat
    BY <1>0, <2>1, BehindIsNat
  <2>3. \A i \in 1 .. Len(recent) : Behind(n, recent[i].sys) <= 2 * (i - 1)
    BY DEF IdsInv
  <2> QED
    BY <2>1, <2>2, <2>3
<1>4. ASSUME NEW i \in 1 .. Len(recent), i + 1 <= Recent
      PROVE  /\ Behind(sys, recent[i].sys) > 0
             /\ Behind(sys, recent[i].sys) <= 2 * i
             /\ Behind(sys, recent[i].sys) = B(i) + (IF sys = Bump(n) THEN 1 ELSE 2)
  <2>1. /\ recent[i].sys \in Id /\ B(i) \in Nat /\ B(i) <= 2 * (i - 1)
    BY <1>3
  <2>2. B(i) + 1 < IdRange
    BY <1>0, <1>4, <2>1
  <2>3. Behind(Bump(n), recent[i].sys) = B(i) + 1
    BY <1>0, <2>1, <2>2, BumpMovesOn
  <2>4. CASE sys = Bump(n)
    BY <2>1, <2>3, <2>4
  <2>5. CASE sys # Bump(n)
    <3>1. sys = Bump(Bump(n))
      BY <2>5
    <3>2. B(i) + 2 < IdRange
      BY <1>0, <1>4, <2>1
    <3>3. Behind(sys, recent[i].sys) = B(i) + 2
      BY <1>0, <2>1, <2>3, <3>1, <3>2, BumpMovesOn
    <3> QED
      BY <2>1, <2>5, <3>3
  <2> QED
    BY <2>4, <2>5
<1>5. ASSUME NEW i \in 1 .. Len(recent'), i = 1
      PROVE  recent'[i].sys = sys /\ Behind(sys, recent'[i].sys) = 0
  BY <1>0, <1>1, <1>5 DEF Behind, Id
<1>6. ASSUME NEW i \in 1 .. Len(recent'), i # 1
      PROVE  /\ i - 1 \in 1 .. Len(recent) /\ recent'[i] = recent[i - 1]
             /\ Behind(sys, recent'[i].sys) > 0
             /\ Behind(sys, recent'[i].sys) <= 2 * (i - 1)
             /\ Behind(sys, recent'[i].sys) = B(i - 1) + (IF sys = Bump(n) THEN 1 ELSE 2)
  <2>1. i - 1 \in 1 .. Len(recent) /\ recent'[i] = recent[i - 1] /\ (i - 1) + 1 <= Recent
    BY <1>0, <1>1, <1>2, <1>6
  <2> QED
    BY <1>4, <2>1
<1>7. \A i \in 1 .. Len(recent') : Behind(sys, recent'[i].sys) <= 2 * (i - 1)
  BY <1>2, <1>5, <1>6
<1>8. ASSUME NEW i \in 1 .. Len(recent'), NEW k \in 1 .. Len(recent'), i < k
      PROVE  Behind(sys, recent'[i].sys) < Behind(sys, recent'[k].sys)
  <2>1. k # 1
    BY <1>2, <1>8
  <2>2. CASE i = 1
    BY <1>5, <1>6, <2>1, <2>2
  <2>3. CASE i # 1
    <3>1. B(i - 1) < B(k - 1) /\ B(i - 1) \in Nat /\ B(k - 1) \in Nat
      <4>1. i - 1 \in 1 .. Len(recent) /\ k - 1 \in 1 .. Len(recent) /\ i - 1 < k - 1
        BY <1>2, <1>6, <1>8, <2>1, <2>3
      <4> QED
        BY <1>3, <4>1 DEF IdsInv
    <3>2. /\ Behind(sys, recent'[i].sys) = B(i - 1) + (IF sys = Bump(n) THEN 1 ELSE 2)
          /\ Behind(sys, recent'[k].sys) = B(k - 1) + (IF sys = Bump(n) THEN 1 ELSE 2)
      BY <1>6, <2>1, <2>3
    <3> HIDE DEF B
    <3> QED
      BY <3>1, <3>2
  <2> QED
    BY <2>2, <2>3
<1>9. \A i \in 1 .. Len(recent') :
        recent'[i].data # NoId => Bump(Bump(recent'[i].data)) = recent'[i].sys
  <2> SUFFICES ASSUME NEW i \in 1 .. Len(recent'), recent'[i].data # NoId
               PROVE  Bump(Bump(recent'[i].data)) = recent'[i].sys
    OBVIOUS
  <2>1. CASE i = 1
    BY <1>1, <2>1
  <2>2. CASE i # 1
    BY <1>6, <2>2 DEF IdsInv
  <2> QED
    BY <2>1, <2>2
<1> QED
  BY <1>1, <1>7, <1>8, <1>9 DEF IdsInv


(* Nothing is remembered and no number used.                                 *)
LEMMA IdsUntouched ==
  ASSUME IdsInv, UNCHANGED <<next_data_id, recent>>
  PROVE  IdsInv'
BY DEF IdsInv

(* The steps that carry no identifier keep the types of everything.          *)
LEMMA StepGemTypes ==
  ASSUME GemTypeOK, GemNext, recent' \in Seq(Identifiers), next_data_id' \in Id
  PROVE  GemTypeOK'
<1>0. /\ recent' \in Seq([sys : Id, data : Id \cup {NoId}]) /\ next_data_id' \in Id
  BY DEF Identifiers
<1>1. com_state' \in CommunicationState /\ ctrl_state' \in ControlState
  <2>1. CASE HandleData
    BY <2>1 DEF HandleData, GemTypeOK, EstablishCommunications, RequestOffline, RequestOnline,
       ProcessProgram, RemoteCommand, GoOffline, OperatorRequestOnline,
       CommunicationState, ControlState
  <2>2. CASE MakeAlarm \/ MakeEventReport \/ AddRecipe
    BY <2>2 DEF MakeAlarm, MakeEventReport, AddRecipe, GemTypeOK
  <2>3. CASE OperatorAction
    BY <2>3 DEF OperatorAction, GoOffline, OperatorRequestOnline, OnlineMode, GemTypeOK,
       CommunicationState, ControlState
  <2> QED
    BY <2>1, <2>2, <2>3 DEF GemNext
<1>2. svids' \in CommunicationState \X ControlState
  <2>1. CASE HandleData
    BY <1>1, <2>1 DEF HandleData, UpdateSvids
  <2>2. CASE svids' = svids
    BY <2>2 DEF GemTypeOK
  <2> QED
    BY <2>1, <2>2 DEF GemNext, MakeAlarm, MakeEventReport, OperatorAction, AddRecipe
<1>3. RecipesOK' /\ added' \subseteq Ppids
  <2>1. RecipesOK
    BY DEF GemTypeOK, RecipesOK
  <2>2. CASE UNCHANGED <<process_programs, recipes, added>>
    BY <2>1, <2>2 DEF RecipesOK, GemTypeOK
  <2>3. ASSUME NEW p \in Ppids, NEW b \in Bodies, ProcessProgram(p, b)
        PROVE  RecipesOK' /\ added' \subseteq Ppids
    <3>1. Append(recipes[p], b) \in Seq(Bodies)
      BY <2>1, LastOfAppend DEF RecipesOK
    <3>2. /\ process_programs' = [process_programs EXCEPT ![p] = b]
          /\ recipes' = [recipes EXCEPT ![p] = Append(recipes[p], b)]
          /\ added' = added \ {p}
      BY <2>3 DEF ProcessProgram, Apply
    <3> QED
      BY <2>1, <3>1, <3>2 DEF RecipesOK, GemTypeOK
  <2>4. CASE AddRecipe
    <3>1. RecipesOK'
      BY <2>1, <2>4, AddedRecipesAreMarked
    <3>2. added' \subseteq Ppids
      BY <2>4 DEF AddRecipe, GemTypeOK
    <3> QED
      BY <3>1, <3>2
  <2> QED
    BY <2>2, <2>3, <2>4 DEF GemNext, HandleData, EstablishCommunications, RequestOffline,
       RequestOnline, RemoteCommand, MakeAlarm, MakeEventReport, OperatorAction
<1>4. command' \in [hcack : {0, 1}, started : BOOLEAN, ctrl : ControlState]
  <2>1. ASSUME NEW cmd, NEW hasPjid \in BOOLEAN, RemoteCommand(cmd, hasPjid)
        PROVE  command' \in [hcack : {0, 1}, started : BOOLEAN, ctrl : ControlState]
    <3>1. ctrl_state \in ControlState
      BY DEF GemTypeOK
    <3> QED
      BY <2>1, <3>1 DEF RemoteCommand
  <2>2. CASE command' = command
    BY <2>2 DEF GemTypeOK
  <2> QED
    BY <2>1, <2>2 DEF GemNext, HandleData, EstablishCommunications, RequestOffline,
       RequestOnline, ProcessProgram, MakeAlarm, MakeEventReport, OperatorAction, AddRecipe
<1>5. panel' \in BOOLEAN
  BY DEF GemTypeOK, GemNext, HandleData, MakeAlarm, MakeEventReport, OperatorAction, AddRecipe
<1> QED
  BY <1>0, <1>1, <1>2, <1>3, <1>4, <1>5 DEF GemTypeOK, RecipesOK

(* IdsAreFresh: whatever mix of alarms and event reports the connections     *)
(* cause, and however often the 32-bit counter wraps, the messages a host    *)
(* remembers have different transaction numbers and the reports different    *)
(* data ids, as long as it remembers no more than half as many as there are  *)
(* numbers (make_alarm, make_event_report, next_system).                     *)
THEOREM IdsStayFresh ==
  ASSUME 2 * Recent <= IdRange
  PROVE  GemSpec => []IdsAreFresh
<1>1. ASSUME GemInit PROVE GemTypeOK /\ IdsInv
  <2>1. IdRange \in Nat \ {0, 1} /\ Recent \in Nat
    BY GemAssumption
  <2>2. next_data_id \in Id
    BY <1>1, <2>1 DEF GemInit, Id
  <2>3. IdsInv
    BY <1>1, <2>1 DEF GemInit, IdsInv
  <2>4. recent \in Seq([sys : Id, data : Id \cup {NoId}])
    BY <1>1 DEF GemInit
  <2>5. recipes \in [Ppids -> Seq(Bodies)] /\ process_programs \in [Ppids -> Bodies \cup {NoBody}]
    BY <1>1 DEF GemInit
  <2> QED
    BY <1>1, <2>2, <2>3, <2>4, <2>5 DEF GemInit, GemTypeOK, CommunicationState, ControlState
<1>2. ASSUME GemTypeOK, IdsInv, [GemNext]_gemVars
      PROVE  GemTypeOK' /\ IdsInv'
  <2>0. /\ recent \in Seq(Identifiers) /\ next_data_id \in Id
        /\ Bump(next_data_id) \in Id /\ Bump(Bump(next_data_id)) \in Id
    BY <1>2, BumpIs DEF GemTypeOK, Identifiers
  <2>1. CASE UNCHANGED gemVars
    BY <1>2, <2>1, IdsUntouched DEF gemVars, GemTypeOK
  <2>2. CASE MakeAlarm
    <3>1. recent' \in Seq(Identifiers) /\ IdsInv'
      BY <1>2, <2>0, <2>2, RememberKeepsIds DEF MakeAlarm, NextSystem
    <3> QED
      BY <1>2, <2>0, <2>2, <3>1, StepGemTypes DEF GemNext, MakeAlarm
  <2>3. CASE MakeEventReport
    <3>1. recent' \in Seq(Identifiers) /\ IdsInv'
      BY <1>2, <2>0, <2>3, RememberKeepsIds DEF MakeEventReport, NextSystem
    <3> QED
      BY <1>2, <2>0, <2>3, <3>1, StepGemTypes DEF GemNext, MakeEventReport
  <2>4. CASE HandleData \/ OperatorAction \/ AddRecipe
    <3>1. UNCHANGED <<next_data_id, recent>>
      BY <2>4 DEF HandleData, EstablishCommunications, RequestOffline, RequestOnline,
         ProcessProgram, RemoteCommand, OperatorAction, AddRecipe
    <3> QED
      BY <1>2, <2>0, <2>4, <3>1, IdsUntouched, StepGemTypes DEF GemNext
  <2> QED
    BY <1>2, <2>1, <2>2, <2>3, <2>4 DEF GemNext
<1>3. GemTypeOK /\ IdsInv => IdsAreFresh
  BY IdsInvIsFresh DEF IdsAreFresh
<1> QED
  BY <1>1, <1>2, <1>3, PTL DEF GemSpec

=============================================================================
