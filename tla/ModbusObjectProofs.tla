------------------------- MODULE ModbusObjectProofs -------------------------
(* Theorems about signals and slots, for any objects and slots and however *)
(* deep emissions nest.                                                    *)
EXTENDS ModbusObject, SequenceTheorems, WellFoundedInduction, TLAPS

(***************************************************************************)
(* The inductive invariant.                                                *)
(***************************************************************************)
Emission == [object : Object, signal : Signal, i : Nat, slot : Slot \union {None},
             left : Seq(Slot), disturbed : BOOLEAN]

TypeOK ==
  /\ signalHash \in [Object -> [Signal -> Seq(Slot)]]
  /\ thl_senders \in Seq(Object)
  /\ emissions \in Seq(Emission)

(* Each emission has its object among the senders, the innermost first.    *)
SendersStacked ==
  /\ Len(thl_senders) = Len(emissions)
  /\ \A n \in 1..Len(emissions) : thl_senders[Len(emissions) + 1 - n] = emissions[n].object

(* An emission that nobody disturbed has come to a position of the list,   *)
(* and what it has left to call is the rest of the list.                   *)
InStep(e, list) ==
  ~e.disturbed => e.i <= Len(list) /\ e.left = SubSeq(list, e.i + 1, Len(list))

AllInStep ==
  \A n \in 1..Len(emissions) :
    InStep(emissions[n], signalHash[emissions[n].object][emissions[n].signal])

Inv == TypeOK /\ SendersStacked /\ AllInStep

-----------------------------------------------------------------------------
(***************************************************************************)
(* What disconnecting leaves of a list: by the recursion of the loop over  *)
(* the list, in the form of minimal counterexamples.                       *)
(***************************************************************************)

(* What may be counted has a least member.                                 *)
LEMMA Least == \A T \in SUBSET Nat : T # {} => \E m \in T : \A k \in T : m <= k
<1> SUFFICES ASSUME NEW T \in SUBSET Nat, T # {}
             PROVE  \E m \in T : \A k \in T : m <= k
  OBVIOUS
<1>1. PICK m \in T : \A k \in T : ~(<<k, m>> \in OpToRel(<, Nat))
  BY WFMin, NatLessThanWellFounded
<1>2. \A k \in T : ~(k < m)
  BY <1>1 DEF OpToRel
<1> QED
  BY <1>2

(* One pass of the loop: the slot at n, if it stays, is added.             *)
Added(stay, list, n, object, method) ==
  IF Matches(list[n], object, method) THEN stay[n - 1] ELSE Append(stay[n - 1], list[n])

IsStaying(stay, list, upto, object, method) ==
  /\ stay[0] = <<>>
  /\ \A n \in 1..upto : stay[n] = Added(stay, list, n, object, method)

(* The loop runs, however long the list is.                                *)
LEMMA StayingExists ==
  ASSUME NEW list \in Seq(Slot), NEW object, NEW method, NEW upto \in 0..Len(list)
  PROVE  \E stay \in [0..upto -> Seq(Slot)] : IsStaying(stay, list, upto, object, method)
<1> DEFINE Runs(m) == \E stay \in [0..m -> Seq(Slot)] :
                        IsStaying(stay, list, m, object, method)
           Fails == {m \in Nat : m <= Len(list) /\ ~Runs(m)}
<1> SUFFICES ASSUME Fails # {}
             PROVE  FALSE
  OBVIOUS
<1>1. PICK m \in Fails : \A k \in Fails : m <= k
  <2> HIDE DEF Fails
  <2>1. Fails \in SUBSET Nat
    BY DEF Fails
  <2> QED
    BY <2>1, Least
<1>2. m \in Nat /\ m <= Len(list) /\ ~Runs(m) /\ Len(list) \in Nat
  BY <1>1
<1>3. CASE m = 0
  <2> DEFINE first == [n \in 0..0 |-> <<>>]
  <2>1. first \in [0..0 -> Seq(Slot)] /\ first[0] = <<>>
    OBVIOUS
  <2>2. IsStaying(first, list, 0, object, method)
    BY <2>1 DEF IsStaying
  <2> QED
    BY <1>2, <1>3, <2>1, <2>2
<1>4. CASE m # 0
  <2>1. m - 1 \in Nat /\ m - 1 <= Len(list) /\ m - 1 \notin Fails
    BY <1>1, <1>2, <1>4
  <2>2. PICK stay \in [0..m - 1 -> Seq(Slot)] : IsStaying(stay, list, m - 1, object, method)
    BY <2>1
  <2>3. list[m] \in Slot
    BY <1>2, <1>4
  <2>4. Added(stay, list, m, object, method) \in Seq(Slot)
    BY <1>2, <1>4, <2>2, <2>3 DEF Added
  <2> DEFINE longer == [n \in 0..m |-> IF n = m THEN Added(stay, list, m, object, method)
                                                ELSE stay[n]]
  <2>5. longer \in [0..m -> Seq(Slot)]
    BY <1>2, <1>4, <2>2, <2>4
  <2>6. longer[m] = Added(stay, list, m, object, method)
          /\ \A n \in 0..m - 1 : longer[n] = stay[n]
    BY <1>2, <1>4
  <2> HIDE DEF longer
  <2>7. IsStaying(longer, list, m, object, method)
    <3>1. longer[0] = <<>>
      BY <1>2, <1>4, <2>2, <2>6 DEF IsStaying
    <3>2. ASSUME NEW n \in 1..m
          PROVE  longer[n] = Added(longer, list, n, object, method)
      <4>1. longer[n - 1] = stay[n - 1]
        BY <1>2, <2>6, <3>2
      <4>2. Added(longer, list, n, object, method) = Added(stay, list, n, object, method)
        BY <4>1 DEF Added
      <4>3. CASE n = m
        BY <2>6, <4>2, <4>3
      <4>4. CASE n \in 1..m - 1
        BY <2>2, <2>6, <4>2, <4>4 DEF IsStaying
      <4> QED
        BY <1>2, <3>2, <4>3, <4>4
    <3> QED
      BY <3>1, <3>2 DEF IsStaying
  <2> QED
    BY <1>2, <2>5, <2>7
<1> QED
  BY <1>3, <1>4

(* The recursive function behind disconnect follows its recursion.         *)
LEMMA StayingRuns ==
  ASSUME NEW list \in Seq(Slot), NEW object, NEW method
  PROVE  /\ Staying(list, object, method) \in [0..Len(list) -> Seq(Slot)]
         /\ IsStaying(Staying(list, object, method), list, Len(list), object, method)
<1> DEFINE Of(stay) == [n \in 0..Len(list) |->
                          IF n = 0 THEN <<>>
                          ELSE IF Matches(list[n], object, method) THEN stay[n - 1]
                               ELSE Append(stay[n - 1], list[n])]
           S == Staying(list, object, method)
<1>1. PICK stay \in [0..Len(list) -> Seq(Slot)] :
        IsStaying(stay, list, Len(list), object, method)
  <2>1. Len(list) \in 0..Len(list)
    OBVIOUS
  <2> QED
    BY <2>1, StayingExists
<1>2. stay = Of(stay)
  <2>1. ASSUME NEW n \in 0..Len(list)
        PROVE  stay[n] = Of(stay)[n]
    <3>1. CASE n = 0
      BY <1>1, <3>1 DEF IsStaying
    <3>2. CASE n \in 1..Len(list)
      <4>1. stay[n] = Added(stay, list, n, object, method)
        BY <1>1, <3>2 DEF IsStaying
      <4>2. n # 0
        BY <3>2
      <4>3. Of(stay)[n] = Added(stay, list, n, object, method)
        BY <4>2 DEF Added
      <4> QED
        BY <4>1, <4>3
    <3> QED
      BY <2>1, <3>1, <3>2
  <2>2. stay = [n \in 0..Len(list) |-> stay[n]]
    BY <1>1
  <2>3. Of(stay) = [n \in 0..Len(list) |-> Of(stay)[n]]
    OBVIOUS
  <2> HIDE DEF Of
  <2> QED
    BY <2>1, <2>2, <2>3
<1>3. S = CHOOSE f : f = Of(f)
  BY DEF Staying
<1>4. S = Of(S)
  <2> HIDE DEF Of, S
  <2> QED
    BY <1>2, <1>3
<1> HIDE DEF S
<1>5. DOMAIN S = 0..Len(list) /\ S = [n \in 0..Len(list) |-> S[n]]
  <2>1. DOMAIN Of(S) = 0..Len(list) /\ Of(S) = [n \in 0..Len(list) |-> Of(S)[n]]
    OBVIOUS
  <2> HIDE DEF Of
  <2> QED
    BY <1>4, <2>1
<1>6. \A n \in 0..Len(list) : S[n] = Of(S)[n]
  BY <1>4
<1>7. IsStaying(S, list, Len(list), object, method)
  BY <1>6 DEF IsStaying, Added
<1>8. \A n \in 0..Len(list) : S[n] \in Seq(Slot)
  <2> DEFINE Fails == {n \in Nat : n <= Len(list) /\ S[n] \notin Seq(Slot)}
  <2> SUFFICES ASSUME Fails # {}
               PROVE  FALSE
    OBVIOUS
  <2>1. PICK m \in Fails : \A k \in Fails : m <= k
    <3>1. Fails \in SUBSET Nat
      OBVIOUS
    <3> HIDE DEF Fails
    <3> QED
      BY <3>1, Least
  <2>2. m \in Nat /\ m <= Len(list) /\ S[m] \notin Seq(Slot) /\ Len(list) \in Nat
    BY <2>1
  <2>3. m # 0
    <3>1. S[0] = <<>> /\ <<>> \in Seq(Slot)
      BY <1>7 DEF IsStaying
    <3> HIDE DEF Fails
    <3> QED
      BY <2>2, <3>1
  <2>4. m - 1 \in Nat /\ m - 1 \notin Fails /\ m - 1 <= Len(list) /\ list[m] \in Slot
    BY <2>1, <2>2, <2>3
  <2>5. S[m - 1] \in Seq(Slot) /\ S[m] = Added(S, list, m, object, method)
    BY <1>7, <2>2, <2>3, <2>4 DEF IsStaying
  <2> QED
    BY <2>2, <2>4, <2>5 DEF Added
<1> QED
  BY <1>5, <1>7, <1>8 DEF S

(* A list without some of its slots is a list of slots.                    *)
LEMMA WithoutType ==
  ASSUME NEW list \in Seq(Slot), NEW object, NEW method
  PROVE  Without(list, object, method) \in Seq(Slot)
BY StayingRuns DEF Without

(* Slots that all stay are kept as they are, ...                           *)
LEMMA StayingPrefix ==
  ASSUME NEW list \in Seq(Slot), NEW object, NEW method, NEW i \in 0..Len(list),
         \A p \in 1..i : ~Matches(list[p], object, method)
  PROVE  Staying(list, object, method)[i] = SubSeq(list, 1, i)
<1> DEFINE S == Staying(list, object, method)
           Fails == {n \in Nat : n <= i /\ S[n] # SubSeq(list, 1, n)}
<1>1. IsStaying(S, list, Len(list), object, method)
  BY StayingRuns
<1> HIDE DEF S
<1> SUFFICES ASSUME Fails # {}
             PROVE  FALSE
  BY DEF S
<1>2. PICK m \in Fails : \A k \in Fails : m <= k
  <2>1. Fails \in SUBSET Nat
    OBVIOUS
  <2> HIDE DEF Fails
  <2> QED
    BY <2>1, Least
<1>3. m \in Nat /\ m <= i /\ i <= Len(list) /\ Len(list) \in Nat
        /\ S[m] # SubSeq(list, 1, m)
  BY <1>2
<1>4. m # 0
  <2>1. SubSeq(list, 1, 0) = <<>>
    BY SubSeqEmpty
  <2> QED
    BY <1>1, <1>3, <2>1 DEF IsStaying
<1>5. m - 1 \in Nat /\ m \in 1..i /\ m \in 1..Len(list) /\ S[m - 1] = SubSeq(list, 1, m - 1)
  BY <1>2, <1>3, <1>4
<1>6. S[m] = Append(SubSeq(list, 1, m - 1), list[m])
  BY <1>1, <1>5 DEF IsStaying, Added
<1>7. SubSeq(list, 1, m) = SubSeq(list, 1, m - 1) \o <<list[m]>>
  BY <1>5, SubSeqRecursiveSecond
<1>8. SubSeq(list, 1, m - 1) \in Seq(Slot) /\ list[m] \in Slot
  BY <1>5, SubSeqProperties
<1> QED
  BY <1>3, <1>6, <1>7, <1>8

(* The rest of a list behind its first i slots.                            *)
LEMMA RestOfList ==
  ASSUME NEW list \in Seq(Slot), NEW i \in 0..Len(list)
  PROVE  LET rest == SubSeq(list, i + 1, Len(list))
         IN  /\ rest \in Seq(Slot)
             /\ Len(rest) = Len(list) - i
             /\ \A k \in 1..Len(list) - i : rest[k] = list[i + k]
<1>1. i \in Nat /\ Len(list) \in Nat /\ i <= Len(list)
  OBVIOUS
<1>2. \A k \in i + 1..Len(list) : list[k] \in Slot
  BY <1>1
<1>3. i + 1 \in Int /\ Len(list) \in Int
  BY <1>1
<1>4. /\ SubSeq(list, i + 1, Len(list)) \in Seq(Slot)
      /\ Len(SubSeq(list, i + 1, Len(list)))
           = IF i + 1 <= Len(list) THEN Len(list) - (i + 1) + 1 ELSE 0
      /\ \A k \in 1..Len(list) - (i + 1) + 1 :
           SubSeq(list, i + 1, Len(list))[k] = list[i + 1 + k - 1]
  BY <1>2, <1>3, SubSeqProperties
<1>5. \A k \in 1..Len(list) - i : i + 1 + k - 1 = i + k /\ k \in 1..Len(list) - (i + 1) + 1
  BY <1>1
<1> QED
  BY <1>1, <1>4, <1>5

(* A slot added to the end of the second of two lists.                     *)
LEMMA AppendOfConcat ==
  ASSUME NEW a \in Seq(Slot), NEW b \in Seq(Slot), NEW x \in Slot
  PROVE  Append(a \o b, x) = a \o Append(b, x)
<1>1. \A c \in Seq(Slot) : Append(c, x) = c \o <<x>>
  OBVIOUS
<1>2. a \o b \in Seq(Slot) /\ <<x>> \in Seq(Slot)
  OBVIOUS
<1>3. (a \o b) \o <<x>> = a \o (b \o <<x>>)
  BY <1>2, ConcatAssociative
<1> QED
  BY <1>1, <1>2, <1>3

(* ... and those behind them are looked at as if they were a list alone.   *)
LEMMA StayingSuffix ==
  ASSUME NEW list \in Seq(Slot), NEW object, NEW method, NEW i \in 0..Len(list),
         \A p \in 1..i : ~Matches(list[p], object, method)
  PROVE  LET rest == SubSeq(list, i + 1, Len(list))
         IN  Without(list, object, method)
               = SubSeq(list, 1, i) \o Without(rest, object, method)
<1> DEFINE rest == SubSeq(list, i + 1, Len(list))
           front == SubSeq(list, 1, i)
           S == Staying(list, object, method)
           R == Staying(rest, object, method)
           Fails == {k \in Nat : k <= Len(rest) /\ S[i + k] # front \o R[k]}
<1>1. i \in Nat /\ Len(list) \in Nat /\ i <= Len(list)
  OBVIOUS
<1>2. /\ rest \in Seq(Slot) /\ Len(rest) = Len(list) - i
      /\ \A k \in 1..Len(list) - i : rest[k] = list[i + k]
  BY RestOfList
<1>3. front \in Seq(Slot)
  <2>1. \A k \in 1..i : list[k] \in Slot
    BY <1>1
  <2> QED
    BY <1>1, <2>1, SubSeqProperties
<1>4. S[i] = front
  BY StayingPrefix
<1> HIDE DEF rest, front
<1>5. IsStaying(S, list, Len(list), object, method)
  BY StayingRuns
<1>6. IsStaying(R, rest, Len(rest), object, method) /\ R \in [0..Len(rest) -> Seq(Slot)]
  BY <1>2, StayingRuns
<1> HIDE DEF S, R
<1>7. Fails = {}
  <2> SUFFICES ASSUME Fails # {}
               PROVE  FALSE
    OBVIOUS
  <2>1. PICK m \in Fails : \A k \in Fails : m <= k
    <3>1. Fails \in SUBSET Nat
      OBVIOUS
    <3> HIDE DEF Fails
    <3> QED
      BY <3>1, Least
  <2>2. m \in Nat /\ m <= Len(rest) /\ S[i + m] # front \o R[m] /\ Len(rest) \in Nat
    BY <1>2, <2>1
  <2>3. m # 0
    <3>1. front \o <<>> = front
      BY <1>3, ConcatEmptySeq
    <3>2. S[i + 0] = front \o R[0]
      BY <1>1, <1>4, <1>6, <3>1 DEF IsStaying
    <3> QED
      BY <2>2, <3>2
  <2>4. m - 1 \in Nat /\ m - 1 <= Len(rest) /\ m \in 1..Len(rest)
    BY <2>2, <2>3
  <2>5. m - 1 \notin Fails
    <3> HIDE DEF Fails
    <3>1. ~(m <= m - 1)
      BY <2>2
    <3> QED
      BY <2>1, <3>1
  <2>6. S[i + (m - 1)] = front \o R[m - 1]
    BY <2>4, <2>5
  <2> HIDE DEF Fails
  <2> DEFINE at == i + m
  <2>7. at \in 1..Len(list) /\ at - 1 = i + (m - 1)
    BY <1>1, <1>2, <2>2, <2>3
  <2>8. R[m - 1] \in Seq(Slot)
    <3>1. m - 1 \in 0..Len(rest)
      BY <2>2, <2>4
    <3> QED
      BY <1>6, <3>1
  <2>9. rest[m] = list[at] /\ list[at] \in Slot
    BY <1>1, <1>2, <2>2, <2>4, <2>7
  <2> HIDE DEF at
  <2>10. S[at] = IF Matches(list[at], object, method) THEN S[at - 1]
                 ELSE Append(S[at - 1], list[at])
    BY <1>5, <2>7 DEF IsStaying, Added
  <2>11. R[m] = IF Matches(list[at], object, method) THEN R[m - 1]
                ELSE Append(R[m - 1], list[at])
    BY <1>6, <2>4, <2>9 DEF IsStaying, Added
  <2>12. S[at - 1] = front \o R[m - 1]
    BY <2>6, <2>7
  <2>13. S[at] # front \o R[m]
    BY <2>2 DEF at
  <2>14. Append(front \o R[m - 1], list[at]) = front \o Append(R[m - 1], list[at])
    BY <1>3, <2>8, <2>9, AppendOfConcat
  <2> QED
    BY <2>10, <2>11, <2>12, <2>13, <2>14
<1>8. S[i + Len(rest)] = front \o R[Len(rest)]
  <2>1. Len(rest) \in Nat /\ Len(rest) <= Len(rest)
    BY <1>1, <1>2
  <2> QED
    BY <1>7, <2>1
<1>9. i + Len(rest) = Len(list)
  BY <1>1, <1>2
<1> QED
  BY <1>8, <1>9 DEF Without, S, R, rest, front

-----------------------------------------------------------------------------
(***************************************************************************)
(* Emissions that are in step with their list stay so.                     *)
(***************************************************************************)
(* A slot that is connected is called last.                                *)
LEMMA ConnectedInStep ==
  ASSUME NEW e \in Emission, NEW list \in Seq(Slot), NEW new \in Slot, InStep(e, list)
  PROVE  InStep([e EXCEPT !.left = Append(@, new)], Append(list, new))
<1> DEFINE longer == Append(list, new)
           rest == SubSeq(list, e.i + 1, Len(list))
           longerRest == SubSeq(longer, e.i + 1, Len(longer))
<1>1. e.i \in Nat /\ e.left \in Seq(Slot)
  BY DEF Emission
<1> SUFFICES ASSUME ~e.disturbed
             PROVE  e.i <= Len(longer) /\ Append(e.left, new) = longerRest
  BY DEF InStep, Emission
<1>2. e.i <= Len(list) /\ e.left = rest
  BY DEF InStep
<1>3. longer \in Seq(Slot) /\ Len(longer) = Len(list) + 1 /\ longer[Len(list) + 1] = new
        /\ \A k \in 1..Len(list) : longer[k] = list[k]
  OBVIOUS
<1>4. e.i \in 0..Len(list) /\ e.i \in 0..Len(longer) /\ Len(list) \in Nat
  BY <1>1, <1>2, <1>3
<1>5. /\ rest \in Seq(Slot) /\ Len(rest) = Len(list) - e.i
      /\ \A k \in 1..Len(list) - e.i : rest[k] = list[e.i + k]
  BY <1>4, RestOfList
<1> HIDE DEF longer
<1>6. /\ longerRest \in Seq(Slot) /\ Len(longerRest) = Len(longer) - e.i
      /\ \A k \in 1..Len(longer) - e.i : longerRest[k] = longer[e.i + k]
  BY <1>3, <1>4, RestOfList
<1> HIDE DEF rest, longerRest
<1>7. Append(rest, new) \in Seq(Slot) /\ Len(Append(rest, new)) = Len(longerRest)
  BY <1>3, <1>4, <1>5, <1>6
<1>8. ASSUME NEW k \in 1..Len(longerRest)
      PROVE  Append(rest, new)[k] = longerRest[k]
  <2>1. CASE k = Len(rest) + 1
    <3>1. Append(rest, new)[k] = new
      BY <1>5, <2>1
    <3>2. e.i + k = Len(list) + 1
      BY <1>4, <1>5, <2>1
    <3> QED
      BY <1>3, <1>6, <3>1, <3>2
  <2>2. CASE k \in 1..Len(rest)
    <3>1. Append(rest, new)[k] = rest[k]
      BY <1>5, <2>2
    <3>2. k \in 1..Len(list) - e.i /\ e.i + k \in 1..Len(list)
      BY <1>4, <1>5, <2>2
    <3>3. k \in 1..Len(longer) - e.i
      BY <1>4, <1>6
    <3> QED
      BY <1>3, <1>5, <1>6, <3>1, <3>2, <3>3
  <2> QED
    BY <1>3, <1>4, <1>5, <1>6, <2>1, <2>2
<1>9. Append(rest, new) = longerRest
  BY <1>6, <1>7, <1>8, SeqEqual
<1> QED
  BY <1>2, <1>3, <1>4, <1>9

(* What is behind the first of two lists joined is the second.             *)
LEMMA RestOfJoined ==
  ASSUME NEW front \in Seq(Slot), NEW left \in Seq(Slot)
  PROVE  LET both == front \o left
         IN  Len(front) <= Len(both) /\ left = SubSeq(both, Len(front) + 1, Len(both))
<1> DEFINE both == front \o left
           i == Len(front)
           rest == SubSeq(both, i + 1, Len(both))
<1>1. both \in Seq(Slot) /\ i \in Nat /\ Len(left) \in Nat /\ Len(both) = i + Len(left)
        /\ \A k \in 1..i + Len(left) : both[k] = IF k <= i THEN front[k] ELSE left[k - i]
  BY ConcatProperties
<1> HIDE DEF both, i
<1>2. i \in 0..Len(both)
  BY <1>1
<1>3. /\ rest \in Seq(Slot) /\ Len(rest) = Len(both) - i
      /\ \A k \in 1..Len(both) - i : rest[k] = both[i + k]
  BY <1>1, <1>2, RestOfList
<1> HIDE DEF rest
<1>4. Len(rest) = Len(left)
  BY <1>1, <1>3
<1>5. ASSUME NEW k \in 1..Len(left)
      PROVE  left[k] = rest[k]
  <2>1. k \in 1..Len(both) - i /\ i + k \in 1..i + Len(left)
    BY <1>1
  <2>2. ~(i + k <= i) /\ (i + k) - i = k
    BY <1>1
  <2>3. rest[k] = both[i + k]
    BY <1>3, <2>1
  <2>4. both[i + k] = left[(i + k) - i]
    BY <1>1, <2>1, <2>2
  <2> QED
    BY <2>2, <2>3, <2>4
<1>6. left = rest
  BY <1>3, <1>4, <1>5, SeqEqual
<1> QED
  BY <1>1, <1>2, <1>6 DEF both, i, rest

(* Disconnecting slots behind the position takes them from what is left.   *)
LEMMA DisconnectedInStep ==
  ASSUME NEW e \in Emission, NEW list \in Seq(Slot), NEW object, NEW method,
         InStep(e, list), ~e.disturbed,
         \A p \in 1..e.i : ~Matches(list[p], object, method)
  PROVE  LET stay == Without(list, object, method)
         IN  /\ e.i <= Len(stay)
             /\ Without(e.left, object, method) = SubSeq(stay, e.i + 1, Len(stay))
<1> DEFINE stay == Without(list, object, method)
           front == SubSeq(list, 1, e.i)
           left == Without(e.left, object, method)
<1>1. e.i \in Nat /\ e.left \in Seq(Slot)
  BY DEF Emission
<1>2. e.i <= Len(list) /\ e.left = SubSeq(list, e.i + 1, Len(list)) /\ e.i \in 0..Len(list)
        /\ Len(list) \in Nat
  BY <1>1 DEF InStep
<1>3. stay = front \o left
  <2>1. stay = front \o Without(SubSeq(list, e.i + 1, Len(list)), object, method)
    BY <1>2, StayingSuffix
  <2> QED
    BY <1>2, <2>1
<1>4. left \in Seq(Slot)
  BY <1>1, WithoutType
<1>5. front \in Seq(Slot) /\ Len(front) = e.i
  <2>1. \A k \in 1..e.i : list[k] \in Slot
    BY <1>1, <1>2
  <2>2. /\ front \in Seq(Slot)
        /\ Len(front) = IF 1 <= e.i THEN e.i - 1 + 1 ELSE 0
    BY <1>1, <2>1, SubSeqProperties
  <2> HIDE DEF front
  <2> QED
    BY <1>1, <2>2
<1> HIDE DEF stay, front, left
<1>6. e.i <= Len(stay) /\ left = SubSeq(stay, e.i + 1, Len(stay))
  BY <1>3, <1>4, <1>5, RestOfJoined
<1> QED
  BY <1>6 DEF left, stay

-----------------------------------------------------------------------------
(***************************************************************************)
(* The invariant, action by action.                                        *)
(***************************************************************************)

(* All of a sequence but its last.                                         *)
LEMMA FrontOf ==
  ASSUME NEW S, NEW s \in Seq(S), s # <<>>
  PROVE  /\ Front(s) \in Seq(S)
         /\ Len(Front(s)) = Len(s) - 1
         /\ \A k \in 1..Len(s) - 1 : Front(s)[k] = s[k]
<1>1. Len(s) \in Nat \ {0}
  OBVIOUS
<1>2. \A k \in 1..Len(s) - 1 : s[k] \in S
  BY <1>1
<1>3. 1 \in Int /\ Len(s) - 1 \in Int
  BY <1>1
<1>4. /\ SubSeq(s, 1, Len(s) - 1) \in Seq(S)
      /\ Len(SubSeq(s, 1, Len(s) - 1)) = IF 1 <= Len(s) - 1 THEN Len(s) - 1 - 1 + 1 ELSE 0
      /\ \A k \in 1..Len(s) - 1 - 1 + 1 : SubSeq(s, 1, Len(s) - 1)[k] = s[1 + k - 1]
  BY <1>2, <1>3, SubSeqProperties
<1> DEFINE F == SubSeq(s, 1, Len(s) - 1)
           L == Len(s)
<1>5. F \in Seq(S) /\ Len(F) = L - 1 /\ \A k \in 1..L - 1 : F[k] = s[k]
  <2> HIDE DEF F, L
  <2>1. F \in Seq(S) /\ Len(F) = (IF 1 <= L - 1 THEN L - 1 - 1 + 1 ELSE 0)
          /\ \A k \in 1..L - 1 - 1 + 1 : F[k] = s[1 + k - 1]
    BY <1>4 DEF F, L
  <2>2. L \in Nat \ {0}
    BY <1>1 DEF L
  <2>3. \A k \in 1..L - 1 : 1 + k - 1 = k /\ k \in 1..L - 1 - 1 + 1
    BY <2>2
  <2> QED
    BY <2>1, <2>2, <2>3
<1> QED
  BY <1>5 DEF Front

(* The innermost emission.                                                 *)
LEMMA Innermost ==
  ASSUME TypeOK, emissions # <<>>
  PROVE  /\ Len(emissions) \in Nat \ {0}
         /\ Last(emissions) = emissions[Len(emissions)]
         /\ Last(emissions) \in Emission
BY DEF TypeOK, Last

List(e) == signalHash[e.object][e.signal]

(* The list an emission goes through is one of slots.                      *)
LEMMA ListType ==
  ASSUME TypeOK, NEW e \in Emission
  PROVE  List(e) \in Seq(Slot)
BY DEF TypeOK, List, Emission

(* What is looked up is a slot of the list, at the position if that is not *)
(* past the end.                                                           *)
LEMMA FoundSlot ==
  ASSUME TypeOK, InEmission
  PROVE  LET e == Last(emissions)
         IN  /\ Found # <<>> => Found[1] \in Slot
             /\ e.i < Len(List(e)) => Found = <<List(e)[e.i + 1]>>
             /\ e.i = Len(List(e)) => Found = <<>>
<1> DEFINE e == Last(emissions)
           list == List(e)
           at == e.i % (Len(list) + 1)
<1>1. e \in Emission /\ e.i \in Nat
  BY Innermost DEF InEmission, Emission
<1>2. list \in Seq(Slot) /\ Len(list) \in Nat
  BY <1>1, ListType
<1>3. Found = IF at = Len(list) THEN <<>> ELSE <<list[at + 1]>>
  BY DEF Found, slot, List
<1>4. at \in 0..Len(list)
  BY <1>1, <1>2
<1>5. e.i <= Len(list) => at = e.i
  BY <1>1, <1>2
<1> HIDE DEF e, list, at
<1>6. at # Len(list) => list[at + 1] \in Slot
  BY <1>2, <1>4
<1>7. Found # <<>> => Found[1] \in Slot
  BY <1>3, <1>6
<1>8. e.i < Len(list) => Found = <<list[e.i + 1]>>
  BY <1>1, <1>2, <1>3, <1>5
<1>9. e.i = Len(list) => Found = <<>>
  BY <1>1, <1>2, <1>3, <1>5
<1> QED
  BY <1>7, <1>8, <1>9 DEF e, list

(* A step that changes the emissions one by one, and not whose they are,   *)
(* keeps the senders.                                                      *)
LEMMA StackedNext ==
  ASSUME SendersStacked, TypeOK, UNCHANGED thl_senders, emissions' \in Seq(Emission),
         Len(emissions') = Len(emissions),
         \A n \in 1..Len(emissions) : emissions'[n].object = emissions[n].object
  PROVE  SendersStacked'
BY DEF SendersStacked

(* A slot is appended, perhaps to a list that is being called.             *)
LEMMA ConnectInv ==
  ASSUME Inv, NEW o \in Object, NEW s \in Signal, NEW new \in Slot, connect(o, s, new)
  PROVE  Inv'
<1> DEFINE Told(e) == IF Concerns(e, o, s) THEN [e EXCEPT !.left = Append(@, new)] ELSE e
<1>1. TypeOK /\ SendersStacked /\ AllInStep
  BY DEF Inv
<1>2. emissions \in Seq(Emission) /\ Len(emissions) \in Nat
        /\ DOMAIN emissions = 1..Len(emissions)
  BY <1>1 DEF TypeOK
<1>3. emissions' = [n \in 1..Len(emissions) |-> Told(emissions[n])]
  BY <1>2 DEF connect
<1>4. ASSUME NEW e \in Emission
      PROVE  Told(e) \in Emission /\ Told(e).object = e.object /\ Told(e).signal = e.signal
  <2>1. Append(e.left, new) \in Seq(Slot)
    BY <1>4 DEF Emission
  <2>2. [e EXCEPT !.left = Append(@, new)] \in Emission
    BY <1>4, <2>1 DEF Emission
  <2> QED
    BY <1>4, <2>2 DEF Emission
<1>5. signalHash' \in [Object -> [Signal -> Seq(Slot)]]
  <2>1. signalHash' = [signalHash EXCEPT ![o][s] = Append(@, new)]
    BY DEF connect
  <2>2. signalHash \in [Object -> [Signal -> Seq(Slot)]]
    BY <1>1 DEF TypeOK
  <2>3. Append(signalHash[o][s], new) \in Seq(Slot)
    BY <2>2
  <2> QED
    BY <2>1, <2>2, <2>3
<1>6. \A n \in 1..Len(emissions) : emissions[n] \in Emission
  BY <1>2
<1> HIDE DEF Told
<1>7. emissions' \in [1..Len(emissions) -> Emission]
  BY <1>3, <1>4, <1>6
<1>8. emissions' \in Seq(Emission) /\ Len(emissions') = Len(emissions)
  BY <1>2, <1>7
<1>9. \A n \in 1..Len(emissions) :
        emissions'[n] = Told(emissions[n]) /\ emissions'[n].object = emissions[n].object
          /\ emissions'[n].signal = emissions[n].signal
  BY <1>3, <1>4, <1>6
<1>10. TypeOK'
  BY <1>1, <1>5, <1>8 DEF TypeOK, connect
<1>11. SendersStacked'
  BY <1>1, <1>8, <1>9, StackedNext DEF connect
<1>12. ASSUME NEW n \in 1..Len(emissions)
       PROVE  InStep(emissions'[n], signalHash'[emissions[n].object][emissions[n].signal])
  <2>1. PICK e \in Emission : e = emissions[n]
    BY <1>6, <1>12
  <2>2. InStep(e, List(e)) /\ List(e) \in Seq(Slot)
    BY <1>1, <1>12, <2>1, ListType DEF AllInStep, List
  <2>3. emissions'[n] = Told(e)
    BY <1>9, <2>1
  <2>4. signalHash'[e.object][e.signal]
          = IF Concerns(e, o, s) THEN Append(List(e), new) ELSE List(e)
    BY <1>1 DEF connect, Concerns, List, TypeOK, Emission
  <2>5. CASE Concerns(e, o, s)
    BY <2>1, <2>2, <2>3, <2>4, <2>5, ConnectedInStep DEF Told
  <2>6. CASE ~Concerns(e, o, s)
    BY <2>1, <2>2, <2>3, <2>4, <2>6 DEF Told
  <2> QED
    BY <2>5, <2>6
<1> QED
  BY <1>8, <1>9, <1>10, <1>11, <1>12 DEF Inv, AllInStep

(* Slots are taken out, perhaps of a list that is being called.            *)
LEMMA DisconnectInv ==
  ASSUME Inv, NEW o \in Object, NEW object, NEW method, disconnect(o, object, method)
  PROVE  Inv'
<1> DEFINE Disturbs(e) == \E p \in 1..Len(List(e)) :
                            Matches(List(e)[p], object, method) /\ p <= e.i
           Told(e) == IF e.object # o THEN e
                      ELSE [e EXCEPT !.left = Without(@, object, method),
                                     !.disturbed = @ \/ Disturbs(e)]
<1>1. TypeOK /\ SendersStacked /\ AllInStep
  BY DEF Inv
<1>2. emissions \in Seq(Emission) /\ Len(emissions) \in Nat
        /\ DOMAIN emissions = 1..Len(emissions)
  BY <1>1 DEF TypeOK
<1>3. \A n \in 1..Len(emissions) : emissions[n] \in Emission
  BY <1>2
<1>4. emissions' = [n \in 1..Len(emissions) |-> Told(emissions[n])]
  <2>1. \A e : (\E p \in {p \in 1..Len(signalHash[e.object][e.signal]) :
                            Matches(signalHash[e.object][e.signal][p], object, method)} : p <= e.i)
                 <=> Disturbs(e)
    BY DEF List
  <2>2. \A e : e.object = o => List(e) = signalHash[o][e.signal]
    BY DEF List
  <2> QED
    BY <1>2, <2>1, <2>2 DEF disconnect
<1>5. signalHash' \in [Object -> [Signal -> Seq(Slot)]]
  <2>1. signalHash \in [Object -> [Signal -> Seq(Slot)]]
    BY <1>1 DEF TypeOK
  <2>2. \A s \in Signal : Without(signalHash[o][s], object, method) \in Seq(Slot)
    BY <2>1, WithoutType
  <2>3. signalHash' = [signalHash EXCEPT ![o] =
                         [s \in Signal |-> Without(signalHash[o][s], object, method)]]
    BY DEF disconnect
  <2> QED
    BY <2>1, <2>2, <2>3
<1>6. ASSUME NEW e \in Emission
      PROVE  Told(e) \in Emission /\ Told(e).object = e.object /\ Told(e).signal = e.signal
  <2> HIDE DEF Disturbs
  <2>1. Without(e.left, object, method) \in Seq(Slot)
    BY <1>6, WithoutType DEF Emission
  <2>2. e.disturbed \in BOOLEAN
    BY <1>6 DEF Emission
  <2>3. (e.disturbed \/ Disturbs(e)) \in BOOLEAN
    OBVIOUS
  <2>4. [e EXCEPT !.left = Without(@, object, method),
                  !.disturbed = @ \/ Disturbs(e)] \in Emission
    BY <1>6, <2>1, <2>3 DEF Emission
  <2> QED
    BY <1>6, <2>4 DEF Emission
<1> HIDE DEF Told
<1>7. emissions' \in [1..Len(emissions) -> Emission]
  BY <1>3, <1>4, <1>6
<1>8. emissions' \in Seq(Emission) /\ Len(emissions') = Len(emissions)
  BY <1>2, <1>7
<1>9. \A n \in 1..Len(emissions) :
        emissions'[n] = Told(emissions[n]) /\ emissions'[n].object = emissions[n].object
          /\ emissions'[n].signal = emissions[n].signal
  BY <1>3, <1>4, <1>6
<1>10. TypeOK'
  BY <1>1, <1>5, <1>8 DEF TypeOK, disconnect
<1>11. SendersStacked'
  BY <1>1, <1>8, <1>9, StackedNext DEF disconnect
<1>12. ASSUME NEW n \in 1..Len(emissions)
       PROVE  InStep(emissions'[n], signalHash'[emissions[n].object][emissions[n].signal])
  <2>1. PICK e \in Emission : e = emissions[n]
    BY <1>3, <1>12
  <2>2. InStep(e, List(e)) /\ List(e) \in Seq(Slot)
    BY <1>1, <1>12, <2>1, ListType DEF AllInStep, List
  <2>3. emissions'[n] = Told(e)
    BY <1>9, <2>1
  <2>4. signalHash'[e.object][e.signal]
          = IF e.object = o THEN Without(List(e), object, method) ELSE List(e)
    BY <1>1 DEF disconnect, List, TypeOK, Emission
  <2>5. CASE e.object # o
    BY <2>1, <2>2, <2>3, <2>4, <2>5 DEF Told
  <2>6. CASE e.object = o /\ (e.disturbed \/ Disturbs(e))
    <3> HIDE DEF Disturbs
    <3>1. Told(e).disturbed
      BY <2>6 DEF Told, Emission
    <3> QED
      BY <2>3, <3>1 DEF InStep
  <2>7. CASE e.object = o /\ ~e.disturbed /\ ~Disturbs(e)
    <3>1. e.i \in Nat /\ e.i <= Len(List(e)) /\ Len(List(e)) \in Nat
      BY <2>2, <2>7 DEF InStep, Emission
    <3>2. \A p \in 1..e.i : ~Matches(List(e)[p], object, method)
      BY <2>7, <3>1
    <3> HIDE DEF Disturbs
    <3>3. LET stay == Without(List(e), object, method)
          IN  /\ e.i <= Len(stay)
              /\ Without(e.left, object, method) = SubSeq(stay, e.i + 1, Len(stay))
      BY <2>2, <2>7, <3>2, DisconnectedInStep
    <3>4. Told(e).i = e.i /\ Told(e).left = Without(e.left, object, method)
      BY <2>7 DEF Told, Emission
    <3> QED
      BY <2>1, <2>3, <2>4, <2>7, <3>3, <3>4 DEF InStep
  <2> QED
    BY <2>5, <2>6, <2>7
<1> QED
  BY <1>8, <1>9, <1>10, <1>11, <1>12 DEF Inv, AllInStep

(* An emission begins, on its own or inside of a slot.                     *)
LEMMA EmitInv ==
  ASSUME Inv, NEW o \in Object, NEW s \in Signal, emitSignal(o, s)
  PROVE  Inv'
<1> DEFINE new == [object |-> o, signal |-> s, i |-> 0, slot |-> None,
                   left |-> signalHash[o][s], disturbed |-> FALSE]
           L == Len(emissions)
<1>1. TypeOK /\ SendersStacked /\ AllInStep
  BY DEF Inv
<1>2. emissions \in Seq(Emission) /\ thl_senders \in Seq(Object) /\ L \in Nat
        /\ signalHash[o][s] \in Seq(Slot)
  BY <1>1 DEF TypeOK
<1>3. new \in Emission
  BY <1>2 DEF Emission
<1>4. emissions' = Append(emissions, new) /\ thl_senders' = <<o>> \o thl_senders
        /\ signalHash' = signalHash
  BY DEF emitSignal
<1>5. new.object = o /\ new.signal = s /\ InStep(new, signalHash[o][s])
  <2>1. SubSeq(signalHash[o][s], 1, Len(signalHash[o][s])) = signalHash[o][s]
    BY <1>2, SubSeqFull
  <2>2. Len(signalHash[o][s]) \in Nat
    BY <1>2
  <2> QED
    BY <2>1, <2>2 DEF InStep
<1> HIDE DEF new
<1>6. /\ emissions' \in Seq(Emission) /\ Len(emissions') = L + 1
      /\ emissions'[L + 1] = new /\ \A n \in 1..L : emissions'[n] = emissions[n]
  BY <1>2, <1>3, <1>4
<1>7. /\ thl_senders' \in Seq(Object) /\ Len(thl_senders') = L + 1
      /\ thl_senders'[1] = o /\ \A n \in 1..L : thl_senders'[n + 1] = thl_senders[n]
  <2>1. Len(thl_senders) = L /\ <<o>> \in Seq(Object) /\ Len(<<o>>) = 1
    BY <1>1 DEF SendersStacked
  <2>2. /\ <<o>> \o thl_senders \in Seq(Object)
        /\ Len(<<o>> \o thl_senders) = 1 + L
        /\ \A n \in 1..1 + L : (<<o>> \o thl_senders)[n]
                                 = IF n <= 1 THEN <<o>>[n] ELSE thl_senders[n - 1]
    BY <1>2, <2>1, ConcatProperties
  <2> QED
    BY <1>2, <1>4, <2>2
<1>8. TypeOK'
  BY <1>1, <1>4, <1>6, <1>7 DEF TypeOK
<1>9. SendersStacked'
  <2>1. ASSUME NEW n \in 1..L + 1
        PROVE  thl_senders'[L + 1 + 1 - n] = emissions'[n].object
    <3>1. CASE n = L + 1
      BY <1>2, <1>5, <1>6, <1>7, <3>1
    <3>2. CASE n \in 1..L
      <4>1. L + 1 + 1 - n = (L + 1 - n) + 1 /\ L + 1 - n \in 1..L
        BY <1>2, <3>2
      <4>2. thl_senders[L + 1 - n] = emissions[n].object
        BY <1>1, <3>2 DEF SendersStacked
      <4> QED
        BY <1>6, <1>7, <3>2, <4>1, <4>2
    <3> QED
      BY <1>2, <3>1, <3>2
  <2> QED
    BY <1>6, <1>7, <2>1 DEF SendersStacked
<1>10. AllInStep'
  <2>1. ASSUME NEW n \in 1..L + 1
        PROVE  InStep(emissions'[n], signalHash'[emissions'[n].object][emissions'[n].signal])
    <3>1. CASE n = L + 1
      BY <1>4, <1>5, <1>6, <3>1
    <3>2. CASE n \in 1..L
      BY <1>1, <1>4, <1>6, <3>2 DEF AllInStep
    <3> QED
      BY <1>2, <3>1, <3>2
  <2> QED
    BY <1>6, <2>1 DEF AllInStep
<1> QED
  BY <1>8, <1>9, <1>10 DEF Inv

(* What an emission in step has left while its position is not the end.    *)
LEMMA RestGoesOn ==
  ASSUME NEW list \in Seq(Slot), NEW i \in Nat, i < Len(list)
  PROVE  LET rest == SubSeq(list, i + 1, Len(list))
         IN  /\ rest # <<>>
             /\ Head(rest) = list[i + 1]
             /\ Tail(rest) = SubSeq(list, i + 1 + 1, Len(list))
<1>1. i + 1 \in 1..Len(list) /\ Len(list) \in i + 1..Len(list) /\ i \in 0..Len(list)
        /\ Len(list) \in Nat
  OBVIOUS
<1>2. Len(SubSeq(list, i + 1, Len(list))) = Len(list) - i
        /\ SubSeq(list, i + 1, Len(list)) \in Seq(Slot)
  BY <1>1, RestOfList
<1>3. SubSeq(list, i + 1, Len(list)) # <<>>
  <2>1. Len(list) - i # 0
    BY <1>1
  <2>2. Len(<<>>) = 0
    OBVIOUS
  <2> QED
    BY <1>2, <2>1, <2>2
<1>4. Head(SubSeq(list, i + 1, Len(list))) = list[i + 1]
        /\ Tail(SubSeq(list, i + 1, Len(list))) = SubSeq(list, i + 1 + 1, Len(list))
  BY <1>1, HeadTailOfSubSeq
<1> QED
  BY <1>3, <1>4

(* Where an undisturbed emission that looks up a slot is.                  *)
LEMMA LookupInStep ==
  ASSUME Inv, InEmission, ~Last(emissions).disturbed
  PROVE  LET e == Last(emissions)
         IN  /\ e.i \in Nat /\ e.i <= Len(List(e))
             /\ e.left = SubSeq(List(e), e.i + 1, Len(List(e)))
             /\ Found # <<>> => e.i < Len(List(e)) /\ Found[1] = List(e)[e.i + 1]
             /\ Found = <<>> => e.i = Len(List(e))
<1> DEFINE e == Last(emissions)
<1>1. TypeOK /\ AllInStep /\ emissions # <<>>
  BY DEF Inv, InEmission
<1>2. e \in Emission /\ e = emissions[Len(emissions)] /\ Len(emissions) \in Nat \ {0}
  BY <1>1, Innermost
<1>3. InStep(e, List(e))
  BY <1>1, <1>2 DEF AllInStep, List
<1>4. e.i \in Nat /\ List(e) \in Seq(Slot)
  BY <1>1, <1>2, ListType DEF Emission
<1>5. e.i <= Len(List(e)) /\ e.left = SubSeq(List(e), e.i + 1, Len(List(e)))
  BY <1>3 DEF InStep
<1>6. /\ e.i < Len(List(e)) => Found = <<List(e)[e.i + 1]>>
      /\ e.i = Len(List(e)) => Found = <<>>
  BY <1>1, FoundSlot
<1> HIDE DEF e
<1>7. Len(List(e)) \in Nat
  BY <1>4
<1>8. e.i < Len(List(e)) \/ e.i = Len(List(e))
  BY <1>4, <1>5, <1>7
<1>9. \A x : <<x>> # <<>> /\ <<x>>[1] = x
  OBVIOUS
<1>10. Found # <<>> => e.i < Len(List(e)) /\ Found[1] = List(e)[e.i + 1]
  BY <1>6, <1>8, <1>9
<1>11. Found = <<>> => e.i = Len(List(e))
  BY <1>6, <1>8, <1>9
<1> QED
  BY <1>4, <1>5, <1>10, <1>11 DEF e

(* The innermost emission is replaced by one of the same signal that is in *)
(* step, too.                                                              *)
LEMMA InnermostNext ==
  ASSUME Inv, emissions # <<>>, NEW e \in Emission,
         e.object = Last(emissions).object, e.signal = Last(emissions).signal,
         InStep(e, List(e)),
         emissions' = [emissions EXCEPT ![Len(emissions)] = e],
         UNCHANGED <<signalHash, thl_senders>>
  PROVE  Inv'
<1> DEFINE L == Len(emissions)
<1>1. TypeOK /\ SendersStacked /\ AllInStep
  BY DEF Inv
<1>2. emissions \in Seq(Emission) /\ L \in Nat \ {0} /\ Last(emissions) = emissions[L]
  BY <1>1, Innermost DEF TypeOK
<1>3. /\ emissions' \in Seq(Emission) /\ Len(emissions') = L
      /\ \A n \in 1..L : emissions'[n] = IF n = L THEN e ELSE emissions[n]
  <2>1. L \in 1..L
    BY <1>2
  <2> QED
    BY <1>2, <2>1, ExceptSeq
<1>4. TypeOK'
  BY <1>1, <1>3 DEF TypeOK
<1>5. \A n \in 1..L : emissions'[n].object = emissions[n].object
  BY <1>2, <1>3
<1>6. SendersStacked'
  BY <1>1, <1>3, <1>5, StackedNext
<1>7. \A n \in 1..L :
        InStep(emissions'[n], signalHash'[emissions'[n].object][emissions'[n].signal])
  BY <1>1, <1>3 DEF AllInStep, List
<1> QED
  BY <1>3, <1>4, <1>6, <1>7 DEF Inv, AllInStep

(* The slot at the position of the emission is called.                     *)
LEMMA ExecInv ==
  ASSUME Inv, exec
  PROVE  Inv'
<1> DEFINE e == Last(emissions)
           new == [e EXCEPT !.i = e.i + 1, !.slot = Found[1],
                            !.left = IF e.left = <<>> THEN <<>> ELSE Tail(e.left)]
<1>1. TypeOK /\ emissions # <<>> /\ InEmission /\ Found # <<>>
  BY DEF Inv, exec, InEmission
<1>2. e \in Emission /\ e = emissions[Len(emissions)]
  BY <1>1, Innermost
<1>3. Found[1] \in Slot
  BY <1>1, FoundSlot
<1>4. emissions' = [emissions EXCEPT ![Len(emissions)] = new]
  BY <1>2 DEF exec
<1>5. e.i + 1 \in Nat /\ (IF e.left = <<>> THEN <<>> ELSE Tail(e.left)) \in Seq(Slot)
  BY <1>2 DEF Emission
<1>6. /\ new \in Emission /\ new.object = e.object /\ new.signal = e.signal
      /\ new.i = e.i + 1 /\ new.disturbed = e.disturbed
      /\ new.left = IF e.left = <<>> THEN <<>> ELSE Tail(e.left)
  <2> HIDE DEF e
  <2> QED
    BY <1>2, <1>3, <1>5 DEF Emission
<1>7. InStep(new, List(new))
  <2> SUFFICES ASSUME ~e.disturbed
               PROVE  InStep(new, List(new))
    BY <1>6 DEF InStep
  <2>1. /\ e.i \in Nat /\ e.i < Len(List(e))
        /\ e.left = SubSeq(List(e), e.i + 1, Len(List(e)))
    BY <1>1, LookupInStep
  <2>2. List(e) \in Seq(Slot) /\ List(new) = List(e) /\ Len(List(e)) \in Nat
    BY <1>1, <1>2, <1>6, ListType DEF List
  <2>3. e.left # <<>> /\ Tail(e.left) = SubSeq(List(e), e.i + 1 + 1, Len(List(e)))
    BY <2>1, <2>2, RestGoesOn
  <2> HIDE DEF e, new
  <2>4. e.i + 1 <= Len(List(e))
    BY <2>1, <2>2
  <2> QED
    BY <1>6, <2>2, <2>3, <2>4 DEF InStep
<1> HIDE DEF new
<1> QED
  BY <1>1, <1>4, <1>6, <1>7, InnermostNext DEF exec

(* The slot is done; the position moves on.                                *)
LEMMA SlotReturnsInv ==
  ASSUME Inv, slotReturns
  PROVE  Inv'
<1> DEFINE e == Last(emissions)
           new == [e EXCEPT !.slot = None]
<1>1. TypeOK /\ AllInStep /\ emissions # <<>>
  BY DEF Inv, slotReturns
<1>2. e \in Emission /\ e = emissions[Len(emissions)] /\ Len(emissions) \in Nat \ {0}
  BY <1>1, Innermost
<1>3. emissions' = [emissions EXCEPT ![Len(emissions)] = new]
  BY <1>2 DEF slotReturns
<1>4. /\ new \in Emission /\ new.object = e.object /\ new.signal = e.signal
      /\ new.i = e.i /\ new.disturbed = e.disturbed /\ new.left = e.left
  <2> HIDE DEF e
  <2> QED
    BY <1>2 DEF Emission
<1>5. InStep(e, List(e))
  BY <1>1, <1>2 DEF AllInStep, List
<1>6. InStep(new, List(new))
  BY <1>4, <1>5 DEF InStep, List
<1> HIDE DEF new
<1> QED
  BY <1>1, <1>3, <1>4, <1>6, InnermostNext DEF slotReturns

(* The emission finds no further slot, and the one around it goes on.      *)
LEMMA EmitEndsInv ==
  ASSUME Inv, emitEnds
  PROVE  Inv'
<1> DEFINE L == Len(emissions)
<1>1. TypeOK /\ SendersStacked /\ AllInStep /\ emissions # <<>>
  BY DEF Inv, emitEnds, InEmission
<1>2. emissions \in Seq(Emission) /\ thl_senders \in Seq(Object) /\ L \in Nat \ {0}
        /\ Len(thl_senders) = L
  BY <1>1 DEF TypeOK, SendersStacked
<1>3. emissions' = Front(emissions) /\ thl_senders' = Tail(thl_senders)
        /\ signalHash' = signalHash
  BY DEF emitEnds
<1>4. /\ emissions' \in Seq(Emission) /\ Len(emissions') = L - 1
      /\ \A n \in 1..L - 1 : emissions'[n] = emissions[n]
  BY <1>1, <1>2, <1>3, FrontOf
<1>5. /\ thl_senders' \in Seq(Object) /\ Len(thl_senders') = L - 1
      /\ \A n \in 1..L - 1 : thl_senders'[n] = thl_senders[n + 1]
  <2>1. thl_senders # <<>>
    BY <1>2
  <2> QED
    BY <1>2, <1>3, <2>1, HeadTailProperties
<1>6. TypeOK'
  BY <1>1, <1>3, <1>4, <1>5 DEF TypeOK
<1>7. SendersStacked'
  <2>1. ASSUME NEW n \in 1..L - 1
        PROVE  thl_senders'[L - 1 + 1 - n] = emissions'[n].object
    <3>1. L - 1 + 1 - n \in 1..L - 1 /\ L - 1 + 1 - n + 1 = L + 1 - n /\ n \in 1..L
      BY <1>2
    <3>2. thl_senders[L + 1 - n] = emissions[n].object
      BY <1>1, <3>1 DEF SendersStacked
    <3> QED
      BY <1>4, <1>5, <3>1, <3>2
  <2> QED
    BY <1>4, <1>5, <2>1 DEF SendersStacked
<1>8. AllInStep'
  <2>1. 1..L - 1 \subseteq 1..L
    BY <1>2
  <2> QED
    BY <1>1, <1>3, <1>4, <2>1 DEF AllInStep
<1> QED
  BY <1>6, <1>7, <1>8 DEF Inv

(* At first nothing is connected and nothing emitted.                      *)
LEMMA InitInv == Init => Inv
<1> SUFFICES ASSUME Init
             PROVE  Inv
  OBVIOUS
<1>1. emissions = <<>> /\ thl_senders = <<>> /\ Len(emissions) = 0 /\ Len(thl_senders) = 0
  BY DEF Init
<1>2. emissions \in Seq(Emission) /\ thl_senders \in Seq(Object)
  BY <1>1
<1>3. signalHash \in [Object -> [Signal -> Seq(Slot)]]
  <2>1. <<>> \in Seq(Slot)
    OBVIOUS
  <2> QED
    BY <2>1 DEF Init
<1>4. 1..Len(emissions) = {}
  BY <1>1
<1> QED
  BY <1>1, <1>2, <1>3, <1>4 DEF Inv, TypeOK, SendersStacked, AllInStep

(* Each step keeps the invariant.                                          *)
LEMMA NextInv == Inv /\ [Next]_vars => Inv'
<1> SUFFICES ASSUME Inv, [Next]_vars
             PROVE  Inv'
  OBVIOUS
<1>1. CASE Next
  BY <1>1, ConnectInv, DisconnectInv, EmitInv, ExecInv, SlotReturnsInv, EmitEndsInv DEF Next
<1>2. CASE UNCHANGED vars
  BY <1>2 DEF vars, Inv, TypeOK, SendersStacked, AllInStep
<1> QED
  BY <1>1, <1>2

(* The inductive invariant holds in every state of the objects.            *)
THEOREM Invariance == Spec => []Inv
  BY InitInv, NextInv, PTL DEF Spec

-----------------------------------------------------------------------------
(* Lists of slots, senders and emissions keep their types.                 *)
THEOREM TypeCorrect == Spec => []TypeOK
<1>1. Inv => TypeOK
  BY DEF Inv
<1> QED
  BY <1>1, Invariance, PTL

(* sender() is the object whose signal the running slot serves, however    *)
(* emissions nest.                                                         *)
THEOREM SenderServedAlways == Spec => []SenderServed
<1>1. ASSUME Inv
      PROVE  SenderServed
  <2>1. TypeOK /\ SendersStacked
    BY <1>1 DEF Inv
  <2>2. CASE emissions = <<>>
    <3>1. thl_senders \in Seq(Object) /\ Len(thl_senders) = 0
      BY <2>1, <2>2 DEF TypeOK, SendersStacked
    <3>2. thl_senders = <<>>
      BY <3>1
    <3> QED
      BY <2>2, <3>2 DEF SenderServed, sender
  <2>3. CASE emissions # <<>>
    <3>1. Len(emissions) \in Nat \ {0} /\ Last(emissions) = emissions[Len(emissions)]
      BY <2>1, <2>3, Innermost
    <3>2. thl_senders \in Seq(Object) /\ Len(thl_senders) = Len(emissions)
      BY <2>1 DEF TypeOK, SendersStacked
    <3>3. thl_senders # <<>> /\ Head(thl_senders) = thl_senders[1]
      BY <3>1, <3>2
    <3>4. Len(emissions) \in 1..Len(emissions) /\ Len(emissions) + 1 - Len(emissions) = 1
      BY <3>1
    <3>5. thl_senders[1] = emissions[Len(emissions)].object
      BY <2>1, <3>4 DEF SendersStacked
    <3> QED
      BY <2>3, <3>1, <3>3, <3>5 DEF SenderServed, sender
  <2> QED
    BY <2>2, <2>3
<1> QED
  BY <1>1, Invariance, PTL

(* Slots are called in the order in which they were connected, each once,  *)
(* in an emission during which no slot that had had its turn was taken out *)
(* of the list, whatever else the slots connect, disconnect and emit.      *)
THEOREM UndisturbedInOrderAlways == Spec => UndisturbedInOrder
<1>1. ASSUME Inv, [Next]_vars
      PROVE  [exec \/ emitEnds => Last(emissions).disturbed \/ KeepsOrder]_vars
  <2> SUFFICES ASSUME exec \/ emitEnds, ~Last(emissions).disturbed
               PROVE  KeepsOrder
    OBVIOUS
  <2> DEFINE e == Last(emissions)
  <2>1. InEmission /\ TypeOK /\ emissions # <<>>
    BY <1>1 DEF exec, emitEnds, InEmission, Inv
  <2>2. /\ e.i \in Nat /\ e.i <= Len(List(e))
        /\ e.left = SubSeq(List(e), e.i + 1, Len(List(e)))
        /\ Found # <<>> => e.i < Len(List(e)) /\ Found[1] = List(e)[e.i + 1]
        /\ Found = <<>> => e.i = Len(List(e))
    BY <1>1, <2>1, LookupInStep
  <2>3. List(e) \in Seq(Slot) /\ Len(List(e)) \in Nat /\ e \in Emission
    BY <2>1, Innermost, ListType
  <2>4. ASSUME exec
        PROVE  e.left # <<>> /\ Last(emissions').slot = Head(e.left)
    <3>1. Found # <<>>
      BY <2>4 DEF exec
    <3>2. e.left # <<>> /\ Head(e.left) = Found[1]
      BY <2>2, <2>3, <3>1, RestGoesOn
    <3>3. Last(emissions').slot = Found[1]
      <4> DEFINE L == Len(emissions)
                 new == [e EXCEPT !.i = e.i + 1, !.slot = Found[1],
                                  !.left = IF e.left = <<>> THEN <<>> ELSE Tail(e.left)]
      <4>1. emissions \in Seq(Emission) /\ L \in Nat \ {0} /\ e \in Emission
        BY <2>1, Innermost DEF TypeOK
      <4>2. emissions' = [emissions EXCEPT ![L] = new]
        BY <2>4 DEF exec
      <4>3. new.slot = Found[1]
        BY <4>1 DEF Emission
      <4> HIDE DEF new
      <4>4. Len(emissions') = L /\ emissions'[L] = new
        BY <4>1, <4>2
      <4> QED
        BY <4>3, <4>4 DEF Last
    <3> QED
      BY <3>2, <3>3
  <2>5. ASSUME emitEnds
        PROVE  e.left = <<>>
    <3>1. e.i = Len(List(e))
      BY <2>2, <2>5 DEF emitEnds
    <3>2. e.i + 1 \in Int /\ Len(List(e)) \in Int /\ Len(List(e)) < e.i + 1
      BY <2>3, <3>1
    <3> QED
      BY <2>2, <3>2, SubSeqEmpty
  <2> QED
    BY <2>4, <2>5 DEF KeepsOrder
<1>2. Inv /\ [Next]_vars
        => [exec \/ emitEnds => Last(emissions).disturbed \/ KeepsOrder]_vars
  BY <1>1
<1> QED
  BY <1>2, Invariance, PTL DEF Spec, UndisturbedInOrder
=============================================================================
