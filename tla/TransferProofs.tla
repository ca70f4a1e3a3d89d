---------------------------- MODULE TransferProofs ----------------------------
(***************************************************************************)
(* Theorems about Transfer, for a source, a selection and ranges of any    *)
(* length, any number of retries, faults, crashes and removals, when       *)
(* answers to HEAD state the length if any answer does: what arrives       *)
(* unspoilt is the source or the selection, and whatever arrives has the   *)
(* length its way of transfer checks.                                      *)
(***************************************************************************)
EXTENDS Transfer, TLAPS

(***************************************************************************)
(* The strengthening: what the lengths are that are written down, what a   *)
(* selective download has collected, and, as long as nothing spoiled the   *)
(* transfer, that the partial file is the beginning of the source and the  *)
(* response goes on where it ends.                                         *)
(***************************************************************************)

Lengths ==
    /\ saved \in {None, Size} /\ (saved = Size => stating)
    /\ total \in {None, Size} /\ (total = Size => stating)
    /\ pc \in {"measure", "await", "stream", "verify"} /\ stating => total = Size

\* The body of every range was compared with the range, and as long as all
\* were as long, the selection is there up to the next range.
Collected ==
    pc = "ranges" =>
        /\ Selective
        /\ pos <= Len(Cuts) + 1
        /\ linked =>
             /\ RangeStart(pos) <= 2 * Len(partial) + pos
             /\ Len(partial) + 2 <= 2 * RangeStart(pos)
             /\ ~spoilt => /\ Len(partial) + 1 = RangeStart(pos)
                           /\ \A i \in 1..Len(partial) : partial[i] = Selection[i]

Sound == cleans = 0 /\ ~spoilt

\* Once it is delivered, the file is not taken up again.
Over == final # <<>> => pc = "idle"

IsPrefix(s) == Len(s) <= Size /\ \A i \in 1..Len(s) : s[i] = i

OnlyPrefixes ==
    Sound =>
        /\ pc # "ranges" => IsPrefix(partial)
        /\ pc = "ranges" => linked
        /\ pc = "await" => pos = 1 \/ pos = Len(partial) + 1
        /\ pc = "stream" => linked /\ pos = Len(partial) + 1
        /\ pc = "verify" => Len(partial) = Size

TransferInv ==
    /\ TypeOK
    /\ Lengths
    /\ Collected
    /\ OnlyPrefixes
    /\ Over
    /\ FinalIsSource

-----------------------------------------------------------------------------
(***************************************************************************)
(* Sequences.                                                              *)
(***************************************************************************)

LEMMA WholeIsSource ==
    /\ Whole \in Seq(Pieces)
    /\ Len(Whole) = Size
    /\ Whole # <<>>
BY SizeAssumption DEF Whole, Pieces

\* A sequence that stays as it is or grows by one element.
LEMMA GrownSequence ==
    ASSUME NEW S, NEW s \in Seq(S), NEW e \in S, NEW t \in {s, Append(s, e)}
    PROVE  t \in Seq(S)
OBVIOUS

\* The prefix of full length is the source.
LEMMA FullPrefix ==
    ASSUME NEW s \in Seq(Pieces), IsPrefix(s), Len(s) = Size
    PROVE  s = Whole
<1>1. s = [i \in 1..Len(s) |-> s[i]]
  OBVIOUS
<1>2. \A i \in 1..Len(s) : s[i] = i
  BY DEF IsPrefix
<1> QED
  BY <1>1, <1>2 DEF Whole, Pieces

\* So is what agrees with the selection and is as long.
LEMMA FullSelection ==
    ASSUME NEW s \in Seq(Pieces), Len(s) = Len(Selection),
           \A i \in 1..Len(s) : s[i] = Selection[i]
    PROVE  s = Selection
<1>1. s = [i \in 1..Len(s) |-> s[i]]
  OBVIOUS
<1>2. Selection = [i \in 1..Len(Selection) |-> Selection[i]]
  BY SelectionAssumption
<1> QED
  BY <1>1, <1>2

LEMMA EmptyPrefix == <<>> \in Seq(Pieces) /\ IsPrefix(<<>>) /\ Len(<<>>) = 0
BY SizeAssumption DEF IsPrefix

\* One more piece in its place.
LEMMA LongerPrefix ==
    ASSUME NEW s \in Seq(Pieces), IsPrefix(s), Len(s) + 1 <= Size
    PROVE  LET t == Append(s, Len(s) + 1) IN
             t \in Seq(Pieces) /\ IsPrefix(t) /\ Len(t) = Len(s) + 1
BY SizeAssumption DEF IsPrefix, Pieces

\* Where ranges begin and end.
LEMMA CutFacts ==
    ASSUME NEW k \in 1..Len(Cuts)
    PROVE  /\ RangeStart(k) \in 1..Len(Selection)
           /\ RangeSize(k) \in Nat /\ RangeSize(k) >= 2
           /\ RangeStart(k + 1) = RangeStart(k) + RangeSize(k)
           /\ RangeStart(k) + RangeSize(k) <= Len(Selection) + 1
<1>1. \A j \in 1..Len(Cuts) : Cuts[j] \in 1..Len(Selection)
  BY CutsAssumption
<1>2. RangeStart(k) \in Nat \ {0}
  BY <1>1 DEF RangeStart
<1>3. RangeSize(k) >= 2
  BY CutsAssumption
<1>4. Cuts[k] + 1 = RangeStart(k) + RangeSize(k) /\ RangeSize(k) \in Nat
  <2>1. RangeSize(k) = Cuts[k] + 1 - RangeStart(k)
    BY DEF RangeSize
  <2>2. Cuts[k] \in Nat
    BY <1>1
  <2> QED
    BY <1>2, <1>3, <2>1, <2>2
<1>5. RangeStart(k + 1) = Cuts[k] + 1
  BY DEF RangeStart
<1> QED
  BY <1>1, <1>2, <1>3, <1>4, <1>5, SelectionAssumption

\* What a body holds, and that one of the right length is its range.
LEMMA BodyFacts ==
    ASSUME NEW k \in 1..Len(Cuts), NEW n \in Nat
    PROVE  /\ Body(k, n) \in Seq(Pieces)
           /\ Len(Body(k, n)) = n
           /\ n = RangeSize(k) =>
                \A i \in 1..n : Body(k, n)[i] = Selection[RangeStart(k) + i - 1]
<1>1. Selection[RangeStart(k)] \in Pieces
  BY CutFacts, SelectionAssumption
<1>2. \A i \in 1..n : (LET p == Selection[RangeStart(k)] + i - 1
                       IN  IF p <= Size THEN p ELSE Size) \in Pieces
  BY <1>1, SizeAssumption DEF Pieces
<1>3. Body(k, n) \in [1..n -> Pieces]
  BY <1>2 DEF Body
<1>4. Body(k, n) \in Seq(Pieces) /\ Len(Body(k, n)) = n
  BY <1>3
<1>5. ASSUME n = RangeSize(k), NEW i \in 1..n
      PROVE  Body(k, n)[i] = Selection[RangeStart(k) + i - 1]
  <2>1. Selection[RangeStart(k) + i - 1] = Selection[RangeStart(k)] + i - 1
    BY <1>5, CutsAssumption
  <2>2. RangeStart(k) + i - 1 \in 1..Len(Selection)
    BY <1>5, CutFacts
  <2>3. Selection[RangeStart(k) + i - 1] \in Pieces
    BY <2>2, SelectionAssumption
  <2>4. Selection[RangeStart(k)] + i - 1 <= Size
    BY <2>1, <2>3, SizeAssumption DEF Pieces
  <2> QED
    BY <2>1, <2>4 DEF Body
<1> QED
  BY <1>4, <1>5

\* Half to twice the range, added to half to twice what was asked for so far.
LEMMA FactorTwo ==
    ASSUME NEW start \in Nat, NEW size \in Nat, NEW len \in Nat, NEW n \in Nat, NEW k \in Nat,
           start <= 2 * len + k, len + 2 <= 2 * start,
           size <= 2 * n + 1, n <= 2 * size
    PROVE  /\ start + size <= 2 * (len + n) + (k + 1)
           /\ (len + n) + 2 <= 2 * (start + size)
OBVIOUS

\* One more range.
LEMMA LongerCollection ==
    ASSUME NEW s \in Seq(Pieces), NEW k \in 1..Len(Cuts), NEW n \in Nat,
           Tolerated(n, RangeSize(k)),
           RangeStart(k) <= 2 * Len(s) + k, Len(s) + 2 <= 2 * RangeStart(k)
    PROVE  /\ s \o Body(k, n) \in Seq(Pieces)
           /\ RangeStart(k + 1) <= 2 * Len(s \o Body(k, n)) + (k + 1)
           /\ Len(s \o Body(k, n)) + 2 <= 2 * RangeStart(k + 1)
           /\ /\ n = RangeSize(k) /\ Len(s) + 1 = RangeStart(k)
              /\ \A i \in 1..Len(s) : s[i] = Selection[i]
              => /\ Len(s \o Body(k, n)) + 1 = RangeStart(k + 1)
                 /\ \A i \in 1..Len(s \o Body(k, n)) : (s \o Body(k, n))[i] = Selection[i]
<1> DEFINE b == Body(k, n)
           t == s \o b
<1>1. b \in Seq(Pieces) /\ Len(b) = n
  BY BodyFacts
<1>2. t \in Seq(Pieces) /\ Len(t) = Len(s) + n
  BY <1>1
<1>3. /\ RangeStart(k) \in Nat /\ RangeSize(k) \in Nat
      /\ RangeStart(k + 1) = RangeStart(k) + RangeSize(k)
  BY CutFacts
<1>4. RangeSize(k) <= 2 * n + 1 /\ n <= 2 * RangeSize(k)
  BY <1>3 DEF Tolerated
<1>5. Len(s) \in Nat /\ k \in Nat
  BY CutsAssumption
<1>6. ASSUME n = RangeSize(k), Len(s) + 1 = RangeStart(k),
             \A i \in 1..Len(s) : s[i] = Selection[i]
      PROVE  \A i \in 1..Len(t) : t[i] = Selection[i]
  <2> SUFFICES ASSUME NEW i \in 1..Len(t) PROVE t[i] = Selection[i]
    OBVIOUS
  <2> HIDE DEF b
  <2>1. CASE i <= Len(s)
    BY <2>1, <1>1, <1>5, <1>6
  <2>2. CASE i > Len(s)
    <3>1. i - Len(s) \in 1..n
      BY <2>2, <1>2, <1>5
    <3>2. t[i] = b[i - Len(s)]
      BY <2>2, <1>1, <1>2, <1>5
    <3>3. b[i - Len(s)] = Selection[RangeStart(k) + (i - Len(s)) - 1]
      BY <3>1, <1>6, BodyFacts DEF b
    <3>4. RangeStart(k) + (i - Len(s)) - 1 = i
      BY <1>3, <1>5, <1>6
    <3> QED
      BY <3>2, <3>3, <3>4
  <2> QED
    BY <2>1, <2>2, <1>5
<1> HIDE DEF t, b
<1>7. /\ RangeStart(k + 1) <= 2 * Len(t) + (k + 1)
      /\ Len(t) + 2 <= 2 * RangeStart(k + 1)
      /\ n = RangeSize(k) /\ Len(s) + 1 = RangeStart(k) => Len(t) + 1 = RangeStart(k + 1)
  <2>1. /\ RangeStart(k) + RangeSize(k) <= 2 * (Len(s) + n) + (k + 1)
        /\ (Len(s) + n) + 2 <= 2 * (RangeStart(k) + RangeSize(k))
    BY <1>3, <1>4, <1>5, FactorTwo
  <2> QED
    BY <2>1, <1>2, <1>3, <1>5
<1> QED
  BY <1>2, <1>6, <1>7 DEF t, b

-----------------------------------------------------------------------------
LEMMA InvInit == Init => TransferInv
<1> SUFFICES ASSUME Init PROVE TransferInv
  OBVIOUS
<1>1. partial \in Seq(Pieces) /\ final \in Seq(Pieces)
  BY EmptyPrefix DEF Init
<1>2. stating \in BOOLEAN
  BY Zenon DEF Init
<1>3. /\ ranged \in BOOLEAN /\ linked \in BOOLEAN
      /\ stale \in BOOLEAN /\ doomed \in BOOLEAN /\ spoilt \in BOOLEAN
  BY DEF Init
<1>4. /\ saved \in Length /\ total \in Length
      /\ pos \in Nat \ {0} /\ tries \in Nat
      /\ faults \in Nat /\ crashes \in Nat /\ cleans \in Nat
  BY DEF Init, Length
<1>5. pc \in {"idle", "start", "ranges", "head", "measure", "await", "stream", "verify"}
  BY DEF Init
<1>6. TypeOK
  BY <1>1, <1>2, <1>3, <1>4, <1>5 DEF TypeOK
<1>7. Lengths /\ Collected /\ OnlyPrefixes /\ Over /\ FinalIsSource
  BY EmptyPrefix, SizeAssumption, NoneAssumption
     DEF Init, Lengths, Collected, OnlyPrefixes, Over, FinalIsSource
<1> QED
  BY <1>6, <1>7 DEF TransferInv

\* The selective download.
LEMMA SelectiveInv ==
    ASSUME TransferInv, Begin \/ SelectiveStep
    PROVE  TransferInv'
<1> USE EmptyPrefix, SizeAssumption, NoneAssumption, SelectionAssumption, ModelAssumption
    DEF TransferInv, TypeOK, Length, Lengths, Collected, OnlyPrefixes, Sound,
        Over, FinalIsSource, fileVars, progressVars, cleanVars, envVars
<1>1. CASE Begin
  BY <1>1 DEF Begin
<1>2. CASE IndexFound
  <2>1. /\ stating' \in BOOLEAN /\ ranged' \in BOOLEAN /\ linked' \in BOOLEAN
        /\ stale' \in BOOLEAN /\ doomed' \in BOOLEAN /\ spoilt' \in BOOLEAN
    BY <1>2, ZenonT(30) DEF IndexFound
  <2>2. TypeOK'
    BY <1>2, <2>1 DEF IndexFound
  <2>3. Collected'
    BY <1>2, CutsAssumption DEF IndexFound, RangeStart
  <2> QED
    BY <1>2, <2>2, <2>3 DEF IndexFound
<1>3. CASE NoIndex
  BY <1>3 DEF NoIndex, StartFull
<1>4. CASE RangeGet
  <2>1. PICK n \in 0..2 * RangeSize(pos) :
          /\ Tolerated(n, RangeSize(pos))
          /\ partial' = IF linked THEN partial \o Body(pos, n) ELSE partial
          /\ spoilt' = (spoilt \/ n # RangeSize(pos))
    BY <1>4, Zenon DEF RangeGet
  <2>2. pos \in 1..Len(Cuts) /\ n \in Nat
    BY <1>4, CutFacts, CutsAssumption DEF RangeGet
  <2>3. partial' \in Seq(Pieces)
    <3>1. partial \o Body(pos, n) \in Seq(Pieces)
      BY <2>2, BodyFacts
    <3>2. partial' \in {partial, partial \o Body(pos, n)}
      BY <2>1, ZenonT(30)
    <3> QED
      BY <3>1, <3>2
  <2>4. spoilt' \in BOOLEAN
    BY <2>1, ZenonT(30)
  <2>5. TypeOK'
    BY <1>4, <2>3, <2>4 DEF RangeGet
  <2>6. Collected'
    <3>1. Selective /\ pos' <= Len(Cuts) + 1 /\ pos' = pos + 1 /\ linked' = linked
      BY <1>4, <2>2, CutsAssumption DEF RangeGet
    <3>2. ASSUME linked
          PROVE  /\ RangeStart(pos + 1) <= 2 * Len(partial') + (pos + 1)
                 /\ Len(partial') + 2 <= 2 * RangeStart(pos + 1)
                 /\ ~spoilt' =>
                      /\ Len(partial') + 1 = RangeStart(pos + 1)
                      /\ \A i \in 1..Len(partial') : partial'[i] = Selection[i]
      <4>1. partial' = partial \o Body(pos, n)
        BY <2>1, <3>2
      <4>2. /\ RangeStart(pos) <= 2 * Len(partial) + pos
            /\ Len(partial) + 2 <= 2 * RangeStart(pos)
            /\ ~spoilt => /\ Len(partial) + 1 = RangeStart(pos)
                          /\ \A i \in 1..Len(partial) : partial[i] = Selection[i]
        BY <1>4, <3>2, Zenon DEF RangeGet
      <4>3. ~spoilt' => ~spoilt /\ n = RangeSize(pos)
        BY <2>1, Zenon
      <4>4. /\ RangeStart(pos + 1) <= 2 * Len(partial') + (pos + 1)
            /\ Len(partial') + 2 <= 2 * RangeStart(pos + 1)
            /\ /\ n = RangeSize(pos) /\ Len(partial) + 1 = RangeStart(pos)
               /\ \A i \in 1..Len(partial) : partial[i] = Selection[i]
               => /\ Len(partial') + 1 = RangeStart(pos + 1)
                  /\ \A i \in 1..Len(partial') : partial'[i] = Selection[i]
        <5>1. partial \in Seq(Pieces)
          OBVIOUS
        <5>2. Tolerated(n, RangeSize(pos))
          BY <2>1
        <5>3. RangeStart(pos) <= 2 * Len(partial) + pos /\ Len(partial) + 2 <= 2 * RangeStart(pos)
          BY <4>2
        <5>4. pos \in 1..Len(Cuts) /\ n \in Nat
          BY <2>2
        <5> QED
          BY ONLY <4>1, <5>1, <5>2, <5>3, <5>4, LongerCollection, Zenon
      <4> QED
        BY <4>2, <4>3, <4>4, Zenon
    <3> QED
      BY <3>1, <3>2 DEF RangeStart
  <2>7. Lengths' /\ Over' /\ OnlyPrefixes' /\ FinalIsSource'
    BY <1>4 DEF RangeGet
  <2> QED
    BY <2>5, <2>6, <2>7
<1>5. CASE RangeFail
  <2>1. /\ stating' \in BOOLEAN /\ ranged' \in BOOLEAN /\ linked' \in BOOLEAN
        /\ stale' \in BOOLEAN /\ doomed' \in BOOLEAN /\ spoilt' \in BOOLEAN
    BY <1>5, ZenonT(30) DEF RangeFail
  <2>2. TypeOK'
    BY <1>5, <2>1 DEF RangeFail, StartFull
  <2> QED
    BY <1>5, <2>2 DEF RangeFail, StartFull
<1>6. CASE RangesDone
  <2>1. pos = Len(Cuts) + 1 /\ RangeStart(pos) = Len(Selection) + 1
    <3>1. pos = Len(Cuts) + 1
      BY <1>6, CutsAssumption DEF RangesDone
    <3> QED
      BY <3>1, CutsAssumption DEF RangeStart
  <2>2. linked /\ ~spoilt => partial = Selection
    <3>1. linked /\ ~spoilt =>
            /\ Len(partial) + 1 = RangeStart(pos)
            /\ \A i \in 1..Len(partial) : partial[i] = Selection[i]
      BY <1>6, Zenon DEF RangesDone
    <3> QED
      BY <2>1, <3>1, FullSelection
  <2>3. Selection \in Wanted
    BY <1>6 DEF RangesDone, Wanted
  <2>4. FinalIsSource'
    BY <2>2, <2>3, <1>6 DEF RangesDone, Wanted
  <2> QED
    BY <2>4, <1>6 DEF RangesDone
<1> QED
  BY <1>1, <1>2, <1>3, <1>4, <1>5, <1>6 DEF SelectiveStep

\* The full download.
LEMMA FullInv ==
    ASSUME HeadReliable, TransferInv, FullStep \/ Fail
    PROVE  TransferInv'
<1> USE EmptyPrefix, SizeAssumption, NoneAssumption, SelectionAssumption, ModelAssumption,
        BoundsAssumption
    DEF TransferInv, TypeOK, Length, Lengths, Collected, OnlyPrefixes, Sound,
        Over, FinalIsSource, fileVars, progressVars, cleanVars, envVars
<1>1. CASE AskHead
  BY <1>1 DEF AskHead
<1>2. CASE Measure
  <2>1. Len(partial) \in Nat
    OBVIOUS
  <2>2. pc' = "verify" /\ Sound => Len(partial) = Size
    BY <1>2, <2>1 DEF Measure, AllThere, IsPrefix
  <2>3. /\ stating' \in BOOLEAN /\ ranged' \in BOOLEAN /\ linked' \in BOOLEAN
        /\ stale' \in BOOLEAN /\ doomed' \in BOOLEAN /\ spoilt' \in BOOLEAN
    BY <1>2, ZenonT(30) DEF Measure
  <2>4. partial' \in {partial, <<>>} /\ pos' \in {pos, 1, Len(partial) + 1}
    BY <1>2, ZenonT(30) DEF Measure
  <2>5. partial' \in Seq(Pieces)
    BY <2>4
  <2>6. pos' \in Nat \ {0}
    BY <2>1, <2>4
  <2>7. TypeOK'
    BY <1>2, <2>3, <2>5, <2>6 DEF Measure
  <2> QED
    BY <1>2, <2>1, <2>2, <2>7 DEF Measure, AllThere
<1>3. CASE PartialContent
  BY <1>3 DEF PartialContent, LearnLength
<1>4. CASE FullContent
  <2>1. /\ stating' \in BOOLEAN /\ ranged' \in BOOLEAN /\ linked' \in BOOLEAN
        /\ stale' \in BOOLEAN /\ doomed' \in BOOLEAN /\ spoilt' \in BOOLEAN
    BY <1>4, ZenonT(30) DEF FullContent, LearnLength
  <2>2. TypeOK'
    BY <1>4, <2>1 DEF FullContent, LearnLength
  <2> QED
    BY <1>4, <2>2 DEF FullContent, LearnLength
<1>5. CASE NotSatisfiable
  <2>1. /\ stating' \in BOOLEAN /\ ranged' \in BOOLEAN /\ linked' \in BOOLEAN
        /\ stale' \in BOOLEAN /\ doomed' \in BOOLEAN /\ spoilt' \in BOOLEAN
    BY <1>5, ZenonT(30) DEF NotSatisfiable
  <2>2. TypeOK'
    BY <1>5, <2>1 DEF NotSatisfiable
  <2> QED
    BY <1>5, <2>2 DEF NotSatisfiable
<1>6. CASE Receive
  <2>1. TypeOK'
    <3>1. partial' \in {partial, Append(partial, pos)}
      BY <1>6, ZenonT(30) DEF Receive
    <3>2. pos \in Pieces /\ partial \in Seq(Pieces)
      BY <1>6 DEF Receive, Pieces
    <3>3. partial' \in Seq(Pieces)
      BY <3>1, <3>2, GrownSequence, ZenonT(30)
    <3>4. pos' \in Nat \ {0} /\ saved' \in Length
      BY <1>6 DEF Receive
    <3>5. /\ stating' \in BOOLEAN /\ ranged' \in BOOLEAN /\ linked' \in BOOLEAN
          /\ stale' \in BOOLEAN /\ doomed' \in BOOLEAN /\ spoilt' \in BOOLEAN
      BY <1>6, ZenonT(30) DEF Receive
    <3> QED
      BY <1>6, <3>3, <3>4, <3>5 DEF Receive
  <2>2. OnlyPrefixes'
    BY <1>6, LongerPrefix DEF Receive
  <2> QED
    BY <2>1, <2>2, <1>6 DEF Receive
<1>7. CASE StreamEnd
  BY <1>7 DEF StreamEnd, IsPrefix
<1>8. CASE Deliver
  <2>1. Sound => partial = Whole
    BY <1>8, FullPrefix DEF Deliver
  <2>2. Whole \in Wanted /\ Len(Whole) = Size
    BY WholeIsSource DEF Wanted
  <2>3. FinalIsSource'
    BY <2>1, <2>2, <1>8 DEF Deliver, Wanted
  <2> QED
    BY <2>3, <1>8 DEF Deliver
<1>9. CASE Mismatch
  BY <1>9 DEF Mismatch
<1>10. CASE Fail
  BY <1>10 DEF Fail
<1> QED
  BY <1>1, <1>2, <1>3, <1>4, <1>5, <1>6, <1>7, <1>8, <1>9, <1>10 DEF FullStep

\* Time, the cleanup task and crashes.
LEMMA OutsideInv ==
    ASSUME TransferInv, Age \/ CleanStep \/ Crash \/ UNCHANGED vars
    PROVE  TransferInv'
<1> USE EmptyPrefix, SizeAssumption, NoneAssumption, BoundsAssumption
    DEF TransferInv, TypeOK, Length, Lengths, Collected, OnlyPrefixes, Sound,
        Over, FinalIsSource, fileVars, progressVars, cleanVars, envVars
<1>1. CASE Age
  BY <1>1 DEF Age
<1>2. CASE CleanLook
  BY <1>2 DEF CleanLook
<1>3. CASE CleanRemove
  <2>1. /\ stating' \in BOOLEAN /\ ranged' \in BOOLEAN /\ linked' \in BOOLEAN
        /\ stale' \in BOOLEAN /\ doomed' \in BOOLEAN /\ spoilt' \in BOOLEAN
    BY <1>3, ZenonT(30) DEF CleanRemove
  <2>2. TypeOK'
    BY <1>3, <2>1 DEF CleanRemove
  <2> QED
    BY <1>3, <2>2 DEF CleanRemove
<1>4. CASE Crash
  <2>1. /\ stating' \in BOOLEAN /\ ranged' \in BOOLEAN /\ linked' \in BOOLEAN
        /\ stale' \in BOOLEAN /\ doomed' \in BOOLEAN /\ spoilt' \in BOOLEAN
    BY <1>4, ZenonT(30) DEF Crash
  <2>2. TypeOK'
    BY <1>4, <2>1 DEF Crash
  <2> QED
    BY <1>4, <2>2 DEF Crash
<1>5. CASE UNCHANGED vars
  BY <1>5 DEF vars
<1> QED
  BY <1>1, <1>2, <1>3, <1>4, <1>5 DEF CleanStep

\* The inductive invariant of the transfer.
THEOREM TransferInvariant == ASSUME HeadReliable PROVE Spec => []TransferInv
<1>1. TransferInv /\ [Next]_vars => TransferInv'
  BY SelectiveInv, FullInv, OutsideInv DEF Next, RunStep
<1> QED
  BY <1>1, InvInit, PTL DEF Spec

\* Every variable keeps its type.
THEOREM TransferTypes == ASSUME HeadReliable PROVE Spec => []TypeOK
<1>1. TransferInv => TypeOK
  BY DEF TransferInv
<1> QED
  BY <1>1, TransferInvariant, PTL

\* What was transferred without the cleanup task at its partial file, in
\* bodies as long as their ranges, and not on top of what a selective
\* download left when it died, is the source or the selection, also after
\* retries, fallbacks and crashes.
THEOREM ArrivesIntact == ASSUME HeadReliable PROVE Spec => []FinalIsSource
<1>1. TransferInv => FinalIsSource
  BY DEF TransferInv
<1> QED
  BY <1>1, TransferInvariant, PTL

\* A full download lets no file of another length through when the length is
\* known, whatever happened to the partial file; a selective one, which never
\* looks at the total, stays within the tolerance of its ranges.
THEOREM ArrivesInSize == ASSUME HeadReliable PROVE Spec => RightSize
<1> DEFINE Fits ==
      final' # final =>
          IF pc = "ranges"
          THEN /\ Len(Selection) <= 2 * Len(final') + Len(Cuts)
               /\ Len(final') <= 2 * Len(Selection)
          ELSE stating /\ ~SkipSize => Len(final') = Size
<1>1. ASSUME TransferInv, RangesDone PROVE Fits
  <2>1. pos = Len(Cuts) + 1 /\ RangeStart(pos) = Len(Selection) + 1
    <3>1. pos = Len(Cuts) + 1
      BY <1>1, CutsAssumption DEF RangesDone, TransferInv, TypeOK, Collected
    <3> QED
      BY <3>1, CutsAssumption, SelectionAssumption DEF RangeStart
  <2>2. ASSUME final' # final
        PROVE  /\ pc = "ranges" /\ final' = partial /\ Len(partial) \in Nat
               /\ RangeStart(pos) <= 2 * Len(partial) + pos
               /\ Len(partial) + 2 <= 2 * RangeStart(pos)
    BY <1>1, <2>2 DEF RangesDone, TransferInv, TypeOK, Collected
  <2>3. Len(Selection) \in Nat /\ Len(Cuts) \in Nat
    BY SelectionAssumption, CutsAssumption
  <2> QED
    BY <2>1, <2>2, <2>3
<1>2. ASSUME TransferInv, Deliver PROVE Fits
  BY <1>2, NoneAssumption, SizeAssumption
     DEF Deliver, Verified, TransferInv, Lengths
<1>3. ASSUME TransferInv, [Next]_vars, ~RangesDone, ~Deliver
      PROVE  final' = final
  BY <1>3
     DEF Next, RunStep, SelectiveStep, FullStep, CleanStep, vars, fileVars, progressVars,
         Begin, IndexFound, NoIndex, RangeGet, RangeFail, AskHead, Measure,
         PartialContent, FullContent, NotSatisfiable, Receive, StreamEnd, Mismatch,
         Fail, Age, CleanLook, CleanRemove, Crash
<1>4. TransferInv /\ [Next]_vars => [Fits]_vars
  BY <1>1, <1>2, <1>3
<1> QED
  BY <1>4, TransferInvariant, PTL DEF Spec, RightSize
=============================================================================
