-------------------------- MODULE UsartRingProofs --------------------------
(***************************************************************************)
(* UsartRing, for a ring of any size and any lines that fit: types, that   *)
(* the ring is a queue, that every string Gets returns is the next whole   *)
(* line, and how far Num may be off.                                       *)
(***************************************************************************)
EXTENDS UsartRing, SequenceTheorems, TLAPS

-----------------------------------------------------------------------------
(* Data                                                                    *)

\* A sequence that is not empty, by its elements.
LEMMA HeadTail ==
  ASSUME NEW S, NEW s \in Seq(S), s # <<>>
  PROVE  /\ Len(s) \in Nat /\ Len(s) >= 1
         /\ s[1] \in S
         /\ Tail(s) \in Seq(S) /\ Len(Tail(s)) = Len(s) - 1
         /\ \A j \in 1..Len(s) - 1 : Tail(s)[j] = s[j + 1]
  BY HeadTailProperties, EmptySeq, LenProperties

\* The end of a sequence is what was appended.
LEMMA Appended ==
  ASSUME NEW S, NEW s \in Seq(S), NEW e \in S
  PROVE  /\ Append(s, e) \in Seq(S) /\ Len(s) \in Nat
         /\ Len(Append(s, e)) = Len(s) + 1
         /\ \A j \in 1..Len(s) : Append(s, e)[j] = s[j]
         /\ Append(s, e)[Len(s) + 1] = e
  BY AppendProperties, LenProperties

\* The slots behind Out are slots of the ring, each only once.
LEMMA SlotsBehind ==
  ASSUME Out \in 0..Size
  PROVE  /\ \A n \in Slots : Behind(n) \in Slots
         /\ \A m, n \in Slots : Behind(m) = Behind(n) => m = n
         /\ \A n \in 0..Size : Wrap(n) \in Slots
<1>1. Size \in Nat /\ Size >= 1
  BY RingAssumption
<1>2. \A n \in Slots : Behind(n) \in Slots
  BY <1>1 DEF Slots, Behind
<1>3. \A m, n \in Slots : Behind(m) = Behind(n) => m = n
  BY <1>1 DEF Slots, Behind
<1>4. \A n \in 0..Size : Wrap(n) \in Slots
  BY <1>1 DEF Slots, Wrap
<1> QED
  BY <1>2, <1>3, <1>4

\* The ends of the lines are numbers that grow.
LEMMA EndsGrow ==
  ASSUME stream \in Streams
  PROVE  /\ Len(stream.ends) \in Nat
         /\ \A k \in 0..Len(stream.ends) : End(k) \in Nat
         /\ \A k, l \in 0..Len(stream.ends) : k <= l => End(k) <= End(l)
         /\ \A k, l \in 0..Len(stream.ends) : k < l => End(k) < End(l)
<1>1. stream.ends \in Seq(Nat \ {0})
  BY RingAssumption
<1>2. Len(stream.ends) \in Nat
  BY <1>1, LenProperties
<1>3. \A k \in 1..Len(stream.ends) : stream.ends[k] \in Nat \ {0}
  BY <1>1, ElementOfSeq
<1>4. \A k, l \in 1..Len(stream.ends) : k < l => stream.ends[k] < stream.ends[l]
  BY RingAssumption
<1>5. \A k \in 0..Len(stream.ends) : End(k) \in Nat
  BY <1>2, <1>3 DEF End
<1>6. ASSUME NEW k \in 0..Len(stream.ends), NEW l \in 0..Len(stream.ends), k < l
      PROVE  End(k) < End(l)
  <2>1. l \in 1..Len(stream.ends)
    BY <1>2, <1>6
  <2>2. CASE k = 0
    BY <2>1, <2>2, <1>3 DEF End
  <2>3. CASE k # 0
    <3>1. k \in 1..Len(stream.ends)
      BY <2>3, <1>2
    <3> QED
      BY <3>1, <2>1, <1>4, <1>6, <2>3 DEF End
  <2> QED
    BY <2>2, <2>3
<1>7. ASSUME NEW k \in 0..Len(stream.ends), NEW l \in 0..Len(stream.ends), k <= l
      PROVE  End(k) <= End(l)
  <2>1. k \in Nat /\ l \in Nat
    BY <1>2
  <2>2. CASE k = l
    BY <2>2, <1>5
  <2>3. CASE k # l
    <3>1. k < l
      BY <2>1, <2>3, <1>7
    <3> QED
      BY <3>1, <1>6, <1>5
  <2> QED
    BY <2>2, <2>3
<1> QED
  BY <1>2, <1>5, <1>6, <1>7

\* A delimiter after the end of line a comes no earlier than the end of a + 1.
LEMMA NextEnd ==
  ASSUME stream \in Streams, NEW a \in 0..Len(stream.ends), NEW b \in Nat, b > End(a), IsEnd(b)
  PROVE  a < Len(stream.ends) /\ End(a + 1) <= b
<1>1. Len(stream.ends) \in Nat
  BY EndsGrow
<1>2. PICK j \in 1..Len(stream.ends) : stream.ends[j] = b
  BY DEF IsEnd
<1>3. j \in 0..Len(stream.ends) /\ j \in Nat /\ a \in Nat
  BY <1>1
<1>4. End(j) = b /\ j # 0
  BY <1>2, <1>1 DEF End
<1>5. End(a) \in Nat /\ End(j) \in Nat
  BY <1>3, EndsGrow
<1>6. ~(j <= a)
  BY <1>3, <1>4, <1>5, EndsGrow
<1>7. a + 1 <= j /\ a + 1 \in 0..Len(stream.ends)
  BY <1>1, <1>3, <1>6
<1>8. End(a + 1) <= End(j)
  BY <1>3, <1>7, EndsGrow
<1> QED
  BY <1>1, <1>3, <1>4, <1>6, <1>7, <1>8

\* What the server may send when answered lines are answered.
LEMMA Room ==
  ASSUME stream \in Streams, answered \in 0..Len(stream.ends)
  PROVE  /\ Upto \in answered..Len(stream.ends)
         /\ answered < Len(stream.ends) => answered + 1 <= Upto
         /\ stream.ahead = 1 /\ answered < Len(stream.ends) => Upto = answered + 1
         /\ Fits => End(Upto) - End(answered) <= Size
<1>1. Len(stream.ends) \in Nat /\ answered \in Nat /\ stream.ahead \in Nat \ {0}
  BY EndsGrow, RingAssumption
<1>2. Fits => End(Upto) - End(answered) <= Size
  BY DEF Fits, Upto
<1> QED
  BY <1>1, <1>2 DEF Upto

-----------------------------------------------------------------------------
(* Types. "Num--" takes away from a number that is not zero.               *)

TInv == TypeOK /\ (mpc = "store" => tmp > 0)

LEMMA AfterByteType == \A bytes : AfterByte(bytes) \in {"done", "getc"}
  BY DEF AfterByte

LEMMA TypesStep == TInv /\ [Next]_ringVars => TInv'
<1> SUFFICES ASSUME TInv, [Next]_ringVars
             PROVE  TInv'
  OBVIOUS
<1>0. Size \in Nat /\ Size >= 1
  BY RingAssumption
<1>1. CASE InsertToBuffer
  <2>1. Wrap(In) \in Slots /\ Wrap(In) + 1 \in 0..Size
    BY <1>0 DEF TInv, TypeOK, Wrap, Slots
  <2>2. sent + 1 \in Nat /\ Num + 1 \in Nat
    BY DEF TInv, TypeOK
  <2>3. Append(stored, sent + 1) \in Seq(Nat)
    BY <2>2, Appended DEF TInv, TypeOK
  <2> QED
    BY <1>1, <2>1, <2>2, <2>3 DEF InsertToBuffer, TInv, TypeOK
<1>2. CASE Find
  BY <1>2 DEF Find, TInv, TypeOK, ring
<1>3. CASE TestFull
  BY <1>3 DEF TestFull, TInv, TypeOK, ring
<1>4. CASE Getc
  <2>1. Wrap(Out) \in Slots /\ Wrap(Out) + 1 \in 0..Size
    BY <1>0 DEF TInv, TypeOK, Wrap, Slots
  <2>2. Buffer[Wrap(Out)] \in Nat
    BY <2>1 DEF TInv, TypeOK
  <2>3. Append(line, Buffer[Wrap(Out)]) \in Seq(Nat) /\ Append(line, 0) \in Seq(Nat)
    BY <2>2, Appended DEF TInv, TypeOK
  <2>4. (IF stored = <<>> THEN stored ELSE Tail(stored)) \in Seq(Nat)
    BY HeadTail DEF TInv, TypeOK
  <2> QED
    BY <1>4, <2>1, <2>3, <2>4, AfterByteType DEF Getc, TInv, TypeOK
<1>5. CASE LoadNum
  BY <1>5, AfterByteType DEF LoadNum, TInv, TypeOK, ring
<1>6. CASE StoreNum
  BY <1>6, AfterByteType DEF StoreNum, TInv, TypeOK, ring
<1>7. CASE Answer
  BY <1>7 DEF Answer, TInv, TypeOK, ring
<1>8. CASE UNCHANGED ringVars
  BY <1>8 DEF ringVars, ring, TInv, TypeOK
<1> QED
  BY <1>1, <1>2, <1>3, <1>4, <1>5, <1>6, <1>7, <1>8 DEF Next, Main

LEMMA TypesInit == Init => TInv
<1>1. 0 \in 0..Size
  BY RingAssumption
<1>2. <<>> \in Seq(Nat)
  BY EmptySeq
<1>3. [k \in Slots |-> 0] \in [Slots -> Nat]
  OBVIOUS
<1> SUFFICES ASSUME Init
             PROVE  TInv
  OBVIOUS
<1>4. Buffer \in [Slots -> Nat] /\ In \in 0..Size /\ Out \in 0..Size
  BY <1>1, <1>3 DEF Init
<1>5. line \in Seq(Nat) /\ stored \in Seq(Nat)
  BY <1>2 DEF Init
<1>6. /\ Num \in Nat /\ tmp \in Nat /\ sent \in Nat /\ answered \in Nat
      /\ mpc = "gets" /\ raced = FALSE /\ stream \in Streams
  BY DEF Init
<1> QED
  BY <1>4, <1>5, <1>6 DEF TInv, TypeOK

LEMMA Types == Spec => []TInv
<1>1. Init => TInv
  BY TypesInit
<1>2. TInv /\ [Next]_ringVars => TInv'
  BY TypesStep
<1> QED
  BY <1>1, <1>2, PTL DEF Spec

\* The types of the driver's fields, for a ring of any size: the indices stay
\* inside it, and Num is never less than 0.
THEOREM TypeCorrect == Spec => []TypeOK
<1>1. TInv => TypeOK
  BY DEF TInv
<1> QED
  BY <1>1, Types, PTL

-----------------------------------------------------------------------------
(* The bytes, for lines that fit. What has been read is what came first:   *)
(* sent - Len(stored) bytes, of which the answered lines are the first.    *)

Taken == sent - Len(stored)

Reading == mpc \in {"getc", "load", "store", "done"}

Bounds ==
  /\ answered \in 0..Len(stream.ends)
  /\ Taken >= End(answered) /\ sent <= End(Upto)

Stored == \A k \in 1..Len(stored) : stored[k] = Taken + k

Kept == \A k \in 1..Len(stored) : Buffer[Behind(k - 1)] = stored[k]

Indices == In = Out + Len(stored) \/ In = Out + Len(stored) - Size

\* A string is begun only when its end has come, and read up to there.
Begun ==
  IF ~Reading THEN Taken = End(answered)
  ELSE /\ answered < Len(stream.ends)
       /\ End(answered + 1) <= sent /\ Taken <= End(answered + 1)
       /\ Taken = End(answered) + Len(line)
       /\ \A k \in 1..Len(line) : line[k] = End(answered) + k

Place ==
  /\ mpc = "full" => line = <<>>
  /\ mpc = "getc" => Taken < End(answered + 1) /\ (line = <<>> => Num > 0)
  /\ mpc \in {"load", "store"} => Len(line) >= 1
  /\ mpc = "done" => Taken = End(answered + 1)

Counted ==
  /\ Num <= Unread
  /\ ~raced => Num = Unread
  /\ mpc = "store" => tmp <= Num
  /\ stream.ahead = 1 => ~raced /\ (mpc = "store" => tmp = Num)

Bytes == Bounds /\ Stored /\ Kept /\ Indices /\ Begun /\ Place /\ Counted

RInv == TInv /\ (Fits => Bytes)

\* What the other lemmas use of the invariant: the ring has room for whatever
\* the server may still send, and for nothing is Num too large.
LEMMA RingRoom ==
  ASSUME TInv, Fits, Bounds, Begun, Place
  PROVE  /\ Len(stored) \in Nat /\ Len(stored) <= Size
         /\ Taken \in Nat
         /\ Reading => Len(line) \in Nat /\ Len(line) + Len(stored) <= Size
         /\ sent < End(Upto) => Len(stored) < Size
         /\ sent < End(Upto) /\ mpc \in {"load", "store"} => Len(stored) + 1 < Size
<1>1. Len(stored) \in Nat /\ Len(line) \in Nat /\ sent \in Nat /\ Size \in Nat
  BY LenProperties, RingAssumption DEF TInv, TypeOK
<1>2. Upto \in 0..Len(stream.ends) /\ answered \in 0..Len(stream.ends)
  BY Room, EndsGrow DEF Bounds, TInv, TypeOK
<1>3. End(Upto) \in Nat /\ End(answered) \in Nat
  BY <1>2, EndsGrow DEF TInv, TypeOK
<1>4. End(Upto) - End(answered) <= Size
  BY <1>2, Room DEF TInv, TypeOK
<1>5. sent - Len(stored) >= End(answered) /\ sent <= End(Upto)
  BY DEF Bounds, Taken
<1>6. Reading => sent - Len(stored) = End(answered) + Len(line)
  BY DEF Begun, Taken
<1>7. mpc \in {"load", "store"} => Reading /\ Len(line) >= 1
  BY DEF Place, Reading
<1> QED
  BY <1>1, <1>3, <1>4, <1>5, <1>6, <1>7 DEF Taken

\* The lines are chosen once; what may be sent depends on the answers only.
LEMMA SameLines ==
  ASSUME stream' = stream
  PROVE  /\ Fits' = Fits
         /\ \A k : End(k)' = End(k)
         /\ \A b : IsEnd(b)' = IsEnd(b)
         /\ answered' = answered =>
              /\ Upto' = Upto /\ End(Upto)' = End(Upto)
              /\ End(answered)' = End(answered) /\ End(answered + 1)' = End(answered + 1)
  BY DEF Fits, End, IsEnd, Upto

\* A byte comes. There is room for it, it is not stored over one that is not
\* read, and a server that waits for each answer sends none while Gets reads.
LEMMA InsertKeeps ==
  ASSUME TInv, Fits, Bytes, InsertToBuffer
  PROVE  Bytes'
<1>0. /\ Size \in Nat /\ Size >= 1 /\ stream \in Streams
      /\ sent \in Nat /\ Num \in Nat /\ tmp \in Nat /\ answered \in Nat
      /\ In \in 0..Size /\ Out \in 0..Size
  BY RingAssumption DEF TInv, TypeOK
<1>1. stream' = stream /\ answered' = answered /\ mpc' = mpc /\ line' = line /\ raced' = raced
      /\ tmp' = tmp /\ Out' = Out /\ sent' = sent + 1 /\ sent < End(Upto)
  BY DEF InsertToBuffer
<1>2. /\ Upto' = Upto /\ End(Upto)' = End(Upto) /\ Reading' = Reading
      /\ End(answered)' = End(answered) /\ End(answered + 1)' = End(answered + 1)
  BY <1>1, SameLines DEF Reading
<1>3. /\ Len(stored) \in Nat /\ Len(stored) < Size /\ Taken \in Nat
      /\ mpc \in {"load", "store"} => Len(stored) + 1 < Size
  BY <1>1, RingRoom DEF Bytes
<1>4. Num <= Unread /\ Num < Size
  BY <1>0, <1>3 DEF Bytes, Counted, Unread
<1>5. /\ Buffer' = [Buffer EXCEPT ![Wrap(In)] = sent + 1]
      /\ In' = Wrap(In) + 1 /\ Num' = Num + 1 /\ stored' = Append(stored, sent + 1)
  BY <1>4 DEF InsertToBuffer
<1>6. /\ Len(stored') = Len(stored) + 1
      /\ \A j \in 1..Len(stored) : stored'[j] = stored[j]
      /\ stored'[Len(stored) + 1] = sent + 1
  BY <1>0, <1>5, Appended DEF TInv, TypeOK
<1>7. Taken' = Taken
  BY <1>0, <1>1, <1>3, <1>6 DEF Taken
<1>8. End(Upto) \in Nat /\ End(answered) \in Nat
  BY <1>0, EndsGrow, Room DEF Bytes, Bounds
<1>9. Wrap(In) = Behind(Len(stored))
  BY <1>0, <1>3 DEF Bytes, Indices, Wrap, Behind
<1>10. Bounds'
  BY <1>0, <1>1, <1>2, <1>7, <1>8 DEF Bytes, Bounds
<1>11. Stored'
  <2> SUFFICES ASSUME NEW k \in 1..Len(stored)'
               PROVE  stored'[k] = Taken + k
    BY <1>7 DEF Stored
  <2>1. CASE k = Len(stored) + 1
    BY <2>1, <1>0, <1>3, <1>6 DEF Taken
  <2>2. CASE k # Len(stored) + 1
    <3>1. k \in 1..Len(stored)
      BY <2>2, <1>3, <1>6
    <3> QED
      BY <3>1, <1>6 DEF Bytes, Stored
  <2> QED
    BY <2>1, <2>2
<1>12. Kept'
  <2> SUFFICES ASSUME NEW k \in 1..Len(stored)'
               PROVE  Buffer'[Behind(k - 1)] = stored'[k]
    BY <1>1 DEF Kept, Behind
  <2>0. k \in Nat /\ k - 1 \in Slots /\ Len(stored) \in Slots
    BY <1>0, <1>3, <1>6 DEF Slots
  <2>1. Behind(k - 1) \in Slots /\ Behind(Len(stored)) \in Slots
    BY <2>0, <1>0, SlotsBehind
  <2>2. Buffer \in [Slots -> Nat]
    BY DEF TInv, TypeOK
  <2>3. CASE k = Len(stored) + 1
    <3>1. k - 1 = Len(stored)
      BY <2>3, <1>3
    <3> QED
      BY <3>1, <2>1, <2>2, <2>3, <1>5, <1>6, <1>9
  <2>4. CASE k # Len(stored) + 1
    <3>1. k \in 1..Len(stored) /\ k - 1 # Len(stored)
      BY <2>0, <2>4, <1>3, <1>6
    <3>2. Behind(k - 1) # Behind(Len(stored))
      BY <3>1, <2>0, <1>0, SlotsBehind
    <3>3. Buffer'[Behind(k - 1)] = Buffer[Behind(k - 1)]
      BY <3>2, <2>1, <2>2, <1>5, <1>9
    <3> QED
      BY <3>1, <3>3, <1>6 DEF Bytes, Kept
  <2> QED
    BY <2>3, <2>4
<1>13. Indices'
  <2>1. In = Out + Len(stored) \/ In = Out + Len(stored) - Size
    BY DEF Bytes, Indices
  <2>2. In' = (IF In = Size THEN 0 ELSE In) + 1 /\ Out' = Out /\ Len(stored') = Len(stored) + 1
    BY <1>0, <1>1, <1>5, <1>6 DEF Wrap
  <2>3. In' = Out' + Len(stored') \/ In' = Out' + Len(stored') - Size
    BY <1>0, <1>3, <2>1, <2>2
  <2> QED
    BY <2>3 DEF Indices
<1>14. Begun'
  <2>1. CASE ~Reading
    BY <2>1, <1>2, <1>7 DEF Bytes, Begun
  <2>2. CASE Reading
    <3>1. End(answered + 1) <= sent + 1
      <4>1. answered + 1 \in 0..Len(stream.ends)
        BY <2>2, <1>0, EndsGrow DEF Bytes, Begun
      <4>2. End(answered + 1) \in Nat
        BY <4>1, <1>0, EndsGrow
      <4> QED
        BY <4>2, <2>2, <1>0 DEF Bytes, Begun
    <3> QED
      BY <3>1, <2>2, <1>1, <1>2, <1>7 DEF Bytes, Begun
  <2> QED
    BY <2>1, <2>2
<1>15. Place'
  BY <1>0, <1>1, <1>2, <1>5, <1>7 DEF Bytes, Place
<1>16. Counted'
  <2>1. Unread' = Unread + 1
    BY <1>1, <1>3, <1>6 DEF Unread
  <2>2. Unread \in Nat
    BY <1>3 DEF Unread
  <2>3. stream.ahead = 1 /\ mpc = "store" => FALSE
    <3> SUFFICES ASSUME stream.ahead = 1, Reading
                 PROVE  FALSE
      BY DEF Reading
    <3>1. Upto = answered + 1
      BY <1>0, Room DEF Bytes, Bounds, Begun
    <3> QED
      BY <3>1, <1>0, <1>1, <1>8 DEF Bytes, Begun
  <2> QED
    BY <2>1, <2>2, <2>3, <1>0, <1>1, <1>5 DEF Bytes, Counted
<1> QED
  BY <1>10, <1>11, <1>12, <1>13, <1>14, <1>15, <1>16 DEF Bytes

\* Gets begins a string only when all its bytes have come: it has found the
\* delimiter, or the ring is full of a line that fills it.
LEMMA BeginKeeps ==
  ASSUME TInv, Fits, Bytes, mpc \in {"gets", "full"},
         \E k \in 0..Num - 1 : IsEnd(Buffer[Behind(k)]) \/ Num = Size
  PROVE  answered < Len(stream.ends) /\ End(answered + 1) <= sent
<1>0. /\ Size \in Nat /\ stream \in Streams /\ sent \in Nat /\ Num \in Nat
      /\ Len(stream.ends) \in Nat /\ answered \in 0..Len(stream.ends) /\ ~Reading
  BY RingAssumption, EndsGrow DEF TInv, TypeOK, Reading, Bytes, Bounds
<1>1. Len(stored) \in Nat /\ Num <= Len(stored) /\ Taken = End(answered)
  BY <1>0, RingRoom DEF Bytes, Counted, Unread, Begun
<1>2. End(answered) \in Nat
  BY <1>0, EndsGrow
<1>3. CASE \E k \in 0..Num - 1 : IsEnd(Buffer[Behind(k)])
  <2>1. PICK k \in 0..Num - 1 : IsEnd(Buffer[Behind(k)])
    BY <1>3
  <2>2. k + 1 \in 1..Len(stored) /\ (k + 1) - 1 = k
    BY <1>0, <1>1
  <2>3. Buffer[Behind(k)] = stored[k + 1] /\ stored[k + 1] = End(answered) + k + 1
    <3>1. Buffer[Behind((k + 1) - 1)] = stored[k + 1]
      BY <2>2 DEF Bytes, Kept
    <3>2. stored[k + 1] = Taken + (k + 1)
      BY <2>2 DEF Bytes, Stored
    <3> QED
      BY <3>1, <3>2, <2>2, <1>0, <1>1, <1>2
  <2>4. k + 1 \in Nat /\ k + 1 >= 1 /\ k + 1 <= Len(stored)
    BY <1>0, <1>1
  <2> DEFINE b == End(answered) + k + 1
  <2>5. b \in Nat /\ b > End(answered) /\ b <= sent
    BY <2>4, <1>0, <1>1, <1>2 DEF Taken
  <2>6. IsEnd(b)
    BY <2>1, <2>3
  <2>7. answered < Len(stream.ends) /\ End(answered + 1) <= b
    BY <2>5, <2>6, <1>0, NextEnd
  <2>8. End(answered + 1) \in Nat
    BY <2>7, <1>0, EndsGrow
  <2> QED
    BY <2>5, <2>7, <2>8, <1>0
<1>4. CASE Num = Size
  <2>1. /\ Upto \in answered..Len(stream.ends) /\ End(Upto) - End(answered) <= Size
        /\ answered < Len(stream.ends) => answered + 1 <= Upto
    BY <1>0, Room
  <2>2. End(Upto) \in Nat
    BY <2>1, <1>0, EndsGrow
  <2>3. sent = End(Upto) /\ sent > End(answered)
    BY <2>1, <2>2, <1>0, <1>1, <1>2, <1>4, RingAssumption DEF Bytes, Bounds, Taken
  <2>4. answered < Len(stream.ends)
    BY <2>1, <2>3, <1>0, <1>2
  <2>5. End(answered + 1) <= End(Upto)
    BY <2>1, <2>4, <1>0, EndsGrow
  <2> QED
    BY <2>3, <2>4, <2>5
<1> QED
  BY <1>3, <1>4

LEMMA FindKeeps ==
  ASSUME TInv, Fits, Bytes, Find \/ TestFull
  PROVE  Bytes'
<1>0. /\ Size \in Nat /\ Size >= 1 /\ stream \in Streams /\ sent \in Nat /\ Num \in Nat
      /\ Len(stream.ends) \in Nat /\ answered \in 0..Len(stream.ends) /\ ~Reading
      /\ mpc \in {"gets", "full"}
  BY RingAssumption, EndsGrow DEF TInv, TypeOK, Reading, Bytes, Bounds, Find, TestFull
<1>1. UNCHANGED <<Buffer, In, Out, stored, Num, tmp, stream, sent, answered, raced>>
  BY DEF Find, TestFull, ring
<1>2. /\ Upto' = Upto /\ End(Upto)' = End(Upto) /\ Taken' = Taken
      /\ End(answered)' = End(answered) /\ End(answered + 1)' = End(answered + 1)
  BY <1>1, SameLines DEF Taken
<1>3. Len(stored) \in Nat /\ Num <= Len(stored) /\ Taken = End(answered)
  BY <1>0, RingRoom DEF Bytes, Counted, Unread, Begun
<1>4. Bounds' /\ Stored' /\ Kept' /\ Indices'
  BY <1>1, <1>2 DEF Bytes, Bounds, Stored, Kept, Indices, Behind
<1>5. mpc' \in {"gets", "full", "getc"} /\ Unread' = Unread
  BY <1>0, <1>1 DEF Unread, Find, TestFull
<1>6. Counted'
  BY <1>0, <1>1, <1>5 DEF Bytes, Counted
<1>7. CASE mpc' = "getc"
  <2>1. \E k \in 0..Num - 1 : IsEnd(Buffer[Behind(k)]) \/ Num = Size
    <3>1. CASE Find
      BY <3>1, <1>7 DEF Find, FindDelimiter
    <3>2. CASE TestFull
      <4>1. Num = Size /\ 0 \in 0..Num - 1
        BY <3>2, <1>7, <1>0 DEF TestFull
      <4> QED
        BY <4>1
    <3> QED
      BY <3>1, <3>2
  <2>2. answered < Len(stream.ends) /\ End(answered + 1) <= sent
    BY <2>1, <1>0, BeginKeeps
  <2>3. Num > 0
    BY <2>1, <1>0
  <2>4. End(answered + 1) \in Nat /\ End(answered) \in Nat /\ End(answered) < End(answered + 1)
    BY <2>2, <1>0, EndsGrow
  <2>5. line' = <<>>
    BY DEF Find, TestFull, Bytes, Place
  <2>6. Len(line') = 0
    BY <2>5
  <2>7. Begun' /\ Place'
    BY <2>2, <2>3, <2>4, <2>5, <2>6, <1>1, <1>2, <1>3, <1>7 DEF Begun, Place, Reading
  <2> QED
    BY <2>7, <1>4, <1>6 DEF Bytes
<1>8. CASE mpc' \in {"gets", "full"}
  <2>1. mpc' = "full" => line' = <<>>
    BY DEF Find, TestFull
  <2> QED
    BY <2>1, <1>8, <1>1, <1>2, <1>3, <1>4, <1>6 DEF Bytes, Begun, Place, Reading
<1> QED
  BY <1>5, <1>7, <1>8

\* What the byte just read means for the loop of Gets.
LEMMA LoopEnds ==
  ASSUME TInv, Fits, Bytes, mpc \in {"load", "store"}
  PROVE  /\ AfterByte(line) = "done" => Taken = End(answered + 1)
         /\ AfterByte(line) = "getc" => Taken < End(answered + 1)
<1>0. /\ Size \in Nat /\ stream \in Streams /\ sent \in Nat
      /\ Len(stream.ends) \in Nat /\ answered \in 0..Len(stream.ends) /\ Reading
      /\ Len(line) \in Nat /\ BufSize \in Nat /\ BufSize > Size + 1
  BY RingAssumption, EndsGrow, LenProperties DEF TInv, TypeOK, Reading, Bytes, Bounds
<1>1. /\ answered < Len(stream.ends) /\ Taken <= End(answered + 1) /\ Len(line) >= 1
      /\ Taken = End(answered) + Len(line) /\ line[Len(line)] = End(answered) + Len(line)
  BY <1>0 DEF Bytes, Begun, Place
<1>2. End(answered) \in Nat /\ End(answered + 1) \in Nat
  BY <1>0, <1>1, EndsGrow
<1>3. Len(line) <= Size
  BY <1>0, RingRoom DEF Bytes
<1>4. IsEnd(Taken) => End(answered + 1) <= Taken
  <2>1. Taken \in Nat /\ Taken > End(answered)
    BY <1>0, <1>1, <1>2
  <2> QED
    BY <2>1, <1>0, NextEnd
<1>5. Taken = End(answered + 1) => IsEnd(Taken)
  <2>1. answered + 1 \in 1..Len(stream.ends) /\ answered + 1 # 0
    BY <1>0, <1>1
  <2> QED
    BY <2>1 DEF End, IsEnd
<1>6. AfterByte(line) = IF IsEnd(Taken) THEN "done" ELSE "getc"
  BY <1>0, <1>1, <1>3 DEF AfterByte
<1>7. Taken \in Nat
  BY <1>0, <1>1, <1>2
<1> QED
  BY <1>1, <1>2, <1>4, <1>5, <1>6, <1>7

\* Getc reads the oldest byte; it is never called on an empty ring.
LEMMA GetcKeeps ==
  ASSUME TInv, Fits, Bytes, Getc
  PROVE  Bytes'
<1>0. /\ Size \in Nat /\ Size >= 1 /\ stream \in Streams /\ sent \in Nat /\ Num \in Nat
      /\ In \in 0..Size /\ Out \in 0..Size /\ mpc = "getc" /\ Reading
      /\ Len(stream.ends) \in Nat /\ answered \in 0..Len(stream.ends)
      /\ stored \in Seq(Nat) /\ line \in Seq(Nat) /\ Len(line) \in Nat
  BY RingAssumption, EndsGrow, LenProperties DEF TInv, TypeOK, Reading, Bytes, Bounds, Getc
<1>1. /\ answered < Len(stream.ends) /\ End(answered + 1) <= sent
      /\ Taken < End(answered + 1) /\ Taken = End(answered) + Len(line)
      /\ line = <<>> => Num > 0
  BY <1>0 DEF Bytes, Begun, Place
<1>2. End(answered) \in Nat /\ End(answered + 1) \in Nat /\ Taken \in Nat
  BY <1>0, <1>1, EndsGrow
<1>3. Len(stored) \in Nat /\ Len(stored) >= 1 /\ Len(line) + Len(stored) <= Size
  BY <1>0, <1>1, <1>2, RingRoom DEF Bytes, Taken
<1>4. Num > 0 \/ In # Out
  <2>1. Len(line) = 0 => line = <<>>
    BY <1>0, EmptySeq
  <2> QED
    BY <2>1, <1>0, <1>1, <1>3 DEF Bytes, Indices
<1>5. /\ line' = Append(line, Buffer[Wrap(Out)]) /\ Out' = Wrap(Out) + 1
      /\ stored' = Tail(stored) /\ mpc' = "load"
      /\ UNCHANGED <<Buffer, In, Num, tmp, stream, sent, answered, raced>>
  BY <1>0, <1>3, <1>4, EmptySeq DEF Getc
<1>6. /\ Upto' = Upto /\ End(Upto)' = End(Upto)
      /\ End(answered)' = End(answered) /\ End(answered + 1)' = End(answered + 1)
  BY <1>5, SameLines
<1>7. /\ Len(stored') = Len(stored) - 1
      /\ \A j \in 1..Len(stored) - 1 : stored'[j] = stored[j + 1]
  BY <1>0, <1>3, <1>5, HeadTail, EmptySeq
<1>71. /\ Len(stored') = Len(stored) - 1 /\ Out' = Wrap(Out) + 1
       /\ In' = In /\ sent' = sent
  BY <1>5, <1>7
<1>72. sent \in Nat /\ In \in 0..Size /\ Out \in 0..Size /\ Size \in Nat /\ Size >= 1
  BY <1>0
<1>8. Taken' = Taken + 1
  BY <1>3, <1>71, <1>72 DEF Taken
<1>9. Buffer[Wrap(Out)] = Taken + 1
  <2>1. 1 \in 1..Len(stored) /\ Behind(1 - 1) = Wrap(Out)
    BY <1>0, <1>3 DEF Behind, Wrap
  <2>2. Buffer[Behind(1 - 1)] = stored[1] /\ stored[1] = Taken + 1
    BY <2>1 DEF Bytes, Kept, Stored
  <2> QED
    BY <2>1, <2>2
<1>10. Bounds'
  BY <1>0, <1>2, <1>5, <1>6, <1>8 DEF Bytes, Bounds
<1>11. Stored'
  <2> SUFFICES ASSUME NEW k \in 1..Len(stored)'
               PROVE  stored'[k] = Taken + 1 + k
    BY <1>8 DEF Stored
  <2>1. k \in 1..Len(stored) - 1 /\ k + 1 \in 1..Len(stored) /\ k \in Nat
    BY <1>3, <1>7
  <2>2. stored[k + 1] = Taken + (k + 1)
    BY <2>1 DEF Bytes, Stored
  <2> QED
    BY <2>1, <2>2, <1>2, <1>7
<1>12. Kept'
  <2> SUFFICES ASSUME NEW k \in 1..Len(stored)'
               PROVE  Buffer'[Behind(k - 1)'] = stored'[k]
    BY DEF Kept
  <2>1. k \in 1..Len(stored) - 1 /\ k + 1 \in 1..Len(stored) /\ k \in Nat
    BY <1>3, <1>7
  <2>2. Behind(k - 1)' = Behind((k + 1) - 1)
    BY <2>1, <1>0, <1>3, <1>5 DEF Behind, Wrap
  <2>3. Buffer[Behind((k + 1) - 1)] = stored[k + 1]
    BY <2>1 DEF Bytes, Kept
  <2> QED
    BY <2>1, <2>2, <2>3, <1>5, <1>7
<1>13. Indices'
  <2>1. Indices
    BY DEF Bytes
  <2> QED
    BY <2>1, <1>3, <1>71, <1>72 DEF Indices, Wrap
<1>14. /\ Len(line') = Len(line) + 1
       /\ \A j \in 1..Len(line) : line'[j] = line[j]
       /\ line'[Len(line) + 1] = Taken + 1
  <2>1. Taken + 1 \in Nat
    BY <1>2
  <2> QED
    BY <2>1, <1>0, <1>5, <1>9, Appended
<1>15. Begun'
  <2>1. \A k \in 1..Len(line') : line'[k] = End(answered) + k
    <3> SUFFICES ASSUME NEW k \in 1..Len(line')
                 PROVE  line'[k] = End(answered) + k
      OBVIOUS
    <3>1. CASE k = Len(line) + 1
      BY <3>1, <1>0, <1>1, <1>2, <1>14
    <3>2. CASE k # Len(line) + 1
      <4>1. k \in 1..Len(line)
        BY <3>2, <1>0, <1>14
      <4> QED
        BY <4>1, <1>0, <1>14 DEF Bytes, Begun
    <3> QED
      BY <3>1, <3>2
  <2>2. Taken' <= End(answered + 1) /\ Taken' = End(answered) + Len(line')
    <3>1. Len(line') = Len(line) + 1 /\ Len(line) \in Nat
      BY <1>0, <1>14
    <3>2. Taken < End(answered + 1) /\ Taken = End(answered) + Len(line)
      BY <1>1
    <3> QED
      BY <3>1, <3>2, <1>2, <1>8
  <2> QED
    BY <2>1, <2>2, <1>1, <1>5, <1>6 DEF Begun, Reading
<1>16. Place'
  BY <1>0, <1>5, <1>14 DEF Place
<1>17. Counted'
  <2>1. Unread' = Unread
    BY <1>0, <1>3, <1>5, <1>7 DEF Unread
  <2> QED
    BY <2>1, <1>0, <1>5 DEF Bytes, Counted
<1> QED
  BY <1>10, <1>11, <1>12, <1>13, <1>15, <1>16, <1>17 DEF Bytes

\* "Num--": if an interrupt comes between, Num ends up smaller than it should.
LEMMA LoadKeeps ==
  ASSUME TInv, Fits, Bytes, LoadNum
  PROVE  Bytes'
<1>0. /\ stream \in Streams /\ sent \in Nat /\ Num \in Nat /\ tmp \in Nat
      /\ mpc = "load" /\ Reading
  BY DEF TInv, TypeOK, Reading, LoadNum
<1>1. /\ UNCHANGED <<Buffer, In, Out, stored, Num, line, stream, sent, answered, raced>>
      /\ tmp' = Num /\ mpc' = IF Num = 0 THEN AfterByte(line) ELSE "store"
  BY DEF LoadNum, ring
<1>2. /\ Upto' = Upto /\ End(Upto)' = End(Upto) /\ Taken' = Taken
      /\ End(answered)' = End(answered) /\ End(answered + 1)' = End(answered + 1)
  BY <1>1, SameLines DEF Taken
<1>3. Bounds' /\ Stored' /\ Kept' /\ Indices'
  BY <1>1, <1>2 DEF Bytes, Bounds, Stored, Kept, Indices, Behind
<1>4. mpc' \in {"done", "getc", "store"} /\ (mpc' # "store" => mpc' = AfterByte(line) /\ Num = 0)
  BY <1>1, AfterByteType
<1>5. Begun'
  BY <1>0, <1>1, <1>2, <1>4 DEF Bytes, Begun, Reading
<1>6. Len(line) >= 1 /\ Len(line') = Len(line) /\ line' # <<>>
  BY <1>0, <1>1, EmptySeq DEF Bytes, Place
<1>7. Place'
  BY <1>0, <1>1, <1>2, <1>4, <1>6, LoopEnds DEF Place
<1>8. Counted'
  <2>1. Len(stored) \in Nat /\ Len(stored') = Len(stored)
    BY <1>1, LenProperties DEF TInv, TypeOK
  <2>2. Unread = Len(stored) + 1
    BY <1>0 DEF Unread
  <2>3. Num = 0 \/ mpc' = "store"
    BY <1>1
  <2>4. CASE mpc' = "store"
    <3>1. Unread' = Len(stored) + 1
      BY <2>1, <2>4 DEF Unread
    <3> QED
      BY <3>1, <2>2, <1>0, <1>1 DEF Bytes, Counted
  <2>5. CASE mpc' # "store"
    <3>1. Num = 0 /\ Unread' = Len(stored)
      BY <2>1, <2>3, <2>5, <1>4 DEF Unread
    <3>2. raced
      BY <3>1, <2>1, <2>2 DEF Bytes, Counted
    <3> QED
      BY <3>1, <3>2, <2>1, <2>5, <1>1 DEF Bytes, Counted
  <2> QED
    BY <2>4, <2>5
<1> QED
  BY <1>3, <1>5, <1>7, <1>8 DEF Bytes

LEMMA StoreKeeps ==
  ASSUME TInv, Fits, Bytes, StoreNum
  PROVE  Bytes'
<1>0. /\ stream \in Streams /\ sent \in Nat /\ Num \in Nat /\ tmp \in Nat /\ tmp > 0
      /\ mpc = "store" /\ Reading
  BY DEF TInv, TypeOK, Reading, StoreNum
<1>1. /\ UNCHANGED <<Buffer, In, Out, stored, line, stream, sent, answered>>
      /\ Num' = tmp - 1 /\ raced' = (raced \/ Num # tmp) /\ mpc' = AfterByte(line)
  BY DEF StoreNum, ring
<1>2. /\ Upto' = Upto /\ End(Upto)' = End(Upto) /\ Taken' = Taken
      /\ End(answered)' = End(answered) /\ End(answered + 1)' = End(answered + 1)
  BY <1>1, SameLines DEF Taken
<1>3. Bounds' /\ Stored' /\ Kept' /\ Indices'
  BY <1>1, <1>2 DEF Bytes, Bounds, Stored, Kept, Indices, Behind
<1>4. mpc' \in {"done", "getc"}
  BY <1>1, AfterByteType
<1>5. Begun'
  BY <1>0, <1>1, <1>2, <1>4 DEF Bytes, Begun, Reading
<1>6. Len(line) >= 1 /\ Len(line') = Len(line) /\ line' # <<>>
  BY <1>0, <1>1, EmptySeq DEF Bytes, Place
<1>7. Place'
  BY <1>0, <1>1, <1>2, <1>4, <1>6, LoopEnds DEF Place
<1>8. Counted'
  <2>1. Len(stored) \in Nat /\ Len(stored') = Len(stored)
    BY <1>1, LenProperties DEF TInv, TypeOK
  <2>2. Unread = Len(stored) + 1 /\ Unread' = Len(stored)
    BY <2>1, <1>0, <1>4 DEF Unread
  <2>3. /\ tmp <= Num /\ Num <= Unread /\ (~raced => Num = Unread)
        /\ stream.ahead = 1 => ~raced /\ tmp = Num
    BY <1>0 DEF Bytes, Counted
  <2>4. Num' <= Unread'
    BY <2>1, <2>2, <2>3, <1>0, <1>1
  <2>5. ~raced' => Num' = Unread'
    <3>1. ~raced' => Num = Unread /\ Num = tmp
      BY <2>3, <1>1
    <3>2. Num' = tmp - 1
      BY <1>1
    <3> QED
      BY <3>1, <3>2, <2>1, <2>2, <1>0
  <2>6. stream'.ahead = 1 => ~raced'
    BY <2>3, <1>1
  <2> QED
    BY <2>4, <2>5, <2>6, <1>4 DEF Counted
<1> QED
  BY <1>3, <1>5, <1>7, <1>8 DEF Bytes

LEMMA AnswerKeeps ==
  ASSUME TInv, Fits, Bytes, Answer
  PROVE  Bytes'
<1>0. /\ stream \in Streams /\ sent \in Nat /\ mpc = "done" /\ Reading
      /\ Len(stream.ends) \in Nat /\ answered \in Nat
      /\ answered \in 0..Len(stream.ends) /\ answered + 1 \in 0..Len(stream.ends)
      /\ Taken = End(answered + 1)
  BY EndsGrow DEF TInv, TypeOK, Reading, Answer, Bytes, Bounds, Begun, Place
<1>1. /\ UNCHANGED <<Buffer, In, Out, stored, Num, line, tmp, stream, sent, raced>>
      /\ answered' = answered + 1 /\ mpc' = "gets"
  BY DEF Answer, ring
<1>2. End(answered)' = End(answered + 1) /\ Taken' = Taken /\ Unread' = Unread
  BY <1>0, <1>1 DEF End, Taken, Unread
<1>3. Upto \in 0..Len(stream.ends) /\ Upto' \in 0..Len(stream.ends) /\ Upto <= Upto'
  <2>1. stream.ahead \in Nat \ {0}
    BY <1>0, RingAssumption
  <2> QED
    BY <2>1, <1>0, <1>1 DEF Upto
<1>4. End(Upto)' = End(Upto')
  BY <1>1 DEF End
<1>5. End(Upto) <= End(Upto') /\ End(Upto) \in Nat /\ End(Upto') \in Nat /\ End(answered + 1) \in Nat
  BY <1>0, <1>3, EndsGrow
<1>6. Bounds'
  BY <1>0, <1>1, <1>2, <1>4, <1>5 DEF Bytes, Bounds
<1>7. Stored' /\ Kept' /\ Indices'
  BY <1>1, <1>2 DEF Bytes, Stored, Kept, Indices, Behind
<1>8. Begun' /\ Place'
  BY <1>0, <1>1, <1>2 DEF Begun, Place, Reading
<1>9. Counted'
  BY <1>0, <1>1, <1>2 DEF Bytes, Counted
<1> QED
  BY <1>6, <1>7, <1>8, <1>9 DEF Bytes

-----------------------------------------------------------------------------
(* The invariant, and what the runs check                                  *)

LEMMA RingInit == Init => RInv
<1> SUFFICES ASSUME Init, Fits
             PROVE  Bytes
  BY TypesInit DEF RInv
<1>0. Size \in Nat /\ Len(stream.ends) \in Nat /\ stream \in Streams
  BY RingAssumption, EndsGrow DEF Init
<1>1. Len(stored) = 0 /\ Taken = 0 /\ answered = 0 /\ End(answered) = 0 /\ sent = 0
  <2>1. stored = <<>> /\ answered = 0 /\ sent = 0
    BY DEF Init
  <2>2. Len(stored) = 0 /\ sent = 0
    BY <2>1
  <2>3. Taken = 0
    BY <2>2 DEF Taken
  <2> QED
    BY <2>1, <2>2, <2>3 DEF End
<1>2. 0 <= End(Upto)
  <2>1. Upto \in 0..Len(stream.ends)
    BY <1>0, <1>1, Room
  <2>2. End(Upto) \in Nat
    BY <2>1, <1>0, EndsGrow
  <2> QED
    BY <2>2
<1> QED
  BY <1>0, <1>1, <1>2 DEF Init, Bytes, Bounds, Stored, Kept, Indices, Begun, Place, Counted,
                          Reading, Unread

LEMMA RingStep == RInv /\ [Next]_ringVars => RInv'
<1> SUFFICES ASSUME RInv, [Next]_ringVars
             PROVE  RInv'
  OBVIOUS
<1>1. TInv /\ TInv'
  BY TypesStep DEF RInv
<1>2. stream' = stream
  BY DEF Next, Main, InsertToBuffer, Find, TestFull, Getc, LoadNum, StoreNum, Answer, ringVars, ring
<1>3. Fits' = Fits
  BY <1>2, SameLines
<1>4. ASSUME Fits
      PROVE  Bytes'
  <2>1. Bytes
    BY <1>4 DEF RInv
  <2>2. CASE UNCHANGED ringVars
    <3>1. UNCHANGED <<Buffer, Num, In, Out, mpc, line, tmp, stream, sent, answered, stored, raced>>
      BY <2>2 DEF ringVars, ring
    <3>2. /\ Upto' = Upto /\ End(Upto)' = End(Upto) /\ Taken' = Taken
          /\ End(answered)' = End(answered) /\ End(answered + 1)' = End(answered + 1)
      BY <3>1, SameLines DEF Taken
    <3> QED
      BY <2>1, <3>1, <3>2 DEF Bytes, Bounds, Stored, Kept, Indices, Begun, Place, Counted,
                              Reading, Unread, Behind
  <2> QED
    BY <1>1, <1>4, <2>1, <2>2, InsertKeeps, FindKeeps, GetcKeeps, LoadKeeps, StoreKeeps, AnswerKeeps
       DEF Next, Main
<1> QED
  BY <1>1, <1>3, <1>4 DEF RInv

LEMMA RingInvariant == Spec => []RInv
  BY RingInit, RingStep, PTL DEF Spec

\* No byte is stored over one that was not read, and Getc returns the oldest:
\* for lines that fit, the ring is a queue whatever becomes of Num.
THEOREM AlwaysQueue == Spec => []RingIsQueue
<1>1. RInv => RingIsQueue
  BY RingRoom DEF RInv, Bytes, Kept, RingIsQueue
<1> QED
  BY <1>1, RingInvariant, PTL

\* Every string that Gets returns is the next whole line.
THEOREM AlwaysWhole == Spec => []LinesWhole
<1>1. ASSUME RInv, Fits, mpc = "done"
      PROVE  /\ answered < Len(stream.ends)
             /\ line = [k \in 1..End(answered + 1) - End(answered) |-> End(answered) + k]
  <2>1. /\ answered < Len(stream.ends) /\ Taken = End(answered) + Len(line)
        /\ Taken = End(answered + 1)
        /\ \A k \in 1..Len(line) : line[k] = End(answered) + k
    BY <1>1 DEF RInv, Bytes, Begun, Place, Reading
  <2>2. stream \in Streams /\ line \in Seq(Nat) /\ Len(line) \in Nat
    BY <1>1, LenProperties DEF RInv, TInv, TypeOK
  <2>3. End(answered) \in Nat /\ End(answered + 1) \in Nat
    BY <1>1, <2>1, <2>2, EndsGrow DEF RInv, Bytes, Bounds
  <2>4. Len(line) = End(answered + 1) - End(answered)
    BY <2>1, <2>2, <2>3
  <2>5. line = [k \in 1..Len(line) |-> line[k]]
    BY <2>2, SeqDef, LenProperties
  <2> QED
    BY <2>1, <2>4, <2>5
<1>2. RInv => LinesWhole
  BY <1>1 DEF LinesWhole
<1> QED
  BY <1>2, RingInvariant, PTL

\* Num never promises a byte that is not there, and is exact until an increment
\* is lost, which does not happen to a server that waits for each answer.
THEOREM AlwaysCounts == Spec => []NumCounts
<1>1. RInv => NumCounts
  BY DEF RInv, Bytes, Counted, NumCounts
<1> QED
  BY <1>1, RingInvariant, PTL
=============================================================================
