--------------------------- MODULE FfiCallProofs ---------------------------
(***************************************************************************)
(* For any list of argument types, of any size, the bytes ffi_prep_cif     *)
(* counts are enough for what ffi_prep_args writes.  The argument goes     *)
(* argument by argument: the placing pointer after the first i arguments   *)
(* is at most the count after the first i arguments (FfiInv), because each *)
(* argument moves the count, which stays a multiple of a word, at least as *)
(* far as it moves the pointer (CountCovers).                              *)
(***************************************************************************)
EXTENDS FfiCall, TLAPS

(* The count after the first i arguments.                                  *)
CountedUpTo(i) == IF i = 0 THEN 0 ELSE counted[i]

(* Each entry of the first loop comes from the one before it.              *)
CountInv ==
  /\ Len(counted) <= Len(types)
  /\ \A i \in 1..Len(counted) : counted[i] = CountOne(CountedUpTo(i - 1), types[i])
  /\ \A i \in 1..Len(counted) : counted[i] % Word = 0
  /\ fpc = "count" => bytes = CountedUpTo(Len(counted)) /\ again = 0
  /\ fpc = "machdep" => abi = "WIN64" /\ CountedUpTo(Len(types)) <= bytes
  /\ fpc \in {"machdep", "place", "callee"} => Len(counted) = Len(types)
  /\ fpc \in {"place", "callee"} => Shadow + CountedUpTo(Len(types)) <= bytes

PlaceInv ==
  /\ Len(slots) <= Len(types)
  /\ fpc \in {"idle", "count", "machdep"} => slots = <<>> /\ argp = 0
  /\ argp <= CountedUpTo(Len(slots))
  /\ \A i \in 1..Len(slots) : SlotEnd(i) <= argp
  /\ \A i, j \in 1..Len(slots) : i < j => SlotEnd(i) <= slots[j].at

(* The count grows along the first loop.                                   *)
CountGrows == \A i, j \in 0..Len(counted) : i <= j => CountedUpTo(i) <= CountedUpTo(j)

FfiInv == FfiTypeOK /\ CountInv /\ CountGrows /\ PlaceInv

-----------------------------------------------------------------------------

(* Rounding up reaches a multiple, and never goes down.                    *)
LEMMA AlignUp ==
  ASSUME NEW v \in Nat, NEW a \in {1, 2, 4, 8}
  PROVE  /\ Align(v, a) \in Nat
         /\ v <= Align(v, a)
         /\ Align(v, a) % a = 0
         /\ \A w \in Nat : v <= w /\ w % a = 0 => Align(v, a) <= w
<1>1. CASE a = 1 BY <1>1 DEF Align
<1>2. CASE a = 2 BY <1>2 DEF Align
<1>3. CASE a = 4 BY <1>3 DEF Align
<1>4. CASE a = 8 BY <1>4 DEF Align
<1>5. QED BY <1>1, <1>2, <1>3, <1>4

(* A count that is a multiple of a word stays one, whatever the alignment  *)
(* of the next argument.                                                   *)
LEMMA CountKeepsWords ==
  ASSUME NEW b \in Nat, NEW t \in FfiType, abi \in Abi, b % Word = 0
  PROVE  /\ CountOne(b, t) \in Nat
         /\ b <= CountOne(b, t)
         /\ CountOne(b, t) % Word = 0
         /\ Align(b, t.alignment) % Word = 0
<1>0. t.alignment \in {1, 2, 4, 8} /\ t.size \in Nat BY DEF FfiType
<1>1. Word \in {4, 8} BY DEF Abi, Word
<1>2. Align(b, t.alignment) \in Nat /\ b <= Align(b, t.alignment)
  BY <1>0, AlignUp
<1>3. Align(t.size, Word) \in Nat /\ Align(t.size, Word) % Word = 0
  <2>1. CASE Word = 4 BY <2>1, <1>0 DEF Align
  <2>2. CASE Word = 8 BY <2>2, <1>0 DEF Align
  <2>3. QED BY <1>1, <2>1, <2>2
<1>4. Align(b, t.alignment) % Word = 0
  <2>1. CASE t.alignment = 1 BY <2>1, <1>1 DEF Align
  <2>2. CASE t.alignment = 2 BY <2>2, <1>1 DEF Align
  <2>3. CASE t.alignment = 4 BY <2>3, <1>1 DEF Align
  <2>4. CASE t.alignment = 8 BY <2>4, <1>1 DEF Align
  <2>5. QED BY <1>0, <2>1, <2>2, <2>3, <2>4
<1>5. \A x, y \in Nat : x % Word = 0 /\ y % Word = 0 => (x + y) % Word = 0
  <2>1. CASE Word = 4 BY <2>1
  <2>2. CASE Word = 8 BY <2>2
  <2>3. QED BY <1>1, <2>1, <2>2
<1>6. QED BY <1>2, <1>3, <1>4, <1>5 DEF CountOne

(* One argument takes and moves no more than it was counted for.           *)
LEMMA LengthBounds ==
  ASSUME NEW t \in FfiType, abi \in Abi
  PROVE  /\ Length(t) \in Nat \ {0} /\ Advance(t) \in Nat
         /\ Manner(t) \in {"value", "reference", "extended"}
         /\ Length(t) <= Advance(t)
         /\ Advance(t) <= Align(t.size, Word)
<1>0. t.size \in Nat \ {0} BY DEF FfiType
<1>1. Word \in {4, 8} /\ (abi = "WIN64" <=> Word = 8) BY DEF Abi, Word
<1>2. Manner(t) \in {"value", "reference", "extended"} BY DEF Manner
<1>3. Length(t) \in Nat \ {0} BY <1>0, <1>1 DEF Length
<1>4. Align(t.size, Word) \in Nat /\ t.size <= Align(t.size, Word) /\ Word <= Align(t.size, Word)
  <2>1. Align(t.size, Word) \in Nat /\ t.size <= Align(t.size, Word)
        /\ Align(t.size, Word) % Word = 0
    BY <1>0, <1>1, AlignUp
  <2>2. \A x \in Nat \ {0} : x % Word = 0 => Word <= x
    <3>1. CASE Word = 4 BY <3>1
    <3>2. CASE Word = 8 BY <3>2
    <3>3. QED BY <1>1, <3>1, <3>2
  <2>3. QED BY <2>1, <2>2, <1>0
<1>5. Length(t) <= Align(t.size, Word) BY <1>0, <1>1, <1>4 DEF Length
<1>6. CASE abi = "WIN64"
  <2>1. Advance(t) = Align(Length(t), Word) BY <1>6 DEF Advance
  <2>2. Length(t) <= Advance(t) /\ Advance(t) \in Nat BY <2>1, <1>1, <1>3, AlignUp
  <2>3. Align(t.size, Word) % Word = 0
    BY <1>0, <1>6 DEF Align, Word
  <2>4. Advance(t) <= Align(t.size, Word)
    <3>1. Word = 8 BY <1>1, <1>6
    <3>2. QED BY <2>1, <2>3, <3>1, <1>3, <1>4, <1>5 DEF Align
  <2>5. QED BY <1>2, <1>3, <2>2, <2>4
<1>7. CASE abi # "WIN64" BY <1>2, <1>3, <1>5, <1>7 DEF Advance
<1>8. QED BY <1>6, <1>7

(* The step of the induction: if the pointer is within a count of whole    *)
(* words, it is within the next count after the next argument.             *)
LEMMA CountCovers ==
  ASSUME NEW b \in Nat, NEW p \in Nat, NEW t \in FfiType, abi \in Abi,
         b % Word = 0, p <= b
  PROVE  /\ Align(p, Word) \in Nat /\ p <= Align(p, Word)
         /\ Align(p, Word) + Advance(t) <= CountOne(b, t)
<1>0. t.alignment \in {1, 2, 4, 8} BY DEF FfiType
<1>1. Word \in {1, 2, 4, 8} BY DEF Abi, Word
<1>2. Align(p, Word) \in Nat /\ p <= Align(p, Word) /\ Align(p, Word) <= b
  BY <1>1, AlignUp
<1>3. b <= Align(b, t.alignment) /\ Align(b, t.alignment) \in Nat BY <1>0, AlignUp
<1>4. Advance(t) \in Nat /\ Advance(t) <= Align(t.size, Word) BY LengthBounds
<1>5. Align(t.size, Word) \in Nat BY <1>1, AlignUp DEF FfiType
<1>6. QED BY <1>2, <1>3, <1>4, <1>5 DEF CountOne

-----------------------------------------------------------------------------

LEMMA FfiInitInv == FfiInit => FfiInv
BY DEF FfiInit, FfiInv, FfiTypeOK, FfiType, CountInv, CountGrows, PlaceInv, CountedUpTo, Shadow

LEMMA FfiPrepareInv ==
  ASSUME FfiInv, types' \in Seq(FfiType), FfiPrepare(types')
  PROVE  FfiInv'
BY DEF FfiPrepare, FfiInv, FfiTypeOK, CountInv, CountGrows, PlaceInv, CountedUpTo, Word

LEMMA CountArgumentInv ==
  ASSUME FfiInv, CountArgument
  PROVE  FfiInv'
<1>0. PICK n \in Nat : n = Len(counted) BY DEF FfiInv, FfiTypeOK
<1>1. /\ n + 1 \in 1..Len(types) /\ types[n + 1] \in FfiType
      /\ fpc = "count" /\ bytes = CountedUpTo(n) /\ abi \in Abi
  BY <1>0 DEF FfiInv, FfiTypeOK, CountInv, CountArgument
<1>2. CountedUpTo(n) \in Nat /\ CountedUpTo(n) % Word = 0
  BY <1>0, <1>1 DEF FfiInv, FfiTypeOK, CountInv, CountedUpTo, Abi, Word
<1>3. /\ bytes' \in Nat /\ bytes <= bytes' /\ bytes' % Word = 0
      /\ bytes' = CountOne(CountedUpTo(n), types[n + 1])
  BY <1>0, <1>1, <1>2, CountKeepsWords DEF CountArgument
<1>4. /\ counted' = Append(counted, bytes') /\ counted \in Seq(Nat)
      /\ Len(counted') = n + 1 /\ counted'[n + 1] = bytes'
      /\ \A i \in 1..n : counted'[i] = counted[i]
  BY <1>0, <1>3 DEF FfiInv, FfiTypeOK, CountArgument
<1>5. /\ \A i \in 0..n : CountedUpTo(i)' = CountedUpTo(i)
      /\ CountedUpTo(n + 1)' = bytes'
  BY <1>1, <1>4 DEF CountedUpTo
<1>6. Word' = Word /\ abi' = abi /\ types' = types /\ fpc' = fpc /\ slots' = slots /\ argp' = argp
      /\ again' = again
  BY DEF CountArgument, Word
<1>7. FfiTypeOK' BY <1>3, <1>4, <1>6 DEF FfiInv, FfiTypeOK
<1>8. CountInv'
  <2>1. Len(counted') <= Len(types') BY <1>0, <1>1, <1>4, <1>6
  <2>2. \A i \in 1..Len(counted') : counted'[i] = CountOne(CountedUpTo(i - 1), types[i])'
    <3>1. \A b \in Nat, t \in FfiType : CountOne(b, t)' = CountOne(b, t) BY <1>6 DEF CountOne
    <3> SUFFICES ASSUME NEW i \in 1..(n + 1)
                 PROVE  counted'[i] = CountOne(CountedUpTo(i - 1), types[i])'
      BY <1>4
    <3>2. types[i] \in FfiType /\ i - 1 \in 0..n BY <1>1 DEF FfiInv, FfiTypeOK
    <3>3. CountOne(CountedUpTo(i - 1), types[i])' = CountOne(CountedUpTo(i - 1), types[i])
      BY <1>5, <1>6, <3>2 DEF CountOne
    <3>4. CASE i = n + 1 BY <3>4, <3>3, <1>3, <1>4
    <3>5. CASE i # n + 1 BY <3>5, <3>3, <1>0, <1>1, <1>4 DEF FfiInv, CountInv
    <3>6. QED BY <3>4, <3>5
  <2>3. \A i \in 1..Len(counted') : counted'[i] % Word' = 0
    <3>1. \A i \in 1..n : counted[i] % Word = 0 BY <1>0 DEF FfiInv, CountInv
    <3>2. QED BY <3>1, <1>1, <1>3, <1>4, <1>6
  <2>4. bytes' = CountedUpTo(Len(counted))' /\ again' = 0
    BY <1>1, <1>4, <1>5, <1>6 DEF FfiInv, CountInv
  <2>5. QED BY <1>1, <1>6, <2>1, <2>2, <2>3, <2>4 DEF CountInv
<1>9. CountGrows'
  <2> SUFFICES ASSUME NEW i \in 0..(n + 1), NEW j \in 0..(n + 1), i <= j
               PROVE  CountedUpTo(i)' <= CountedUpTo(j)'
    BY <1>4 DEF CountGrows
  <2>1. \A k \in 0..n : CountedUpTo(k) \in Nat BY <1>0 DEF FfiInv, FfiTypeOK, CountedUpTo
  <2>2. CASE j \in 0..n BY <2>2, <1>0, <1>1, <1>5 DEF FfiInv, CountGrows
  <2>3. CASE j = n + 1 /\ i \in 0..n
    <3>1. CountedUpTo(i) <= CountedUpTo(n) BY <2>3, <1>0, <1>1 DEF FfiInv, CountGrows
    <3>2. QED BY <3>1, <2>1, <2>3, <1>1, <1>3, <1>5
  <2>4. CASE j = n + 1 /\ i = n + 1 BY <2>4, <1>3, <1>5
  <2>5. QED BY <1>1, <2>2, <2>3, <2>4
<1>10. PlaceInv'
  <2>1. slots = <<>> /\ argp = 0 BY <1>1 DEF FfiInv, PlaceInv
  <2>2. CountedUpTo(0)' = 0 BY DEF CountedUpTo
  <2>3. QED BY <2>1, <2>2, <1>6 DEF FfiInv, FfiTypeOK, PlaceInv
<1>11. QED BY <1>7, <1>8, <1>9, <1>10 DEF FfiInv

(* The steps that leave the types and the first loop's counts alone.       *)
LEMMA SameCounts ==
  ASSUME FfiInv, UNCHANGED <<abi, types, counted>>
  PROVE  /\ Word' = Word /\ Shadow' = Shadow /\ CountGrows'
         /\ Len(counted') <= Len(types')
         /\ \A i \in 1..Len(counted') : counted'[i] = CountOne(CountedUpTo(i - 1), types[i])'
         /\ \A i \in 1..Len(counted') : counted'[i] % Word' = 0
         /\ \A i : CountedUpTo(i)' = CountedUpTo(i)
<1>1. Word' = Word /\ Shadow' = Shadow BY DEF Word, Shadow
<1>2. \A i : CountedUpTo(i)' = CountedUpTo(i) BY DEF CountedUpTo
<1>3. CountGrows' BY <1>2 DEF FfiInv, CountGrows
<1>4. \A i \in 1..Len(counted') : counted'[i] = CountOne(CountedUpTo(i - 1), types[i])'
  BY <1>1, <1>2 DEF FfiInv, CountInv, CountOne
<1>5. QED BY <1>1, <1>2, <1>3, <1>4 DEF FfiInv, CountInv

LEMMA EndCountInv ==
  ASSUME FfiInv, EndCount
  PROVE  FfiInv'
<1>1. UNCHANGED <<abi, types, counted>> BY DEF EndCount
<1>2. bytes = CountedUpTo(Len(types)) BY DEF EndCount, FfiInv, CountInv
<1>3. FfiTypeOK' BY DEF EndCount, FfiInv, FfiTypeOK
<1>4. fpc' = "place" => Shadow' = 0 BY DEF EndCount, Shadow
<1>5. fpc' = "machdep" => abi' = "WIN64" BY DEF EndCount
<1>6. CountInv'
  BY <1>1, <1>2, <1>3, <1>4, <1>5, SameCounts DEF EndCount, CountInv, FfiTypeOK
<1>7. PlaceInv'
  BY <1>1, SameCounts DEF EndCount, FfiInv, PlaceInv, SlotEnd
<1>8. QED BY <1>1, <1>3, <1>6, <1>7, SameCounts DEF FfiInv

LEMMA CountAgainInv ==
  ASSUME FfiInv, CountAgain
  PROVE  FfiInv'
<1>1. UNCHANGED <<abi, types, counted>> BY DEF CountAgain
<1>2. types[again + 1] \in FfiType /\ bytes \in Nat /\ abi \in Abi /\ again + 1 \in 0..Len(types)
  BY DEF CountAgain, FfiInv, FfiTypeOK
<1>3. bytes' \in Nat /\ bytes <= bytes'
  <2>1. /\ Align(bytes, types[again + 1].alignment) \in Nat
        /\ bytes <= Align(bytes, types[again + 1].alignment)
    BY <1>2, AlignUp DEF FfiType
  <2>2. Align(types[again + 1].size, Word) \in Nat
    BY <1>2, AlignUp DEF FfiType, Word
  <2>3. QED BY <1>2, <2>1, <2>2 DEF CountAgain, CountOne
<1>4. FfiTypeOK' BY <1>2, <1>3 DEF CountAgain, FfiInv, FfiTypeOK
<1>5. CountedUpTo(Len(types)) \in Nat
  BY DEF CountAgain, FfiInv, FfiTypeOK, CountInv, CountedUpTo
<1>6. CountInv'
  BY <1>1, <1>2, <1>3, <1>5, SameCounts DEF CountAgain, FfiInv, CountInv
<1>7. PlaceInv'
  BY <1>1, SameCounts DEF CountAgain, FfiInv, PlaceInv, SlotEnd
<1>8. QED BY <1>1, <1>4, <1>6, <1>7, SameCounts DEF FfiInv

LEMMA EndMachdepInv ==
  ASSUME FfiInv, EndMachdep
  PROVE  FfiInv'
<1>1. UNCHANGED <<abi, types, counted>> BY DEF EndMachdep
<1>2. Word = 8 /\ Shadow = 32 /\ bytes \in Nat /\ CountedUpTo(Len(types)) <= bytes
      /\ Len(counted) = Len(types) /\ types \in Seq(FfiType)
  BY DEF EndMachdep, FfiInv, FfiTypeOK, CountInv, Word, Shadow
<1>3. CountedUpTo(Len(types)) \in Nat
  BY DEF EndMachdep, FfiInv, FfiTypeOK, CountInv, CountedUpTo
<1>4. bytes' = bytes + 32 /\ fpc' = "place" BY <1>2 DEF EndMachdep
<1>5. FfiTypeOK' BY <1>2, <1>4 DEF EndMachdep, FfiInv, FfiTypeOK
<1>6. CountInv'
  BY <1>1, <1>2, <1>3, <1>4, SameCounts DEF EndMachdep, CountInv
<1>7. PlaceInv'
  BY <1>1, SameCounts DEF EndMachdep, FfiInv, PlaceInv, SlotEnd
<1>8. QED BY <1>1, <1>5, <1>6, <1>7, SameCounts DEF FfiInv

LEMMA SlotEndNat ==
  ASSUME FfiTypeOK, NEW i \in 1..Len(slots)
  PROVE  slots[i].at \in Nat /\ slots[i].len \in Nat /\ SlotEnd(i) \in Nat
<1>1. slots[i] \in Slot BY DEF FfiTypeOK
<1>2. QED BY <1>1 DEF Slot, SlotEnd

LEMMA PlaceArgumentInv ==
  ASSUME FfiInv, PlaceArgument
  PROVE  FfiInv'
<1>0. PICK n \in Nat : n = Len(slots) BY DEF FfiInv, FfiTypeOK
<1> DEFINE t == types[n + 1]
           at == Align(argp, Word)
<1>1. UNCHANGED <<abi, types, counted, bytes, again>> /\ fpc = "place" /\ fpc' = "place"
  BY DEF PlaceArgument
<1>2. /\ n + 1 \in 1..Len(types) /\ t \in FfiType /\ abi \in Abi
      /\ Len(counted) = Len(types) /\ slots \in Seq(Slot)
  BY <1>0, <1>1 DEF FfiInv, FfiTypeOK, CountInv, PlaceInv, PlaceArgument
<1>3. argp \in Nat /\ CountedUpTo(n) \in Nat /\ CountedUpTo(n) % Word = 0 /\ argp <= CountedUpTo(n)
  <2>1. argp \in Nat /\ argp <= CountedUpTo(n) BY <1>0 DEF FfiInv, FfiTypeOK, PlaceInv
  <2>2. CASE n = 0 BY <2>1, <2>2, <1>2 DEF CountedUpTo, Abi, Word
  <2>3. CASE n # 0
    <3>1. n \in 1..Len(counted) /\ CountedUpTo(n) = counted[n] BY <2>3, <1>2 DEF CountedUpTo
    <3>2. QED BY <2>1, <3>1 DEF FfiInv, FfiTypeOK, CountInv
  <2>4. QED BY <2>2, <2>3
<1>4. at \in Nat /\ argp <= at /\ at + Advance(t) <= CountOne(CountedUpTo(n), t)
  BY <1>2, <1>3, CountCovers
<1>5. CountOne(CountedUpTo(n), t) = CountedUpTo(n + 1)
  BY <1>2 DEF FfiInv, CountInv, CountedUpTo
<1>6. /\ Length(t) \in Nat \ {0} /\ Advance(t) \in Nat /\ Length(t) <= Advance(t)
      /\ Manner(t) \in {"value", "reference", "extended"}
  BY <1>2, LengthBounds
<1> DEFINE slot == [at |-> at, len |-> Length(t), by |-> Manner(t)]
<1>7. slot \in Slot BY <1>4, <1>6 DEF Slot
<1>8. slots' = Append(slots, slot) /\ argp' = at + Advance(t) BY <1>0 DEF PlaceArgument
<1> HIDE DEF slot
<1>9. /\ Len(slots') = n + 1 /\ slots'[n + 1] = slot
      /\ \A i \in 1..n : slots'[i] = slots[i]
      /\ slots' \in Seq(Slot)
  BY <1>0, <1>2, <1>7, <1>8
<1>10. argp' \in Nat /\ argp <= argp' /\ slot.at + slot.len <= argp' /\ argp <= slot.at
  BY <1>3, <1>4, <1>6, <1>8 DEF slot
<1>11. FfiTypeOK' BY <1>1, <1>9, <1>10 DEF FfiInv, FfiTypeOK
<1>12. CountInv' BY <1>1, SameCounts DEF FfiInv, CountInv
<1>13. PlaceInv'
  <2>1. \A i \in 1..n : SlotEnd(i) \in Nat /\ SlotEnd(i) <= argp
    <3>1. \A i \in 1..n : SlotEnd(i) <= argp BY <1>0 DEF FfiInv, PlaceInv
    <3>2. QED BY <3>1, <1>0, SlotEndNat DEF FfiInv
  <2>2. \A i \in 1..n : SlotEnd(i)' = SlotEnd(i) BY <1>9 DEF SlotEnd
  <2>3. SlotEnd(n + 1)' = slot.at + slot.len BY <1>9 DEF SlotEnd
  <2>4. \A i \in 1..Len(slots') : SlotEnd(i)' <= argp'
    BY <1>2, <1>3, <1>9, <1>10, <2>1, <2>2, <2>3
  <2>5. \A i, j \in 1..Len(slots') : i < j => SlotEnd(i)' <= slots'[j].at
    <3> SUFFICES ASSUME NEW i \in 1..(n + 1), NEW j \in 1..(n + 1), i < j
                 PROVE  SlotEnd(i)' <= slots'[j].at
      BY <1>9
    <3>1. i \in 1..n BY <1>2
    <3>2. CASE j \in 1..n BY <3>1, <3>2, <2>2, <1>0, <1>9 DEF FfiInv, PlaceInv
    <3>3. CASE j = n + 1
      <4>1. slot.at \in Nat BY <1>7 DEF Slot
      <4>2. QED BY <4>1, <3>1, <3>3, <2>1, <2>2, <1>3, <1>9, <1>10
    <3>4. QED BY <1>2, <3>2, <3>3
  <2>6. argp' <= CountedUpTo(n + 1)' BY <1>1, <1>4, <1>5, <1>8, SameCounts
  <2>7. QED BY <1>1, <1>2, <1>9, <2>4, <2>5, <2>6 DEF PlaceInv
<1>14. QED BY <1>1, <1>11, <1>12, <1>13, SameCounts DEF FfiInv

LEMMA EnterCalleeInv ==
  ASSUME FfiInv, EnterCallee
  PROVE  FfiInv'
<1>1. UNCHANGED <<abi, types, counted>> BY DEF EnterCallee
<1>2. FfiTypeOK' BY DEF EnterCallee, FfiInv, FfiTypeOK
<1>3. CountInv' BY <1>1, SameCounts DEF EnterCallee, FfiInv, CountInv
<1>4. PlaceInv' BY <1>1, SameCounts DEF EnterCallee, FfiInv, PlaceInv, SlotEnd
<1>5. QED BY <1>1, <1>2, <1>3, <1>4, SameCounts DEF FfiInv

LEMMA FfiReturnInv ==
  ASSUME FfiInv, FfiReturn
  PROVE  FfiInv'
BY DEF FfiReturn, FfiInv, FfiTypeOK, CountInv, CountGrows, PlaceInv, CountedUpTo, Word

LEMMA FfiStutterInv ==
  ASSUME FfiInv, UNCHANGED ffiVars
  PROVE  FfiInv'
<1>1. UNCHANGED <<abi, types, counted>> BY DEF ffiVars
<1>2. FfiTypeOK' BY DEF ffiVars, FfiInv, FfiTypeOK
<1>3. CountInv' BY <1>1, SameCounts DEF ffiVars, FfiInv, CountInv
<1>4. PlaceInv' BY <1>1, SameCounts DEF ffiVars, FfiInv, PlaceInv, SlotEnd
<1>5. QED BY <1>1, <1>2, <1>3, <1>4, SameCounts DEF FfiInv

LEMMA FfiStepInv == FfiInv /\ [FfiNext]_ffiVars => FfiInv'
<1> SUFFICES ASSUME FfiInv, [FfiNext]_ffiVars PROVE FfiInv'
  OBVIOUS
<1>1. CASE types' \in Seq(FfiType) /\ FfiPrepare(types') BY <1>1, FfiPrepareInv
<1>2. CASE CountArgument BY <1>2, CountArgumentInv
<1>3. CASE EndCount BY <1>3, EndCountInv
<1>4. CASE CountAgain BY <1>4, CountAgainInv
<1>5. CASE EndMachdep BY <1>5, EndMachdepInv
<1>6. CASE PlaceArgument BY <1>6, PlaceArgumentInv
<1>7. CASE EnterCallee BY <1>7, EnterCalleeInv
<1>8. CASE FfiReturn BY <1>8, FfiReturnInv
<1>9. CASE UNCHANGED ffiVars BY <1>9, FfiStutterInv
<1>10. QED BY <1>1, <1>2, <1>3, <1>4, <1>5, <1>6, <1>7, <1>8, <1>9 DEF FfiNext, FfiStep

(* The counts and the placing pointer stay related as described above.     *)
THEOREM FfiInvariant == FfiSpec => []FfiInv
BY FfiInitInv, FfiStepInv, PTL DEF FfiSpec

LEMMA FfiInvFrame == FfiInv => ArgumentsWithinFrame
<1> SUFFICES ASSUME FfiInv PROVE ArgumentsWithinFrame
  OBVIOUS
<1>1. \A i, j \in 1..Len(slots) : i < j => SlotEnd(i) <= slots[j].at
  BY DEF FfiInv, PlaceInv
<1>2. ASSUME NEW i \in 1..Len(slots)
      PROVE  Shadow + SlotEnd(i) <= bytes
  <2>1. fpc \in {"place", "callee"} BY <1>2 DEF FfiInv, FfiTypeOK, PlaceInv
  <2>2. /\ Len(slots) \in 0..Len(counted) /\ Len(counted) = Len(types) /\ Len(counted) \in Nat
        /\ counted \in Seq(Nat) /\ bytes \in Nat /\ argp \in Nat
    BY <2>1 DEF FfiInv, FfiTypeOK, PlaceInv, CountInv
  <2>3. CountedUpTo(Len(slots)) <= CountedUpTo(Len(types))
    BY <2>2 DEF FfiInv, CountGrows
  <2>4. CountedUpTo(Len(slots)) \in Nat /\ CountedUpTo(Len(types)) \in Nat
    BY <2>2 DEF CountedUpTo
  <2>5. SlotEnd(i) \in Nat /\ SlotEnd(i) <= argp /\ argp <= CountedUpTo(Len(slots))
    BY SlotEndNat DEF FfiInv, PlaceInv
  <2>6. Shadow \in Nat /\ Shadow + CountedUpTo(Len(types)) <= bytes
    BY <2>1 DEF FfiInv, CountInv, Shadow
  <2>7. QED BY <2>2, <2>3, <2>4, <2>5, <2>6
<1>3. QED BY <1>1, <1>2 DEF ArgumentsWithinFrame

(* Each argument is one width behind the one before it, in its manner, and *)
(* the callee is only entered when all of them are in place.               *)
NextPlace(k) == IF k = 0 THEN 0 ELSE slots[k].at + Width(types[k])
PlacedInv ==
  /\ \A i \in 1..Len(slots) : slots[i].at = NextPlace(i - 1) /\ slots[i].by = Manner(types[i])
  /\ Align(argp, Word) = NextPlace(Len(slots))
  /\ fpc = "callee" => Len(slots) = Len(types)

(* However an argument is handed over, it moves the pointer by one width.  *)
LEMMA AdvanceIsWidth ==
  ASSUME NEW at \in Nat, NEW t \in FfiType, abi \in Abi, at % Word = 0
  PROVE  Align(at + Advance(t), Word) = at + Width(t)
<1>0. t.size \in Nat \ {0} BY DEF FfiType
<1>1. CASE abi = "WIN64"
  <2>1. Word = 8 BY <1>1 DEF Word
  <2>2. Length(t) \in 1..8 BY <1>0, <1>1, <2>1 DEF Length, Manner
  <2>3. Advance(t) = 8 BY <1>1, <2>1, <2>2 DEF Advance, Align
  <2>4. QED BY <1>1, <2>1, <2>3 DEF Align, Width
<1>2. CASE abi = "STDCALL"
  <2>1. Word = 4 BY <1>2 DEF Word
  <2>2. Advance(t) = IF t.size < 4 THEN 4 ELSE t.size
    BY <1>0, <1>2, <2>1 DEF Advance, Length, Manner
  <2>3. Width(t) = Align(t.size, 4) BY <1>2 DEF Width
  <2>4. CASE t.size < 4
    BY <1>0, <2>1, <2>2, <2>3, <2>4 DEF Align
  <2>5. CASE t.size >= 4
    <3>1. (at + t.size) % 4 = t.size % 4 BY <1>0, <2>1
    <3>2. QED BY <1>0, <2>1, <2>2, <2>3, <2>5, <3>1 DEF Align
  <2>6. QED BY <1>0, <2>4, <2>5
<1>3. QED BY <1>1, <1>2 DEF Abi

LEMMA PlaceArgumentInOrder ==
  ASSUME FfiInv, PlacedInv, PlaceArgument
  PROVE  PlacedInv'
<1>0. PICK k \in Nat : k = Len(slots) BY DEF FfiInv, FfiTypeOK
<1> DEFINE t == types[k + 1]
           at == Align(argp, Word)
           slot == [at |-> at, len |-> Length(t), by |-> Manner(t)]
<1>1. /\ UNCHANGED <<abi, types>> /\ fpc' = "place"
      /\ slots' = Append(slots, slot) /\ argp' = at + Advance(t)
  BY <1>0 DEF PlaceArgument
<1>2. t \in FfiType /\ abi \in Abi /\ argp \in Nat /\ slots \in Seq(Slot)
  BY <1>0 DEF FfiInv, FfiTypeOK, PlaceInv, PlaceArgument
<1>3. at \in Nat /\ at % Word = 0
  BY <1>2, AlignUp DEF Abi, Word
<1>4. Align(argp', Word) = at + Width(t)
  BY <1>1, <1>2, <1>3, AdvanceIsWidth
<1> HIDE DEF slot, at, t
<1>5. /\ Len(slots') = k + 1 /\ slots'[k + 1] = slot
      /\ \A i \in 1..k : slots'[i] = slots[i]
  BY <1>0, <1>1, <1>2
<1>6. slot.at = at /\ slot.by = Manner(t) /\ t = types[k + 1]
  BY DEF slot, t
<1>7. Word' = Word /\ (\A u : Manner(u)' = Manner(u) /\ Width(u)' = Width(u))
  BY <1>1 DEF Word, Manner, Width, OddStruct
<1>8. at = NextPlace(k)
  BY <1>0 DEF PlacedInv, at
<1>9. \A i \in 0..k : NextPlace(i)' = NextPlace(i)
  BY <1>1, <1>5, <1>7 DEF NextPlace
<1>10. NextPlace(k + 1)' = at + Width(t)
  BY <1>0, <1>1, <1>5, <1>6, <1>7 DEF NextPlace
<1>11. \A i \in 1..(k + 1) : slots'[i].at = NextPlace(i - 1)' /\ slots'[i].by = Manner(types[i])'
  <2> SUFFICES ASSUME NEW i \in 1..(k + 1)
               PROVE  slots'[i].at = NextPlace(i - 1)' /\ slots'[i].by = Manner(types[i])'
    OBVIOUS
  <2>1. i - 1 \in 0..k /\ NextPlace(i - 1)' = NextPlace(i - 1)
    BY <1>0, <1>9
  <2>2. Manner(types[i])' = Manner(types[i])
    BY <1>1, <1>7
  <2>3. CASE i \in 1..k
    BY <1>0, <1>5, <2>1, <2>2, <2>3 DEF PlacedInv
  <2>4. CASE i = k + 1
    <3>1. i - 1 = k BY <1>0, <2>4
    <3>2. QED BY <1>5, <1>6, <1>8, <2>1, <2>2, <2>4, <3>1
  <2>5. QED BY <1>0, <2>3, <2>4
<1>12. Align(argp', Word') = NextPlace(k + 1)'
  BY <1>4, <1>7, <1>10
<1>13. Align(argp, Word)' = Align(argp', Word') BY DEF Align
<1>14. QED BY <1>1, <1>5, <1>11, <1>12, <1>13 DEF PlacedInv

LEMMA PlacedStep == FfiInv /\ PlacedInv /\ [FfiNext]_ffiVars => PlacedInv'
<1> SUFFICES ASSUME FfiInv, PlacedInv, [FfiNext]_ffiVars PROVE PlacedInv'
  OBVIOUS
<1>1. CASE UNCHANGED <<abi, types, argp, slots>> /\ (fpc' = "callee" => Len(slots) = Len(types))
  BY <1>1 DEF PlacedInv, NextPlace, Width, Manner, OddStruct, Word, Align
<1>2. CASE slots' = <<>> /\ argp' = 0 /\ fpc' # "callee" /\ abi' \in Abi
  BY <1>2 DEF PlacedInv, NextPlace, Word, Align, Abi
<1>3. CASE types' \in Seq(FfiType) /\ FfiPrepare(types')
  BY <1>2, <1>3 DEF FfiPrepare, FfiInv, FfiTypeOK
<1>4. CASE FfiReturn BY <1>2, <1>4 DEF FfiReturn, FfiInv, FfiTypeOK
<1>5. CASE PlaceArgument BY <1>5, PlaceArgumentInOrder
<1>6. CASE UNCHANGED ffiVars BY <1>1, <1>6 DEF ffiVars, PlacedInv
<1>7. CASE CountArgument \/ EndCount \/ CountAgain \/ EndMachdep \/ EnterCallee
  BY <1>1, <1>7 DEF CountArgument, EndCount, CountAgain, EndMachdep, EnterCallee
<1>8. QED BY <1>3, <1>4, <1>5, <1>6, <1>7 DEF FfiNext, FfiStep

(* The arguments lie where the calling convention of the build has them:   *)
(* in order, each one width behind the last.                               *)
THEOREM FfiOrder == FfiSpec => []PlacedInv
<1>1. FfiInit => PlacedInv
  BY DEF FfiInit, PlacedInv, NextPlace, Word, Align, Abi
<1>2. QED BY <1>1, FfiInvariant, PlacedStep, PTL DEF FfiSpec

(* libffi's two loops agree for every list of arguments: what is written   *)
(* fits in what was counted, on both builds.                               *)
THEOREM FfiFrame == FfiSpec => []ArgumentsWithinFrame
BY FfiInvariant, FfiInvFrame, PTL

=============================================================================
