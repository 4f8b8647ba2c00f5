---------------------------- MODULE HashMathProofs ----------------------------
(***************************************************************************)
(* The loop invariant of hash_math_add_bytes, for every base and width.    *)
(***************************************************************************)
EXTENDS HashMathLoop, SequenceTheorems, WellFoundedInduction, TLAPS

(* What one iteration does to a byte: the low byte and the carry make up   *)
(* the sum, and the carry stays a bit.                                     *)
LEMMA SumSplits ==
    ASSUME NEW a \in Byte, NEW b \in Byte, NEW c \in {0, 1}
    PROVE  LET sum == a + c + b IN
           /\ LowByte(sum) \in Byte
           /\ CarryOf(sum) \in {0, 1}
           /\ sum = LowByte(sum) + ByteBase * CarryOf(sum)
BY ByteBaseAssumption DEF LowByte, CarryOf, Byte

CarryIsBit == pc = "adding" => carry \in {0, 1}

LEMMA InitialTypes == Init => TypeOK
BY WidthAssumption DEF Init, TypeOK, NothingYet

(* The byte of the addend is one, inside the addend or past its end. *)
LEMMA AddendByteIsByte == ASSUME TypeOK PROVE AddendByte \in Byte
BY ByteBaseAssumption DEF TypeOK, AddendByte, Byte

LEMMA TypesStep == TypeOK /\ CarryIsBit /\ [Next]_vars => TypeOK' /\ CarryIsBit'
<1> SUFFICES ASSUME TypeOK, CarryIsBit, [Next]_vars
             PROVE  TypeOK' /\ CarryIsBit'
  OBVIOUS
<1>1. CASE UNCHANGED vars BY <1>1 DEF vars, TypeOK, CarryIsBit
<1>2. CASE CallAdd
  BY <1>2, WidthAssumption, AddendsAssumption
  DEF CallAdd, NothingYet, TypeOK, CarryIsBit
<1>3. CASE AddByte
  <2>1. value_index \in 1..Width /\ value[value_index] \in Byte
    BY <1>3, WidthAssumption DEF AddByte, TypeOK, Values
  <2>2. AddendByte \in Byte /\ carry \in {0, 1}
    BY <1>3, AddendByteIsByte DEF AddByte, CarryIsBit
  <2>3. LowByte(Sum) \in Byte /\ CarryOf(Sum) \in {0, 1}
    BY <2>1, <2>2, SumSplits DEF Sum
  <2>4. value' \in Values
    BY <1>3, <2>1, <2>3 DEF AddByte, TypeOK, Values
  <2>5. low' \in [value : Nat, addend : Nat, result : Nat, weight : Nat]
    <3>1. Byte \subseteq Nat /\ ByteBase \in Nat
      BY ByteBaseAssumption DEF Byte
    <3>2. \A k, m, n \in Nat : k + m * n \in Nat /\ m * n \in Nat OBVIOUS
    <3>3. /\ low.value \in Nat /\ low.addend \in Nat
          /\ low.result \in Nat /\ low.weight \in Nat
      BY DEF TypeOK
    <3>4. /\ low.value + low.weight * value[value_index] \in Nat
          /\ low.addend + low.weight * AddendByte \in Nat
          /\ low.result + low.weight * LowByte(Sum) \in Nat
          /\ low.weight * ByteBase \in Nat
      BY <2>1, <2>2, <2>3, <3>1, <3>2, <3>3
    <3> QED BY <1>3, <3>4 DEF AddByte
  <2>6. value_index' \in 0..Width /\ addend_index' \in 0..Len(addend)
    BY <1>3, <2>1, WidthAssumption DEF AddByte, TypeOK
  <2> QED BY <1>3, <2>3, <2>4, <2>5, <2>6 DEF AddByte, TypeOK, CarryIsBit
<1>4. CASE AddReturns BY <1>4 DEF AddReturns, TypeOK, CarryIsBit
<1>5. CASE CallIncrement
  <2>1. <<1>> \in Seq(Byte) BY ByteBaseAssumption DEF Byte
  <2> QED
    BY <1>5, <2>1, WidthAssumption DEF CallIncrement, TypeOK, CarryIsBit
<1>6. CASE IncrementByte
  <2>1. value_index \in 1..Width /\ value[value_index] \in Nat
    BY <1>6, WidthAssumption DEF IncrementByte, TypeOK, Values, Byte
  <2>2. (value[value_index] + 1) % ByteBase \in Byte
    BY <2>1, ByteBaseAssumption DEF Byte
  <2>3. value' \in Values
    BY <1>6, <2>1, <2>2 DEF IncrementByte, TypeOK, Values
  <2>4. /\ value_index' \in 0..Width
        /\ pc' \in {"idle", "incrementing"}
        /\ pc' = "incrementing" => value_index' > 0
    BY <1>6, <2>1, WidthAssumption DEF IncrementByte
  <2> QED BY <1>6, <2>3, <2>4 DEF IncrementByte, TypeOK, CarryIsBit
<1> QED BY <1>1, <1>2, <1>3, <1>4, <1>5, <1>6 DEF Next

(* The arrays keep their width and their elements stay bytes. *)
THEOREM TypeCorrect == Spec => []TypeOK
<1>1. Init => CarryIsBit BY DEF Init, CarryIsBit
<1> QED BY <1>1, InitialTypes, TypesStep, PTL DEF Spec

(* The invariant of the loop, with the factors the step multiplies by.     *)
LEMMA SumAdvances ==
    ASSUME NEW v \in Nat, NEW a \in Nat, NEW r \in Nat, NEW w \in Nat,
           NEW c \in Nat, NEW x \in Nat, NEW y \in Nat, NEW base \in Nat,
           NEW byte \in Nat, NEW carried \in Nat,
           r + w * c = v + a,
           x + c + y = byte + base * carried
    PROVE  (r + w * byte) + (w * base) * carried = (v + w * x) + (a + w * y)
<1>1. w * (x + c + y) = w * (byte + base * carried) OBVIOUS
<1>2. w * (x + c + y) = w * x + w * c + w * y OBVIOUS
<1>3. w * (byte + base * carried) = w * byte + (w * base) * carried OBVIOUS
<1> DEFINE wx == w * x
           wc == w * c
           wy == w * y
           wb == w * byte
           wbc == (w * base) * carried
<1>4. wx \in Nat /\ wc \in Nat /\ wy \in Nat /\ wb \in Nat /\ wbc \in Nat
  OBVIOUS
<1>5. wx + wc + wy = wb + wbc BY <1>1, <1>2, <1>3
<1> HIDE DEF wx, wc, wy, wb, wbc
<1>6. r + wb + wbc = v + wx + (a + wy)
  <2>1. r + wc = v + a BY DEF wc
  <2> QED BY <1>4, <1>5, <2>1
<1> QED BY <1>6 DEF wx, wy, wb, wbc

LEMMA PartialSumStep ==
    TypeOK /\ CarryIsBit /\ PartialSum /\ [Next]_vars => PartialSum'
<1> SUFFICES ASSUME TypeOK, CarryIsBit, PartialSum, [Next]_vars
             PROVE  PartialSum'
  OBVIOUS
<1>1. CASE UNCHANGED vars BY <1>1 DEF vars, PartialSum
<1>2. CASE CallAdd BY <1>2 DEF CallAdd, NothingYet, PartialSum
<1>3. CASE AddByte
  <2>1. value_index \in 1..Width /\ value[value_index] \in Byte
    BY <1>3, WidthAssumption DEF AddByte, TypeOK, Values
  <2>2. AddendByte \in Byte /\ carry \in {0, 1}
    BY <1>3, AddendByteIsByte DEF AddByte, CarryIsBit
  <2>3. /\ LowByte(Sum) \in Byte
        /\ CarryOf(Sum) \in {0, 1}
        /\ Sum = LowByte(Sum) + ByteBase * CarryOf(Sum)
    BY <2>1, <2>2, SumSplits DEF Sum
  <2>4. Byte \subseteq Nat /\ ByteBase \in Nat BY ByteBaseAssumption DEF Byte
  <2>5. low.result + low.weight * carry = low.value + low.addend
    BY <1>3 DEF AddByte, PartialSum
  <2>6. (low.result + low.weight * LowByte(Sum))
          + (low.weight * ByteBase) * CarryOf(Sum)
        = (low.value + low.weight * value[value_index])
          + (low.addend + low.weight * AddendByte)
    <3>1. /\ low.value \in Nat /\ low.addend \in Nat
          /\ low.result \in Nat /\ low.weight \in Nat
      BY DEF TypeOK
    <3>2. value[value_index] + carry + AddendByte
            = LowByte(Sum) + ByteBase * CarryOf(Sum)
      BY <2>3 DEF Sum
    <3>3. /\ value[value_index] \in Nat /\ AddendByte \in Nat
          /\ LowByte(Sum) \in Nat /\ ByteBase \in Nat
      BY <2>1, <2>2, <2>3, <2>4
    <3>4. carry \in Nat /\ CarryOf(Sum) \in Nat
      <4> {0, 1} \subseteq Nat OBVIOUS
      <4> QED BY <2>2, <2>3
    <3> DEFINE v == low.value   a == low.addend   r == low.result
               w == low.weight  x == value[value_index]  y == AddendByte
               byte == LowByte(Sum)  carried == CarryOf(Sum)
    <3>5. /\ v \in Nat /\ a \in Nat /\ r \in Nat /\ w \in Nat /\ x \in Nat
          /\ y \in Nat /\ byte \in Nat /\ carried \in Nat
          /\ r + w * carry = v + a
          /\ x + carry + y = byte + ByteBase * carried
      BY <2>5, <3>1, <3>2, <3>3, <3>4
    <3> HIDE DEF v, a, r, w, x, y, byte, carried
    <3>6. (r + w * byte) + (w * ByteBase) * carried = (v + w * x) + (a + w * y)
      BY <3>3, <3>4, <3>5, SumAdvances
    <3> QED BY <3>6 DEF v, a, r, w, x, y, byte, carried
  <2> QED BY <1>3, <2>3, <2>6 DEF AddByte, PartialSum
<1>4. CASE AddReturns \/ CallIncrement \/ IncrementByte
  BY <1>4 DEF AddReturns, CallIncrement, IncrementByte, PartialSum
<1> QED BY <1>1, <1>2, <1>3, <1>4 DEF Next

(* Whatever the width, the base and the length of the addend, the bytes    *)
(* written and the carry are the sum of the bytes read, and the carry is a *)
(* bit: the 16-bit sum of the loop cannot overflow.                        *)
THEOREM LoopInvariant == Spec => []PartialSum
<1>1. Init => CarryIsBit /\ PartialSum BY DEF Init, CarryIsBit, PartialSum
<1> QED BY <1>1, InitialTypes, TypesStep, PartialSumStep, PTL DEF Spec

-----------------------------------------------------------------------------
(* Recursive functions.  Induction is over a set of numbers: the provers   *)
(* cannot instantiate the library's principle, whose parameter is an       *)
(* operator.                                                               *)

LEMMA SetInduction ==
    ASSUME NEW S, 0 \in S, \A n \in Nat : n \in S => n + 1 \in S
    PROVE  Nat \subseteq S
<1> SUFFICES ASSUME Nat \ S # {} PROVE FALSE OBVIOUS
<1> DEFINE less == OpToRel(<, Nat)
<1>1. IsWellFoundedOn(less, Nat) BY NatLessThanWellFounded
<1>2. \A m, n \in Nat : m < n => <<m, n>> \in less BY DEF OpToRel
<1> HIDE DEF less
<1>3. PICK n \in Nat \ S : \A m \in Nat \ S : ~(<<m, n>> \in less)
  BY <1>1, WFMin
<1>4. n - 1 \in Nat /\ n - 1 < n BY <1>3
<1>5. n - 1 \in S BY <1>2, <1>3, <1>4
<1> QED BY <1>3, <1>4, <1>5

(* The numbers f[0] .. f[n] begin with first and follow by the step G. *)
Follows(f, first, G, n) ==
    \A k \in 0 .. n : f[k] = IF k = 0 THEN first ELSE G[<<k, f[k - 1]>>]

(* Whatever the first number and the step, such numbers exist. *)
LEMMA RecursionExists ==
    ASSUME NEW G \in [Nat \X Nat -> Nat], NEW first \in Nat, NEW n \in Nat
    PROVE  \E f \in [0 .. n -> Nat] : Follows(f, first, G, n)
<1> DEFINE S == {m \in Nat : \E f \in [0 .. m -> Nat] : Follows(f, first, G, m)}
<1>1. 0 \in S
  <2>1. /\ [k \in 0 .. 0 |-> first] \in [0 .. 0 -> Nat]
        /\ Follows([k \in 0 .. 0 |-> first], first, G, 0)
    BY DEF Follows
  <2> QED BY <2>1
<1>2. ASSUME NEW m \in Nat, m \in S PROVE m + 1 \in S
  <2>1. PICK f \in [0 .. m -> Nat] : Follows(f, first, G, m) BY <1>2
  <2> DEFINE next == [k \in 0 .. m + 1 |->
                         IF k <= m THEN f[k] ELSE G[<<m + 1, f[m]>>]]
  <2>2. f[m] \in Nat /\ G[<<m + 1, f[m]>>] \in Nat OBVIOUS
  <2>3. next \in [0 .. m + 1 -> Nat] BY <2>2
  <2>4. \A k \in 0 .. m : next[k] = f[k] OBVIOUS
  <2>5. next[m + 1] = G[<<m + 1, f[m]>>] OBVIOUS
  <2> HIDE DEF next
  <2>6. ASSUME NEW k \in 0 .. m + 1
        PROVE  next[k] = IF k = 0 THEN first ELSE G[<<k, next[k - 1]>>]
    <3>1. CASE k \in 0 .. m
      <4>1. k = 0 \/ k - 1 \in 0 .. m BY <3>1
      <4> QED BY <2>1, <2>4, <3>1, <4>1 DEF Follows
    <3>2. CASE k = m + 1
      <4>1. k # 0 /\ k - 1 = m /\ m \in 0 .. m BY <3>2
      <4> QED BY <2>4, <2>5, <3>2, <4>1
    <3> QED BY <3>1, <3>2
  <2>7. Follows(next, first, G, m + 1) BY <2>6 DEF Follows
  <2>8. m + 1 \in Nat OBVIOUS
  <2> QED BY <2>3, <2>7, <2>8
<1> HIDE DEF S
<1>3. n \in S BY <1>1, <1>2, SetInduction
<1> QED BY <1>3 DEF S

LEMMA ByteFacts ==
    /\ ByteBase \in Nat \ {0, 1}
    /\ Byte \subseteq Nat
    /\ \A b \in Byte : b < ByteBase
    /\ 0 \in Byte
BY ByteBaseAssumption DEF Byte

(* A value is a sequence of Width bytes. *)
LEMMA ValueLength ==
    ASSUME NEW v \in Values
    PROVE  v \in Seq(Byte) /\ Len(v) = Width
<1>1. v \in Seq(Byte) BY WidthAssumption DEF Values
<1>2. Len(v) \in Nat /\ DOMAIN v = 1 .. Len(v) BY <1>1, LenProperties
<1>3. DOMAIN v = 1 .. Width BY DEF Values
<1>4. \A m, n \in Nat : 1 .. m = 1 .. n => m = n
  <2> TAKE m, n \in Nat
  <2> HAVE 1 .. m = 1 .. n
  <2>1. m \in 1 .. m \/ m = 0 OBVIOUS
  <2>2. n \in 1 .. n \/ n = 0 OBVIOUS
  <2> QED BY <2>1, <2>2
<1> QED BY <1>1, <1>2, <1>3, <1>4, WidthAssumption

-----------------------------------------------------------------------------
(* The functions that NumberOf, NumbersIn and AddBytes read their results  *)
(* from.                                                                   *)

IsPrefix(f, bytes) ==
    f = [k \in 0 .. Len(bytes) |->
            IF k = 0 THEN 0 ELSE f[k - 1] * ByteBase + bytes[k]]

Prefix(bytes) == CHOOSE f : IsPrefix(f, bytes)

(* The number of the first k bytes, for every k. *)
LEMMA PrefixUnfolds ==
    ASSUME NEW bytes \in Seq(Byte)
    PROVE  /\ NumberOf(bytes) = Prefix(bytes)[Len(bytes)]
           /\ Prefix(bytes) \in [0 .. Len(bytes) -> Nat]
           /\ Prefix(bytes)[0] = 0
           /\ \A k \in 1 .. Len(bytes) :
                  Prefix(bytes)[k] = Prefix(bytes)[k - 1] * ByteBase + bytes[k]
<1> DEFINE n == Len(bytes)
           digit == [k \in Nat |-> IF k \in 1 .. n THEN bytes[k] ELSE 0]
           G == [x \in Nat \X Nat |-> x[2] * ByteBase + digit[x[1]]]
           p == Prefix(bytes)
<1>1. n \in Nat /\ \A k \in 1 .. n : bytes[k] \in Nat
  <2>1. n \in Nat /\ bytes \in [1 .. n -> Byte] BY LenProperties
  <2> QED BY <2>1, ByteFacts
<1>2. digit \in [Nat -> Nat] BY <1>1
<1>3. \A k \in Nat, x \in Nat : G[<<k, x>>] = x * ByteBase + digit[k] OBVIOUS
<1>4. \A k \in Nat, x \in Nat : x * ByteBase + digit[k] \in Nat
  BY <1>2, ByteFacts
<1>5. G \in [Nat \X Nat -> Nat] BY <1>4
<1>6. \A k \in 1 .. n : digit[k] = bytes[k] BY <1>1
<1> HIDE DEF G, digit
<1>7. PICK f \in [0 .. n -> Nat] : Follows(f, 0, G, n)
  BY <1>1, <1>5, RecursionExists
<1>8. ASSUME NEW k \in 0 .. n
      PROVE  f[k] = IF k = 0 THEN 0 ELSE f[k - 1] * ByteBase + bytes[k]
  <2>1. CASE k = 0 BY <1>7, <2>1 DEF Follows
  <2>2. CASE k # 0
    <3>1. k \in 1 .. n /\ k - 1 \in 0 .. n BY <1>1, <2>2
    <3>2. f[k - 1] \in Nat /\ k \in Nat BY <3>1
    <3> QED BY <1>3, <1>6, <1>7, <2>2, <3>1, <3>2 DEF Follows
  <2> QED BY <2>1, <2>2
<1>9. IsPrefix(f, bytes) BY <1>8 DEF IsPrefix
<1>10. IsPrefix(p, bytes) BY <1>9 DEF Prefix
<1>11. NumberOf(bytes) = p[n] BY DEF NumberOf, Prefix, IsPrefix
<1> HIDE DEF p
<1>12. DOMAIN p = 0 .. n
       /\ \A k \in 0 .. n : p[k] = IF k = 0 THEN 0
                                   ELSE p[k - 1] * ByteBase + bytes[k]
  BY <1>10 DEF IsPrefix
<1>13. \A k \in 1 .. n : p[k] = p[k - 1] * ByteBase + bytes[k]
  BY <1>1, <1>12
<1>14. p[0] = 0 BY <1>1, <1>12
<1>15. \A k \in 0 .. n : p[k] \in Nat
  <2> DEFINE S == {k \in Nat : k <= n => p[k] \in Nat}
  <2>1. 0 \in S BY <1>14
  <2>2. ASSUME NEW k \in Nat, k \in S PROVE k + 1 \in S
    <3> SUFFICES ASSUME k + 1 <= n PROVE p[k + 1] \in Nat OBVIOUS
    <3>1. p[k] \in Nat /\ k + 1 \in 1 .. n /\ (k + 1) - 1 = k
      BY <1>1, <2>2
    <3>2. p[k + 1] = p[k] * ByteBase + bytes[k + 1] BY <1>13, <3>1
    <3> QED BY <1>1, <3>1, <3>2, ByteFacts
  <2> HIDE DEF S
  <2>3. Nat \subseteq S BY <2>1, <2>2, SetInduction
  <2> QED BY <1>1, <2>3 DEF S
<1>16. p = [k \in 0 .. n |-> p[k]] BY <1>10 DEF IsPrefix
<1>17. p \in [0 .. n -> Nat] BY <1>15, <1>16
<1> QED BY <1>11, <1>13, <1>14, <1>17 DEF p

IsPowers(f, width) ==
    f = [k \in 0 .. width |-> IF k = 0 THEN 1 ELSE f[k - 1] * ByteBase]

Powers(width) == CHOOSE f : IsPowers(f, width)

(* The weight of the byte with k bytes to its right, for every k. *)
LEMMA PowersUnfold ==
    ASSUME NEW width \in Nat
    PROVE  /\ NumbersIn(width) = Powers(width)[width]
           /\ Powers(width) \in [0 .. width -> Nat \ {0}]
           /\ Powers(width)[0] = 1
           /\ \A k \in 1 .. width :
                  Powers(width)[k] = Powers(width)[k - 1] * ByteBase
<1> DEFINE G == [x \in Nat \X Nat |-> x[2] * ByteBase]
           p == Powers(width)
<1>1. \A k \in Nat, x \in Nat : G[<<k, x>>] = x * ByteBase OBVIOUS
<1>2. \A x \in Nat : x * ByteBase \in Nat BY ByteFacts
<1>3. G \in [Nat \X Nat -> Nat] BY <1>2
<1> HIDE DEF G
<1>4. PICK f \in [0 .. width -> Nat] : Follows(f, 1, G, width)
  BY <1>3, RecursionExists
<1>5. ASSUME NEW k \in 0 .. width
      PROVE  f[k] = IF k = 0 THEN 1 ELSE f[k - 1] * ByteBase
  <2>1. CASE k = 0 BY <1>4, <2>1 DEF Follows
  <2>2. CASE k # 0
    <3>1. k \in Nat /\ k - 1 \in 0 .. width BY <2>2
    <3>2. f[k - 1] \in Nat BY <3>1
    <3> QED BY <1>1, <1>4, <2>2, <3>1, <3>2 DEF Follows
  <2> QED BY <2>1, <2>2
<1>6. IsPowers(f, width) BY <1>5 DEF IsPowers
<1>7. IsPowers(p, width) BY <1>6 DEF Powers
<1>8. NumbersIn(width) = p[width] BY DEF NumbersIn, Powers, IsPowers
<1> HIDE DEF p
<1>9. \A k \in 0 .. width : p[k] = IF k = 0 THEN 1 ELSE p[k - 1] * ByteBase
  BY <1>7 DEF IsPowers
<1>10. p[0] = 1 BY <1>9
<1>11. \A k \in 1 .. width : p[k] = p[k - 1] * ByteBase BY <1>9
<1>12. \A k \in 0 .. width : p[k] \in Nat \ {0}
  <2> DEFINE S == {k \in Nat : k <= width => p[k] \in Nat \ {0}}
  <2>1. 0 \in S BY <1>10
  <2>2. ASSUME NEW k \in Nat, k \in S PROVE k + 1 \in S
    <3> SUFFICES ASSUME k + 1 <= width PROVE p[k + 1] \in Nat \ {0} OBVIOUS
    <3>1. p[k] \in Nat \ {0} /\ k + 1 \in 1 .. width /\ (k + 1) - 1 = k
      BY <2>2
    <3>2. p[k + 1] = p[k] * ByteBase BY <1>11, <3>1
    <3>3. \A x, y \in Nat \ {0} : x * y \in Nat \ {0} OBVIOUS
    <3> QED BY <3>1, <3>2, <3>3, ByteFacts
  <2> HIDE DEF S
  <2>3. Nat \subseteq S BY <2>1, <2>2, SetInduction
  <2> QED BY <2>3 DEF S
<1>13. p = [k \in 0 .. width |-> p[k]] BY <1>7 DEF IsPowers
<1>14. p \in [0 .. width -> Nat \ {0}] BY <1>12, <1>13
<1> QED BY <1>8, <1>10, <1>11, <1>14 DEF p

(* The k-th byte of the addend from the right, zero past its end. *)
Digit(a, k) == IF k <= Len(a) THEN a[Len(a) + 1 - k] ELSE 0

LEMMA DigitIsByte ==
    ASSUME NEW a \in Seq(Byte), NEW k \in Nat \ {0}
    PROVE  Digit(a, k) \in Byte
<1>1. Len(a) \in Nat /\ a \in [1 .. Len(a) -> Byte] BY LenProperties
<1>2. k <= Len(a) => Len(a) + 1 - k \in 1 .. Len(a) BY <1>1
<1> QED BY <1>1, <1>2, ByteFacts DEF Digit

IsCarries(f, v, a) ==
    f = [k \in 0 .. Len(v) |->
            IF k = 0 THEN 0
            ELSE (v[Len(v) + 1 - k] + Digit(a, k) + f[k - 1]) \div ByteBase]

Carries(v, a) == CHOOSE f : IsCarries(f, v, a)

(* The carry out of the k rightmost bytes is a bit, for every k. *)
LEMMA CarriesUnfold ==
    ASSUME NEW v \in Values, NEW a \in Seq(Byte)
    PROVE  /\ AddBytes(v, a) = [i \in 1 .. Width |->
                  (v[i] + Digit(a, Width + 1 - i) + Carries(v, a)[Width - i])
                      % ByteBase]
           /\ Carries(v, a)[0] = 0
           /\ \A k \in 0 .. Width : Carries(v, a)[k] \in {0, 1}
           /\ \A k \in 1 .. Width :
                  Carries(v, a)[k] =
                      (v[Width + 1 - k] + Digit(a, k) + Carries(v, a)[k - 1])
                          \div ByteBase
<1> DEFINE c == Carries(v, a)
           sum == [k \in Nat |-> IF k \in 1 .. Width
                                 THEN v[Width + 1 - k] + Digit(a, k) ELSE 0]
           G == [x \in Nat \X Nat |-> (sum[x[1]] + x[2]) \div ByteBase]
<1>1. Len(v) = Width /\ Width \in Nat BY ValueLength, WidthAssumption
<1>2. ASSUME NEW k \in 1 .. Width
      PROVE  v[Width + 1 - k] \in Byte /\ Digit(a, k) \in Byte
  <2>1. Width + 1 - k \in 1 .. Width /\ k \in Nat \ {0} BY <1>1
  <2> QED BY <2>1, DigitIsByte DEF Values
<1>3. sum \in [Nat -> Nat]
  <2>1. ASSUME NEW k \in Nat
        PROVE  (IF k \in 1 .. Width THEN v[Width + 1 - k] + Digit(a, k) ELSE 0)
                   \in Nat
    <3> DEFINE x == v[Width + 1 - k]  y == Digit(a, k)
    <3>1. k \in 1 .. Width => x \in Nat /\ y \in Nat BY <1>2, ByteFacts
    <3> HIDE DEF x, y
    <3>2. (IF k \in 1 .. Width THEN x + y ELSE 0) \in Nat BY <3>1
    <3> QED BY <3>2 DEF x, y
  <2> QED BY <2>1
<1>4. \A k \in 1 .. Width : sum[k] = v[Width + 1 - k] + Digit(a, k)
  BY <1>1
<1>5. \A k \in Nat, x \in Nat : G[<<k, x>>] = (sum[k] + x) \div ByteBase
  OBVIOUS
<1> HIDE DEF sum
<1>6. \A k \in Nat, x \in Nat : (sum[k] + x) \div ByteBase \in Nat
  <2> TAKE k \in Nat, x \in Nat
  <2> DEFINE n == sum[k] + x
  <2>1. n \in Nat BY <1>3
  <2> HIDE DEF n
  <2>2. n \div ByteBase \in Nat BY <2>1, ByteFacts
  <2> QED BY <2>2 DEF n
<1>7. G \in [Nat \X Nat -> Nat] BY <1>6
<1> HIDE DEF G
<1>8. PICK f \in [0 .. Width -> Nat] : Follows(f, 0, G, Width)
  BY <1>1, <1>7, RecursionExists
<1>9. ASSUME NEW k \in 0 .. Width
      PROVE  f[k] = IF k = 0 THEN 0
                    ELSE (v[Width + 1 - k] + Digit(a, k) + f[k - 1])
                             \div ByteBase
  <2>1. CASE k = 0 BY <1>8, <2>1 DEF Follows
  <2>2. CASE k # 0
    <3>1. k \in 1 .. Width /\ k \in Nat /\ k - 1 \in 0 .. Width BY <1>1, <2>2
    <3>2. f[k - 1] \in Nat BY <3>1
    <3>3. f[k] = G[<<k, f[k - 1]>>] BY <1>8, <2>2 DEF Follows
    <3>4. G[<<k, f[k - 1]>>] = (sum[k] + f[k - 1]) \div ByteBase
      BY <1>5, <3>1, <3>2
    <3>5. sum[k] = v[Width + 1 - k] + Digit(a, k) BY <1>4, <3>1
    <3> QED BY <2>2, <3>3, <3>4, <3>5
  <2> QED BY <2>1, <2>2
<1>10. IsCarries(f, v, a) BY <1>1, <1>9 DEF IsCarries
<1>11. IsCarries(c, v, a) BY <1>10 DEF Carries
<1>12. AddBytes(v, a) = [i \in 1 .. Len(v) |->
           (v[i] + Digit(a, Len(v) + 1 - i) + c[Len(v) - i]) % ByteBase]
  BY DEF AddBytes, Carries, IsCarries, Digit
<1> HIDE DEF c
<1>13. \A k \in 0 .. Width :
          c[k] = IF k = 0 THEN 0
                 ELSE (v[Width + 1 - k] + Digit(a, k) + c[k - 1]) \div ByteBase
  BY <1>1, <1>11 DEF IsCarries
<1>14. c[0] = 0 BY <1>1, <1>13
<1>15. \A k \in 1 .. Width :
          c[k] = (v[Width + 1 - k] + Digit(a, k) + c[k - 1]) \div ByteBase
  BY <1>1, <1>13
<1>16. \A k \in 0 .. Width : c[k] \in {0, 1}
  <2> DEFINE S == {k \in Nat : k <= Width => c[k] \in {0, 1}}
  <2>1. 0 \in S BY <1>14
  <2>2. ASSUME NEW k \in Nat, k \in S PROVE k + 1 \in S
    <3> SUFFICES ASSUME k + 1 <= Width PROVE c[k + 1] \in {0, 1} OBVIOUS
    <3>1. c[k] \in {0, 1} /\ k + 1 \in 1 .. Width /\ (k + 1) - 1 = k
      BY <1>1, <2>2
    <3> DEFINE x == v[Width + 1 - (k + 1)]  y == Digit(a, k + 1)
    <3>2. c[k + 1] = (x + y + c[k]) \div ByteBase BY <1>15, <3>1
    <3>3. x \in Byte /\ y \in Byte BY <1>2, <3>1
    <3> HIDE DEF x, y
    <3>4. x + y + c[k] = x + c[k] + y BY <3>1, <3>3, ByteFacts
    <3> QED BY <3>1, <3>2, <3>3, <3>4, SumSplits DEF CarryOf
  <2> HIDE DEF S
  <2>3. Nat \subseteq S BY <2>1, <2>2, SetInduction
  <2> QED BY <1>1, <2>3 DEF S
<1> QED BY <1>1, <1>12, <1>14, <1>15, <1>16 DEF c

-----------------------------------------------------------------------------
(* The sum.                                                                *)

(* The number of the last k bytes, w being the weight of the next one, and *)
(* the same of an addend that may be shorter.                              *)
Low(bytes, k, w) == NumberOf(bytes) - Prefix(bytes)[Len(bytes) - k] * w

LowDigits(a, k, w) == IF k <= Len(a) THEN Low(a, k, w) ELSE NumberOf(a)

LEMMA LowAdvances ==
    ASSUME NEW bytes \in Seq(Byte), NEW k \in Nat, k < Len(bytes), NEW w \in Nat
    PROVE  Low(bytes, k + 1, w * ByteBase)
               = Low(bytes, k, w) + w * bytes[Len(bytes) - k]
<1> DEFINE n == Len(bytes)  p == Prefix(bytes)
           high == p[n - k]  rest == p[n - (k + 1)]  b == bytes[n - k]
           all == NumberOf(bytes)
<1>1. n \in Nat /\ bytes \in [1 .. n -> Byte] BY LenProperties
<1>2. n - k \in 1 .. n /\ (n - k) - 1 = n - (k + 1) /\ n - (k + 1) \in 0 .. n
      /\ n - k \in 0 .. n /\ n \in 0 .. n
  BY <1>1
<1>3. high = rest * ByteBase + b BY <1>2, PrefixUnfolds
<1>4. high \in Nat /\ rest \in Nat /\ all \in Nat BY <1>2, PrefixUnfolds
<1>5. b \in Nat BY <1>1, <1>2, ByteFacts
<1>6. /\ Low(bytes, k, w) = all - high * w
      /\ Low(bytes, k + 1, w * ByteBase) = all - rest * (w * ByteBase)
  BY DEF Low
<1> HIDE DEF n, p, high, rest, b, all
<1>7. high * w = rest * (w * ByteBase) + w * b
  <2>1. high * w = (rest * ByteBase + b) * w BY <1>3
  <2>2. (rest * ByteBase + b) * w = rest * (w * ByteBase) + w * b
    BY <1>4, <1>5, ByteFacts
  <2> QED BY <2>1, <2>2
<1>8. all - rest * (w * ByteBase) = (all - high * w) + w * b
  <2> DEFINE x == rest * (w * ByteBase)  y == w * b
  <2>1. x \in Int /\ y \in Int BY <1>4, <1>5, ByteFacts
  <2>2. high * w = x + y BY <1>7
  <2> HIDE DEF x, y
  <2>3. all - x = (all - (x + y)) + y BY <1>4, <2>1
  <2> QED BY <2>2, <2>3 DEF x, y
<1> QED BY <1>6, <1>8 DEF n, b

LEMMA LowBegins ==
    ASSUME NEW bytes \in Seq(Byte)
    PROVE  Low(bytes, 0, 1) = 0
<1>1. Len(bytes) \in Nat BY LenProperties
<1>2. NumberOf(bytes) = Prefix(bytes)[Len(bytes)] /\ NumberOf(bytes) \in Nat
  BY <1>1, PrefixUnfolds
<1>3. Len(bytes) - 0 = Len(bytes) BY <1>1
<1> QED BY <1>2, <1>3 DEF Low

LEMMA LowEnds ==
    ASSUME NEW bytes \in Seq(Byte), NEW w \in Nat
    PROVE  Low(bytes, Len(bytes), w) = NumberOf(bytes)
<1>1. Len(bytes) \in Nat BY LenProperties
<1>2. NumberOf(bytes) \in Nat /\ Prefix(bytes)[Len(bytes) - Len(bytes)] = 0
  BY <1>1, PrefixUnfolds
<1>3. 0 * w = 0 OBVIOUS
<1> QED BY <1>2, <1>3 DEF Low

LEMMA LowDigitsAdvance ==
    ASSUME NEW a \in Seq(Byte), NEW k \in Nat, NEW w \in Nat
    PROVE  LowDigits(a, k + 1, w * ByteBase)
               = LowDigits(a, k, w) + w * Digit(a, k + 1)
<1>1. Len(a) \in Nat BY LenProperties
<1>2. NumberOf(a) \in Nat /\ w * ByteBase \in Nat
  BY <1>1, PrefixUnfolds, ByteFacts
<1>3. CASE k < Len(a)
  <2>1. k <= Len(a) /\ k + 1 <= Len(a) /\ Len(a) + 1 - (k + 1) = Len(a) - k
    BY <1>1, <1>3
  <2> QED BY <1>3, <2>1, LowAdvances DEF LowDigits, Digit
<1>4. CASE k >= Len(a)
  <2>1. Digit(a, k + 1) = 0 BY <1>1, <1>4 DEF Digit
  <2>2. LowDigits(a, k + 1, w * ByteBase) = NumberOf(a)
    BY <1>1, <1>4 DEF LowDigits
  <2>3. LowDigits(a, k, w) = NumberOf(a)
    <3>1. k <= Len(a) => k = Len(a) BY <1>1, <1>4
    <3> QED BY <3>1, LowEnds DEF LowDigits
  <2> QED BY <1>2, <2>1, <2>2, <2>3
<1> QED BY <1>1, <1>3, <1>4

LEMMA SumIsValue ==
    ASSUME NEW v \in Values, NEW a \in Seq(Byte)
    PROVE  AddBytes(v, a) \in Values
<1> SUFFICES ASSUME NEW i \in 1 .. Width
             PROVE  AddBytes(v, a)[i] \in Byte
  BY CarriesUnfold DEF Values
<1> DEFINE x == v[i]  y == Digit(a, Width + 1 - i)  c == Carries(v, a)[Width - i]
<1>1. Width + 1 - i \in Nat \ {0} /\ Width - i \in 0 .. Width
  BY WidthAssumption
<1>2. x \in Byte /\ y \in Byte BY <1>1, DigitIsByte DEF Values
<1>3. c \in {0, 1} BY <1>1, CarriesUnfold
<1>4. AddBytes(v, a)[i] = (x + y + c) % ByteBase BY CarriesUnfold
<1> HIDE DEF x, y, c
<1>5. (x + y + c) % ByteBase \in Byte
  BY <1>2, <1>3, ByteBaseAssumption DEF Byte
<1> QED BY <1>4, <1>5

(* After k bytes from the right: what is written and the carry make up     *)
(* what was read, and what is written fits in k bytes.                     *)
SummedUpTo(v, a, k, w) ==
    LET r == AddBytes(v, a)
    IN  /\ Low(v, k, w) \in Nat /\ LowDigits(a, k, w) \in Nat
        /\ Low(r, k, w) \in 0 .. w - 1
        /\ Low(r, k, w) + w * Carries(v, a)[k] = Low(v, k, w) + LowDigits(a, k, w)

LEMMA SumOfBytes ==
    ASSUME NEW v \in Values, NEW a \in Seq(Byte), NEW k \in 0 .. Width - 1,
           NEW w \in Nat \ {0}, SummedUpTo(v, a, k, w)
    PROVE  SummedUpTo(v, a, k + 1, w * ByteBase)
<1> DEFINE r == AddBytes(v, a)  c == Carries(v, a)
           x == v[Width - k]  y == Digit(a, k + 1)  z == r[Width - k]
           lv == Low(v, k, w)  la == LowDigits(a, k, w)  lr == Low(r, k, w)
           c0 == c[k]  c1 == c[k + 1]
<1>1. /\ k \in Nat /\ k + 1 \in 1 .. Width /\ Width - k \in 1 .. Width
      /\ (k + 1) - 1 = k /\ Width + 1 - (k + 1) = Width - k
      /\ Width - (Width - k) = k /\ Width + 1 - (Width - k) = k + 1
      /\ k \in 0 .. Width /\ k + 1 \in 0 .. Width
  BY WidthAssumption
<1>2. r \in Values BY SumIsValue
<1>3. /\ v \in Seq(Byte) /\ Len(v) = Width
      /\ r \in Seq(Byte) /\ Len(r) = Width
  BY <1>2, ValueLength
<1>4. x \in Byte /\ y \in Byte /\ z \in Byte /\ c0 \in {0, 1} /\ c1 \in {0, 1}
  BY <1>1, <1>2, DigitIsByte, CarriesUnfold DEF Values
<1>5. z = (x + y + c0) % ByteBase /\ c1 = (x + y + c0) \div ByteBase
  <2>1. z = (v[Width - k] + Digit(a, Width + 1 - (Width - k))
                + c[Width - (Width - k)]) % ByteBase
    <3>1. \A i \in 1 .. Width :
              r[i] = (v[i] + Digit(a, Width + 1 - i) + c[Width - i]) % ByteBase
      BY CarriesUnfold
    <3> HIDE DEF r, c
    <3> QED BY <1>1, <3>1
  <2>2. c1 = (v[Width + 1 - (k + 1)] + Digit(a, k + 1) + c[(k + 1) - 1])
                 \div ByteBase
    BY <1>1, CarriesUnfold
  <2> HIDE DEF c
  <2>3. z = (x + y + c0) % ByteBase BY <1>1, <2>1
  <2>4. c1 = (x + y + c0) \div ByteBase BY <1>1, <2>2
  <2> QED BY <2>3, <2>4
<1>6. /\ Low(v, k + 1, w * ByteBase) = lv + w * x
      /\ Low(r, k + 1, w * ByteBase) = lr + w * z
      /\ LowDigits(a, k + 1, w * ByteBase) = la + w * y
  <2>1. k \in Nat /\ k < Width /\ w \in Nat
    BY <1>1, WidthAssumption
  <2> HIDE DEF r
  <2>2. Low(v, k + 1, w * ByteBase) = lv + w * x BY <1>3, <2>1, LowAdvances
  <2>3. Low(r, k + 1, w * ByteBase) = lr + w * z BY <1>3, <2>1, LowAdvances
  <2>4. LowDigits(a, k + 1, w * ByteBase) = la + w * y
    BY <2>1, LowDigitsAdvance
  <2> QED BY <2>2, <2>3, <2>4
<1>7. lv \in Nat /\ la \in Nat /\ lr \in 0 .. w - 1 /\ lr + w * c0 = lv + la
  BY DEF SummedUpTo
<1> HIDE DEF r, c, x, y, z, lv, la, lr, c0, c1
<1>8. x + c0 + y = z + ByteBase * c1
  <2> DEFINE sum == x + c0 + y
  <2>1. x + y + c0 = sum BY <1>4, ByteFacts
  <2>2. sum = LowByte(sum) + ByteBase * CarryOf(sum) BY <1>4, SumSplits
  <2> HIDE DEF sum
  <2>3. z = LowByte(sum) /\ c1 = CarryOf(sum)
    BY <1>5, <2>1 DEF LowByte, CarryOf
  <2> QED BY <2>2, <2>3 DEF sum
<1>9. /\ x \in Nat /\ y \in Nat /\ z \in Nat /\ c0 \in Nat /\ c1 \in Nat
      /\ lr \in Nat /\ w \in Nat /\ ByteBase \in Nat /\ z <= ByteBase - 1
  BY <1>4, <1>7, ByteFacts
<1>10. (lr + w * z) + (w * ByteBase) * c1 = (lv + w * x) + (la + w * y)
  BY <1>7, <1>8, <1>9, SumAdvances
<1>11. lr + w * z \in 0 .. w * ByteBase - 1
  <2>1. w * z + w * (ByteBase - 1 - z) = w * (ByteBase - 1) BY <1>9
  <2>2. w * (ByteBase - 1) = w * ByteBase - w BY <1>9
  <2>3. w * z \in Nat /\ w * (ByteBase - 1 - z) \in Nat /\ w * ByteBase \in Nat
    BY <1>9
  <2> HIDE DEF SummedUpTo
  <2>4. w * z <= w * ByteBase - w BY <2>1, <2>2, <2>3, <1>9
  <2> QED BY <1>7, <1>9, <2>3, <2>4
<1>12. lv + w * x \in Nat /\ la + w * y \in Nat BY <1>7, <1>9
<1> QED
  BY <1>6, <1>10, <1>11, <1>12 DEF SummedUpTo, r, c, c1

LEMMA RemainderIs ==
    ASSUME NEW n \in Nat \ {0}, NEW c \in 0 .. n - 1, NEW k \in Nat
    PROVE  c = (c + k * n) % n
<1> DEFINE a == c + k * n
           q == a \div n
           s == a % n
<1>1. a \in Nat OBVIOUS
<1>2. a = n * q + s /\ s \in 0 .. n - 1 /\ q \in Int BY <1>1
<1> HIDE DEF q, s
<1>3. q * n + s = c + k * n BY <1>2
<1>4. (k - q) * n = s - c
  <2>1. (k - q) * n = k * n - q * n BY <1>2
  <2>2. k * n \in Int /\ q * n \in Int BY <1>2
  <2> QED BY <1>2, <1>3, <2>1, <2>2
<1>5. k - q = 0
  <2> DEFINE d == k - q
  <2>1. d \in Int BY <1>2
  <2>2. d * n < n /\ d * n > -n BY <1>2, <1>4
  <2> HIDE DEF d
  <2>3. d >= 1 => d * n >= n
    <3> SUFFICES ASSUME d >= 1 PROVE d * n >= n OBVIOUS
    <3>1. (d - 1) * n >= 0 BY <2>1
    <3>2. (d - 1) * n = d * n - n BY <2>1
    <3>3. d * n \in Int BY <2>1
    <3> QED BY <3>1, <3>2, <3>3
  <2>4. d <= -1 => d * n <= -n
    <3> SUFFICES ASSUME d <= -1 PROVE d * n <= -n OBVIOUS
    <3>1. (-1 - d) * n >= 0 BY <2>1
    <3>2. (-1 - d) * n = -n - d * n BY <2>1
    <3>3. d * n \in Int BY <2>1
    <3> QED BY <3>1, <3>2, <3>3
  <2>5. d = 0 BY <2>1, <2>2, <2>3, <2>4
  <2> QED BY <2>5 DEF d
<1>6. 0 * n = 0 OBVIOUS
<1>7. s = c BY <1>2, <1>4, <1>5, <1>6
<1> QED BY <1>7 DEF s

(* hash_math_add_bytes, in its closed form, adds modulo ByteBase^Width:    *)
(* for every base, every width and every addend, shorter or longer than    *)
(* the value.                                                              *)
THEOREM AddBytesIsSum ==
    ASSUME NEW v \in Values, NEW a \in Seq(Byte)
    PROVE  NumberOf(AddBytes(v, a))
               = (NumberOf(v) + NumberOf(a)) % NumbersIn(Width)
<1> DEFINE w == Powers(Width)  r == AddBytes(v, a)
           S == {k \in Nat : k <= Width => SummedUpTo(v, a, k, w[k])}
<1>1. /\ Width \in Nat /\ w[0] = 1 /\ w[Width] = NumbersIn(Width)
      /\ \A k \in 0 .. Width : w[k] \in Nat \ {0}
      /\ \A k \in 1 .. Width : w[k] = w[k - 1] * ByteBase
  BY WidthAssumption, PowersUnfold
<1>2. /\ r \in Seq(Byte) /\ Len(r) = Width /\ v \in Seq(Byte) /\ Len(v) = Width
  BY SumIsValue, ValueLength
<1>3. SummedUpTo(v, a, 0, 1)
  <2>1. Low(v, 0, 1) = 0 /\ Low(r, 0, 1) = 0 /\ Low(a, 0, 1) = 0
    BY <1>2, LowBegins
  <2>2. LowDigits(a, 0, 1) = 0
    BY <2>1, LenProperties DEF LowDigits
  <2>3. Carries(v, a)[0] = 0 BY CarriesUnfold
  <2> QED BY <2>1, <2>2, <2>3 DEF SummedUpTo
<1> HIDE DEF w, r
<1>4. 0 \in S BY <1>1, <1>3
<1>5. ASSUME NEW k \in Nat, k \in S PROVE k + 1 \in S
  <2> SUFFICES ASSUME k + 1 <= Width PROVE SummedUpTo(v, a, k + 1, w[k + 1])
    OBVIOUS
  <2>1. /\ k \in 0 .. Width - 1 /\ k \in 0 .. Width /\ k + 1 \in 1 .. Width
        /\ (k + 1) - 1 = k
    BY <1>1
  <2>2. w[k + 1] = w[k] * ByteBase /\ w[k] \in Nat \ {0} BY <1>1, <2>1
  <2>3. SummedUpTo(v, a, k, w[k]) BY <1>1, <1>5, <2>1
  <2>4. SummedUpTo(v, a, k + 1, w[k] * ByteBase) BY <2>1, <2>2, <2>3, SumOfBytes
  <2> QED BY <2>2, <2>4
<1> HIDE DEF S
<1>6. Width \in S BY <1>1, <1>4, <1>5, SetInduction
<1> DEFINE N == w[Width]  c == Carries(v, a)[Width]
<1>7. SummedUpTo(v, a, Width, N) BY <1>1, <1>6 DEF S
<1>8. N \in Nat \ {0} /\ c \in Nat
  <2>1. Width \in 0 .. Width BY <1>1
  <2>2. c \in {0, 1} BY <2>1, CarriesUnfold
  <2> QED BY <1>1, <2>1, <2>2
<1>9. Low(v, Width, N) = NumberOf(v) /\ Low(r, Width, N) = NumberOf(r)
  BY <1>2, <1>8, LowEnds
<1>10. NumberOf(r) \in 0 .. N - 1
       /\ NumberOf(r) + N * c = NumberOf(v) + LowDigits(a, Width, N)
  BY <1>7, <1>9 DEF SummedUpTo, r
<1>11. NumberOf(v) \in Nat /\ NumberOf(a) \in Nat
  <2>1. Len(v) \in 0 .. Len(v) /\ Len(a) \in 0 .. Len(a)
    BY <1>2, LenProperties
  <2> QED BY <1>2, <2>1, PrefixUnfolds
<1>12. PICK q \in Nat : NumberOf(a) = LowDigits(a, Width, N) + q * N
  <2>1. CASE Width <= Len(a)
    <3> DEFINE q == Prefix(a)[Len(a) - Width]
    <3>1. Len(a) - Width \in 0 .. Len(a) BY <1>1, <2>1, LenProperties
    <3>2. q \in Nat BY <3>1, PrefixUnfolds
    <3>3. LowDigits(a, Width, N) = NumberOf(a) - q * N
      BY <2>1 DEF LowDigits, Low
    <3> HIDE DEF q
    <3>4. NumberOf(a) = LowDigits(a, Width, N) + q * N
      <4>1. q * N \in Int BY <1>8, <3>2
      <4> QED BY <1>11, <3>3, <4>1
    <3> QED BY <3>2, <3>4
  <2>2. CASE ~(Width <= Len(a))
    <3>1. LowDigits(a, Width, N) = NumberOf(a) BY <2>2 DEF LowDigits
    <3>2. NumberOf(a) = LowDigits(a, Width, N) + 0 * N
      <4>1. 0 * N = 0 BY <1>8
      <4> QED BY <1>11, <3>1, <4>1
    <3> QED BY <3>2
  <2> QED BY <2>1, <2>2
<1> DEFINE A == NumberOf(v)  B == NumberOf(a)  C == NumberOf(r)
           D == LowDigits(a, Width, N)
<1>13. D \in Nat BY <1>7 DEF SummedUpTo
<1>14. A \in Nat /\ B \in Nat /\ C \in 0 .. N - 1 /\ C + N * c = A + D
       /\ B = D + q * N
  BY <1>10, <1>11, <1>12
<1> HIDE DEF N, c, A, B, C, D
<1>15. A + B = C + (c + q) * N
  <2>1. (c + q) * N = N * c + q * N BY <1>8
  <2>2. N * c \in Int /\ q * N \in Int BY <1>8
  <2> QED BY <1>8, <1>13, <1>14, <2>1, <2>2
<1>16. C = (A + B) % N
  <2> DEFINE k == c + q
  <2>1. k \in Nat BY <1>8
  <2> HIDE DEF k
  <2>2. C = (C + k * N) % N BY <1>8, <1>14, <2>1, RemainderIs
  <2> QED BY <1>15, <2>2 DEF k
<1> QED BY <1>1, <1>16 DEF A, B, C, N, r

-----------------------------------------------------------------------------
(* The increment, and the empty addend.                                    *)

LEMMA OneIsByte == <<1>> \in Seq(Byte) /\ Len(<<1>>) = 1
BY ByteBaseAssumption DEF Byte

(* A carry leaves the k rightmost bytes exactly when all of them are full. *)
LEMMA CarryOfOne ==
    ASSUME NEW v \in Values, NEW k \in 1 .. Width
    PROVE  Carries(v, <<1>>)[k] =
               IF \A j \in Width + 1 - k .. Width : v[j] = ByteBase - 1
               THEN 1 ELSE 0
<1> DEFINE c == Carries(v, <<1>>)
           Full(n) == \A j \in Width + 1 - n .. Width : v[j] = ByteBase - 1
           S == {n \in Nat : n + 1 <= Width =>
                                c[n + 1] = IF Full(n + 1) THEN 1 ELSE 0}
<1>1. /\ c[0] = 0
      /\ \A n \in 1 .. Width :
             c[n] = (v[Width + 1 - n] + Digit(<<1>>, n) + c[n - 1]) \div ByteBase
  BY OneIsByte, CarriesUnfold
<1>2. Digit(<<1>>, 1) = 1 /\ \A n \in Nat : n > 1 => Digit(<<1>>, n) = 0
  BY DEF Digit
<1>3. Width \in Nat \ {0} BY WidthAssumption
<1>4. \A j \in 1 .. Width : v[j] \in 0 .. ByteBase - 1 BY DEF Values, Byte
<1>5. \A x \in 0 .. ByteBase - 1 :
          /\ (x + 1) \div ByteBase = IF x = ByteBase - 1 THEN 1 ELSE 0
          /\ x \div ByteBase = 0
  BY ByteBaseAssumption
<1> HIDE DEF c
<1>6. 0 \in S
  <2>1. 1 \in 1 .. Width /\ Width + 1 - 1 = Width /\ 1 - 1 = 0 BY <1>3
  <2>2. c[1] = (v[Width] + 1) \div ByteBase
    <3>1. c[1] = (v[Width] + 1 + 0) \div ByteBase BY <1>1, <1>2, <2>1
    <3>2. v[Width] + 1 + 0 = v[Width] + 1 BY <1>3, <1>4
    <3> QED BY <3>1, <3>2
  <2>3. Full(1) <=> v[Width] = ByteBase - 1 BY <1>3
  <2>4. c[1] = IF Full(1) THEN 1 ELSE 0 BY <1>3, <1>4, <1>5, <2>2, <2>3
  <2>5. 0 + 1 = 1 OBVIOUS
  <2> QED BY <2>4, <2>5
<1>7. ASSUME NEW n \in Nat, n \in S PROVE n + 1 \in S
  <2> DEFINE m == n + 1
  <2> SUFFICES ASSUME m + 1 <= Width
               PROVE  c[m + 1] = IF Full(m + 1) THEN 1 ELSE 0
    OBVIOUS
  <2>1. /\ m \in Nat /\ m + 1 \in 1 .. Width /\ m + 1 > 1 /\ (m + 1) - 1 = m
        /\ Width + 1 - (m + 1) = Width - m /\ Width - m \in 1 .. Width
        /\ Width + 1 - m = Width - m + 1
    BY <1>3
  <2>2. c[m] = IF Full(m) THEN 1 ELSE 0 BY <1>3, <1>7
  <2> DEFINE x == v[Width - m]
  <2>3. c[m + 1] = (x + 0 + c[m]) \div ByteBase
    BY <1>1, <1>2, <2>1
  <2>4. Full(m + 1) <=> Full(m) /\ x = ByteBase - 1
    <3>1. Width + 1 - (m + 1) .. Width
              = {Width - m} \cup (Width + 1 - m .. Width)
      BY <1>3, <2>1
    <3> QED BY <3>1
  <2>5. x \in 0 .. ByteBase - 1 BY <1>4, <2>1
  <2> HIDE DEF x, m, Full
  <2>6. CASE Full(m)
    <3>1. c[m + 1] = (x + 1) \div ByteBase
      <4>1. x + 0 + 1 = x + 1 BY <2>5
      <4> QED BY <2>2, <2>3, <2>6, <4>1
    <3> QED BY <1>5, <2>4, <2>5, <2>6, <3>1
  <2>7. CASE ~Full(m)
    <3>1. c[m + 1] = x \div ByteBase
      <4>1. x + 0 + 0 = x BY <2>5
      <4> QED BY <2>2, <2>3, <2>7, <4>1
    <3> QED BY <1>5, <2>4, <2>5, <2>7, <3>1
  <2> QED BY <2>6, <2>7
<1> HIDE DEF S
<1>8. k - 1 \in Nat /\ (k - 1) + 1 = k BY <1>3
<1>9. k - 1 \in S BY <1>6, <1>7, <1>8, SetInduction
<1>10. c[k] = IF Full(k) THEN 1 ELSE 0 BY <1>3, <1>8, <1>9 DEF S
<1> QED BY <1>10 DEF c

(* hash_math_increment is the addition of one. *)
LEMMA IncrementIsAddOne ==
    ASSUME NEW v \in Values
    PROVE  Increment(v) = AddBytes(v, <<1>>)
<1> DEFINE c == Carries(v, <<1>>)
           Full(i) == \A j \in i + 1 .. Width : v[j] = ByteBase - 1
<1>1. Len(v) = Width /\ Width \in Nat \ {0} BY ValueLength, WidthAssumption
<1>2. Increment(v) = [i \in 1 .. Width |->
          IF Full(i) THEN (v[i] + 1) % ByteBase ELSE v[i]]
  BY <1>1 DEF Increment
<1>3. AddBytes(v, <<1>>) = [i \in 1 .. Width |->
          (v[i] + Digit(<<1>>, Width + 1 - i) + c[Width - i]) % ByteBase]
  BY OneIsByte, CarriesUnfold
<1>4. c[0] = 0 BY OneIsByte, CarriesUnfold
<1>5. ASSUME NEW i \in 1 .. Width
      PROVE  (v[i] + Digit(<<1>>, Width + 1 - i) + c[Width - i]) % ByteBase
                 = IF Full(i) THEN (v[i] + 1) % ByteBase ELSE v[i]
  <2>1. v[i] \in 0 .. ByteBase - 1 BY DEF Values, Byte
  <2>2. \A x \in 0 .. ByteBase - 1 : x % ByteBase = x BY ByteBaseAssumption
  <2>3. CASE i = Width
    <3>1. Width + 1 - i = 1 /\ Width - i = 0 BY <1>1, <2>3
    <3>2. Digit(<<1>>, 1) = 1 BY DEF Digit
    <3>3. Full(i) BY <1>1, <2>3
    <3>4. v[i] + 1 + 0 = v[i] + 1 BY <2>1
    <3> QED BY <1>4, <3>1, <3>2, <3>3, <3>4
  <2>4. CASE i # Width
    <3>1. /\ Width - i \in 1 .. Width /\ Width + 1 - (Width - i) = i + 1
          /\ Width + 1 - i \in Nat /\ Width + 1 - i > 1
      BY <1>1, <2>4
    <3>2. Digit(<<1>>, Width + 1 - i) = 0 BY <3>1 DEF Digit
    <3>3. c[Width - i] = IF Full(i) THEN 1 ELSE 0 BY <3>1, CarryOfOne
    <3>4. v[i] + 0 + 1 = v[i] + 1 /\ v[i] + 0 + 0 = v[i] BY <2>1
    <3> HIDE DEF c, Full
    <3> QED BY <2>1, <2>2, <3>2, <3>3, <3>4
  <2> QED BY <2>3, <2>4
<1> QED BY <1>2, <1>3, <1>5

LEMMA AddNothing ==
    ASSUME NEW v \in Values
    PROVE  AddBytes(v, <<>>) = v
<1> DEFINE c == Carries(v, <<>>)
           S == {k \in Nat : k <= Width => c[k] = 0}
<1>1. <<>> \in Seq(Byte) OBVIOUS
<1>2. /\ c[0] = 0
      /\ \A n \in 1 .. Width :
             c[n] = (v[Width + 1 - n] + Digit(<<>>, n) + c[n - 1]) \div ByteBase
  BY <1>1, CarriesUnfold
<1>3. \A n \in Nat : n > 0 => Digit(<<>>, n) = 0 BY DEF Digit
<1>4. Width \in Nat \ {0} BY WidthAssumption
<1>5. \A j \in 1 .. Width : v[j] \in 0 .. ByteBase - 1 BY DEF Values, Byte
<1>6. \A x \in 0 .. ByteBase - 1 :
          x \div ByteBase = 0 /\ x % ByteBase = x /\ x + 0 + 0 = x
  BY ByteBaseAssumption
<1>7. AddBytes(v, <<>>) = [i \in 1 .. Width |->
          (v[i] + Digit(<<>>, Width + 1 - i) + c[Width - i]) % ByteBase]
  BY <1>1, CarriesUnfold
<1> HIDE DEF c
<1>8. 0 \in S BY <1>2
<1>9. ASSUME NEW k \in Nat, k \in S PROVE k + 1 \in S
  <2> SUFFICES ASSUME k + 1 <= Width PROVE c[k + 1] = 0 OBVIOUS
  <2>1. /\ k + 1 \in 1 .. Width /\ (k + 1) - 1 = k /\ k + 1 > 0
        /\ Width + 1 - (k + 1) \in 1 .. Width
    BY <1>4
  <2>2. c[k] = 0 BY <1>4, <1>9
  <2>3. c[k + 1] = (v[Width + 1 - (k + 1)] + 0 + 0) \div ByteBase
    BY <1>2, <1>3, <2>1, <2>2
  <2> QED BY <1>5, <1>6, <2>1, <2>3
<1> HIDE DEF S
<1>10. \A k \in 0 .. Width : c[k] = 0
  <2>1. Nat \subseteq S BY <1>8, <1>9, SetInduction
  <2> QED BY <1>4, <2>1 DEF S
<1>11. ASSUME NEW i \in 1 .. Width
       PROVE  (v[i] + Digit(<<>>, Width + 1 - i) + c[Width - i]) % ByteBase = v[i]
  <2>1. Width + 1 - i \in Nat /\ Width + 1 - i > 0 /\ Width - i \in 0 .. Width
    BY <1>4
  <2>2. Digit(<<>>, Width + 1 - i) = 0 /\ c[Width - i] = 0
    BY <1>3, <1>10, <2>1
  <2> QED BY <1>5, <1>6, <2>2
<1>12. v = [i \in 1 .. Width |-> v[i]] BY DEF Values
<1> QED BY <1>7, <1>11, <1>12

-----------------------------------------------------------------------------
(* The loops.                                                              *)

(* While a loop runs, the bytes it has passed are those of the closed form *)
(* and the others are as they were.                                        *)
ClosedForms ==
    LET done == Width - value_index
    IN  /\ pc = "adding" =>
               /\ addend_index = IF Len(addend) > done THEN Len(addend) - done
                                                       ELSE 0
               /\ carry = Carries(original, addend)[done]
               /\ value = [i \in 1 .. Width |->
                              IF i > value_index
                              THEN AddBytes(original, addend)[i] ELSE original[i]]
        /\ pc = "incrementing" =>
               /\ addend = <<1>>
               /\ \A i \in value_index + 1 .. Width :
                      original[i] = ByteBase - 1 /\ value[i] = 0
               /\ \A i \in 1 .. value_index : value[i] = original[i]
        /\ pc = "idle" => value = AddBytes(original, addend)

LEMMA ClosedFormsInit == Init => ClosedForms
BY AddNothing DEF Init, ClosedForms

LEMMA AddByteForms ==
    ASSUME TypeOK, ClosedForms, AddByte
    PROVE  ClosedForms'
<1> DEFINE i == value_index  k == Width - i  r == AddBytes(original, addend)
           c == Carries(original, addend)
<1>1. /\ i \in 1 .. Width /\ Width \in Nat /\ k \in 0 .. Width
      /\ k + 1 \in 1 .. Width /\ (k + 1) - 1 = k /\ Width + 1 - (k + 1) = i
      /\ Width - i = k /\ Width + 1 - i = k + 1 /\ Width - (i - 1) = k + 1
  BY WidthAssumption DEF AddByte, TypeOK
<1>2. original \in Values /\ addend \in Seq(Byte) /\ Len(addend) \in Nat
  BY LenProperties DEF TypeOK
<1>3. /\ pc = "adding" /\ carry = c[k]
      /\ addend_index = IF Len(addend) > k THEN Len(addend) - k ELSE 0
      /\ value = [n \in 1 .. Width |-> IF n > i THEN r[n] ELSE original[n]]
  BY DEF AddByte, ClosedForms
<1>4. AddendByte = Digit(addend, k + 1)
  <2> HIDE DEF i, k, r, c
  <2>1. k \in Nat BY <1>1
  <2>2. CASE Len(addend) > k
    <3>1. /\ addend_index > 0 /\ k + 1 <= Len(addend)
          /\ Len(addend) + 1 - (k + 1) = addend_index
      BY <1>2, <1>3, <2>1, <2>2
    <3> QED BY <3>1 DEF AddendByte, Digit
  <2>3. CASE ~(Len(addend) > k)
    <3>1. ~(addend_index > 0) /\ ~(k + 1 <= Len(addend))
      BY <1>2, <1>3, <2>1, <2>3
    <3> QED BY <3>1 DEF AddendByte, Digit
  <2> QED BY <2>2, <2>3
<1>5. value[i] = original[i] BY <1>1, <1>3
<1>6. /\ original[i] \in Nat /\ Digit(addend, k + 1) \in Nat /\ c[k] \in Nat
  <2>1. k + 1 \in Nat \ {0} BY <1>1
  <2>2. Digit(addend, k + 1) \in Byte BY <1>2, <2>1, DigitIsByte
  <2>3. c[k] \in {0, 1} BY <1>1, <1>2, CarriesUnfold
  <2>4. original[i] \in Byte BY <1>1, <1>2 DEF Values
  <2> DEFINE y == Digit(addend, k + 1)
  <2> HIDE DEF c, k, y
  <2>5. c[k] \in Nat BY <2>3
  <2> QED BY <2>2, <2>4, <2>5, ByteFacts DEF y
<1>7. Sum = original[i] + Digit(addend, k + 1) + c[k]
  BY <1>3, <1>4, <1>5, <1>6 DEF Sum
<1>8. LowByte(Sum) = r[i]
  <2>1. \A n \in 1 .. Width :
            r[n] = (original[n] + Digit(addend, Width + 1 - n) + c[Width - n])
                       % ByteBase
    BY <1>2, CarriesUnfold
  <2> HIDE DEF r, c
  <2> QED BY <1>1, <1>7, <2>1 DEF LowByte
<1>9. CarryOf(Sum) = c[k + 1]
  <2>1. \A n \in 1 .. Width :
            c[n] = (original[Width + 1 - n] + Digit(addend, n) + c[n - 1])
                       \div ByteBase
    BY <1>2, CarriesUnfold
  <2> HIDE DEF c
  <2> QED BY <1>1, <1>7, <2>1 DEF CarryOf
<1>10. /\ UNCHANGED <<pc, addend, original>> /\ value_index' = i - 1
       /\ value' = [value EXCEPT ![i] = r[i]] /\ carry' = c[k + 1]
       /\ addend_index' = IF addend_index > 0 THEN addend_index - 1 ELSE 0
  BY <1>8, <1>9 DEF AddByte
<1> HIDE DEF i, k, r, c
<1>11. value' = [n \in 1 .. Width |-> IF n > i - 1 THEN r[n] ELSE original[n]]
  <2>1. DOMAIN value = 1 .. Width BY <1>3
  <2>2. value' = [n \in 1 .. Width |-> IF n = i THEN r[i] ELSE value[n]]
    BY <1>10, <2>1
  <2>3. ASSUME NEW n \in 1 .. Width
        PROVE  (IF n = i THEN r[i] ELSE value[n])
                   = IF n > i - 1 THEN r[n] ELSE original[n]
    <3>1. value[n] = IF n > i THEN r[n] ELSE original[n] BY <1>3
    <3>2. n > i - 1 <=> n = i \/ n > i BY <1>1
    <3> QED BY <3>1, <3>2
  <2> QED BY <2>2, <2>3
<1>12. addend_index' = IF Len(addend) > k + 1 THEN Len(addend) - (k + 1) ELSE 0
  <2>1. Len(addend) \in Nat /\ k \in Nat BY <1>1, <1>2
  <2>2. addend_index = IF Len(addend) > k THEN Len(addend) - k ELSE 0 BY <1>3
  <2>3. addend_index' = IF addend_index > 0 THEN addend_index - 1 ELSE 0
    BY <1>10
  <2> QED BY <2>1, <2>2, <2>3
<1>13. Width - value_index' = k + 1 BY <1>1, <1>10
<1>14. r = AddBytes(original', addend') /\ c = Carries(original', addend')
  BY <1>10 DEF r, c
<1> QED
  BY <1>3, <1>10, <1>11, <1>12, <1>13, <1>14 DEF ClosedForms

LEMMA IncrementByteForms ==
    ASSUME TypeOK, ClosedForms, IncrementByte
    PROVE  ClosedForms'
<1> DEFINE i == value_index  byte == (value[i] + 1) % ByteBase
<1>1. /\ pc = "incrementing" /\ i \in 1 .. Width /\ Width \in Nat
      /\ UNCHANGED <<addend, original>> /\ addend = <<1>>
      /\ value' = [value EXCEPT ![i] = byte] /\ value_index' = i - 1
      /\ pc' = IF byte # 0 \/ i = 1 THEN "idle" ELSE "incrementing"
  BY WidthAssumption DEF IncrementByte, TypeOK, ClosedForms
<1>2. /\ \A n \in i + 1 .. Width : original[n] = ByteBase - 1 /\ value[n] = 0
      /\ \A n \in 1 .. i : value[n] = original[n]
      /\ value \in Values /\ original \in Values
  BY <1>1 DEF ClosedForms, TypeOK
<1>3. \A n \in 1 .. Width : original[n] \in 0 .. ByteBase - 1
  BY <1>2 DEF Values, Byte
<1>4. value[i] = original[i] BY <1>1, <1>2
<1>5. \A x \in 0 .. ByteBase - 1 :
          (x + 1) % ByteBase = IF x = ByteBase - 1 THEN 0 ELSE x + 1
  BY ByteBaseAssumption
<1>6. byte = 0 <=> original[i] = ByteBase - 1
  BY <1>1, <1>3, <1>4, <1>5
<1>7. \A n \in 1 .. Width :
          value'[n] = IF n = i THEN byte ELSE value[n]
  BY <1>1, <1>2 DEF Values
<1>8. CASE byte = 0 /\ i # 1
  <2>1. \A n \in i .. Width : original[n] = ByteBase - 1 /\ value'[n] = 0
    BY <1>1, <1>2, <1>6, <1>7, <1>8
  <2>2. \A n \in 1 .. i - 1 : value'[n] = original[n] BY <1>1, <1>2, <1>7
  <2>3. (i - 1) + 1 = i BY <1>1
  <2> QED BY <1>1, <1>8, <2>1, <2>2, <2>3 DEF ClosedForms
<1>9. CASE byte # 0 \/ i = 1
  <2>1. Len(original) = Width BY <1>2, ValueLength
  <2> DEFINE Full(n) == \A j \in n + 1 .. Width : original[j] = ByteBase - 1
  <2>2. Increment(original) = [n \in 1 .. Width |->
            IF Full(n) THEN (original[n] + 1) % ByteBase ELSE original[n]]
    BY <2>1 DEF Increment
  <2>3. ASSUME NEW n \in 1 .. Width
        PROVE  value'[n] = IF Full(n) THEN (original[n] + 1) % ByteBase
                                      ELSE original[n]
    <3>1. CASE n > i
      <4>1. Full(n) BY <1>1, <1>2, <3>1
      <4>2. original[n] = ByteBase - 1 /\ value'[n] = 0
        BY <1>1, <1>2, <1>7, <3>1
      <4> QED BY <1>3, <1>5, <4>1, <4>2
    <3>2. CASE n = i
      <4>1. Full(n) BY <1>1, <1>2, <3>2
      <4> QED BY <1>4, <1>7, <3>2, <4>1
    <3>3. CASE n < i
      <4>1. byte # 0 BY <1>9, <3>3
      <4>2. i \in n + 1 .. Width /\ original[i] # ByteBase - 1
        BY <1>1, <1>6, <3>3, <4>1
      <4>3. ~Full(n) BY <4>2
      <4> QED BY <1>1, <1>2, <1>7, <3>3, <4>3
    <3> QED BY <1>1, <3>1, <3>2, <3>3
  <2>4. value' = [n \in 1 .. Width |-> value'[n]]
    BY <1>1, <1>2 DEF Values
  <2>5. value' = Increment(original) BY <2>2, <2>3, <2>4
  <2>6. pc' = "idle" BY <1>1, <1>9
  <2> QED BY <1>1, <1>2, <2>5, <2>6, IncrementIsAddOne DEF ClosedForms
<1> QED BY <1>8, <1>9

LEMMA ClosedFormsStep == TypeOK /\ ClosedForms /\ [Next]_vars => ClosedForms'
<1> SUFFICES ASSUME TypeOK, ClosedForms, [Next]_vars PROVE ClosedForms'
  OBVIOUS
<1>1. CASE UNCHANGED vars BY <1>1 DEF vars, ClosedForms
<1>2. CASE CallAdd
  <2>1. PICK a \in Addends :
            /\ addend' = a /\ addend_index' = Len(a)
            /\ pc' = IF Len(a) = 0 THEN "idle" ELSE "adding"
            /\ value_index' = IF Len(a) = 0 THEN 0 ELSE Width
    BY <1>2 DEF CallAdd
  <2>2. a \in Seq(Byte) /\ Len(a) \in Nat /\ value \in Values
    BY AddendsAssumption, LenProperties DEF TypeOK
  <2>3. carry' = 0 /\ original' = value /\ value' = value
    BY <1>2 DEF CallAdd
  <2>4. CASE Len(a) = 0
    <3>1. a = <<>> BY <2>2, <2>4, EmptySeq
    <3> QED BY <2>1, <2>2, <2>3, <2>4, <3>1, AddNothing DEF ClosedForms
  <2>5. CASE Len(a) # 0
    <3>1. Width - Width = 0 /\ Len(a) > 0 /\ Len(a) - 0 = Len(a)
      BY <2>2, <2>5, WidthAssumption
    <3>2. Carries(value, a)[0] = 0 BY <2>2, CarriesUnfold
    <3>3. value = [i \in 1 .. Width |->
                      IF i > Width THEN AddBytes(value, a)[i] ELSE value[i]]
      BY <2>2, WidthAssumption DEF Values
    <3> QED BY <2>1, <2>3, <2>5, <3>1, <3>2, <3>3 DEF ClosedForms
  <2> QED BY <2>4, <2>5
<1>3. CASE AddByte BY <1>3, AddByteForms
<1>4. CASE AddReturns
  <2>1. /\ UNCHANGED <<value, addend, original>> /\ pc' = "idle"
        /\ value = [i \in 1 .. Width |->
                       IF i > 0 THEN AddBytes(original, addend)[i]
                                ELSE original[i]]
    BY <1>4 DEF AddReturns, ClosedForms
  <2>2. AddBytes(original, addend) \in Values BY SumIsValue DEF TypeOK
  <2>3. value = AddBytes(original, addend)
    BY <2>1, <2>2, WidthAssumption DEF Values
  <2> QED BY <2>1, <2>3 DEF ClosedForms
<1>5. CASE CallIncrement
  BY <1>5, WidthAssumption DEF CallIncrement, ClosedForms
<1>6. CASE IncrementByte BY <1>6, IncrementByteForms
<1> QED BY <1>1, <1>2, <1>3, <1>4, <1>5, <1>6 DEF Next

LEMMA FormsAreSums == TypeOK /\ ClosedForms => ReturnsSum
<1> SUFFICES ASSUME TypeOK, ClosedForms, pc = "idle"
             PROVE  /\ NumberOf(value) = (NumberOf(original) + NumberOf(addend))
                                             % NumbersIn(Width)
                    /\ value = AddBytes(original, addend)
                    /\ addend = <<1>> => value = Increment(original)
  BY DEF ReturnsSum
<1>1. value = AddBytes(original, addend) BY DEF ClosedForms
<1>2. original \in Values /\ addend \in Seq(Byte) BY DEF TypeOK
<1> QED BY <1>1, <1>2, AddBytesIsSum, IncrementIsAddOne

(* hash_math_add_bytes and hash_math_increment return the sum modulo       *)
(* ByteBase^Width, and the closed forms by which Hash_DRBG is modelled are *)
(* what they compute: for every base, width and sequence of calls.         *)
THEOREM SumIsReturned == Spec => []ReturnsSum
<1>1. Init => CarryIsBit BY DEF Init, CarryIsBit
<1> QED
  BY <1>1, InitialTypes, TypesStep, ClosedFormsInit, ClosedFormsStep,
     FormsAreSums, PTL
  DEF Spec
=============================================================================
