------------------------------ MODULE CtrProofs ------------------------------
(***************************************************************************)
(* Proofs about CtrPrimitives, for every cipher, every size and every set  *)
(* of calls.                                                               *)
(***************************************************************************)
EXTENDS CtrPrimitives, SequenceTheorems, WellFoundedInduction, TLAPS

-----------------------------------------------------------------------------
(* Arithmetic. *)

(* Quotient and remainder are unique. *)
LEMMA RemainderIsUnique ==
    ASSUME NEW n \in Nat \ {0}, NEW q \in Nat, NEW r \in 0 .. n - 1
    PROVE  (n * q + r) % n = r /\ (n * q + r) \div n = q
<1> DEFINE x == n * q + r
           q2 == x \div n
           r2 == x % n
<1>1. x \in Nat /\ q2 \in Nat /\ r2 \in 0 .. n - 1 /\ x = n * q2 + r2
  OBVIOUS
<1>2. n * q + r = n * q2 + r2 BY <1>1
<1> HIDE DEF x, q2, r2
<1>3. q = q2
  <2>1. CASE q < q2
    <3>1. n * (q + 1) <= n * q2 BY <1>1, <2>1
    <3>2. n * (q + 1) = n * q + n OBVIOUS
    <3> QED BY <1>1, <1>2, <3>1, <3>2
  <2>2. CASE q2 < q
    <3>1. n * (q2 + 1) <= n * q BY <1>1, <2>2
    <3>2. n * (q2 + 1) = n * q2 + n BY <1>1
    <3> QED BY <1>1, <1>2, <3>1, <3>2
  <2> QED BY <1>1, <2>1, <2>2
<1>4. r = r2 BY <1>1, <1>2, <1>3
<1> QED BY <1>3, <1>4 DEF q2, r2, x

LEMMA RemainderOfSmall ==
    ASSUME NEW n \in Nat \ {0}, NEW x \in 0 .. n - 1
    PROVE  x % n = x
<1>1. (n * 0 + x) % n = x BY RemainderIsUnique
<1>2. n * 0 + x = x OBVIOUS
<1> QED BY <1>1, <1>2

(* The padding of block_cipher_df fills the last block. *)
LEMMA PaddingFills ==
    ASSUME NEW n \in Nat \ {0}, NEW u \in Nat
    PROVE  /\ (n - (u % n)) % n \in 0 .. n - 1
           /\ (u + ((n - (u % n)) % n)) % n = 0
<1> DEFINE q == u \div n
           r == u % n
<1>1. q \in Nat /\ r \in 0 .. n - 1 /\ u = n * q + r
  OBVIOUS
<1> HIDE DEF q, r
<1>2. CASE r = 0
  <2>1. (n * 1 + 0) % n = 0 BY RemainderIsUnique
  <2>2. (n - r) % n = 0 BY <2>1, <1>2
  <2>3. (n * q + 0) % n = 0 BY <1>1, RemainderIsUnique
  <2>4. u + ((n - r) % n) = n * q + 0 BY <1>1, <1>2, <2>2
  <2> QED BY <2>2, <2>3, <2>4 DEF r
<1>3. CASE r # 0
  <2>1. (n - r) % n = n - r BY <1>1, <1>3, RemainderOfSmall
  <2>2. (n * (q + 1) + 0) % n = 0 BY <1>1, RemainderIsUnique
  <2>3. u + (n - r) = n * (q + 1) + 0 BY <1>1
  <2> QED BY <1>1, <1>3, <2>1, <2>2, <2>3 DEF r
<1> QED BY <1>2, <1>3

(* Between two multiples of n there are n numbers. *)
LEMMA MultiplesApart ==
    ASSUME NEW n \in Nat \ {0}, NEW a \in Nat, NEW b \in Nat,
           a % n = 0, b % n = 0
    PROVE  (a + n) % n = 0 /\ (a < b => a + n <= b)
<1> DEFINE p == a \div n
           q == b \div n
<1>1. p \in Nat /\ q \in Nat /\ a = n * p /\ b = n * q
  OBVIOUS
<1> HIDE DEF p, q
<1>2. (n * (p + 1) + 0) % n = 0 BY <1>1, RemainderIsUnique
<1>3. a + n = n * (p + 1) + 0 BY <1>1
<1>4. ASSUME a < b PROVE a + n <= b
  <2>1. p < q
    <3> SUFFICES ASSUME q <= p PROVE FALSE BY <1>1
    <3>1. n * q <= n * p BY <1>1
    <3> QED BY <1>1, <1>4, <3>1
  <2>2. n * (p + 1) <= n * q BY <1>1, <2>1
  <2> QED BY <1>1, <1>3, <2>2
<1> QED BY <1>2, <1>3, <1>4

(* A length that block_cipher_df accepts gives a buffer that is a whole    *)
(* number of blocks and has room for the round block, both lengths, the    *)
(* input and the marker: no sum has wrapped.                               *)
LEMMA AcceptedLength ==
    ASSUME NEW n \in Nat, ~LengthRejected(n)
    PROVE  /\ BccInputLen(n) \in Nat
           /\ BccInputLen(n) % BlockBytes = 0
           /\ BlockBytes + 2 * LengthBytes + n < BccInputLen(n)
          /\ PaddingLen(n) \in 0 .. BlockBytes - 1
          /\ (2 * LengthBytes + n + 1 + PaddingLen(n)) % BlockBytes = 0
          /\ BccInputLen(n)
                 = BlockBytes + (2 * LengthBytes + n + 1) + PaddingLen(n)
<1> DEFINE u == 2 * LengthBytes + n + 1
           B == BlockBytes
<1>1. B \in Nat \ {0} /\ LengthBytes \in Nat \ {0} /\ SizeMax \in Nat
  BY CtrSizes
<1>2. \A x \in 0..SizeMax : InSize(x) = x
  BY <1>1, RemainderOfSmall DEF InSize
<1>3. u \in 0..SizeMax BY <1>1 DEF LengthRejected
<1>4. UnpaddedLen(n) = u BY <1>2, <1>3 DEF UnpaddedLen
<1>5. /\ PaddingLen(n) \in 0 .. B - 1
      /\ (u + PaddingLen(n)) % B = 0
  BY <1>1, <1>3, <1>4, PaddingFills DEF PaddingLen
<1>6. u + PaddingLen(n) <= SizeMax
  BY <1>1, <1>3, <1>4, <1>5 DEF LengthRejected
<1>7. StringLen(n) = u + PaddingLen(n)
  BY <1>1, <1>2, <1>3, <1>4, <1>5, <1>6 DEF StringLen
<1>8. StringLen(n) + B <= SizeMax
  BY <1>1, <1>3, <1>5, <1>7 DEF LengthRejected
<1>9. BccInputLen(n) = StringLen(n) + B
  BY <1>1, <1>2, <1>3, <1>5, <1>7, <1>8 DEF BccInputLen
<1>10. (StringLen(n) + B) % B = 0
  BY <1>1, <1>3, <1>5, <1>7, MultiplesApart
<1> QED BY <1>1, <1>3, <1>5, <1>7, <1>9, <1>10

(* A quotient is divided again by dividing by the product. *)
LEMMA QuotientOfQuotient ==
    ASSUME NEW x \in Nat, NEW a \in Nat \ {0}, NEW b \in Nat \ {0}
    PROVE  /\ a * b \in Nat \ {0}
           /\ (x \div a) \div b = x \div (a * b)
           /\ x % (a * b) = a * ((x \div a) % b) + (x % a)
<1> DEFINE q == x \div a  r == x % a  q2 == q \div b  d == q % b
<1>1. q \in Nat /\ r \in 0 .. a - 1 /\ x = a * q + r OBVIOUS
<1>2. q2 \in Nat /\ d \in 0 .. b - 1 /\ q = b * q2 + d BY <1>1
<1> HIDE DEF q, r, q2, d
<1>3. a * b \in Nat \ {0}
  <2>1. a * b >= a BY \A m, n \in Nat \ {0} : m * n >= m
  <2> QED BY <2>1
<1>4. a * d + r \in 0 .. a * b - 1
  <2>1. d + 1 <= b /\ d \in Nat BY <1>2
  <2>2. a * (d + 1) <= a * b BY <2>1
  <2>3. a * (d + 1) = a * d + a /\ a * d \in Nat BY <2>1
  <2> DEFINE ab == a * b  ad == a * d
  <2>4. ab \in Nat /\ ad \in Nat /\ ad + a <= ab BY <1>3, <2>2, <2>3
  <2> HIDE DEF ab, ad
  <2>5. ad + r \in 0 .. ab - 1 BY <1>1, <2>4
  <2> QED BY <2>5 DEF ab, ad
<1>5. x = (a * b) * q2 + (a * d + r)
  <2>1. a * q = a * (b * q2) + a * d BY <1>2
  <2>2. a * (b * q2) = (a * b) * q2 BY <1>2
  <2>3. a * q \in Nat /\ a * d \in Nat /\ (a * b) * q2 \in Nat
    BY <1>1, <1>2, <1>3
  <2> QED BY <1>1, <2>1, <2>2, <2>3
<1> DEFINE ab == a * b  t == a * d + r
<1>6. ab \in Nat \ {0} /\ t \in 0 .. ab - 1 /\ x = ab * q2 + t
  BY <1>3, <1>4, <1>5
<1> HIDE DEF ab, t
<1>7. x % ab = t /\ x \div ab = q2 BY <1>2, <1>6, RemainderIsUnique
<1> QED BY <1>3, <1>7 DEF ab, t, q, r, q2, d

LEMMA QuotientByProduct ==
    \A x \in Nat : \A a, b \in Nat \ {0} : x \div (a * b) = (x \div a) \div b
OBVIOUS

(* Adding one changes a quotient when the remainder is at its end. *)
LEMMA NextQuotient ==
    ASSUME NEW x \in Nat, NEW n \in Nat \ {0}
    PROVE  /\ (x + 1) \div n = IF x % n = n - 1 THEN (x \div n) + 1
                                               ELSE x \div n
           /\ (x + 1) % n = ((x % n) + 1) % n
<1> DEFINE q == x \div n  r == x % n
<1>1. q \in Nat /\ r \in 0 .. n - 1 /\ x = n * q + r OBVIOUS
<1> HIDE DEF q, r
<1>2. CASE r = n - 1
  <2>1. x + 1 = n * (q + 1) + 0 BY <1>1, <1>2
  <2>2. (x + 1) \div n = q + 1 /\ (x + 1) % n = 0
    BY <1>1, <2>1, RemainderIsUnique
  <2>3. (n * 1 + 0) % n = 0 BY RemainderIsUnique
  <2>4. n * 1 + 0 = r + 1 BY <1>2
  <2>5. (r + 1) % n = 0 BY <2>3, <2>4
  <2> QED BY <1>2, <2>2, <2>5 DEF q, r
<1>3. CASE r # n - 1
  <2>1. r + 1 \in 0 .. n - 1 /\ x + 1 = n * q + (r + 1) BY <1>1, <1>3
  <2>2. (x + 1) \div n = q /\ (x + 1) % n = r + 1
    BY <1>1, <2>1, RemainderIsUnique
  <2>3. (r + 1) % n = r + 1 BY <2>1, RemainderOfSmall
  <2> QED BY <1>3, <2>2, <2>3 DEF q, r
<1> QED BY <1>2, <1>3

-----------------------------------------------------------------------------
(* Induction and recursion.                                                *)

(* Induction over the naturals, for a set of them. *)
LEMMA SetInduction ==
    ASSUME NEW S, 0 \in S, \A n \in Nat : n \in S => n + 1 \in S
    PROVE  Nat \subseteq S
<1> SUFFICES ASSUME Nat \ S # {} PROVE FALSE OBVIOUS
<1> DEFINE less == OpToRel(<, Nat)
<1>1. IsWellFoundedOn(less, Nat) BY NatLessThanWellFounded
<1>2. \A m, n \in Nat : m < n => <<m, n>> \in less BY DEF OpToRel
<1> HIDE DEF less
<1>3. PICK n \in Nat \ S : \A m \in Nat \ S : ~(<<m, n>> \in less)
  BY <1>1, WFMin
<1>4. n - 1 \in Nat /\ n - 1 < n BY <1>3
<1>5. n - 1 \in S BY <1>2, <1>3, <1>4
<1> QED BY <1>3, <1>4, <1>5

(* f starts with first, and G makes each value of the one before it. *)
Follows(f, first, G, n) ==
    \A k \in 0 .. n : f[k] = IF k = 0 THEN first ELSE G[<<k, f[k - 1]>>]

(* Such a function exists: what the recursive definitions of CtrBlocks and *)
(* CtrPromise choose is a function that unfolds as they say.               *)
LEMMA RecursionExists ==
    ASSUME NEW n \in Nat, NEW T, NEW first \in T, NEW G \in [Nat \X T -> T]
    PROVE  \E f \in [0 .. n -> T] : Follows(f, first, G, n)
<1> DEFINE S == {m \in Nat : \E f \in [0 .. m -> T] : Follows(f, first, G, m)}
<1>1. 0 \in S
  <2>1. /\ [k \in 0 .. 0 |-> first] \in [0 .. 0 -> T]
        /\ Follows([k \in 0 .. 0 |-> first], first, G, 0)
    BY DEF Follows
  <2> QED BY <2>1
<1>2. ASSUME NEW m \in Nat, m \in S PROVE m + 1 \in S
  <2>1. PICK f \in [0 .. m -> T] : Follows(f, first, G, m) BY <1>2
  <2> DEFINE next == [k \in 0 .. m + 1 |->
                         IF k <= m THEN f[k] ELSE G[<<m + 1, f[m]>>]]
  <2>2. f[m] \in T /\ G[<<m + 1, f[m]>>] \in T
    <3>1. f[m] \in T OBVIOUS
    <3>2. <<m + 1, f[m]>> \in Nat \X T BY <3>1
    <3> QED BY <3>1, <3>2
  <2>3. next \in [0 .. m + 1 -> T] BY <2>2
  <2>4. \A k \in 0 .. m : next[k] = f[k] OBVIOUS
  <2>5. next[m + 1] = G[<<m + 1, f[m]>>] OBVIOUS
  <2> HIDE DEF next
  <2>6. ASSUME NEW k \in 0 .. m + 1
        PROVE  next[k] = IF k = 0 THEN first ELSE G[<<k, next[k - 1]>>]
    <3>1. CASE k \in 0 .. m
      <4>1. k = 0 \/ k - 1 \in 0 .. m BY <3>1
      <4> QED BY <2>1, <2>4, <3>1, <4>1 DEF Follows
    <3>2. CASE k = m + 1
      <4>1. k # 0 /\ k - 1 = m /\ m \in 0 .. m BY <3>2
      <4> QED BY <2>4, <2>5, <3>2, <4>1
    <3> QED BY <3>1, <3>2
  <2>7. Follows(next, first, G, m + 1) BY <2>6 DEF Follows
  <2>8. m + 1 \in Nat OBVIOUS
  <2> QED BY <2>3, <2>7, <2>8
<1> HIDE DEF S
<1>3. n \in S BY <1>1, <1>2, SetInduction
<1> QED BY <1>3 DEF S

-----------------------------------------------------------------------------
(* Powers and digits.                                                      *)

LEMMA Sizes ==
    /\ ByteBase \in Nat \ {0, 1} /\ BlockBytes \in Nat \ {0}
    /\ KeyBytes \in Nat \ {0} /\ SeedBytes \in Nat \ {0}
    /\ LengthBytes \in 1 .. BlockBytes
    /\ Byte \subseteq Nat /\ 0 \in Byte
BY CtrSizes DEF SeedBytes, Byte

LEMMA PowersUnfold ==
    /\ Power[0] = 1
    /\ \A k \in 0 .. BlockBytes : Power[k] \in Nat \ {0}
    /\ \A k \in 1 .. BlockBytes : Power[k] = Power[k - 1] * ByteBase
<1> DEFINE T == Nat \ {0}
           G == [p \in Nat \X T |-> ByteBase * p[2]]
           IsPower(f) == f = [k \in 0 .. BlockBytes |->
                                 IF k = 0 THEN 1 ELSE ByteBase * f[k - 1]]
<1>1. \A x \in T : ByteBase * x \in T /\ ByteBase * x = x * ByteBase
  <2>1. \A m, n \in Nat \ {0} : m * n \in Nat \ {0} /\ m * n = n * m OBVIOUS
  <2> QED BY <2>1, Sizes
<1>2. G \in [Nat \X T -> T] BY <1>1
<1>3. \A k \in Nat, x \in T : G[<<k, x>>] = ByteBase * x OBVIOUS
<1> HIDE DEF G
<1>4. 1 \in T /\ BlockBytes \in Nat BY Sizes
<1>5. PICK f \in [0 .. BlockBytes -> T] : Follows(f, 1, G, BlockBytes)
  BY <1>2, <1>4, RecursionExists
<1>6. ASSUME NEW k \in 0 .. BlockBytes
      PROVE  f[k] = IF k = 0 THEN 1 ELSE ByteBase * f[k - 1]
  <2>1. CASE k = 0 BY <1>5, <2>1 DEF Follows
  <2>2. CASE k # 0
    <3>1. k \in Nat /\ k - 1 \in 0 .. BlockBytes BY <1>4, <2>2
    <3>2. f[k - 1] \in T BY <3>1
    <3> QED BY <1>3, <1>5, <2>2, <3>1, <3>2 DEF Follows
  <2> QED BY <2>1, <2>2
<1>7. IsPower(f) BY <1>6
<1>8. Power = CHOOSE g : IsPower(g) BY DEF Power
<1>9. IsPower(Power) BY <1>7, <1>8
<1> HIDE DEF IsPower
<1>10. Power = [k \in 0 .. BlockBytes |->
                   IF k = 0 THEN 1 ELSE ByteBase * Power[k - 1]]
  BY <1>9 DEF IsPower
<1>11. Power[0] = 1 BY <1>4, <1>10
<1>12. ASSUME NEW k \in 1 .. BlockBytes
       PROVE  Power[k] = ByteBase * Power[k - 1]
  <2>1. k \in 0 .. BlockBytes /\ k # 0 BY <1>4
  <2> QED BY <1>10, <2>1
<1>13. \A k \in 0 .. BlockBytes : Power[k] \in T
  <2> DEFINE S == {k \in Nat : k <= BlockBytes => Power[k] \in T}
  <2>1. 0 \in S BY <1>11
  <2>2. ASSUME NEW k \in Nat, k \in S PROVE k + 1 \in S
    <3> SUFFICES ASSUME k + 1 <= BlockBytes PROVE Power[k + 1] \in T OBVIOUS
    <3>1. Power[k] \in T /\ k + 1 \in 1 .. BlockBytes /\ (k + 1) - 1 = k
      BY <1>4, <2>2
    <3> HIDE DEF T
    <3> QED BY <1>1, <1>12, <3>1
  <2> HIDE DEF S
  <2>3. Nat \subseteq S BY <2>1, <2>2, SetInduction
  <2> QED BY <2>3 DEF S
<1>14. \A k \in 1 .. BlockBytes : Power[k - 1] \in T
  <2>1. \A k \in 1 .. BlockBytes : k - 1 \in 0 .. BlockBytes BY <1>4
  <2> QED BY <1>13, <2>1
<1> QED BY <1>1, <1>11, <1>12, <1>13, <1>14

-----------------------------------------------------------------------------
(* Bytes. *)

LEMMA WriteKeepsBytes ==
    ASSUME NEW n \in Nat, NEW dest \in [1..n -> Byte], NEW at, NEW bytes,
           \A j \in DOMAIN bytes : bytes[j] \in Byte
    PROVE  WriteAt(dest, at, bytes) \in [1..n -> Byte]
BY DEF WriteAt

LEMMA ZeroesAreBytes ==
    ASSUME NEW n \in Nat
    PROVE  ZeroBytes(n) \in [1..n -> Byte]
BY CtrSizes DEF ZeroBytes, Byte

LEMMA NumbersAreBytes ==
    ASSUME NEW x \in Nat
    PROVE  \A j \in DOMAIN BigEndian(x) : BigEndian(x)[j] \in Byte
<1> SUFFICES ASSUME NEW j \in 1..LengthBytes PROVE BigEndian(x)[j] \in Byte
  BY DEF BigEndian
<1>1. ByteBase \in Nat \ {0} /\ LengthBytes - j \in 0..BlockBytes BY CtrSizes
<1>2. Power[LengthBytes - j] \in Nat \ {0} BY <1>1, PowersUnfold
<1> DEFINE q == x \div Power[LengthBytes - j]
<1>3. q \in Nat BY <1>2
<1> HIDE DEF q
<1>4. q % ByteBase \in 0 .. ByteBase - 1 BY <1>1, <1>3
<1> QED BY <1>4 DEF BigEndian, q, Byte

LEMMA IncrementKeepsBlock ==
    ASSUME NEW counter \in Block
    PROVE  CounterIncrement(counter) \in Block
<1>1. ByteBase \in Nat \ {0} BY CtrSizes
<1>2. \A x \in Byte : (x + 1) % ByteBase \in Byte BY <1>1 DEF Byte
<1> QED BY <1>2 DEF CounterIncrement, Block

LEMMA InitialKeyIsKey == InitialKey \in Key
<1>1. ByteBase \in Nat \ {0} /\ KeyBytes \in Nat BY CtrSizes
<1>2. \A i \in 1..KeyBytes : (i - 1) % ByteBase \in Byte BY <1>1 DEF Byte
<1> QED BY <1>2 DEF InitialKey, Key

(* What block_cipher_df prepares is of the size it allocated. *)
LEMMA StringOfBytes ==
    ASSUME NEW input, input.len \in Nat, ~LengthRejected(input.len),
           input.data \in Seq(Byte)
    PROVE  DfString(input) \in [1..BccInputLen(input.len) -> Byte]
<1> DEFINE n == BccInputLen(input.len)
           z == ZeroBytes(n)
           at == BlockBytes + LengthBytes
           l == WriteAt(WriteAt(z, BlockBytes, BigEndian(input.len)),
                        at, BigEndian(SeedBytes))
           f == IF input.len > 0 THEN WriteAt(l, at + LengthBytes, input.data)
                                 ELSE l
<1>1. n \in Nat BY AcceptedLength
<1>2. SeedBytes \in Nat BY CtrSizes DEF SeedBytes
<1>3. z \in [1..n -> Byte] BY <1>1, ZeroesAreBytes
<1>4. l \in [1..n -> Byte]
  <2> HIDE DEF z, at, n
  <2>1. WriteAt(z, BlockBytes, BigEndian(input.len)) \in [1..n -> Byte]
    BY <1>1, <1>3, NumbersAreBytes, WriteKeepsBytes
  <2> QED BY <1>1, <1>2, <2>1, NumbersAreBytes, WriteKeepsBytes
<1>5. f \in [1..n -> Byte]
  <2> HIDE DEF l, at, n
  <2>1. \A j \in DOMAIN input.data : input.data[j] \in Byte OBVIOUS
  <2> QED BY <1>1, <1>4, <2>1, WriteKeepsBytes
<1>6. EndMarker \in Byte
  <2>1. \A b \in Nat \ {0} : b \div 2 \in 0 .. b - 1 OBVIOUS
  <2> QED BY CtrSizes, <2>1 DEF EndMarker, Byte
<1>7. WriteAt(f, at + LengthBytes + input.len, <<EndMarker>>) \in [1..n -> Byte]
  <2> HIDE DEF f, at, n
  <2>1. \A j \in DOMAIN <<EndMarker>> : <<EndMarker>>[j] \in Byte BY <1>6
  <2> QED BY <1>1, <1>5, <2>1, WriteKeepsBytes
<1> QED BY <1>7 DEF DfString

LEMMA RoundBlockKeepsBytes ==
    ASSUME NEW n \in Nat, NEW string \in [1..n -> Byte], NEW r \in Nat
    PROVE  RoundBlock(string, r) \in [1..n -> Byte]
<1> DEFINE cleared == WriteAt(string, 0, ZeroBytes(BlockBytes))
<1>1. cleared \in [1..n -> Byte]
  <2>1. ZeroBytes(BlockBytes) \in [1..BlockBytes -> Byte]
    BY CtrSizes, ZeroesAreBytes
  <2> QED BY <2>1, WriteKeepsBytes
<1> HIDE DEF cleared
<1>2. WriteAt(cleared, 0, BigEndian(r)) \in [1..n -> Byte]
  BY <1>1, NumbersAreBytes, WriteKeepsBytes
<1> QED BY <1>2 DEF RoundBlock, cleared

(* A seed is a key and a block. *)
LEMMA SeedSplits ==
    ASSUME NEW s \in [1..SeedBytes -> Byte]
    PROVE  /\ BytesAt(s, 0, KeyBytes) \in Key
           /\ BytesAt(s, KeyBytes, BlockBytes) \in Block
<1>1. \A i \in 1..KeyBytes : s[0 + i] \in Byte BY CtrSizes DEF SeedBytes
<1>2. \A i \in 1..BlockBytes : s[KeyBytes + i] \in Byte
  BY CtrSizes DEF SeedBytes
<1> QED BY <1>1, <1>2 DEF BytesAt, Key, Block

(* A function on 1..n is a sequence of length n. *)
LEMMA FunctionIsSequence ==
    ASSUME NEW n \in Nat, NEW s \in [1..n -> Byte]
    PROVE  s \in Seq(Byte) /\ Len(s) = n
OBVIOUS

-----------------------------------------------------------------------------
(* Type correctness, together with what ctr_drbg_bcc may rely on: its data *)
(* is a whole number of blocks, and a block of it is left.                 *)

LEMMA CallShapes ==
    ASSUME NEW c \in Calls
    PROVE  /\ c.op \in {"update", "bcc", "df"}
           /\ c.op = "update" => c.data \in [1..SeedBytes -> Byte]
           /\ c.op = "bcc" => c.key \in Key /\ c.data \in Seq(Byte)
           /\ c.op = "df" => c.input.len \in Nat /\ c.input.data \in Seq(Byte)
BY CallsAssumption DEF UpdateCall, BccCall, DfCall, Buffer

BlockLeft ==
    /\ bcc_offset % BlockBytes = 0 /\ bcc_offset < Len(BccData)
    /\ Len(BccData) % BlockBytes = 0

Shape ==
    /\ TypeOK
    /\ RoundsAccepted
    /\ pc = "alloc" => ~DfInvalid(call)
    /\ pc = "bcc" => BlockLeft

LEMMA ErasedFrames ==
    /\ ErasedUpdate \in UpdateFrame
    /\ ErasedBcc \in BccFrame
    /\ ErasedDf \in DfFrame
<1>1. /\ ZeroBytes(BlockBytes) \in Block /\ ZeroBytes(KeyBytes) \in Key
      /\ ZeroBytes(SeedBytes) \in [1..SeedBytes -> Byte]
  BY CtrSizes, ZeroesAreBytes DEF SeedBytes, Block, Key
<1> QED BY <1>1
  DEF ErasedUpdate, ErasedBcc, ErasedDf, UpdateFrame, BccFrame, DfFrame

LEMMA ShapeInit == Init => Shape
<1> SUFFICES ASSUME Init PROVE Shape OBVIOUS
<1>1. TypeOK
  BY ErasedFrames, CallsAssumption
  DEF Init, TypeOK, NoCall, UpdateFrame, BccFrame, DfFrame
<1> QED BY <1>1 DEF Init, Shape, RoundsAccepted, NoCall

(* The steps that make a call. *)
LEMMA ShapeOfCalls ==
    ASSUME Shape, Rejected \/ CallUpdate \/ CallBcc \/ CallDf
    PROVE  Shape'
<1> USE DEF Shape, UpdateFrame, BccFrame, DfFrame
<1>1. CASE Rejected
  <2>1. TypeOK'
    BY <1>1, CallsAssumption DEF Rejected, TypeOK, frames, loops, heap
  <2>2. pc = "idle" /\ pc' = "idle" /\ call' = call /\ status' = status
    BY <1>1 DEF Rejected
  <2> QED BY <2>1, <2>2 DEF RoundsAccepted, TypeOK, NoCall
<1>2. CASE CallUpdate
  <2>1. PICK c \in Calls :
            /\ c.op = "update" /\ Entered(c) /\ Goto("update")
            /\ update' = [update EXCEPT !.working_v = v] /\ offset' = 0
            /\ UNCHANGED <<bcc, df, bcc_offset, round, heap>>
    BY <1>2 DEF CallUpdate
  <2>2. TypeOK'
    <3>1. /\ UNCHANGED <<key, v, bcc, df, bcc_offset, round, status>>
          /\ UNCHANGED <<bcc_input, freed>>
          /\ call' = c /\ calls < MaxCalls /\ calls' = calls + 1
      BY <2>1 DEF Entered, Goto, heap
    <3>2. c # NoCall BY <2>1 DEF NoCall
    <3>3. update' \in UpdateFrame
      BY <2>1 DEF TypeOK
    <3>4. pc' = "update" /\ offset' = 0 BY <2>1 DEF Goto
    <3>5. calls' \in 0..MaxCalls BY <3>1, CallsAssumption DEF TypeOK
    <3> QED BY <2>1, <3>1, <3>2, <3>3, <3>4, <3>5 DEF TypeOK
  <2> QED BY <2>1, <2>2 DEF Entered, Goto, RoundsAccepted
<1>3. CASE CallBcc
  <2>1. PICK c \in Calls :
            /\ c.op = "bcc" /\ Entered(c) /\ Goto("bcc") /\ bcc_offset' = 0
            /\ UNCHANGED <<frames, offset, round, heap>>
    BY <1>3 DEF CallBcc
  <2>2. TypeOK'
    <3>1. /\ UNCHANGED <<key, v, update, bcc, df, offset, round, status>>
          /\ UNCHANGED <<bcc_input, freed>>
          /\ call' = c /\ calls < MaxCalls /\ calls' = calls + 1
      BY <2>1 DEF Entered, Goto, frames, heap
    <3>2. c # NoCall BY <2>1 DEF NoCall
    <3> QED
      BY <2>1, <3>1, <3>2, CallsAssumption DEF Goto, TypeOK
  <2>3. BlockLeft'
    <3>1. /\ call' = c /\ c.data \in Seq(Byte)
          /\ Len(c.data) # 0 /\ Len(c.data) % BlockBytes = 0
      BY <2>1, CallShapes DEF Entered, Invalid, BccInvalid
    <3>2. 0 % BlockBytes = 0 BY CtrSizes, RemainderOfSmall
    <3>3. Len(c.data) \in Nat BY <3>1
    <3>4. BccData' = c.data BY <2>1, <3>1 DEF BccData, ByCaller
    <3> QED BY <2>1, <3>1, <3>2, <3>3, <3>4 DEF BlockLeft
  <2> QED BY <2>1, <2>2, <2>3 DEF Entered, Goto, RoundsAccepted
<1>4. CASE CallDf
  <2>1. PICK c \in Calls :
            /\ c.op = "df" /\ Entered(c) /\ Goto("alloc")
            /\ UNCHANGED <<frames, loops, heap>>
    BY <1>4 DEF CallDf
  <2>2. TypeOK'
    BY <2>1, CallShapes, CallsAssumption
    DEF Entered, Goto, TypeOK, frames, loops, heap, NoCall
  <2>3. ~DfInvalid(c) /\ call' = c /\ pc' = "alloc"
    BY <2>1 DEF Entered, Goto, Invalid
  <2> QED BY <2>1, <2>2, <2>3 DEF Entered, Goto, RoundsAccepted, DfInvalid
<1> QED BY <1>1, <1>2, <1>3, <1>4

LEMMA UpdateShapes ==
    ASSUME NEW u, u \in UpdateFrame,
           NEW b \in Block, NEW at,
           NEW w, w \in {[u EXCEPT !.working_v = CounterIncrement(u.working_v)],
                  [[u EXCEPT !.working_v = CounterIncrement(u.working_v)]
                       EXCEPT !.temp = WriteAt(@, at, b)]}
    PROVE  w \in UpdateFrame
<1>1. CounterIncrement(u.working_v) \in Block
  BY IncrementKeepsBlock DEF UpdateFrame
<1>2. WriteAt(u.temp, at, b) \in [1..SeedBytes -> Byte]
  <2>1. \A j \in DOMAIN b : b[j] \in Byte BY DEF Block
  <2>2. u.temp \in [1..SeedBytes -> Byte] BY DEF UpdateFrame
  <2>3. SeedBytes \in Nat BY CtrSizes DEF SeedBytes
  <2> HIDE DEF UpdateFrame
  <2> QED BY ONLY <2>1, <2>2, <2>3, WriteKeepsBytes
<1> QED BY <1>1, <1>2 DEF UpdateFrame

(* The steps of ctr_drbg_update. *)
LEMMA ShapeOfUpdate ==
    ASSUME Shape, UpdateBlock \/ UpdateEnd
    PROVE  Shape'
<1> USE DEF Shape, UpdateFrame, BccFrame, DfFrame
<1>1. CASE UpdateBlock
  <2>1. Aes(key, CounterIncrement(update.working_v)) \in Block
    BY CipherAssumption, IncrementKeepsBlock DEF TypeOK
  <2>2. update' \in UpdateFrame
    BY <1>1, <2>1, UpdateShapes DEF UpdateBlock, TypeOK
  <2>3. /\ UNCHANGED <<key, v, call, calls, bcc, df, bcc_offset, round>>
        /\ UNCHANGED <<bcc_input, freed>>
        /\ pc = "update" /\ pc' \in {"update", "update_end"}
        /\ status' \in CipherFault \cup {status}
        /\ offset' \in {offset, offset + BlockBytes}
    BY <1>1 DEF UpdateBlock, Goto, Fail, caller, heap
  <2>4. offset' \in Nat BY <2>3, CtrSizes DEF TypeOK
  <2> QED
    BY <2>2, <2>3, <2>4 DEF TypeOK, RoundsAccepted, CipherFault, NoCall
<1>2. CASE UpdateEnd
  <2>1. call.data \in [1..SeedBytes -> Byte] /\ call.op = "update"
    BY <1>2, CallShapes DEF UpdateEnd, TypeOK
  <2>2. XorBytes(update.temp, call.data) \in [1..SeedBytes -> Byte]
    BY <2>1, XorAssumption DEF XorBytes, TypeOK
  <2>3. key' \in Key /\ v' \in Block
    BY <1>2, <2>2, SeedSplits DEF UpdateEnd, Commit, TypeOK
  <2>4. /\ UNCHANGED <<calls, bcc, df, offset, bcc_offset, round>>
        /\ UNCHANGED <<bcc_input, freed>>
        /\ update' = ErasedUpdate /\ call' = NoCall
        /\ pc' = "idle" /\ status' = "SUCCESS"
    BY <1>2 DEF UpdateEnd, UpdateCleanup, Return, loops, heap
  <2> QED BY <2>3, <2>4, ErasedFrames DEF TypeOK, RoundsAccepted, NoCall
<1> QED BY <1>1, <1>2

(* The steps of ctr_drbg_bcc. *)
LEMMA ShapeOfBcc ==
    ASSUME Shape, BccBlock \/ BccReturns
    PROVE  Shape'
<1> USE DEF Shape, UpdateFrame, BccFrame, DfFrame
<1>1. CASE BccBlock
  <2>1. /\ pc = "bcc" /\ pc' \in {"bcc", "bcc_end"}
        /\ status' \in CipherFault \cup {status}
        /\ UNCHANGED <<key, v, call, calls, update, df, offset, round>>
        /\ UNCHANGED <<bcc_input, freed>>
    BY <1>1 DEF BccBlock, Goto, Fail, caller, heap
  <2>2. BccData \in Seq(Byte) /\ BccKey \in Key
    BY <2>1, CallShapes DEF BccData, BccKey, ByCaller, TypeOK
  <2>3. /\ bcc_offset + BlockBytes <= Len(BccData)
        /\ (bcc_offset + BlockBytes) % BlockBytes = 0
    <3>1. Len(BccData) \in Nat BY <2>2
    <3> QED BY <2>1, <3>1, CtrSizes, MultiplesApart DEF BlockLeft, TypeOK
  <2>4. BytesAt(BccData, bcc_offset, BlockBytes) \in Block
    <3>1. \A i \in 1..BlockBytes : BccData[bcc_offset + i] \in Byte
      <4> SUFFICES ASSUME NEW i \in 1..BlockBytes
                   PROVE  BccData[bcc_offset + i] \in Byte
        OBVIOUS
      <4>1. bcc_offset + i \in 1 .. Len(BccData)
        BY <2>2, <2>3, CtrSizes DEF TypeOK
      <4> QED BY <2>2, <4>1
    <3> QED BY <3>1 DEF BytesAt, Block
  <2>5. BccInput \in Block
    BY <2>4, XorAssumption DEF BccInput, XorBytes, Block, TypeOK
  <2>6. Aes(BccKey, BccInput) \in Block BY <2>2, <2>5, CipherAssumption
  <2>7. bcc' \in BccFrame
    BY <1>1, <2>5, <2>6 DEF BccBlock, TypeOK
  <2>8. /\ bcc_offset' \in {bcc_offset, bcc_offset + BlockBytes}
        /\ pc' = "bcc" => /\ bcc_offset' = bcc_offset + BlockBytes
                          /\ bcc_offset' < Len(BccData)
    BY <1>1 DEF BccBlock, Goto, Fail
  <2>9. TypeOK'
    <3>1. bcc_offset' \in Nat BY <2>8, CtrSizes DEF TypeOK
    <3> QED BY <2>1, <2>7, <3>1 DEF TypeOK, CipherFault
  <2>10. BccData' = BccData BY <2>1 DEF BccData, ByCaller
  <2>11. pc' = "bcc" => BlockLeft'
    BY <2>1, <2>3, <2>8, <2>10 DEF BlockLeft
  <2> QED BY <2>1, <2>9, <2>11 DEF RoundsAccepted, CipherFault
<1>2. CASE BccReturns
  <2>1. /\ UNCHANGED <<key, v, calls, update, df, offset, bcc_offset, round>>
        /\ UNCHANGED <<bcc_input, freed>>
        /\ bcc' = ErasedBcc /\ call' = NoCall
        /\ pc' = "idle" /\ status' = "SUCCESS"
    BY <1>2 DEF BccReturns, BccCleanup, Return, loops, heap
  <2> QED BY <2>1, ErasedFrames DEF TypeOK, RoundsAccepted, NoCall
<1> QED BY <1>1, <1>2

(* What ctr_drbg_bcc writes to temp, and what block_cipher_df takes of it. *)
LEMMA FilledFrame ==
    ASSUME TypeOK,
           NEW filled,
           filled = [df EXCEPT !.temp = BccOutput(@, round * BlockBytes)]
    PROVE  /\ filled \in DfFrame
           /\ Derived(filled) \in DfFrame
<1>1. BccOutput(df.temp, round * BlockBytes) \in [1..SeedBytes -> Byte]
  <2>1. \A j \in DOMAIN bcc.chaining_value : bcc.chaining_value[j] \in Byte
    BY DEF TypeOK, Block, BccFrame
  <2>2. df.temp \in [1..SeedBytes -> Byte] /\ SeedBytes \in Nat
    BY CtrSizes DEF TypeOK, SeedBytes, DfFrame
  <2> QED BY <2>1, <2>2, WriteKeepsBytes DEF BccOutput
<1>2. filled \in DfFrame
  BY <1>1 DEF TypeOK, DfFrame
<1>3. /\ BytesAt(filled.temp, 0, KeyBytes) \in Key
      /\ BytesAt(filled.temp, KeyBytes, BlockBytes) \in Block
  BY <1>2, SeedSplits DEF DfFrame
<1> QED BY <1>2, <1>3 DEF Derived, DfFrame

(* The steps of block_cipher_df. *)
LEMMA ShapeOfAlloc == ASSUME Shape, Alloc PROVE Shape'
<1> USE DEF Shape, UpdateFrame, BccFrame, DfFrame
<1>1. /\ UNCHANGED <<key, v, update, bcc, offset, freed>>
      /\ pc = "alloc" /\ call.op = "df" /\ call \in Calls
  <2>1. pc = "alloc" /\ UNCHANGED <<key, v, update, bcc, offset, freed>>
    BY DEF Alloc
  <2> QED BY <2>1 DEF TypeOK, NoCall
<1>2. CASE Return("MEMORY_ERROR", FreshOutput)
           /\ UNCHANGED <<df, round, bcc_input, bcc_offset>>
  <2>1. /\ UNCHANGED <<calls, df, round, bcc_input, bcc_offset>>
        /\ call' = NoCall /\ pc' = "idle" /\ status' = "SUCCESS"
    BY <1>2 DEF Return
  <2> QED BY <1>1, <2>1 DEF TypeOK, RoundsAccepted, NoCall
<1>3. CASE /\ df' = [df EXCEPT !.initial_key = InitialKey]
           /\ round' = 0
           /\ bcc_input' = RoundBlock(DfString(call.input), 0)
           /\ CallBccOfRound(bcc_input')
           /\ UNCHANGED <<reply, call, calls>>
  <2> DEFINE n == BccInputLen(call.input.len)
  <2>1. call.input.len \in Nat /\ ~LengthRejected(call.input.len)
    BY <1>1, CallShapes DEF DfInvalid
  <2>2. /\ n \in Nat /\ n % BlockBytes = 0
        /\ BlockBytes + 2 * LengthBytes + call.input.len < n
    BY <2>1, AcceptedLength
  <2>3. bcc_input' \in [1..n -> Byte]
    <3>1. DfString(call.input) \in [1..n -> Byte]
      BY <1>1, <2>1, CallShapes, StringOfBytes
    <3> HIDE DEF n
    <3> QED BY <1>3, <2>2, <3>1, RoundBlockKeepsBytes
  <2> HIDE DEF n
  <2>4. bcc_input' \in Seq(Byte) /\ Len(bcc_input') = n
    BY <2>2, <2>3, FunctionIsSequence
  <2>5. n # 0 /\ 0 < n BY <2>1, <2>2, CtrSizes
  <2>6. pc' = "bcc" /\ status' = status /\ bcc_offset' = 0
    BY <1>3, <2>2, <2>4, <2>5 DEF CallBccOfRound, Goto
  <2>7. TypeOK'
    <3>1. df' \in DfFrame
      BY <1>3, InitialKeyIsKey DEF TypeOK
    <3> QED BY <1>1, <1>3, <2>4, <2>6, <3>1 DEF TypeOK
  <2>8. BccData' = bcc_input' BY <1>1, <1>3 DEF BccData, ByCaller
  <2>9. 0 % BlockBytes = 0 BY CtrSizes, RemainderOfSmall
  <2> QED
    BY <1>1, <1>3, <2>2, <2>4, <2>5, <2>6, <2>7, <2>8, <2>9
    DEF BlockLeft, RoundsAccepted
<1> QED BY <1>2, <1>3 DEF Alloc

LEMMA ShapeOfRounds == ASSUME Shape, RoundEnds PROVE Shape'
<1> USE DEF Shape, UpdateFrame, BccFrame, DfFrame
<1> DEFINE next   == round + 1
           filled == [df EXCEPT !.temp = BccOutput(@, round * BlockBytes)]
<1>1. /\ UNCHANGED <<key, v, call, calls, update, freed>>
      /\ pc = "bcc_end" /\ call.op = "df" /\ bcc' = ErasedBcc
  BY DEF RoundEnds, BccCleanup, caller, ByCaller, TypeOK
<1>2. /\ filled \in DfFrame
      /\ Derived(filled) \in DfFrame
  BY FilledFrame
<1>3. next \in Nat BY DEF TypeOK
<1> HIDE DEF next, filled
<1>4. CASE /\ status = "SUCCESS"
           /\ df' = filled
           /\ round' = next
           /\ bcc_input' = RoundBlock(bcc_input, next)
           /\ CallBccOfRound(bcc_input)
           /\ UNCHANGED offset
  <2> DEFINE n == Len(bcc_input)
  <2>1. /\ n \in Nat /\ n % BlockBytes = 0
        /\ BlockBytes + 2 * LengthBytes + call.input.len < n
        /\ bcc_input \in [1..n -> Byte] /\ call.input.len \in Nat
    <3>1. call.input.len \in Nat BY <1>1, CallShapes DEF TypeOK, NoCall
    <3> QED BY <1>1, <3>1 DEF RoundsAccepted, TypeOK
  <2> HIDE DEF n
  <2>2. bcc_input' \in Seq(Byte) /\ Len(bcc_input') = n
    BY <1>3, <1>4, <2>1, FunctionIsSequence, RoundBlockKeepsBytes
  <2>3. n # 0 /\ 0 < n BY <2>1, CtrSizes
  <2>4. pc' = "bcc" /\ status' = status /\ bcc_offset' = 0
    BY <1>4, <2>1, <2>3 DEF CallBccOfRound, Goto, n
  <2>5. TypeOK'
    BY <1>1, <1>2, <1>3, <1>4, <2>2, <2>4, ErasedFrames DEF TypeOK
  <2>6. BccData' = bcc_input' BY <1>1 DEF BccData, ByCaller
  <2>7. 0 % BlockBytes = 0 BY CtrSizes, RemainderOfSmall
  <2> QED
    BY <1>1, <2>1, <2>2, <2>3, <2>4, <2>5, <2>6, <2>7
    DEF BlockLeft, RoundsAccepted
<1>5. CASE /\ df' = Derived(filled)
           /\ offset' = 0
           /\ Goto("encrypt")
           /\ UNCHANGED <<round, bcc_input, bcc_offset>>
  <2>1. TypeOK' BY <1>1, <1>2, <1>5, ErasedFrames DEF Goto, TypeOK
  <2> QED BY <1>1, <1>5, <2>1 DEF Goto, RoundsAccepted
<1>6. CASE /\ df' = filled
           /\ Goto("df_end")
           /\ UNCHANGED <<offset, round, bcc_input, bcc_offset>>
  <2>1. TypeOK' BY <1>1, <1>2, <1>6, ErasedFrames DEF Goto, TypeOK
  <2> QED BY <1>1, <1>6, <2>1 DEF Goto, RoundsAccepted
<1> QED BY <1>4, <1>5, <1>6 DEF RoundEnds, next, filled

LEMMA ShapeOfDf ==
    ASSUME Shape, DfBlock \/ DfReturns
    PROVE  Shape'
<1> USE DEF Shape, UpdateFrame, BccFrame, DfFrame
<1>1. CASE DfBlock
  <2>1. Aes(df.derived_key, df.x) \in Block BY CipherAssumption DEF TypeOK
  <2>2. WriteAt(df.result, offset, Aes(df.derived_key, df.x))
            \in [1..SeedBytes -> Byte]
    <3>1. \A j \in DOMAIN Aes(df.derived_key, df.x) :
              Aes(df.derived_key, df.x)[j] \in Byte
      BY <2>1 DEF Block
    <3>2. df.result \in [1..SeedBytes -> Byte] /\ SeedBytes \in Nat
      BY CtrSizes DEF TypeOK, SeedBytes
    <3> QED BY <3>1, <3>2, WriteKeepsBytes
  <2>3. df' \in DfFrame
    BY <1>1, <2>1, <2>2 DEF DfBlock, DfChain, TypeOK
  <2>4. /\ UNCHANGED <<key, v, call, calls, update, bcc, bcc_offset, round>>
        /\ UNCHANGED <<bcc_input, freed>>
        /\ pc = "encrypt" /\ pc' \in {"encrypt", "df_end"}
        /\ status' \in CipherFault \cup {status}
        /\ offset' \in {offset, offset + BlockBytes}
    BY <1>1 DEF DfBlock, Goto, Fail, caller, heap
  <2>5. offset' \in Nat BY <2>4, CtrSizes DEF TypeOK
  <2>6. TypeOK' BY <2>3, <2>4, <2>5 DEF TypeOK, CipherFault
  <2> QED BY <2>4, <2>6 DEF RoundsAccepted, CipherFault
<1>2. CASE DfReturns
  <2>1. /\ UNCHANGED <<key, v, calls, update, bcc, offset, bcc_offset, round>>
        /\ df' = ErasedDf /\ bcc_input' = <<>>
        /\ freed' = ZeroBytes(Len(bcc_input))
        /\ call' = NoCall /\ pc' = "idle" /\ status' = "SUCCESS"
    BY <1>2 DEF DfReturns, DfCleanup, Return, loops
  <2>2. freed' \in Seq(Byte)
    <3>1. Len(bcc_input) \in Nat BY DEF TypeOK
    <3> QED BY <2>1, <3>1, ZeroesAreBytes, FunctionIsSequence
  <2> QED BY <2>1, <2>2, ErasedFrames DEF TypeOK, RoundsAccepted, NoCall
<1> QED BY <1>1, <1>2

LEMMA ShapeStep == Shape /\ [Next]_vars => Shape'
<1> SUFFICES ASSUME Shape, [Next]_vars PROVE Shape' OBVIOUS
<1>1. CASE UNCHANGED vars
  BY <1>1
  DEF vars, caller, frames, loops, heap, Shape, TypeOK, RoundsAccepted,
      BlockLeft, BccData, ByCaller
<1>2. CASE Next
  <2>1. CASE Done BY <2>1, <1>1 DEF Done
  <2> QED
    BY <1>2, <2>1, ShapeOfCalls, ShapeOfUpdate, ShapeOfBcc, ShapeOfAlloc,
       ShapeOfRounds, ShapeOfDf
    DEF Next, Steps
<1> QED BY <1>1, <1>2

LEMMA ShapeHolds == Spec => []Shape
<1>1. Init => Shape BY ShapeInit
<1>2. Shape /\ [Next]_vars => Shape' BY ShapeStep
<1> QED BY <1>1, <1>2, PTL DEF Spec

(* Every variable of CtrPrimitives keeps its type: in particular all bytes *)
(* are bytes, and no block is read past the end of ctr_drbg_bcc's data.    *)
THEOREM TypeCorrect == Spec => []TypeOK
<1>1. Shape => TypeOK BY DEF Shape
<1> QED BY <1>1, ShapeHolds, PTL

(* However long the input, what block_cipher_df allocates holds all it     *)
(* writes, and ctr_drbg_bcc accepts it: the size arithmetic never wraps.   *)
THEOREM RoundsAreAccepted == Spec => []RoundsAccepted
<1>1. Shape => RoundsAccepted BY DEF Shape
<1> QED BY <1>1, ShapeHolds, PTL

-----------------------------------------------------------------------------
(* Secrets.  Each function's locals hold something only between its entry  *)
(* and its exit.                                                           *)
Confined ==
    /\ pc \notin {"update", "update_end"} => update = ErasedUpdate
    /\ pc \notin {"bcc", "bcc_end"} => bcc = ErasedBcc
    /\ call.op # "df" \/ pc = "alloc" => df = ErasedDf /\ bcc_input = <<>>
    /\ \A i \in DOMAIN freed : freed[i] = 0

LEMMA ConfinedInit == Init => Confined
BY DEF Init, Confined

LEMMA ConfinedStep == TypeOK /\ Confined /\ [Next]_vars => Confined'
<1> SUFFICES ASSUME TypeOK, Confined, [Next]_vars PROVE Confined' OBVIOUS
<1> USE DEF Confined
<1>1. CASE UNCHANGED vars BY <1>1 DEF vars, caller, frames, loops, heap
<1>2. CASE Rejected BY <1>2 DEF Rejected, frames, loops, heap
<1>3. CASE CallUpdate
  BY <1>3 DEF CallUpdate, Entered, Goto, heap, TypeOK, NoCall
<1>4. CASE CallBcc
  BY <1>4 DEF CallBcc, Entered, Goto, frames, heap, TypeOK, NoCall
<1>5. CASE CallDf
  BY <1>5 DEF CallDf, Entered, Goto, frames, heap, TypeOK, NoCall
<1>6. CASE UpdateBlock
  <2>1. /\ UNCHANGED <<call, bcc, df, bcc_input, freed>>
        /\ pc = "update" /\ pc' \in {"update", "update_end"}
    BY <1>6 DEF UpdateBlock, Goto, Fail, caller, heap
  <2> QED BY <2>1
<1>7. CASE UpdateEnd
  BY <1>7 DEF UpdateEnd, UpdateCleanup, Return, heap, TypeOK, NoCall
<1>8. CASE BccBlock
  <2>1. /\ UNCHANGED <<call, update, df, bcc_input, freed>>
        /\ pc = "bcc" /\ pc' \in {"bcc", "bcc_end"}
    BY <1>8 DEF BccBlock, Goto, Fail, caller, heap
  <2> QED BY <2>1
<1>9. CASE BccReturns
  BY <1>9 DEF BccReturns, BccCleanup, Return, ByCaller, heap, NoCall
<1>10. CASE Alloc
  <2>1. /\ pc = "alloc" /\ call.op = "df" /\ UNCHANGED <<update, bcc, freed>>
        /\ pc' \notin {"update", "update_end", "alloc"}
    BY <1>10 DEF Alloc, Return, CallBccOfRound, Goto, TypeOK
  <2>2. \/ /\ pc' = "idle" /\ call' = NoCall
           /\ UNCHANGED <<df, bcc_input>>
        \/ call' = call
    BY <1>10 DEF Alloc, Return
  <2> QED BY <2>1, <2>2 DEF NoCall
<1>11. CASE RoundEnds
  <2>1. /\ pc = "bcc_end" /\ call.op = "df" /\ bcc' = ErasedBcc
        /\ UNCHANGED <<call, update, freed>>
        /\ pc' \in {"bcc", "encrypt", "df_end"}
    BY <1>11 DEF RoundEnds, BccCleanup, CallBccOfRound, Goto, ByCaller, caller,
       TypeOK
  <2> QED BY <2>1
<1>12. CASE DfBlock
  <2>1. /\ UNCHANGED <<call, update, bcc, freed>> /\ call.op = "df"
        /\ pc = "encrypt" /\ pc' \in {"encrypt", "df_end"}
    BY <1>12 DEF DfBlock, Goto, Fail, caller, heap, TypeOK
  <2> QED BY <2>1
<1>13. CASE DfReturns
  <2>1. \A i \in DOMAIN ZeroBytes(Len(bcc_input)) :
            ZeroBytes(Len(bcc_input))[i] = 0
    BY DEF ZeroBytes
  <2> QED BY <1>13, <2>1 DEF DfReturns, DfCleanup, Return
<1>14. CASE Done BY <1>1, <1>14 DEF Done
<1> QED
  BY <1>1, <1>2, <1>3, <1>4, <1>5, <1>6, <1>7, <1>8, <1>9, <1>10, <1>11,
     <1>12, <1>13, <1>14
  DEF Next, Steps

LEMMA ConfinedHolds == Spec => []Confined
<1>1. Init => Confined BY ConfinedInit
<1>2. TypeOK /\ Confined /\ [Next]_vars => Confined' BY ConfinedStep
<1> QED BY <1>1, <1>2, TypeCorrect, PTL DEF Spec

(* No key, chaining value or input outlives the call that worked with it,  *)
(* whichever of its exits it took, and no chaining value outlives its      *)
(* round of block_cipher_df.                                               *)
THEOREM NothingIsLeft == Spec => []NothingLeft
<1>1. TypeOK /\ Confined => NothingLeft
  BY DEF TypeOK, Confined, NothingLeft, NoCall
<1> QED BY <1>1, TypeCorrect, ConfinedHolds, PTL

-----------------------------------------------------------------------------
(* All or nothing.                                                         *)

LEMMA AnswerFields ==
    ASSUME NEW c, NEW s, NEW out
    PROVE  Answer(c, s, out).status = s /\ Answer(c, s, out).output = out
BY DEF Answer

FailureWritesNothing ==
    reply.status # "SUCCESS" => reply.output = FreshOutput

LEMMA FailureStep ==
    FailureWritesNothing /\ [Next]_vars => FailureWritesNothing'
<1> SUFFICES ASSUME FailureWritesNothing, [Next]_vars
             PROVE  FailureWritesNothing'
  OBVIOUS
<1> USE AnswerFields DEF FailureWritesNothing
<1>1. CASE UNCHANGED reply BY <1>1
<1>2. CASE Rejected BY <1>2 DEF Rejected
<1>3. CASE UpdateEnd BY <1>3 DEF UpdateEnd, Return
<1>4. CASE BccReturns BY <1>4 DEF BccReturns, Return, BccOutput
<1>5. CASE Alloc BY <1>5 DEF Alloc, Return
<1>6. CASE DfReturns BY <1>6 DEF DfReturns, Return, DfOutput
<1>7. CASE UNCHANGED vars BY <1>1, <1>7 DEF vars, caller
<1>8. CASE CallUpdate \/ CallBcc \/ CallDf
  BY <1>1, <1>8 DEF CallUpdate, CallBcc, CallDf, Entered
<1>9. CASE UpdateBlock \/ BccBlock \/ RoundEnds \/ DfBlock \/ Done
  BY <1>1, <1>9
  DEF UpdateBlock, BccBlock, RoundEnds, DfBlock, Done, caller, vars
<1> QED
  BY <1>2, <1>3, <1>4, <1>5, <1>6, <1>7, <1>8, <1>9 DEF Next, Steps

LEMMA KeyStep ==
    ASSUME TypeOK, [Next]_vars, <<key, v>>' # <<key, v>>
    PROVE  call.op = "update" /\ pc' = "idle" /\ reply'.status = "SUCCESS"
<1>1. CASE UpdateEnd
  <2>1. status = "SUCCESS" BY <1>1 DEF UpdateEnd, Commit
  <2> QED
    BY <1>1, <2>1, AnswerFields DEF UpdateEnd, Return, TypeOK
<1>2. CASE ~UpdateEnd
  <2>1. UNCHANGED <<key, v>>
    BY <1>2
    DEF Next, Steps, Rejected, CallUpdate, CallBcc, CallDf, Entered,
        UpdateBlock, BccBlock, BccReturns, Alloc, RoundEnds, DfBlock,
        DfReturns, Done, caller, vars
  <2> QED BY <2>1
<1> QED BY <1>1, <1>2

(* A failed call of the CTR_DRBG building blocks changes nothing of its    *)
(* caller's, wherever it failed, and Key and V are replaced as a pair.     *)
THEOREM CallsAreWhole == Spec => AllOrNothing
<1>1. Init => FailureWritesNothing
  BY AnswerFields DEF Init, FailureWritesNothing
<1>2. TypeOK /\ FailureWritesNothing /\ [Next]_vars =>
          [ /\ <<key, v>>' # <<key, v>> =>
                  /\ call.op = "update" /\ pc' = "idle"
                  /\ reply'.status = "SUCCESS"
            /\ reply'.status # "SUCCESS" => reply'.output = FreshOutput ]_vars
  BY KeyStep, FailureStep DEF FailureWritesNothing
<1> QED
  BY <1>1, <1>2, FailureStep, TypeCorrect, PTL DEF Spec, AllOrNothing

-----------------------------------------------------------------------------
(* The counter is a number.                                                *)

(* The digit of x that has k digits to its right. *)
DigitOf(x, k) == (x \div Power[k]) % ByteBase

ToBlock(x) == Promise!ToBytes(x, BlockBytes)

LEMMA SamePowers == Promise!Power = Power
BY DEF Promise!Power, Power

LEMMA EqualBlocks ==
    ASSUME NEW a \in Block, NEW b \in Block,
           \A i \in 1 .. BlockBytes : a[i] = b[i]
    PROVE  a = b
<1>1. /\ a = [i \in 1 .. BlockBytes |-> a[i]]
      /\ b = [i \in 1 .. BlockBytes |-> b[i]]
  BY DEF Block
<1>2. [i \in 1 .. BlockBytes |-> a[i]] = [i \in 1 .. BlockBytes |-> b[i]]
  OBVIOUS
<1> QED BY <1>1, <1>2

LEMMA BlockDigits ==
    ASSUME NEW x \in Nat
    PROVE  /\ ToBlock(x) \in Block
           /\ \A i \in 1 .. BlockBytes :
                  ToBlock(x)[i] = DigitOf(x, BlockBytes - i)
<1>1. \A k \in 0 .. BlockBytes : DigitOf(x, k) \in Byte
  <2> TAKE k \in 0 .. BlockBytes
  <2>1. Power[k] \in Nat \ {0} BY PowersUnfold
  <2> DEFINE q == x \div Power[k]
  <2>2. q \in Nat BY <2>1
  <2> HIDE DEF q
  <2>3. q % ByteBase \in 0 .. ByteBase - 1 BY <2>2, Sizes
  <2> QED BY <2>3 DEF DigitOf, q, Byte
<1>2. \A i \in 1 .. BlockBytes : BlockBytes - i \in 0 .. BlockBytes BY Sizes
<1>3. ToBlock(x) = [i \in 1 .. BlockBytes |-> DigitOf(x, BlockBytes - i)]
  BY SamePowers DEF ToBlock, Promise!ToBytes, DigitOf
<1> QED BY <1>1, <1>2, <1>3 DEF Block

(* The digits to the right of the k-th are all at their end exactly when   *)
(* the number they make is.                                                *)
LEMMA FullDigits ==
    ASSUME NEW x \in Nat, NEW n \in 0 .. BlockBytes
    PROVE  (\A k \in 0 .. n - 1 : DigitOf(x, k) = ByteBase - 1)
               <=> x % Power[n] = Power[n] - 1
<1> DEFINE Full(m) == \A k \in 0 .. m - 1 : DigitOf(x, k) = ByteBase - 1
           S == {m \in Nat : m <= BlockBytes =>
                                (Full(m) <=> x % Power[m] = Power[m] - 1)}
<1>1. 0 \in S
  <2>1. Full(0) OBVIOUS
  <2>2. x % 1 = 0
    <3>1. (1 * x + 0) % 1 = 0 BY RemainderIsUnique
    <3>2. 1 * x + 0 = x OBVIOUS
    <3> QED BY <3>1, <3>2
  <2> QED BY <2>1, <2>2, PowersUnfold
<1>2. ASSUME NEW m \in Nat, m \in S PROVE m + 1 \in S
  <2> SUFFICES ASSUME m + 1 <= BlockBytes
               PROVE  Full(m + 1) <=> x % Power[m + 1] = Power[m + 1] - 1
    OBVIOUS
  <2> DEFINE P == Power[m]  d == DigitOf(x, m)  r == x % P
  <2>1. /\ m \in 0 .. BlockBytes /\ m + 1 \in 1 .. BlockBytes
        /\ (m + 1) - 1 = m
    BY Sizes
  <2>2. Full(m) <=> r = P - 1 BY <1>2, <2>1
  <2>3. Full(m + 1) <=> Full(m) /\ d = ByteBase - 1
    <3>1. \A k \in Int : k \in 0 .. (m + 1) - 1 <=> k \in 0 .. m - 1 \/ k = m
      OBVIOUS
    <3> QED BY <3>1
  <2>4. P \in Nat \ {0} /\ Power[m + 1] = P * ByteBase BY <2>1, PowersUnfold
  <2>5. x % (P * ByteBase) = P * d + r
    BY <2>4, QuotientOfQuotient, Sizes DEF DigitOf
  <2>6. d \in 0 .. ByteBase - 1 /\ r \in 0 .. P - 1
    <3> DEFINE q == x \div P
    <3>1. q \in Nat BY <2>4
    <3> HIDE DEF q
    <3>2. q % ByteBase \in 0 .. ByteBase - 1 BY <3>1, Sizes
    <3>3. x % P \in 0 .. P - 1 BY <2>4
    <3> QED BY <3>2, <3>3 DEF q, DigitOf
  <2> HIDE DEF P, d, r, Full
  <2>7. P * d + r = P * ByteBase - 1 <=> d = ByteBase - 1 /\ r = P - 1
    <3>1. P * ByteBase = P * (ByteBase - 1) + P BY <2>4, Sizes
    <3>2. CASE d = ByteBase - 1
      <4> DEFINE t == P * (ByteBase - 1)
      <4>1. t \in Nat /\ P * d = t BY <2>4, <3>2, Sizes
      <4> HIDE DEF t
      <4>2. t + r = (t + P) - 1 <=> r = P - 1 BY <2>4, <2>6, <4>1
      <4> QED BY <3>1, <3>2, <4>1, <4>2 DEF t
    <3>3. CASE d # ByteBase - 1
      <4>1. d + 1 <= ByteBase - 1 /\ d \in Nat BY <2>6, <3>3, Sizes
      <4>2. P * (d + 1) <= P * (ByteBase - 1) BY <2>4, <4>1, Sizes
      <4>3. P * (d + 1) = P * d + P BY <2>4, <4>1
      <4> DEFINE t == P * (ByteBase - 1)  u == P * d
      <4>4. t \in Nat /\ u \in Nat BY <2>4, <4>1, Sizes
      <4> HIDE DEF t, u
      <4>5. u + P <= t BY <4>2, <4>3 DEF t, u
      <4>6. u + r # (t + P) - 1 BY <2>4, <2>6, <4>4, <4>5
      <4> QED BY <3>1, <3>3, <4>6 DEF t, u
    <3> QED BY <3>2, <3>3
  <2> QED BY <2>2, <2>3, <2>4, <2>5, <2>7 DEF P, r
<1> HIDE DEF S
<1>3. Nat \subseteq S BY <1>1, <1>2, SetInduction
<1>4. n \in Nat /\ n <= BlockBytes BY Sizes
<1>5. n \in S BY <1>3, <1>4
<1> QED BY <1>4, <1>5 DEF S

(* ctr_drbg_increment adds one to the number, which wraps at the block. *)
LEMMA IncrementCounts ==
    ASSUME NEW x \in Nat
    PROVE  CounterIncrement(ToBlock(x)) = ToBlock(x + 1)
<1> DEFINE b == ToBlock(x)
<1>1. /\ b \in Block /\ DOMAIN b = 1 .. BlockBytes
      /\ \A i \in 1 .. BlockBytes : b[i] = DigitOf(x, BlockBytes - i)
  BY BlockDigits DEF Block
<1>2. /\ ToBlock(x + 1) \in Block
      /\ \A i \in 1 .. BlockBytes :
             ToBlock(x + 1)[i] = DigitOf(x + 1, BlockBytes - i)
  BY BlockDigits
<1> HIDE DEF b
<1>3. ASSUME NEW i \in 1 .. BlockBytes
      PROVE  CounterIncrement(b)[i] = DigitOf(x + 1, BlockBytes - i)
  <2> DEFINE n == BlockBytes - i  P == Power[n]  q == x \div P
             Full == \A j \in 1 .. BlockBytes : j > i => b[j] = ByteBase - 1
  <2>1. n \in 0 .. BlockBytes /\ P \in Nat \ {0} BY PowersUnfold, Sizes
  <2>2. q \in Nat BY <2>1
  <2>3. CounterIncrement(b)[i] = IF Full THEN (b[i] + 1) % ByteBase ELSE b[i]
    BY <1>1 DEF CounterIncrement
  <2>4. Full <=> \A k \in 0 .. n - 1 : DigitOf(x, k) = ByteBase - 1
    <3>1. ASSUME Full, NEW k \in 0 .. n - 1
          PROVE  DigitOf(x, k) = ByteBase - 1
      <4>1. /\ BlockBytes - k \in 1 .. BlockBytes /\ BlockBytes - k > i
            /\ BlockBytes - (BlockBytes - k) = k
        BY Sizes
      <4> QED BY <1>1, <3>1, <4>1
    <3>2. ASSUME \A k \in 0 .. n - 1 : DigitOf(x, k) = ByteBase - 1,
                 NEW j \in 1 .. BlockBytes, j > i
          PROVE  b[j] = ByteBase - 1
      <4>1. BlockBytes - j \in 0 .. n - 1 BY <3>2, Sizes
      <4> QED BY <1>1, <3>2, <4>1
    <3> QED BY <3>1, <3>2
  <2>5. Full <=> x % P = P - 1 BY <2>1, <2>4, FullDigits
  <2>6. (x + 1) \div P = IF Full THEN q + 1 ELSE q
    BY <2>1, <2>5, NextQuotient
  <2>7. b[i] = q % ByteBase BY <1>1 DEF DigitOf
  <2>8. (q + 1) % ByteBase = ((q % ByteBase) + 1) % ByteBase
    <3> HIDE DEF q
    <3> QED BY <2>2, NextQuotient, Sizes
  <2>9. DigitOf(x + 1, n) = ((x + 1) \div P) % ByteBase BY DEF DigitOf
  <2> HIDE DEF q, Full, P
  <2> QED BY <2>3, <2>6, <2>7, <2>8, <2>9
<1>4. CounterIncrement(b) \in Block BY <1>1, IncrementKeepsBlock
<1>5. \A i \in 1 .. BlockBytes : CounterIncrement(b)[i] = ToBlock(x + 1)[i]
  BY <1>2, <1>3
<1> HIDE DEF b
<1> QED BY <1>2, <1>4, <1>5, EqualBlocks DEF b

IsPrefix(f, bytes) ==
    f = [k \in 0 .. Len(bytes) |->
            IF k = 0 THEN 0 ELSE f[k - 1] * ByteBase + bytes[k]]

(* A block is the string of the number it stands for. *)
LEMMA NumberOfBlock ==
    ASSUME NEW b \in Block
    PROVE  /\ Promise!ToNumber(b) \in Nat
           /\ ToBlock(Promise!ToNumber(b)) = b
<1> DEFINE B == BlockBytes
           G == [p \in Nat \X Nat |->
                    p[2] * ByteBase + (IF p[1] \in 1 .. B THEN b[p[1]] ELSE 0)]
           p == CHOOSE f : IsPrefix(f, b)
<1>1. B \in Nat \ {0} BY Sizes
<1>2. b \in Seq(Byte) /\ Len(b) = B
  BY <1>1, FunctionIsSequence DEF Block
<1>3. \A k \in 1 .. B : b[k] \in Nat /\ b[k] \in 0 .. ByteBase - 1
  BY Sizes DEF Block, Byte
<1>4. G \in [Nat \X Nat -> Nat]
  <2>1. \A n, m \in Nat : n * ByteBase + m \in Nat
    <3>1. \A n, m, k \in Nat : n * k + m \in Nat OBVIOUS
    <3> QED BY <3>1, Sizes
  <2> QED BY <1>3, <2>1
<1>5. \A k \in 1 .. B, x \in Nat : G[<<k, x>>] = x * ByteBase + b[k]
  BY <1>1
<1> HIDE DEF G
<1>6. PICK f \in [0 .. B -> Nat] : Follows(f, 0, G, B)
  BY <1>1, <1>4, RecursionExists
<1>7. ASSUME NEW k \in 0 .. B
      PROVE  f[k] = IF k = 0 THEN 0 ELSE f[k - 1] * ByteBase + b[k]
  <2>1. CASE k = 0 BY <1>6, <2>1 DEF Follows
  <2>2. CASE k # 0
    <3>1. k \in 1 .. B /\ k - 1 \in 0 .. B BY <1>1, <2>2
    <3>2. f[k - 1] \in Nat BY <3>1
    <3> QED BY <1>5, <1>6, <2>2, <3>1, <3>2 DEF Follows
  <2> QED BY <2>1, <2>2
<1>8. IsPrefix(f, b) BY <1>2, <1>7 DEF IsPrefix
<1>9. IsPrefix(p, b) BY <1>8
<1>10. Promise!ToNumber(b) = p[B] BY <1>2 DEF Promise!ToNumber, IsPrefix
<1> HIDE DEF p, B
<1>11. ASSUME NEW k \in 0 .. B
       PROVE  p[k] = IF k = 0 THEN 0 ELSE p[k - 1] * ByteBase + b[k]
  BY <1>2, <1>9 DEF IsPrefix
<1>12. \A k \in 0 .. B : p[k] \in Nat
  <2> DEFINE S == {k \in Nat : k <= B => p[k] \in Nat}
  <2>1. 0 \in S BY <1>1, <1>11
  <2>2. ASSUME NEW k \in Nat, k \in S PROVE k + 1 \in S
    <3> SUFFICES ASSUME k + 1 <= B PROVE p[k + 1] \in Nat OBVIOUS
    <3>1. /\ p[k] \in Nat /\ k + 1 \in 0 .. B /\ k + 1 # 0
          /\ (k + 1) - 1 = k /\ k + 1 \in 1 .. B
      BY <1>1, <2>2
    <3>2. p[k + 1] = p[k] * ByteBase + b[k + 1] BY <1>11, <3>1
    <3>3. \A n, m, l \in Nat : n * l + m \in Nat OBVIOUS
    <3> QED BY <1>3, <3>1, <3>2, <3>3, Sizes
  <2> HIDE DEF S
  <2>3. Nat \subseteq S BY <2>1, <2>2, SetInduction
  <2> QED BY <2>3 DEF S
<1>13. \A k \in 1 .. B : p[k] \div ByteBase = p[k - 1] /\ p[k] % ByteBase = b[k]
  <2> TAKE k \in 1 .. B
  <2>1. k \in 0 .. B /\ k # 0 /\ k - 1 \in 0 .. B BY <1>1
  <2>2. p[k] = p[k - 1] * ByteBase + b[k] /\ p[k - 1] \in Nat
    BY <1>11, <1>12, <2>1
  <2>3. p[k - 1] * ByteBase = ByteBase * p[k - 1] BY <2>2, Sizes
  <2> DEFINE q == p[k - 1]  d == b[k]
  <2>4. q \in Nat /\ d \in 0 .. ByteBase - 1 /\ p[k] = ByteBase * q + d
    BY <1>3, <2>2, <2>3
  <2> HIDE DEF q, d
  <2>5. p[k] % ByteBase = d /\ p[k] \div ByteBase = q
    BY <2>4, RemainderIsUnique, Sizes
  <2> QED BY <2>5 DEF q, d
<1> DEFINE N == p[B]
<1>14. N \in Nat BY <1>1, <1>12
<1>15. \A k \in 0 .. B : N \div Power[k] = p[B - k]
  <2> DEFINE S == {k \in Nat : k <= B => N \div Power[k] = p[B - k]}
  <2>0. \A a \in Nat \ {0} : N \div (a * ByteBase) = (N \div a) \div ByteBase
    <3> HIDE DEF N
    <3> TAKE a \in Nat \ {0}
    <3>1. ByteBase \in Nat \ {0} BY Sizes
    <3> QED BY <1>14, <3>1, QuotientByProduct, Zenon
  <2>1. 0 \in S
    <3>1. N \div 1 = N
      <4> HIDE DEF N
      <4>1. (1 * N + 0) \div 1 = N BY <1>14, RemainderIsUnique
      <4>2. 1 * N + 0 = N BY <1>14
      <4> QED BY <4>1, <4>2
    <3>2. B - 0 = B BY <1>1
    <3> QED BY <3>1, <3>2, PowersUnfold
  <2>2. ASSUME NEW k \in Nat, k \in S PROVE k + 1 \in S
    <3> SUFFICES ASSUME k + 1 <= B
                 PROVE  N \div Power[k + 1] = p[B - (k + 1)]
      OBVIOUS
    <3>1. /\ k \in 0 .. B /\ k + 1 \in 1 .. B /\ (k + 1) - 1 = k
          /\ B - k \in 1 .. B /\ (B - k) - 1 = B - (k + 1)
      BY <1>1
    <3>2. N \div Power[k] = p[B - k] BY <2>2, <3>1
    <3>3. /\ Power[k] \in Nat \ {0} /\ Power[k + 1] = Power[k] * ByteBase
      BY <3>1, PowersUnfold DEF B
    <3>4. N \div Power[k + 1] = (N \div Power[k]) \div ByteBase
      BY <2>0, <3>3
    <3> QED BY <1>13, <3>1, <3>2, <3>4
  <2> HIDE DEF S, N
  <2>3. Nat \subseteq S BY <2>1, <2>2, SetInduction
  <2> QED BY <2>3 DEF S
<1>16. ASSUME NEW i \in 1 .. B PROVE ToBlock(N)[i] = b[i]
  <2>1. B - i \in 0 .. B /\ B - (B - i) = i BY <1>1
  <2>2. DigitOf(N, B - i) = p[i] % ByteBase BY <1>15, <2>1 DEF DigitOf
  <2> QED BY <1>13, <1>14, <2>2, BlockDigits DEF B
<1>17. ToBlock(N) \in Block BY <1>14, BlockDigits
<1> HIDE DEF N
<1>18. ToBlock(N) = b BY <1>16, <1>17, EqualBlocks DEF B
<1> QED BY <1>10, <1>14, <1>18 DEF N

-----------------------------------------------------------------------------
(* Strings of blocks, written block by block.                              *)

SeedBlocks == Promise!SeedBlocks

LEMMA SeedIsBlocks ==
    /\ SeedBlocks \in Nat \ {0} /\ SeedBytes = BlockBytes * SeedBlocks
    /\ Promise!SeedBytes = SeedBytes
<1> DEFINE q == KeyBytes \div BlockBytes
<1>1. q \in Nat /\ KeyBytes = BlockBytes * q
  BY CtrSizes
<1> HIDE DEF q
<1>2. SeedBytes = BlockBytes * (q + 1) + 0 BY <1>1, CtrSizes DEF SeedBytes
<1>3. Promise!SeedBytes = SeedBytes BY DEF Promise!SeedBytes, SeedBytes
<1>4. q + 1 \in Nat /\ BlockBytes \in Nat \ {0} BY <1>1, Sizes
<1>5. SeedBytes \div BlockBytes = q + 1 BY <1>2, <1>4, RemainderIsUnique
<1>6. SeedBlocks = q + 1 BY <1>3, <1>5 DEF SeedBlocks, Promise!SeedBlocks
<1> QED BY <1>1, <1>2, <1>3, <1>6, Sizes

(* Where the bytes of block n + 1 are. *)
LEMMA BytePlaces ==
    ASSUME NEW n \in Nat, NEW j \in 1 .. BlockBytes
    PROVE  LET i == BlockBytes * n + j
           IN  /\ i \in Nat \ {0}
               /\ (i - 1) \div BlockBytes = n
               /\ ((i - 1) % BlockBytes) + 1 = j
               /\ i <= BlockBytes * (n + 1)
<1> DEFINE t == BlockBytes * n
<1>1. BlockBytes \in Nat \ {0} /\ t \in Nat BY Sizes
<1>2. (t + (j - 1)) % BlockBytes = j - 1 /\ (t + (j - 1)) \div BlockBytes = n
  BY <1>1, RemainderIsUnique
<1>3. BlockBytes * (n + 1) = t + BlockBytes BY <1>1
<1> HIDE DEF t
<1>4. (t + j) - 1 = t + (j - 1) /\ t + j \in Nat \ {0} BY <1>1
<1> QED BY <1>1, <1>2, <1>3, <1>4 DEF t

(* Every byte is in a block. *)
LEMMA PlaceOfByte ==
    ASSUME NEW m \in Nat, NEW i \in 1 .. BlockBytes * m
    PROVE  \E n \in 0 .. m - 1, j \in 1 .. BlockBytes : i = BlockBytes * n + j
<1> DEFINE n == (i - 1) \div BlockBytes  r == (i - 1) % BlockBytes
<1>1. BlockBytes \in Nat \ {0} /\ i \in Nat \ {0} /\ i <= BlockBytes * m
  BY Sizes
<1>2. n \in Nat /\ r \in 0 .. BlockBytes - 1 /\ i - 1 = BlockBytes * n + r
  BY <1>1
<1> HIDE DEF n, r
<1>3. n < m
  <2> SUFFICES ASSUME m <= n PROVE FALSE BY <1>2
  <2>1. BlockBytes * m <= BlockBytes * n BY <1>1, <1>2
  <2> DEFINE s == BlockBytes * m  t == BlockBytes * n
  <2>2. s \in Nat /\ t \in Nat /\ s <= t /\ i <= s /\ i - 1 = t + r
    BY <1>1, <1>2, <2>1
  <2> HIDE DEF s, t
  <2> QED BY <1>1, <1>2, <2>2
<1> DEFINE t == BlockBytes * n
<1>4. t \in Nat /\ i - 1 = t + r BY <1>1, <1>2
<1> HIDE DEF t
<1>5. i = t + (r + 1) /\ r + 1 \in 1 .. BlockBytes BY <1>1, <1>2, <1>4
<1>6. n \in 0 .. m - 1 BY <1>2, <1>3
<1> QED BY <1>5, <1>6 DEF t

LEMMA JoinedBlocks ==
    ASSUME NEW m \in Nat, NEW blocks \in [1 .. m -> Block]
    PROVE  LET whole == Promise!Concatenated(blocks)
           IN  /\ whole \in [1 .. BlockBytes * m -> Byte]
               /\ \A n \in 0 .. m - 1, j \in 1 .. BlockBytes :
                      whole[BlockBytes * n + j] = blocks[n + 1][j]
<1> DEFINE whole == Promise!Concatenated(blocks)  s == BlockBytes * m
<1>1. blocks \in Seq(Block) /\ Len(blocks) = m OBVIOUS
<1>2. s \in Nat /\ BlockBytes \in Nat \ {0} BY Sizes
<1>3. whole = [i \in 1 .. s |-> blocks[((i - 1) \div BlockBytes) + 1]
                                      [((i - 1) % BlockBytes) + 1]]
  BY <1>1 DEF Promise!Concatenated
<1>4. \A n \in 0 .. m - 1, j \in 1 .. BlockBytes :
          /\ BlockBytes * n + j \in 1 .. s
          /\ whole[BlockBytes * n + j] = blocks[n + 1][j]
  <2> TAKE n \in 0 .. m - 1, j \in 1 .. BlockBytes
  <2> DEFINE i == BlockBytes * n + j
  <2>1. n \in Nat /\ n + 1 <= m BY <1>2
  <2>2. /\ i \in Nat \ {0} /\ (i - 1) \div BlockBytes = n
        /\ ((i - 1) % BlockBytes) + 1 = j /\ i <= BlockBytes * (n + 1)
    BY <2>1, BytePlaces
  <2>3. BlockBytes * (n + 1) <= s BY <1>2, <2>1
  <2>4. BlockBytes * (n + 1) \in Nat BY <1>2, <2>1
  <2> HIDE DEF i, s, whole
  <2>5. i \in 1 .. s BY <1>2, <2>2, <2>3, <2>4
  <2>6. whole[i] = blocks[n + 1][j] BY <1>3, <2>2, <2>5
  <2> QED BY <2>5, <2>6 DEF i
<1>5. \A i \in 1 .. s : whole[i] \in Byte
  <2> TAKE i \in 1 .. s
  <2>1. PICK n \in 0 .. m - 1, j \in 1 .. BlockBytes : i = BlockBytes * n + j
    BY PlaceOfByte
  <2>2. whole[i] = blocks[n + 1][j] BY <1>4, <2>1
  <2>3. blocks[n + 1] \in Block
    <3>1. n + 1 \in 1 .. m OBVIOUS
    <3> QED BY <3>1
  <2> HIDE DEF whole
  <2> QED BY <2>2, <2>3 DEF Block
<1> HIDE DEF whole, s
<1>6. whole \in [1 .. s -> Byte] BY <1>3, <1>5
<1> QED BY <1>4, <1>6 DEF whole, s

(* The first n blocks of whole are in dest. *)
Filled(dest, whole, n) == \A i \in 1 .. BlockBytes * n : dest[i] = whole[i]

LEMMA NothingFilled == \A dest, whole : Filled(dest, whole, 0)
<1>1. BlockBytes * 0 = 0 BY Sizes
<1>2. 1 .. 0 = {} OBVIOUS
<1> QED BY <1>1, <1>2 DEF Filled

LEMMA FilledGrows ==
    ASSUME NEW m \in Nat, NEW blocks \in [1 .. m -> Block],
           NEW n \in 0 .. m - 1,
           NEW dest \in [1 .. BlockBytes * m -> Byte],
           Filled(dest, Promise!Concatenated(blocks), n)
    PROVE  Filled(WriteAt(dest, BlockBytes * n, blocks[n + 1]),
                  Promise!Concatenated(blocks), n + 1)
<1> DEFINE whole == Promise!Concatenated(blocks)
           t == BlockBytes * n
           written == WriteAt(dest, t, blocks[n + 1])
           s == BlockBytes * m
<1>1. /\ BlockBytes \in Nat \ {0} /\ n \in Nat /\ n + 1 \in 1 .. m
      /\ t \in Nat /\ s \in Nat /\ BlockBytes * (n + 1) = t + BlockBytes
  BY Sizes
<1>2. t + BlockBytes <= s
  <2>1. BlockBytes * (n + 1) <= BlockBytes * m BY <1>1
  <2> QED BY <1>1, <2>1
<1>3. \A j \in 1 .. BlockBytes : whole[t + j] = blocks[n + 1][j]
  BY JoinedBlocks
<1>4. \A i \in 1 .. t : dest[i] = whole[i] BY DEF Filled
<1>5. DOMAIN dest = 1 .. s /\ DOMAIN blocks[n + 1] = 1 .. BlockBytes
  <2>1. blocks[n + 1] \in Block BY <1>1
  <2> QED BY <2>1 DEF Block
<1> HIDE DEF whole, t, s
<1>6. \A i \in 1 .. s : written[i] = IF i - t \in 1 .. BlockBytes
                                     THEN blocks[n + 1][i - t] ELSE dest[i]
  BY <1>5 DEF WriteAt
<1> HIDE DEF written
<1>7. ASSUME NEW i \in 1 .. t + BlockBytes PROVE written[i] = whole[i]
  <2>1. i \in 1 .. s BY <1>1, <1>2
  <2>2. CASE i <= t
    <3>1. i - t \notin 1 .. BlockBytes /\ i \in 1 .. t BY <1>1, <2>2
    <3> QED BY <1>4, <1>6, <2>1, <3>1
  <2>3. CASE i > t
    <3>1. i - t \in 1 .. BlockBytes /\ t + (i - t) = i BY <1>1, <2>3
    <3> QED BY <1>3, <1>6, <2>1, <3>1
  <2> QED BY <1>1, <2>2, <2>3
<1>8. Filled(written, whole, n + 1) BY <1>1, <1>7 DEF Filled
<1> QED BY <1>8 DEF written, whole, t

LEMMA FilledWhole ==
    ASSUME NEW m \in Nat, NEW dest \in [1 .. BlockBytes * m -> Byte],
           NEW whole \in [1 .. BlockBytes * m -> Byte], Filled(dest, whole, m)
    PROVE  dest = whole
<1> DEFINE s == BlockBytes * m
<1>1. dest \in [1 .. s -> Byte] /\ whole \in [1 .. s -> Byte] OBVIOUS
<1>2. \A i \in 1 .. s : dest[i] = whole[i] BY DEF Filled
<1> HIDE DEF s
<1>3. dest = [i \in 1 .. s |-> dest[i]] /\ whole = [i \in 1 .. s |-> whole[i]]
  BY <1>1
<1>4. [i \in 1 .. s |-> dest[i]] = [i \in 1 .. s |-> whole[i]] BY <1>2
<1> QED BY <1>3, <1>4

(* The parts of a seed, as a function and as a sequence. *)
LEMMA SeedParts ==
    ASSUME NEW s \in [1 .. SeedBytes -> Byte]
    PROVE  /\ SubSeq(s, 1, KeyBytes) = BytesAt(s, 0, KeyBytes)
           /\ SubSeq(s, KeyBytes + 1, SeedBytes)
                  = BytesAt(s, KeyBytes, BlockBytes)
<1>1. s \in Seq(Byte) /\ Len(s) = SeedBytes BY Sizes, FunctionIsSequence
<1>2. SeedBytes = KeyBytes + BlockBytes BY DEF SeedBytes
<1>3. SubSeq(s, 1, KeyBytes) = BytesAt(s, 0, KeyBytes)
  BY <1>1, <1>2, Sizes DEF BytesAt
<1>4. SubSeq(s, KeyBytes + 1, SeedBytes) = BytesAt(s, KeyBytes, BlockBytes)
  BY <1>1, <1>2, Sizes DEF BytesAt
<1> QED BY <1>3, <1>4

-----------------------------------------------------------------------------
(* The chain of ctr_drbg_bcc.                                              *)

LEMMA SameBytes ==
    /\ \A n : Promise!ZeroBytes(n) = ZeroBytes(n)
    /\ \A a, b : Promise!XorBytes(a, b) = XorBytes(a, b)
    /\ Promise!InitialKey = InitialKey
    /\ Promise!EndMarker = EndMarker
BY DEF Promise!ZeroBytes, ZeroBytes, Promise!XorBytes, XorBytes,
       Promise!InitialKey, InitialKey, Promise!EndMarker, EndMarker

LEMMA XorKeepsBlock ==
    ASSUME NEW a \in Block, NEW b, \A i \in 1 .. BlockBytes : b[i] \in Byte
    PROVE  XorBytes(a, b) \in Block
BY XorAssumption DEF XorBytes, Block

IsChain(f, k, data) ==
    f = [n \in 0 .. Len(data) \div BlockBytes |->
            IF n = 0 THEN ZeroBytes(BlockBytes)
            ELSE Aes(k, XorBytes(f[n - 1],
                                 SubSeq(data, BlockBytes * (n - 1) + 1,
                                              BlockBytes * n)))]

(* The chaining value after n blocks, for every n. *)
Chain(k, data) == CHOOSE f : IsChain(f, k, data)

BlocksIn(data) == Len(data) \div BlockBytes

(* The block of data that follows the first n. *)
BlockAfter(data, n) == BytesAt(data, BlockBytes * n, BlockBytes)

LEMMA BlockOfData ==
    ASSUME NEW data \in Seq(Byte), Len(data) % BlockBytes = 0
    PROVE  /\ BlocksIn(data) \in Nat
           /\ Len(data) = BlockBytes * BlocksIn(data)
           /\ \A n \in 0 .. BlocksIn(data) - 1 :
                  /\ BlockAfter(data, n) \in Block
                  /\ SubSeq(data, BlockBytes * n + 1, BlockBytes * (n + 1))
                         = BlockAfter(data, n)
<1> DEFINE m == BlocksIn(data)
<1>1. Len(data) \in Nat /\ BlockBytes \in Nat \ {0} BY Sizes
<1>2. m \in Nat /\ Len(data) = BlockBytes * m BY <1>1 DEF BlocksIn
<1>3. ASSUME NEW n \in 0 .. m - 1
      PROVE  /\ BlockAfter(data, n) \in Block
             /\ SubSeq(data, BlockBytes * n + 1, BlockBytes * (n + 1))
                    = BlockAfter(data, n)
  <2> HIDE DEF m
  <2> DEFINE t == BlockBytes * n
  <2>1. n \in Nat /\ n + 1 <= m BY <1>2
  <2>2. t \in Nat /\ BlockBytes * (n + 1) = t + BlockBytes BY <1>1, <2>1
  <2>3. BlockBytes * (n + 1) <= BlockBytes * m BY <1>1, <1>2, <2>1
  <2>4. t + BlockBytes <= Len(data) BY <1>2, <2>2, <2>3
  <2> HIDE DEF t
  <2>5. \A i \in 1 .. BlockBytes : data[t + i] \in Byte
    BY <1>1, <2>2, <2>4
  <2>6. SubSeq(data, t + 1, t + BlockBytes) = BytesAt(data, t, BlockBytes)
    BY <1>1, <2>2, <2>4 DEF BytesAt
  <2>7. BytesAt(data, t, BlockBytes) \in Block BY <2>5 DEF BytesAt, Block
  <2> QED BY <2>2, <2>6, <2>7 DEF t, BlockAfter
<1> QED BY <1>2, <1>3

LEMMA ChainUnfolds ==
    ASSUME NEW k \in Key, NEW data \in Seq(Byte), Len(data) % BlockBytes = 0
    PROVE  /\ Promise!BccOf(k, data) = Chain(k, data)[BlocksIn(data)]
           /\ Chain(k, data) \in [0 .. BlocksIn(data) -> Block]
           /\ Chain(k, data)[0] = ZeroBytes(BlockBytes)
           /\ \A n \in 0 .. BlocksIn(data) - 1 :
                  Chain(k, data)[n + 1]
                      = Aes(k, XorBytes(Chain(k, data)[n], BlockAfter(data, n)))
<1> DEFINE m == BlocksIn(data)
           zero == ZeroBytes(BlockBytes)
           next(n, b) == Aes(k, XorBytes(b, BlockAfter(data, n)))
           G == [p \in Nat \X Block |->
                    IF p[1] - 1 \in 0 .. m - 1 THEN next(p[1] - 1, p[2])
                                               ELSE p[2]]
           f == Chain(k, data)
<1>1. m \in Nat /\ BlockBytes \in Nat /\ zero \in Block
  BY BlockOfData, ZeroesAreBytes, Sizes DEF Block
<1>2. \A n \in 0 .. m - 1, b \in Block : next(n, b) \in Block
  <2> TAKE n \in 0 .. m - 1, b \in Block
  <2>1. BlockAfter(data, n) \in Block BY BlockOfData
  <2>2. XorBytes(b, BlockAfter(data, n)) \in Block
    <3>1. \A i \in 1 .. BlockBytes : BlockAfter(data, n)[i] \in Byte
      BY <2>1 DEF Block
    <3> QED BY <3>1, XorKeepsBlock
  <2> QED BY <2>2, CipherAssumption
<1> HIDE DEF m, next
<1>3. G \in [Nat \X Block -> Block] BY <1>2
<1>4. \A n \in 1 .. m, b \in Block : G[<<n, b>>] = next(n - 1, b)
  BY <1>1
<1> HIDE DEF G
<1>5. PICK g \in [0 .. m -> Block] : Follows(g, zero, G, m)
  BY <1>1, <1>3, RecursionExists
<1>6. \A n \in 1 .. m : \A b :
          Aes(k, XorBytes(b, SubSeq(data, BlockBytes * (n - 1) + 1,
                                          BlockBytes * n))) = next(n - 1, b)
  <2> TAKE n \in 1 .. m
  <2> TAKE b
  <2>1. n - 1 \in 0 .. m - 1 /\ (n - 1) + 1 = n BY <1>1
  <2>2. SubSeq(data, BlockBytes * (n - 1) + 1, BlockBytes * n)
            = BlockAfter(data, n - 1)
    BY <2>1, BlockOfData DEF m
  <2> QED BY <2>2 DEF next
<1>7. ASSUME NEW n \in 0 .. m
      PROVE  g[n] = IF n = 0 THEN zero
                    ELSE Aes(k, XorBytes(g[n - 1],
                                SubSeq(data, BlockBytes * (n - 1) + 1,
                                             BlockBytes * n)))
  <2>1. CASE n = 0 BY <1>5, <2>1 DEF Follows
  <2>2. CASE n # 0
    <3>1. n \in 1 .. m /\ n - 1 \in 0 .. m BY <1>1, <2>2
    <3>2. g[n - 1] \in Block BY <3>1
    <3> HIDE DEF zero
    <3>3. g[n] = next(n - 1, g[n - 1])
      BY <1>4, <1>5, <2>2, <3>1, <3>2 DEF Follows
    <3> QED BY <1>6, <2>2, <3>1, <3>3
  <2> QED BY <2>1, <2>2
<1>8. IsChain(g, k, data) BY <1>7 DEF IsChain, m, BlocksIn
<1>9. IsChain(f, k, data) BY <1>8 DEF Chain
<1>10. Promise!BccOf(k, data) = f[m]
  BY SameBytes DEF Promise!BccOf, Chain, IsChain, m, BlocksIn
<1> HIDE DEF f, zero
<1>11. \A n \in 0 .. m :
          f[n] = IF n = 0 THEN zero
                 ELSE Aes(k, XorBytes(f[n - 1],
                             SubSeq(data, BlockBytes * (n - 1) + 1,
                                          BlockBytes * n)))
  BY <1>9 DEF IsChain, m, BlocksIn, zero
<1>12. f[0] = zero BY <1>1, <1>11
<1>13. \A n \in 0 .. m - 1 : f[n + 1] = next(n, f[n])
  <2> TAKE n \in 0 .. m - 1
  <2>1. n + 1 \in 0 .. m /\ n + 1 # 0 /\ n + 1 \in 1 .. m /\ (n + 1) - 1 = n
    BY <1>1
  <2> QED BY <1>6, <1>11, <2>1
<1>14. \A n \in 0 .. m : f[n] \in Block
  <2> DEFINE S == {n \in Nat : n <= m => f[n] \in Block}
  <2>1. 0 \in S BY <1>1, <1>12
  <2>2. ASSUME NEW n \in Nat, n \in S PROVE n + 1 \in S
    <3> SUFFICES ASSUME n + 1 <= m PROVE f[n + 1] \in Block OBVIOUS
    <3>1. n \in 0 .. m - 1 /\ f[n] \in Block BY <1>1, <2>2
    <3> QED BY <1>2, <1>13, <3>1
  <2> HIDE DEF S
  <2>3. Nat \subseteq S BY <2>1, <2>2, SetInduction
  <2> QED BY <2>3 DEF S
<1>15. f = [n \in 0 .. m |-> f[n]] BY <1>9 DEF IsChain, m, BlocksIn
<1>16. f \in [0 .. m -> Block] BY <1>14, <1>15
<1> QED BY <1>10, <1>12, <1>13, <1>16 DEF f, m, zero, next

-----------------------------------------------------------------------------
(* What the rounds of block_cipher_df work on.                             *)

Accepted(input) ==
    /\ input.len \in Nat /\ ~LengthRejected(input.len)
    /\ input.data \in Seq(Byte) /\ Len(input.data) = input.len

(* The block of round r. *)
Vector(r) == BigEndian(r) \o ZeroBytes(BlockBytes - LengthBytes)

(* Byte i of both, by the field it lies in. *)
FieldByte(input, r, i) ==
    LET at == BlockBytes + LengthBytes
        n  == input.len
    IN  IF i <= LengthBytes THEN BigEndian(r)[i]
        ELSE IF i <= BlockBytes THEN 0
        ELSE IF i <= at THEN BigEndian(n)[i - BlockBytes]
        ELSE IF i <= at + LengthBytes THEN BigEndian(SeedBytes)[i - at]
        ELSE IF i <= at + LengthBytes + n
             THEN input.data[i - (at + LengthBytes)]
        ELSE IF i = at + LengthBytes + n + 1 THEN EndMarker
        ELSE 0

RoundString(input, r) == RoundBlock(DfString(input), r)

LEMMA NumberStrings ==
    ASSUME NEW x \in Nat
    PROVE  BigEndian(x) \in [1 .. LengthBytes -> Byte]
BY NumbersAreBytes DEF BigEndian

LEMMA MarkerIsByte == EndMarker \in Byte
<1>1. \A b \in Nat \ {0} : b \div 2 \in 0 .. b - 1 OBVIOUS
<1> QED BY CtrSizes, <1>1 DEF EndMarker, Byte

LEMMA RoundStringBytes ==
    ASSUME NEW input, Accepted(input), NEW r \in Nat
    PROVE  /\ RoundString(input, r) \in [1 .. BccInputLen(input.len) -> Byte]
           /\ \A i \in 1 .. BccInputLen(input.len) :
                  RoundString(input, r)[i] = FieldByte(input, r, i)
<1> DEFINE n == BccInputLen(input.len)
           B == BlockBytes
           L == LengthBytes
           len == input.len
           w0 == ZeroBytes(n)
           w1 == WriteAt(w0, B, BigEndian(len))
           w2 == WriteAt(w1, B + L, BigEndian(SeedBytes))
           w3 == IF len > 0 THEN WriteAt(w2, B + L + L, input.data) ELSE w2
           w4 == WriteAt(w3, B + L + L + len, <<EndMarker>>)
           w5 == WriteAt(w4, 0, ZeroBytes(B))
           w6 == WriteAt(w5, 0, BigEndian(r))
<1>1. /\ n \in Nat /\ len \in Nat /\ B \in Nat \ {0} /\ L \in 1 .. B
      /\ SeedBytes \in Nat
  BY AcceptedLength, Sizes DEF Accepted
<1>2. /\ DOMAIN BigEndian(len) = 1 .. L /\ DOMAIN BigEndian(SeedBytes) = 1 .. L
      /\ DOMAIN BigEndian(r) = 1 .. L
  BY DEF BigEndian
<1>3. DOMAIN input.data = 1 .. len BY DEF Accepted
<1>4. RoundString(input, r) = w6
  BY DEF RoundString, RoundBlock, DfString
<1>5. RoundString(input, r) \in [1 .. n -> Byte]
  <2>1. DfString(input) \in [1 .. n -> Byte] BY StringOfBytes DEF Accepted
  <2> HIDE DEF n
  <2> QED BY <1>1, <2>1, RoundBlockKeepsBytes DEF RoundString
<1> HIDE DEF n, B, L, len
<1>6. w0 = [i \in 1 .. n |-> 0] BY DEF ZeroBytes
<1> HIDE DEF w0
<1>7. w1 = [i \in 1 .. n |-> IF i - B \in 1 .. L THEN BigEndian(len)[i - B]
                                                 ELSE 0]
  BY <1>2, <1>6 DEF WriteAt
<1> HIDE DEF w1
<1>8. w2 = [i \in 1 .. n |->
               IF i - (B + L) \in 1 .. L THEN BigEndian(SeedBytes)[i - (B + L)]
                                         ELSE w1[i]]
  BY <1>2, <1>7 DEF WriteAt
<1> HIDE DEF w2
<1>9. /\ DOMAIN w3 = 1 .. n
      /\ \A i \in 1 .. n :
             w3[i] = IF i - (B + L + L) \in 1 .. len
                     THEN input.data[i - (B + L + L)] ELSE w2[i]
  <2>1. CASE len > 0 BY <1>3, <1>8, <2>1 DEF WriteAt
  <2>2. CASE ~(len > 0)
    <3>1. w3 = w2 /\ 1 .. len = {} BY <1>1, <2>2
    <3> QED BY <1>8, <3>1
  <2> QED BY <2>1, <2>2
<1> HIDE DEF w3
<1>10. /\ DOMAIN w4 = 1 .. n
       /\ \A i \in 1 .. n :
              w4[i] = IF i - (B + L + L + len) = 1 THEN EndMarker ELSE w3[i]
  <2>1. DOMAIN <<EndMarker>> = {1} /\ <<EndMarker>>[1] = EndMarker
    <3>1. DOMAIN <<EndMarker>> = 1 .. 1 /\ 1 .. 1 = {1} OBVIOUS
    <3> QED BY <3>1
  <2>2. w4 = [i \in 1 .. n |-> IF i - (B + L + L + len) \in {1}
                 THEN <<EndMarker>>[i - (B + L + L + len)] ELSE w3[i]]
    BY <1>9, <2>1 DEF WriteAt
  <2> HIDE DEF w4
  <2>3. \A i \in 1 .. n : w4[i] = IF i - (B + L + L + len) \in {1}
                 THEN <<EndMarker>>[i - (B + L + L + len)] ELSE w3[i]
    BY <2>2
  <2>4. \A i \in 1 .. n : i - (B + L + L + len) \in {1} =>
            <<EndMarker>>[i - (B + L + L + len)] = EndMarker
    BY <2>1
  <2> QED BY <2>2, <2>3, <2>4
<1> HIDE DEF w4
<1>11. w5 = [i \in 1 .. n |-> IF i - 0 \in 1 .. B THEN 0 ELSE w4[i]]
  <2>1. /\ DOMAIN ZeroBytes(B) = 1 .. B
        /\ \A i \in 1 .. B : ZeroBytes(B)[i] = 0
    BY DEF ZeroBytes
  <2> QED BY <1>10, <2>1 DEF WriteAt
<1> HIDE DEF w5
<1>12. w6 = [i \in 1 .. n |-> IF i - 0 \in 1 .. L THEN BigEndian(r)[i - 0]
                                                  ELSE w5[i]]
  BY <1>2, <1>11 DEF WriteAt
<1> HIDE DEF w6
<1>13. ASSUME NEW i \in 1 .. n PROVE w6[i] = FieldByte(input, r, i)
  <2>1. i \in Nat \ {0} /\ i - 0 = i BY <1>1
  <2>2. i \in 1 .. L <=> i <= L BY <1>1, <2>1
  <2>3. i \in 1 .. B <=> i <= B BY <1>1, <2>1
  <2>4. CASE i <= L BY <1>12, <2>1, <2>2, <2>4 DEF FieldByte, L
  <2>5. CASE ~(i <= L) /\ i <= B
    BY <1>11, <1>12, <2>1, <2>2, <2>3, <2>5 DEF FieldByte, L, B
  <2>6. CASE ~(i <= L) /\ ~(i <= B)
    <3>1. w6[i] = w4[i] BY <1>11, <1>12, <2>1, <2>2, <2>3, <2>6
    <3>2. CASE i <= B + L
      <4>1. /\ i - B \in 1 .. L /\ i - (B + L) \notin 1 .. L
            /\ i - (B + L + L) \notin 1 .. len /\ i - (B + L + L + len) # 1
        BY <1>1, <2>1, <2>6, <3>2
      <4>2. w4[i] = BigEndian(len)[i - B] BY <1>7, <1>8, <1>9, <1>10, <4>1
      <4> QED BY <2>6, <3>1, <3>2, <4>2 DEF FieldByte, B, L, len
    <3>3. CASE ~(i <= B + L) /\ i <= B + L + L
      <4>1. /\ i - (B + L) \in 1 .. L
            /\ i - (B + L + L) \notin 1 .. len /\ i - (B + L + L + len) # 1
        BY <1>1, <2>1, <2>6, <3>3
      <4>2. w4[i] = BigEndian(SeedBytes)[i - (B + L)]
        BY <1>8, <1>9, <1>10, <4>1
      <4> QED BY <2>6, <3>1, <3>3, <4>2 DEF FieldByte, B, L, len
    <3>4. CASE ~(i <= B + L) /\ ~(i <= B + L + L) /\ i <= B + L + L + len
      <4>1. /\ i - (B + L + L) \in 1 .. len /\ i - (B + L + L + len) # 1
        BY <1>1, <2>1, <2>6, <3>4
      <4>2. w4[i] = input.data[i - (B + L + L)] BY <1>9, <1>10, <4>1
      <4> QED BY <2>6, <3>1, <3>4, <4>2 DEF FieldByte, B, L, len
    <3>5. CASE ~(i <= B + L) /\ ~(i <= B + L + L) /\ ~(i <= B + L + L + len)
      <4>1. /\ i - B \notin 1 .. L /\ i - (B + L) \notin 1 .. L
            /\ i - (B + L + L) \notin 1 .. len
            /\ i - (B + L + L + len) = 1 <=> i = B + L + L + len + 1
        BY <1>1, <2>1, <2>6, <3>5
      <4>2. w4[i] = IF i = B + L + L + len + 1 THEN EndMarker ELSE 0
        BY <1>7, <1>8, <1>9, <1>10, <4>1
      <4> QED BY <2>6, <3>1, <3>5, <4>2 DEF FieldByte, B, L, len
    <3> QED BY <3>2, <3>3, <3>4, <3>5
  <2> QED BY <2>4, <2>5, <2>6
<1> QED BY <1>4, <1>5, <1>13 DEF n

(* The round block is overwritten, whatever was there. *)
LEMMA RoundsOverwrite ==
    ASSUME NEW input, Accepted(input), NEW r \in Nat, NEW next \in Nat
    PROVE  RoundBlock(RoundString(input, r), next) = RoundString(input, next)
<1> DEFINE Over(w, x) == WriteAt(WriteAt(w, 0, ZeroBytes(BlockBytes)), 0,
                                 BigEndian(x))
           zero == ZeroBytes(BlockBytes)
<1>1. \A x : DOMAIN BigEndian(x) = 1 .. LengthBytes BY DEF BigEndian
<1>2. DOMAIN zero = 1 .. BlockBytes BY DEF ZeroBytes
<1> HIDE DEF zero
<1>3. \A w, x : Over(w, x) = [i \in DOMAIN w |->
          IF i - 0 \in 1 .. LengthBytes THEN BigEndian(x)[i - 0]
          ELSE IF i - 0 \in 1 .. BlockBytes THEN zero[i - 0] ELSE w[i]]
  BY <1>1, <1>2 DEF WriteAt, zero
<1> DEFINE s == DfString(input)
<1>4. /\ RoundString(input, r) = Over(s, r)
      /\ RoundString(input, next) = Over(s, next)
      /\ RoundBlock(RoundString(input, r), next)
             = Over(RoundString(input, r), next)
  BY DEF RoundString, RoundBlock
<1> HIDE DEF Over, s
<1>5. Over(Over(s, r), next) = Over(s, next) BY <1>3, Sizes
<1> QED BY <1>4, <1>5

(* The string that block_cipher_df writes field by field is the standard's *)
(* string, with the block of the round before it.                          *)
LEMMA StringIsPadded ==
    ASSUME NEW input, Accepted(input), NEW r \in Nat
    PROVE  RoundString(input, r) = Vector(r) \o Promise!PaddedString(input.data)
<1> DEFINE B == BlockBytes
           L == LengthBytes
           len == input.len
           s1 == BigEndian(len) \o BigEndian(SeedBytes)
           s2 == s1 \o input.data
           s3 == s2 \o <<EndMarker>>
           pad == CHOOSE n \in 0 .. B - 1 : (Len(s3) + n) % B = 0
           padded == s3 \o ZeroBytes(pad)
           whole == Vector(r) \o padded
           N == BccInputLen(len)
<1>1. /\ len \in Nat /\ B \in Nat \ {0} /\ L \in 1 .. B /\ SeedBytes \in Nat
      /\ input.data \in Seq(Byte) /\ Len(input.data) = len
  BY Sizes DEF Accepted
<1>2. \A x \in Nat : BigEndian(x) \in Seq(Byte) /\ Len(BigEndian(x)) = L
  BY <1>1, NumberStrings, FunctionIsSequence
<1>3. \A n \in Nat : /\ ZeroBytes(n) \in Seq(Byte) /\ Len(ZeroBytes(n)) = n
                     /\ \A i \in 1 .. n : ZeroBytes(n)[i] = 0
  BY ZeroesAreBytes, FunctionIsSequence DEF ZeroBytes
<1>4. <<EndMarker>> \in Seq(Byte) /\ Len(<<EndMarker>>) = 1
      /\ <<EndMarker>>[1] = EndMarker
  BY MarkerIsByte
<1> HIDE DEF B, L, len
<1>5. s1 \in Seq(Byte) /\ Len(s1) = L + L
  <2>1. /\ BigEndian(len) \in Seq(Byte) /\ Len(BigEndian(len)) = L
        /\ BigEndian(SeedBytes) \in Seq(Byte) /\ Len(BigEndian(SeedBytes)) = L
    BY <1>1, <1>2
  <2> QED BY <1>1, <2>1
<1> HIDE DEF s1
<1>6. s2 \in Seq(Byte) /\ Len(s2) = L + L + len BY <1>1, <1>5
<1> HIDE DEF s2
<1>7. s3 \in Seq(Byte) /\ Len(s3) = L + L + len + 1 BY <1>1, <1>4, <1>6
<1> HIDE DEF s3
<1> DEFINE u == 2 * LengthBytes + input.len + 1
<1>8. /\ PaddingLen(len) \in 0 .. B - 1 /\ (u + PaddingLen(len)) % B = 0
      /\ N = B + u + PaddingLen(len) /\ u = L + L + len + 1 /\ u \in Nat
  <2>1. /\ PaddingLen(len) \in 0 .. B - 1
        /\ (2 * LengthBytes + len + 1 + PaddingLen(len)) % B = 0
        /\ N = B + (2 * LengthBytes + len + 1) + PaddingLen(len)
    BY AcceptedLength DEF Accepted, B, len
  <2> QED BY <1>1, <2>1 DEF len, L
<1> HIDE DEF u
<1>9. pad \in 0 .. B - 1 /\ (u + pad) % B = 0
  <2>1. Len(s3) = u BY <1>7, <1>8
  <2>2. \E n \in 0 .. B - 1 : (Len(s3) + n) % B = 0 BY <1>8, <2>1
  <2> HIDE DEF pad
  <2> QED BY <2>1, <2>2 DEF pad
<1> HIDE DEF pad
<1>10. pad = PaddingLen(len)
  <2> DEFINE p == PaddingLen(len)
  <2>1. p \in 0 .. B - 1 /\ (u + p) % B = 0 BY <1>8
  <2> HIDE DEF p
  <2>2. u + p \in Nat /\ u + pad \in Nat BY <1>1, <1>8, <1>9, <2>1
  <2>3. u + p < u + pad => u + p + B <= u + pad
    BY <1>1, <1>9, <2>1, <2>2, MultiplesApart
  <2>4. u + pad < u + p => u + pad + B <= u + p
    BY <1>1, <1>9, <2>1, <2>2, MultiplesApart
  <2>5. pad \in Nat /\ p \in Nat /\ pad < B /\ p < B /\ u \in Nat /\ B \in Nat
    BY <1>1, <1>8, <1>9, <2>1
  <2>6. ~(p < pad) /\ ~(pad < p) BY <2>3, <2>4, <2>5
  <2>7. pad = p BY <2>5, <2>6
  <2> QED BY <2>7 DEF p
<1>11. padded \in Seq(Byte) /\ Len(padded) = u + pad
  <2> DEFINE z == ZeroBytes(pad)
  <2>1. pad \in Nat /\ u \in Nat /\ Len(s3) = u BY <1>1, <1>7, <1>8, <1>9
  <2>2. z \in Seq(Byte) /\ Len(z) = pad BY <1>3, <2>1
  <2> HIDE DEF z
  <2>3. s3 \o z \in Seq(Byte) /\ Len(s3 \o z) = u + pad BY <1>7, <2>1, <2>2
  <2> QED BY <2>3 DEF z
<1>12. /\ Vector(r) \in Seq(Byte) /\ Len(Vector(r)) = B
       /\ \A i \in 1 .. B :
              Vector(r)[i] = IF i <= L THEN BigEndian(r)[i] ELSE 0
  <2> DEFINE a == BigEndian(r)  z == ZeroBytes(B - L)  t == B - L  T == Byte
  <2>1. t \in Nat /\ L \in Nat BY <1>1
  <2>2. /\ a \in Seq(T) /\ Len(a) = L /\ z \in Seq(T) /\ Len(z) = t
        /\ \A i \in 1 .. t : z[i] = 0
    BY <1>2, <1>3, <2>1
  <2>3. Vector(r) = a \o z BY DEF Vector, B, L
  <2> HIDE DEF a, z, t, T
  <2>4. a \o z \in Seq(T) /\ Len(a \o z) = L + t BY <2>1, <2>2
  <2>5. \A i \in 1 .. L : (a \o z)[i] = a[i] BY <2>1, <2>2
  <2>6. \A i \in L + 1 .. L + t : (a \o z)[i] = z[i - L] BY <2>1, <2>2
  <2>7. ASSUME NEW i \in 1 .. B
        PROVE  (a \o z)[i] = IF i <= L THEN a[i] ELSE 0
    <3>1. CASE i <= L
      <4>1. i \in 1 .. L BY <1>1, <3>1
      <4> QED BY <2>5, <3>1, <4>1
    <3>2. CASE ~(i <= L)
      <4>1. i \in L + 1 .. L + t /\ i - L \in 1 .. t BY <1>1, <3>2 DEF t
      <4> QED BY <2>2, <2>6, <3>2, <4>1
    <3> QED BY <3>1, <3>2
  <2>8. L + t = B BY <1>1 DEF t
  <2> QED BY <2>3, <2>4, <2>7, <2>8 DEF a, T
<1>13. whole \in Seq(Byte) /\ Len(whole) = B + (u + pad)
       /\ (\A i \in 1 .. B : whole[i] = Vector(r)[i])
       /\ \A i \in B + 1 .. B + (u + pad) : whole[i] = padded[i - B]
  <2> HIDE DEF padded
  <2> DEFINE t == u + pad
  <2>1. t \in Nat /\ B \in Nat /\ Len(padded) = t BY <1>1, <1>8, <1>9, <1>11
  <2> HIDE DEF t
  <2>2. whole \in Seq(Byte) /\ Len(whole) = B + t BY <1>11, <1>12, <2>1
  <2>3. \A i \in 1 .. B : whole[i] = Vector(r)[i] BY <1>11, <1>12, <2>1
  <2>4. \A i \in B + 1 .. B + t : whole[i] = padded[i - B]
    BY <1>11, <1>12, <2>1
  <2> QED BY <2>2, <2>3, <2>4 DEF t
<1>14. \A i \in 1 .. u + pad :
           padded[i] = IF i <= u THEN s3[i] ELSE 0
  <2> DEFINE z == ZeroBytes(pad)
  <2>1. pad \in Nat BY <1>1, <1>9
  <2>2. z \in Seq(Byte) /\ Len(z) = pad /\ \A i \in 1 .. pad : z[i] = 0
    BY <1>3, <2>1
  <2> HIDE DEF z
  <2>3. /\ \A i \in 1 .. u : (s3 \o z)[i] = s3[i]
        /\ \A i \in u + 1 .. u + pad : (s3 \o z)[i] = z[i - u]
    BY <1>7, <1>8, <2>1, <2>2
  <2>4. ASSUME NEW i \in 1 .. u + pad
        PROVE  (s3 \o z)[i] = IF i <= u THEN s3[i] ELSE 0
    <3>1. CASE i <= u
      <4>1. i \in 1 .. u BY <1>8, <2>1, <3>1
      <4>2. (s3 \o z)[i] = s3[i] BY <2>3, <4>1, Zenon
      <4> QED BY <3>1, <4>2, Zenon
    <3>2. CASE ~(i <= u)
      <4>1. i \in u + 1 .. u + pad /\ i - u \in 1 .. pad
        BY <1>8, <2>1, <3>2
      <4> QED BY <2>2, <2>3, <3>2, <4>1
    <3> QED BY <3>1, <3>2
  <2>5. padded = s3 \o z BY DEF z
  <2> HIDE DEF padded
  <2> QED BY <2>4, <2>5
<1>15. \A i \in 1 .. u :
           s3[i] = IF i <= L THEN BigEndian(len)[i]
                   ELSE IF i <= L + L THEN BigEndian(SeedBytes)[i - L]
                   ELSE IF i <= L + L + len THEN input.data[i - (L + L)]
                   ELSE EndMarker
  <2>1. /\ \A i \in 1 .. L + L + len : s3[i] = s2[i]
        /\ s3[L + L + len + 1] = EndMarker
    <3>1. \A i \in L + L + len + 1 .. L + L + len + 1 :
              s3[i] = <<EndMarker>>[i - (L + L + len)]
      BY <1>4, <1>6 DEF s3
    <3>2. L + L + len + 1 \in L + L + len + 1 .. L + L + len + 1
          /\ (L + L + len + 1) - (L + L + len) = 1
      BY <1>1
    <3>3. s3[L + L + len + 1] = <<EndMarker>>[1] BY <3>1, <3>2
    <3> QED BY <1>4, <1>6, <3>3 DEF s3
  <2>2. /\ \A i \in 1 .. L + L : s2[i] = s1[i]
        /\ \A i \in L + L + 1 .. L + L + len : s2[i] = input.data[i - (L + L)]
    BY <1>1, <1>5 DEF s2
  <2>3. /\ \A i \in 1 .. L : s1[i] = BigEndian(len)[i]
        /\ \A i \in L + 1 .. L + L : s1[i] = BigEndian(SeedBytes)[i - L]
    BY <1>1, <1>2 DEF s1
  <2> TAKE i \in 1 .. u
  <2>4. i \in Nat \ {0} /\ i <= L + L + len + 1 BY <1>1, <1>8
  <2>5. CASE i <= L
    <3>1. i \in 1 .. L /\ i \in 1 .. L + L /\ i \in 1 .. L + L + len
      BY <1>1, <2>4, <2>5
    <3> QED BY <2>1, <2>2, <2>3, <2>5, <3>1
  <2>6. CASE ~(i <= L) /\ i <= L + L
    <3>1. i \in L + 1 .. L + L /\ i \in 1 .. L + L /\ i \in 1 .. L + L + len
      BY <1>1, <2>4, <2>6
    <3> QED BY <2>1, <2>2, <2>3, <2>6, <3>1
  <2>7. CASE ~(i <= L) /\ ~(i <= L + L) /\ i <= L + L + len
    <3>1. i \in L + L + 1 .. L + L + len /\ i \in 1 .. L + L + len
      BY <1>1, <2>4, <2>7
    <3> QED BY <2>1, <2>2, <2>7, <3>1
  <2>8. CASE ~(i <= L) /\ ~(i <= L + L) /\ ~(i <= L + L + len)
    <3>1. i = L + L + len + 1 BY <1>1, <2>4, <2>8
    <3> QED BY <2>1, <2>8, <3>1
  <2> QED BY <2>5, <2>6, <2>7, <2>8
<1>16. N = B + (u + pad) /\ N \in Nat
  <2>1. N = B + u + pad BY <1>8, <1>10
  <2>2. pad \in 0 .. B - 1 BY <1>9
  <2>3. u \in Nat BY <1>8
  <2> HIDE DEF N
  <2> QED BY <1>1, <2>1, <2>2, <2>3
<1> HIDE DEF N, whole, padded
<1>17. ASSUME NEW i \in 1 .. N PROVE whole[i] = FieldByte(input, r, i)
  <2>1. i \in Nat \ {0} /\ i <= B + (u + pad) BY <1>16
  <2>2. CASE i <= B
    <3>1. i \in 1 .. B BY <2>1, <2>2
    <3>2. whole[i] = IF i <= L THEN BigEndian(r)[i] ELSE 0
      BY <1>12, <1>13, <3>1
    <3>3. i <= L => i <= B BY <2>2
    <3> QED BY <2>2, <3>2 DEF FieldByte, B, L
  <2>3. CASE ~(i <= B)
    <3> DEFINE j == i - B
    <3>1. /\ i \in B + 1 .. B + (u + pad) /\ j \in 1 .. u + pad
          /\ ~(i <= L)
      BY <1>1, <1>8, <1>9, <2>1, <2>3
    <3>2. whole[i] = IF j <= u THEN s3[j] ELSE 0 BY <1>13, <1>14, <3>1
    <3>3. j <= u => j \in 1 .. u BY <1>8, <3>1
    <3>4. /\ j <= L <=> i <= B + L
          /\ j <= L + L <=> i <= B + L + L
          /\ j <= L + L + len <=> i <= B + L + L + len
          /\ j <= u <=> i <= B + L + L + len + 1
          /\ j - L = i - (B + L) /\ j - (L + L) = i - (B + L + L)
      BY <1>1, <1>8, <2>1
    <3>5. whole[i] =
              IF i <= B + L THEN BigEndian(len)[i - B]
              ELSE IF i <= B + L + L THEN BigEndian(SeedBytes)[i - (B + L)]
              ELSE IF i <= B + L + L + len THEN input.data[i - (B + L + L)]
              ELSE IF i = B + L + L + len + 1 THEN EndMarker
              ELSE 0
      <4>1. CASE j <= u
        <5>1. s3[j] = IF j <= L THEN BigEndian(len)[j]
                   ELSE IF j <= L + L THEN BigEndian(SeedBytes)[j - L]
                   ELSE IF j <= L + L + len THEN input.data[j - (L + L)]
                   ELSE EndMarker
          BY <1>15, <3>3, <4>1
        <5>2. ~(i <= B + L + L + len) => i = B + L + L + len + 1
          BY <1>1, <2>1, <3>4, <4>1
        <5> QED BY <3>2, <3>4, <4>1, <5>1, <5>2
      <4>2. CASE ~(j <= u)
        <5>1. /\ ~(i <= B + L) /\ ~(i <= B + L + L) /\ ~(i <= B + L + L + len)
              /\ i # B + L + L + len + 1
          BY <1>1, <2>1, <3>4, <4>2
        <5> QED BY <3>2, <4>2, <5>1
      <4> QED BY <4>1, <4>2
    <3> HIDE DEF j
    <3> QED BY <2>3, <3>1, <3>5 DEF FieldByte, B, L, len
  <2> QED BY <2>2, <2>3
<1>18. /\ RoundString(input, r) \in [1 .. N -> Byte]
       /\ \A i \in 1 .. N : RoundString(input, r)[i] = FieldByte(input, r, i)
  BY RoundStringBytes DEF N, len
<1>19. whole = [i \in 1 .. N |-> whole[i]]
       /\ RoundString(input, r) = [i \in 1 .. N |-> RoundString(input, r)[i]]
  BY <1>13, <1>16, <1>18
<1>20. [i \in 1 .. N |-> whole[i]]
           = [i \in 1 .. N |-> RoundString(input, r)[i]]
  BY <1>17, <1>18
<1>21. Promise!PaddedString(input.data) = padded
  <2>1. \A x : Promise!ToBytes(x, L) = BigEndian(x)
    BY SamePowers DEF Promise!ToBytes, BigEndian, L
  <2> DEFINE fields == Promise!ToBytes(Len(input.data), LengthBytes)
                       \o Promise!ToBytes(Promise!SeedBytes, LengthBytes)
                       \o input.data \o <<Promise!EndMarker>>
  <2>2. fields = s3
    <3>1. /\ Promise!ToBytes(Len(input.data), LengthBytes) = BigEndian(len)
          /\ Promise!ToBytes(Promise!SeedBytes, LengthBytes)
                 = BigEndian(SeedBytes)
          /\ Promise!EndMarker = EndMarker
      BY <1>1, <2>1, SameBytes, SeedIsBlocks DEF L
    <3> QED BY <3>1 DEF s3, s2, s1
  <2>3. Promise!PaddedString(input.data)
            = fields \o Promise!ZeroBytes(CHOOSE n \in 0 .. B - 1 :
                                              (Len(fields) + n) % B = 0)
    BY DEF Promise!PaddedString, B
  <2> HIDE DEF fields
  <2>4. Promise!PaddedString(input.data) = s3 \o Promise!ZeroBytes(pad)
    BY <2>2, <2>3 DEF pad
  <2> QED BY <2>4, SameBytes DEF padded
<1> QED BY <1>19, <1>20, <1>21 DEF whole

-----------------------------------------------------------------------------
(* What block_cipher_df derives.                                           *)

RoundOutputs(input) ==
    [n \in 1 .. SeedBlocks |->
        Promise!BccOf(InitialKey, RoundString(input, n - 1))]

(* temp after the rounds, and the key taken from it. *)
Temp(input)  == Promise!Concatenated(RoundOutputs(input))
DfKey(input) == BytesAt(Temp(input), 0, KeyBytes)

IsX(f, input) ==
    f = [n \in 0 .. SeedBlocks |->
            IF n = 0 THEN BytesAt(Temp(input), KeyBytes, BlockBytes)
                     ELSE Aes(DfKey(input), f[n - 1])]

(* x after n blocks of the result, for every n. *)
XAfter(input) == CHOOSE f : IsX(f, input)

ResultBlocks(input) == [n \in 1 .. SeedBlocks |-> XAfter(input)[n]]

LEMMA RoundIsBlocks ==
    ASSUME NEW input, Accepted(input), NEW r \in Nat
    PROVE  /\ RoundString(input, r) \in Seq(Byte)
           /\ Len(RoundString(input, r)) % BlockBytes = 0
           /\ Promise!BccOf(InitialKey, RoundString(input, r)) \in Block
<1> DEFINE n == BccInputLen(input.len)  s == RoundString(input, r)
<1>1. n \in Nat /\ n % BlockBytes = 0 BY AcceptedLength DEF Accepted
<1>2. s \in [1 .. n -> Byte] BY RoundStringBytes
<1> HIDE DEF n, s
<1>3. s \in Seq(Byte) /\ Len(s) = n BY <1>1, <1>2, FunctionIsSequence
<1>4. /\ Promise!BccOf(InitialKey, s) = Chain(InitialKey, s)[BlocksIn(s)]
      /\ Chain(InitialKey, s) \in [0 .. BlocksIn(s) -> Block]
  BY <1>1, <1>3, InitialKeyIsKey, ChainUnfolds
<1>5. BlocksIn(s) \in 0 .. BlocksIn(s)
  <2>1. BlocksIn(s) \in Nat BY <1>1, <1>3, BlockOfData
  <2> QED BY <2>1
<1>6. Promise!BccOf(InitialKey, s) \in Block BY <1>4, <1>5
<1> QED BY <1>1, <1>3, <1>6 DEF s

LEMMA TempIsSeed ==
    ASSUME NEW input, Accepted(input)
    PROVE  /\ RoundOutputs(input) \in [1 .. SeedBlocks -> Block]
           /\ Temp(input) \in [1 .. SeedBytes -> Byte]
           /\ DfKey(input) \in Key
           /\ BytesAt(Temp(input), KeyBytes, BlockBytes) \in Block
<1>1. SeedBlocks \in Nat /\ SeedBytes = BlockBytes * SeedBlocks
  BY SeedIsBlocks
<1>2. RoundOutputs(input) \in [1 .. SeedBlocks -> Block]
  <2>1. \A n \in 1 .. SeedBlocks : n - 1 \in Nat BY <1>1
  <2> QED BY <2>1, RoundIsBlocks DEF RoundOutputs
<1>3. Temp(input) \in [1 .. SeedBytes -> Byte]
  BY <1>1, <1>2, JoinedBlocks DEF Temp
<1> QED BY <1>2, <1>3, SeedSplits DEF DfKey

LEMMA XUnfolds ==
    ASSUME NEW input, Accepted(input)
    PROVE  /\ IsX(XAfter(input), input)
           /\ XAfter(input) \in [0 .. SeedBlocks -> Block]
           /\ XAfter(input)[0] = BytesAt(Temp(input), KeyBytes, BlockBytes)
           /\ \A n \in 0 .. SeedBlocks - 1 :
                  XAfter(input)[n + 1] = Aes(DfKey(input), XAfter(input)[n])
<1> DEFINE m == SeedBlocks
           first == BytesAt(Temp(input), KeyBytes, BlockBytes)
           k == DfKey(input)
           G == [p \in Nat \X Block |-> Aes(k, p[2])]
           x == XAfter(input)
<1>1. m \in Nat /\ first \in Block /\ k \in Key BY SeedIsBlocks, TempIsSeed
<1>2. G \in [Nat \X Block -> Block] BY <1>1, CipherAssumption
<1>3. \A n \in Nat, b \in Block : G[<<n, b>>] = Aes(k, b) OBVIOUS
<1> HIDE DEF m, first, k, G
<1>4. PICK g \in [0 .. m -> Block] : Follows(g, first, G, m)
  BY <1>1, <1>2, RecursionExists
<1>5. ASSUME NEW n \in 0 .. m
      PROVE  g[n] = IF n = 0 THEN first ELSE Aes(k, g[n - 1])
  <2>1. CASE n = 0 BY <1>4, <2>1 DEF Follows
  <2>2. CASE n # 0
    <3>1. n \in Nat /\ n - 1 \in 0 .. m BY <1>1, <2>2
    <3>2. g[n - 1] \in Block BY <3>1
    <3> QED BY <1>3, <1>4, <2>2, <3>1, <3>2 DEF Follows
  <2> QED BY <2>1, <2>2
<1>6. IsX(g, input) BY <1>5 DEF IsX, m, first, k
<1>7. IsX(x, input) BY <1>6 DEF XAfter
<1> HIDE DEF x
<1>8. x = [n \in 0 .. m |-> IF n = 0 THEN first ELSE Aes(k, x[n - 1])]
  BY <1>7 DEF IsX, m, first, k
<1>9. \A n \in 0 .. m : x[n] = IF n = 0 THEN first ELSE Aes(k, x[n - 1])
  BY <1>8
<1>10. x[0] = first BY <1>1, <1>9
<1>11. \A n \in 0 .. m - 1 : x[n + 1] = Aes(k, x[n])
  <2> TAKE n \in 0 .. m - 1
  <2>1. n + 1 \in 0 .. m /\ n + 1 # 0 /\ (n + 1) - 1 = n BY <1>1
  <2> QED BY <1>9, <2>1
<1>12. \A n \in 0 .. m : x[n] \in Block
  <2> DEFINE S == {n \in Nat : n <= m => x[n] \in Block}
  <2>1. 0 \in S BY <1>1, <1>10
  <2>2. ASSUME NEW n \in Nat, n \in S PROVE n + 1 \in S
    <3> SUFFICES ASSUME n + 1 <= m PROVE x[n + 1] \in Block OBVIOUS
    <3>1. n \in 0 .. m - 1 /\ x[n] \in Block BY <1>1, <2>2
    <3> QED BY <1>1, <1>11, <3>1, CipherAssumption
  <2> HIDE DEF S
  <2>3. Nat \subseteq S BY <2>1, <2>2, SetInduction
  <2> QED BY <2>3 DEF S
<1>13. x \in [0 .. m -> Block]
  <2>1. x = [n \in 0 .. m |-> x[n]] BY <1>8
  <2> QED BY <1>12, <2>1
<1> QED BY <1>7, <1>10, <1>11, <1>13 DEF x, m, first, k

LEMMA DerivedIsResult ==
    ASSUME NEW input, Accepted(input)
    PROVE  /\ ResultBlocks(input) \in [1 .. SeedBlocks -> Block]
           /\ Promise!DerivedFrom(input.data)
                  = Promise!Concatenated(ResultBlocks(input))
<1> DEFINE m == SeedBlocks
           vector(r) == Promise!ToBytes(r, LengthBytes)
                        \o Promise!ZeroBytes(BlockBytes - LengthBytes)
           temp == Promise!Concatenated([n \in 1 .. Promise!SeedBlocks |->
                       Promise!BccOf(Promise!InitialKey,
                           vector(n - 1) \o Promise!PaddedString(input.data))])
           x == CHOOSE x : x = [n \in 0 .. Promise!SeedBlocks |->
                    IF n = 0 THEN SubSeq(temp, KeyBytes + 1, Promise!SeedBytes)
                    ELSE Aes(SubSeq(temp, 1, KeyBytes), x[n - 1])]
<1>1. Promise!DerivedFrom(input.data)
          = Promise!Concatenated([n \in 1 .. Promise!SeedBlocks |-> x[n]])
  BY DEF Promise!DerivedFrom
<1>2. \A r : vector(r) = Vector(r)
  BY SamePowers, SameBytes DEF Promise!ToBytes, BigEndian, Vector
<1> HIDE DEF vector
<1>3. m \in Nat BY SeedIsBlocks
<1>4. [n \in 1 .. m |-> Promise!BccOf(Promise!InitialKey,
                  vector(n - 1) \o Promise!PaddedString(input.data))]
          = RoundOutputs(input)
  <2>1. \A n \in 1 .. m : vector(n - 1) \o Promise!PaddedString(input.data)
                              = RoundString(input, n - 1)
    <3> TAKE n \in 1 .. m
    <3>1. n - 1 \in Nat BY <1>3
    <3>2. RoundString(input, n - 1)
              = Vector(n - 1) \o Promise!PaddedString(input.data)
      BY <3>1, StringIsPadded
    <3> QED BY <1>2, <3>2
  <2> QED BY <2>1, SameBytes DEF RoundOutputs
<1>5. temp = Temp(input) BY <1>4 DEF Temp, SeedBlocks
<1> HIDE DEF temp
<1>6. /\ SubSeq(temp, KeyBytes + 1, Promise!SeedBytes)
             = BytesAt(Temp(input), KeyBytes, BlockBytes)
      /\ SubSeq(temp, 1, KeyBytes) = DfKey(input)
  BY <1>5, TempIsSeed, SeedParts, SeedIsBlocks DEF DfKey
<1>7. x = XAfter(input) BY <1>6 DEF XAfter, IsX, SeedBlocks
<1>8. ResultBlocks(input) \in [1 .. m -> Block]
  <2>1. XAfter(input) \in [0 .. m -> Block] BY XUnfolds
  <2>2. \A n \in 1 .. m : n \in 0 .. m BY <1>3
  <2> QED BY <2>1, <2>2 DEF ResultBlocks
<1> HIDE DEF x
<1> QED BY <1>1, <1>7, <1>8 DEF ResultBlocks, SeedBlocks

-----------------------------------------------------------------------------
(* The calls that are answered with an error at once.                      *)

(* The checks of block_cipher_df, made in an order that never wraps, turn  *)
(* down the lengths that do not fit, and no other.                         *)
LEMMA ChecksAreExact ==
    ASSUME NEW n \in Nat
    PROVE  Promise!TooLong(n) <=> LengthRejected(n)
<1> DEFINE B == BlockBytes
           u == 2 * LengthBytes + n + 1
           p == (B - (u % B)) % B
           blocks == (u + B - 1) \div B
<1>1. /\ B \in Nat \ {0} /\ LengthBytes \in Nat \ {0} /\ u \in Nat
      /\ SizeMax \in Nat
  BY CtrSizes
<1>2. p \in 0 .. B - 1 /\ (u + p) % B = 0 BY <1>1, PaddingFills
<1> HIDE DEF p
<1>3. B * (blocks + 1) = u + p + B
  <2> DEFINE q == (u + p) \div B
  <2>1. u + p \in Nat BY <1>1, <1>2
  <2>2. q \in Nat /\ u + p = B * q BY <1>1, <1>2, <2>1
  <2> HIDE DEF q, u
  <2>3. u + B - 1 = B * q + (B - 1 - p) /\ B - 1 - p \in 0 .. B - 1
    BY <1>1, <1>2, <2>2
  <2>4. (B * q + (B - 1 - p)) \div B = q
    <3> DEFINE r == B - 1 - p
    <3>1. r \in 0 .. B - 1 BY <2>3
    <3> HIDE DEF r
    <3>2. (B * q + r) \div B = q BY <1>1, <2>2, <3>1, RemainderIsUnique
    <3> QED BY <3>2 DEF r
  <2>5. blocks = q BY <2>3, <2>4
  <2>6. B * (q + 1) = B * q + B BY <1>1, <2>2
  <2> QED BY <2>2, <2>5, <2>6
<1>4. Promise!TooLong(n) <=> n > MaxInput \/ u + p + B > SizeMax
  <2>1. Promise!MaxInput = MaxInput
    BY SamePowers DEF Promise!MaxInput, MaxInput
  <2> QED BY <1>3, <2>1 DEF Promise!TooLong
<1>5. \A x \in 0 .. SizeMax : InSize(x) = x
  BY <1>1, RemainderOfSmall DEF InSize
<1>6. CASE u > SizeMax
  <2>1. n > SizeMax - (2 * LengthBytes + 1) BY <1>1, <1>6
  <2>2. u + p + B > SizeMax BY <1>1, <1>2, <1>6
  <2> QED BY <1>4, <2>1, <2>2 DEF LengthRejected
<1>7. CASE ~(u > SizeMax)
  <2>1. ~(n > SizeMax - (2 * LengthBytes + 1)) BY <1>1, <1>7
  <2>2. UnpaddedLen(n) = u BY <1>1, <1>5, <1>7 DEF UnpaddedLen
  <2>3. PaddingLen(n) = p BY <2>2 DEF PaddingLen, p
  <2> HIDE DEF u
  <2>4. CASE u + p > SizeMax
    <3>1. u > SizeMax - p BY <1>1, <1>2, <2>4
    <3>2. u + p + B > SizeMax BY <1>1, <1>2, <2>4
    <3> QED BY <1>4, <2>2, <2>3, <3>1, <3>2 DEF LengthRejected
  <2>5. CASE ~(u + p > SizeMax)
    <3>1. u + p \in 0 .. SizeMax BY <1>1, <1>2, <2>5
    <3>2. StringLen(n) = u + p BY <1>5, <2>2, <2>3, <3>1 DEF StringLen
    <3>3. ~(u > SizeMax - p) BY <1>1, <1>2, <2>5
    <3>4. u + p > SizeMax - B <=> u + p + B > SizeMax BY <1>1, <1>2
    <3> QED BY <1>4, <2>1, <2>2, <2>3, <3>2, <3>3, <3>4 DEF LengthRejected
  <2> QED BY <2>4, <2>5
<1> QED BY <1>6, <1>7

LEMMA SameChecks ==
    ASSUME NEW c \in Calls
    PROVE  /\ Promise!Unacceptable(c) <=> Invalid(c)
           /\ c.op = "df" /\ ~Invalid(c) => Accepted(c.input)
<1>1. c.op = "df" => (Promise!TooLong(c.input.len)
                          <=> LengthRejected(c.input.len))
  BY CallShapes, ChecksAreExact
<1>2. Promise!Unacceptable(c) <=> Invalid(c)
  <2>1. CASE c.op = "update"
    BY <2>1 DEF Promise!Unacceptable, Invalid
  <2>2. CASE c.op = "bcc"
    BY <2>2 DEF Promise!Unacceptable, Invalid, BccInvalid
  <2>3. CASE c.op = "df"
    BY <1>1, <2>3 DEF Promise!Unacceptable, Invalid, DfInvalid
  <2> QED BY <2>1, <2>2, <2>3, CallShapes
<1>3. ASSUME c.op = "df", ~Invalid(c) PROVE Accepted(c.input)
  <2>1. HonestLength(c.input) BY <1>3, CallsAssumption
  <2>2. ~LengthRejected(c.input.len) /\ ~(c.input.null /\ c.input.len > 0)
    BY <1>3 DEF Invalid, DfInvalid
  <2> QED BY <1>3, <2>1, <2>2, CallShapes DEF HonestLength, Accepted
<1> QED BY <1>2, <1>3

-----------------------------------------------------------------------------
(* What each loop has computed so far.                                     *)

KeyStreamBlocks(k, counter) ==
    [n \in 1 .. SeedBlocks |-> Aes(k, ToBlock(Promise!ToNumber(counter) + n))]

KeyStream(k, counter) == Promise!Concatenated(KeyStreamBlocks(k, counter))

UpdateLoop ==
    /\ pc = "update" => \E n \in 0 .. SeedBlocks - 1 :
        /\ offset = BlockBytes * n
        /\ update.working_v = ToBlock(Promise!ToNumber(v) + n)
        /\ Filled(update.temp, KeyStream(key, v), n)
    /\ pc = "update_end" /\ status = "SUCCESS" =>
        update.temp = KeyStream(key, v)

BccLoop ==
    /\ pc = "bcc" => \E n \in 0 .. BlocksIn(BccData) - 1 :
        /\ bcc_offset = BlockBytes * n
        /\ bcc.chaining_value = Chain(BccKey, BccData)[n]
    /\ pc = "bcc_end" /\ status = "SUCCESS" =>
        bcc.chaining_value = Promise!BccOf(BccKey, BccData)

RoundsLoop ==
    pc \in {"bcc", "bcc_end"} /\ call.op = "df" =>
        /\ df.initial_key = InitialKey
        /\ round \in 0 .. SeedBlocks - 1
        /\ bcc_input = RoundString(call.input, round)
        /\ Filled(df.temp, Temp(call.input), round)

ResultLoop ==
    /\ pc = "encrypt" => \E n \in 0 .. SeedBlocks - 1 :
        /\ offset = BlockBytes * n
        /\ df.derived_key = DfKey(call.input)
        /\ df.x = XAfter(call.input)[n]
        /\ Filled(df.result, Promise!Concatenated(ResultBlocks(call.input)), n)
    /\ pc = "df_end" /\ status = "SUCCESS" =>
        df.result = Promise!DerivedFrom(call.input.data)

(* A failure ends its function; a call under way was accepted. *)
Proceeding ==
    /\ pc \notin {"update_end", "bcc_end", "df_end"} => status = "SUCCESS"
    /\ pc # "idle" => ~Invalid(call)

Working == UpdateLoop /\ BccLoop /\ RoundsLoop /\ ResultLoop /\ Proceeding

LEMMA BlockOffsets ==
    /\ BlockBytes * 0 = 0
    /\ \A n \in Nat : /\ BlockBytes * n \in Nat
                      /\ BlockBytes * n + BlockBytes = BlockBytes * (n + 1)
                      /\ BlockBytes * n = n * BlockBytes
    /\ \A m, n \in Nat : BlockBytes * n < BlockBytes * m <=> n < m
<1>1. BlockBytes \in Nat \ {0} BY Sizes
<1>2. ASSUME NEW m \in Nat, NEW n \in Nat
      PROVE  BlockBytes * n < BlockBytes * m <=> n < m
  <2> DEFINE s == BlockBytes * n  t == BlockBytes * m
  <2>1. s \in Nat /\ t \in Nat BY <1>1
  <2>2. CASE n < m
    <3>1. BlockBytes * (n + 1) <= t BY <1>1, <2>2
    <3>2. BlockBytes * (n + 1) = s + BlockBytes BY <1>1
    <3> HIDE DEF s, t
    <3> QED BY <1>1, <2>1, <2>2, <3>1, <3>2 DEF s, t
  <2>3. CASE m <= n
    <3>1. t <= s BY <1>1, <2>3
    <3> HIDE DEF s, t
    <3>2. ~(s < t) BY <2>1, <3>1
    <3>3. ~(n < m) BY <2>3
    <3> QED BY <3>2, <3>3 DEF s, t
  <2> QED BY <2>2, <2>3
<1> QED BY <1>1, <1>2

LEMMA StreamBlocks ==
    ASSUME NEW k \in Key, NEW counter \in Block
    PROVE  /\ KeyStreamBlocks(k, counter) \in [1 .. SeedBlocks -> Block]
           /\ KeyStream(k, counter) \in [1 .. SeedBytes -> Byte]
<1>1. SeedBlocks \in Nat /\ SeedBytes = BlockBytes * SeedBlocks
  BY SeedIsBlocks
<1>2. \A n \in 1 .. SeedBlocks :
          Aes(k, ToBlock(Promise!ToNumber(counter) + n)) \in Block
  <2> TAKE n \in 1 .. SeedBlocks
  <2>1. Promise!ToNumber(counter) + n \in Nat BY <1>1, NumberOfBlock
  <2> QED BY <2>1, BlockDigits, CipherAssumption
<1>3. KeyStreamBlocks(k, counter) \in [1 .. SeedBlocks -> Block]
  BY <1>2 DEF KeyStreamBlocks
<1> QED BY <1>1, <1>3, JoinedBlocks DEF KeyStream

LEMMA WorkingInit == Init => Working
BY DEF Init, Working, UpdateLoop, BccLoop, RoundsLoop, ResultLoop, Proceeding

(* The first block of data starts the chain. *)
LEMMA ChainStarts ==
    ASSUME NEW k \in Key, NEW data \in Seq(Byte), Len(data) % BlockBytes = 0,
           Len(data) # 0
    PROVE  /\ 0 \in 0 .. BlocksIn(data) - 1
           /\ Chain(k, data)[0] = ZeroBytes(BlockBytes)
<1>1. BlocksIn(data) \in Nat /\ Len(data) = BlockBytes * BlocksIn(data)
  BY BlockOfData
<1>2. BlocksIn(data) # 0 BY <1>1, BlockOffsets
<1> QED BY <1>1, <1>2, ChainUnfolds

(* The steps that make a call. *)
LEMMA WorkingOfCalls ==
    ASSUME Shape, Confined, Working, Rejected \/ CallUpdate \/ CallBcc \/ CallDf
    PROVE  Working'
<1> USE DEF Working, UpdateLoop, BccLoop, RoundsLoop, ResultLoop, Proceeding
<1>1. CASE Rejected
  <2>1. pc' = "idle" /\ status' = status /\ pc = "idle" BY <1>1 DEF Rejected
  <2> QED BY <2>1
<1>2. CASE CallUpdate
  <2>1. PICK c \in Calls :
            /\ c.op = "update" /\ Entered(c) /\ Goto("update")
            /\ update' = [update EXCEPT !.working_v = v] /\ offset' = 0
    BY <1>2 DEF CallUpdate
  <2>2. /\ pc = "idle" /\ pc' = "update" /\ status' = status
        /\ call' = c /\ ~Invalid(c) /\ UNCHANGED <<key, v>>
    BY <2>1 DEF Entered, Goto
  <2>3. Promise!ToNumber(v) + 0 = Promise!ToNumber(v)
        /\ ToBlock(Promise!ToNumber(v)) = v
    BY NumberOfBlock DEF Shape, TypeOK
  <2>4. update'.working_v = v
    BY <2>1 DEF Shape, TypeOK, UpdateFrame
  <2>5. 0 \in 0 .. SeedBlocks - 1 BY SeedIsBlocks
  <2>6. UpdateLoop'
    <3>1. /\ offset' = BlockBytes * 0
          /\ update'.working_v = ToBlock(Promise!ToNumber(v) + 0)
          /\ Filled(update'.temp, KeyStream(key, v), 0)
      BY <2>1, <2>3, <2>4, BlockOffsets, NothingFilled
    <3> QED BY <2>2, <2>5, <3>1
  <2>7. status' = "SUCCESS" /\ Invalid(call)' = Invalid(c) BY <2>2
  <2> QED BY <2>2, <2>6, <2>7
<1>3. CASE CallBcc
  <2>1. PICK c \in Calls :
            /\ c.op = "bcc" /\ Entered(c) /\ Goto("bcc") /\ bcc_offset' = 0
            /\ UNCHANGED <<frames, offset, round, heap>>
    BY <1>3 DEF CallBcc
  <2>2. /\ pc = "idle" /\ pc' = "bcc" /\ status' = status /\ bcc' = bcc
        /\ call' = c /\ ~Invalid(c)
    BY <2>1 DEF Entered, Goto, frames
  <2>3. BccData' = c.data /\ BccKey' = c.key
    BY <2>1, <2>2 DEF BccData, BccKey, ByCaller
  <2>4. /\ c.key \in Key /\ c.data \in Seq(Byte) /\ Len(c.data) # 0
        /\ Len(c.data) % BlockBytes = 0
    BY <2>1, <2>2, CallShapes DEF Invalid, BccInvalid
  <2>5. bcc'.chaining_value = ZeroBytes(BlockBytes)
    BY <2>2 DEF Confined, ErasedBcc
  <2>6. BccLoop'
    <3>1. /\ 0 \in 0 .. BlocksIn(c.data) - 1
          /\ bcc_offset' = BlockBytes * 0
          /\ bcc'.chaining_value = Chain(c.key, c.data)[0]
      BY <2>1, <2>4, <2>5, ChainStarts, BlockOffsets
    <3> QED BY <2>2, <2>3, <3>1
  <2>7. status' = "SUCCESS" /\ Invalid(call)' = Invalid(c) BY <2>2
  <2> QED BY <2>1, <2>2, <2>6, <2>7
<1>4. CASE CallDf
  <2>1. PICK c \in Calls : c.op = "df" /\ Entered(c) /\ Goto("alloc")
    BY <1>4 DEF CallDf
  <2>2. /\ pc = "idle" /\ pc' = "alloc" /\ status' = status
        /\ call' = c /\ ~Invalid(c)
    BY <2>1 DEF Entered, Goto
  <2>3. status' = "SUCCESS" /\ Invalid(call)' = Invalid(c) BY <2>2
  <2> QED BY <2>2, <2>3
<1> QED BY <1>1, <1>2, <1>3, <1>4

(* The steps of ctr_drbg_update. *)
LEMMA WorkingOfUpdate ==
    ASSUME Shape, Working, UpdateBlock \/ UpdateEnd
    PROVE  Working'
<1> USE DEF Working, BccLoop, RoundsLoop, ResultLoop, Proceeding
<1>1. CASE UpdateEnd
  <2>1. pc' = "idle" /\ status' = "SUCCESS" BY <1>1 DEF UpdateEnd, Return
  <2> QED BY <2>1 DEF UpdateLoop
<1>2. CASE UpdateBlock
  <2> DEFINE counter == CounterIncrement(update.working_v)
             stepped == [update EXCEPT !.working_v = counter]
             written == [stepped EXCEPT
                            !.temp = WriteAt(@, offset, Aes(key, counter))]
  <2>1. /\ pc = "update" /\ UNCHANGED <<key, v, call>>
        /\ pc' \in {"update", "update_end"} /\ status = "SUCCESS"
    BY <1>2 DEF UpdateBlock, Goto, Fail, caller
  <2>2. Proceeding' BY <1>2, <2>1 DEF UpdateBlock, Goto, Fail, Invalid,
                                      BccInvalid, DfInvalid
  <2>3. UpdateLoop'
    <3>1. CASE status' # "SUCCESS"
      <4>1. pc' = "update_end"
        BY <1>2, <2>1, <3>1 DEF UpdateBlock, Goto, Fail
      <4> QED BY <3>1, <4>1 DEF UpdateLoop
    <3>2. CASE status' = "SUCCESS"
      <4>1. /\ update' = written /\ offset' = offset + BlockBytes
            /\ pc' = IF offset' < SeedBytes THEN "update" ELSE "update_end"
        BY <1>2, <3>2 DEF UpdateBlock, Goto, Fail, CipherFault
      <4> DEFINE N == Promise!ToNumber(v)
                 whole == KeyStream(key, v)
                 blocks == KeyStreamBlocks(key, v)
      <4>2. /\ key \in Key /\ v \in Block /\ N \in Nat
            /\ update.temp \in [1 .. SeedBytes -> Byte]
            /\ update \in UpdateFrame
        BY NumberOfBlock DEF Shape, TypeOK, UpdateFrame
      <4>3. /\ SeedBlocks \in Nat \ {0} /\ SeedBytes = BlockBytes * SeedBlocks
            /\ blocks \in [1 .. SeedBlocks -> Block]
            /\ whole \in [1 .. SeedBytes -> Byte]
            /\ whole = Promise!Concatenated(blocks)
        BY <4>2, SeedIsBlocks, StreamBlocks DEF KeyStream
      <4>4. PICK n \in 0 .. SeedBlocks - 1 :
                /\ offset = BlockBytes * n
                /\ update.working_v = ToBlock(N + n)
                /\ Filled(update.temp, whole, n)
        BY <2>1 DEF UpdateLoop
      <4> HIDE DEF N, whole
      <4>5. n \in Nat /\ n + 1 \in 1 .. SeedBlocks /\ N + n \in Nat
            /\ (N + n) + 1 = N + (n + 1)
        BY <4>2, <4>3
      <4>6. counter = ToBlock(N + (n + 1)) BY <4>4, <4>5, IncrementCounts
      <4>7. Aes(key, counter) = blocks[n + 1]
        BY <4>5, <4>6 DEF KeyStreamBlocks, N
      <4> HIDE DEF counter, blocks
      <4>8. /\ update'.working_v = counter
            /\ update'.temp = WriteAt(update.temp, offset, Aes(key, counter))
        BY <4>1, <4>2 DEF UpdateFrame
      <4>9. Filled(update'.temp, whole, n + 1)
        BY <4>2, <4>3, <4>4, <4>7, <4>8, FilledGrows
      <4>10. offset' = BlockBytes * (n + 1)
        BY <4>1, <4>4, <4>5, BlockOffsets
      <4>11. offset' < SeedBytes <=> n + 1 < SeedBlocks
        <5>1. n + 1 \in Nat /\ SeedBlocks \in Nat BY <4>3, <4>5
        <5>2. BlockBytes * (n + 1) < BlockBytes * SeedBlocks
                  <=> n + 1 < SeedBlocks
          BY <5>1, BlockOffsets, Zenon
        <5> QED BY <4>3, <4>10, <5>2, Zenon
      <4>12. CASE n + 1 < SeedBlocks
        <5>1. pc' = "update" /\ n + 1 \in 0 .. SeedBlocks - 1
          BY <4>1, <4>3, <4>5, <4>11, <4>12
        <5>2. KeyStream(key, v)' = whole /\ Promise!ToNumber(v)' = N
          BY <2>1 DEF whole, N
        <5> QED
          BY <4>6, <4>8, <4>9, <4>10, <5>1, <5>2 DEF UpdateLoop
      <4>13. CASE ~(n + 1 < SeedBlocks)
        <5>1. pc' = "update_end" /\ n + 1 = SeedBlocks
          BY <4>1, <4>3, <4>5, <4>11, <4>13
        <5>2. update'.temp \in [1 .. SeedBytes -> Byte]
          <6>1. \A j \in DOMAIN Aes(key, counter) :
                    Aes(key, counter)[j] \in Byte
            BY <4>3, <4>5, <4>7 DEF Block
          <6> QED BY <4>2, <4>8, <6>1, WriteKeepsBytes, Sizes
        <5>3. update'.temp = whole
          BY <4>3, <4>9, <5>1, <5>2, FilledWhole
        <5>4. KeyStream(key, v)' = whole BY <2>1 DEF whole
        <5> QED BY <5>1, <5>3, <5>4 DEF UpdateLoop
      <4> QED BY <4>12, <4>13
    <3> QED BY <3>1, <3>2
  <2> QED BY <2>1, <2>2, <2>3
<1> QED BY <1>1, <1>2

(* The steps of ctr_drbg_bcc. *)
LEMMA WorkingOfBcc ==
    ASSUME Shape, Working, BccBlock \/ BccReturns
    PROVE  Working'
<1> USE DEF Working, UpdateLoop, RoundsLoop, ResultLoop, Proceeding
<1>1. CASE BccReturns
  <2>1. pc' = "idle" /\ status' = "SUCCESS" BY <1>1 DEF BccReturns, Return
  <2> QED BY <2>1 DEF BccLoop
<1>2. CASE BccBlock
  <2>1. /\ pc = "bcc" /\ UNCHANGED <<call, df, round, bcc_input>>
        /\ pc' \in {"bcc", "bcc_end"} /\ status = "SUCCESS"
    BY <1>2 DEF BccBlock, Goto, Fail, caller, heap
  <2>2. Proceeding'
    BY <1>2, <2>1 DEF BccBlock, Goto, Fail, Invalid, BccInvalid, DfInvalid
  <2>3. RoundsLoop' BY <2>1
  <2>4. BccData' = BccData /\ BccKey' = BccKey
    BY <2>1 DEF BccData, BccKey, ByCaller
  <2>5. BccLoop'
    <3>1. CASE status' # "SUCCESS"
      <4>1. pc' = "bcc_end"
        BY <1>2, <2>1, <3>1 DEF BccBlock, Goto, Fail
      <4> QED BY <3>1, <4>1 DEF BccLoop
    <3>2. CASE status' = "SUCCESS"
      <4> DEFINE data == BccData  k == BccKey  f == Chain(k, data)
                 m == BlocksIn(data)
      <4>1. /\ bcc'.chaining_value = Aes(BccKey, BccInput)
            /\ bcc_offset' = bcc_offset + BlockBytes
            /\ pc' = IF bcc_offset' < Len(BccData) THEN "bcc" ELSE "bcc_end"
        BY <1>2, <3>2
        DEF BccBlock, Goto, Fail, CipherFault, Shape, TypeOK, BccFrame
      <4>2. data \in Seq(Byte) /\ k \in Key /\ Len(data) % BlockBytes = 0
        BY <2>1, CallShapes
        DEF BccData, BccKey, ByCaller, Shape, TypeOK, DfFrame, BlockLeft
      <4>3. PICK n \in 0 .. m - 1 : /\ bcc_offset = BlockBytes * n
                                    /\ bcc.chaining_value = f[n]
        BY <2>1 DEF BccLoop
      <4>4. /\ m \in Nat /\ Len(data) = BlockBytes * m
            /\ Promise!BccOf(k, data) = f[m]
            /\ f[n + 1] = Aes(k, XorBytes(f[n], BlockAfter(data, n)))
        BY <4>2, BlockOfData, ChainUnfolds
      <4> HIDE DEF f, m
      <4>5. bcc'.chaining_value = f[n + 1]
        BY <4>1, <4>3, <4>4 DEF BccInput, BlockAfter
      <4>6. n \in Nat /\ n + 1 \in Nat /\ n + 1 <= m BY <4>3, <4>4
      <4>7. bcc_offset' = BlockBytes * (n + 1)
        BY <4>1, <4>3, <4>6, BlockOffsets
      <4>8. bcc_offset' < Len(data) <=> n + 1 < m
        <5>1. BlockBytes * (n + 1) < BlockBytes * m <=> n + 1 < m
          BY <4>4, <4>6, BlockOffsets, Zenon
        <5> QED BY <4>4, <4>7, <5>1, Zenon
      <4>9. CASE n + 1 < m
        <5>1. pc' = "bcc" /\ n + 1 \in 0 .. m - 1
          BY <4>1, <4>4, <4>6, <4>8, <4>9
        <5> QED BY <2>4, <4>5, <4>7, <5>1 DEF BccLoop, f, m
      <4>10. CASE ~(n + 1 < m)
        <5>1. pc' = "bcc_end" /\ n + 1 = m
          BY <4>1, <4>4, <4>6, <4>8, <4>10
        <5> QED BY <2>4, <4>4, <4>5, <5>1 DEF BccLoop
      <4> QED BY <4>9, <4>10
    <3> QED BY <3>1, <3>2
  <2> QED BY <2>1, <2>2, <2>3, <2>5
<1> QED BY <1>1, <1>2

(* A round starts, with the string of its number. *)
LEMMA RoundStarts ==
    ASSUME NEW input, Accepted(input), NEW r \in Nat,
           Len(RoundString(input, r)) # 0
    PROVE  LET string == RoundString(input, r)
           IN  /\ 0 \in 0 .. BlocksIn(string) - 1
               /\ Chain(InitialKey, string)[0] = ZeroBytes(BlockBytes)
BY RoundIsBlocks, InitialKeyIsKey, ChainStarts

(* The steps of block_cipher_df. *)
LEMMA WorkingOfAlloc ==
    ASSUME Shape, Confined, Working, Alloc, Shape'
    PROVE  Working'
<1> USE DEF Working, UpdateLoop, ResultLoop
<1>1. pc = "alloc" /\ call.op = "df" /\ call \in Calls /\ UNCHANGED bcc
  BY DEF Alloc, Shape, TypeOK, NoCall
<1>2. CASE Return("MEMORY_ERROR", FreshOutput)
  <2>1. pc' = "idle" /\ status' = "SUCCESS" BY <1>2 DEF Return
  <2> QED BY <2>1 DEF BccLoop, RoundsLoop, Proceeding
<1>3. CASE /\ df' = [df EXCEPT !.initial_key = InitialKey]
           /\ round' = 0
           /\ bcc_input' = RoundBlock(DfString(call.input), 0)
           /\ CallBccOfRound(bcc_input')
           /\ UNCHANGED <<reply, call, calls>>
  <2> DEFINE string == RoundString(call.input, 0)
  <2>1. ~Invalid(call) /\ status = "SUCCESS" /\ Accepted(call.input)
    BY <1>1, SameChecks DEF Proceeding
  <2>2. bcc_input' = string BY <1>3 DEF RoundString
  <2>3. pc' = "bcc" /\ status' = "SUCCESS" /\ bcc_offset' = 0
    BY <1>3, <2>1 DEF CallBccOfRound, Goto, Shape, RoundsAccepted
  <2>4. df'.initial_key = InitialKey
    BY <1>3 DEF Shape, TypeOK, DfFrame
  <2>5. BccData' = string /\ BccKey' = InitialKey
    BY <1>1, <1>3, <2>2, <2>4 DEF BccData, BccKey, ByCaller
  <2>6. Len(string) # 0
    <3>1. bcc_offset' < Len(BccData') BY <2>3 DEF Shape, BlockLeft
    <3> QED BY <2>3, <2>5, <3>1
  <2>7. bcc'.chaining_value = ZeroBytes(BlockBytes)
    BY <1>1 DEF Confined, ErasedBcc
  <2>8. BccLoop'
    <3>1. /\ 0 \in 0 .. BlocksIn(string) - 1
          /\ Chain(InitialKey, string)[0] = ZeroBytes(BlockBytes)
      BY <2>1, <2>6, RoundStarts
    <3> HIDE DEF string
    <3> QED BY <2>3, <2>5, <2>7, <3>1, BlockOffsets DEF BccLoop
  <2>9. RoundsLoop'
    <3>1. 0 \in 0 .. SeedBlocks - 1 BY SeedIsBlocks
    <3>2. Filled(df'.temp, Temp(call.input), 0) BY NothingFilled
    <3> HIDE DEF string
    <3> QED BY <1>3, <2>2, <2>4, <3>1, <3>2 DEF RoundsLoop, string
  <2>10. Proceeding'
    BY <1>3, <2>1, <2>3 DEF Proceeding, Invalid, BccInvalid, DfInvalid
  <2> QED BY <2>3, <2>8, <2>9, <2>10
<1> QED BY <1>2, <1>3 DEF Alloc

LEMMA WorkingOfRounds ==
    ASSUME Shape, Working, RoundEnds, Shape'
    PROVE  Working'
<1> USE DEF Working, UpdateLoop
<1> DEFINE next   == round + 1
           filled == [df EXCEPT !.temp = BccOutput(@, round * BlockBytes)]
           input  == call.input
<1>1. /\ pc = "bcc_end" /\ call.op = "df" /\ call \in Calls
      /\ call' = call /\ bcc' = ErasedBcc
  BY DEF RoundEnds, BccCleanup, caller, ByCaller, Shape, TypeOK, NoCall
<1>2. ~Invalid(call) /\ Accepted(input)
  BY <1>1, SameChecks DEF Proceeding
<1>3. /\ df.initial_key = InitialKey /\ round \in 0 .. SeedBlocks - 1
      /\ bcc_input = RoundString(input, round)
      /\ Filled(df.temp, Temp(input), round)
      /\ df \in DfFrame /\ df.temp \in [1 .. SeedBytes -> Byte]
  BY <1>1 DEF RoundsLoop, Shape, TypeOK, DfFrame
<1>4. /\ SeedBlocks \in Nat \ {0} /\ SeedBytes = BlockBytes * SeedBlocks
      /\ RoundOutputs(input) \in [1 .. SeedBlocks -> Block]
      /\ Temp(input) = Promise!Concatenated(RoundOutputs(input))
      /\ Temp(input) \in [1 .. SeedBytes -> Byte]
  BY <1>2, SeedIsBlocks, TempIsSeed DEF Temp
<1>5. round \in Nat /\ next \in Nat /\ next \in 1 .. SeedBlocks
  BY <1>3, <1>4
<1>6. next * BlockBytes < SeedBytes <=> next < SeedBlocks
  <2>1. BlockBytes * next < BlockBytes * SeedBlocks <=> next < SeedBlocks
    BY <1>4, <1>5, BlockOffsets, Zenon
  <2>2. next * BlockBytes = BlockBytes * next BY <1>5, BlockOffsets
  <2> QED BY <1>4, <2>1, <2>2, Zenon
<1>7. CASE status # "SUCCESS"
  <2>1. pc' = "df_end" /\ status' = status BY <1>7 DEF RoundEnds, Goto
  <2> QED
    BY <1>1, <1>2, <1>7, <2>1
    DEF BccLoop, RoundsLoop, ResultLoop, Proceeding, Invalid, BccInvalid,
        DfInvalid
<1>8. CASE status = "SUCCESS"
  <2>1. bcc.chaining_value = RoundOutputs(input)[next]
    <3>1. bcc.chaining_value = Promise!BccOf(BccKey, BccData)
      BY <1>1, <1>8 DEF BccLoop
    <3>2. BccKey = InitialKey /\ BccData = RoundString(input, round)
      BY <1>1, <1>3 DEF BccKey, BccData, ByCaller
    <3>3. next - 1 = round BY <1>5
    <3> QED BY <1>5, <3>1, <3>2, <3>3 DEF RoundOutputs
  <2>2. filled = [df EXCEPT !.temp =
                      WriteAt(@, BlockBytes * round, bcc.chaining_value)]
    <3>1. round * BlockBytes = BlockBytes * round BY <1>5, BlockOffsets
    <3> QED BY <1>8, <3>1 DEF BccOutput
  <2>3. /\ filled.initial_key = InitialKey
        /\ filled.temp
               = WriteAt(df.temp, BlockBytes * round, RoundOutputs(input)[next])
    BY <1>3, <2>1, <2>2 DEF DfFrame
  <2>4. filled.temp \in [1 .. SeedBytes -> Byte] /\ filled \in DfFrame
    <3>1. filled = [df EXCEPT !.temp = BccOutput(@, round * BlockBytes)]
      OBVIOUS
    <3> HIDE DEF filled
    <3>2. TypeOK BY DEF Shape
    <3>3. filled \in DfFrame BY <3>1, <3>2, FilledFrame
    <3> QED BY <3>3 DEF DfFrame
  <2> HIDE DEF filled
  <2>5. Filled(filled.temp, Temp(input), next)
    BY <1>3, <1>4, <1>5, <2>3, FilledGrows
  <2> HIDE DEF next
  <2>6. CASE next < SeedBlocks
    <3>1. /\ df' = filled /\ round' = next
          /\ bcc_input' = RoundBlock(bcc_input, next)
          /\ CallBccOfRound(bcc_input)
      <4>1. next * BlockBytes < SeedBytes BY <1>6, <2>6
      <4>2. ~(next * BlockBytes >= SeedBytes)
        <5> DEFINE t == next * BlockBytes
        <5>1. t \in Nat /\ t < SeedBytes BY <1>5, <4>1, Sizes
        <5> HIDE DEF t
        <5>2. ~(t >= SeedBytes) BY <5>1, Sizes
        <5> QED BY <5>2 DEF t
      <4> QED BY <1>8, <4>2 DEF RoundEnds, filled, next
    <3> DEFINE string == RoundString(input, next)
    <3>2. bcc_input' = string BY <1>2, <1>3, <1>5, <3>1, RoundsOverwrite
    <3>3. pc' = "bcc" /\ status' = "SUCCESS" /\ bcc_offset' = 0
      BY <1>8, <3>1 DEF CallBccOfRound, Goto, Shape, RoundsAccepted
    <3>4. BccData' = string /\ BccKey' = InitialKey
      BY <1>1, <2>3, <3>1, <3>2 DEF BccData, BccKey, ByCaller
    <3>5. Len(string) # 0
      <4>1. bcc_offset' < Len(BccData') BY <3>3 DEF Shape, BlockLeft
      <4> QED BY <3>3, <3>4, <4>1
    <3>6. bcc'.chaining_value = ZeroBytes(BlockBytes)
      BY <1>1 DEF ErasedBcc
    <3>7. BccLoop'
      <4>1. /\ 0 \in 0 .. BlocksIn(string) - 1
            /\ Chain(InitialKey, string)[0] = ZeroBytes(BlockBytes)
        BY <1>2, <1>5, <3>5, RoundStarts
      <4> HIDE DEF string
      <4> QED BY <3>3, <3>4, <3>6, <4>1, BlockOffsets DEF BccLoop
    <3>8. RoundsLoop'
      <4>1. next \in 0 .. SeedBlocks - 1 BY <1>4, <1>5, <2>6
      <4> HIDE DEF string
      <4> QED BY <1>1, <2>3, <2>5, <3>1, <3>2, <4>1 DEF RoundsLoop, string
    <3>9. Proceeding'
      BY <1>1, <1>2, <3>3 DEF Proceeding, Invalid, BccInvalid, DfInvalid
    <3> QED BY <3>3, <3>7, <3>8, <3>9 DEF ResultLoop
  <2>7. CASE ~(next < SeedBlocks)
    <3>1. next = SeedBlocks BY <1>4, <1>5, <2>7
    <3>2. df' = Derived(filled) /\ offset' = 0 /\ Goto("encrypt")
      BY <1>6, <1>8, <2>7 DEF RoundEnds, filled, next
    <3>3. filled.temp = Temp(input)
      BY <1>4, <2>4, <2>5, <3>1, FilledWhole
    <3>4. /\ df'.derived_key = DfKey(input)
          /\ df'.x = XAfter(input)[0]
      <4>1. /\ df'.derived_key = BytesAt(filled.temp, 0, KeyBytes)
            /\ df'.x = BytesAt(filled.temp, KeyBytes, BlockBytes)
        BY <2>4, <3>2 DEF Derived, DfFrame
      <4> QED BY <1>2, <3>3, <4>1, XUnfolds DEF DfKey
    <3>5. pc' = "encrypt" /\ status' = "SUCCESS" BY <1>8, <3>2 DEF Goto
    <3>6. ResultLoop'
      <4>1. 0 \in 0 .. SeedBlocks - 1 BY <1>4
      <4>2. offset' = BlockBytes * 0 BY <3>2, BlockOffsets
      <4>3. Filled(df'.result, Promise!Concatenated(ResultBlocks(input)), 0)
        BY NothingFilled
      <4> QED BY <1>1, <3>4, <3>5, <4>1, <4>2, <4>3 DEF ResultLoop
    <3>7. Proceeding'
      BY <1>1, <1>2, <3>5 DEF Proceeding, Invalid, BccInvalid, DfInvalid
    <3> QED BY <3>5, <3>6, <3>7 DEF BccLoop, RoundsLoop
  <2> QED BY <2>6, <2>7
<1> QED BY <1>7, <1>8

LEMMA WorkingOfDf ==
    ASSUME Shape, Working, DfBlock \/ DfReturns
    PROVE  Working'
<1> USE DEF Working, UpdateLoop, BccLoop, RoundsLoop, Proceeding
<1>1. CASE DfReturns
  <2>1. pc' = "idle" /\ status' = "SUCCESS" BY <1>1 DEF DfReturns, Return
  <2> QED BY <2>1 DEF ResultLoop
<1>2. CASE DfBlock
  <2> DEFINE input == call.input
  <2>1. /\ pc = "encrypt" /\ call' = call /\ call.op = "df" /\ call \in Calls
        /\ pc' \in {"encrypt", "df_end"} /\ status = "SUCCESS"
    BY <1>2 DEF DfBlock, Goto, Fail, caller, Shape, TypeOK, NoCall
  <2>2. ~Invalid(call) /\ Accepted(input) BY <2>1, SameChecks
  <2>3. Proceeding'
    BY <1>2, <2>1, <2>2 DEF DfBlock, Goto, Fail, Invalid, BccInvalid, DfInvalid
  <2>4. ResultLoop'
    <3>1. CASE status' # "SUCCESS"
      <4>1. pc' = "df_end"
        BY <1>2, <2>1, <3>1 DEF DfBlock, Goto, Fail
      <4> QED BY <3>1, <4>1 DEF ResultLoop
    <3>2. CASE status' = "SUCCESS"
      <4> DEFINE block  == Aes(df.derived_key, df.x)
                 blocks == ResultBlocks(input)
                 whole  == Promise!Concatenated(blocks)
      <4>1. /\ df' = [df EXCEPT !.x = block,
                                !.result = WriteAt(@, offset, block)]
            /\ offset' = offset + BlockBytes
            /\ pc' = IF offset' < SeedBytes THEN "encrypt" ELSE "df_end"
        BY <1>2, <3>2 DEF DfBlock, DfChain, Goto, Fail, CipherFault
      <4>2. df \in DfFrame /\ df.result \in [1 .. SeedBytes -> Byte]
        BY DEF Shape, TypeOK, DfFrame
      <4>3. /\ SeedBlocks \in Nat \ {0} /\ SeedBytes = BlockBytes * SeedBlocks
            /\ blocks \in [1 .. SeedBlocks -> Block]
            /\ Promise!DerivedFrom(input.data) = whole
        BY <2>2, SeedIsBlocks, DerivedIsResult
      <4>4. whole \in [1 .. SeedBytes -> Byte] BY <4>3, JoinedBlocks
      <4>5. PICK n \in 0 .. SeedBlocks - 1 :
                /\ offset = BlockBytes * n
                /\ df.derived_key = DfKey(input)
                /\ df.x = XAfter(input)[n]
                /\ Filled(df.result, whole, n)
        BY <2>1 DEF ResultLoop
      <4>6. n \in Nat /\ n + 1 \in Nat /\ n + 1 \in 1 .. SeedBlocks
        BY <4>3, <4>5
      <4>7. block = XAfter(input)[n + 1] BY <2>2, <4>5, XUnfolds
      <4>8. block = blocks[n + 1] BY <4>6, <4>7 DEF ResultBlocks
      <4> HIDE DEF block, blocks
      <4>9. /\ df'.derived_key = DfKey(input)
            /\ df'.x = XAfter(input)[n + 1]
            /\ df'.result = WriteAt(df.result, offset, block)
        BY <4>1, <4>2, <4>5, <4>7 DEF DfFrame
      <4>10. Filled(df'.result, whole, n + 1)
        BY <4>2, <4>3, <4>5, <4>8, <4>9, FilledGrows
      <4>11. offset' = BlockBytes * (n + 1)
        BY <4>1, <4>5, <4>6, BlockOffsets
      <4> HIDE DEF whole
      <4>12. offset' < SeedBytes <=> n + 1 < SeedBlocks
        <5>1. BlockBytes * (n + 1) < BlockBytes * SeedBlocks
                  <=> n + 1 < SeedBlocks
          BY <4>3, <4>6, BlockOffsets, Zenon
        <5> QED BY <4>3, <4>11, <5>1, Zenon
      <4>13. CASE n + 1 < SeedBlocks
        <5>1. pc' = "encrypt" /\ n + 1 \in 0 .. SeedBlocks - 1
          BY <4>1, <4>3, <4>6, <4>12, <4>13
        <5>2. call'.input = input BY <2>1
        <5> QED
          BY <4>9, <4>10, <4>11, <5>1, <5>2 DEF ResultLoop, whole, blocks
      <4>14. CASE ~(n + 1 < SeedBlocks)
        <5>1. pc' = "df_end" /\ n + 1 = SeedBlocks
          BY <4>1, <4>3, <4>6, <4>12, <4>14
        <5>2. df'.result \in [1 .. SeedBytes -> Byte]
          <6>1. block \in Block BY <4>3, <4>6, <4>8
          <6>2. \A j \in DOMAIN block : block[j] \in Byte BY <6>1 DEF Block
          <6> QED BY <4>2, <4>9, <6>2, WriteKeepsBytes, Sizes
        <5>3. df'.result = whole
          BY <4>3, <4>4, <4>10, <5>1, <5>2, FilledWhole
        <5> QED BY <2>1, <4>3, <5>1, <5>3 DEF ResultLoop
      <4> QED BY <4>13, <4>14
    <3> QED BY <3>1, <3>2
  <2> QED BY <2>1, <2>3, <2>4
<1> QED BY <1>1, <1>2

LEMMA WorkingStep ==
    Shape /\ Confined /\ Working /\ [Next]_vars /\ Shape' => Working'
<1> SUFFICES ASSUME Shape, Confined, Working, [Next]_vars, Shape'
             PROVE  Working'
  OBVIOUS
<1>1. CASE UNCHANGED vars
  <2>1. /\ UNCHANGED <<key, v, call, pc, status, update, bcc, df>>
        /\ UNCHANGED <<offset, bcc_offset, round, bcc_input>>
    BY <1>1 DEF vars, caller, frames, loops, heap
  <2>2. UpdateLoop' BY <2>1 DEF Working, UpdateLoop
  <2>3. BccLoop'
    <3>1. BccData' = BccData /\ BccKey' = BccKey
      BY <2>1 DEF BccData, BccKey, ByCaller
    <3> QED BY <2>1, <3>1 DEF Working, BccLoop
  <2>4. RoundsLoop' BY <2>1 DEF Working, RoundsLoop
  <2>5. ResultLoop' BY <2>1 DEF Working, ResultLoop
  <2>6. Proceeding'
    BY <2>1 DEF Working, Proceeding, Invalid, BccInvalid, DfInvalid
  <2> QED BY <2>2, <2>3, <2>4, <2>5, <2>6 DEF Working
<1>2. CASE Next
  <2>1. CASE Done BY <2>1, <1>1 DEF Done
  <2> QED
    BY <1>2, <2>1, WorkingOfCalls, WorkingOfUpdate, WorkingOfBcc,
       WorkingOfAlloc, WorkingOfRounds, WorkingOfDf
    DEF Next, Steps
<1> QED BY <1>1, <1>2

LEMMA WorkingHolds == Spec => []Working
<1>1. Init => Working BY WorkingInit
<1>2. Shape /\ Confined /\ Working /\ [Next]_vars /\ Shape' => Working'
  BY WorkingStep
<1> QED BY <1>1, <1>2, ShapeHolds, ConfinedHolds, PTL DEF Spec

-----------------------------------------------------------------------------
(* The promise. *)

(* A call's answer: nothing was written, or the result in front of the     *)
(* bytes that stay untouched.                                              *)
LEMMA AnswerWithNothing ==
    <<>> \o SubSeq(Promise!FreshOutput, Len(<<>>) + 1, Promise!SeedBytes + 1)
        = FreshOutput
<1> DEFINE fresh == [i \in 1 .. SeedBytes + 1 |-> -1]
<1>1. SeedBytes \in Nat /\ Promise!SeedBytes = SeedBytes
  BY Sizes, SeedIsBlocks
<1>2. /\ FreshOutput = fresh /\ Promise!FreshOutput = fresh
  BY <1>1 DEF FreshOutput, Untouched, Promise!FreshOutput, Promise!Untouched
<1>3. fresh \in Seq(Int) /\ Len(fresh) = SeedBytes + 1 BY <1>1
<1> HIDE DEF fresh
<1>4. SubSeq(fresh, 1, SeedBytes + 1) = fresh BY <1>1, <1>3
<1>5. <<>> \o fresh = fresh BY <1>3
<1>6. Len(<<>>) + 1 = 1 OBVIOUS
<1> QED BY <1>1, <1>2, <1>4, <1>5, <1>6

LEMMA AnswerWithBytes ==
    ASSUME NEW n \in 0 .. SeedBytes, NEW bytes \in [1 .. n -> Byte]
    PROVE  bytes \o SubSeq(Promise!FreshOutput, Len(bytes) + 1,
                           Promise!SeedBytes + 1)
               = WriteAt(FreshOutput, 0, bytes)
<1> DEFINE fresh == [i \in 1 .. SeedBytes + 1 |-> -1]
           S == SeedBytes + 1
           rest == SubSeq(fresh, n + 1, S)
           joined == bytes \o rest
           written == WriteAt(FreshOutput, 0, bytes)
<1>1. S \in Nat /\ n \in Nat /\ n < S /\ Promise!SeedBytes = SeedBytes
  BY Sizes, SeedIsBlocks
<1>2. /\ FreshOutput = fresh /\ Promise!FreshOutput = fresh
  BY <1>1 DEF FreshOutput, Untouched, Promise!FreshOutput, Promise!Untouched
<1>3. /\ fresh \in Seq(Int) /\ Len(fresh) = S
      /\ \A i \in 1 .. S : fresh[i] = -1
  BY <1>1
<1>4. written = [i \in 1 .. S |-> IF i - 0 \in 1 .. n THEN bytes[i - 0]
                                                      ELSE fresh[i]]
  <2>1. DOMAIN bytes = 1 .. n /\ DOMAIN fresh = 1 .. S OBVIOUS
  <2> HIDE DEF fresh, S
  <2> QED BY <1>2, <2>1 DEF WriteAt
<1>5. bytes \in Seq(Int) /\ Len(bytes) = n
  <2>1. Byte \subseteq Int BY Sizes
  <2>2. bytes \in [1 .. n -> Int] BY <2>1
  <2> QED BY <1>1, <2>2
<1> HIDE DEF fresh, S
<1>6. /\ rest \in Seq(Int) /\ Len(rest) = S - n
      /\ \A i \in 1 .. S - n : rest[i] = fresh[n + i]
  BY <1>1, <1>3
<1> HIDE DEF rest
<1>7. /\ joined \in Seq(Int) /\ Len(joined) = n + (S - n)
      /\ \A i \in 1 .. n : joined[i] = bytes[i]
      /\ \A i \in n + 1 .. n + (S - n) : joined[i] = rest[i - n]
  <2> DEFINE t == S - n  a == bytes  b == rest  T == Int
  <2>1. n \in Nat /\ t \in Nat BY <1>1
  <2>2. /\ a \in Seq(T) /\ Len(a) = n
        /\ b \in Seq(T) /\ Len(b) = t
    BY <1>5, <1>6
  <2> HIDE DEF t, a, b, T
  <2>3. /\ a \o b \in Seq(T) /\ Len(a \o b) = n + t
        /\ \A i \in 1 .. n : (a \o b)[i] = a[i]
        /\ \A i \in n + 1 .. n + t : (a \o b)[i] = b[i - n]
    BY <2>1, <2>2
  <2> QED BY <2>3 DEF t, a, b, T
<1> HIDE DEF joined, written
<1>8. joined = [i \in 1 .. S |-> joined[i]]
      /\ written = [i \in 1 .. S |-> written[i]]
  BY <1>1, <1>4, <1>7
<1>9. \A i \in 1 .. S : joined[i] = written[i]
  <2> TAKE i \in 1 .. S
  <2>1. CASE i <= n
    <3>1. i \in 1 .. n /\ i - 0 = i BY <1>1, <2>1
    <3> QED BY <1>4, <1>7, <3>1
  <2>2. CASE ~(i <= n)
    <3>1. /\ i - 0 \notin 1 .. n /\ i \in n + 1 .. n + (S - n)
          /\ i - n \in 1 .. S - n /\ n + (i - n) = i
      BY <1>1, <2>2
    <3> QED BY <1>3, <1>4, <1>6, <1>7, <3>1
  <2> QED BY <2>1, <2>2
<1>10. [i \in 1 .. S |-> joined[i]] = [i \in 1 .. S |-> written[i]] BY <1>9
<1>11. joined = written BY <1>8, <1>10
<1> QED BY <1>1, <1>2, <1>5, <1>11 DEF joined, rest, written, S

LEMMA PromiseInit == Init => Promise!Init
<1>1. FreshOutput = Promise!FreshOutput
  BY SeedIsBlocks
  DEF FreshOutput, Untouched, Promise!FreshOutput, Promise!Untouched
<1> QED
  BY <1>1, CallsAssumption
  DEF Init, Promise!Init, Answer, NoCall, Promise!NoAnswer, Promise!NoCall,
      Key, Promise!Key, Block, Promise!Block, Byte, Promise!Byte

(* A call that fails is the promise's failure. *)
LEMMA FailureKept ==
    ASSUME NEW c \in Calls, NEW s,
           s \in IF Invalid(c) THEN {"INVALID_ARGUMENT"} ELSE CipherFault,
           reply' = Answer(c, s, FreshOutput), UNCHANGED <<key, v>>
    PROVE  Promise!Next
<1>1. reply'.call = c BY DEF Answer
<1>2. Promise!Answers(c, s, <<>>)
  BY AnswerWithNothing DEF Promise!Answers, Answer
<1>3. Promise!Fails(c) BY <1>2, SameChecks DEF Promise!Fails
<1> QED BY <1>1, <1>3 DEF Promise!Next

(* ctr_drbg_update replaces Key and V by the standard's. *)
LEMMA UpdateKept ==
    ASSUME Shape, Working, UpdateEnd
    PROVE  Promise!Next
<1>1. /\ pc = "update_end" /\ call.op = "update" /\ call \in Calls
      /\ ~Invalid(call) /\ reply' = Answer(call, status, FreshOutput)
  BY DEF UpdateEnd, Return, Shape, TypeOK, NoCall, Working, Proceeding
<1>2. CASE status # "SUCCESS"
  <2>1. status \in CipherFault BY <1>2 DEF Shape, TypeOK, RoundsAccepted
  <2>2. UNCHANGED <<key, v>> BY <1>2 DEF UpdateEnd, Commit
  <2> QED BY <1>1, <2>1, <2>2, FailureKept
<1>3. CASE status = "SUCCESS"
  <2> DEFINE seed == XorBytes(update.temp, call.data)
  <2>1. /\ key \in Key /\ v \in Block
        /\ call.data \in [1 .. SeedBytes -> Byte]
        /\ update.temp \in [1 .. SeedBytes -> Byte]
    BY <1>1, CallShapes DEF Shape, TypeOK, UpdateFrame
  <2>2. seed \in [1 .. SeedBytes -> Byte]
    BY <2>1, XorAssumption DEF XorBytes
  <2>3. Promise!UpdatedBy(key, v, call.data) = seed
    <3>1. update.temp = KeyStream(key, v)
      BY <1>1, <1>3 DEF Working, UpdateLoop
    <3> QED
      BY <3>1, SameBytes
      DEF Promise!UpdatedBy, KeyStream, KeyStreamBlocks, ToBlock, SeedBlocks
  <2> HIDE DEF seed
  <2>4. /\ key' = BytesAt(seed, 0, KeyBytes)
        /\ v' = BytesAt(seed, KeyBytes, BlockBytes)
    BY <1>3 DEF UpdateEnd, Commit, seed
  <2>5. /\ key' = SubSeq(seed, 1, KeyBytes)
        /\ v' = SubSeq(seed, KeyBytes + 1, Promise!SeedBytes)
    BY <2>2, <2>4, SeedParts, SeedIsBlocks
  <2>6. Promise!Answers(call, "SUCCESS", <<>>)
    BY <1>1, <1>3, AnswerWithNothing DEF Promise!Answers, Answer
  <2>7. Promise!Update(call)
    BY <1>1, <2>3, <2>5, <2>6, SameChecks DEF Promise!Update
  <2>8. reply'.call = call BY <1>1 DEF Answer
  <2> QED BY <1>1, <2>7, <2>8 DEF Promise!Next
<1> QED BY <1>2, <1>3

(* ctr_drbg_bcc returns the standard's chaining value. *)
LEMMA BccKept ==
    ASSUME Shape, Working, BccReturns
    PROVE  Promise!Next
<1>1. /\ pc = "bcc_end" /\ call.op = "bcc" /\ call \in Calls /\ ByCaller
      /\ ~Invalid(call) /\ UNCHANGED <<key, v>>
      /\ reply' = Answer(call, status, BccOutput(FreshOutput, 0))
  BY DEF BccReturns, Return, ByCaller, Shape, TypeOK, NoCall, Working,
         Proceeding
<1>2. CASE status # "SUCCESS"
  <2>1. status \in CipherFault BY <1>2 DEF Shape, TypeOK, RoundsAccepted
  <2> QED BY <1>1, <1>2, <2>1, FailureKept DEF BccOutput
<1>3. CASE status = "SUCCESS"
  <2>1. bcc.chaining_value = Promise!BccOf(call.key, call.data)
    BY <1>1, <1>3 DEF Working, BccLoop, BccKey, BccData
  <2>2. bcc.chaining_value \in [1 .. BlockBytes -> Byte]
    BY DEF Shape, TypeOK, BccFrame, Block
  <2>3. BlockBytes \in 0 .. SeedBytes BY CtrSizes DEF SeedBytes
  <2>4. Promise!Answers(call, "SUCCESS", Promise!BccOf(call.key, call.data))
    BY <1>1, <1>3, <2>1, <2>2, <2>3, AnswerWithBytes
    DEF Promise!Answers, Answer, BccOutput
  <2>5. Promise!Bcc(call) BY <1>1, <2>4, SameChecks DEF Promise!Bcc
  <2>6. reply'.call = call BY <1>1 DEF Answer
  <2> QED BY <1>1, <2>5, <2>6 DEF Promise!Next
<1> QED BY <1>2, <1>3

(* block_cipher_df returns what the standard derives. *)
LEMMA DfKept ==
    ASSUME Shape, Working, DfReturns
    PROVE  Promise!Next
<1>1. /\ pc = "df_end" /\ call.op = "df" /\ call \in Calls
      /\ ~Invalid(call) /\ UNCHANGED <<key, v>>
      /\ reply' = Answer(call, status, DfOutput)
  BY DEF DfReturns, Return, Shape, TypeOK, NoCall, Working, Proceeding
<1>2. CASE status # "SUCCESS"
  <2>1. status \in CipherFault BY <1>2 DEF Shape, TypeOK, RoundsAccepted
  <2> QED BY <1>1, <1>2, <2>1, FailureKept DEF DfOutput
<1>3. CASE status = "SUCCESS"
  <2>1. df.result = Promise!DerivedFrom(call.input.data)
    BY <1>1, <1>3 DEF Working, ResultLoop
  <2>2. df.result \in [1 .. SeedBytes -> Byte]
    BY DEF Shape, TypeOK, DfFrame
  <2>3. SeedBytes \in 0 .. SeedBytes BY Sizes
  <2>4. Promise!Answers(call, "SUCCESS", Promise!DerivedFrom(call.input.data))
    BY <1>1, <1>3, <2>1, <2>2, <2>3, AnswerWithBytes
    DEF Promise!Answers, Answer, DfOutput
  <2>5. Promise!Derive(call) BY <1>1, <2>4, SameChecks DEF Promise!Derive
  <2>6. reply'.call = call BY <1>1 DEF Answer
  <2> QED BY <1>1, <2>5, <2>6 DEF Promise!Next
<1> QED BY <1>2, <1>3

LEMMA PromiseStep ==
    Shape /\ Working /\ [Next]_vars => [Promise!Next]_<<key, v, reply>>
<1> SUFFICES ASSUME Shape, Working, [Next]_vars
             PROVE  Promise!Next \/ UNCHANGED <<key, v, reply>>
  OBVIOUS
<1>1. CASE UNCHANGED vars BY <1>1 DEF vars, caller
<1>2. CASE Rejected
  <2>1. PICK c \in Calls :
            /\ Invalid(c) /\ UNCHANGED <<key, v>>
            /\ reply' = Answer(c, "INVALID_ARGUMENT", FreshOutput)
    BY <1>2 DEF Rejected
  <2> QED BY <2>1, FailureKept
<1>3. CASE CallUpdate \/ CallBcc \/ CallDf
  BY <1>3 DEF CallUpdate, CallBcc, CallDf, Entered
<1>4. CASE UpdateBlock \/ BccBlock \/ RoundEnds \/ DfBlock \/ Done
  BY <1>4 DEF UpdateBlock, BccBlock, RoundEnds, DfBlock, Done, caller, vars
<1>5. CASE Alloc
  <2>1. call \in Calls /\ ~Invalid(call) /\ UNCHANGED <<key, v>>
    BY <1>5 DEF Alloc, Shape, TypeOK, NoCall, Working, Proceeding
  <2>2. CASE Return("MEMORY_ERROR", FreshOutput)
    <3>1. reply' = Answer(call, "MEMORY_ERROR", FreshOutput)
      BY <2>2 DEF Return
    <3>2. "MEMORY_ERROR" \in CipherFault BY DEF CipherFault
    <3> QED BY <2>1, <3>1, <3>2, FailureKept
  <2>3. CASE UNCHANGED reply BY <2>1, <2>3
  <2> QED BY <1>5, <2>2, <2>3 DEF Alloc
<1> QED
  BY <1>1, <1>2, <1>3, <1>4, <1>5, UpdateKept, BccKept, DfKept
  DEF Next, Steps

(* The building blocks of CTR_DRBG compute what SP 800-90A defines, for    *)
(* every cipher and every size: a call that succeeds delivers the closed   *)
(* form of its function, in one step as its caller sees it, and a call     *)
(* that fails leaves its caller as it was.                                 *)
THEOREM PromiseIsKept == Spec => Promise!Spec
<1>1. Init => Promise!Init BY PromiseInit
<1>2. Shape /\ Working /\ [Next]_vars => [Promise!Next]_Promise!vars
  BY PromiseStep DEF Promise!vars
<1> QED
  BY <1>1, <1>2, ShapeHolds, WorkingHolds, PTL DEF Spec, Promise!Spec

-----------------------------------------------------------------------------
(* A call comes to its end.                                                *)

(* The value of StepsLeft at each place. *)
LEMMA Places ==
    /\ pc = "idle" => StepsLeft = 0
    /\ pc \in {"update", "encrypt"} => StepsLeft = SeedBytes - offset + 1
    /\ pc \in {"update_end", "df_end"} => StepsLeft = 1
    /\ pc = "bcc" => StepsLeft = Len(BccData) - bcc_offset + 1 + AfterRound
    /\ pc = "bcc_end" => StepsLeft = 1 + AfterRound
    /\ pc = "alloc" =>
        StepsLeft = SeedBytes * RoundSteps(DfString(call.input)) + SeedBytes + 2
BY DEF StepsLeft

LEMMA PlacesNext ==
    /\ pc' = "idle" => StepsLeft' = 0
    /\ pc' \in {"update", "encrypt"} => StepsLeft' = SeedBytes - offset' + 1
    /\ pc' \in {"update_end", "df_end"} => StepsLeft' = 1
    /\ pc' = "bcc" =>
        StepsLeft' = Len(BccData)' - bcc_offset' + 1 + AfterRound'
    /\ pc' = "bcc_end" => StepsLeft' = 1 + AfterRound'
BY DEF StepsLeft

(* A loop over the seed is inside it. *)
LEMMA OffsetInSeed ==
    ASSUME Working, pc \in {"update", "encrypt"}
    PROVE  offset \in 0 .. SeedBytes - 1
<1>1. PICK n \in 0 .. SeedBlocks - 1 : offset = BlockBytes * n
  BY DEF Working, UpdateLoop, ResultLoop
<1>2. SeedBlocks \in Nat /\ SeedBytes = BlockBytes * SeedBlocks
  BY SeedIsBlocks
<1>3. n \in Nat /\ n < SeedBlocks BY <1>1, <1>2
<1>4. BlockBytes * n \in Nat BY <1>3, BlockOffsets
<1>5. BlockBytes * n < BlockBytes * SeedBlocks
  BY <1>2, <1>3, BlockOffsets, Zenon
<1>6. offset \in Nat /\ offset < SeedBytes
  BY <1>1, <1>2, <1>4, <1>5, Zenon
<1> QED BY <1>6, Sizes

(* What is left after a round is positive, and one less round is a string  *)
(* less.                                                                   *)
LEMMA RoundsLeft ==
    ASSUME NEW r \in Nat, r < SeedBytes, NEW length \in Nat
    PROVE  /\ (SeedBytes - r - 1) * (length + 1) \in Nat
           /\ r + 1 < SeedBytes =>
                (SeedBytes - r - 1) * (length + 1)
                    = (SeedBytes - (r + 1) - 1) * (length + 1) + length + 1
<1> DEFINE a == SeedBytes - r - 1  l == length + 1
<1>1. a \in Nat /\ l \in Nat BY Sizes
<1>2. \A x, y \in Nat : x * y \in Nat OBVIOUS
<1>3. \A x \in Nat \ {0}, y \in Nat : x * y = (x - 1) * y + y OBVIOUS
<1>4. r + 1 < SeedBytes => a # 0 /\ SeedBytes - (r + 1) - 1 = a - 1
  BY Sizes
<1>5. r + 1 < SeedBytes =>
          a * l = (SeedBytes - (r + 1) - 1) * l + l
  <2> HIDE DEF a, l
  <2> QED BY <1>1, <1>3, <1>4
<1>6. a * l \in Nat
  <2> HIDE DEF a, l
  <2> QED BY <1>1, <1>2
<1>7. ASSUME r + 1 < SeedBytes
      PROVE  (SeedBytes - (r + 1) - 1) * l \in Nat
  <2>1. SeedBytes - (r + 1) - 1 \in Nat BY <1>7, Sizes
  <2> HIDE DEF l
  <2> QED BY <1>1, <1>2, <2>1
<1>8. ASSUME r + 1 < SeedBytes
      PROVE  (SeedBytes - (r + 1) - 1) * l + l
                 = (SeedBytes - (r + 1) - 1) * l + length + 1
  <2> DEFINE t == (SeedBytes - (r + 1) - 1) * l
  <2>1. t \in Nat BY <1>7, <1>8
  <2> HIDE DEF t
  <2>2. t + l = t + length + 1 BY <2>1
  <2> QED BY <2>2 DEF t
<1> QED BY <1>5, <1>6, <1>8

(* A round is one of those over the seed. *)
LEMMA RoundInSeed ==
    ASSUME Shape, Working, pc \in {"bcc", "bcc_end"}
    PROVE  /\ AfterRound \in Nat
           /\ ~ByCaller => /\ round \in Nat /\ round < SeedBytes
                           /\ Len(bcc_input) \in Nat /\ call.op = "df"
                           /\ AfterRound = (SeedBytes - round - 1)
                                 * (Len(bcc_input) + 1) + SeedBytes + 1
<1>1. CASE ByCaller BY <1>1 DEF AfterRound
<1>2. CASE ~ByCaller
  <2>1. call.op = "df" BY <1>2 DEF Shape, TypeOK, ByCaller
  <2>2. round \in 0 .. SeedBlocks - 1 BY <2>1 DEF Working, RoundsLoop
  <2>3. /\ SeedBlocks \in Nat \ {0} /\ BlockBytes \in Nat \ {0}
        /\ SeedBytes = BlockBytes * SeedBlocks
    BY SeedIsBlocks, Sizes
  <2>4. SeedBlocks <= SeedBytes
    <3>1. \A x, y \in Nat \ {0} : y <= x * y OBVIOUS
    <3> QED BY <2>3, <3>1
  <2>5. round \in Nat /\ round < SeedBytes BY <2>2, <2>3, <2>4, Sizes
  <2>6. Len(bcc_input) \in Nat BY DEF Shape, TypeOK
  <2>7. AfterRound = (SeedBytes - round - 1)
                         * (Len(bcc_input) + 1) + SeedBytes + 1
    BY <1>2 DEF AfterRound, RoundSteps
  <2> DEFINE t == (SeedBytes - round - 1) * (Len(bcc_input) + 1)
  <2>8. t \in Nat BY <2>5, <2>6, RoundsLeft
  <2> HIDE DEF t
  <2>9. t + SeedBytes + 1 \in Nat BY <2>8, Sizes
  <2> QED BY <2>1, <2>5, <2>6, <2>7, <2>9 DEF t
<1> QED BY <1>1, <1>2

(* The steps of the two loops over the seed, and those that return. *)
LEMMA FewerLeftOfSeed ==
    ASSUME Shape, Working,
           \/ UpdateBlock \/ UpdateEnd \/ DfBlock \/ DfReturns \/ BccReturns
    PROVE  StepsLeft' \in 0 .. StepsLeft - 1
<1>1. CASE UpdateBlock \/ DfBlock
  <2>1. /\ pc \in {"update", "encrypt"}
        /\ \/ pc' = pc /\ offset' = offset + BlockBytes /\ offset' < SeedBytes
           \/ pc' \in {"update_end", "df_end"}
    BY <1>1 DEF UpdateBlock, DfBlock, Goto, Fail
  <2>2. offset \in 0 .. SeedBytes - 1 BY <2>1, OffsetInSeed
  <2>3. StepsLeft = SeedBytes - offset + 1 BY <2>1, Places
  <2>4. CASE pc' = pc /\ offset' = offset + BlockBytes /\ offset' < SeedBytes
    <3>1. StepsLeft' = SeedBytes - offset' + 1 BY <2>1, <2>4, PlacesNext
    <3> QED BY <2>2, <2>3, <2>4, <3>1, Sizes
  <2>5. CASE pc' \in {"update_end", "df_end"}
    <3>1. StepsLeft' = 1 BY <2>5, PlacesNext
    <3> QED BY <2>2, <2>3, <3>1, Sizes
  <2> QED BY <2>1, <2>4, <2>5
<1>2. CASE UpdateEnd \/ DfReturns \/ BccReturns
  <2>1. pc \in {"update_end", "df_end", "bcc_end"} /\ pc' = "idle"
    BY <1>2 DEF UpdateEnd, DfReturns, BccReturns, Return
  <2>2. StepsLeft' = 0 BY <2>1, PlacesNext
  <2>3. CASE pc = "bcc_end"
    <3>1. StepsLeft = 1 + AfterRound /\ AfterRound \in Nat
      BY <2>3, Places, RoundInSeed
    <3> QED BY <2>2, <3>1
  <2>4. CASE pc # "bcc_end"
    <3>1. StepsLeft = 1 BY <2>1, <2>4, Places
    <3> QED BY <2>2, <3>1
  <2> QED BY <2>3, <2>4
<1> QED BY <1>1, <1>2

(* The steps of ctr_drbg_bcc. *)
LEMMA FewerLeftOfBcc ==
    ASSUME Shape, Working, BccBlock
    PROVE  StepsLeft' \in 0 .. StepsLeft - 1
<1>1. /\ pc = "bcc" /\ UNCHANGED <<call, round, bcc_input>>
      /\ \/ pc' = "bcc" /\ bcc_offset' = bcc_offset + BlockBytes
                        /\ bcc_offset' < Len(BccData)
         \/ pc' = "bcc_end"
  BY DEF BccBlock, Goto, Fail, caller, heap
<1>2. BccData' = BccData /\ AfterRound' = AfterRound
  BY <1>1 DEF BccData, AfterRound, ByCaller
<1>3. bcc_offset \in Nat /\ bcc_offset < Len(BccData) /\ Len(BccData) \in Nat
  <2>1. BccData \in Seq(Byte)
    BY <1>1, CallShapes DEF BccData, ByCaller, Shape, TypeOK, NoCall
  <2> QED BY <1>1, <2>1 DEF Shape, TypeOK, BlockLeft
<1>4. AfterRound \in Nat BY <1>1, RoundInSeed
<1>5. StepsLeft = Len(BccData) - bcc_offset + 1 + AfterRound
  BY <1>1, Places
<1> DEFINE n == Len(BccData)
<1>6. n \in Nat /\ bcc_offset < n /\ StepsLeft = n - bcc_offset + 1 + AfterRound
  BY <1>3, <1>5
<1>7. CASE pc' = "bcc" /\ bcc_offset' = bcc_offset + BlockBytes
                       /\ bcc_offset' < Len(BccData)
  <2>1. StepsLeft' = n - bcc_offset' + 1 + AfterRound
    BY <1>2, <1>7, PlacesNext
  <2>2. bcc_offset' < n BY <1>7
  <2> HIDE DEF n
  <2> QED BY <1>3, <1>4, <1>6, <1>7, <2>1, <2>2, Sizes
<1>8. CASE pc' = "bcc_end"
  <2>1. StepsLeft' = 1 + AfterRound BY <1>2, <1>8, PlacesNext
  <2> HIDE DEF n
  <2> QED BY <1>3, <1>4, <1>6, <2>1
<1> QED BY <1>1, <1>7, <1>8

(* The step that starts the rounds, with a string of n bytes. *)
LEMMA FewerLeftOfAlloc ==
    ASSUME Shape, Working, Alloc, Shape', Working'
    PROVE  StepsLeft' \in 0 .. StepsLeft - 1
<1> DEFINE n == Len(DfString(call.input))
           whole == SeedBytes * (n + 1)
<1>1. pc = "alloc" /\ call.op = "df" /\ call \in Calls
  BY DEF Alloc, Shape, TypeOK, NoCall
<1>2. /\ DfString(call.input) \in [1 .. BccInputLen(call.input.len) -> Byte]
      /\ BccInputLen(call.input.len) \in Nat
      /\ n = BccInputLen(call.input.len)
  <2>1. call.input.len \in Nat /\ ~LengthRejected(call.input.len)
    BY <1>1, CallShapes DEF Shape, DfInvalid
  <2> QED
    BY <1>1, <2>1, CallShapes, StringOfBytes, AcceptedLength,
       FunctionIsSequence
<1>3. n \in Nat /\ whole \in Nat /\ StepsLeft = whole + SeedBytes + 2
  <2>1. n \in Nat BY <1>2
  <2>2. \A x, y \in Nat : x * y \in Nat OBVIOUS
  <2>3. StepsLeft = whole + SeedBytes + 2 BY <1>1, Places DEF RoundSteps
  <2> HIDE DEF n
  <2>4. n + 1 \in Nat BY <2>1
  <2> QED BY <2>1, <2>2, <2>3, <2>4, Sizes
<1>4. CASE Return("MEMORY_ERROR", FreshOutput)
  <2>1. StepsLeft' = 0 BY <1>4, PlacesNext DEF Return
  <2> HIDE DEF whole
  <2> QED BY <1>3, <2>1, Sizes
<1>5. CASE /\ round' = 0 /\ call' = call
           /\ bcc_input' = RoundBlock(DfString(call.input), 0)
           /\ CallBccOfRound(bcc_input')
  <2>1. pc' = "bcc" /\ bcc_offset' = 0
    BY <1>5 DEF CallBccOfRound, Goto, Shape, RoundsAccepted
  <2>2. Len(bcc_input') = n
    <3> HIDE DEF n
    <3>1. bcc_input' \in [1 .. n -> Byte]
      BY <1>2, <1>3, <1>5, RoundBlockKeepsBytes
    <3> QED BY <1>3, <3>1, FunctionIsSequence
  <2>3. BccData' = bcc_input' /\ ~ByCaller' BY <1>1, <1>5 DEF BccData, ByCaller
  <2> DEFINE rest == (SeedBytes - 0 - 1) * (n + 1)
  <2>4. AfterRound' = rest + SeedBytes + 1
    <3>1. AfterRound' = (SeedBytes - round' - 1) * (Len(bcc_input') + 1)
                            + SeedBytes + 1
      BY <2>3 DEF AfterRound, RoundSteps
    <3> QED BY <1>5, <2>2, <3>1
  <2>5. StepsLeft' = n - 0 + 1 + (rest + SeedBytes + 1)
    BY <2>1, <2>2, <2>3, <2>4, PlacesNext
  <2>6. rest \in Nat /\ whole = rest + n + 1
    <3> HIDE DEF n
    <3>1. rest \in Nat BY <1>3, RoundsLeft, Sizes
    <3>2. \A x \in Nat \ {0}, y \in Nat : x * y = (x - 0 - 1) * y + y OBVIOUS
    <3>3. n + 1 \in Nat BY <1>3
    <3>4. whole = rest + (n + 1) BY <3>2, <3>3, Sizes
    <3> HIDE DEF whole, rest
    <3> QED BY <1>3, <3>1, <3>4
  <2> HIDE DEF n, whole, rest
  <2> QED BY <1>3, <2>5, <2>6, Sizes
<1> QED BY <1>4, <1>5 DEF Alloc

(* The step between two rounds, or after the last. *)
LEMMA FewerLeftOfRounds ==
    ASSUME Shape, Working, RoundEnds, Shape'
    PROVE  StepsLeft' \in 0 .. StepsLeft - 1
<1> DEFINE n == Len(bcc_input)
           rest == (SeedBytes - round - 1) * (n + 1)
<1>1. pc = "bcc_end" /\ ~ByCaller /\ call' = call BY DEF RoundEnds, caller
<1>2. /\ round \in Nat /\ round < SeedBytes /\ n \in Nat /\ call.op = "df"
      /\ AfterRound = rest + SeedBytes + 1
  BY <1>1, RoundInSeed
<1>3. rest \in Nat
  <2> HIDE DEF n
  <2> QED BY <1>2, RoundsLeft
<1>4. StepsLeft = 1 + (rest + SeedBytes + 1) BY <1>1, <1>2, Places
<1>5. CASE /\ status = "SUCCESS" /\ (round + 1) * BlockBytes < SeedBytes
           /\ round' = round + 1
           /\ bcc_input' = RoundBlock(bcc_input, round + 1)
           /\ CallBccOfRound(bcc_input)
  <2>1. pc' = "bcc" /\ bcc_offset' = 0
    BY <1>5 DEF CallBccOfRound, Goto, Shape, RoundsAccepted
  <2>2. Len(bcc_input') = n
    <3>1. bcc_input \in [1 .. n -> Byte] BY DEF Shape, TypeOK
    <3> HIDE DEF n
    <3>2. bcc_input' \in [1 .. n -> Byte]
      BY <1>2, <1>5, <3>1, RoundBlockKeepsBytes
    <3> QED BY <1>2, <3>2, FunctionIsSequence
  <2>3. BccData' = bcc_input' /\ ~ByCaller' BY <1>1 DEF BccData, ByCaller
  <2>4. round + 1 < SeedBytes
    <3>1. \A x, y \in Nat \ {0} : x <= x * y /\ x * y \in Nat OBVIOUS
    <3> DEFINE t == (round + 1) * BlockBytes
    <3>2. round + 1 <= t /\ t \in Nat BY <1>2, <3>1, Sizes
    <3>3. t < SeedBytes BY <1>5
    <3> HIDE DEF t
    <3> QED BY <1>2, <3>2, <3>3, Sizes
  <2> DEFINE next == (SeedBytes - (round + 1) - 1) * (n + 1)
  <2>5. AfterRound' = next + SeedBytes + 1
    <3>1. AfterRound' = (SeedBytes - round' - 1) * (Len(bcc_input') + 1)
                            + SeedBytes + 1
      BY <2>3 DEF AfterRound, RoundSteps
    <3> QED BY <1>5, <2>2, <3>1
  <2>6. StepsLeft' = n - 0 + 1 + (next + SeedBytes + 1)
    BY <2>1, <2>2, <2>3, <2>5, PlacesNext
  <2>7. next \in Nat /\ rest = next + n + 1
    <3> HIDE DEF n
    <3>1. round + 1 \in Nat BY <1>2
    <3>2. next \in Nat BY <1>2, <2>4, <3>1, RoundsLeft
    <3> QED BY <1>2, <2>4, <3>2, RoundsLeft
  <2> HIDE DEF n, rest, next
  <2> QED BY <1>2, <1>3, <1>4, <2>6, <2>7, Sizes
<1>6. CASE offset' = 0 /\ Goto("encrypt")
  <2>1. StepsLeft' = SeedBytes - 0 + 1 BY <1>6, PlacesNext DEF Goto
  <2> HIDE DEF rest
  <2> QED BY <1>3, <1>4, <2>1, Sizes
<1>7. CASE Goto("df_end")
  <2>1. StepsLeft' = 1 BY <1>7, PlacesNext DEF Goto
  <2> HIDE DEF rest
  <2> QED BY <1>3, <1>4, <2>1, Sizes
<1> QED BY <1>5, <1>6, <1>7 DEF RoundEnds

LEMMA FewerStepsLeft ==
    /\ Shape /\ Working /\ Shape' /\ Working' /\ [Next]_vars
    => [pc # "idle" => StepsLeft' \in 0 .. StepsLeft - 1]_vars
<1> SUFFICES ASSUME Shape, Working, Shape', Working', Next, pc # "idle"
             PROVE  StepsLeft' \in 0 .. StepsLeft - 1
  OBVIOUS
<1>1. Steps BY DEF Next, Rejected, CallUpdate, CallBcc, CallDf, Entered, Done
<1> QED
  BY <1>1, FewerLeftOfSeed, FewerLeftOfBcc, FewerLeftOfAlloc,
     FewerLeftOfRounds
  DEF Steps

(* Every step of a call takes it nearer to its end: however long the       *)
(* input, and whichever allocation or AES block fails, the nested loops of *)
(* block_cipher_df, ctr_drbg_bcc and ctr_drbg_update come to theirs.       *)
THEOREM EveryStepAdvances == Spec => CallsAdvance
<1>1. /\ Shape /\ Working /\ Shape' /\ Working' /\ [Next]_vars
      => [pc # "idle" => StepsLeft' \in 0 .. StepsLeft - 1]_vars
  BY FewerStepsLeft
<1> QED BY <1>1, ShapeHolds, WorkingHolds, PTL DEF Spec, CallsAdvance
=============================================================================
