----------------------------- MODULE BufferLemmas -----------------------------
(***************************************************************************)
(* Facts about the operators of DrbgBuffers, for the proofs about the      *)
(* mechanisms.                                                             *)
(***************************************************************************)
EXTENDS DrbgBuffers, SequenceTheorems, WellFoundedInduction, TLAPS

(* Induction over the naturals, for a set of them: the provers cannot      *)
(* instantiate the library's principle, whose parameter is an operator.    *)
LEMMA SetInduction ==
    ASSUME NEW S, 0 \in S, \A n \in Nat : n \in S => n + 1 \in S
    PROVE  Nat \subseteq S
<1> SUFFICES ASSUME Nat \ S # {} PROVE FALSE OBVIOUS
<1> DEFINE less == OpToRel(<, Nat)
<1>1. IsWellFoundedOn(less, Nat) BY NatLessThanWellFounded
<1>2. \A m, n \in Nat : m < n => <<m, n>> \in less BY DEF OpToRel
<1> HIDE DEF less
<1>3. PICK n \in Nat \ S : \A m \in Nat \ S : ~(<<m, n>> \in less)
  BY <1>1, WFMin
<1>4. n - 1 \in Nat /\ n - 1 < n BY <1>3
<1>5. n - 1 \in S BY <1>2, <1>3, <1>4
<1> QED BY <1>3, <1>4, <1>5

(* A byte string of n bytes is a sequence of length n. *)
LEMMA BytesLength ==
    ASSUME NEW b, NEW n \in Nat, IsBytes(b, n)
    PROVE  Len(b) = n
<1> DEFINE S == {b[i] : i \in 1..n}
<1>1. b \in [1..n -> S] BY DEF IsBytes
<1>2. b \in Seq(S) BY <1>1
<1>3. Len(b) \in Nat /\ DOMAIN b = 1..Len(b) BY <1>2, LenProperties
<1>4. DOMAIN b = 1..n BY <1>1
<1>5. \A m \in Nat : 1..m = 1..n => m = n
  <2> SUFFICES ASSUME NEW m \in Nat, 1..m = 1..n PROVE m = n
    OBVIOUS
  <2>1. m \in 1..m \/ m = 0 OBVIOUS
  <2>2. n \in 1..n \/ n = 0 OBVIOUS
  <2> QED BY <2>1, <2>2
<1> QED BY <1>3, <1>4, <1>5

(* The first bytes of a byte string. *)
LEMMA PrefixOfBytes ==
    ASSUME NEW b, NEW n \in Nat, IsBytes(b, n), NEW len \in 1..n
    PROVE  SubSeq(b, 1, len) = [i \in 1..len |-> b[i]]
<1> DEFINE S == {b[i] : i \in 1..n}
<1>1. b \in Seq(S) /\ Len(b) = n
  <2>1. b \in [1..n -> S] BY DEF IsBytes
  <2> QED BY <2>1, BytesLength
<1> QED BY <1>1

(* Copying a digest into a buffer keeps its length. *)
LEMMA CopyBytes ==
    ASSUME NEW dest, NEW n \in Nat, IsBytes(dest, n),
           NEW len, NEW block, NEW digest
    PROVE  IsBytes(CopyDigest(dest, len, block, digest), n)
BY DEF IsBytes, CopyDigest

(* Erasing a part of a buffer keeps its length. *)
LEMMA ErasedBytes ==
    ASSUME NEW buffer, NEW n \in Nat, IsBytes(buffer, n), NEW len
    PROVE  IsBytes(ErasedOutput(buffer, len), n)
BY DEF IsBytes, ErasedOutput

LEMMA ZeroedBytes == ASSUME NEW n \in Nat PROVE IsBytes(ZeroBytes(n), n)
BY DEF IsBytes, ZeroBytes

(* A byte lies in a digest no later than the digest of a later byte. *)
LEMMA BlocksInOrder ==
    ASSUME NEW i \in Nat \ {0}, NEW j \in Nat \ {0}, i <= j
    PROVE  BlockOf(i) <= BlockOf(j) /\ BlockOf(i) \in Nat \ {0}
<1> DEFINE D == DigestSize
           q(k) == (k - 1) \div D
           r(k) == (k - 1) % D
<1>1. D \in Nat \ {0} BY BuffersAssumption
<1>2. /\ i - 1 = D * q(i) + r(i) /\ r(i) \in 0 .. D - 1 /\ q(i) \in Nat
      /\ j - 1 = D * q(j) + r(j) /\ r(j) \in 0 .. D - 1 /\ q(j) \in Nat
  BY <1>1
<1> HIDE DEF D, q, r
<1>3. q(i) <= q(j)
  <2> SUFFICES ASSUME q(j) + 1 <= q(i) PROVE FALSE BY <1>2
  <2>1. D * (q(j) + 1) <= D * q(i) BY <1>1, <1>2
  <2>2. D * (q(j) + 1) = D * q(j) + D BY <1>1, <1>2
  <2>3. j - 1 < i - 1 BY <1>1, <1>2, <2>1, <2>2
  <2> QED BY <2>3
<1> QED BY <1>2, <1>3 DEF BlockOf, q, D
=============================================================================
