------------------------------ MODULE HashMath ------------------------------
(***************************************************************************)
(* The big-endian arithmetic of algorithms/hash_math.c on byte strings,    *)
(* modulo ByteBase^length.  A byte string is a sequence whose FIRST        *)
(* element is the most significant byte, as in the C arrays.               *)
(*                                                                         *)
(* The error returns of the three functions (a NULL pointer or a zero      *)
(* length) are not reachable from any caller in the repository: every call *)
(* passes the address and the size of a fixed array.                       *)
(***************************************************************************)
EXTENDS Integers, Sequences

CONSTANTS
    ByteBase,       \* values of a uint8_t: 256 in the code
    CounterBytes    \* bytes of the encoded uint64_t addend: 8 in the code

ASSUME ByteBaseAssumption == ByteBase \in Nat /\ ByteBase > 1
ASSUME CounterBytesAssumption == CounterBytes \in Nat \ {0}

Byte == 0 .. ByteBase - 1

Increment_Bug(value) ==    \* the carry does not propagate
    [value EXCEPT ![Len(value)] = (@ + 1) % ByteBase]

(* hash_math_increment: byte i is incremented exactly when every byte to   *)
(* its right wrapped to zero, which is where the loop has not yet broken.  *)
Increment(value) ==
    [i \in 1..Len(value) |->
        IF \A j \in i+1 .. Len(value) : value[j] = ByteBase - 1
        THEN (value[i] + 1) % ByteBase
        ELSE value[i]]

(* hash_math_add_bytes: the addend is aligned on the least significant     *)
(* byte, its missing high-order bytes count as zero, its excess ones and   *)
(* the last carry are dropped.  carry[k] is the carry out of the k         *)
(* rightmost bytes.                                                        *)
AddBytes(value, addend) ==
    LET n == Len(value)
        Digit(k) == IF k <= Len(addend) THEN addend[Len(addend) + 1 - k] ELSE 0
        carry[k \in 0..n] ==
            IF k = 0 THEN 0
            ELSE (value[n + 1 - k] + Digit(k) + carry[k - 1]) \div ByteBase
    IN  [i \in 1..n |->
            (value[i] + Digit(n + 1 - i) + carry[n - i]) % ByteBase]

(* The big-endian encoding of an integer in `width` bytes; higher bits are *)
(* cut off, as the uint8_t casts do.                                       *)
Encode(x, width) ==
    [i \in 1..width |-> (x \div (ByteBase ^ (width - i))) % ByteBase]

(* hash_math_add_u64 *)
AddU64(value, addend) == AddBytes(value, Encode(addend, CounterBytes))
=============================================================================
