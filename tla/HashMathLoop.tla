----------------------------- MODULE HashMathLoop -----------------------------
(***************************************************************************)
(* The loops of hash_math_increment and hash_math_add_bytes, one iteration *)
(* a step, against the closed forms of HashMath that HashDrbg uses and     *)
(* against the numbers the byte strings stand for.                         *)
(***************************************************************************)
EXTENDS HashMath

CONSTANTS
    Width,          \* value_length
    Addends         \* the addends to try, of any length

ASSUME WidthAssumption == Width \in Nat \ {0}
ASSUME AddendsAssumption == Addends \subseteq Seq(Byte)

VARIABLES
    pc,             \* idle, adding, incrementing
    value,          \* the array that is updated in place
    addend,
    value_index,    \* the loop index of either function: bytes still to do
    addend_index,
    carry,
    original,       \* history: value when the function was called
    low             \* history: the bytes done so far, as numbers

vars == <<pc, value, addend, value_index, addend_index, carry, original, low>>

Values == [1..Width -> Byte]

(* The numbers of the bytes already passed: those of the original value,   *)
(* of the addend and of the result, and the weight of the next byte.       *)
NothingYet == [value |-> 0, addend |-> 0, result |-> 0, weight |-> 1]

Init ==
    /\ pc = "idle"
    /\ value \in Values /\ original = value
    /\ addend = <<>>
    /\ value_index = 0 /\ addend_index = 0 /\ carry = 0
    /\ low = NothingYet

(* hash_math_add_bytes is called; without an addend it returns at once. *)
CallAdd ==
    /\ pc = "idle"
    /\ \E a \in Addends :
        /\ addend' = a
        /\ addend_index' = Len(a)
        /\ pc' = IF Len(a) = 0 THEN "idle" ELSE "adding"
        /\ value_index' = IF Len(a) = 0 THEN 0 ELSE Width
    /\ carry' = 0
    /\ original' = value
    /\ low' = NothingYet
    /\ UNCHANGED value

(* The addend's byte for this iteration, zero when it has none left. *)
AddendByte == IF addend_index > 0 THEN addend[addend_index] ELSE 0

Sum_Bug == value[value_index] + AddendByte    \* the carry is forgotten
Sum == value[value_index] + carry + AddendByte

CarryOf_Bug(sum) == IF sum > ByteBase THEN 1 ELSE 0    \* off by one
CarryOf(sum) == sum \div ByteBase

LowByte_Bug(sum) == sum    \* not masked
LowByte(sum) == sum % ByteBase

AddByte ==
    /\ pc = "adding" /\ value_index > 0
    /\ value' = [value EXCEPT ![value_index] = LowByte(Sum)]
    /\ carry' = CarryOf(Sum)
    /\ value_index' = value_index - 1
    /\ addend_index' = IF addend_index > 0 THEN addend_index - 1 ELSE 0
    /\ low' = [value  |-> low.value + low.weight * value[value_index],
               addend |-> low.addend + low.weight * AddendByte,
               result |-> low.result + low.weight * (LowByte(Sum)),
               weight |-> low.weight * ByteBase]
    /\ UNCHANGED <<pc, addend, original>>

(* The carry that is left is dropped. *)
AddReturns ==
    /\ pc = "adding" /\ value_index = 0
    /\ pc' = "idle"
    /\ UNCHANGED <<value, addend, value_index, addend_index, carry, original, low>>

CallIncrement ==
    /\ pc = "idle"
    /\ pc' = "incrementing"
    /\ value_index' = Width
    /\ addend' = <<1>> /\ addend_index' = 0
    /\ original' = value
    /\ UNCHANGED <<value, carry, low>>

(* One iteration; the loop breaks at a byte that did not wrap to zero. *)
IncrementByte ==
    LET byte == (value[value_index] + 1) % ByteBase
    IN
    /\ pc = "incrementing"
    /\ value' = [value EXCEPT ![value_index] = byte]
    /\ value_index' = value_index - 1
    /\ pc' = IF byte # 0 \/ value_index = 1 THEN "idle" ELSE "incrementing"
    /\ UNCHANGED <<addend, addend_index, carry, original, low>>

Next == CallAdd \/ AddByte \/ AddReturns \/ CallIncrement \/ IncrementByte

Spec == Init /\ [][Next]_vars

-----------------------------------------------------------------------------
TypeOK ==
    /\ pc \in {"idle", "adding", "incrementing"}
    /\ value \in Values /\ original \in Values
    /\ addend \in Seq(Byte)
    /\ value_index \in 0..Width
    /\ addend_index \in 0..Len(addend)
    /\ carry \in Nat
    /\ low \in [value : Nat, addend : Nat, result : Nat, weight : Nat]
    /\ pc = "incrementing" => value_index > 0

(* The number a byte string stands for, big-endian. *)
NumberOf(bytes) ==
    LET prefix[k \in 0 .. Len(bytes)] ==
            IF k = 0 THEN 0 ELSE prefix[k - 1] * ByteBase + bytes[k]
    IN  prefix[Len(bytes)]

(* How many numbers fit in width bytes. *)
NumbersIn(width) ==
    LET power[k \in 0 .. width] == IF k = 0 THEN 1 ELSE power[k - 1] * ByteBase
    IN  power[width]

(* The loop invariant of hash_math_add_bytes: the bytes written so far and *)
(* the carry are exactly the sum of the bytes read so far, and the carry   *)
(* is a single bit, so that the uint16_t sum never overflows.              *)
PartialSum ==
    pc = "adding" =>
        /\ low.result + low.weight * carry = low.value + low.addend
        /\ carry \in {0, 1}

(* Both functions return the sum modulo ByteBase^Width, for an addend of   *)
(* any length: shorter than the value, longer, or empty; and the closed    *)
(* forms of HashMath, on which the model of Hash_DRBG rests, agree.        *)
ReturnsSum ==
    pc = "idle" =>
        /\ NumberOf(value) =
               (NumberOf(original) + NumberOf(addend)) % NumbersIn(Width)
        /\ value = AddBytes(original, addend)
        /\ addend = <<1>> => value = Increment(original)
=============================================================================
