--------------------------- MODULE CtrPrimitivesMC ---------------------------
(***************************************************************************)
(* A small instance: bytes of two bits, blocks of two bytes, keys of two   *)
(* blocks.  A length takes two bytes, so that inputs have 0 to 15 bytes.   *)
(* SizeMax = 19 is so close to that that each of the four length checks of *)
(* block_cipher_df is the first to turn some input down: 16 bytes, 15, 14, *)
(* and 12 or 13.                                                           *)
(***************************************************************************)
EXTENDS CtrPrimitives

(* A keyed permutation of the blocks whose halves both depend on all bytes. *)
MCAes(k, b) ==
    LET s == k[1] + 2 * k[2] + 3 * k[3] + k[4]
        l == (b[1] + b[2] * b[2] + s) % 4
    IN  << (b[2] + l * l + l + k[2] + 1) % 4, (l + k[1] * k[3]) % 4 >>

MCXor(a, b) ==
    LET Bit(x, n) == (x \div n) % 2
        Sum(n) == n * ((Bit(a, n) + Bit(b, n)) % 2)
    IN  Sum(1) + Sum(2)

MCKeys == { <<0, 1, 2, 3>> }
MCVs   == { <<1, 3>>, <<3, 3>> }    \* the carry leaves one byte, or both

Data(n, start) == [i \in 1..n |-> (start + i * i) % 4]

UpdateCalls ==
    LET Call(null, data) == [op |-> "update", null |-> null, data |-> data]
    IN  { Call(TRUE, Data(6, 0)), Call(FALSE, Data(6, 1)),
          Call(FALSE, ZeroBytes(6)) }

BccCalls ==
    LET Call(null, data) ==
            [op |-> "bcc", null |-> null, key |-> <<2, 0, 1, 3>>, data |-> data]
    IN  { Call(TRUE, Data(2, 1)) }
        \cup { Call(FALSE, Data(n, 1)) : n \in {0, 2, 3, 6} }

DfCalls ==
    LET Call(null, input) == [op |-> "df", null |-> null, input |-> input]
    IN  { Call(FALSE, Bytes(Data(n, n))) : n \in (0..3) \cup (11..15) }
        \cup { Call(FALSE, Huge(n)) : n \in {16, 40} }
        \cup { Call(FALSE, NullBuffer(0)), Call(FALSE, NullBuffer(2)),
               Call(TRUE, Bytes(Data(2, 0))) }

MCCalls == UpdateCalls \cup BccCalls \cup DfCalls
=============================================================================
