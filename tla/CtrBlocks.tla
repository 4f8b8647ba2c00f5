------------------------------ MODULE CtrBlocks ------------------------------
(***************************************************************************)
(* The bytes that the building blocks of CTR_DRBG work on: the counter of  *)
(* algorithms/ctr_drbg_counter.c, the input block_cipher_df prepares, and, *)
(* as a reference, the results SP 800-90A defines for the three functions. *)
(* The size arithmetic of block_cipher_df is modulo SizeMax + 1.           *)
(***************************************************************************)
EXTENDS DrbgInterface

CONSTANTS
    ByteBase,       \* values of a uint8_t: 256
    BlockBytes,     \* CTR_DRBG_BLOCK_BYTES, 16
    KeyBytes,       \* CTR_DRBG_KEY_BYTES, 32
    LengthBytes,    \* bytes of an encoded uint32_t: 4
    SizeMax,        \* SIZE_MAX
    Aes(_, _),      \* AES-256 of a key and a block
    Xor(_, _)       \* of two bytes

Byte  == 0 .. ByteBase - 1
Block == [1..BlockBytes -> Byte]
Key   == [1..KeyBytes -> Byte]

SeedBytes == KeyBytes + BlockBytes

ASSUME CtrSizes ==
    /\ ByteBase \in Nat /\ ByteBase > 1
    /\ BlockBytes \in Nat \ {0} /\ KeyBytes \in Nat \ {0}
    /\ KeyBytes % BlockBytes = 0
    /\ LengthBytes \in Nat \ {0} /\ LengthBytes <= BlockBytes
    /\ SizeMax \in Nat /\ SizeMax > 2 * LengthBytes + BlockBytes

ASSUME CipherAssumption == \A k \in Key, b \in Block : Aes(k, b) \in Block
ASSUME XorAssumption    == \A a, b \in Byte : Xor(a, b) \in Byte

(* The powers of ByteBase.  (The proof system knows nothing of "^".)       *)
Power[k \in 0..BlockBytes] == IF k = 0 THEN 1 ELSE ByteBase * Power[k - 1]

MaxInput == Power[LengthBytes] - 1    \* UINT32_MAX

-----------------------------------------------------------------------------
(* Bytes. *)

ZeroBytes(n) == [i \in 1..n |-> 0]

(* memcpy(dest + at, bytes, length of bytes) *)
WriteAt(dest, at, bytes) ==
    [i \in DOMAIN dest |->
        IF i - at \in DOMAIN bytes THEN bytes[i - at] ELSE dest[i]]

(* The n bytes at bytes + at. *)
BytesAt(bytes, at, n) == [i \in 1..n |-> bytes[at + i]]

XorBytes(a, b) == [i \in DOMAIN a |-> Xor(a[i], b[i])]

BigEndian_Bug(x) ==    \* little-endian
    [i \in 1..LengthBytes |-> (x \div Power[i - 1]) % ByteBase]

(* write_u32_be *)
BigEndian(x) ==
    [i \in 1..LengthBytes |->
        (x \div Power[LengthBytes - i]) % ByteBase]

CounterIncrement_Bug(counter) ==    \* the carry does not propagate
    [counter EXCEPT ![BlockBytes] = (@ + 1) % ByteBase]

CounterIncrement_Wide_Bug(counter) ==    \* the last byte does not wrap
    [counter EXCEPT ![BlockBytes] = @ + 1]

(* ctr_drbg_increment stops at the first byte that does not wrap to zero. *)
CounterIncrement(counter) ==
    [i \in DOMAIN counter |->
        IF \A j \in DOMAIN counter : j > i => counter[j] = ByteBase - 1
        THEN (counter[i] + 1) % ByteBase
        ELSE counter[i]]

-----------------------------------------------------------------------------
(* The string S and its sizes, as block_cipher_df computes them. *)

InSize(n) == n % (SizeMax + 1)

UnpaddedLen(n) == InSize(2 * LengthBytes + n + 1)

PaddingLen_Bug(n) ==    \* the lengths and the marker are not counted
    (BlockBytes - (n % BlockBytes)) % BlockBytes

PaddingLen(n) == (BlockBytes - (UnpaddedLen(n) % BlockBytes)) % BlockBytes

StringLen(n) == InSize(UnpaddedLen(n) + PaddingLen(n))

BccInputLen(n) == InSize(BlockBytes + StringLen(n))

(* The checks of block_cipher_df on a length, in their order. *)
LengthRejected(n) ==
    \/ n > MaxInput
    \/ n > SizeMax - (2 * LengthBytes + 1)
    \/ UnpaddedLen(n) > SizeMax - PaddingLen(n)
    \/ StringLen(n) > SizeMax - BlockBytes

InitialKey == [i \in 1..KeyBytes |-> (i - 1) % ByteBase]

EndMarker == ByteBase \div 2    \* 0x80

(* bcc_input, a zeroed buffer that is written field by field; its first    *)
(* block is left for the round number.                                     *)
DfString(input) ==
    LET zeroed  == ZeroBytes(BccInputLen(input.len))
        at      == BlockBytes + LengthBytes
        lengths == WriteAt(WriteAt(zeroed, BlockBytes, BigEndian(input.len)),
                           at, BigEndian(SeedBytes))
        filled  == IF input.len > 0
                   THEN WriteAt(lengths, at + LengthBytes, input.data)
                   ELSE lengths
    IN  WriteAt(filled, at + LengthBytes + input.len, <<EndMarker>>)

(* The first block is cleared, then starts with the round number. *)
RoundBlock(string, round) ==
    WriteAt(WriteAt(string, 0, ZeroBytes(BlockBytes)), 0, BigEndian(round))
=============================================================================
