----------------------------- MODULE DrbgBuffers -----------------------------
(***************************************************************************)
(* Byte buffers of the mechanisms: how digests are copied out, and the     *)
(* buffer a caller hands to generate.                                      *)
(***************************************************************************)
EXTENDS DrbgInterface

CONSTANTS
    DigestSize,     \* SHA256_DIGEST_SIZE = HMAC_DRBG_OUTLEN_BYTES, 32
    MaxBytes        \* ..._MAX_BYTES_PER_REQUEST, 2^16

ASSUME BuffersAssumption == DigestSize \in Nat \ {0} /\ MaxBytes \in Nat

(* b is an array of n bytes *)
IsBytes(b, n) == DOMAIN b = 1..n /\ b = [i \in 1..n |-> b[i]]

ZeroBytes(n) == [i \in 1..n |-> 0]

(* Digests are copied out block by block: byte i of a buffer is a byte of  *)
(* digest number BlockOf(i), and `len` cuts the last digest short, as      *)
(* copy_length does in hash_df, hashgen and hmac_generate.                 *)
BlockOf(i)  == ((i - 1) \div DigestSize) + 1
OffsetOf(i) == ((i - 1) % DigestSize) + 1

CopyDigest_Bug(dest, len, block, digest) ==    \* the last digest is not cut
    SubSeq(dest, 1, DigestSize * (block - 1)) \o digest

CopyDigest_Late_Bug(dest, len, block, digest) ==    \* one byte past the end
    [i \in DOMAIN dest |->
        IF i <= len + 1 /\ BlockOf(i) = block
        THEN digest[OffsetOf(i)] ELSE dest[i]]

CopyDigest(dest, len, block, digest) ==
    [i \in DOMAIN dest |->
        IF i <= len /\ BlockOf(i) = block THEN digest[OffsetOf(i)] ELSE dest[i]]

(* A byte of the caller's buffer that no call has written.  Two bytes past *)
(* the largest request are watched as well.                                *)
Untouched    == -1
CallerBuffer == [i \in 1 .. MaxBytes + 2 |-> Untouched]

ErasedOutput_Bug(buffer, len) == buffer    \* what was produced stays

(* The cleanup of a failed generate erases what the caller would read. *)
ErasedOutput(buffer, len) ==
    [i \in DOMAIN buffer |-> IF i <= len THEN 0 ELSE buffer[i]]
=============================================================================
