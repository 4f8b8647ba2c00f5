------------------------------ MODULE CtrPromise ------------------------------
(***************************************************************************)
(* What the building blocks of CTR_DRBG promise: CTR_DRBG_Update, BCC and  *)
(* Block_Cipher_df of SP 800-90A (10.2.1.2, 10.3.3, 10.3.2) as one atomic  *)
(* step each.  A call delivers its whole result, or it fails and leaves    *)
(* every byte of its caller alone: Key and V stay the pair they were, and  *)
(* nothing is written to the output.                                       *)
(***************************************************************************)
EXTENDS CtrBlocks

CONSTANTS
    Calls,      \* the calls a caller may make
    Faults      \* the statuses of a failure under way

VARIABLES key, v, reply

vars == <<key, v, reply>>

(* A byte of the caller's buffer that no call has written.  One byte past  *)
(* the longest result is watched as well.                                  *)
Untouched   == -1
FreshOutput == [i \in 1 .. SeedBytes + 1 |-> Untouched]

NoCall   == [op |-> "none", null |-> FALSE]
NoAnswer == [call |-> NoCall, status |-> "SUCCESS", output |-> FreshOutput]

Init == key \in Key /\ v \in Block /\ reply = NoAnswer

Answers(c, status, bytes) ==
    LET untouched == SubSeq(FreshOutput, Len(bytes) + 1, SeedBytes + 1)
    IN  reply' = [call |-> c, status |-> status, output |-> bytes \o untouched]

-----------------------------------------------------------------------------
(* The standard's functions. *)

(* The number a string stands for, and the string of a number. *)
ToNumber(bytes) ==
    LET prefix[k \in 0 .. Len(bytes)] ==
            IF k = 0 THEN 0 ELSE prefix[k - 1] * ByteBase + bytes[k]
    IN  prefix[Len(bytes)]

ToBytes(x, width) ==
    [i \in 1..width |-> (x \div Power[width - i]) % ByteBase]

Concatenated(blocks) ==
    [i \in 1 .. BlockBytes * Len(blocks) |->
        blocks[((i - 1) \div BlockBytes) + 1][((i - 1) % BlockBytes) + 1]]

SeedBlocks == SeedBytes \div BlockBytes

UpdatedBy(k, counter, data) ==
    LET stream == Concatenated([n \in 1..SeedBlocks |->
                      Aes(k, ToBytes(ToNumber(counter) + n, BlockBytes))])
    IN  XorBytes(stream, data)

BccOf(k, data) ==
    LET chain[n \in 0 .. Len(data) \div BlockBytes] ==
            IF n = 0 THEN ZeroBytes(BlockBytes)
            ELSE Aes(k, XorBytes(chain[n - 1],
                                 SubSeq(data, BlockBytes * (n - 1) + 1,
                                              BlockBytes * n)))
    IN  chain[Len(data) \div BlockBytes]

(* S, padded with as few zeros as make it a whole number of blocks. *)
PaddedString(input) ==
    LET s == ToBytes(Len(input), LengthBytes) \o ToBytes(SeedBytes, LengthBytes)
             \o input \o <<EndMarker>>
    IN  s \o ZeroBytes(CHOOSE n \in 0 .. BlockBytes - 1 :
                           (Len(s) + n) % BlockBytes = 0)

DerivedFrom(input) ==
    LET vector(round) == ToBytes(round, LengthBytes)
                         \o ZeroBytes(BlockBytes - LengthBytes)
        temp == Concatenated([n \in 1..SeedBlocks |->
                    BccOf(InitialKey, vector(n - 1) \o PaddedString(input))])
        x[n \in 0..SeedBlocks] ==
            IF n = 0 THEN SubSeq(temp, KeyBytes + 1, SeedBytes)
                     ELSE Aes(SubSeq(temp, 1, KeyBytes), x[n - 1])
    IN  Concatenated([n \in 1..SeedBlocks |-> x[n]])

-----------------------------------------------------------------------------
(* The calls. *)

(* The derivation function takes every input whose length fits its field   *)
(* and whose padded string, with a block before it, fits a size_t.         *)
TooLong(n) ==
    LET unpadded == 2 * LengthBytes + n + 1
        blocks   == (unpadded + BlockBytes - 1) \div BlockBytes
    IN  n > MaxInput \/ BlockBytes * (blocks + 1) > SizeMax

Unacceptable(c) ==
    \/ c.null
    \/ c.op = "bcc" /\ (Len(c.data) = 0 \/ Len(c.data) % BlockBytes # 0)
    \/ c.op = "df" /\ TooLong(c.input.len)
    \/ c.op = "df" /\ c.input.null /\ c.input.len > 0

Fails(c) ==
    /\ \E s \in IF Unacceptable(c) THEN {"INVALID_ARGUMENT"} ELSE Faults :
           Answers(c, s, <<>>)
    /\ UNCHANGED <<key, v>>

Update(c) ==
    /\ c.op = "update" /\ ~Unacceptable(c)
    /\ LET seed == UpdatedBy(key, v, c.data)
       IN  /\ key' = SubSeq(seed, 1, KeyBytes)
           /\ v' = SubSeq(seed, KeyBytes + 1, SeedBytes)
    /\ Answers(c, "SUCCESS", <<>>)

Bcc(c) ==
    /\ c.op = "bcc" /\ ~Unacceptable(c)
    /\ Answers(c, "SUCCESS", BccOf(c.key, c.data))
    /\ UNCHANGED <<key, v>>

Derive(c) ==
    /\ c.op = "df" /\ ~Unacceptable(c)
    /\ Answers(c, "SUCCESS", DerivedFrom(c.input.data))
    /\ UNCHANGED <<key, v>>

Next == \E c \in Calls :
    /\ reply'.call = c
    /\ Fails(c) \/ Update(c) \/ Bcc(c) \/ Derive(c)

Spec == Init /\ [][Next]_vars
=============================================================================
