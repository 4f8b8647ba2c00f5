------------------------------ MODULE HashDrbgMC ------------------------------
(***************************************************************************)
(* A small instance of HashDrbg: digests of 2 bytes, seeds of 3 (so that   *)
(* hash_df and hashgen take two rounds and cut the second digest short, as *)
(* 55 bytes of 32-byte digests do), requests of up to 3 bytes.             *)
(***************************************************************************)
EXTENDS HashDrbgRefinement

(* A hash of small numbers that TLC can compute: a polynomial     *)
(* fold of the bytes modulo a prime whose square fits a 32-bit integer.    *)
MCSha256(input) ==
    LET Mix(acc, byte) == (acc * (acc + 2 * byte + 3) + byte + 7) % 45989
        h[n \in 0 .. Len(input)] ==
            IF n = 0 THEN 1 ELSE Mix(h[n - 1], input[n])
        hash == h[Len(input)]
    IN  <<hash % 256, (hash \div 7) % 256>>

(* Control does not depend on digests: a cheap one for the liveness run. *)
MCAnyHash(input) == <<1, 2>>

MCInstantiateCalls ==
    LET Call(valid, e, n, p) == [op |-> "instantiate", ctx |-> valid,
                               entropy |-> e, nonce |-> n,
                               personalization |-> p]
        entropy == Bytes(<<5, 6>>)
        nonce   == Bytes(<<7>>)
        none    == NullBuffer(0)
    IN  { Call(TRUE, entropy, nonce, none),
          Call(TRUE, Bytes(<<5, 6, 8>>), nonce, Bytes(<<9>>)),
          Call(TRUE, entropy, NullBuffer(1), none),
          Call(FALSE, entropy, nonce, none),
          Call(TRUE, NullBuffer(2), nonce, none),
          Call(TRUE, Bytes(<<5>>), nonce, none),
          Call(TRUE, entropy, none, none) }

MCGenerateCalls ==
    LET Call(valid, out, len, a) == [op |-> "generate", ctx |-> valid,
                                   output |-> out, output_len |-> len,
                                   additional |-> a]
        none == NullBuffer(0)
    IN  { Call(TRUE, TRUE, len, none) : len \in {0, 1, 3, 4} }
        \cup
        { Call(TRUE, TRUE, 2, Bytes(<<1>>)),
          Call(TRUE, TRUE, 3, Bytes(<<1, 2>>)),
          Call(TRUE, TRUE, 2, Huge(SizeMax)),
          Call(TRUE, TRUE, 2, NullBuffer(1)),
          Call(TRUE, FALSE, 2, none),
          Call(FALSE, TRUE, 2, none) }

MCReseedCalls ==
    LET Call(valid, e, a) == [op |-> "reseed", ctx |-> valid,
                            entropy |-> e, additional |-> a]
        entropy == Bytes(<<3, 4>>)
        none    == NullBuffer(0)
    IN  { Call(TRUE, entropy, none),
          Call(TRUE, entropy, Bytes(<<2>>)),
          Call(TRUE, entropy, NullBuffer(1)),
          Call(TRUE, entropy, Huge(SizeMax - 3)),
          Call(TRUE, Huge(SizeMax), none),
          Call(TRUE, Bytes(<<3>>), none),
          Call(FALSE, entropy, none) }

MCUninstantiateCalls == [op : {"uninstantiate"}, ctx : BOOLEAN]

(* Fewer shapes, for longer histories: one call of each kind that does     *)
(* work, with and without additional input, and one that is turned down.   *)
FewInstantiateCalls == {c \in MCInstantiateCalls : ~InstantiateInvalid(c)}

FewGenerateCalls ==
    {c \in MCGenerateCalls :
        \/ ~GenerateInvalid(c) /\ c.output_len > 1
        \/ c.output_len > MaxBytes}

FewReseedCalls ==
    {c \in MCReseedCalls : ~ReseedInvalid(c) \/ c.entropy.len < EntropyBytes}

(* Histories of one seeded context: valid requests and reseeds only.       *)
OneInstantiateCall == {c \in FewInstantiateCalls : c.personalization.len > 0}
GoodGenerateCalls  == {c \in FewGenerateCalls :
                           ~GenerateInvalid(c) /\ ~AdditionalTooLong(c)}
GoodReseedCalls    == {c \in FewReseedCalls : c.additional.len > 0}
=============================================================================
