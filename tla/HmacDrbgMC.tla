------------------------------ MODULE HmacDrbgMC ------------------------------
(***************************************************************************)
(* A small instance of HmacDrbg: MACs of 2 bytes and requests of up to 3,  *)
(* so that a request takes one or two blocks and the second is cut short.  *)
(***************************************************************************)
EXTENDS HmacDrbgRefinement

(* A MAC of small numbers that TLC can compute: a polynomial fold of the   *)
(* key, a separator and the input modulo a prime.                          *)
MCHmac(key, input) ==
    LET m == key \o <<256>> \o input
        Mix(acc, byte) == (acc * (acc + 2 * byte + 3) + byte + 7) % 45989
        h[n \in 0 .. Len(m)] == IF n = 0 THEN 1 ELSE Mix(h[n - 1], m[n])
        mac == h[Len(m)]
    IN  <<mac % 256, (mac \div 7) % 256>>

MCInstantiateCalls ==
    LET Call(valid, e, n, p) == [op |-> "instantiate", ctx |-> valid,
                                 entropy |-> e, nonce |-> n,
                                 personalization |-> p]
        entropy == Bytes(<<5, 6>>)
        nonce   == Bytes(<<7>>)
        none    == NullBuffer(0)
    IN  { Call(TRUE, entropy, nonce, none),
          Call(TRUE, Bytes(<<5, 6, 8>>), nonce, Bytes(<<9>>)),
          Call(FALSE, entropy, nonce, none),
          Call(TRUE, NullBuffer(2), nonce, none),
          Call(TRUE, entropy, NullBuffer(1), none),
          Call(TRUE, Bytes(<<5>>), nonce, none),
          Call(TRUE, entropy, Bytes(<<>>), none),
          Call(TRUE, entropy, nonce, NullBuffer(1)),
          Call(TRUE, entropy, Huge(SizeMax), none),
          Call(TRUE, entropy, nonce, Huge(SizeMax - 2)) }

MCGenerateCalls ==
    LET Call(valid, out, len, a) == [op |-> "generate", ctx |-> valid,
                                     output |-> out, output_len |-> len,
                                     additional |-> a]
        none == NullBuffer(0)
    IN  { Call(TRUE, TRUE, len, none) : len \in {0, 1, 3, 4} }
        \cup
        { Call(TRUE, TRUE, 2, Bytes(<<1>>)),
          Call(TRUE, TRUE, 3, Bytes(<<1, 2>>)),
          Call(TRUE, TRUE, 2, Huge(SizeMax - 2)),
          Call(TRUE, TRUE, 2, NullBuffer(1)),
          Call(TRUE, FALSE, 2, none),
          Call(FALSE, TRUE, 2, none) }

MCReseedCalls ==
    LET Call(valid, e, a) == [op |-> "reseed", ctx |-> valid,
                              entropy |-> e, additional |-> a]
        entropy == Bytes(<<3, 4>>)
        none    == NullBuffer(0)
    IN  { Call(TRUE, entropy, none),
          Call(TRUE, entropy, Bytes(<<2>>)),
          Call(TRUE, entropy, NullBuffer(1)),
          Call(TRUE, entropy, Huge(SizeMax - 1)),
          Call(TRUE, NullBuffer(2), none),
          Call(TRUE, Bytes(<<3>>), none),
          Call(FALSE, entropy, none) }

MCUninstantiateCalls == [op : {"uninstantiate"}, ctx : BOOLEAN]

(* Histories of one seeded context: the calls that do work.                *)
GoodInstantiateCalls == {c \in MCInstantiateCalls : ~InstantiateInvalid(c)}
GoodGenerateCalls    == {c \in MCGenerateCalls :
                             ~GenerateInvalid(c) /\ ~AdditionalTooLong(c)}
GoodReseedCalls      == {c \in MCReseedCalls :
                             ~ReseedInvalid(c) /\ c.additional.len > 0}
=============================================================================
