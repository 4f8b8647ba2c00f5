-------------------------------- MODULE Dummy --------------------------------
(***************************************************************************)
(* The mechanism of drbgs/dummy.c, in the form DrbgMechanism asks for: a   *)
(* byte counter that every output byte advances.  It never fails, has no   *)
(* reseed limit and is the only mechanism that can verify its output.      *)
(***************************************************************************)
EXTENDS DrbgInterface

CONSTANT ByteBase    \* UINT8_MAX + 1

ASSUME ByteBaseAssumption == ByteBase \in Nat \ {0}

DummyZeroed == 0

DummyAccepts(c) == TRUE
DummyTooLong(c) == FALSE

DummySeeds(c)       == {0}
DummyTorn(s, c)     == {}
DummyReseeded(s, c) == 0

DummyStream(s, c) == [i \in 1 .. c.output_len |-> (s + i - 1) % ByteBase]

DummyAdvance_Bug(s, c, rc) ==    \* pre- for post-increment on the last byte
    (s + c.output_len + 1) % ByteBase

DummyAdvance(s, c, rc) == (s + c.output_len) % ByteBase

(* The output must be the bytes 0, 1, 2, ... from its first byte on. *)
DummyVerify(output) ==
    \A i \in DOMAIN output : output[i] = (i - 1) % ByteBase
=============================================================================
