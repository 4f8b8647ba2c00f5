----------------------------- MODULE BenchmarkMC -----------------------------
(***************************************************************************)
(* A small instance of Benchmark over an abstract mechanism that may fail  *)
(* at any call, with requests of up to 2 bytes and a limit of 3 requests.  *)
(* Its working state is a number; 99 is what a failed instantiation left.  *)
(***************************************************************************)
EXTENDS Benchmark

MCMayInstantiate(c) == c.entropy.len > 0 /\ c.nonce.len > 0
MCMayGenerate(c)    == c.output_len \in 1 .. 2
MCMayReseed(c)      == c.entropy.len > 0
MCTooLong(c)        == FALSE

MCSeeds(c)         == {c.entropy.data[1]}
MCTorn(s, c)       == {s, 99}
MCReseeded(s, c)   == c.entropy.data[1] + 1
MCAdvance(s, c, r) == s + 1
MCStream(s, c)     == [i \in 1 .. c.output_len |-> 2 * s + i]

MCVerifies(output) == output[1] < 14

MCDescriptors ==
    { [max_request_size |-> 2, reseed |-> TRUE,  verify |-> FALSE],
      [max_request_size |-> 2, reseed |-> FALSE, verify |-> FALSE],
      [max_request_size |-> 1, reseed |-> TRUE,  verify |-> TRUE] }

MCConfigs == [output_size : {0, 1, 3}, repetitions : {1, 2},
              reseed_interval : {0, 1, 2, 3, 5},
              verify_output : BOOLEAN, save_output : BOOLEAN]

MCEntropy == {<<5>>}
MCNonces  == {<<7>>}
MCElapsed == {-1, 0, 2}
=============================================================================
