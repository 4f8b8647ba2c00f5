--------------------------- MODULE DummyBenchmarkMC ---------------------------
(***************************************************************************)
(* Benchmark over the dummy mechanism.  As the command line takes sizes in *)
(* KB, MB and GB only, the output is a multiple of the byte base.          *)
(***************************************************************************)
EXTENDS Benchmark, Dummy

MCDescriptors == {[max_request_size |-> 0, reseed |-> TRUE, verify |-> TRUE]}

MCConfigs == [output_size : {4, 8}, repetitions : {1, 2, 4},
              reseed_interval : {0, 1, 2, 3},
              verify_output : BOOLEAN, save_output : BOOLEAN]

MCEntropy == {<<5>>}
MCNonces  == {<<7>>}
MCElapsed == {1}
=============================================================================
