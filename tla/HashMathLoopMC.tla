---------------------------- MODULE HashMathLoopMC ----------------------------
(***************************************************************************)
(* Values of 3 bytes in base 3, addends of 0 to 4 bytes: every combination *)
(* of carries, and addends both shorter and longer than the value.         *)
(***************************************************************************)
EXTENDS HashMathLoop

MCAddends == UNION {[1..n -> Byte] : n \in 0..4}
=============================================================================
