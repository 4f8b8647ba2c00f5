---------------------------- MODULE DrbgMechanism ----------------------------
(***************************************************************************)
(* What a DRBG mechanism promises its caller, whatever its derivation: a   *)
(* call is one atomic step.  It either succeeds, and then changes the      *)
(* working state by the mechanism's transition and delivers exactly the    *)
(* bytes of that transition, or it fails, and then delivers no byte and    *)
(* leaves the working state alone.  The only exception is an instantiation *)
(* that fails under way, which may leave any state in Torn (a mechanism    *)
(* that derives into temporaries has Torn(s, c) = {s}).                    *)
(*                                                                         *)
(* HashDrbg and HmacDrbg are shown to implement this specification, with   *)
(* their derivations in the place of the constant operators.               *)
(***************************************************************************)
EXTENDS DrbgInterface

CONSTANTS
    InstantiateCalls, GenerateCalls, ReseedCalls, UninstantiateCalls,
    ReseedInterval,
    Faults,             \* the statuses of a failure under way
    Zeroed,             \* the working state of erased memory
    MayInstantiate(_),  \* the call's arguments are acceptable
    MayGenerate(_),
    MayReseed(_),
    TooLong(_),         \* lengths that a generate turns down as it starts
    Seeds(_),           \* the working states an instantiation may reach
    Torn(_, _),         \* the states a failed instantiation may leave
    Reseeded(_, _),     \* the state after a reseed of state s by call c
    Advance(_, _, _),   \* the state after a generate at counter rc
    Stream(_, _)        \* the bytes a generate delivers

VARIABLES state, reseed_counter, reply

vars == <<state, reseed_counter, reply>>

Init == state = Zeroed /\ reseed_counter = 0 /\ reply = NoReply

Fails(c, status) ==
    /\ reply' = Reply(c.op, status, <<>>)
    /\ UNCHANGED <<state, reseed_counter>>

Instantiate(c) ==
    \/ ~MayInstantiate(c) /\ Fails(c, "INVALID_ARGUMENT")
    \/ /\ MayInstantiate(c)
       /\ \/ /\ reply' = Reply(c.op, "SUCCESS", <<>>)
             /\ state' \in Seeds(c)
             /\ reseed_counter' = 1
          \/ /\ reply' \in {Reply(c.op, s, <<>>) : s \in Faults}
             /\ state' \in Torn(state, c)
             /\ UNCHANGED reseed_counter

Generate(c) ==
    \/ ~MayGenerate(c) /\ Fails(c, "INVALID_ARGUMENT")
    \/ /\ MayGenerate(c)
       /\ reseed_counter > ReseedInterval
       /\ Fails(c, "RESEED_REQUIRED")
    \/ /\ MayGenerate(c)
       /\ reseed_counter <= ReseedInterval
       /\ TooLong(c)
       /\ Fails(c, "INVALID_ARGUMENT")
    \/ /\ MayGenerate(c)
       /\ reseed_counter <= ReseedInterval
       /\ ~TooLong(c)
       /\ \/ /\ reseed_counter' = reseed_counter + 1
             /\ reply' = Reply(c.op, "SUCCESS", Stream(state, c))
             /\ state' = Advance(state, c, reseed_counter)
          \/ \E s \in Faults : Fails(c, s)

Reseed(c) ==
    \/ ~MayReseed(c) /\ Fails(c, "INVALID_ARGUMENT")
    \/ /\ MayReseed(c)
       /\ \/ /\ reply' = Reply(c.op, "SUCCESS", <<>>)
             /\ state' = Reseeded(state, c)
             /\ reseed_counter' = 1
          \/ \E s \in Faults : Fails(c, s)

Uninstantiate(c) ==
    /\ reply' = Reply(c.op, "SUCCESS", <<>>)
    /\ IF c.ctx THEN state' = Zeroed /\ reseed_counter' = 0
                ELSE UNCHANGED <<state, reseed_counter>>

Next ==
    \/ \E c \in InstantiateCalls : Instantiate(c)
    \/ \E c \in GenerateCalls : Generate(c)
    \/ \E c \in ReseedCalls : Reseed(c)
    \/ \E c \in UninstantiateCalls : Uninstantiate(c)

Spec == Init /\ [][Next]_vars
=============================================================================
