---------------------------- MODULE CtrPrimitives ----------------------------
(***************************************************************************)
(* ctr_drbg_update, ctr_drbg_bcc and block_cipher_df, in the order the C   *)
(* runs them: a step is one call that may fail (calloc, an AES block) with *)
(* the code that follows it.  block_cipher_df calls ctr_drbg_bcc, whose    *)
(* steps are the same for either caller.                                   *)
(*                                                                         *)
(* The caller owns Key and V, which only ctr_drbg_update changes, and      *)
(* hands a fresh output buffer to each of the other two.                   *)
(***************************************************************************)
EXTENDS CtrBlocks

CONSTANTS
    Keys, Vs,       \* what Key and V may be at first
    Calls,          \* the calls a caller may make
    MaxCalls        \* bound: calls in a behaviour

UpdateCall == [op : {"update"}, null : BOOLEAN, data : [1..SeedBytes -> Byte]]

BccCall == [op : {"bcc"}, null : BOOLEAN, key : Key, data : Seq(Byte)]

(* null: the output is NULL *)
DfCall == [op : {"df"}, null : BOOLEAN, input : Buffer]

(* The length is that of the data, unless the call is turned down for it   *)
(* and the data is never read.                                             *)
HonestLength(input) ==
    \/ Len(input.data) = input.len
    \/ input.null /\ input.len > 0
    \/ LengthRejected(input.len)

ASSUME CallsAssumption ==
    /\ Keys \subseteq Key /\ Vs \subseteq Block /\ MaxCalls \in Nat
    /\ Calls \subseteq UpdateCall \cup BccCall \cup DfCall
    /\ \A c \in Calls : c.op = "df" => /\ c.input.data \in Seq(Byte)
                                      /\ HonestLength(c.input)

VARIABLES
    key, v,             \* the caller's
    reply,              \* the last call, as its caller sees it
    call, calls,        \* the call under way; the number of calls made
    pc, status,
    update,             \* locals of ctr_drbg_update
    bcc,                \* ... of ctr_drbg_bcc
    df,                 \* ... of block_cipher_df
    offset,             \* of the loop over the seed, in update and in df
    bcc_offset, round,
    bcc_input,          \* on the heap
    freed               \* history: the bytes of the last block given to free

caller == <<key, v, reply, call, calls>>
frames == <<update, bcc, df>>
loops  == <<offset, bcc_offset, round>>
heap   == <<bcc_input, freed>>

vars == <<caller, pc, status, frames, loops, heap>>

(* The locals.  new_key, new_v and encrypted_x live within one step, which *)
(* erases them.                                                            *)
UpdateFrame == [working_v : Block, temp : [1..SeedBytes -> Byte]]
BccFrame    == [chaining_value : Block, input_block : Block,
                encrypted_block : Block]
DfFrame     == [initial_key : Key, temp : [1..SeedBytes -> Byte],
                derived_key : Key, x : Block, result : [1..SeedBytes -> Byte]]

ErasedUpdate ==
    [working_v |-> ZeroBytes(BlockBytes), temp |-> ZeroBytes(SeedBytes)]

ErasedBcc ==
    [chaining_value |-> ZeroBytes(BlockBytes),
     input_block |-> ZeroBytes(BlockBytes),
     encrypted_block |-> ZeroBytes(BlockBytes)]

ErasedDf ==
    [initial_key |-> ZeroBytes(KeyBytes), temp |-> ZeroBytes(SeedBytes),
     derived_key |-> ZeroBytes(KeyBytes), x |-> ZeroBytes(BlockBytes),
     result |-> ZeroBytes(SeedBytes)]

Untouched   == -1
FreshOutput == [i \in 1 .. SeedBytes + 1 |-> Untouched]

NoCall  == [op |-> "none", null |-> FALSE]
Answer(c, s, out) == [call |-> c, status |-> s, output |-> out]

Init ==
    /\ key \in Keys /\ v \in Vs
    /\ reply = Answer(NoCall, "SUCCESS", FreshOutput)
    /\ call = NoCall /\ calls = 0
    /\ pc = "idle" /\ status = "SUCCESS"
    /\ update = ErasedUpdate /\ bcc = ErasedBcc /\ df = ErasedDf
    /\ offset = 0 /\ bcc_offset = 0 /\ round = 0
    /\ bcc_input = <<>> /\ freed = <<>>

(* What a failing crypto_aes256_encrypt_block returns.                     *)
CipherFault == {"MEMORY_ERROR", "INTERNAL_ERROR"}

Fail_Bug(label) == UNCHANGED <<pc, status>>    \* the block is tried again

Goto(label) == pc' = label /\ UNCHANGED status
Fail(label) == pc' = label /\ status' \in CipherFault

Return(s, out) ==
    /\ pc' = "idle" /\ status' = "SUCCESS"
    /\ reply' = Answer(call, s, out)
    /\ call' = NoCall
    /\ UNCHANGED calls

-----------------------------------------------------------------------------
(* Calls, and the checks on their arguments. *)

BccInvalid(c) == c.null \/ Len(c.data) = 0 \/ Len(c.data) % BlockBytes # 0

DfInvalid(c) ==
    \/ c.null
    \/ c.input.len > 0 /\ c.input.null
    \/ LengthRejected(c.input.len)

Invalid(c) ==
    \/ c.op = "update" /\ c.null
    \/ c.op = "bcc" /\ BccInvalid(c)
    \/ c.op = "df" /\ DfInvalid(c)

Rejected ==
    /\ pc = "idle" /\ calls < MaxCalls
    /\ \E c \in Calls :
        /\ Invalid(c)
        /\ reply' = Answer(c, "INVALID_ARGUMENT", FreshOutput)
    /\ calls' = calls + 1
    /\ UNCHANGED <<key, v, call, pc, status, frames, loops, heap>>

Entered(c) ==
    /\ pc = "idle" /\ calls < MaxCalls /\ ~Invalid(c)
    /\ call' = c /\ calls' = calls + 1
    /\ UNCHANGED <<key, v, reply>>

CallUpdate ==
    \E c \in Calls :
        /\ c.op = "update" /\ Entered(c)
        /\ update' = [update EXCEPT !.working_v = v]
        /\ offset' = 0
        /\ Goto("update")
        /\ UNCHANGED <<bcc, df, bcc_offset, round, heap>>

CallBcc ==
    \E c \in Calls :
        /\ c.op = "bcc" /\ Entered(c)
        /\ bcc_offset' = 0
        /\ Goto("bcc")
        /\ UNCHANGED <<frames, offset, round, heap>>

CallDf ==
    \E c \in Calls :
        /\ c.op = "df" /\ Entered(c)
        /\ Goto("alloc")
        /\ UNCHANGED <<frames, loops, heap>>

-----------------------------------------------------------------------------
(* ctr_drbg_update *)

(* One block of the key stream.  An AES call that fails may have written   *)
(* its output already.                                                     *)
UpdateBlock ==
    LET counter == CounterIncrement(update.working_v)
        stepped == [update EXCEPT !.working_v = counter]
        written == [stepped EXCEPT
                       !.temp = WriteAt(@, offset, Aes(key, counter))]
    IN
    /\ pc = "update"
    /\ \/ /\ update' = written
          /\ offset' = offset + BlockBytes
          /\ Goto(IF offset' < SeedBytes THEN "update" ELSE "update_end")
       \/ /\ update' \in {stepped, written}
          /\ Fail("update_end")
          /\ UNCHANGED offset
    /\ UNCHANGED <<caller, bcc, df, bcc_offset, round, heap>>

Commit_Bug(seed) ==    \* also what a failed update has so far
    /\ key' = BytesAt(seed, 0, KeyBytes)
    /\ v' = BytesAt(seed, KeyBytes, BlockBytes)

Commit(seed) ==
    \/ /\ status = "SUCCESS"
       /\ key' = BytesAt(seed, 0, KeyBytes)
       /\ v' = BytesAt(seed, KeyBytes, BlockBytes)
    \/ status # "SUCCESS" /\ UNCHANGED <<key, v>>

UpdateCleanup_Bug == update' = [ErasedUpdate EXCEPT !.temp = update.temp]

UpdateCleanup == update' = ErasedUpdate

UpdateEnd ==
    /\ pc = "update_end"
    /\ Commit(XorBytes(update.temp, call.data))
    /\ UpdateCleanup
    /\ Return(status, FreshOutput)
    /\ UNCHANGED <<bcc, df, loops, heap>>

-----------------------------------------------------------------------------
(* ctr_drbg_bcc, called by the caller or by a round of block_cipher_df. *)

ByCaller == call.op = "bcc"

BccKey  == IF ByCaller THEN call.key ELSE df.initial_key
BccData == IF ByCaller THEN call.data ELSE bcc_input

BccInput_Bug == BytesAt(BccData, bcc_offset, BlockBytes)    \* not chained

BccInput ==
    XorBytes(bcc.chaining_value, BytesAt(BccData, bcc_offset, BlockBytes))

BccBlock ==
    LET block   == Aes(BccKey, BccInput)
        read    == [bcc EXCEPT !.input_block = BccInput]
        written == [read EXCEPT !.encrypted_block = block]
    IN
    /\ pc = "bcc"
    /\ \/ /\ bcc' = [written EXCEPT !.chaining_value = block]
          /\ bcc_offset' = bcc_offset + BlockBytes
          /\ Goto(IF bcc_offset' < Len(BccData) THEN "bcc" ELSE "bcc_end")
       \/ /\ bcc' \in {read, written}
          /\ Fail("bcc_end")
          /\ UNCHANGED bcc_offset
    /\ UNCHANGED <<caller, update, df, offset, round, heap>>

BccCleanup_Bug ==    \* erased only after a success
    bcc' = IF status = "SUCCESS" THEN ErasedBcc ELSE bcc

BccCleanup == bcc' = ErasedBcc

(* What is in the output, at dest + at, when ctr_drbg_bcc returns. *)
BccOutput(dest, at) ==
    IF status = "SUCCESS" THEN WriteAt(dest, at, bcc.chaining_value) ELSE dest

BccReturns ==
    /\ pc = "bcc_end" /\ ByCaller
    /\ BccCleanup
    /\ Return(status, BccOutput(FreshOutput, 0))
    /\ UNCHANGED <<key, v, update, df, loops, heap>>

-----------------------------------------------------------------------------
(* block_cipher_df *)

(* ctr_drbg_bcc checks its arguments before its first block. *)
CallBccOfRound(string) ==
    /\ bcc_offset' = 0
    /\ IF Len(string) = 0 \/ Len(string) % BlockBytes # 0
       THEN pc' = "df_end" /\ status' = "INVALID_ARGUMENT"
       ELSE Goto("bcc")

Alloc ==
    /\ pc = "alloc"
    /\ \/ /\ Return("MEMORY_ERROR", FreshOutput)
          /\ UNCHANGED <<df, round, bcc_input, bcc_offset>>
       \/ /\ df' = [df EXCEPT !.initial_key = InitialKey]
          /\ round' = 0
          /\ bcc_input' = RoundBlock(DfString(call.input), 0)
          /\ CallBccOfRound(bcc_input')
          /\ UNCHANGED <<reply, call, calls>>
    /\ UNCHANGED <<key, v, update, bcc, offset, freed>>

(* The rounds are over: derived_key and x are taken from temp. *)
Derived(frame) ==
    [frame EXCEPT !.derived_key = BytesAt(frame.temp, 0, KeyBytes),
                  !.x = BytesAt(frame.temp, KeyBytes, BlockBytes)]

RoundEnds ==
    LET next   == round + 1
        filled == [df EXCEPT !.temp = BccOutput(@, round * BlockBytes)]
    IN
    /\ pc = "bcc_end" /\ ~ByCaller
    /\ BccCleanup
    /\ \/ /\ status = "SUCCESS" /\ next * BlockBytes < SeedBytes
          /\ df' = filled
          /\ round' = next
          /\ bcc_input' = RoundBlock(bcc_input, next)
          /\ CallBccOfRound(bcc_input)
          /\ UNCHANGED offset
       \/ /\ status = "SUCCESS" /\ next * BlockBytes >= SeedBytes
          /\ df' = Derived(filled)
          /\ offset' = 0
          /\ Goto("encrypt")
          /\ UNCHANGED <<round, bcc_input, bcc_offset>>
       \/ /\ status # "SUCCESS"
          /\ df' = filled
          /\ Goto("df_end")
          /\ UNCHANGED <<offset, round, bcc_input, bcc_offset>>
    /\ UNCHANGED <<caller, update, freed>>

DfChain_Bug(frame, block) == frame.x    \* x stays the first block

DfChain(frame, block) == block

(* One block of the result. *)
DfBlock ==
    LET block == Aes(df.derived_key, df.x)
    IN
    /\ pc = "encrypt"
    /\ \/ /\ df' = [df EXCEPT !.x = DfChain(df, block),
                               !.result = WriteAt(@, offset, block)]
          /\ offset' = offset + BlockBytes
          /\ Goto(IF offset' < SeedBytes THEN "encrypt" ELSE "df_end")
       \/ Fail("df_end") /\ UNCHANGED <<df, offset>>
    /\ UNCHANGED <<caller, update, bcc, bcc_offset, round, heap>>

DfOutput_Bug ==    \* written block by block, before the last one is known
    WriteAt(FreshOutput, 0, BytesAt(df.result, 0, offset))

DfOutput ==
    IF status = "SUCCESS" THEN WriteAt(FreshOutput, 0, df.result)
                          ELSE FreshOutput

DfCleanup ==
    /\ freed' = ZeroBytes(Len(bcc_input)) /\ bcc_input' = <<>>
    /\ df' = ErasedDf

DfReturns ==
    /\ pc = "df_end"
    /\ DfCleanup
    /\ Return(status, DfOutput)
    /\ UNCHANGED <<key, v, update, bcc, loops>>

-----------------------------------------------------------------------------
Done == pc = "idle" /\ calls = MaxCalls /\ UNCHANGED vars

Steps ==
    \/ UpdateBlock \/ UpdateEnd \/ BccBlock \/ BccReturns
    \/ Alloc \/ RoundEnds \/ DfBlock \/ DfReturns

Next == Rejected \/ CallUpdate \/ CallBcc \/ CallDf \/ Steps \/ Done

(* A call that was made runs to its end; nobody need make one. *)
Spec == Init /\ [][Next]_vars /\ WF_vars(Steps)

-----------------------------------------------------------------------------
(* Properties. *)

(* Shapes. *)
TypeOK ==
    /\ key \in Key /\ v \in Block
    /\ call \in Calls \cup {NoCall}
    /\ calls \in 0..MaxCalls
    /\ pc \in {"idle", "update", "update_end", "bcc", "bcc_end", "alloc",
               "encrypt", "df_end"}
    /\ status \in CipherFault \cup {"SUCCESS", "INVALID_ARGUMENT"}
    /\ update \in UpdateFrame /\ bcc \in BccFrame /\ df \in DfFrame
    /\ offset \in Nat /\ bcc_offset \in Nat /\ round \in Nat
    /\ bcc_input \in Seq(Byte) /\ freed \in Seq(Byte)
    /\ pc = "idle" <=> call = NoCall
    /\ pc \in {"update", "update_end"} => call.op = "update"
    /\ pc \in {"alloc", "encrypt", "df_end"} => call.op = "df"
    /\ pc \in {"bcc", "bcc_end"} => call.op \in {"bcc", "df"}

(* No secret outlives its use.  Whatever a call returned, by whichever of  *)
(* its exits, the locals of all three functions are erased and the heap    *)
(* block was erased before it was freed; and while block_cipher_df runs    *)
(* its own code, no chaining value of a round is left behind.              *)
NothingLeft ==
    /\ pc = "idle" =>
        /\ update = ErasedUpdate /\ df = ErasedDf
        /\ bcc_input = <<>>
    /\ pc \notin {"bcc", "bcc_end"} => bcc = ErasedBcc
    /\ \A i \in DOMAIN freed : freed[i] = 0

(* A call that block_cipher_df accepted is never turned down later on by   *)
(* ctr_drbg_bcc: what is allocated is a whole number of blocks, and large  *)
(* enough for every field that is written to it.                           *)
RoundsAccepted ==
    /\ status # "INVALID_ARGUMENT"
    /\ call.op = "df" /\ pc # "alloc" =>
        /\ Len(bcc_input) % BlockBytes = 0
        /\ BlockBytes + 2 * LengthBytes + call.input.len < Len(bcc_input)

(* A call does all of its work or none.  Key and V change only in the last *)
(* step of an update that succeeds, and then together; a call that fails,  *)
(* of whichever function, wrote nothing to its output.                     *)
AllOrNothing ==
    [][ /\ <<key, v>>' # <<key, v>> =>
              call.op = "update" /\ pc' = "idle" /\ reply'.status = "SUCCESS"
        /\ reply'.status # "SUCCESS" => reply'.output = FreshOutput ]_vars

(* How much of a call is left, in bytes: every block takes one at least.   *)
(* A round goes over its string, and ends.                                 *)
RoundSteps(string) == Len(string) + 1

AfterRound ==
    IF ByCaller THEN 0
    ELSE (SeedBytes - round - 1) * RoundSteps(bcc_input) + SeedBytes + 1

StepsLeft ==
    CASE pc = "idle"       -> 0
      [] pc = "update"     -> SeedBytes - offset + 1
      [] pc = "update_end" -> 1
      [] pc = "bcc"        -> Len(BccData) - bcc_offset + 1 + AfterRound
      [] pc = "bcc_end"    -> 1 + AfterRound
      [] pc = "alloc"      -> SeedBytes * RoundSteps(DfString(call.input))
                                  + SeedBytes + 2
      [] pc = "encrypt"    -> SeedBytes - offset + 1
      [] pc = "df_end"     -> 1

(* Every step of a call takes it nearer to its end, whichever of the       *)
(* nested loops it is in and whatever fails: a call cannot run for ever.   *)
CallsAdvance == [][pc # "idle" => StepsLeft' \in 0 .. StepsLeft - 1]_vars

(* Every call returns, and no step leaves it stuck in the middle.          *)
EveryCallReturns == CallsAdvance /\ (pc # "idle" ~> pc = "idle")

-----------------------------------------------------------------------------
Promise == INSTANCE CtrPromise WITH Faults <- CipherFault

(* The three functions compute what the standard defines, as atomic calls, *)
(* with the closed forms of CtrPromise in the place of the loops; and      *)
(* every call is answered.                                                 *)
KeepsPromise == Promise!Spec /\ EveryCallReturns
=============================================================================
