------------------------------ MODULE HashDrbg ------------------------------
(***************************************************************************)
(* Hash_DRBG: drbgs/hash_drbg.c with the functions it runs on,             *)
(* algorithms/hash_df.c, algorithms/hashgen.c and algorithms/hash_math.c.  *)
(*                                                                         *)
(* The program is sequential, but every call passes through several points *)
(* at which malloc or OpenSSL may fail.  A step is the code from one such  *)
(* point to the next, so that a behaviour stops at each of them with the   *)
(* partial state the code really has there.  pc names the point:           *)
(*    idle      between calls                                              *)
(*    df_alloc  hash_df is about to allocate hash_input                    *)
(*    df_round  hash_df is about to hash its next block                    *)
(*    df_done   hash_df returned its last block                            *)
(*    blend     hash_generate is about to hash the additional input        *)
(*    hashgen   hashgen is about to hash its next block                    *)
(*    advance   hash_generate is about to hash 0x03 || V                   *)
(* SHA-256 is the constant operator Sha256: everything proved holds for    *)
(* every function in its place.                                            *)
(*                                                                         *)
(* A definition whose name ends in _Bug is the definition after it with a  *)
(* mistake a programmer could make: the properties must tell the two apart.*)
(***************************************************************************)
EXTENDS DrbgBuffers, HashMath

CONSTANTS
    Sha256(_),          \* the digest of a byte string, DigestSize bytes
    SeedBytes,          \* HASH_DRBG_SEEDLEN_BYTES, 55
    EntropyBytes,       \* HASH_DRBG_ENTROPY_BYTES, 32
    NonceBytes,         \* HASH_DRBG_NONCE_BYTES, 16
    ReseedInterval,     \* HASH_DRBG_RESEED_INTERVAL, 2^48
    SizeMax,            \* SIZE_MAX
    StaleBytes,         \* what uninitialised heap bytes may hold
    InstantiateCalls, GenerateCalls, ReseedCalls, UninstantiateCalls,
    MaxCalls            \* bound of the model: calls in a behaviour

ASSUME SizesAssumption ==
    /\ SeedBytes \in Nat \ {0}
    /\ ReseedInterval \in Nat
    /\ SizeMax \in Nat
    /\ MaxCalls \in Nat

ASSUME CallsAssumption ==
    /\ InstantiateCalls \subseteq InstantiateCall
    /\ GenerateCalls \subseteq GenerateCall
    /\ ReseedCalls \subseteq ReseedCall
    /\ UninstantiateCalls \subseteq UninstantiateCall

(* An uninitialised byte holds some value. *)
ASSUME StaleBytesAssumption == StaleBytes # {}

VARIABLES
    ctx,        \* the caller's HashDRBGContext
    output,     \* the caller's output buffer, and the bytes after it
    pc,         \* control location, see above
    call,       \* the arguments of the call under way, or of the last one
    work,       \* new_V, new_C of hash_reseed; working_V of hash_generate
    df,         \* the frame of hash_df: its target, its input, its counter
    gen,        \* the frame of hashgen: data and the block it is at
    heap,       \* the buffers allocated and not yet freed
    reply,      \* what the last call returned
    calls,      \* number of calls so far, bounded by MaxCalls
    before,     \* history: ctx when the call was made
    seed,       \* history: V at the last seeding, <<>> when ctx holds none
    requests,   \* history: how many requests were served since then
    served      \* history: which requests these were

locals  == <<work, df, gen, heap>>
history == <<seed, requests, served>>
vars    == <<ctx, output, pc, call, locals, reply, calls, before, history>>

-----------------------------------------------------------------------------
(* The data path: what the derivations compute.                            *)

(* The input of round `block` of hash_df: the one-byte counter, the number *)
(* of bits requested in four bytes, and the caller's input.                *)
DfInput(block, input) ==
    <<block % ByteBase>> \o Encode(8 * SeedBytes, 4) \o input

(* hash_df as a whole, for a result of SeedBytes bytes.                    *)
HashDf(input) ==
    [i \in 1..SeedBytes |->
        Sha256(DfInput(BlockOf(i), input))[OffsetOf(i)]]

(* hash_generate folds the additional input into its copy of V.            *)
HasAdditional(c) == ~c.additional.null /\ c.additional.len > 0

Blend(v, c) == AddBytes(v, Sha256(<<2>> \o v \o c.additional.data))

(* The V that a generate leaves: the working V, the hash of 0x03 and it,   *)
(* the constant and the counter.                                           *)
AdvanceV_Bug(v, constant, counter) ==    \* only the counter is added
    AddU64(v, counter)

AdvanceV(v, constant, counter) ==
    AddU64(AddBytes(AddBytes(v, Sha256(<<3>> \o v)), constant), counter)

IncrementBy(v, n) ==
    LET data[k \in 0..n] == IF k = 0 THEN v ELSE Increment(data[k - 1])
    IN  data[n]

(* hashgen as a whole *)
Hashgen(v, len) ==
    [i \in 1..len |->
        Sha256(IncrementBy(v, BlockOf(i) - 1))[OffsetOf(i)]]

(* The working V of request c on state v. *)
WorkingV(v, c) == IF HasAdditional(c) THEN Blend(v, c) ELSE v

-----------------------------------------------------------------------------
(* Contexts and frames. *)

ZeroCtx == [V |-> ZeroBytes(SeedBytes), C |-> ZeroBytes(SeedBytes),
            reseed_counter |-> 0]

NoWork == [V |-> ZeroBytes(SeedBytes), C |-> ZeroBytes(SeedBytes)]
NoDf   == [target |-> "V", input |-> <<>>, block |-> 0]
NoGen  == [data |-> ZeroBytes(SeedBytes), block |-> 0]

Init ==
    /\ ctx = ZeroCtx
    /\ output = CallerBuffer
    /\ pc = "idle"
    /\ call = [op |-> "none", ctx |-> FALSE]
    /\ work = NoWork /\ df = NoDf /\ gen = NoGen /\ heap = {}
    /\ reply = NoReply
    /\ calls = 0
    /\ before = ZeroCtx
    /\ seed = <<>> /\ requests = 0 /\ served = <<>>

(* The caller makes call c, the program being idle. *)
Begin(c) ==
    /\ pc = "idle"
    /\ calls < MaxCalls
    /\ calls' = calls + 1
    /\ call' = c
    /\ before' = ctx

Goto(label) == pc' = label /\ UNCHANGED reply

(* The call returns. *)
Return(status) ==
    /\ pc' = "idle"
    /\ reply' = Reply(call'.op, status,
                      IF call'.op = "generate" /\ status = "SUCCESS"
                      THEN SubSeq(output', 1, call'.output_len)
                      ELSE <<>>)

Continue == UNCHANGED <<call, calls, before>>

SeededFrom(v) == seed' = v /\ requests' = 0 /\ served' = <<>>

HashFault == {"MEMORY_ERROR", "INTERNAL_ERROR"}

-----------------------------------------------------------------------------
(* hash_instantiate *)

InstantiateInvalid(c) ==
    \/ ~c.ctx
    \/ c.entropy.null \/ c.entropy.len = 0
    \/ c.entropy.len < EntropyBytes
    \/ c.nonce.len < NonceBytes

(* What malloc'ed seed_material holds after the three memcpy.  A NULL      *)
(* nonce or personalization is skipped but its length is counted, so the   *)
(* tail of the buffer keeps what the heap held there: any StaleBytes.      *)
SeedMaterials(c) ==
    LET written == c.entropy.data \o c.nonce.data \o c.personalization.data
        len     == c.entropy.len + c.nonce.len + c.personalization.len
    IN  {written \o tail : tail \in [1 .. len - Len(written) -> StaleBytes]}

(* The derivation of c's V begins; seed_material is allocated. *)
StartDf(target, input) ==
    df' = [target |-> target, input |-> input, block |-> 1]

(* Bad arguments, or no memory for seed_material. *)
InstantiateRejected ==
    \E c \in InstantiateCalls :
        /\ Begin(c)
        /\ \/ InstantiateInvalid(c) /\ Return("INVALID_ARGUMENT")
           \/ ~InstantiateInvalid(c) /\ Return("MEMORY_ERROR")
        /\ UNCHANGED <<ctx, output, locals, history>>

InstantiateBegins ==
    \E c \in InstantiateCalls :
        /\ Begin(c)
        /\ ~InstantiateInvalid(c)
        /\ \E material \in SeedMaterials(c) : StartDf("V", material)
        /\ heap' = heap \cup {"seed_material"}
        /\ Goto("df_alloc")
        /\ UNCHANGED <<ctx, output, work, gen, history>>

(* Both derivations are complete: V and C are already in the context. *)
InstantiateSucceeds ==
    /\ pc = "df_done" /\ df.target = "C" /\ call.op = "instantiate"
    /\ ctx' = [ctx EXCEPT !.reseed_counter = 1]
    /\ heap' = heap \ {"seed_material"}
    /\ df' = NoDf
    /\ SeededFrom(ctx.V)
    /\ Continue /\ Return("SUCCESS")
    /\ UNCHANGED <<output, work, gen>>

-----------------------------------------------------------------------------
(* hash_df, called by hash_instantiate on the context itself and by        *)
(* hash_reseed on temporaries.                                             *)

DerivesInPlace_Bug(c) == TRUE    \* hash_reseed without its temporaries
DerivesInPlace(c) == c.op = "instantiate"

FreedOnFailure_Bug == {"seed_material"}    \* hash_df forgets its own buffer
FreedOnFailure == {"hash_input", "seed_material"}

(* A failed derivation: hash_df frees its buffer if it has one, its caller *)
(* frees seed_material and, in hash_reseed, erases the temporaries.        *)
DfGivesUp(status) ==
    /\ heap' = heap \ FreedOnFailure
    /\ work' = NoWork /\ df' = NoDf
    /\ Continue /\ Return(status)
    /\ UNCHANGED <<ctx, output, gen, history>>

DfAllocFails == pc = "df_alloc" /\ DfGivesUp("MEMORY_ERROR")

DfRoundFails == pc = "df_round" /\ \E s \in HashFault : DfGivesUp(s)

DfAlloc ==
    /\ pc = "df_alloc"
    /\ heap' = heap \cup {"hash_input"}
    /\ Continue /\ Goto("df_round")
    /\ UNCHANGED <<ctx, output, work, df, gen, history>>

NextBlock_Bug(block) == block    \* produced is not advanced
NextBlock(block) == block + 1

(* One iteration of the loop: hash the block, copy it to the target.  The  *)
(* loop ends with the block that holds byte SeedBytes.                     *)
DfRound ==
    LET copied(dest) == CopyDigest(dest, SeedBytes, df.block,
                                   Sha256(DfInput(df.block, df.input)))
    IN
    /\ pc = "df_round"
    /\ IF DerivesInPlace(call)
       THEN /\ ctx' = [ctx EXCEPT ![df.target] = copied(ctx[df.target])]
            /\ UNCHANGED work
            /\ SeededFrom(<<>>)
       ELSE /\ work' = [work EXCEPT ![df.target] = copied(work[df.target])]
            /\ UNCHANGED <<ctx, history>>
    /\ IF df.block < BlockOf(SeedBytes)
       THEN /\ df' = [df EXCEPT !.block = NextBlock(df.block)]
            /\ Goto("df_round")
            /\ UNCHANGED heap
       ELSE /\ heap' = heap \ {"hash_input"}
            /\ Goto("df_done")
            /\ UNCHANGED df
    /\ Continue
    /\ UNCHANGED <<output, gen>>

(* V is derived: C is derived from 0x00 and the new V. *)
SeedDerived ==
    /\ pc = "df_done" /\ df.target = "V"
    /\ StartDf("C", <<0>> \o (IF DerivesInPlace(call) THEN ctx.V ELSE work.V))
    /\ Continue /\ Goto("df_alloc")
    /\ UNCHANGED <<ctx, output, work, gen, heap, history>>

-----------------------------------------------------------------------------
(* hash_reseed *)

ReseedInvalid(c) ==
    \/ ~c.ctx
    \/ c.entropy.null \/ c.entropy.len < EntropyBytes
    \/ c.additional.len > 0 /\ c.additional.null
    \/ c.entropy.len > SizeMax - 1 - SeedBytes
    \/ c.additional.len > SizeMax - (1 + SeedBytes + c.entropy.len)

ReseedMaterial(v, c) == <<1>> \o v \o c.entropy.data \o c.additional.data

(* Bad arguments, or no memory for seed_material. *)
ReseedRejected ==
    \E c \in ReseedCalls :
        /\ Begin(c)
        /\ \/ ReseedInvalid(c) /\ Return("INVALID_ARGUMENT")
           \/ ~ReseedInvalid(c) /\ Return("MEMORY_ERROR")
        /\ UNCHANGED <<ctx, output, locals, history>>

ReseedBegins ==
    \E c \in ReseedCalls :
        /\ Begin(c)
        /\ ~ReseedInvalid(c)
        /\ StartDf("V", ReseedMaterial(ctx.V, c))
        /\ heap' = heap \cup {"seed_material"}
        /\ Goto("df_alloc")
        /\ UNCHANGED <<ctx, output, work, gen, history>>

(* The commit of the new state, and the cleanup. *)
AfterReseed_Bug(c, new) ==    \* C is not committed
    [c EXCEPT !.V = new.V, !.reseed_counter = 1]

AfterReseed(c, new) == [c EXCEPT !.V = new.V, !.C = new.C, !.reseed_counter = 1]

ReseedSucceeds ==
    /\ pc = "df_done" /\ df.target = "C" /\ call.op = "reseed"
    /\ ctx' = AfterReseed(ctx, work)
    /\ heap' = heap \ {"seed_material"}
    /\ work' = NoWork /\ df' = NoDf
    /\ SeededFrom(work.V)
    /\ Continue /\ Return("SUCCESS")
    /\ UNCHANGED <<output, gen>>

-----------------------------------------------------------------------------
(* hash_generate *)

GenerateInvalid(c) ==
    \/ ~c.ctx \/ ~c.output \/ c.output_len = 0
    \/ c.additional.len > 0 /\ c.additional.null
    \/ c.output_len > MaxBytes

(* The length of w_input would overflow. *)
AdditionalTooLong(c) ==
    HasAdditional(c) /\ c.additional.len > SizeMax - (1 + SeedBytes)

ReseedRequired_Bug(counter) == counter > ReseedInterval + 1
ReseedRequired_Early_Bug(counter) == counter >= ReseedInterval
ReseedRequired(counter) == counter > ReseedInterval

(* Rejected before the output is touched. *)
GenerateRejected ==
    \E c \in GenerateCalls :
        /\ Begin(c)
        /\ output' = CallerBuffer
        /\ \/ GenerateInvalid(c) /\ Return("INVALID_ARGUMENT")
           \/ /\ ~GenerateInvalid(c)
              /\ ReseedRequired(ctx.reseed_counter)
              /\ Return("RESEED_REQUIRED")
        /\ UNCHANGED <<ctx, locals, history>>

(* Rejected or out of memory when w_input is prepared: through cleanup. *)
GenerateUnprepared ==
    \E c \in GenerateCalls :
        /\ Begin(c)
        /\ ~GenerateInvalid(c) /\ ~ReseedRequired(ctx.reseed_counter)
        /\ HasAdditional(c)
        /\ output' = ErasedOutput(CallerBuffer, c.output_len)
        /\ Return(IF AdditionalTooLong(c) THEN "INVALID_ARGUMENT"
                                          ELSE "MEMORY_ERROR")
        /\ UNCHANGED <<ctx, locals, history>>

StartHashgen(v) == gen' = [data |-> v, block |-> 1]

GenerateBegins ==
    \E c \in GenerateCalls :
        /\ Begin(c)
        /\ ~GenerateInvalid(c) /\ ~ReseedRequired(ctx.reseed_counter)
        /\ ~AdditionalTooLong(c)
        /\ output' = CallerBuffer
        /\ work' = [work EXCEPT !.V = ctx.V]
        /\ IF HasAdditional(c)
           THEN /\ heap' = heap \cup {"w_input"}
                /\ Goto("blend")
                /\ UNCHANGED gen
           ELSE /\ StartHashgen(ctx.V)
                /\ Goto("hashgen")
                /\ UNCHANGED heap
        /\ UNCHANGED <<ctx, df, history>>

GenerateBlend ==
    /\ pc = "blend"
    /\ work' = [work EXCEPT !.V = Blend(work.V, call)]
    /\ StartHashgen(Blend(work.V, call))
    /\ Continue /\ Goto("hashgen")
    /\ UNCHANGED <<ctx, output, df, heap, history>>

(* One iteration of hashgen: hash data, copy the digest out, increment. *)
HashgenRound ==
    /\ pc = "hashgen"
    /\ output' = CopyDigest(output, call.output_len, gen.block, Sha256(gen.data))
    /\ IF gen.block < BlockOf(call.output_len)
       THEN /\ gen' = [data |-> Increment(gen.data), block |-> gen.block + 1]
            /\ Goto("hashgen")
       ELSE gen' = NoGen /\ Goto("advance")
    /\ Continue
    /\ UNCHANGED <<ctx, work, df, heap, history>>

GenerateFails_Bug ==    \* returns without erasing working_V
    /\ pc \in {"blend", "hashgen", "advance"}
    /\ output' = ErasedOutput(output, call.output_len)
    /\ heap' = heap \ {"w_input"} /\ gen' = NoGen
    /\ Continue
    /\ \E s \in HashFault : Return(s)
    /\ UNCHANGED <<ctx, work, df, history>>

(* A hash fails anywhere in hash_generate. *)
GenerateFails ==
    /\ pc \in {"blend", "hashgen", "advance"}
    /\ output' = ErasedOutput(output, call.output_len)
    /\ heap' = heap \ {"w_input"}
    /\ work' = NoWork /\ gen' = NoGen
    /\ Continue
    /\ \E s \in HashFault : Return(s)
    /\ UNCHANGED <<ctx, df, history>>

AfterGenerate_Bug(c, v) ==    \* from V without the additional input
    [c EXCEPT !.V = AdvanceV(c.V, c.C, c.reseed_counter),
              !.reseed_counter = c.reseed_counter + 1]

AfterGenerate(c, v) ==
    [c EXCEPT !.V = AdvanceV(v, c.C, c.reseed_counter),
              !.reseed_counter = c.reseed_counter + 1]

GenerateSucceeds ==
    /\ pc = "advance"
    /\ ctx' = AfterGenerate(ctx, work.V)
    /\ heap' = heap \ {"w_input"}
    /\ work' = NoWork
    /\ requests' = requests + 1
    /\ served' = Append(served, [V |-> work.V, len |-> call.output_len])
    /\ UNCHANGED <<output, df, gen, seed>>
    /\ Continue /\ Return("SUCCESS")

-----------------------------------------------------------------------------
(* hash_uninstantiate *)

Uninstantiate ==
    \E c \in UninstantiateCalls :
        /\ Begin(c)
        /\ IF c.ctx THEN ctx' = ZeroCtx /\ SeededFrom(<<>>)
                    ELSE UNCHANGED <<ctx, history>>
        /\ Return("SUCCESS")
        /\ UNCHANGED <<output, locals>>

-----------------------------------------------------------------------------
Derivation ==
    \/ DfAlloc \/ DfRound \/ SeedDerived
    \/ InstantiateSucceeds \/ ReseedSucceeds

Generation == GenerateBlend \/ HashgenRound \/ GenerateSucceeds

Fault == DfAllocFails \/ DfRoundFails \/ GenerateFails

Next ==
    \/ InstantiateRejected \/ InstantiateBegins
    \/ ReseedRejected \/ ReseedBegins
    \/ GenerateRejected \/ GenerateUnprepared \/ GenerateBegins
    \/ Uninstantiate
    \/ Derivation \/ Generation \/ Fault

(* A call that was made keeps executing: the code is sequential and no     *)
(* step of it waits.  Callers need not make calls and nothing need fail.   *)
Spec == Init /\ [][Next]_vars /\ WF_vars(Derivation \/ Generation)

-----------------------------------------------------------------------------
(* Properties.                                                             *)

Buffers == {"seed_material", "hash_input", "w_input"}

(* Every variable keeps its shape: V and C are byte strings of SeedBytes   *)
(* bytes in the context and in the temporaries, whatever was written into  *)
(* them, and each control location finds the frames and the arguments it   *)
(* reads.                                                                  *)
TypeOK ==
    /\ ctx = [V |-> ctx.V, C |-> ctx.C, reseed_counter |-> ctx.reseed_counter]
    /\ IsBytes(ctx.V, SeedBytes) /\ IsBytes(ctx.C, SeedBytes)
    /\ ctx.reseed_counter \in Nat
    /\ work = [V |-> work.V, C |-> work.C]
    /\ IsBytes(work.V, SeedBytes) /\ IsBytes(work.C, SeedBytes)
    /\ IsBytes(output, MaxBytes + 2)
    /\ IsBytes(gen.data, SeedBytes) /\ gen.block \in Nat
    /\ df = [target |-> df.target, input |-> df.input, block |-> df.block]
    /\ df.target \in {"V", "C"} /\ df.block \in Nat
    /\ heap \subseteq Buffers
    /\ requests \in Nat
    /\ calls \in 0..MaxCalls
    /\ pc \in {"idle", "df_alloc", "df_round", "df_done",
               "blend", "hashgen", "advance"}
    /\ pc \in {"df_alloc", "df_round", "df_done"} =>
           call \in InstantiateCalls \cup ReseedCalls
    /\ pc \in {"blend", "hashgen", "advance"} => call \in GenerateCalls

Failed == pc = "idle" /\ reply.status # "SUCCESS"

(* A call that fails leaves the context as it found it, whichever of the   *)
(* mallocs and hashes inside it failed: a failed reseed must preserve V, C *)
(* and reseed_counter, a failed generate must not advance.  The exception  *)
(* is hash_instantiate, which derives V and C in place: it keeps only the  *)
(* counter, unless it rejects its arguments.                               *)
FailedCallKeepsState ==
    Failed =>
        IF reply.op = "instantiate" /\ reply.status # "INVALID_ARGUMENT"
        THEN ctx.reseed_counter = before.reseed_counter
        ELSE ctx = before

(* The caller's buffer after a generate.  A success filled exactly the     *)
(* requested bytes, all from the stream of the state the call found; a     *)
(* failure left either every requested byte untouched or every one zero,   *)
(* never a part of the stream.  No byte past the request is ever written.  *)
OutputAllOrNothing ==
    pc = "idle" /\ call.op = "generate" =>
        LET requested == {i \in DOMAIN output : i <= call.output_len}
            stream    == Hashgen(WorkingV(before.V, call), call.output_len)
        IN  /\ \A i \in DOMAIN output \ requested : output[i] = Untouched
            /\ IF reply.status = "SUCCESS"
               THEN \A i \in requested : output[i] = stream[i]
               ELSE \/ \A i \in requested : output[i] = Untouched
                    \/ \A i \in requested : output[i] = 0

(* reseed_counter is one more than the number of requests served since the *)
(* last successful seeding, through failed calls and retries, and no more  *)
(* than ReseedInterval requests are served without a reseed.  An           *)
(* interrupted instantiate keeps the old counter, so the bound survives it.*)
CounterTracksRequests ==
    pc = "idle" =>
        /\ ctx.reseed_counter <= ReseedInterval + 1
        /\ seed # <<>> => /\ ctx.reseed_counter = requests + 1
                          /\ requests <= ReseedInterval

(* C is the constant derived from the V of the last seeding, for as long   *)
(* as that seeding lasts: no later call changes one without the other.     *)
ConstantMatchesSeed ==
    pc = "idle" /\ seed # <<>> => ctx.C = HashDf(<<0>> \o seed)

(* The values of V that hashgen hashes for one request. *)
Hashed(s) == {IncrementBy(s.V, k) : k \in 0 .. BlockOf(s.len) - 1}

Apart(s) ==
    \A i, j \in DOMAIN s : i < j => Hashed(s[i]) \cap Hashed(s[j]) = {}

(* No two requests of one seeding ever hash the same block: the successor  *)
(* V is always clear of the values that earlier requests have used.        *)
NoStreamReuse == Apart(served)

(* Between calls no buffer is left allocated, and new_V and new_C of       *)
(* hash_reseed, working_V of hash_generate and data of hashgen are erased, *)
(* on every success, failure and early return.  Nothing is claimed of what *)
(* the code does not erase: c_input of hash_instantiate and the digest of  *)
(* hash_df, and the contents of seed_material (of hash_instantiate) and    *)
(* hash_input, which are freed as they are.                                *)
FreedAndErased ==
    pc = "idle" => heap = {} /\ work = NoWork /\ gen = NoGen

(* The steps that the call under way still takes if nothing fails: two     *)
(* derivations of an allocation, the rounds and a return, or a blending,   *)
(* the blocks and a commit.                                                *)
StepsLeft ==
    LET rounds == BlockOf(SeedBytes)
        second == IF df.target = "V" THEN rounds + 2 ELSE 0
    IN  CASE pc = "idle"     -> 0
          [] pc = "df_alloc" -> second + rounds + 2
          [] pc = "df_round" -> second + rounds - df.block + 2
          [] pc = "df_done"  -> second + 1
          [] pc = "blend"    -> BlockOf(call.output_len) + 2
          [] pc = "hashgen"  -> BlockOf(call.output_len) - gen.block + 2
          [] pc = "advance"  -> 1

(* No step of a call goes back: every round of hash_df and of hashgen, and *)
(* every failure in them, brings the return nearer, and the steps that are *)
(* left never run below zero.                                              *)
CallsAdvance ==
    [][pc # "idle" => StepsLeft' \in 0 .. StepsLeft - 1]_vars

(* Every call returns: the loops of hash_df and hashgen end, and no step   *)
(* leaves a call stuck in the middle.                                      *)
EveryCallReturns == CallsAdvance /\ (pc # "idle" ~> pc = "idle")

=============================================================================
