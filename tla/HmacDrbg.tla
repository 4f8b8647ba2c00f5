------------------------------- MODULE HmacDrbg -------------------------------
(***************************************************************************)
(* HMAC_DRBG: drbgs/hmac_drbg.c with the update function it runs on,       *)
(* algorithms/hmac_drbg_update.c.                                          *)
(*                                                                         *)
(* A step is the code between two points at which malloc or OpenSSL may    *)
(* fail, as in HashDrbg.  pc names the point:                              *)
(*    idle       between calls                                             *)
(*    upd_alloc  update_round is about to allocate its input               *)
(*    upd_K      update_round is about to compute new_K                    *)
(*    upd_V      update_round is about to compute new_V                    *)
(*    blocks     hmac_generate is about to compute its next block          *)
(*    commit     the last update of the call has succeeded                 *)
(* HMAC-SHA-256 is the constant operator Hmac of a key and an input.       *)
(* A definition whose name ends in _Bug is the definition after it with a  *)
(* mistake a programmer could make.                                        *)
(***************************************************************************)
EXTENDS DrbgBuffers

CONSTANTS
    Hmac(_, _),         \* a key and an input; the MAC has DigestSize bytes
    EntropyBytes,       \* HMAC_DRBG_ENTROPY_BYTES, 32
    NonceBytes,         \* HMAC_DRBG_NONCE_BYTES, 16
    ReseedInterval,     \* HMAC_DRBG_RESEED_INTERVAL, 2^48
    SizeMax,            \* SIZE_MAX
    InstantiateCalls, GenerateCalls, ReseedCalls, UninstantiateCalls,
    MaxCalls            \* bound of the model: calls in a behaviour

ASSUME SizesAssumption ==
    /\ ReseedInterval \in Nat
    /\ SizeMax \in Nat
    /\ MaxCalls \in Nat

ASSUME CallsAssumption ==
    /\ InstantiateCalls \subseteq InstantiateCall
    /\ GenerateCalls \subseteq GenerateCall
    /\ ReseedCalls \subseteq ReseedCall
    /\ UninstantiateCalls \subseteq UninstantiateCall

VARIABLES
    ctx,        \* the caller's HMACDRBGContext
    output,     \* the caller's output buffer, and the bytes after it
    pc,         \* control location, see above
    call,       \* the arguments of the call under way, or of the last one
    work,       \* working_K, working_V
    upd,        \* the frame of hmac_drbg_update: separator of the round,
                \* provided data, new_K, and where its caller continues
    gen,        \* the frame of hmac_generate: the block it is at, and (as
                \* history) the K and V before its first block
    heap,       \* the buffers allocated and not yet freed
    reply,      \* what the last call returned
    calls,      \* number of calls so far, bounded by MaxCalls
    before,     \* history: ctx when the call was made
    seed,       \* history: K and V at the last seeding, <<>> when ctx holds none
    requests,   \* history: how many requests were served since then
    served      \* history: which requests these were

locals  == <<work, upd, gen, heap>>
history == <<seed, requests, served>>
vars    == <<ctx, output, pc, call, locals, reply, calls, before, history>>

-----------------------------------------------------------------------------
(* The data path: what the derivations compute.                            *)

RoundKey(k, v, separator, data) == Hmac(k, v \o <<separator>> \o data)

(* One call of update_round, and hmac_drbg_update as a whole: the second   *)
(* round is made only when there are data.                                 *)
UpdateRound(kv, separator, data) ==
    LET key == RoundKey(kv.K, kv.V, separator, data)
    IN  [K |-> key, V |-> Hmac(key, kv.V)]

Update(kv, data) ==
    LET first == UpdateRound(kv, 0, data)
    IN  IF data = <<>> THEN first ELSE UpdateRound(first, 1, data)

(* V after n blocks under one key: the blocks are its successive values.   *)
Chain(kv, n) ==
    LET v[k \in 0..n] == IF k = 0 THEN kv.V ELSE Hmac(kv.K, v[k - 1])
    IN  v[n]

Blocks(kv, len) ==
    [i \in 1..len |-> Chain(kv, BlockOf(i))[OffsetOf(i)]]

(* The K and V that request c on state kv is served from: those after its  *)
(* first update, which is made only for additional input.                  *)
ServedFrom(kv, c) ==
    IF c.additional.len > 0 THEN Update(kv, c.additional.data) ELSE kv

-----------------------------------------------------------------------------
(* Contexts and frames. *)

Erased  == [K |-> ZeroBytes(DigestSize), V |-> ZeroBytes(DigestSize)]
ZeroCtx == [K |-> ZeroBytes(DigestSize), V |-> ZeroBytes(DigestSize),
            reseed_counter |-> 0]
NoUpd   == [separator |-> 0, data |-> <<>>, key |-> ZeroBytes(DigestSize),
            then |-> "commit"]

NoGen   == [block |-> 0, from |-> Erased]

(* K and V before the first update of an instantiation. *)
InitialKV == [K |-> ZeroBytes(DigestSize), V |-> [i \in 1..DigestSize |-> 1]]

KV(c) == [K |-> c.K, V |-> c.V]

Init ==
    /\ ctx = ZeroCtx
    /\ output = CallerBuffer
    /\ pc = "idle"
    /\ call = [op |-> "none", ctx |-> FALSE]
    /\ work = Erased /\ upd = NoUpd /\ gen = NoGen /\ heap = {}
    /\ reply = NoReply
    /\ calls = 0
    /\ before = ZeroCtx
    /\ seed = <<>> /\ requests = 0 /\ served = <<>>

(* The caller makes call c, the program being idle. *)
Begin(c) ==
    /\ pc = "idle"
    /\ calls < MaxCalls
    /\ calls' = calls + 1
    /\ call' = c
    /\ before' = ctx

Goto(label) == pc' = label /\ UNCHANGED reply

(* The call returns. *)
Return(status) ==
    /\ pc' = "idle"
    /\ reply' = Reply(call'.op, status,
                      IF call'.op = "generate" /\ status = "SUCCESS"
                      THEN SubSeq(output', 1, call'.output_len)
                      ELSE <<>>)

Continue == UNCHANGED <<call, calls, before>>

(* hmac_drbg_update is called on the working K and V. *)
StartUpdate(data, then) ==
    /\ upd' = [separator |-> 0, data |-> data, key |-> NoUpd.key, then |-> then]
    /\ Goto("upd_alloc")

-----------------------------------------------------------------------------
(* hmac_instantiate and hmac_reseed *)

InstantiateInvalid(c) ==
    \/ ~c.ctx \/ c.entropy.null \/ c.nonce.null
    \/ c.entropy.len < EntropyBytes \/ c.nonce.len < NonceBytes
    \/ c.personalization.len > 0 /\ c.personalization.null
    \/ c.entropy.len > SizeMax - c.nonce.len
    \/ c.personalization.len > SizeMax - (c.entropy.len + c.nonce.len)

ReseedInvalid(c) ==
    \/ ~c.ctx \/ c.entropy.null
    \/ c.entropy.len < EntropyBytes
    \/ c.additional.len > 0 /\ c.additional.null
    \/ c.additional.len > SizeMax - c.entropy.len

SeedMaterial(c) ==
    IF c.op = "instantiate"
    THEN c.entropy.data \o c.nonce.data \o c.personalization.data
    ELSE c.entropy.data \o c.additional.data

(* Bad arguments, or no memory for seed_material. *)
SeedingRejected ==
    \E c \in InstantiateCalls \cup ReseedCalls :
        LET invalid == IF c.op = "instantiate" THEN InstantiateInvalid(c)
                                               ELSE ReseedInvalid(c)
        IN
        /\ Begin(c)
        /\ Return(IF invalid THEN "INVALID_ARGUMENT" ELSE "MEMORY_ERROR")
        /\ UNCHANGED <<ctx, output, locals, history>>

InstantiateBegins ==
    \E c \in InstantiateCalls :
        /\ Begin(c)
        /\ ~InstantiateInvalid(c)
        /\ heap' = heap \cup {"seed_material"}
        /\ work' = InitialKV
        /\ StartUpdate(SeedMaterial(c), "commit")
        /\ UNCHANGED <<ctx, output, gen, history>>

ReseedBegins ==
    \E c \in ReseedCalls :
        /\ Begin(c)
        /\ ~ReseedInvalid(c)
        /\ heap' = heap \cup {"seed_material"}
        /\ work' = KV(ctx)
        /\ StartUpdate(SeedMaterial(c), "commit")
        /\ UNCHANGED <<ctx, output, gen, history>>

(* The commit of an instantiation or a reseed, and the cleanup. *)
SeedingSucceeds ==
    /\ pc = "commit" /\ call.op # "generate"
    /\ ctx' = [K |-> work.K, V |-> work.V, reseed_counter |-> 1]
    /\ heap' = heap \ {"seed_material"}
    /\ work' = Erased
    /\ seed' = work /\ requests' = 0 /\ served' = <<>>
    /\ Continue /\ Return("SUCCESS")
    /\ UNCHANGED <<output, upd, gen>>

-----------------------------------------------------------------------------
(* hmac_drbg_update, on the working K and V of its caller                  *)

UpdAlloc ==
    /\ pc = "upd_alloc"
    /\ heap' = heap \cup {"input"}
    /\ Continue /\ Goto("upd_K")
    /\ UNCHANGED <<ctx, output, work, upd, gen, history>>

UpdKey ==
    /\ pc = "upd_K"
    /\ upd' = [upd EXCEPT !.key = RoundKey(work.K, work.V, upd.separator, upd.data)]
    /\ Continue /\ Goto("upd_V")
    /\ UNCHANGED <<ctx, output, work, gen, heap, history>>

StartBlocks(kv) == gen' = [block |-> 1, from |-> kv]

SecondRound_Bug(separator, data) == FALSE    \* one round, data or not

(* The round just made is followed by one with separator 0x01. *)
SecondRound(separator, data) == separator = 0 /\ data # <<>>

(* K and V are committed together, the temporaries erased, the input freed. *)
UpdValue ==
    /\ pc = "upd_V"
    /\ work' = [K |-> upd.key, V |-> Hmac(upd.key, work.V)]
    /\ heap' = heap \ {"input"}
    /\ IF SecondRound(upd.separator, upd.data)
       THEN /\ upd' = [upd EXCEPT !.separator = 1, !.key = NoUpd.key]
            /\ Goto("upd_alloc")
            /\ UNCHANGED gen
       ELSE /\ upd' = NoUpd
            /\ IF upd.then = "blocks" THEN StartBlocks(work') ELSE UNCHANGED gen
            /\ Goto(upd.then)
    /\ Continue
    /\ UNCHANGED <<ctx, output, history>>

FreedOnFailure_Bug(h) == h \ {"seed_material"}    \* update_round just returns

(* The cleanup of update_round frees its input, that of its caller the     *)
(* seed material.                                                          *)
FreedOnFailure(h) == h \ {"input", "seed_material"}

(* A failure inside the call: everything is erased and freed, and what a   *)
(* generate has written to the caller's buffer as well.                    *)
GivesUp_Bug(status) ==    \* the status of the update is not tested
    /\ ctx' = [ctx EXCEPT !.K = work.K, !.V = work.V]
    /\ output' = output
    /\ heap' = FreedOnFailure(heap)
    /\ work' = Erased /\ upd' = NoUpd /\ gen' = NoGen
    /\ Continue /\ Return(status)
    /\ UNCHANGED history

GivesUp(status) ==
    /\ output' = IF call.op = "generate"
                 THEN ErasedOutput(output, call.output_len) ELSE output
    /\ heap' = FreedOnFailure(heap)
    /\ work' = Erased /\ upd' = NoUpd /\ gen' = NoGen
    /\ Continue /\ Return(status)
    /\ UNCHANGED <<ctx, history>>

UpdAllocFails == pc = "upd_alloc" /\ GivesUp("MEMORY_ERROR")

(* crypto_hmac_sha256 knows no other failure. *)
MacFails == pc \in {"upd_K", "upd_V", "blocks"} /\ GivesUp("INTERNAL_ERROR")

-----------------------------------------------------------------------------
(* hmac_generate *)

GenerateInvalid(c) ==
    \/ ~c.ctx \/ ~c.output \/ c.output_len = 0
    \/ c.additional.len > 0 /\ c.additional.null
    \/ c.output_len > MaxBytes

(* update_round turns the additional input down: its input would overflow. *)
AdditionalTooLong(c) == c.additional.len > SizeMax - DigestSize - 1

ReseedRequired_Bug(counter) == counter > ReseedInterval + 1
ReseedRequired_Early_Bug(counter) == counter >= ReseedInterval
ReseedRequired(counter) == counter > ReseedInterval

(* Rejected before the output is touched. *)
GenerateRejected ==
    \E c \in GenerateCalls :
        /\ Begin(c)
        /\ output' = CallerBuffer
        /\ \/ GenerateInvalid(c) /\ Return("INVALID_ARGUMENT")
           \/ /\ ~GenerateInvalid(c)
              /\ ReseedRequired(ctx.reseed_counter)
              /\ Return("RESEED_REQUIRED")
        /\ UNCHANGED <<ctx, locals, history>>

(* Rejected by the first update: through cleanup. *)
GenerateTooLong ==
    \E c \in GenerateCalls :
        /\ Begin(c)
        /\ ~GenerateInvalid(c) /\ ~ReseedRequired(ctx.reseed_counter)
        /\ AdditionalTooLong(c)
        /\ output' = ErasedOutput(CallerBuffer, c.output_len)
        /\ Return("INVALID_ARGUMENT")
        /\ UNCHANGED <<ctx, locals, history>>

GenerateBegins ==
    \E c \in GenerateCalls :
        /\ Begin(c)
        /\ ~GenerateInvalid(c) /\ ~ReseedRequired(ctx.reseed_counter)
        /\ ~AdditionalTooLong(c)
        /\ output' = CallerBuffer
        /\ work' = KV(ctx)
        /\ IF c.additional.len > 0
           THEN StartUpdate(c.additional.data, "blocks") /\ UNCHANGED gen
           ELSE StartBlocks(KV(ctx)) /\ Goto("blocks") /\ UNCHANGED upd
        /\ UNCHANGED <<ctx, heap, history>>

NextBlock_Bug(n) == n    \* produced is not advanced
NextBlock(n) == n + 1

(* One block: V is chained and copied out.  The last one is followed by    *)
(* the final update.                                                       *)
GenerateBlock ==
    LET generated == Hmac(work.K, work.V)
    IN
    /\ pc = "blocks"
    /\ work' = [work EXCEPT !.V = generated]
    /\ output' = CopyDigest(output, call.output_len, gen.block, generated)
    /\ IF gen.block < BlockOf(call.output_len)
       THEN /\ gen' = [gen EXCEPT !.block = NextBlock(gen.block)]
            /\ Goto("blocks")
            /\ UNCHANGED upd
       ELSE StartUpdate(call.additional.data, "commit") /\ UNCHANGED gen
    /\ Continue
    /\ UNCHANGED <<ctx, heap, history>>

AfterGenerate_Bug(c, new) ==    \* the new key is not committed
    [c EXCEPT !.V = new.V, !.reseed_counter = c.reseed_counter + 1]

AfterGenerate_Stale_Bug(c, new) ==    \* neither key nor V is committed
    [c EXCEPT !.reseed_counter = c.reseed_counter + 1]

AfterGenerate(c, new) ==
    [c EXCEPT !.K = new.K, !.V = new.V,
              !.reseed_counter = c.reseed_counter + 1]

GenerateSucceeds ==
    /\ pc = "commit" /\ call.op = "generate"
    /\ ctx' = AfterGenerate(ctx, work)
    /\ work' = Erased /\ gen' = NoGen
    /\ requests' = requests + 1
    /\ served' = Append(served, [from |-> gen.from, len |-> call.output_len])
    /\ UNCHANGED <<output, upd, heap, seed>>
    /\ Continue /\ Return("SUCCESS")

-----------------------------------------------------------------------------
(* hmac_uninstantiate *)

Uninstantiate ==
    \E c \in UninstantiateCalls :
        /\ Begin(c)
        /\ IF c.ctx
           THEN /\ ctx' = ZeroCtx
                /\ seed' = <<>> /\ requests' = 0 /\ served' = <<>>
           ELSE UNCHANGED <<ctx, history>>
        /\ Return("SUCCESS")
        /\ UNCHANGED <<output, locals>>

-----------------------------------------------------------------------------
Updating   == UpdAlloc \/ UpdKey \/ UpdValue
Generation == GenerateBlock \/ GenerateSucceeds
Fault      == UpdAllocFails \/ MacFails

Next ==
    \/ SeedingRejected \/ InstantiateBegins \/ ReseedBegins
    \/ GenerateRejected \/ GenerateTooLong \/ GenerateBegins
    \/ Uninstantiate
    \/ Updating \/ SeedingSucceeds \/ Generation \/ Fault

(* A call that was made keeps executing: the code is sequential and no     *)
(* step of it waits.  Callers need not make calls and nothing need fail.   *)
Spec == Init /\ [][Next]_vars /\ WF_vars(Updating \/ SeedingSucceeds \/ Generation)

-----------------------------------------------------------------------------
(* Properties.                                                             *)

(* Every variable keeps its shape, and each control location finds the     *)
(* frames and the arguments it reads.                                      *)
TypeOK ==
    /\ ctx = [K |-> ctx.K, V |-> ctx.V, reseed_counter |-> ctx.reseed_counter]
    /\ ctx.reseed_counter \in Nat
    /\ IsBytes(output, MaxBytes + 2)
    /\ upd = [separator |-> upd.separator, data |-> upd.data,
              key |-> upd.key, then |-> upd.then]
    /\ upd.separator \in {0, 1} /\ upd.then \in {"blocks", "commit"}
    /\ gen = [block |-> gen.block, from |-> gen.from] /\ gen.block \in Nat
    /\ work = [K |-> work.K, V |-> work.V]
    /\ heap \subseteq {"seed_material", "input"}
    /\ calls \in 0..MaxCalls /\ requests \in Nat
    /\ pc \in {"idle", "upd_alloc", "upd_K", "upd_V", "blocks", "commit"}
    /\ pc # "idle" =>
           call \in InstantiateCalls \cup ReseedCalls \cup GenerateCalls
    /\ (pc = "blocks" \/ (pc # "idle" /\ upd.then = "blocks")) =>
           call \in GenerateCalls

(* A call that fails leaves K, V and reseed_counter as it found them: all  *)
(* three operations work on copies, and commit when nothing can fail any   *)
(* more, an instantiation over an earlier seed included.                   *)
FailedCallKeepsState ==
    pc = "idle" /\ reply.status # "SUCCESS" => ctx = before

(* The caller's buffer after a generate: a success filled exactly the      *)
(* requested bytes, all of them blocks of the state the call found; a      *)
(* failure left them all untouched or all zero, even when it came in the   *)
(* update after the last block.  Bytes past the request are never written. *)
OutputAllOrNothing ==
    pc = "idle" /\ call.op = "generate" =>
        LET requested == {i \in DOMAIN output : i <= call.output_len}
            blocks    == Blocks(ServedFrom(KV(before), call), call.output_len)
        IN  /\ \A i \in DOMAIN output \ requested : output[i] = Untouched
            /\ IF reply.status = "SUCCESS"
               THEN \A i \in requested : output[i] = blocks[i]
               ELSE \/ \A i \in requested : output[i] = Untouched
                    \/ \A i \in requested : output[i] = 0

(* reseed_counter counts the requests served since the last successful     *)
(* seeding, which are never more than ReseedInterval.                      *)
CounterTracksRequests ==
    pc = "idle" =>
        /\ ctx.reseed_counter <= ReseedInterval + 1
        /\ seed # <<>> => /\ ctx.reseed_counter = requests + 1
                          /\ requests <= ReseedInterval

(* The values of K and V that the blocks of one request are computed from. *)
Inputs(s) == {<<s.from.K, Chain(s.from, k)>> : k \in 0 .. BlockOf(s.len) - 1}

(* No two requests of one seeding compute a block from the same K and V.   *)
NoStreamReuse ==
    \A i, j \in DOMAIN served :
        i < j => Inputs(served[i]) \cap Inputs(served[j]) = {}

(* The key that served a request is gone when the request returns: what    *)
(* the context holds later cannot recompute an earlier output.             *)
PastKeysGone ==
    pc = "idle" => \A i \in DOMAIN served : served[i].from.K # ctx.K

(* Between calls no buffer is left allocated, and the working K and V, the *)
(* new_K of the update and the provided data are gone.                     *)
NothingLeftBehind ==
    pc = "idle" =>
        heap = {} /\ work = Erased /\ upd = NoUpd /\ gen = NoGen

(* The steps that the call under way still takes if nothing fails: three   *)
(* for each round of an update, one for each block and one for the commit. *)
StepsLeft ==
    LET round   == CASE pc = "upd_alloc" -> 3 [] pc = "upd_K" -> 2
                     [] pc = "upd_V" -> 1
        another == IF SecondRound(upd.separator, upd.data) THEN 3 ELSE 0
        closing == IF call.additional.data = <<>> THEN 4 ELSE 7
        blocks  == BlockOf(call.output_len)
    IN  CASE pc = "idle"   -> 0
          [] pc = "commit" -> 1
          [] pc = "blocks" -> blocks - gen.block + 1 + closing
          [] OTHER -> round + another
                        + IF upd.then = "blocks" THEN blocks + closing ELSE 1

(* No step of a call goes back: every round of the update, every block and *)
(* every failure in them brings the return nearer, and the steps that are  *)
(* left never run below zero.                                              *)
CallsAdvance ==
    [][pc # "idle" => StepsLeft' \in 0 .. StepsLeft - 1]_vars

(* Every call returns: the rounds of the update and the block loop end,    *)
(* and no step leaves a call stuck in the middle.                          *)
EveryCallReturns == CallsAdvance /\ (pc # "idle" ~> pc = "idle")
=============================================================================
