------------------------------ MODULE Benchmark ------------------------------
(***************************************************************************)
(* benchmark_run and benchmark_reseed of src/benchmark.c, over any         *)
(* mechanism that keeps the promise of DrbgMechanism: one run, from its    *)
(* argument checks to its single cleanup label.                            *)
(*                                                                         *)
(* A step is one call out of the benchmark (malloc, the entropy source, an *)
(* entry of the vtable, a file) with the code that follows it.  Times are  *)
(* whole numbers: the clock is the wall clock, which may be stepped, so a  *)
(* difference may also be zero or negative.                                *)
(***************************************************************************)
EXTENDS Integers, Sequences, DrbgInterface

CONSTANTS
    (* the mechanism, see DrbgMechanism *)
    ReseedInterval, Faults, Zeroed,
    MayInstantiate(_), MayGenerate(_), MayReseed(_), TooLong(_),
    Seeds(_), Torn(_, _), Reseeded(_, _), Advance(_, _, _), Stream(_, _),
    Verifies(_),        \* what its verify says of an output
    Descriptors,        \* of the vtable: size limit, optional entries
    Configs,            \* what the command line may ask for
    Entropy, Nonces,    \* bytes the system generator may return
    Elapsed,            \* what a timer may measure
    DBL_MAX             \* more than any sum of times

Descriptor == [max_request_size : Nat, reseed : BOOLEAN, verify : BOOLEAN]

Config == [output_size : Nat, repetitions : Nat, reseed_interval : Nat,
           verify_output : BOOLEAN, save_output : BOOLEAN]

ASSUME BenchmarkAssumption ==
    /\ ReseedInterval \in Nat /\ DBL_MAX \in Nat /\ Elapsed \subseteq Int
    /\ Faults \subseteq STRING \ {"SUCCESS"}
    /\ Descriptors \subseteq Descriptor /\ Configs \subseteq Config
    /\ Entropy \subseteq Seq(Nat) \ {<<>>} /\ Nonces \subseteq Seq(Nat) \ {<<>>}

VARIABLES
    drbg, config,           \* the arguments
    pc, status,
    state, reseed_counter,  \* the mechanism's context
    reply,                  \* ... and its answer to the last call
    heap, instantiated,
    seed,                   \* entropy and nonce on the stack
    fresh,                  \* the entropy of benchmark_reseed
    buffer,
    repetition, produced, requests_since_reseed,
    time, total,            \* generate time of this repetition, of all so far
    result,
    file, rows,             \* output/drbg.bin, and the rows in the CSV file
    delivered,              \* history: the bytes of this repetition
    seeded,                 \* history: instantiate has succeeded
    uninstantiations        \* history: calls of uninstantiate

mechanism == <<state, reseed_counter, reply>>
arguments == <<drbg, config>>
memory    == <<heap, seed, fresh, buffer>>
loop      == <<repetition, produced, requests_since_reseed>>
times     == <<time, total>>
files     == <<file, rows>>
lifetime  == <<seeded, uninstantiations>>
history   == <<delivered, lifetime>>

vars == <<arguments, pc, status, mechanism, memory, instantiated, loop, times,
          result, files, history>>

Mechanism == INSTANCE DrbgMechanism WITH
    InstantiateCalls <- {}, GenerateCalls <- {}, ReseedCalls <- {},
    UninstantiateCalls <- {}

NoSeed == [entropy |-> <<>>, nonce |-> <<>>]

Unknown == -1    \* a byte that was allocated and never written

Init ==
    /\ drbg \in Descriptors /\ config \in Configs
    /\ pc = "start" /\ status = "SUCCESS"
    /\ Mechanism!Init
    /\ heap = {} /\ instantiated = FALSE
    /\ seed = NoSeed /\ fresh = <<>> /\ buffer = <<>>
    /\ repetition = 0 /\ produced = 0 /\ requests_since_reseed = 0
    /\ time = 0 /\ total = 0
    /\ result = [requests |-> 0, reseeds |-> 0, min |-> DBL_MAX, max |-> 0]
    /\ file = <<>> /\ rows = <<>>
    /\ delivered = <<>> /\ seeded = FALSE /\ uninstantiations = 0

Goto(label) == pc' = label /\ UNCHANGED status
Leave(s)    == pc' = "cleanup" /\ status' = s

-----------------------------------------------------------------------------
(* Arguments, memory and seed. *)

InvalidConfig == config.output_size = 0 \/ config.repetitions = 0

CannotReseed == config.reseed_interval > 0 /\ ~drbg.reseed

Rejected ==
    /\ pc = "start"
    /\ \/ InvalidConfig /\ status' = "INVALID_ARGUMENT"
       \/ ~InvalidConfig /\ CannotReseed /\ status' = "NOT_IMPLEMENTED"
    /\ pc' = "done"
    /\ UNCHANGED <<arguments, mechanism, memory, instantiated, loop, times,
                   result, files, history>>

AllocContext ==
    /\ pc = "start" /\ ~InvalidConfig /\ ~CannotReseed
    /\ \/ heap' = heap \cup {"ctx"} /\ Goto("alloc_buffer")
       \/ UNCHANGED heap /\ Leave("MEMORY_ERROR")
    /\ UNCHANGED <<arguments, mechanism, seed, fresh, buffer, instantiated, loop,
                   times, result, files, history>>

AllocBuffer ==
    /\ pc = "alloc_buffer"
    /\ \/ /\ heap' = heap \cup {"buffer"}
          /\ buffer' = [i \in 1 .. config.output_size |-> Unknown]
          /\ Goto("entropy")
       \/ UNCHANGED <<heap, buffer>> /\ Leave("MEMORY_ERROR")
    /\ UNCHANGED <<arguments, mechanism, seed, fresh, instantiated, loop, times,
                   result, files, history>>

(* entropy_get_seed_material: the nonce may fail after the entropy was read. *)
ReadEntropy ==
    /\ pc = "entropy"
    /\ \/ \E e \in Entropy : seed' = [seed EXCEPT !.entropy = e] /\ Goto("nonce")
       \/ UNCHANGED seed /\ Leave("ENTROPY_ERROR")
    /\ UNCHANGED <<arguments, mechanism, heap, fresh, buffer, instantiated, loop,
                   times, result, files, history>>

ReadNonce ==
    /\ pc = "nonce"
    /\ \/ \E n \in Nonces : seed' = [seed EXCEPT !.nonce = n] /\ Goto("instantiate")
       \/ UNCHANGED seed /\ Leave("ENTROPY_ERROR")
    /\ UNCHANGED <<arguments, mechanism, heap, fresh, buffer, instantiated, loop,
                   times, result, files, history>>

InstantiateCallOf(s) ==
    [op |-> "instantiate", ctx |-> TRUE, entropy |-> Bytes(s.entropy),
     nonce |-> Bytes(s.nonce), personalization |-> NullBuffer(0)]

Instantiate ==
    /\ pc = "instantiate"
    /\ Mechanism!Instantiate(InstantiateCallOf(seed))
    /\ seed' = NoSeed
    /\ seeded' = (reply'.status = "SUCCESS")
    /\ \/ reply'.status = "SUCCESS" /\ instantiated' = TRUE /\ Goto("request")
       \/ /\ reply'.status # "SUCCESS"
          /\ UNCHANGED instantiated
          /\ Leave(reply'.status)
    /\ UNCHANGED <<arguments, heap, fresh, buffer, loop, times, result, files,
                   delivered, uninstantiations>>

-----------------------------------------------------------------------------
(* The requests of a repetition. *)

ReseedDue_Bug == config.reseed_interval > 0    \* one request too late
                 /\ requests_since_reseed > config.reseed_interval

ReseedDue == config.reseed_interval > 0
             /\ requests_since_reseed >= config.reseed_interval

Requesting == pc = "request" /\ produced < config.output_size

ReseedEntropy ==
    /\ Requesting /\ ReseedDue
    /\ \/ fresh' \in Entropy /\ Goto("reseed")
       \/ UNCHANGED fresh /\ Leave("ENTROPY_ERROR")
    /\ UNCHANGED <<arguments, mechanism, heap, seed, buffer, instantiated, loop,
                   times, result, files, history>>

ReseedCallOf(e) == [op |-> "reseed", ctx |-> TRUE, entropy |-> Bytes(e),
                    additional |-> NullBuffer(0)]

ReseedSucceeds_Bug ==    \* the count of requests is not reset
    /\ result' = [result EXCEPT !.reseeds = @ + 1]
    /\ Goto("reseeded")
    /\ UNCHANGED requests_since_reseed

ReseedSucceeds ==
    /\ result' = [result EXCEPT !.reseeds = @ + 1]
    /\ requests_since_reseed' = 0
    /\ Goto("reseeded")

ReseedFails_Bug ==    \* a failed reseed is tried again, for ever
    Goto("request") /\ UNCHANGED <<requests_since_reseed, result>>

ReseedFails ==
    Leave(reply'.status) /\ UNCHANGED <<requests_since_reseed, result>>

Reseed ==
    /\ pc = "reseed"
    /\ Mechanism!Reseed(ReseedCallOf(fresh))
    /\ fresh' = <<>>
    /\ \/ reply'.status = "SUCCESS" /\ ReseedSucceeds
       \/ reply'.status # "SUCCESS" /\ ReseedFails
    /\ UNCHANGED <<arguments, heap, seed, buffer, instantiated, repetition,
                   produced, times, files, history>>

RequestSize_Bug == config.output_size - produced    \* the limit is ignored

RequestSize ==
    LET remaining == config.output_size - produced
    IN  IF drbg.max_request_size > 0 /\ remaining > drbg.max_request_size
        THEN drbg.max_request_size ELSE remaining

GenerateCallOf(len) == [op |-> "generate", ctx |-> TRUE, output |-> TRUE,
                        output_len |-> len, additional |-> NullBuffer(0)]

Deliver_Bug(bytes) ==    \* every request is written to the start of the buffer
    [i \in DOMAIN buffer |-> IF i \in DOMAIN bytes THEN bytes[i] ELSE buffer[i]]

(* bytes are written to buffer + produced *)
Deliver(bytes) ==
    [i \in DOMAIN buffer |->
        IF i - produced \in DOMAIN bytes THEN bytes[i - produced] ELSE buffer[i]]

Generate ==
    /\ \/ Requesting /\ ~ReseedDue
       \/ pc = "reseeded"
    /\ Mechanism!Generate(GenerateCallOf(RequestSize))
    /\ buffer' = Deliver(reply'.bytes)
    /\ delivered' = delivered \o reply'.bytes
    /\ \/ /\ reply'.status = "SUCCESS"
          /\ \E t \in Elapsed : time' = time + t
          /\ produced' = produced + RequestSize
          /\ requests_since_reseed' = requests_since_reseed + 1
          /\ result' = [result EXCEPT !.requests = @ + 1]
          /\ Goto("request")
       \/ /\ reply'.status # "SUCCESS"
          /\ Leave(reply'.status)
          /\ UNCHANGED <<time, produced, requests_since_reseed, result>>
    /\ UNCHANGED <<arguments, heap, seed, fresh, instantiated, repetition, total,
                   files, lifetime>>

-----------------------------------------------------------------------------
(* The end of a repetition and of the run. *)

VerifyStatus ==
    IF ~config.verify_output      THEN "SUCCESS"
    ELSE IF ~drbg.verify          THEN "NOT_IMPLEMENTED"
    ELSE IF Verifies(buffer)      THEN "SUCCESS"
    ELSE                               "GENERATE_ERROR"

Least(a, b)    == IF a < b THEN a ELSE b
Greatest(a, b) == IF a > b THEN a ELSE b

Extremes_Bug(r, t) ==    \* an else-if: the first repetition sets no maximum
    IF t < r.min THEN [r EXCEPT !.min = t]
                 ELSE [r EXCEPT !.max = Greatest(t, @)]

Extremes(r, t) == [r EXCEPT !.min = Least(t, @), !.max = Greatest(t, @)]

RepetitionPasses ==
    /\ pc = "request" /\ produced >= config.output_size
    /\ VerifyStatus = "SUCCESS"
    /\ total' = total + time
    /\ result' = Extremes(result, time)
    /\ repetition' = repetition + 1
    /\ \/ /\ repetition' < config.repetitions
          /\ produced' = 0 /\ time' = 0 /\ delivered' = <<>>
          /\ Goto("request")
       \/ /\ repetition' >= config.repetitions
          /\ Goto("finish")
          /\ UNCHANGED <<produced, time, delivered>>
    /\ UNCHANGED <<arguments, mechanism, memory, instantiated,
                   requests_since_reseed, files, lifetime>>

RepetitionFails ==
    /\ pc = "request" /\ produced >= config.output_size
    /\ VerifyStatus # "SUCCESS"
    /\ Leave(VerifyStatus)
    /\ UNCHANGED <<arguments, mechanism, memory, instantiated, loop, times,
                   result, files, history>>

CallUninstantiate ==
    /\ Mechanism!Uninstantiate([op |-> "uninstantiate", ctx |-> TRUE])
    /\ uninstantiations' = uninstantiations + 1
    /\ UNCHANGED seeded

AfterUninstantiate_Bug == instantiated    \* the flag stays set

AfterUninstantiate == FALSE

(* Only a positive total allows a throughput. *)
Finish ==
    /\ pc = "finish"
    /\ CallUninstantiate
    /\ instantiated' = AfterUninstantiate
    /\ \/ total <= 0 /\ Leave("INTERNAL_ERROR")
       \/ total > 0 /\ Goto(IF config.save_output THEN "save" ELSE "report")
    /\ UNCHANGED <<arguments, memory, loop, times, result, files, delivered>>

(* write_binary_file may fail on opening, or after it wrote a part. *)
SaveSucceeds == file' = buffer /\ Goto("report")

SaveFails ==
    /\ \E n \in 0 .. config.output_size : file' = SubSeq(buffer, 1, n)
    /\ Leave("FILE_ERROR")

Save ==
    /\ pc = "save"
    /\ SaveSucceeds \/ SaveFails
    /\ UNCHANGED <<arguments, mechanism, memory, instantiated, loop, times,
                   result, rows, history>>

Row == [result |-> result, total |-> total]

ReportFails_Bug == Leave("SUCCESS") /\ UNCHANGED rows    \* no status is set

ReportFails == Leave("FILE_ERROR") /\ UNCHANGED rows

Report ==
    /\ pc = "report"
    /\ \/ rows' = Append(rows, Row) /\ Leave("SUCCESS")
       \/ ReportFails
    /\ UNCHANGED <<arguments, mechanism, memory, instantiated, loop, times,
                   result, file, history>>

ErasedContext_Bug ==    \* erased only if the instantiation succeeded
    IF instantiated THEN Zeroed ELSE state

ErasedContext == IF "ctx" \in heap THEN Zeroed ELSE state

MustUninstantiate_Bug == "ctx" \in heap    \* whatever context there is

MustUninstantiate == instantiated

Cleanup ==
    /\ pc = "cleanup"
    /\ \/ MustUninstantiate /\ CallUninstantiate
       \/ /\ ~MustUninstantiate
          /\ state' = ErasedContext
          /\ reseed_counter' = 0
          /\ UNCHANGED <<reply, lifetime>>
    /\ seed' = NoSeed
    /\ buffer' = [i \in DOMAIN buffer |-> 0]
    /\ heap' = {}
    /\ pc' = "done"
    /\ UNCHANGED <<arguments, status, fresh, instantiated, loop, times, result,
                   files, delivered>>

Done == pc = "done" /\ UNCHANGED vars

Next ==
    \/ Rejected \/ AllocContext \/ AllocBuffer \/ ReadEntropy \/ ReadNonce
    \/ Instantiate \/ ReseedEntropy \/ Reseed \/ Generate
    \/ RepetitionPasses \/ RepetitionFails \/ Finish \/ Save \/ Report \/ Cleanup
    \/ Done

Spec == Init /\ [][Next]_vars /\ WF_vars(Next)

-----------------------------------------------------------------------------
(* Properties. *)

(* With an interval given, no seed serves more requests than it, however   *)
(* the requests fall on the repetitions: counted by the mechanism's own    *)
(* counter, which starts at one, not by the benchmark's.                   *)
SeedNotOverused ==
    instantiated /\ config.reseed_interval > 0
        => reseed_counter - 1 <= config.reseed_interval

(* The mechanism never turns a call of the benchmark down, unless for a    *)
(* reseed that the configuration did not ask for in time.                  *)
CallsAccepted ==
    /\ reply.status # "INVALID_ARGUMENT"
    /\ reply.status = "RESEED_REQUIRED"
           => config.reseed_interval \notin 1 .. ReseedInterval

Requests(size, limit) ==
    IF limit = 0 THEN 1 ELSE (size + limit - 1) \div limit

(* What the report counts is what the configuration determines: the        *)
(* requests of all repetitions, and one reseed before each request that    *)
(* follows a whole interval, none after the last.                          *)
CountsExact ==
    LET requests == config.repetitions
                        * Requests(config.output_size, drbg.max_request_size)
        interval == config.reseed_interval
    IN  pc \in {"finish", "save", "report"} =>
            /\ result.requests = requests
            /\ result.reseeds =
                   IF interval = 0 THEN 0 ELSE (requests - 1) \div interval

(* However the run ends, its memory is free, and was erased before: the    *)
(* context (also one that a failed instantiation left behind), the output  *)
(* and all seed material.                                                  *)
ErasedBeforeFree ==
    pc = "done" =>
        /\ heap = {}
        /\ state = Zeroed /\ reseed_counter = 0
        /\ seed = NoSeed /\ fresh = <<>>
        /\ \A i \in DOMAIN buffer : buffer[i] = 0

(* uninstantiate is never called before instantiate has succeeded, nor a   *)
(* second time; and when the run ends, on whichever of the two paths, a    *)
(* mechanism that was instantiated has been uninstantiated.                *)
UninstantiatedOnce ==
    /\ uninstantiations <= IF seeded THEN 1 ELSE 0
    /\ pc = "done" /\ seeded => uninstantiations = 1

(* The run ends in success exactly when it left its row in the CSV file.   *)
RowMeansSuccess ==
    pc = "done" => (status = "SUCCESS" <=> Len(rows) = 1)

(* The aggregates of a row agree: the mean lies between the extremes.      *)
RowIsConsistent ==
    \A i \in DOMAIN rows :
        LET row == rows[i]
        IN  /\ row.total > 0
            /\ row.result.min * config.repetitions <= row.total
            /\ row.total <= row.result.max * config.repetitions

(* What a successful run saved is the output of its last repetition, all   *)
(* requests in order, although the buffer is erased afterwards.            *)
SavedIsDelivered ==
    pc = "done" /\ status = "SUCCESS" /\ config.save_output =>
        /\ file = delivered
        /\ Len(file) = config.output_size

(* Verification of a mechanism that works never fails.                     *)
VerificationPasses == status # "GENERATE_ERROR"

(* An upper bound on the steps a run still has to take: the place on its   *)
(* straight path and, before its end, what the repetitions need: three     *)
(* steps for a byte, all that a lazily reseeded request takes, and one     *)
(* that closes the repetition.                                             *)
Place ==
    [start |-> 10, alloc_buffer |-> 9, entropy |-> 8, nonce |-> 7,
     instantiate |-> 6, request |-> 5, reseed |-> 4, reseeded |-> 3,
     finish |-> 4, save |-> 3, report |-> 2, cleanup |-> 1, done |-> 0]

Ending == {"finish", "save", "report", "cleanup", "done"}

LoopSteps ==
    (config.repetitions - repetition) * (3 * config.output_size + 1)
        - 3 * produced

StepsLeft == Place[pc] + IF pc \in Ending THEN 0 ELSE LoopSteps

(* No step is taken in vain: whatever fails, a step that changes anything  *)
(* brings the run nearer to its end, in the request loop by a byte served, *)
(* a reseed or a repetition closed.                                        *)
RunAdvances == [][StepsLeft' \in 0 .. StepsLeft - 1]_vars

(* Every run comes to its end, and is never stuck before it.               *)
Terminates == RunAdvances /\ <>(pc = "done")
=============================================================================
