# A TLA+ model of the DRBG framework

The repository is a C11 program that benchmarks deterministic random bit
generators (DRBGs, in the sense of NIST SP 800-90A) behind one interface, with
known-answer tests against the NIST vectors. It is sequential: what makes it
hard is not concurrency but the number of points at which a call can fail
(every `malloc`, every OpenSSL call), the state that is half changed there, and
long sequences of calls on one context, which unit tests reach only in part.

Paths below are relative to the repository.

## Inventory

| Component | State | Operations | Interaction |
|---|---|---|---|
| DRBG interface, `include/drbg.h`, `include/status.h` | none | the vtable `instantiate`, `generate`, `reseed`, `verify`, `uninstantiate` | called by the benchmark and the tests, implemented by the mechanisms; the context and all buffers are the caller's |
| Hash_DRBG, `drbgs/hash_drbg.c`, `algorithms/hash_df.c`, `algorithms/hashgen.c`, `crypto/crypto_hash.c` | `V`, `C`, `reseed_counter` in the caller's context; `seed_material`, `hash_input`, `w_input` on the heap; `new_V`, `new_C`, `working_V` | the vtable without `verify` | calls SHA-256 of OpenSSL, which may fail |
| HMAC_DRBG, `drbgs/hmac_drbg.c`, `algorithms/hmac_drbg_update.c`, `crypto/crypto_hmac.c` | `K`, `V`, `reseed_counter`; `seed_material`, `input` on the heap; `working_K`, `working_V`, `new_K` | the vtable without `verify` | calls HMAC-SHA-256 of OpenSSL, which may fail |
| Hash arithmetic, `algorithms/hash_math.c` | the byte array of the caller | increment, add bytes, add a 64-bit integer | called by Hash_DRBG |
| CTR_DRBG building blocks, `algorithms/ctr_drbg_*.c`, `algorithms/block_cipher_df.c`, `crypto/crypto_aes.c` | key and V of the caller | counter increment, update, BCC, derivation function | only unit tests call them; there is no CTR mechanism and no registry entry |
| Dummy mechanism, `drbgs/dummy.c` | a byte counter | the whole vtable, `verify` included | used to test the benchmark |
| Benchmark, `src/benchmark.c` | context and output buffer, requests since the last reseed, timing aggregates | `benchmark_run`, `benchmark_reseed` | drives one mechanism; asks the entropy source; writes the output file and a CSV row |
| Command line, `src/cli.c` | the configuration being filled | `cli_parse_arguments`, `parse_size` | called by `main` |
| Main and CSV, `src/main.c`, `src/csv.c` | the CSV file | header, run, row, exit code | calls everything above |
| Entropy source, `src/entropy.c` | none | read entropy, read seed material | wraps the system generator, which may fail |
| Registry, utilities, timer, logger | none | lookup, `secure_zero`, clock, file output | |
| NIST runners, `tests/nist_rsp_runner.c`, `tests/nist_hmac_rsp_runner.c` | the fields of the current test case, totals | parse a line, execute a case | call the mechanisms |

What makes each component correct, and what is hard about it:

* **Mechanisms**: a call is all or nothing, for the context and for the output;
  the counter is exact; the reseed limit is kept; no two requests of one
  seeding are served from the same state; nothing secret is left behind. Hard
  because a failure can come between any two steps, because `hash_instantiate`
  works in place while everything else works on copies, and because the order
  of legal calls is free (reseed before instantiate, generate on an erased
  context).
* **Hash arithmetic**: the loops compute the modular sum. Hard at the carries.
* **Benchmark**: never more than `reseed_interval` requests on one seed,
  `uninstantiate` exactly once, the context erased before it is freed on every
  path, a CSV row only for a run that succeeded, min <= average <= max, the
  dummy's verification never fails by itself. Hard because of the single
  cleanup label and of a wall clock that can be stepped.
* **CTR blocks**: key and V change together or not at all; the output is
  written only when every encryption succeeded; what `block_cipher_df` accepts,
  `ctr_drbg_bcc` accepts too; no chaining value or derived key is left behind.
  Hard because of three nested loops, and of lengths next to `SIZE_MAX`.
* **Command line**: exactly the lines of the grammar are accepted, in any order
  of the options, and what is accepted is what was asked for. Hard because one
  option takes the next argument, and because sizes are multiplied unchecked.
* **Main and CSV**: the exit code and the log tell the same story. Hard because
  the log is emptied before the run can fail, and is left over by earlier runs.
* **NIST runners**: a case is judged by its own fields under the settings of its
  own section; a case that is cut off or malformed makes the run fail; nothing of
  a case outlives it. Hard because the input decides the order of everything.

The hazards, each with its line and the properties that watch it, are listed in
`PROJECT.json`.

## Modules

    DrbgInterface          calls and replies of include/drbg.h
      DrbgBuffers          byte buffers: copying digests, erasing the output
        HashDrbg           Hash_DRBG (with HashMath)
          HashDrbgRefinement   ... implements DrbgMechanism
            HashDrbgMC         ... small instance
          HashDrbgProofs       ... theorems (with BufferLemmas)
        HmacDrbg           HMAC_DRBG
          HmacDrbgRefinement, HmacDrbgMC, HmacDrbgProofs   likewise
        BufferLemmas       lemmas about DrbgBuffers
      DrbgMechanism        what a mechanism promises its caller
        Benchmark          benchmark_run over any mechanism that keeps the promise
          BenchmarkMC          ... over an abstract mechanism that may fail
          DummyBenchmarkMC     ... over the dummy mechanism (with Dummy)
          BenchmarkProofs      ... theorems
    HashMath               hash_math.c in closed form
      HashMathLoop         hash_math.c loop by loop
        HashMathLoopMC, HashMathProofs
    CtrBlocks              bytes, counter and padded input of the CTR_DRBG blocks
      CtrPromise           update, BCC and derivation as atomic calls
      CtrPrimitives        the three functions step by step
        CtrPrimitivesMC, CtrProofs
    Program                command line, main and CSV log around a benchmark run
      ProgramMC, ProgramProofs
    RspRunner              the NIST response-file runner
      RspRunnerMC, RspRunnerProofs

### The mechanisms

`HashDrbg` and `HmacDrbg` follow one scheme. `ctx` is the caller's context,
`output` the caller's buffer with two bytes after the largest request, `call`
the arguments of the call under way. A **step is the code from one point of
possible failure to the next**, and `pc` names the point: in `HashDrbg`
`df_alloc` (the `malloc` of `hash_df`), `df_round` (one digest of `hash_df`),
`df_done`, `blend` (the digest over the additional input), `hashgen` (one
digest of the output), `advance` (the digest over 0x03 || V); in `HmacDrbg`
`upd_alloc`, `upd_K`, `upd_V` (the three points of `update_round`), `blocks`
(one block of output) and `commit`. Each point has a succeeding and a failing
step, the failing step taking the code's cleanup path. Everything in the code
that runs between two points without a choice is one step with it, so the
actions are those of the program and not of its statements.

| Code | HashDrbg | HmacDrbg |
|---|---|---|
| early returns | `InstantiateRejected`, `ReseedRejected`, `GenerateRejected`, `GenerateUnprepared` | `SeedingRejected`, `GenerateRejected`, `GenerateTooLong` |
| up to the first point | `InstantiateBegins`, `ReseedBegins`, `GenerateBegins` | the same names |
| derivation | `DfAlloc`, `DfRound`, `SeedDerived` | `UpdAlloc`, `UpdKey`, `UpdValue` |
| output | `GenerateBlend`, `HashgenRound` | `GenerateBlock` |
| commit and cleanup | `InstantiateSucceeds`, `ReseedSucceeds`, `GenerateSucceeds` | `SeedingSucceeds`, `GenerateSucceeds` |
| failure and cleanup | `DfAllocFails`, `DfRoundFails`, `GenerateFails` | `UpdAllocFails`, `MacFails` |
| erase | `Uninstantiate` | `Uninstantiate` |

The hash and the MAC are constant operators, so the model and everything
proved hold for any function in their place. Sizes, the reseed interval and
the set of calls are constants. `seed`, `requests`, `served` and
`before` are history variables: they record, and no guard reads them.

A definition whose name ends in `_Bug` is a plausible mistake in the definition
that follows it (a test forgotten, an off-by-one, a field not committed). No
specification uses it; it documents what a property is able to tell apart.

`DrbgMechanism` is the abstract specification: each call is one atomic step
that succeeds with the mechanism's transition or fails and changes nothing,
with one exception, an instantiation of Hash_DRBG that fails under way (`Torn`
says exactly which states it may leave; for HMAC_DRBG it leaves none). The two
refinement modules give the closed forms of the transitions (`HashDf`,
`Hashgen`, `Update`, `Blocks`) and the mapping: while a call is under way the
abstract state is the one the call found.

### Hash arithmetic

`HashMath` has `hash_math_increment`, `hash_math_add_bytes` and
`hash_math_add_u64` as functions of byte strings; `HashDrbg` uses them.
`HashMathLoop` runs the loops of the code one iteration a step, keeps as history
the numbers of the bytes passed so far, and relates loops, closed forms and
numbers.

### The benchmark

`Benchmark` is one call of `benchmark_run`. It does not know Hash_DRBG or
HMAC_DRBG: it instantiates `DrbgMechanism`, and its steps conjoin a call of that
mechanism with what the benchmark does with the answer. This is the composition:
the mechanisms are shown to keep the promise, and the benchmark is checked over
the promise. Its constants are the mechanism's transition, the descriptors
(`max_request_size`, and whether `reseed` and `verify` are there), the
configurations, and what the clock may measure.

| Code of `src/benchmark.c` | Action |
|---|---|
| argument checks | `Rejected` |
| `malloc` of context and buffer | `AllocContext`, `AllocBuffer` |
| `entropy_get_seed_material` | `ReadEntropy`, `ReadNonce` |
| `instantiate` | `Instantiate` |
| `benchmark_reseed` | `ReseedEntropy`, `Reseed` |
| one request | `Generate` |
| end of a repetition, `verify` | `RepetitionPasses`, `RepetitionFails` |
| `uninstantiate`, throughput check | `Finish` |
| output file, CSV row | `Save`, `Report` |
| the label `cleanup` | `Cleanup` |

Every step that calls out may fail and then leaves through `Cleanup`. Freed memory
keeps its last contents in the model, so that one can ask whether it was erased.

`Dummy` gives the dummy mechanism in the form the constants ask for: it never
fails and has no reseed limit (the limit is set above the number of requests).

### The CTR_DRBG building blocks

`CtrPrimitives` has `ctr_drbg_update`, `ctr_drbg_bcc` and `block_cipher_df`, split
at AES blocks and `calloc` as the mechanisms are at their digests; the copies of
`ctr_drbg_counter_increment` and the padded string of `block_cipher_df` are
operators of `CtrBlocks`, with its size arithmetic modulo `SizeMax + 1`.
`ctr_drbg_bcc` is modelled once and entered from both its callers: `ByCaller`
says from which. The caller of the functions owns Key and V. AES and the
exclusive or are constant operators.

| Code | Actions |
|---|---|
| argument and length checks of all three | `Rejected` |
| `ctr_drbg_update` | `CallUpdate`, `UpdateBlock`, `UpdateEnd` |
| `ctr_drbg_bcc` | `CallBcc`, `BccBlock`, `BccReturns` |
| `block_cipher_df` | `CallDf`, `Alloc`, `RoundEnds`, `DfBlock`, `DfReturns` |

`CtrPromise` is the specification: CTR_DRBG_Update, BCC and Block_Cipher_df of SP
800-90A as one atomic step each, written from numbers and blocks and not from the
loops, with failures that change nothing.

### The program around the benchmark

`Program` is a sequence of runs of the executable over one CSV file. An argument is
a record of what the comparisons and `strtoull` see of it. `ReadGenerator`,
`ReadSize`, `ReadRepetitions`, `ReadFlag`, `ReadReseed`, `ReadOther` and `ReadAll` are
the blocks of `cli_parse_arguments` in its order, one option per step; `WriteHeader`
and `RunBenchmark` are what `main` does then; `Forget` is the end of the process.
Numbers keep their widths: `strtoull` negates modulo `UllRange` and saturates, a
size is multiplied and narrowed modulo `SizeRange`. Of `benchmark_run` the module
knows what `Benchmark` is shown to keep (`RowMeansSuccess`): success goes with
one appended row.

### The response-file runner

`RspRunner` is `tests/nist_rsp_runner.c`: `main`, `process_file`, `parse_config_line`,
`parse_case_field`, `validate_case` and `execute_case`. A file is a sequence of
lines, a line a record of what `trim`, `strchr` and the number parsers make of it.

| Code | Actions |
|---|---|
| `process_file`, open and lines | `Open`, `SkipLine`, `ReadMalformed`, `StopReading`, `ReadHeading`, `ReadSetting`, `ReadCount` |
| fields of a case | `SkipField`, `RefuseField`, `BadField`, `GoodField` |
| `execute_case` | `Validate`, `Alloc`, `CallSucceeds`, `CallFails`, `Compare`, `Cleanup` |
| verdict, end of file, exit code | `CountVerdict`, `EndOfFile`, `Exit` |

The mechanism under test is not in the model: a call may fail, and the output is
right when the calls made are those of the standard's test procedure for the
lines of the case (`Procedure`) and the case states the right bits.
`Procedure`, `OwnSingle`, `OwnList` and `OwnConfig` read the file backwards from the
case's last line, so they share no state with the code they judge.

## Checks

Each run finishes in about a minute or less.

| Run | Question | Instance |
|---|---|---|
| `hash_math_loop` | do the loops add, byte by byte (`PartialSum`), and do results, closed forms and numbers agree (`ReturnsSum`) | values of 3 bytes in base 3, all addends of 0 to 4 bytes, calls in sequence |
| `hash_calls`, `hmac_calls` | what any call leaves behind: context (`FailedCallKeepsState`), output (`OutputAllOrNothing`), heap and working values (`FreedAndErased`, `NothingLeftBehind`); is it the atomic call of `DrbgMechanism` (`KeepsPromise`) | every shape of call, every point of failure, sequences of calls |
| `hash_history`, `hmac_history` | long sequences on one context: is it what its seed and the served requests make of it (`ContextIsWalked`), `NoStreamReuse`, and for HMAC_DRBG `PastKeysGone` | 5 calls, interval 2, with failures at every point; 178015 and 217087 distinct states |
| `hash_returns` | does every call return, nearer with every step (`EveryCallReturns`; `hmac_calls` asks it too, within `KeepsPromise`) | every shape, 2 calls |
| `benchmark` | does one run do what was configured, clean up on every path and end (`Terminates`) | 360 configurations and descriptors, every point of failure, a clock that may stand still or step back |
| `benchmark_dummy` | does verification pass (`VerificationPasses`) | byte base 4, sizes 4 and 8, up to 4 repetitions, intervals 0 to 3 |
| `ctr_calls` | are the CTR blocks the standard's functions, each call nearer its end with every step (`KeepsPromise`), whole or not at all (`AllOrNothing`), without rejections half way (`RoundsAccepted`) and without leftovers (`NothingLeft`) | calls of all shapes, two deep, every point of failure |
| `program` | is a command line read as it is written (`ReadAsWritten`), do exit code and log agree (`ExitTellsLog`), does a run end (`RunsEnd`) | every command line of up to 6 arguments from a small vocabulary, any number of runs |
| `rsp_runner` | is the verdict on a case the one its lines deserve (`VerdictIsRight`), is any case lost (`NoCaseIsLost`), what outlives a case (`NothingOutlivesItsCase`), is a file read to its end (`FileAdvances`) | over 500 files of up to two cases, then a second file; every point of failure |

The properties in words:

* `FailedCallKeepsState`: a failed call leaves the context as it found it. The
  source asks for it ("Derive into temporary storage so the current DRBG state
  remains valid if an operation fails", `drbgs/hash_drbg.c`; "Failed reseeds must
  preserve V, C and reseed_counter", `tests/hash_drbg_boundary_test.c`).
  `hash_instantiate` is exempt except for its counter and its argument checks.
* `OutputAllOrNothing`: after a success exactly the requested bytes are written;
  after a failure they are all untouched or all zero; no byte past the request
  is ever written.
* `FreedAndErased` (Hash_DRBG): between calls nothing is allocated, and `new_V` and
  `new_C` of `hash_reseed`, `working_V` of `hash_generate` and `data` of `hashgen` are
  erased. It claims nothing of `hash_instantiate` and `hash_df`, which do leave secrets
  behind (see "Not modelled").
* `NothingLeftBehind` (HMAC_DRBG): between calls nothing is allocated, and
  `working_K`, `working_V`, `new_K` and the provided data are gone.
* `NoStreamReuse`: the inputs of the digests (Hash_DRBG) or MACs (HMAC_DRBG)
  behind any two requests of one seeding are disjoint. This depends on the
  function as much as on the code: the instance shows it for one function, and
  the mutants show that a successor state computed wrongly breaks it.
* `PastKeysGone`: no K that served a request is in the context afterwards.
* `KeepsPromise`: refinement of `DrbgMechanism`; of HMAC_DRBG together with
  `EveryCallReturns`.
* `ContextIsWalked`: a history of calls of every kind and outcome leads where a
  history of served requests alone leads. `Walks(seed, n)` are the states that n
  requests can reach from the seed, with what each of them hashed: they are
  computed from the closed forms and know of no failure, no refusal, no retry and
  no other context. V, C (or K and V) and `served` are always those of such a walk.
  One conjunct is `CounterTracksRequests`: `reseed_counter` is one more than the
  requests served since the seeding, and at most `ReseedInterval` are served. Of
  Hash_DRBG it implies `ConstantMatchesSeed`: C is `hash_df(0x00 || V)` of the V that
  was seeded.
* `EveryCallReturns`: liveness, in two conjuncts. `CallsAdvance`: every step of a call
  under way lowers `StepsLeft`, a number that bounds the steps the call can still
  take; this needs no fairness, and says of each loop what makes it end. And every
  call is followed by its return, so no call stops half way.

Of the benchmark:

* `SeedNotOverused`: by the mechanism's own counter, no seed serves more requests
  than `reseed_interval`. The benchmark counts for itself, across repetitions.
* `CallsAccepted`: the mechanism never answers `INVALID_ARGUMENT`, and
  `RESEED_REQUIRED` only if the configured interval is 0 or beyond its own limit.
* `CountsExact`: requests and reseeds in the report are those the configuration
  determines.
* `ErasedBeforeFree`: the cleanup, on every path.
* `UninstantiatedOnce`: `uninstantiate` is never called before `instantiate` has
  succeeded, nor twice; and a mechanism that was instantiated has been uninstantiated
  when the run ends. Whether it was is a history variable (`seeded`), set from the
  mechanism's own answer and not from the code's flag.
* `RowMeansSuccess`: success exactly if the row was appended.
* `RowIsConsistent`: minimum <= mean <= maximum, although the maximum starts at
  0 and the clock may step back.
* `SavedIsDelivered`: the saved file is the output of the last repetition.
* `VerificationPasses`: the dummy's counter carries over from one repetition to
  the next and is reset by a reseed, while `dummy_verify` expects it to start at
  zero. It does so because the command line takes whole KB, MB and GB only, and
  because the dummy has no request limit, so that a reseed falls between
  repetitions. Neither is checked by the code.
* `Terminates`: the run ends, and by `RunAdvances`, its first conjunct, every step of
  it lowers a bound on the steps left, counted from the bytes and repetitions still
  to come.

Of the CTR blocks:

* `KeepsPromise`: refinement of `CtrPromise`, with `EveryCallReturns`: every call is
  answered, and by `CallsAdvance` every step of it lowers a bound on the steps left,
  in each of the three nested loops.
* `AllOrNothing`: Key and V change only together, in the last step of a
  successful update; a failure of any function writes nothing to its output.
* `RoundsAccepted`: no call that `block_cipher_df` accepted is turned down by
  `ctr_drbg_bcc` later; the padded string is whole blocks, and every field
  written to it fits.
* `NothingLeft`: at every exit all locals are erased and the heap block was erased
  before `free`; between rounds no chaining value is left.

Of the program:

* `ReadAsWritten`: the parser accepts a line exactly when `WellFormed` holds, and
  its result is `Asked`: both are stated over the whole line (which positions are
  options, which are values, which of two flags comes last), not argument by
  argument. A size that fits is exact to the byte; a larger one wraps, as the code
  lets it.
* `ExitTellsLog`: success exactly with a log of header and own row and a size
  that is not zero; a rejected line leaves the log of earlier runs alone; any
  other failure leaves it alone or without a row.
* `RunsEnd`: every run ends, and by `RunAdvances`, its first conjunct, every step of it
  lowers a bound on the steps left, counted from the arguments still to be read.

Of the runner:

* `VerdictIsRight`: a case passes exactly if its own fields are complete under the
  settings of its own section and its bits are right. When memory or a call
  failed, it does not pass unless a parse error makes the run fail anyway.
* `NoCaseIsLost`: the runner exits in success only if every `COUNT` of a SHA-256
  section in every opened file was tested and passed; none is counted twice.
* `NothingOutlivesItsCase`: outside `execute_case` no context is allocated or
  instantiated; between files no field is held.
* `FileAdvances`: every step on an open file, a failing one too, lowers a bound on the
  steps that file still takes: no line is read twice.

### Bounds and why they are enough

* Digests have 2 bytes, seeds 3, requests at most 3, so that `hash_df`, `hashgen`
  and the block loop make one or two rounds and cut the last one short, as 55
  and 65536 bytes do with digests of 32. No loop carries information between
  rounds other than the block number and the chained value.
* Two-byte digests are taken from a polynomial fold modulo a prime.
  `hash_returns` uses a constant instead: control does not depend on digests.
* The calls cover each guard from both sides: NULL and zero-length buffers, the
  minimum length and one less, the maximum request and one more, lengths at the
  edge of `SizeMax`, with and without additional input.
* `ReseedInterval` 1 or 2 lets three or five calls reach the limit, be turned
  down there, and reseed.
* The benchmark makes up to 3 requests a repetition and 2 repetitions, with a
  limit of 3 requests in the mechanism and intervals on both sides of it; the
  last request of a repetition is shorter; a mechanism without a size limit is the
  dummy of `benchmark_dummy`. Generate times are taken from
  {-1, 0, 2}: a stepped clock, one too coarse, and a plain measurement.
* `MaxCalls` bounds the calls of a behaviour; the caller may stop at any time,
  hence `CHECK_DEADLOCK FALSE` in the runs of the mechanisms.
* `StaleBytes` stands for what uninitialised heap bytes may hold.
* CTR: bytes of 2 bits, blocks of 2 bytes and keys of 4, so that a seed is 3
  blocks as it is in the code, the counter carries from byte to byte and wraps,
  and `ctr_drbg_bcc` runs over strings of one to several blocks. `SizeMax` = 19
  makes each of the four length checks of `block_cipher_df` the first to turn some
  input down.
* Program: a `size_t` of 6 bits and an `unsigned long long` of 8 with a `Kilo` of 4,
  so that the products of all three units wrap for some number and fit for
  another, and one number saturates. Six arguments allow every pair of options
  with their values, repeated and in conflict. The number of runs is not
  bounded.
* Runner: settings that ask for and rule out additional input, with and without
  prediction resistance; a first case of twelve kinds before a second one, and
  each of twelve oddities between two cases, among them settings that ask for a
  personalization string or for more bits than `MAX_BYTES_PER_REQUEST`, which the
  second case has or lacks: enough, as nothing but fields, settings and counters
  crosses from one case to the next. The contents of the second file are few,
  because only counters cross from file to file. `Files` gives the possible
  contents of each file.

### Fairness

`WF_vars(Derivation \/ Generation)` in `HashDrbg`, the like in `HmacDrbg`: a call
that was made keeps executing. The code is sequential and never waits, so this
is no assumption about a scheduler. The same holds of `WF_vars(Next)` in
`Benchmark`, of `WF_vars(Steps)` in `CtrPrimitives`, where `Steps` are the steps
of a call under way, and of `Parse`, `WriteHeader` and `RunBenchmark` in `Program`,
which need not start another run. No fairness is put on callers, who need not
call, nor on failures, which need not happen.

## Proofs

All for every value of the constants: any hash, MAC or cipher, any sizes, any
set of calls, any number of calls. Assumed are only the named assumptions on
constants (sizes are naturals, seeds and digests not empty, the calls have the
shape of the interface, an uninitialised byte holds some value).

| Module | Theorem | States |
|---|---|---|
| `HashMathProofs` | `TypeCorrect`, `LoopInvariant` | `TypeOK`, `PartialSum` |
| | `AddBytesIsSum` | the closed form `AddBytes` adds modulo `ByteBase^Width` |
| | `SumIsReturned` | `ReturnsSum`: the loops return that sum, and are that closed form |
| `HashDrbgProofs` | `TypeCorrect` | `TypeOK` |
| | `FailuresKeepState` | `FailedCallKeepsState` |
| | `CallsCleanUp` | `FreedAndErased` |
| | `CounterIsExact` | `CounterTracksRequests`, a part of `ContextIsWalked` |
| | `ConstantIsDerived` | `ConstantMatchesSeed`, which `ContextIsWalked` implies |
| | `OutputIsWhole` | `OutputAllOrNothing` |
| | `PromiseIsKept` | `KeepsPromise`: `HashDrbg` implements `DrbgMechanism` |
| | `HistoryIsWalked` | `ContextIsWalked` |
| | `StreamsApart` | `NoStreamReuse` on every seed with `WalksApart` |
| | `EveryStepAdvances` | `CallsAdvance`, the first conjunct of `EveryCallReturns` |
| `HmacDrbgProofs` | `TypeCorrect`, `FailuresKeepState`, `CounterIsExact`, `OutputIsWhole` | the same properties of `HmacDrbg` |
| | `CallsCleanUp` | `NothingLeftBehind` |
| | `PromiseIsKept` | `HmacDrbg` implements `DrbgMechanism` |
| | `HistoryIsWalked`, `EveryStepAdvances` | `ContextIsWalked`, `CallsAdvance` |
| | `KeysNeverReturn`, `StreamsApart` | `PastKeysGone`, `NoStreamReuse` on every seed with `KeysApart` |
| `BenchmarkProofs` | `MemoryIsErased`, `LifetimeIsClosed`, `SeedIsNotOverused` | `ErasedBeforeFree`, `UninstantiatedOnce`, `SeedNotOverused` |
| | `RowIsForSuccess`, `RowsAreConsistent` | `RowMeansSuccess`, `RowIsConsistent` |
| | `CountsAreExact` | `CountsExact` |
| | `SavedOutput`, `CallsAreAccepted`, `VerificationOfDummy` | `SavedIsDelivered`, `CallsAccepted`, `VerificationPasses`, of a mechanism as below |
| | `EveryStepAdvances` | `RunAdvances`, the first conjunct of `Terminates` |
| `CtrProofs` | `TypeCorrect`, `RoundsAreAccepted`, `NothingIsLeft`, `CallsAreWhole` | `TypeOK`, `RoundsAccepted`, `NothingLeft`, `AllOrNothing` |
| | `PromiseIsKept` | `CtrPrimitives` implements `CtrPromise` |
| | `EveryStepAdvances` | `CallsAdvance` |
| `ProgramProofs` | `LinesAreRead`, `LogIsTold` | `ReadAsWritten`, `ExitTellsLog` |
| | `EveryStepAdvances` | `RunAdvances`, the first conjunct of `RunsEnd` |
| `RspRunnerProofs` | `EveryCaseCounts`, `CasesEndClean`, `VerdictsAreDeserved` | `NoCaseIsLost`, `NothingOutlivesItsCase`, `VerdictIsRight` |
| | `EveryStepAdvances` | `FileAdvances` |

The theorems about the benchmark hold for every mechanism of the shape of
`DrbgMechanism` whose failures are not called "SUCCESS". Three of them need to know
more, and say so as a hypothesis on the constants, for the property is about what
the mechanism returns:

* `StreamsAreWhole`, of `SavedOutput`: a generate streams as many bytes as it was
  asked for. `StreamIsWhole` of `HashDrbgProofs` and of `HmacDrbgProofs` and
  `DummyStreamsAreWhole` prove it of the three mechanisms.
* `FitsDescriptor`, of `CallsAreAccepted`: the mechanism takes the entropy source's
  material and every request up to its descriptor's limit. `DescriptorIsMet` of
  `HashDrbgProofs` and of `HmacDrbgProofs` proves it of the calls the benchmark makes,
  for seed material at least as long as the mechanism asks for (32 and 16 bytes,
  which is what `benchmark.c` reads).
* `RunsDummy`, of `VerificationOfDummy`: the mechanism is `Dummy`, and the sizes are
  whole multiples of the byte base, as the command line's are (units of KB).

They are not assumptions of the module because they quantify over all numbers or
all states, which TLC cannot enumerate. The instances that it checks satisfy them.

Reuse and old keys depend on the function as well as on the code. The theorems
separate the two. `WalksApart(seed)` (Hash_DRBG) and `KeysApart(seed)` (HMAC_DRBG) speak
of the function only: along every walk of at most `ReseedInterval` served requests
from this seed no block is hashed twice, or no key comes back. Neither mentions a
failure, a retry, a refused call, a reseed or the code's working copies. Given
them, the theorems say that no behaviour of the code, with all of these in any
order, reuses a block or keeps an old key: the code adds no collision of its own.
The hypotheses can be met: of the seeds that occur in the run `hash_history` all 926
satisfy `WalksApart`, in `hmac_history` 632 of 647 satisfy `KeysApart` (a MAC of two
bytes leaves 15 seeds whose keys come round).

The refinement theorems of HMAC_DRBG and CTR_DRBG state the refinement in
`KeepsPromise`, and `EveryStepAdvances` states `CallsAdvance`; what `KeepsPromise` says
beyond the two is a liveness property, which TLC checks. Hash_DRBG's `KeepsPromise`
has no such part.

### Invariants

The properties speak of the idle program and are not inductive: each proof adds
what holds while a call is under way.

* `Walked`: `ContextIsWalked` also while a call is under way, for a request that
  commits must find the walk of the requests before it. The proofs take from
  `Streamed` and `Traced` what the request hashed, from `Counted` which step of the
  walk it is, and from `Matched` that a reseed derives V and C from one seed. For
  HMAC_DRBG `FromKept` says that `gen.from`, which becomes history, is the state the
  blocks started from.
* `ContextKept`: during a call the context is the one the call found, except
  that an instantiation of Hash_DRBG has touched V and C, and not the counter.
* `Held`: each control location determines which buffers are allocated and
  which frames are in use.
* `Counted`: during a generate the counter is still at most the interval, as
  its guard found it.
* `Matched`: the loop invariant of `hash_df`, that the digests copied so far are
  those of `HashDf`, and that C is derived from the V next to it.
* `Streamed`: the loop invariant of `hashgen`. Before block b the counter `data` is
  the working V plus b - 1, and the output holds the bytes of the blocks before b
  and nothing else; the working V is the one a call with this input must use.
* `Seeding` (Hash_DRBG): what a derivation under way is fed is the seed material of
  the call's own arguments, with the prefix of its stage; without it a refinement
  step could derive from something else than the call was given.
* `Traced` (HMAC_DRBG): K and V at each round of `update` and each block of
  `hmac_generate` are those of the closed forms `Update` and `Chain` at that point.
* `MemoryInv`, `LifetimeInv`, `SeedInv`, `StatusInv`: what each control location of
  the benchmark says of heap, mechanism, the two request counters (which run in
  step while the mechanism serves) and status.
* `AggregatesInv`: after n repetitions the total lies between n times the
  extremes.
* `CountsInv`: requests made are those of the whole repetitions and of the bytes
  produced in this one, and the lazy reseeds are spaced one interval apart.
  `SaveInv`: `delivered` is a prefix of the buffer, as long as what was produced.
  `CallsInv`: every call is made with material that was read for it. `DummyInv`: the
  dummy's counter stands at zero before each request.
* `Shape` of `CtrProofs`: the types, what remains of a string at each offset, and
  that the allocation holds what `block_cipher_df` computed, for which lemmas about
  remainders (`PaddingFills`, `MultiplesApart`, `AcceptedLength`) show that the
  padding ends on a block and the checked sums did not wrap. `Confined`: which
  locals may hold data at each control location.
* `Working` of `CtrProofs`: what each loop has computed. `UpdateLoop`: after n blocks
  `working_v` is the string of V's number plus n, and `temp` starts with n blocks of
  the key stream. `BccLoop`: the chaining value is that of the standard's chain at
  the offset. `RoundsLoop`: `bcc_input` is the string of this round and `temp` holds
  the outputs of the rounds before it. `ResultLoop`: the same of the last loop. Its
  lemmas say what the code does to bytes: `IncrementCounts` (the carry loop of
  `ctr_drbg_increment` adds one, modulo the counter's range), `StringIsPadded` (the
  field-by-field writes are the standard's padded string, as short as it can be),
  `ChecksAreExact` (the checks on a length, made in an order that never wraps, turn
  down the lengths that do not fit and no other).
* `LineInv` of `ProgramProofs`: what has been read of the line is well-formed, with
  `OptionsRead` as the invariant of the option loop: the flags are those of the
  arguments passed, the interval that of the last `--reseed`. Lemmas about products
  modulo two ranges (`Product`, `Nested`) show that multiplying and narrowing step
  by step is the product narrowed once. `LogInv`: the log at each control
  location.
* `Counted` of `RspRunnerProofs`: up to the first error, cases tested plus the one
  that is being collected are the `COUNT` lines of SHA-256 sections above the line;
  and the configuration knows the section the line stands in (`InStep`). An error
  anywhere makes the run fail, so that success means there was none.
* `Judged` of `RspRunnerProofs`: what the code knows of a line is what a reader of the
  file would say of it. `Configured`: the configuration is that of the settings above
  the line, back to the heading. `Gathered`: the case holds the fields of its own
  lines, or memory failed and an error counts. `Executed`: the calls made and those to
  come are the calls of the case, and what is decided of it so far. `CallsFollowProcedure`
  shows that these are the calls of the standard's test procedure.
* For the measures (`EveryStepAdvances`): `InRounds` (Hash_DRBG: a round of `hash_df` is
  within the result), `ArgInv` (Program: the parser is within the line), `FewCalls`
  (runner: at most the five calls of a case are left), and otherwise the loop
  invariants above, which say where each loop stands.
* `CarryIsBit`, with `PartialSum`: the loop invariant of `hash_math_add_bytes`.
  `ClosedForms`: the bytes written so far are those of `AddBytes`, the carry is the
  one it defines.

### Recursion and induction

The library's induction principles take an operator as a parameter, which the
provers cannot instantiate. `SetInduction` states induction for a set of numbers
instead, and follows from the well-foundedness of `<`. With it `RecursionExists` shows
that a recursive definition has a function that unfolds as it says, which the
proofs need before they can use `Chain`, `BccOf`, `ToNumber`, `Power` and the like:
such a definition is a `CHOOSE`. Powers are recursive functions (`Power` of `CtrBlocks`,
`NumbersIn` of `HashMathLoop`) because the provers know nothing of `^`.

`HonestLength` of `CtrPrimitives` says that the length given to `block_cipher_df` is that of
the data, unless the call is turned down before the data is read: C cannot check
it, and the refinement would be false without it.

### Only model-checked

* `NoStreamReuse` and `PastKeysGone` where the hypothesis on the function is not made,
  and of a context that was never seeded: the code serves requests from a zeroed
  context too, and there the two are checked for the functions of the instances.
* `Terminates`, `RunsEnd`, `EveryCallReturns` and the liveness part of `KeepsPromise`:
  fairness and `ENABLED` are beyond the provers. Their conjuncts `CallsAdvance` and
  `RunAdvances` are proved, and so is `FileAdvances`: no call, run or file can take
  steps for ever. What is left to TLC is that it does not stop in the middle, with
  no step enabled.

## Not modelled

* `secure_zero` of stack copies that are dead afterwards (`w`, `H`, `h_input`,
  `c_input`, digests) and the contents of freed memory. The code itself does not
  erase all of them: `hash_instantiate` leaves `c_input`, which holds V, and frees
  `seed_material` as it is; `hash_df` leaves its `digest` and frees `hash_input` as it
  is, also when `hash_reseed` calls it. `FreedAndErased` does not speak of these.
* The checks inside the helpers that no caller can fail (NULL arrays, zero
  lengths, `offset != seed_material_len`).
* `hash_instantiate` with lengths whose sum wraps `SIZE_MAX`, and `hmac_reseed`
  with seed material longer than `update_round` takes: no `malloc` of that size
  succeeds, or no caller passes it.
* Of the benchmark: the times of instantiate, reseed and cleanup and the
  throughputs, which nothing depends on; a CSV row or header that `fprintf` could
  not write, which the code does not notice either.
* A CTR_DRBG mechanism: the repository has none, only its building blocks.
* `fprintf` and `fclose` failures of the CSV log, which the program does not observe.
  `entropy_initialize` and `entropy_shutdown` only log, so the branches of `main` on
  their status are dead. `parse_size` compares the character after a missing suffix
  too, which decides nothing.
* `tests/nist_hmac_rsp_runner.c` on its own: it is `nist_rsp_runner.c` with the other
  mechanism's names.
* Logger and clock formatting; unit and known-answer tests, which are straight-line
  code and were read as documentation; build files and vectors.

## Plan

Everything in `src/` that keeps state or decides something is modelled. Every
invariant and every action property that a run checks is stated by a theorem, the
reuse properties under a hypothesis on the hash or MAC alone, and the refinements
are proved. What is left to extend is liveness, which stays with TLC, under wider
bounds, and the modules as the code changes.
