--------------------------- MODULE BenchmarkProofs ---------------------------
(***************************************************************************)
(* Proofs about Benchmark, for every mechanism that keeps the promise of   *)
(* DrbgMechanism, every configuration and every clock.                     *)
(***************************************************************************)
EXTENDS Benchmark, Dummy, SequenceTheorems, TLAPS

-----------------------------------------------------------------------------
(* What the calls of the mechanism leave in its reply and its counter.     *)

LEMMA InstantiateEffect ==
    ASSUME Instantiate
    PROVE  /\ reply'.op = "instantiate"
           /\ reply'.status = "SUCCESS" => reseed_counter' = 1
<1> DEFINE c == InstantiateCallOf(seed)
<1>1. c.op = "instantiate" BY DEF InstantiateCallOf
<1>2. Mechanism!Instantiate(c) BY DEF Instantiate
<1> HIDE DEF c
<1> QED
  BY <1>1, <1>2, BenchmarkAssumption
  DEF Mechanism!Instantiate, Mechanism!Fails, Mechanism!Reply

LEMMA ReseedEffect ==
    ASSUME Reseed
    PROVE  /\ reply'.op = "reseed"
           /\ reseed_counter' = IF reply'.status = "SUCCESS" THEN 1
                                                            ELSE reseed_counter
<1> DEFINE c == ReseedCallOf(fresh)
<1>1. c.op = "reseed" BY DEF ReseedCallOf
<1>2. Mechanism!Reseed(c) BY DEF Reseed
<1> HIDE DEF c
<1> QED
  BY <1>1, <1>2, BenchmarkAssumption
  DEF Mechanism!Reseed, Mechanism!Fails, Mechanism!Reply

LEMMA GenerateEffect ==
    ASSUME Generate
    PROVE  /\ reply'.op = "generate"
           /\ reseed_counter' = IF reply'.status = "SUCCESS"
                                THEN reseed_counter + 1 ELSE reseed_counter
<1> DEFINE c == GenerateCallOf(RequestSize)
<1>1. c.op = "generate" BY DEF GenerateCallOf
<1>2. Mechanism!Generate(c) BY DEF Generate
<1> HIDE DEF c
<1> QED
  BY <1>1, <1>2, BenchmarkAssumption
  DEF Mechanism!Generate, Mechanism!Fails, Mechanism!Reply

LEMMA UninstantiateEffect ==
    ASSUME CallUninstantiate
    PROVE  /\ reply'.op = "uninstantiate"
           /\ state' = Zeroed /\ reseed_counter' = 0
BY DEF CallUninstantiate, Mechanism!Uninstantiate, Mechanism!Reply

-----------------------------------------------------------------------------
(* Memory.                                                                 *)

(* Whatever has a state of the mechanism has a context; seed material is   *)
(* on the stack only between its reading and its use.                      *)
MemoryInv ==
    /\ pc \notin {"start", "cleanup", "done"} => "ctx" \in heap
    /\ "ctx" \notin heap => state = Zeroed /\ reseed_counter = 0
    /\ pc = "start" => heap = {} /\ seed = NoSeed /\ buffer = <<>>
    /\ pc # "reseed" => fresh = <<>>
    /\ ErasedBeforeFree

LEMMA MemoryInit == Init => MemoryInv
BY DEF Init, Mechanism!Init, MemoryInv, ErasedBeforeFree

LEMMA MemoryStep == MemoryInv /\ [Next]_vars => MemoryInv'
<1> SUFFICES ASSUME MemoryInv, [Next]_vars PROVE MemoryInv' OBVIOUS
<1> USE DEF MemoryInv, ErasedBeforeFree, Goto, Leave, mechanism, memory
<1>1. CASE Rejected BY <1>1 DEF Rejected
<1>2. CASE AllocContext \/ AllocBuffer \/ ReadEntropy \/ ReadNonce
  BY <1>2 DEF AllocContext, AllocBuffer, ReadEntropy, ReadNonce
<1>3. CASE Instantiate BY <1>3 DEF Instantiate
<1>4. CASE ReseedEntropy BY <1>4 DEF ReseedEntropy, Requesting
<1>5. CASE Reseed BY <1>5 DEF Reseed, ReseedSucceeds, ReseedFails
<1>6. CASE Generate BY <1>6 DEF Generate, Requesting
<1>7. CASE RepetitionPasses \/ RepetitionFails
  BY <1>7 DEF RepetitionPasses, RepetitionFails
<1>8. CASE Finish BY <1>8, UninstantiateEffect DEF Finish
<1>9. CASE Save \/ Report
  BY <1>9 DEF Save, SaveSucceeds, SaveFails, Report, ReportFails
<1>10. CASE Cleanup
  <2>1. state' = Zeroed /\ reseed_counter' = 0
    BY <1>10, UninstantiateEffect DEF Cleanup, ErasedContext
  <2> QED BY <1>10, <2>1 DEF Cleanup
<1>11. CASE UNCHANGED vars BY <1>11 DEF vars
<1> QED
  BY <1>1, <1>2, <1>3, <1>4, <1>5, <1>6, <1>7, <1>8, <1>9, <1>10, <1>11
  DEF Next, Done

(* On every path, the context, the output and the seed material are erased *)
(* and all memory is free when benchmark_run returns.                      *)
THEOREM MemoryIsErased == Spec => []ErasedBeforeFree
<1>1. MemoryInv => ErasedBeforeFree BY DEF MemoryInv
<1> QED BY MemoryInit, MemoryStep, <1>1, PTL DEF Spec

-----------------------------------------------------------------------------
(* The lifetime of the mechanism.                                          *)

BeforeSeeding == {"start", "alloc_buffer", "entropy", "nonce", "instantiate"}
Serving       == {"request", "reseed", "reseeded", "finish"}

LifetimeInv ==
    /\ pc \in BeforeSeeding \cup Serving \cup {"save", "report", "cleanup", "done"}
    /\ pc \in BeforeSeeding => ~seeded
    /\ pc \in Serving => instantiated
    /\ pc # "done" => uninstantiations = IF seeded /\ ~instantiated THEN 1 ELSE 0
    /\ pc # "done" /\ instantiated => seeded
    /\ UninstantiatedOnce

LEMMA LifetimeInit == Init => LifetimeInv
BY DEF Init, Mechanism!Init, Mechanism!NoReply, Mechanism!Reply, LifetimeInv,
       UninstantiatedOnce, BeforeSeeding, Serving

LEMMA LifetimeStep == LifetimeInv /\ [Next]_vars => LifetimeInv'
<1> SUFFICES ASSUME LifetimeInv, [Next]_vars PROVE LifetimeInv' OBVIOUS
<1> USE DEF LifetimeInv, UninstantiatedOnce, BeforeSeeding, Serving, Goto, Leave,
            history, lifetime
<1>1. CASE Rejected BY <1>1 DEF Rejected
<1>2. CASE AllocContext \/ AllocBuffer \/ ReadEntropy \/ ReadNonce
  BY <1>2 DEF AllocContext, AllocBuffer, ReadEntropy, ReadNonce
<1>3. CASE Instantiate
  <2>1. /\ pc = "instantiate" /\ uninstantiations' = uninstantiations
        /\ \/ reply'.status = "SUCCESS" /\ instantiated' /\ pc' = "request"
           \/ ~(reply'.status = "SUCCESS") /\ instantiated' = instantiated
              /\ pc' = "cleanup"
    BY <1>3 DEF Instantiate
  <2>2. seeded' <=> reply'.status = "SUCCESS" BY <1>3 DEF Instantiate
  <2>3. ~seeded /\ ~instantiated /\ uninstantiations = 0 BY <2>1
  <2> QED BY <2>1, <2>2, <2>3
<1>4. CASE ReseedEntropy BY <1>4 DEF ReseedEntropy, Requesting
<1>5. CASE Reseed BY <1>5 DEF Reseed, ReseedSucceeds, ReseedFails
<1>6. CASE Generate BY <1>6 DEF Generate, Requesting
<1>7. CASE RepetitionPasses \/ RepetitionFails
  BY <1>7 DEF RepetitionPasses, RepetitionFails
<1>8. CASE Finish
  BY <1>8 DEF Finish, CallUninstantiate, AfterUninstantiate
<1>9. CASE Save \/ Report
  BY <1>9 DEF Save, SaveSucceeds, SaveFails, Report, ReportFails
<1>10. CASE Cleanup
  <2>1. /\ pc = "cleanup" /\ pc' = "done" /\ seeded' = seeded
        /\ \/ instantiated /\ uninstantiations' = uninstantiations + 1
           \/ ~instantiated /\ uninstantiations' = uninstantiations
    BY <1>10 DEF Cleanup, CallUninstantiate, MustUninstantiate
  <2> QED BY <2>1
<1>11. CASE UNCHANGED vars BY <1>11 DEF vars
<1> QED
  BY <1>1, <1>2, <1>3, <1>4, <1>5, <1>6, <1>7, <1>8, <1>9, <1>10, <1>11
  DEF Next, Done

(* uninstantiate is called only after instantiate has succeeded and only   *)
(* once, and has been called when such a run ends, whether it reached its  *)
(* end or left through cleanup.                                            *)
THEOREM LifetimeIsClosed == Spec => []UninstantiatedOnce
<1>1. LifetimeInv => UninstantiatedOnce BY DEF LifetimeInv
<1> QED BY LifetimeInit, LifetimeStep, <1>1, PTL DEF Spec

-----------------------------------------------------------------------------
(* The reseed interval.                                                    *)

(* The benchmark's count and the mechanism's counter run in step, and the  *)
(* benchmark's count stops at the interval.                                *)
SeedInv ==
    /\ config \in Config
    /\ requests_since_reseed \in Nat
    /\ pc \in BeforeSeeding => requests_since_reseed = 0 /\ ~instantiated
    /\ pc = "reseeded" => requests_since_reseed = 0
    /\ pc \in Serving => reseed_counter = requests_since_reseed + 1
    /\ config.reseed_interval > 0
           => requests_since_reseed <= config.reseed_interval
    /\ SeedNotOverused

LEMMA SeedInit == Init => SeedInv
BY BenchmarkAssumption
DEF Init, Config, SeedInv, SeedNotOverused, BeforeSeeding, Serving

LEMMA SeedStep == SeedInv /\ [Next]_vars => SeedInv'
<1> SUFFICES ASSUME SeedInv, [Next]_vars PROVE SeedInv' OBVIOUS
<1> USE DEF SeedInv, SeedNotOverused, BeforeSeeding, Serving, Goto, Leave,
            Config, arguments, mechanism, loop
<1>1. CASE Rejected BY <1>1 DEF Rejected
<1>2. CASE AllocContext \/ AllocBuffer \/ ReadEntropy \/ ReadNonce
  BY <1>2 DEF AllocContext, AllocBuffer, ReadEntropy, ReadNonce
<1>3. CASE Instantiate
  <2>1. /\ requests_since_reseed' = 0 /\ UNCHANGED config
        /\ config.reseed_interval \in Nat
    BY <1>3 DEF Instantiate
  <2>2. CASE reply'.status = "SUCCESS"
    <3>1. pc' = "request" /\ reseed_counter' = 1
      BY <1>3, <2>2, InstantiateEffect DEF Instantiate
    <3> QED BY <2>1, <3>1
  <2>3. CASE reply'.status # "SUCCESS"
    <3>1. pc' = "cleanup" /\ ~instantiated'
      BY <1>3, <2>3 DEF Instantiate
    <3> QED BY <2>1, <3>1
  <2> QED BY <2>2, <2>3
<1>4. CASE ReseedEntropy BY <1>4 DEF ReseedEntropy, Requesting
<1>5. CASE Reseed
  BY <1>5, ReseedEffect DEF Reseed, ReseedSucceeds, ReseedFails
<1>6. CASE Generate
  <2>1. config.reseed_interval > 0
            => requests_since_reseed < config.reseed_interval
    BY <1>6 DEF Generate, ReseedDue
  <2>2. pc \in Serving BY <1>6 DEF Generate, Requesting
  <2> QED BY <1>6, <2>1, <2>2, GenerateEffect DEF Generate
<1>7. CASE RepetitionPasses \/ RepetitionFails
  BY <1>7 DEF RepetitionPasses, RepetitionFails
<1>8. CASE Finish BY <1>8, UninstantiateEffect DEF Finish, AfterUninstantiate
<1>9. CASE Save \/ Report
  BY <1>9 DEF Save, SaveSucceeds, SaveFails, Report, ReportFails
<1>10. CASE Cleanup
  <2>1. reseed_counter' = 0 BY <1>10, UninstantiateEffect DEF Cleanup
  <2> QED BY <1>10, <2>1 DEF Cleanup
<1>11. CASE UNCHANGED vars BY <1>11 DEF vars
<1> QED
  BY <1>1, <1>2, <1>3, <1>4, <1>5, <1>6, <1>7, <1>8, <1>9, <1>10, <1>11
  DEF Next, Done

(* No seed serves more requests than the configured interval, by the       *)
(* mechanism's own count, across repetitions and reseeds.                  *)
THEOREM SeedIsNotOverused == Spec => []SeedNotOverused
<1>1. SeedInv => SeedNotOverused BY DEF SeedInv
<1> QED BY SeedInit, SeedStep, <1>1, PTL DEF Spec

-----------------------------------------------------------------------------
(* The status and the row.                                                 *)

(* Until cleanup no failure has happened and nothing was reported.         *)
StatusInv ==
    /\ pc \notin {"cleanup", "done"} => status = "SUCCESS" /\ rows = <<>>
    /\ pc \in {"cleanup", "done"} => (status = "SUCCESS" <=> Len(rows) = 1)

LEMMA StatusInit == Init => StatusInv
BY DEF Init, StatusInv

LEMMA StatusStep == StatusInv /\ [Next]_vars => StatusInv'
<1> SUFFICES ASSUME StatusInv, [Next]_vars PROVE StatusInv' OBVIOUS
<1>1. Len(<<>>) # 1 OBVIOUS
<1>2. \A r : Len(Append(<<>>, r)) = 1 OBVIOUS
<1> USE DEF StatusInv, Goto, Leave, files
<1>3. CASE Rejected BY <1>3, <1>1 DEF Rejected
<1>4. CASE AllocContext \/ AllocBuffer \/ ReadEntropy \/ ReadNonce
  BY <1>4, <1>1 DEF AllocContext, AllocBuffer, ReadEntropy, ReadNonce
<1>5. CASE Instantiate BY <1>5, <1>1 DEF Instantiate
<1>6. CASE ReseedEntropy BY <1>6, <1>1 DEF ReseedEntropy, Requesting
<1>7. CASE Reseed BY <1>7, <1>1 DEF Reseed, ReseedSucceeds, ReseedFails
<1>8. CASE Generate BY <1>8, <1>1 DEF Generate, Requesting
<1>9. CASE RepetitionPasses \/ RepetitionFails
  BY <1>9, <1>1 DEF RepetitionPasses, RepetitionFails
<1>10. CASE Finish BY <1>10, <1>1 DEF Finish
<1>11. CASE Save BY <1>11, <1>1 DEF Save, SaveSucceeds, SaveFails
<1>12. CASE Report BY <1>12, <1>1, <1>2 DEF Report, ReportFails
<1>13. CASE Cleanup BY <1>13 DEF Cleanup
<1>14. CASE UNCHANGED vars BY <1>14 DEF vars
<1> QED
  BY <1>3, <1>4, <1>5, <1>6, <1>7, <1>8, <1>9, <1>10, <1>11, <1>12, <1>13, <1>14
  DEF Next, Done

(* A run ends in success exactly when its row is in the CSV file.          *)
THEOREM RowIsForSuccess == Spec => []RowMeansSuccess
<1>1. StatusInv => RowMeansSuccess BY DEF StatusInv, RowMeansSuccess
<1> QED BY StatusInit, StatusStep, <1>1, PTL DEF Spec

-----------------------------------------------------------------------------
(* The aggregates.                                                         *)

LEMMA ProductGrows ==
    ASSUME NEW a \in Int, NEW b \in Int, NEW k \in Nat, a <= b
    PROVE  a * k <= b * k
<1>1. (b - a) * k >= 0 OBVIOUS
<1>2. (b - a) * k = b * k - a * k OBVIOUS
<1> QED BY <1>1, <1>2

LEMMA ExtremesBound ==
    ASSUME NEW r \in [requests : Nat, reseeds : Nat, min : Int, max : Int],
           NEW t \in Int
    PROVE  LET e == Extremes(r, t)
           IN  /\ e \in [requests : Nat, reseeds : Nat, min : Int, max : Int]
               /\ e.min <= r.min /\ e.min <= t
               /\ e.max >= r.max /\ e.max >= t
<1> DEFINE low == Least(t, r.min)  high == Greatest(t, r.max)
           R == [requests : Nat, reseeds : Nat, min : Int, max : Int]
           e == Extremes(r, t)
<1>1. /\ low \in Int /\ low <= r.min /\ low <= t
      /\ high \in Int /\ high >= r.max /\ high >= t
  BY DEF Least, Greatest
<1>2. e = [r EXCEPT !.min = low, !.max = high] BY DEF Extremes
<1> HIDE DEF low, high, e
<1>3. e.min = low /\ e.max = high /\ e \in R BY <1>1, <1>2
<1>4. e \in R /\ e.min <= r.min /\ e.min <= t /\ e.max >= r.max /\ e.max >= t
  BY <1>1, <1>3
<1> QED BY <1>4 DEF e

(* After any number of repetitions the total lies between that many times  *)
(* the extremes.                                                           *)
Between(r, n, sum) == r.min * n <= sum /\ sum <= r.max * n

AggregatesInv ==
    /\ config \in Config
    /\ repetition \in Nat /\ time \in Int /\ total \in Int
    /\ result \in [requests : Nat, reseeds : Nat, min : Int, max : Int]
    /\ pc \notin {"finish", "save", "report", "cleanup", "done"}
           => repetition < config.repetitions \/ pc = "start"
    /\ pc = "start" => repetition = 0
    /\ pc \in {"finish", "save", "report"} => repetition = config.repetitions
    /\ pc \in {"save", "report"} => total > 0
    /\ pc \notin {"cleanup", "done"} => Between(result, repetition, total)
    /\ pc \notin {"cleanup", "done"} => rows = <<>>
    /\ RowIsConsistent

LEMMA AggregatesInit == Init => AggregatesInv
BY BenchmarkAssumption
DEF Init, AggregatesInv, Between, RowIsConsistent, Config

LEMMA RepetitionKeepsBetween ==
    ASSUME AggregatesInv, RepetitionPasses
    PROVE  /\ result' \in [requests : Nat, reseeds : Nat, min : Int, max : Int]
           /\ Between(result', repetition', total')
<1>1. /\ result' = Extremes(result, time)
      /\ repetition' = repetition + 1 /\ total' = total + time
      /\ pc = "request"
  BY DEF RepetitionPasses
<1>2. /\ result' \in [requests : Nat, reseeds : Nat, min : Int, max : Int]
      /\ result'.min <= result.min /\ result'.min <= time
      /\ result'.max >= result.max /\ result'.max >= time
  BY <1>1, ExtremesBound DEF AggregatesInv
<1> DEFINE low == result.min  high == result.max
           newLow == result'.min  newHigh == result'.max
<1>3. /\ low \in Int /\ high \in Int /\ newLow \in Int /\ newHigh \in Int
      /\ repetition \in Nat /\ time \in Int /\ total \in Int
      /\ newLow <= low /\ newLow <= time /\ high <= newHigh /\ time <= newHigh
  BY <1>2 DEF AggregatesInv
<1>4. low * repetition <= total /\ total <= high * repetition
  BY <1>1 DEF AggregatesInv, Between
<1> HIDE DEF low, high, newLow, newHigh
<1>5. newLow * repetition <= low * repetition BY <1>3, ProductGrows
<1>6. high * repetition <= newHigh * repetition BY <1>3, ProductGrows
<1>7. /\ newLow * (repetition + 1) = newLow * repetition + newLow
      /\ newHigh * (repetition + 1) = newHigh * repetition + newHigh
  BY <1>3
<1>8. /\ newLow * repetition \in Int /\ newHigh * repetition \in Int
      /\ low * repetition \in Int /\ high * repetition \in Int
  BY <1>3
<1>9. /\ newLow * (repetition + 1) <= total + time
      /\ total + time <= newHigh * (repetition + 1)
  BY <1>3, <1>4, <1>5, <1>6, <1>7, <1>8
<1> QED BY <1>1, <1>2, <1>9 DEF Between, newLow, newHigh

LEMMA AggregatesStep == AggregatesInv /\ [Next]_vars => AggregatesInv'
<1> SUFFICES ASSUME AggregatesInv, [Next]_vars PROVE AggregatesInv' OBVIOUS
<1> USE DEF AggregatesInv, RowIsConsistent, Config, Goto, Leave, arguments, loop,
            times, files
<1>1. CASE Rejected BY <1>1 DEF Rejected
<1>2. CASE AllocContext
  BY <1>2 DEF AllocContext, InvalidConfig, Between
<1>3. CASE AllocBuffer \/ ReadEntropy \/ ReadNonce
  BY <1>3 DEF AllocBuffer, ReadEntropy, ReadNonce
<1>4. CASE Instantiate BY <1>4 DEF Instantiate
<1>5. CASE ReseedEntropy BY <1>5 DEF ReseedEntropy, Requesting
<1>6. CASE Reseed
  <2>1. /\ result' \in [requests : Nat, reseeds : Nat, min : Int, max : Int]
        /\ result'.min = result.min /\ result'.max = result.max
    BY <1>6 DEF Reseed, ReseedSucceeds, ReseedFails
  <2> QED
    BY <1>6, <2>1 DEF Reseed, ReseedSucceeds, ReseedFails, Between
<1>7. CASE Generate
  <2>1. /\ result' \in [requests : Nat, reseeds : Nat, min : Int, max : Int]
        /\ result'.min = result.min /\ result'.max = result.max
    BY <1>7 DEF Generate
  <2>2. time' \in Int
    BY <1>7, BenchmarkAssumption DEF Generate
  <2>3. /\ UNCHANGED <<config, repetition, total, rows>>
        /\ pc' = "request" \/ pc' = "cleanup"
        /\ pc = "request" \/ pc = "reseeded"
    BY <1>7 DEF Generate, Requesting
  <2> QED BY <2>1, <2>2, <2>3 DEF Between
<1>8. CASE RepetitionPasses
  <2>1. /\ result' \in [requests : Nat, reseeds : Nat, min : Int, max : Int]
        /\ Between(result', repetition', total')
    BY <1>8, RepetitionKeepsBetween
  <2>2. /\ pc = "request" /\ UNCHANGED <<config, rows>>
        /\ total' = total + time /\ repetition' = repetition + 1
        /\ \/ pc' = "request" /\ time' = 0 /\ repetition' < config.repetitions
           \/ /\ pc' = "finish" /\ time' = time
              /\ repetition' >= config.repetitions
    BY <1>8 DEF RepetitionPasses
  <2>3. rows' = <<>> /\ RowIsConsistent' BY <2>2
  <2>4. config' \in Config /\ repetition < config.repetitions BY <2>2
  <2>5. config.repetitions \in Nat BY DEF Config
  <2> HIDE DEF RowIsConsistent, Config
  <2> QED BY <2>1, <2>2, <2>3, <2>4, <2>5
<1>9. CASE RepetitionFails BY <1>9 DEF RepetitionFails
<1>10. CASE Finish BY <1>10 DEF Finish
<1>11. CASE Save BY <1>11 DEF Save, SaveSucceeds, SaveFails
<1>12. CASE Report
  <2>9. /\ UNCHANGED <<config, repetition, time, total, result>>
        /\ pc = "report" /\ pc' = "cleanup"
    BY <1>12 DEF Report, ReportFails
  <2>1. CASE UNCHANGED rows BY <2>9, <2>1
  <2>2. CASE rows' = Append(rows, Row)
    <3>1. rows' = <<Row>> BY <2>9, <2>2
    <3>2. \A i \in DOMAIN rows' : rows'[i] = Row BY <3>1
    <3>3. Row.total = total /\ Row.result = result BY DEF Row
    <3>4. /\ total > 0
          /\ result.min * config.repetitions <= total
          /\ total <= result.max * config.repetitions
      BY <2>9 DEF Between
    <3>5. RowIsConsistent' BY <2>9, <3>2, <3>3, <3>4
    <3> QED BY <2>9, <3>5
  <2> QED BY <1>12, <2>1, <2>2 DEF Report, ReportFails
<1>13. CASE Cleanup BY <1>13 DEF Cleanup
<1>14. CASE UNCHANGED vars BY <1>14 DEF vars
<1> QED
  BY <1>1, <1>2, <1>3, <1>4, <1>5, <1>6, <1>7, <1>8, <1>9, <1>10, <1>11, <1>12,
     <1>13, <1>14
  DEF Next, Done

(* In every row the mean of the repetitions lies between their extremes,   *)
(* whatever the clock did.                                                 *)
THEOREM RowsAreConsistent == Spec => []RowIsConsistent
<1>1. AggregatesInv => RowIsConsistent BY DEF AggregatesInv
<1> QED BY AggregatesInit, AggregatesStep, <1>1, PTL DEF Spec

-----------------------------------------------------------------------------
(* The counts.                                                             *)

LEMMA ProductsOrder ==
    ASSUME NEW a \in Int, NEW b \in Int, NEW k \in Nat \ {0}
    PROVE  a <= b <=> a * k <= b * k
<1>1. a <= b => a * k <= b * k BY ProductGrows
<1>2. b + 1 <= a => (b + 1) * k <= a * k BY ProductGrows
<1>3. (b + 1) * k = b * k + k OBVIOUS
<1>4. a * k \in Int /\ b * k \in Int OBVIOUS
<1> QED BY <1>1, <1>2, <1>3, <1>4

LEMMA QuotientIs ==
    ASSUME NEW b \in Nat \ {0}, NEW k \in Int, NEW r \in 0 .. b - 1
    PROVE  (k * b + r) \div b = k
<1> DEFINE a == k * b + r
           q == a \div b
           s == a % b
<1>1. a \in Int OBVIOUS
<1>2. a = b * q + s /\ s \in 0 .. b - 1 /\ q \in Int BY <1>1
<1> HIDE DEF q, s
<1>3. q * b + s = k * b + r BY <1>2
<1>4. q <= k
  <2> SUFFICES ASSUME k + 1 <= q PROVE FALSE BY <1>2
  <2>1. (k + 1) * b <= q * b BY <1>2, ProductGrows
  <2>2. (k + 1) * b = k * b + b OBVIOUS
  <2>3. k * b \in Int /\ q * b \in Int BY <1>2
  <2> QED BY <1>2, <1>3, <2>1, <2>2, <2>3
<1>5. k <= q
  <2> SUFFICES ASSUME q + 1 <= k PROVE FALSE BY <1>2
  <2>1. (q + 1) * b <= k * b BY <1>2, ProductGrows
  <2>2. (q + 1) * b = q * b + b BY <1>2
  <2>3. k * b \in Int /\ q * b \in Int BY <1>2
  <2> QED BY <1>2, <1>3, <2>1, <2>2, <2>3
<1> QED BY <1>2, <1>4, <1>5 DEF q

(* A repetition of size bytes takes requests of limit bytes, a limit of    *)
(* zero being the size itself: one fewer would not do.                     *)
LEMMA RequestsCover ==
    ASSUME NEW size \in Nat \ {0}, NEW limit \in Nat
    PROVE  LET q == Requests(size, limit)
               l == IF limit = 0 THEN size ELSE limit
           IN  q \in Nat \ {0} /\ (q - 1) * l < size /\ size <= q * l
<1>1. CASE limit = 0 BY <1>1 DEF Requests
<1>2. CASE limit # 0
  <2> DEFINE a == size + limit - 1
             q == a \div limit
             r == a % limit
  <2>1. a \in Nat BY <1>2
  <2>2. a = limit * q + r /\ r \in 0 .. limit - 1 /\ q \in Int BY <1>2, <2>1
  <2> HIDE DEF q, r
  <2>3. (q - 1) * limit = q * limit - limit /\ q * limit \in Int BY <2>2
  <2>4. (q - 1) * limit < size /\ size <= q * limit BY <2>2, <2>3
  <2>5. q >= 1
    <3> SUFFICES ASSUME q <= 0 PROVE FALSE BY <2>2
    <3>1. q * limit <= 0 * limit BY <2>2, ProductGrows
    <3>2. 0 * limit = 0 OBVIOUS
    <3>3. size <= 0 BY <2>2, <2>3, <2>4, <3>1, <3>2
    <3> QED BY <3>3
  <2>6. Requests(size, limit) = q BY <1>2 DEF Requests, q
  <2> QED BY <1>2, <2>2, <2>4, <2>5, <2>6
<1> QED BY <1>1, <1>2

(* The bytes of a full request, the requests that a repetition takes, and  *)
(* those that this repetition has made.                                    *)
Limit == IF drbg.max_request_size = 0 THEN config.output_size
                                      ELSE drbg.max_request_size

PerRepetition == Requests(config.output_size, drbg.max_request_size)

Made == result.requests - repetition * PerRepetition

Counted ==
    /\ Made \in 0 .. PerRepetition
    /\ produced = Least(Made * Limit, config.output_size)

(* The reseeds so far are as many intervals as the requests so far have    *)
(* filled, and an interval is only closed when one more request follows.   *)
Spaced ==
    /\ config.reseed_interval = 0 => result.reseeds = 0
    /\ config.reseed_interval > 0 =>
           /\ result.requests = result.reseeds * config.reseed_interval
                                    + requests_since_reseed
           /\ requests_since_reseed <= config.reseed_interval
           /\ pc # "reseeded" /\ result.requests > 0 => requests_since_reseed > 0
    /\ pc \in {"reseed", "reseeded"} => config.reseed_interval > 0
    /\ pc = "reseed"   => requests_since_reseed = config.reseed_interval
    /\ pc = "reseeded" => requests_since_reseed = 0

Reporting == {"finish", "save", "report"}

CountsInv ==
    /\ drbg \in Descriptor
    /\ requests_since_reseed \in Nat
    /\ pc \notin {"start", "done"} => ~InvalidConfig
    /\ pc \in BeforeSeeding =>
           /\ result.requests = 0 /\ result.reseeds = 0
           /\ repetition = 0 /\ produced = 0 /\ requests_since_reseed = 0
    /\ pc \in {"request", "reseed", "reseeded"} => Counted
    /\ pc \in {"reseed", "reseeded"} => produced < config.output_size
    /\ pc \in Serving \cup Reporting => Spaced
    /\ pc \in Reporting => result.requests = repetition * PerRepetition

LEMMA CountsInit == Init => CountsInv
BY BenchmarkAssumption DEF Init, CountsInv, BeforeSeeding, Serving, Reporting

(* The shape of a repetition, wherever requests are made. *)
LEMMA RepetitionShape ==
    ASSUME AggregatesInv, CountsInv, pc \notin {"start", "done"}
    PROVE  /\ Limit \in Nat \ {0} /\ PerRepetition \in Nat \ {0}
           /\ config.output_size \in Nat \ {0}
           /\ (PerRepetition - 1) * Limit < config.output_size
           /\ config.output_size <= PerRepetition * Limit
<1>1. config.output_size \in Nat \ {0} /\ drbg.max_request_size \in Nat
  BY DEF AggregatesInv, CountsInv, Config, Descriptor, InvalidConfig
<1> QED BY <1>1, RequestsCover DEF Limit, PerRepetition

(* A request adds one to the requests made and its bytes to those          *)
(* produced; only the last of a repetition may be shorter.                 *)
LEMMA RequestCounted ==
    ASSUME AggregatesInv, CountsInv, pc \in {"request", "reseeded"},
           produced < config.output_size
    PROVE  /\ Made + 1 \in 0 .. PerRepetition
           /\ produced + RequestSize
                  = Least((Made + 1) * Limit, config.output_size)
           /\ RequestSize \in 1 .. config.output_size - produced
<1> DEFINE S == config.output_size  l == Limit  q == PerRepetition  k == Made
<1>1. /\ l \in Nat \ {0} /\ q \in Nat \ {0} /\ S \in Nat \ {0}
      /\ (q - 1) * l < S /\ S <= q * l
  BY RepetitionShape
<1>2. k \in 0 .. q /\ produced = Least(k * l, S) BY DEF CountsInv, Counted
<1>3. RequestSize = Least(l, S - produced)
  <2>1. drbg.max_request_size \in Nat BY DEF CountsInv, Descriptor
  <2>2. l = IF drbg.max_request_size = 0 THEN S ELSE drbg.max_request_size
    BY DEF Limit
  <2>3. RequestSize = IF drbg.max_request_size > 0
                         /\ S - produced > drbg.max_request_size
                      THEN drbg.max_request_size ELSE S - produced
    BY DEF RequestSize
  <2>4. produced \in Nat BY <1>1, <1>2 DEF Least
  <2> HIDE DEF S, l, q, k
  <2> QED BY <1>1, <2>1, <2>2, <2>3, <2>4 DEF Least
<1>4. produced < S OBVIOUS
<1>5. Least((Made + 1) * Limit, config.output_size) = Least((k + 1) * l, S)
  OBVIOUS
<1> HIDE DEF S, l, q, k
<1>6. k * l \in Nat /\ (k + 1) * l = k * l + l BY <1>1, <1>2
<1>7. produced = k * l /\ k * l < S BY <1>1, <1>2, <1>4, <1>6 DEF Least
<1>8. k < q
  <2> SUFFICES ASSUME q <= k PROVE FALSE BY <1>1, <1>2
  <2>1. q * l <= k * l BY <1>1, <1>2, ProductGrows
  <2> QED BY <1>1, <1>2, <1>6, <1>7, <2>1
<1>9. k + 1 \in 0 .. q BY <1>1, <1>2, <1>8
<1>10. produced + RequestSize = Least((k + 1) * l, S)
  BY <1>1, <1>3, <1>6, <1>7 DEF Least
<1>11. RequestSize \in 1 .. S - produced
  BY <1>1, <1>3, <1>6, <1>7 DEF Least
<1> QED BY <1>5, <1>9, <1>10, <1>11 DEF S, q, k

(* A repetition that has all its bytes has made all its requests. *)
LEMMA RepetitionCounted ==
    ASSUME AggregatesInv, CountsInv, pc = "request",
           produced >= config.output_size
    PROVE  /\ result.requests = (repetition + 1) * PerRepetition
           /\ produced = config.output_size
<1> DEFINE S == config.output_size  l == Limit  q == PerRepetition  k == Made
<1>1. /\ l \in Nat \ {0} /\ q \in Nat \ {0} /\ S \in Nat \ {0}
      /\ (q - 1) * l < S /\ S <= q * l
  BY RepetitionShape
<1>2. k \in 0 .. q /\ produced = Least(k * l, S) /\ produced >= S
  BY DEF CountsInv, Counted
<1>3. k = result.requests - repetition * q
      /\ result.requests \in Int /\ repetition \in Nat
  BY DEF Made, AggregatesInv
<1>4. result.requests = (repetition + 1) * PerRepetition
      <=> result.requests = (repetition + 1) * q
  OBVIOUS
<1> HIDE DEF S, l, q, k
<1>5. k * l \in Nat BY <1>1, <1>2
<1>6. produced = S /\ S <= k * l BY <1>1, <1>2, <1>5 DEF Least
<1>7. k = q
  <2> SUFFICES ASSUME k <= q - 1 PROVE FALSE BY <1>1, <1>2
  <2>1. k * l <= (q - 1) * l BY <1>1, <1>2, ProductGrows
  <2>2. (q - 1) * l \in Int BY <1>1
  <2> QED BY <1>1, <1>5, <1>6, <2>1, <2>2
<1>8. (repetition + 1) * q = repetition * q + q /\ repetition * q \in Int
  BY <1>1, <1>3
<1>9. result.requests = (repetition + 1) * q BY <1>1, <1>3, <1>7, <1>8
<1> QED BY <1>4, <1>6, <1>9 DEF S

LEMMA CountsStep ==
    AggregatesInv /\ AggregatesInv' /\ CountsInv /\ [Next]_vars => CountsInv'
<1> SUFFICES ASSUME AggregatesInv, AggregatesInv', CountsInv, [Next]_vars
             PROVE  CountsInv'
  OBVIOUS
<1>0. /\ config \in Config /\ repetition \in Nat
      /\ result \in [requests : Nat, reseeds : Nat, min : Int, max : Int]
      /\ result.requests \in Nat /\ result.reseeds \in Nat
      /\ config.reseed_interval \in Nat
  BY DEF AggregatesInv, Config
<1> DEFINE Frame == UNCHANGED <<drbg, config, repetition, produced, result,
                                requests_since_reseed>>
<1>a. ASSUME Frame PROVE /\ Counted' <=> Counted
                         /\ (result.requests = repetition * PerRepetition)'
                              <=> result.requests = repetition * PerRepetition
                         /\ InvalidConfig' <=> InvalidConfig
  BY <1>a DEF Counted, Made, PerRepetition, Limit, InvalidConfig
<1> USE DEF BeforeSeeding, Serving, Reporting, Goto, Leave, arguments, loop
<1>1. CASE Rejected
  BY <1>1, <1>a DEF Rejected, CountsInv
<1>2. CASE AllocContext \/ AllocBuffer \/ ReadEntropy \/ ReadNonce
  BY <1>2, <1>a
  DEF AllocContext, AllocBuffer, ReadEntropy, ReadNonce, CountsInv
<1>3. CASE Instantiate
  <2>1. Frame /\ pc = "instantiate" /\ pc' \in {"request", "cleanup"}
    BY <1>3 DEF Instantiate
  <2>2. Counted
    <3>1. /\ Limit \in Nat \ {0} /\ PerRepetition \in Nat \ {0}
          /\ config.output_size \in Nat \ {0}
      BY <2>1, RepetitionShape
    <3>2. Made = 0
      BY <2>1, <3>1 DEF Made, CountsInv
    <3>3. 0 * Limit = 0 BY <3>1
    <3> QED BY <2>1, <3>1, <3>2, <3>3 DEF Counted, CountsInv, Least
  <2>3. Spaced'
    BY <2>1, <1>0 DEF Spaced, CountsInv
  <2> QED BY <2>1, <2>2, <2>3, <1>a DEF CountsInv
<1>4. CASE ReseedEntropy
  <2>1. Frame /\ pc = "request" /\ pc' \in {"reseed", "cleanup"}
        /\ ReseedDue /\ produced < config.output_size
    BY <1>4 DEF ReseedEntropy, Requesting
  <2>2. pc' = "reseed" => Spaced'
    BY <2>1, <1>0 DEF Spaced, CountsInv, ReseedDue
  <2> QED BY <2>1, <2>2, <1>a DEF CountsInv
<1>5. CASE Reseed
  <2>1. /\ UNCHANGED <<drbg, config, repetition, produced>>
        /\ pc = "reseed"
        /\ \/ /\ pc' = "reseeded" /\ requests_since_reseed' = 0
              /\ result' = [result EXCEPT !.reseeds = @ + 1]
           \/ /\ pc' = "cleanup" /\ UNCHANGED <<requests_since_reseed, result>>
    BY <1>5 DEF Reseed, ReseedSucceeds, ReseedFails
  <2>2. CASE pc' = "cleanup" BY <2>1, <2>2, <1>a DEF CountsInv
  <2>3. CASE pc' = "reseeded"
    <3>1. /\ requests_since_reseed' = 0
          /\ result'.reseeds = result.reseeds + 1
          /\ result'.requests = result.requests
      BY <2>1, <2>3, <1>0
    <3>2. Counted'
      BY <2>1, <3>1 DEF CountsInv, Counted, Made, PerRepetition, Limit
    <3>3. Spaced'
      <4> DEFINE n == result.reseeds  I == config.reseed_interval
      <4>1. /\ I \in Nat \ {0} /\ n \in Nat
            /\ result.requests = n * I + I
        BY <2>1, <1>0 DEF CountsInv, Spaced
      <4>2. (n + 1) * I = n * I + I BY <4>1
      <4>3. result'.requests = result'.reseeds * config'.reseed_interval + 0
        BY <2>1, <3>1, <4>1, <4>2
      <4> HIDE DEF n, I
      <4> QED BY <2>1, <2>3, <3>1, <4>1, <4>3 DEF Spaced, I
    <3> QED
      BY <2>1, <2>3, <3>1, <3>2, <3>3 DEF CountsInv, InvalidConfig
  <2> QED BY <2>1, <2>2, <2>3
<1>6. CASE Generate
  <2>1. /\ UNCHANGED <<drbg, config, repetition>>
        /\ pc \in {"request", "reseeded"}
        /\ produced < config.output_size
        /\ pc = "request" => ~ReseedDue
    BY <1>6 DEF Generate, Requesting, CountsInv
  <2>2. CASE pc' = "cleanup"
    <3>1. UNCHANGED <<produced, requests_since_reseed, result>>
      BY <1>6, <2>2 DEF Generate
    <3> QED BY <2>1, <2>2, <3>1, <1>a DEF CountsInv
  <2>3. CASE pc' # "cleanup"
    <3>1. /\ pc' = "request"
          /\ produced' = produced + RequestSize
          /\ requests_since_reseed' = requests_since_reseed + 1
          /\ result' = [result EXCEPT !.requests = @ + 1]
      BY <1>6, <2>3 DEF Generate
    <3>2. /\ result'.requests = result.requests + 1
          /\ result'.reseeds = result.reseeds
      BY <3>1, <1>0
    <3>3. Counted'
      <4>1. PerRepetition' = PerRepetition /\ Limit' = Limit
        BY <2>1 DEF PerRepetition, Limit
      <4>2. PerRepetition \in Nat BY <2>1, RepetitionShape
      <4>3. repetition * PerRepetition \in Int BY <1>0, <4>2
      <4>4. Made' = Made + 1
        BY <1>0, <2>1, <3>2, <4>1, <4>3 DEF Made
      <4> QED
        BY <2>1, <3>1, <4>1, <4>4, RequestCounted DEF Counted
    <3>4. Spaced'
      <4> DEFINE m == result.reseeds * config.reseed_interval
      <4>1. m \in Nat BY <1>0
      <4>2. result'.reseeds * config'.reseed_interval = m BY <2>1, <3>2
      <4> HIDE DEF m
      <4>3. config.reseed_interval > 0 =>
                /\ result.requests = m + requests_since_reseed
                /\ requests_since_reseed < config.reseed_interval
        <5>1. CASE pc = "request"
          BY <1>0, <2>1, <5>1 DEF CountsInv, Spaced, ReseedDue, m
        <5>2. CASE pc = "reseeded"
          BY <1>0, <2>1, <5>2 DEF CountsInv, Spaced, m
        <5> QED BY <2>1, <5>1, <5>2
      <4>4. config.reseed_interval = 0 => result.reseeds = 0
        BY <2>1 DEF CountsInv, Spaced
      <4>5. requests_since_reseed \in Nat BY DEF CountsInv
      <4> QED
        BY <1>0, <2>1, <3>1, <3>2, <4>1, <4>2, <4>3, <4>4, <4>5 DEF Spaced
    <3>5. requests_since_reseed' \in Nat BY <3>1 DEF CountsInv
    <3>6. pc \in {"request", "reseeded"} /\ ~InvalidConfig'
      BY <2>1 DEF CountsInv, InvalidConfig
    <3> QED BY <2>1, <3>1, <3>3, <3>4, <3>5, <3>6 DEF CountsInv
  <2> QED BY <2>2, <2>3
<1>7. CASE RepetitionPasses
  <2>1. /\ UNCHANGED <<drbg, config, requests_since_reseed>>
        /\ pc = "request" /\ produced >= config.output_size
        /\ repetition' = repetition + 1
        /\ result' = Extremes(result, time)
        /\ \/ pc' = "request" /\ produced' = 0
           \/ pc' = "finish" /\ UNCHANGED produced
    BY <1>7 DEF RepetitionPasses
  <2>2. /\ result'.requests = result.requests
        /\ result'.reseeds = result.reseeds
    BY <2>1, <1>0 DEF Extremes
  <2>3. result'.requests = repetition' * PerRepetition'
    BY <2>1, <2>2, RepetitionCounted DEF PerRepetition
  <2>4. Spaced' BY <2>1, <2>2 DEF CountsInv, Spaced
  <2>5. pc' = "request" => Counted'
    <3>1. /\ Limit \in Nat \ {0} /\ PerRepetition \in Nat \ {0}
          /\ config.output_size \in Nat \ {0}
          /\ Limit' = Limit /\ PerRepetition' = PerRepetition
      BY <2>1, RepetitionShape DEF Limit, PerRepetition
    <3>2. Made' = 0
      <4>1. repetition' * PerRepetition' \in Int BY <2>1, <1>0, <3>1
      <4> QED BY <2>3, <4>1 DEF Made
    <3>3. 0 * Limit = 0 BY <3>1
    <3> QED BY <2>1, <3>1, <3>2, <3>3 DEF Counted, Least
  <2> QED
    BY <2>1, <2>3, <2>4, <2>5 DEF CountsInv, InvalidConfig
<1>8. CASE RepetitionFails
  <2>1. Frame /\ pc = "request" /\ pc' = "cleanup"
    BY <1>8 DEF RepetitionFails
  <2> QED BY <2>1, <1>a DEF CountsInv
<1>9. CASE Finish \/ Save \/ Report
  <2>1. Frame /\ pc \in Reporting /\ pc' \in {"save", "report", "cleanup"}
    BY <1>9 DEF Finish, Save, SaveSucceeds, SaveFails, Report, ReportFails
  <2>2. Spaced' BY <2>1 DEF CountsInv, Spaced
  <2> QED BY <2>1, <2>2, <1>a DEF CountsInv
<1>10. CASE Cleanup BY <1>10, <1>a DEF Cleanup, CountsInv
<1>11. CASE UNCHANGED vars
  <2>1. Frame /\ UNCHANGED pc
    BY <1>11 DEF vars
  <2>2. Spaced' <=> Spaced BY <2>1 DEF Spaced
  <2> QED BY <2>1, <2>2, <1>a DEF CountsInv
<1> QED
  BY <1>1, <1>2, <1>3, <1>4, <1>5, <1>6, <1>7, <1>8, <1>9, <1>10, <1>11
  DEF Next, Done

LEMMA CountsImplied == AggregatesInv /\ CountsInv => CountsExact
<1> SUFFICES ASSUME AggregatesInv, CountsInv, pc \in Reporting
             PROVE  /\ result.requests = config.repetitions * PerRepetition
                    /\ result.reseeds =
                           IF config.reseed_interval = 0 THEN 0
                           ELSE (config.repetitions * PerRepetition - 1)
                                    \div config.reseed_interval
  BY DEF CountsExact, PerRepetition, Reporting
<1>1. result.requests = config.repetitions * PerRepetition
  BY DEF CountsInv, AggregatesInv, Reporting
<1>2. CASE config.reseed_interval = 0
  BY <1>1, <1>2 DEF CountsInv, Spaced
<1>3. CASE config.reseed_interval # 0
  <2> DEFINE I == config.reseed_interval  n == result.reseeds
             s == requests_since_reseed
  <2>1. I \in Nat \ {0} /\ n \in Nat /\ s \in Nat
    BY <1>3 DEF AggregatesInv, CountsInv, Config
  <2>2. result.requests > 0
    <3> DEFINE R == config.repetitions  q == PerRepetition
    <3>1. R \in Nat \ {0}
      BY DEF AggregatesInv, CountsInv, Config, InvalidConfig, Reporting
    <3>2. q \in Nat \ {0} BY RepetitionShape DEF Reporting
    <3>3. R * q > 0
      <4> HIDE DEF R, q
      <4>1. 1 * q <= R * q BY <3>1, <3>2, ProductGrows
      <4> QED BY <3>1, <3>2, <4>1
    <3> QED BY <1>1, <3>3
  <2>3. result.requests = n * I + s /\ s \in 1 .. I
    BY <2>1, <2>2 DEF CountsInv, Spaced, Reporting
  <2> HIDE DEF I, n, s
  <2>4. result.requests - 1 = n * I + (s - 1) /\ s - 1 \in 0 .. I - 1
    BY <2>1, <2>3
  <2>5. (n * I + (s - 1)) \div I = n BY <2>1, <2>4, QuotientIs
  <2> QED BY <1>1, <1>3, <2>4, <2>5 DEF I, n
<1> QED BY <1>1, <1>2, <1>3

(* The report counts the requests and the reseeds that the configuration   *)
(* determines: every repetition takes as many requests as its size fills,  *)
(* and the lazy reseeds fall between intervals, none after the last.       *)
THEOREM CountsAreExact == Spec => []CountsExact
<1>1. Init => AggregatesInv /\ CountsInv BY AggregatesInit, CountsInit
<1>2. AggregatesInv /\ CountsInv /\ [Next]_vars
          => (AggregatesInv /\ CountsInv)'
  BY AggregatesStep, CountsStep
<1> QED BY <1>1, <1>2, CountsImplied, PTL DEF Spec

-----------------------------------------------------------------------------
(* Every step brings a run nearer to its end.                              *)

LEMMA Places ==
    /\ Place["start"] = 10 /\ Place["alloc_buffer"] = 9 /\ Place["entropy"] = 8
    /\ Place["nonce"] = 7 /\ Place["instantiate"] = 6 /\ Place["request"] = 5
    /\ Place["reseed"] = 4 /\ Place["reseeded"] = 3 /\ Place["finish"] = 4
    /\ Place["save"] = 3 /\ Place["report"] = 2 /\ Place["cleanup"] = 1
    /\ Place["done"] = 0
BY DEF Place

(* Before its end a run has at least the rest of this repetition to do. *)
LEMMA LoopStepsRemain ==
    ASSUME AggregatesInv, CountsInv, LifetimeInv, pc \notin Ending
    PROVE  /\ LoopSteps \in Int /\ produced \in Nat /\ config.output_size \in Nat
           /\ pc = "start" => LoopSteps >= 0
           /\ pc # "start" =>
                  /\ produced <= config.output_size
                  /\ LoopSteps >= 1 + 3 * (config.output_size - produced)
<1> DEFINE S == config.output_size  left == config.repetitions - repetition
           d == 3 * S + 1
<1>1. /\ S \in Nat /\ left \in Int /\ d \in Nat
      /\ pc = "start" => left \in Nat
      /\ pc # "start" => left >= 1
  BY DEF AggregatesInv, Config, Ending
<1>2. produced \in 0 .. S
  <2>1. CASE pc \in BeforeSeeding BY <1>1, <2>1 DEF CountsInv
  <2>2. CASE pc \in {"request", "reseed", "reseeded"}
    <3> DEFINE l == Limit  k == Made
    <3>1. l \in Nat /\ k \in Nat /\ produced = Least(k * l, S)
      BY <2>2, RepetitionShape DEF CountsInv, Counted
    <3> HIDE DEF S, l, k
    <3>2. k * l \in Nat BY <3>1
    <3> QED BY <1>1, <3>1, <3>2 DEF Least
  <2> QED BY <2>1, <2>2 DEF LifetimeInv, Serving, Ending
<1>3. LoopSteps = left * d - 3 * produced BY DEF LoopSteps
<1>4. pc = "start" => produced = 0 BY DEF CountsInv, BeforeSeeding
<1> HIDE DEF S, left, d
<1>5. left * d \in Int BY <1>1
<1>6. pc = "start" => left * d >= 0 BY <1>1
<1>7. pc # "start" => left * d >= d
  <2> SUFFICES ASSUME left >= 1 PROVE left * d >= d BY <1>1
  <2>1. left - 1 \in Nat /\ (left - 1) * d >= 0 BY <1>1
  <2>2. left * d = (left - 1) * d + d BY <1>1
  <2> QED BY <1>1, <1>5, <2>1, <2>2
<1>8. d = 3 * S + 1 BY DEF d
<1>9. /\ LoopSteps \in Int /\ produced \in 0 .. S
      /\ pc = "start" => LoopSteps >= 0
      /\ pc # "start" => LoopSteps >= 1 + 3 * (S - produced)
  BY <1>1, <1>2, <1>3, <1>4, <1>5, <1>6, <1>7, <1>8
<1> QED BY <1>1, <1>9 DEF S

LEMMA FewerStepsLeft ==
    AggregatesInv /\ CountsInv /\ LifetimeInv /\ [Next]_vars
        => [StepsLeft' \in 0 .. StepsLeft - 1]_vars
<1> SUFFICES ASSUME AggregatesInv, CountsInv, LifetimeInv, Next, pc # "done"
             PROVE  StepsLeft' \in 0 .. StepsLeft - 1
  BY DEF Next, Done, Rejected, AllocContext, AllocBuffer, ReadEntropy, ReadNonce,
         Instantiate, ReseedEntropy, Requesting, Reseed, Generate,
         RepetitionPasses, RepetitionFails, Finish, Save, Report, Cleanup
<1>1. /\ pc \in Ending => StepsLeft = Place[pc]
      /\ pc \notin Ending => StepsLeft = Place[pc] + LoopSteps
      /\ pc' \in Ending => StepsLeft' = Place[pc']
      /\ pc' \notin Ending => StepsLeft' = Place[pc'] + LoopSteps'
  BY DEF StepsLeft, Ending, Place
<1>2. pc \notin Ending => LoopSteps \in Nat
  BY LoopStepsRemain
<1> DEFINE Kept == UNCHANGED <<config, repetition, produced>>
<1>3. Kept => LoopSteps' = LoopSteps BY DEF LoopSteps
<1> USE Places DEF Ending, Goto, Leave, arguments, loop
<1>4. ASSUME pc \in {"start", "alloc_buffer", "entropy", "nonce", "instantiate",
                     "request", "reseed", "reseeded"},
             pc' \in {"cleanup", "done"}
      PROVE  StepsLeft' \in 0 .. StepsLeft - 1
  BY <1>1, <1>2, <1>4
<1>5. CASE Rejected BY <1>4, <1>5 DEF Rejected
<1>6. CASE AllocContext \/ AllocBuffer \/ ReadEntropy \/ ReadNonce \/ Instantiate
  <2>1. CASE pc' = "cleanup"
    BY <1>4, <1>6, <2>1
    DEF AllocContext, AllocBuffer, ReadEntropy, ReadNonce, Instantiate
  <2>2. CASE pc' # "cleanup"
    <3>1. /\ Kept
          /\ \/ pc = "start" /\ pc' = "alloc_buffer"
             \/ pc = "alloc_buffer" /\ pc' = "entropy"
             \/ pc = "entropy" /\ pc' = "nonce"
             \/ pc = "nonce" /\ pc' = "instantiate"
             \/ pc = "instantiate" /\ pc' = "request"
      BY <1>6, <2>2
      DEF AllocContext, AllocBuffer, ReadEntropy, ReadNonce, Instantiate
    <3> QED BY <1>1, <1>2, <1>3, <3>1
  <2> QED BY <2>1, <2>2
<1>7. CASE ReseedEntropy \/ Reseed
  <2>1. /\ Kept
        /\ \/ pc = "request" /\ pc' = "reseed"
           \/ pc = "reseed" /\ pc' = "reseeded"
           \/ pc \in {"request", "reseed"} /\ pc' = "cleanup"
    BY <1>7 DEF ReseedEntropy, Requesting, Reseed, ReseedSucceeds, ReseedFails
  <2> QED BY <1>1, <1>2, <1>3, <1>4, <2>1
<1>8. CASE Generate
  <2>1. pc \in {"request", "reseeded"} /\ produced < config.output_size
    BY <1>8 DEF Generate, Requesting, CountsInv
  <2>2. CASE pc' = "cleanup" BY <1>4, <2>1, <2>2
  <2>3. CASE pc' # "cleanup"
    <3>1. /\ pc' = "request" /\ UNCHANGED <<config, repetition>>
          /\ produced' = produced + RequestSize
      BY <1>8, <2>3 DEF Generate
    <3>2. RequestSize \in 1 .. config.output_size - produced
      BY <2>1, RequestCounted
    <3>3. LoopSteps \in Int /\ produced \in Nat /\ config.output_size \in Nat
          /\ LoopSteps >= 1 + 3 * (config.output_size - produced)
      BY <2>1, LoopStepsRemain
    <3>4. LoopSteps' = LoopSteps - 3 * RequestSize
      <4> DEFINE all == (config.repetitions - repetition)
                            * (3 * config.output_size + 1)
      <4>1. all \in Int BY DEF AggregatesInv, Config
      <4>2. LoopSteps = all - 3 * produced BY DEF LoopSteps
      <4>3. LoopSteps' = all - 3 * (produced + RequestSize)
        BY <3>1 DEF LoopSteps
      <4> HIDE DEF all
      <4> QED BY <3>2, <3>3, <4>1, <4>2, <4>3
    <3> QED BY <1>1, <2>1, <3>1, <3>2, <3>3, <3>4
  <2> QED BY <2>2, <2>3
<1>9. CASE RepetitionPasses
  <2>1. /\ pc = "request" /\ UNCHANGED config
        /\ repetition' = repetition + 1
        /\ \/ pc' = "request" /\ produced' = 0
              /\ repetition' < config.repetitions
           \/ pc' = "finish"
    BY <1>9 DEF RepetitionPasses
  <2>2. produced = config.output_size BY <1>9, RepetitionCounted DEF RepetitionPasses
  <2>3. LoopSteps \in Int /\ LoopSteps >= 1 /\ produced \in Nat
    BY <2>1, <2>2, LoopStepsRemain
  <2>4. CASE pc' = "finish" BY <1>1, <2>1, <2>3, <2>4
  <2>5. CASE pc' = "request"
    <3> DEFINE left == config.repetitions - repetition
               d == 3 * config.output_size + 1
    <3>1. left \in Int /\ d \in Nat BY <2>2, <2>3 DEF AggregatesInv, Config
    <3>2. LoopSteps = left * d - 3 * produced BY DEF LoopSteps
    <3>3. LoopSteps' = (left - 1) * d
      <4>1. config'.repetitions - repetition' = left - 1
        BY <2>1 DEF AggregatesInv, Config
      <4>2. 3 * config'.output_size + 1 = d BY <2>1
      <4>3. produced' = 0 BY <2>1, <2>5
      <4>4. LoopSteps' = (left - 1) * d - 3 * 0
        BY <4>1, <4>2, <4>3 DEF LoopSteps
      <4> HIDE DEF left, d
      <4> QED BY <3>1, <4>4
    <3>4. d = 3 * produced + 1 BY <2>2
    <3>5. left - 1 \in Nat
      <4>1. config.repetitions \in Nat /\ repetition \in Nat
        BY DEF AggregatesInv, Config
      <4>2. repetition + 1 < config.repetitions
        <5>1. pc' # "finish" BY <2>5
        <5> QED BY <2>1, <5>1
      <4> QED BY <4>1, <4>2
    <3> HIDE DEF left, d
    <3>6. (left - 1) * d = left * d - d /\ (left - 1) * d >= 0
      BY <3>1, <3>5
    <3>7. left * d \in Int BY <3>1
    <3>8. LoopSteps' = LoopSteps - 1 /\ LoopSteps' >= 0
      BY <2>3, <3>1, <3>2, <3>3, <3>4, <3>6, <3>7
    <3> QED BY <1>1, <2>1, <2>3, <2>5, <3>8
  <2> QED BY <2>1, <2>4, <2>5
<1>10. CASE RepetitionFails BY <1>4, <1>10 DEF RepetitionFails
<1>11. CASE Finish \/ Save \/ Report \/ Cleanup
  <2>1. \/ pc = "finish" /\ pc' \in {"save", "report", "cleanup"}
        \/ pc = "save" /\ pc' \in {"report", "cleanup"}
        \/ pc = "report" /\ pc' = "cleanup"
        \/ pc = "cleanup" /\ pc' = "done"
    BY <1>11
    DEF Finish, Save, SaveSucceeds, SaveFails, Report, ReportFails, Cleanup
  <2> QED BY <1>1, <2>1
<1> QED
  BY <1>5, <1>6, <1>7, <1>8, <1>9, <1>10, <1>11 DEF Next, Done

(* The run counts down: no failure, no reseed and no clock keeps the       *)
(* benchmark in its loops beyond the steps its configuration stands for.   *)
THEOREM EveryStepAdvances == Spec => RunAdvances
<1>1. Init => AggregatesInv /\ CountsInv /\ LifetimeInv
  BY AggregatesInit, CountsInit, LifetimeInit
<1>2. AggregatesInv /\ CountsInv /\ LifetimeInv /\ [Next]_vars
          => (AggregatesInv /\ CountsInv /\ LifetimeInv)'
  BY AggregatesStep, CountsStep, LifetimeStep
<1>3. AggregatesInv /\ CountsInv /\ LifetimeInv /\ [Next]_vars
          => [StepsLeft' \in 0 .. StepsLeft - 1]_vars
  BY FewerStepsLeft
<1> QED BY <1>1, <1>2, <1>3, PTL DEF Spec, RunAdvances

-----------------------------------------------------------------------------
(* What is delivered and saved.                                            *)

IsString(b, n) == b = [i \in 1 .. n |-> b[i]]

(* A mechanism streams as many bytes as it was asked for, from any state:  *)
(* the streams of Hash_DRBG, HMAC_DRBG and Dummy are functions on          *)
(* 1 .. output_len.  This is all that the benchmark needs to know of them. *)
StreamsAreWhole ==
    \A s : \A n \in Nat : IsString(Stream(s, GenerateCallOf(n)), n)

LEMMA GenerateDelivers ==
    ASSUME Generate
    PROVE  /\ reply'.status = "SUCCESS" =>
                  reply'.bytes = Stream(state, GenerateCallOf(RequestSize))
           /\ reply'.status # "SUCCESS" => reply'.bytes = <<>>
<1> DEFINE c == GenerateCallOf(RequestSize)
<1>1. Mechanism!Generate(c) BY DEF Generate
<1> HIDE DEF c
<1>2. /\ reply'.status = "SUCCESS" => reply'.bytes = Stream(state, c)
      /\ reply'.status # "SUCCESS" => reply'.bytes = <<>>
  BY <1>1, BenchmarkAssumption
  DEF Mechanism!Generate, Mechanism!Fails, Mechanism!Reply
<1> QED BY <1>2 DEF c

LEMMA StringLength ==
    ASSUME NEW b, NEW n \in Nat, IsString(b, n)
    PROVE  Len(b) = n /\ b \in Seq({b[i] : i \in 1 .. n})
<1> DEFINE S == {b[i] : i \in 1 .. n}
<1>1. b \in [1 .. n -> S] BY DEF IsString
<1>2. b \in Seq(S) BY <1>1
<1>3. Len(b) \in Nat /\ DOMAIN b = 1 .. Len(b) BY <1>2, LenProperties
<1>4. DOMAIN b = 1 .. n BY <1>1
<1>5. \A m \in Nat : 1 .. m = 1 .. n => m = n
  <2> SUFFICES ASSUME NEW m \in Nat, 1 .. m = 1 .. n PROVE m = n OBVIOUS
  <2>1. m \in 1 .. m \/ m = 0 OBVIOUS
  <2>2. n \in 1 .. n \/ n = 0 OBVIOUS
  <2> QED BY <2>1, <2>2
<1> QED BY <1>2, <1>3, <1>4, <1>5

LEMMA StringsJoined ==
    ASSUME NEW a, NEW n \in Nat, IsString(a, n),
           NEW b, NEW m \in Nat, IsString(b, m)
    PROVE  a \o b = [i \in 1 .. n + m |-> IF i <= n THEN a[i] ELSE b[i - n]]
<1> DEFINE S == {a[i] : i \in 1 .. n} \cup {b[i] : i \in 1 .. m}
<1>1. Len(a) = n /\ Len(b) = m BY StringLength
<1>2. a \in [1 .. n -> S] /\ b \in [1 .. m -> S] BY DEF IsString
<1> HIDE DEF S
<1>3. a \in Seq(S) /\ b \in Seq(S) BY <1>2
<1>4. /\ a \o b \in Seq(S) /\ Len(a \o b) = n + m
      /\ \A i \in 1 .. n + m :
             (a \o b)[i] = IF i <= n THEN a[i] ELSE b[i - n]
  BY <1>1, <1>3, ConcatProperties
<1> DEFINE c == a \o b
<1>5. c \in [1 .. n + m -> S] BY <1>4, LenProperties
<1>6. \A i \in 1 .. n + m : c[i] = IF i <= n THEN a[i] ELSE b[i - n] BY <1>4
<1> HIDE DEF c
<1>7. c = [i \in 1 .. n + m |-> IF i <= n THEN a[i] ELSE b[i - n]]
  BY <1>5, <1>6
<1> QED BY <1>7 DEF c

(* The bytes of this repetition lie in the buffer, in order, and nowhere   *)
(* after them is anything delivered; what is saved is the whole buffer.    *)
SaveInv ==
    /\ pc \in {"entropy", "nonce", "instantiate"} \cup Serving \cup Reporting
           => IsString(buffer, config.output_size)
    /\ pc \in BeforeSeeding => delivered = <<>>
    /\ pc \in Serving \cup Reporting
           => /\ produced \in 0 .. config.output_size
              /\ delivered = [i \in 1 .. produced |-> buffer[i]]
    /\ pc \in Reporting => produced = config.output_size
    /\ pc = "report" /\ config.save_output => file = buffer
    /\ pc = "cleanup" /\ status = "SUCCESS" /\ config.save_output =>
           file = delivered /\ Len(file) = config.output_size
    /\ SavedIsDelivered

LEMMA SaveInit == Init => SaveInv
BY DEF Init, SaveInv, SavedIsDelivered, BeforeSeeding, Serving, Reporting

(* A request appends its bytes to those delivered and leaves the others.   *)
LEMMA RequestDelivered ==
    ASSUME StreamsAreWhole, AggregatesInv, CountsInv, SaveInv, Generate
    PROVE  /\ IsString(buffer', config.output_size)
           /\ reply'.status = "SUCCESS" =>
                  delivered' = [i \in 1 .. produced + RequestSize |-> buffer'[i]]
<1> DEFINE S == config.output_size  n == RequestSize  b == reply'.bytes
<1>1. /\ pc \in {"request", "reseeded"} /\ produced < S
      /\ buffer' = Deliver(b) /\ delivered' = delivered \o b
  BY DEF Generate, Requesting, CountsInv
<1>2. /\ S \in Nat /\ n \in 1 .. S - produced /\ produced \in 0 .. S
      /\ IsString(buffer, S)
      /\ delivered = [i \in 1 .. produced |-> buffer[i]]
  BY <1>1, RequestCounted DEF SaveInv, AggregatesInv, Config, Serving
<1>3. reply'.status = "SUCCESS" => IsString(b, n)
  BY <1>2, GenerateDelivers DEF StreamsAreWhole
<1> HIDE DEF S, n, b
<1>4. DOMAIN buffer = 1 .. S BY <1>2 DEF IsString
<1>5. IsString(buffer', S)
  BY <1>1, <1>4 DEF Deliver, IsString
<1>6. ASSUME IsString(b, n)
      PROVE  delivered' = [i \in 1 .. produced + n |-> buffer'[i]]
  <2>1. IsString(delivered, produced) BY <1>2 DEF IsString
  <2>2. delivered' = [i \in 1 .. produced + n |->
                         IF i <= produced THEN delivered[i] ELSE b[i - produced]]
    <3>1. produced \in Nat /\ n \in Nat BY <1>2
    <3>2. delivered \o b
              = [i \in 1 .. produced + n |->
                    IF i <= produced THEN delivered[i] ELSE b[i - produced]]
      BY <1>6, <2>1, <3>1, StringsJoined
    <3> QED BY <1>1, <3>2
  <2>3. DOMAIN b = 1 .. n BY <1>6 DEF IsString
  <2>4. ASSUME NEW i \in 1 .. produced + n
        PROVE  buffer'[i] = IF i <= produced THEN delivered[i]
                                             ELSE b[i - produced]
    <3>1. i \in 1 .. S BY <1>2
    <3>2. buffer'[i] = IF i - produced \in 1 .. n THEN b[i - produced]
                                                  ELSE buffer[i]
      BY <1>1, <1>4, <2>3, <3>1 DEF Deliver
    <3> QED BY <1>2, <3>2
  <2>5. [i \in 1 .. produced + n |-> buffer'[i]]
            = [i \in 1 .. produced + n |->
                  IF i <= produced THEN delivered[i] ELSE b[i - produced]]
    BY <2>4
  <2> QED BY <2>2, <2>5
<1> QED BY <1>3, <1>5, <1>6 DEF S, n

LEMMA SaveStep ==
    ASSUME StreamsAreWhole
    PROVE  AggregatesInv /\ CountsInv /\ SaveInv /\ [Next]_vars => SaveInv'
<1> SUFFICES ASSUME AggregatesInv, CountsInv, SaveInv, [Next]_vars
             PROVE  SaveInv'
  OBVIOUS
<1>0. config.output_size \in Nat BY DEF AggregatesInv, Config
<1> USE DEF BeforeSeeding, Serving, Reporting, Goto, Leave, arguments, memory,
            loop, files, history, SavedIsDelivered
<1>1. CASE Rejected BY <1>1 DEF Rejected, SaveInv
<1>2. CASE AllocContext BY <1>2 DEF AllocContext, SaveInv
<1>3. CASE AllocBuffer
  <2>1. pc' = "entropy" => IsString(buffer', config.output_size)
    BY <1>3 DEF AllocBuffer, IsString
  <2> QED BY <1>3, <2>1 DEF AllocBuffer, SaveInv
<1>4. CASE ReadEntropy \/ ReadNonce
  BY <1>4 DEF ReadEntropy, ReadNonce, SaveInv
<1>5. CASE Instantiate
  <2>1. /\ UNCHANGED <<config, buffer, produced, delivered, file>>
        /\ pc = "instantiate"
        /\ \/ pc' = "request"
           \/ pc' = "cleanup" /\ status' # "SUCCESS"
    BY <1>5 DEF Instantiate
  <2>2. produced = 0 /\ delivered = <<>> BY <2>1 DEF CountsInv, SaveInv
  <2>3. delivered = [i \in 1 .. produced |-> buffer[i]] BY <2>2
  <2> QED BY <2>1, <2>2, <2>3, <1>0 DEF SaveInv
<1>6. CASE ReseedEntropy
  BY <1>6 DEF ReseedEntropy, Requesting, SaveInv
<1>7. CASE Reseed
  <2>1. /\ UNCHANGED <<config, buffer, produced, delivered, file>>
        /\ pc = "reseed"
        /\ \/ pc' = "reseeded"
           \/ pc' = "cleanup" /\ status' # "SUCCESS"
    BY <1>7 DEF Reseed, ReseedSucceeds, ReseedFails
  <2> QED BY <2>1 DEF SaveInv
<1>8. CASE Generate
  <2>1. /\ UNCHANGED <<config, file>>
        /\ pc \in {"request", "reseeded"} /\ produced < config.output_size
    BY <1>8 DEF Generate, Requesting, CountsInv
  <2>2. CASE reply'.status = "SUCCESS"
    <3>1. produced' = produced + RequestSize /\ pc' = "request"
      BY <1>8, <2>2 DEF Generate
    <3>2. delivered' = [i \in 1 .. produced' |-> buffer'[i]]
      BY <1>8, <2>2, <3>1, RequestDelivered
    <3>3. produced' \in 0 .. config.output_size
      BY <1>0, <2>1, <3>1, RequestCounted DEF SaveInv
    <3>4. IsString(buffer', config'.output_size)
      BY <1>8, <2>1, RequestDelivered
    <3> QED BY <2>1, <3>1, <3>2, <3>3, <3>4 DEF SaveInv
  <2>3. CASE reply'.status # "SUCCESS"
    BY <1>8, <2>3 DEF Generate, SaveInv
  <2> QED BY <2>2, <2>3
<1>9. CASE RepetitionPasses
  <2>1. /\ UNCHANGED <<config, buffer, file>>
        /\ pc = "request" /\ produced = config.output_size
        /\ \/ pc' = "request" /\ produced' = 0 /\ delivered' = <<>>
           \/ pc' = "finish" /\ UNCHANGED <<produced, delivered>>
    BY <1>9, RepetitionCounted DEF RepetitionPasses
  <2>2. produced' = 0 /\ delivered' = <<>> =>
            delivered' = [i \in 1 .. produced' |-> buffer'[i]]
    OBVIOUS
  <2> QED BY <1>0, <2>1, <2>2 DEF SaveInv
<1>10. CASE RepetitionFails BY <1>10 DEF RepetitionFails, SaveInv
<1>11. CASE Finish BY <1>11 DEF Finish, SaveInv
<1>12. CASE Save BY <1>12 DEF Save, SaveSucceeds, SaveFails, SaveInv
<1>13. CASE Report
  <2>1. /\ UNCHANGED <<config, buffer, produced, delivered, file>>
        /\ pc = "report" /\ pc' = "cleanup"
    BY <1>13 DEF Report, ReportFails
  <2>2. buffer = delivered
    BY <2>1 DEF SaveInv, IsString
  <2>3. Len(buffer) = config.output_size
    BY <1>0, <2>1, StringLength DEF SaveInv
  <2> QED BY <2>1, <2>2, <2>3 DEF SaveInv
<1>14. CASE Cleanup BY <1>14 DEF Cleanup, SaveInv
<1>15. CASE UNCHANGED vars BY <1>15 DEF vars, SaveInv
<1> QED
  BY <1>1, <1>2, <1>3, <1>4, <1>5, <1>6, <1>7, <1>8, <1>9, <1>10, <1>11, <1>12,
     <1>13, <1>14, <1>15
  DEF Next, Done

(* What a successful run saved is the output of its last repetition, all   *)
(* requests in order and nothing else, however its size falls on the limit *)
(* of a request and whatever the clock, the reseeds and the entropy were.  *)
THEOREM SavedOutput == StreamsAreWhole => (Spec => []SavedIsDelivered)
<1> SUFFICES ASSUME StreamsAreWhole PROVE Spec => []SavedIsDelivered
  OBVIOUS
<1> DEFINE Inv == AggregatesInv /\ CountsInv /\ SaveInv
<1>1. Init => Inv BY AggregatesInit, CountsInit, SaveInit
<1>2. Inv /\ [Next]_vars => Inv'
  BY AggregatesStep, CountsStep, SaveStep
<1>3. Inv => SavedIsDelivered BY DEF SaveInv
<1> QED BY <1>1, <1>2, <1>3, PTL DEF Spec

-----------------------------------------------------------------------------
(* What the mechanism is asked.                                            *)

(* A mechanism that fits its descriptor: it takes the seed material of the *)
(* entropy source and every request up to the descriptor's limit, and the  *)
(* two statuses that turn a call down never stand for a failure under way. *)
FitsDescriptor ==
    /\ "INVALID_ARGUMENT" \notin Faults /\ "RESEED_REQUIRED" \notin Faults
    /\ \A e \in Entropy, n \in Nonces :
           MayInstantiate(InstantiateCallOf([entropy |-> e, nonce |-> n]))
    /\ \A e \in Entropy : MayReseed(ReseedCallOf(e))
    /\ \A d \in Descriptors : \A n \in Nat \ {0} :
           d.max_request_size = 0 \/ n <= d.max_request_size =>
               MayGenerate(GenerateCallOf(n)) /\ ~TooLong(GenerateCallOf(n))

(* Every call is made with material that was read for it. *)
CallsInv ==
    /\ drbg \in Descriptors
    /\ pc \in {"start", "alloc_buffer", "entropy"} => seed = NoSeed
    /\ pc = "nonce" => \E e \in Entropy : seed = [NoSeed EXCEPT !.entropy = e]
    /\ pc = "instantiate" => \E e \in Entropy, n \in Nonces :
                                 seed = [entropy |-> e, nonce |-> n]
    /\ pc = "reseed" => fresh \in Entropy
    /\ CallsAccepted

LEMMA CallsInit == Init => CallsInv
BY DEF Init, CallsInv, CallsAccepted, Mechanism!Init, Mechanism!NoReply,
       Mechanism!Reply

LEMMA InstantiateAccepted ==
    ASSUME FitsDescriptor, CallsInv, Instantiate
    PROVE  reply'.status \notin {"INVALID_ARGUMENT", "RESEED_REQUIRED"}
<1>1. pc = "instantiate" BY DEF Instantiate
<1>2. MayInstantiate(InstantiateCallOf(seed))
  BY <1>1 DEF FitsDescriptor, CallsInv
<1> DEFINE c == InstantiateCallOf(seed)
<1>3. MayInstantiate(c) /\ Mechanism!Instantiate(c) BY <1>2 DEF Instantiate
<1> HIDE DEF c
<1> QED
  BY <1>3 DEF FitsDescriptor, Mechanism!Instantiate, Mechanism!Fails,
              Mechanism!Reply

LEMMA ReseedAccepted ==
    ASSUME FitsDescriptor, CallsInv, Reseed
    PROVE  reply'.status \notin {"INVALID_ARGUMENT", "RESEED_REQUIRED"}
<1>1. pc = "reseed" BY DEF Reseed
<1>2. MayReseed(ReseedCallOf(fresh)) BY <1>1 DEF FitsDescriptor, CallsInv
<1> DEFINE c == ReseedCallOf(fresh)
<1>3. MayReseed(c) /\ Mechanism!Reseed(c) BY <1>2 DEF Reseed
<1> HIDE DEF c
<1> QED
  BY <1>3 DEF FitsDescriptor, Mechanism!Reseed, Mechanism!Fails, Mechanism!Reply

(* A request asks for no more than the limit, and comes before the counter *)
(* of the mechanism has passed an interval that the configuration keeps.   *)
LEMMA GenerateAccepted ==
    ASSUME FitsDescriptor, AggregatesInv, CountsInv, SeedInv, CallsInv, Generate
    PROVE  /\ reply'.status # "INVALID_ARGUMENT"
           /\ reply'.status = "RESEED_REQUIRED"
                  => config.reseed_interval \notin 1 .. ReseedInterval
<1> DEFINE c == GenerateCallOf(RequestSize)
<1>1. /\ pc \in {"request", "reseeded"} /\ produced < config.output_size
      /\ pc = "request" => ~ReseedDue
  BY DEF Generate, Requesting, CountsInv
<1>2. RequestSize \in 1 .. config.output_size - produced
  BY <1>1, RequestCounted
<1>3. config.output_size \in Nat /\ produced \in Int
  <2>1. Limit \in Nat \ {0} /\ config.output_size \in Nat /\ Made \in Nat
    BY <1>1, RepetitionShape DEF CountsInv, Counted
  <2>2. Made * Limit \in Int BY <2>1
  <2> QED BY <1>1, <2>1, <2>2 DEF CountsInv, Counted, Least
<1>4. drbg \in Descriptors /\ drbg.max_request_size \in Nat
  BY DEF CallsInv, CountsInv, Descriptor
<1>5. drbg.max_request_size = 0 \/ RequestSize <= drbg.max_request_size
  BY <1>3, <1>4 DEF RequestSize
<1>6. RequestSize \in Nat \ {0} BY <1>2, <1>3
<1>7. MayGenerate(c) /\ ~TooLong(c)
  BY <1>4, <1>5, <1>6 DEF FitsDescriptor
<1>8. config.reseed_interval \in 1 .. ReseedInterval
          => reseed_counter <= ReseedInterval
  BY <1>1, BenchmarkAssumption DEF SeedInv, Serving, ReseedDue, Config
<1>9. Mechanism!Generate(c) BY DEF Generate
<1> HIDE DEF c
<1>10. reseed_counter \in Int BY <1>1 DEF SeedInv, Serving
<1> QED
  BY <1>7, <1>8, <1>9, <1>10, BenchmarkAssumption
  DEF FitsDescriptor, Mechanism!Generate, Mechanism!Fails, Mechanism!Reply

LEMMA CallsStep ==
    ASSUME FitsDescriptor
    PROVE  /\ AggregatesInv /\ CountsInv /\ SeedInv /\ CallsInv /\ [Next]_vars
           => CallsInv'
<1> SUFFICES ASSUME AggregatesInv, CountsInv, SeedInv, CallsInv, [Next]_vars
             PROVE  CallsInv'
  OBVIOUS
<1> USE DEF Goto, Leave, arguments, mechanism, memory
<1>1. CASE Rejected BY <1>1 DEF Rejected, CallsInv, CallsAccepted
<1>2. CASE AllocContext \/ AllocBuffer
  BY <1>2 DEF AllocContext, AllocBuffer, CallsInv, CallsAccepted
<1>3. CASE ReadEntropy
  BY <1>3 DEF ReadEntropy, CallsInv, CallsAccepted
<1>4. CASE ReadNonce
  <2>1. pc = "nonce" /\ pc' \in {"instantiate", "cleanup"}
        /\ UNCHANGED <<drbg, config, reply>>
    BY <1>4 DEF ReadNonce
  <2>2. pc' = "instantiate" => \E e \in Entropy, n \in Nonces :
                                   seed' = [entropy |-> e, nonce |-> n]
    <3> SUFFICES ASSUME pc' = "instantiate"
                 PROVE  \E e \in Entropy, n \in Nonces :
                            seed' = [entropy |-> e, nonce |-> n]
      OBVIOUS
    <3>1. PICK e \in Entropy : seed = [NoSeed EXCEPT !.entropy = e]
      BY <2>1 DEF CallsInv
    <3>2. PICK n \in Nonces : seed' = [seed EXCEPT !.nonce = n]
      BY <1>4 DEF ReadNonce
    <3>3. seed' = [entropy |-> e, nonce |-> n] BY <3>1, <3>2 DEF NoSeed
    <3> QED BY <3>3
  <2> QED BY <2>1, <2>2 DEF CallsInv, CallsAccepted
<1>5. CASE Instantiate
  BY <1>5, InstantiateAccepted DEF Instantiate, CallsInv, CallsAccepted
<1>6. CASE ReseedEntropy
  BY <1>6 DEF ReseedEntropy, Requesting, CallsInv, CallsAccepted
<1>7. CASE Reseed
  BY <1>7, ReseedAccepted
  DEF Reseed, ReseedSucceeds, ReseedFails, CallsInv, CallsAccepted
<1>8. CASE Generate
  BY <1>8, GenerateAccepted DEF Generate, CallsInv, CallsAccepted
<1>9. CASE RepetitionPasses \/ RepetitionFails
  BY <1>9 DEF RepetitionPasses, RepetitionFails, CallsInv, CallsAccepted
<1>10. CASE Finish
  BY <1>10
  DEF Finish, CallUninstantiate, Mechanism!Uninstantiate, Mechanism!Reply,
      CallsInv, CallsAccepted
<1>11. CASE Save \/ Report
  BY <1>11
  DEF Save, SaveSucceeds, SaveFails, Report, ReportFails, CallsInv, CallsAccepted
<1>12. CASE Cleanup
  BY <1>12
  DEF Cleanup, CallUninstantiate, Mechanism!Uninstantiate, Mechanism!Reply,
      CallsInv, CallsAccepted
<1>13. CASE UNCHANGED vars BY <1>13 DEF vars, CallsInv, CallsAccepted
<1> QED
  BY <1>1, <1>2, <1>3, <1>4, <1>5, <1>6, <1>7, <1>8, <1>9, <1>10, <1>11, <1>12,
     <1>13
  DEF Next, Done

(* A mechanism that fits its descriptor never turns down a call of the     *)
(* benchmark, but for a reseed that the configuration did not ask for in   *)
(* time: the benchmark checks none of its calls against the mechanism.     *)
THEOREM CallsAreAccepted == FitsDescriptor => (Spec => []CallsAccepted)
<1> SUFFICES ASSUME FitsDescriptor PROVE Spec => []CallsAccepted
  OBVIOUS
<1> DEFINE Inv == AggregatesInv /\ CountsInv /\ SeedInv /\ CallsInv
<1>1. Init => Inv BY AggregatesInit, CountsInit, SeedInit, CallsInit
<1>2. Inv /\ [Next]_vars => Inv'
  BY AggregatesStep, CountsStep, SeedStep, CallsStep
<1>3. Inv => CallsAccepted BY DEF CallsInv
<1> QED BY <1>1, <1>2, <1>3, PTL DEF Spec

-----------------------------------------------------------------------------
(* Verification of the dummy mechanism.                                    *)

(* The benchmark runs over Dummy, whose descriptor sets no limit, and on   *)
(* the sizes of the command line, which are whole numbers of KB.           *)
RunsDummy ==
    /\ "GENERATE_ERROR" \notin Faults
    /\ \A c : Seeds(c) = DummySeeds(c)
    /\ \A s, c : Reseeded(s, c) = DummyReseeded(s, c)
    /\ \A s, c, rc : Advance(s, c, rc) = DummyAdvance(s, c, rc)
    /\ \A s, c : Stream(s, c) = DummyStream(s, c)
    /\ \A output : Verifies(output) <=> DummyVerify(output)
    /\ \A d \in Descriptors : d.max_request_size = 0
    /\ \A k \in Configs : k.output_size % ByteBase = 0

LEMMA DummyStreamsAreWhole == RunsDummy => StreamsAreWhole
<1> SUFFICES ASSUME RunsDummy, NEW s, NEW n \in Nat
             PROVE  IsString(Stream(s, GenerateCallOf(n)), n)
  BY DEF StreamsAreWhole
<1>1. GenerateCallOf(n).output_len = n BY DEF GenerateCallOf
<1>2. Stream(s, GenerateCallOf(n)) = [i \in 1 .. n |-> (s + i - 1) % ByteBase]
  BY <1>1 DEF RunsDummy, DummyStream
<1> QED BY <1>2 DEF IsString

(* The counter of the mechanism stands at zero before every request: after *)
(* a seeding, a reseed, and a repetition that took it round whole turns.   *)
DummyInv ==
    /\ drbg \in Descriptors /\ config \in Configs
    /\ pc \in {"request", "reseed", "reseeded"} => state = 0
    /\ pc = "request" /\ produced = config.output_size => DummyVerify(buffer)
    /\ VerificationPasses

LEMMA DummyInit == Init => DummyInv
BY BenchmarkAssumption
DEF Init, DummyInv, VerificationPasses, CountsInv, Config, InvalidConfig

(* A repetition is one request, of the whole output. *)
LEMMA DummyRequest ==
    ASSUME RunsDummy, AggregatesInv, CountsInv, SaveInv, DummyInv, Generate,
           reply'.status = "SUCCESS"
    PROVE  state' = 0 /\ DummyVerify(buffer')
<1> DEFINE S == config.output_size  c == GenerateCallOf(RequestSize)
<1>1. /\ pc \in {"request", "reseeded"} /\ produced < S /\ state = 0
      /\ S \in Nat /\ S % ByteBase = 0 /\ drbg.max_request_size = 0
  BY DEF Generate, Requesting, CountsInv, DummyInv, RunsDummy, AggregatesInv,
         Config
<1>2. produced = 0
  <2>1. Limit = S /\ PerRepetition = 1 /\ S \in Nat \ {0}
    BY <1>1, RepetitionShape DEF Limit, PerRepetition, Requests
  <2>2. Made \in 0 .. 1 /\ produced = Least(Made * S, S)
    BY <1>1, <2>1 DEF CountsInv, Counted
  <2>3. 0 * S = 0 /\ 1 * S = S BY <1>1
  <2> QED BY <1>1, <2>1, <2>2, <2>3 DEF Least
<1>3. RequestSize = S BY <1>1, <1>2 DEF RequestSize
<1>4. c.output_len = S BY <1>3 DEF GenerateCallOf
<1>5. /\ reply'.bytes = DummyStream(0, c)
      /\ state' = DummyAdvance(0, c, reseed_counter)
  <2>1. Mechanism!Generate(c) BY DEF Generate
  <2> HIDE DEF c
  <2>2. reply'.bytes = Stream(state, c) /\ state' = Advance(state, c, reseed_counter)
    BY <2>1, BenchmarkAssumption
    DEF Mechanism!Generate, Mechanism!Fails, Mechanism!Reply
  <2> QED BY <1>1, <2>2 DEF RunsDummy
<1>6. state' = 0 BY <1>1, <1>4, <1>5 DEF DummyAdvance
<1>7. DummyVerify(buffer')
  <2>1. reply'.bytes = [i \in 1 .. S |-> (0 + i - 1) % ByteBase]
    BY <1>4, <1>5 DEF DummyStream
  <2>2. buffer' = Deliver(reply'.bytes) BY DEF Generate
  <2>3. DOMAIN buffer = 1 .. S
    BY <1>1 DEF SaveInv, Serving, IsString
  <2>4. DOMAIN buffer' = 1 .. S BY <2>2, <2>3 DEF Deliver
  <2>5. ASSUME NEW i \in 1 .. S PROVE buffer'[i] = (i - 1) % ByteBase
    <3>1. i - produced = i BY <1>1, <1>2
    <3>2. buffer'[i] = reply'.bytes[i] BY <2>1, <2>2, <2>3, <3>1 DEF Deliver
    <3>3. 0 + i - 1 = i - 1 BY <1>1
    <3> QED BY <2>1, <3>2, <3>3
  <2> QED BY <2>4, <2>5 DEF DummyVerify
<1> QED BY <1>6, <1>7

LEMMA DummyStep ==
    ASSUME RunsDummy
    PROVE  /\ AggregatesInv /\ CountsInv /\ SaveInv /\ DummyInv /\ [Next]_vars
           => DummyInv'
<1> SUFFICES ASSUME AggregatesInv, CountsInv, SaveInv, DummyInv, [Next]_vars
             PROVE  DummyInv'
  OBVIOUS
<1>0. \A s \in Faults : s # "GENERATE_ERROR" BY DEF RunsDummy
<1> USE DEF Goto, Leave, arguments, mechanism, memory, loop, VerificationPasses
<1>1. CASE Rejected BY <1>1 DEF Rejected, DummyInv
<1>2. CASE AllocContext \/ AllocBuffer \/ ReadEntropy \/ ReadNonce
  BY <1>2 DEF AllocContext, AllocBuffer, ReadEntropy, ReadNonce, DummyInv
<1>3. CASE Instantiate
  <2> DEFINE c == InstantiateCallOf(seed)
  <2>1. Mechanism!Instantiate(c) BY <1>3 DEF Instantiate
  <2> HIDE DEF c
  <2>2. /\ reply'.status = "SUCCESS" => state' = 0
        /\ reply'.status # "GENERATE_ERROR"
    BY <2>1, <1>0, BenchmarkAssumption
    DEF Mechanism!Instantiate, Mechanism!Fails, Mechanism!Reply, RunsDummy,
        DummySeeds
  <2>3. /\ UNCHANGED <<drbg, config, produced>> /\ pc = "instantiate"
        /\ \/ pc' = "request" /\ reply'.status = "SUCCESS" /\ UNCHANGED status
           \/ pc' = "cleanup" /\ status' = reply'.status
    BY <1>3 DEF Instantiate
  <2>4. produced # config.output_size
    BY <2>3, RepetitionShape DEF CountsInv, BeforeSeeding
  <2> QED BY <2>2, <2>3, <2>4 DEF DummyInv
<1>4. CASE ReseedEntropy BY <1>4 DEF ReseedEntropy, Requesting, DummyInv
<1>5. CASE Reseed
  <2> DEFINE c == ReseedCallOf(fresh)
  <2>1. Mechanism!Reseed(c) BY <1>5 DEF Reseed
  <2> HIDE DEF c
  <2>2. /\ reply'.status = "SUCCESS" => state' = 0
        /\ reply'.status # "GENERATE_ERROR"
    BY <2>1, <1>0, BenchmarkAssumption
    DEF Mechanism!Reseed, Mechanism!Fails, Mechanism!Reply, RunsDummy,
        DummyReseeded
  <2> QED BY <1>5, <2>2 DEF Reseed, ReseedSucceeds, ReseedFails, DummyInv
<1>6. CASE Generate
  <2> DEFINE c == GenerateCallOf(RequestSize)
  <2>1. Mechanism!Generate(c) BY <1>6 DEF Generate
  <2> HIDE DEF c
  <2>2. reply'.status # "GENERATE_ERROR"
    BY <2>1, <1>0
    DEF Mechanism!Generate, Mechanism!Fails, Mechanism!Reply
  <2>3. CASE reply'.status = "SUCCESS"
    BY <1>6, <2>3, DummyRequest DEF Generate, DummyInv
  <2>4. CASE reply'.status # "SUCCESS"
    BY <1>6, <2>2, <2>4 DEF Generate, DummyInv
  <2> QED BY <2>3, <2>4
<1>7. CASE RepetitionPasses
  <2>1. /\ UNCHANGED <<drbg, config, state, buffer, status>>
        /\ pc = "request" /\ pc' \in {"request", "finish"}
        /\ pc' = "request" => produced' = 0
    BY <1>7 DEF RepetitionPasses
  <2>2. config.output_size # 0 BY <2>1, RepetitionShape
  <2> QED BY <2>1, <2>2 DEF DummyInv
<1>8. CASE RepetitionFails
  <2>1. DummyVerify(buffer)
    BY <1>8, RepetitionCounted DEF RepetitionFails, DummyInv
  <2>2. VerifyStatus # "GENERATE_ERROR"
    BY <2>1 DEF VerifyStatus, RunsDummy
  <2> QED BY <1>8, <2>2 DEF RepetitionFails, DummyInv
<1>9. CASE Finish BY <1>9 DEF Finish, DummyInv
<1>10. CASE Save \/ Report
  BY <1>10
  DEF Save, SaveSucceeds, SaveFails, Report, ReportFails, DummyInv
<1>11. CASE Cleanup BY <1>11 DEF Cleanup, DummyInv
<1>12. CASE UNCHANGED vars BY <1>12 DEF vars, DummyInv
<1> QED
  BY <1>1, <1>2, <1>3, <1>4, <1>5, <1>6, <1>7, <1>8, <1>9, <1>10, <1>11, <1>12
  DEF Next, Done

(* Verification of the dummy mechanism never fails: not in the second      *)
(* repetition, whose counter goes on where the first one ended, and not    *)
(* after a reseed, which sets the counter back.                            *)
THEOREM VerificationOfDummy == RunsDummy => (Spec => []VerificationPasses)
<1> SUFFICES ASSUME RunsDummy PROVE Spec => []VerificationPasses
  OBVIOUS
<1> DEFINE Inv == AggregatesInv /\ CountsInv /\ SaveInv /\ DummyInv
<1>1. Init => Inv BY AggregatesInit, CountsInit, SaveInit, DummyInit
<1>2. Inv /\ [Next]_vars => Inv'
  BY AggregatesStep, CountsStep, SaveStep, DummyStreamsAreWhole, DummyStep
<1>3. Inv => VerificationPasses BY DEF DummyInv
<1> QED BY <1>1, <1>2, <1>3, PTL DEF Spec
=============================================================================
