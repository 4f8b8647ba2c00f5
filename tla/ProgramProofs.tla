---------------------------- MODULE ProgramProofs ----------------------------
(***************************************************************************)
(* Proofs about Program, for every set of command lines and every width of *)
(* the integers: what a run makes of its command line, and what its log    *)
(* says of it.                                                             *)
(***************************************************************************)
EXTENDS Program, SequenceTheorems, TLAPS

-----------------------------------------------------------------------------
(* Remainders of products. *)
LEMMA RemainderOfSum ==
    ASSUME NEW m \in Nat \ {0}, NEW q \in Nat, NEW r \in 0 .. m - 1
    PROVE  (m * q + r) % m = r
OBVIOUS

LEMMA Multiple ==
    ASSUME NEW m \in Nat \ {0}, NEW x \in Nat, NEW q \in Nat
    PROVE  (x + m * q) % m = x % m
<1> DEFINE d == x \div m  r == x % m
<1>1. d \in Nat /\ r \in 0 .. m - 1 /\ x = m * d + r
  OBVIOUS
<1> HIDE DEF d, r
<1>2. x + m * q = m * (d + q) + r
  <2>1. m * (d + q) = m * d + m * q BY <1>1
  <2> QED BY <1>1, <2>1
<1>3. d + q \in Nat BY <1>1
<1> QED BY <1>1, <1>2, <1>3, RemainderOfSum DEF r

LEMMA Split ==
    ASSUME NEW m \in Nat \ {0}, NEW x \in Nat
    PROVE  \E q \in Nat : x = (x % m) + m * q
<1>1. x \div m \in Nat /\ x = (x % m) + m * (x \div m) OBVIOUS
<1> QED BY <1>1

LEMMA Product ==
    ASSUME NEW m \in Nat \ {0}, NEW x \in Nat, NEW k \in Nat
    PROVE  ((x % m) * k) % m = (x * k) % m
<1>1. PICK q \in Nat : x = (x % m) + m * q BY Split
<1> DEFINE r == x % m
<1>2. r \in Nat OBVIOUS
<1> HIDE DEF r
<1>3. x * k = r * k + m * (q * k)
  <2>1. x = r + m * q BY <1>1 DEF r
  <2> QED BY <2>1, <1>2
<1>4. r * k \in Nat /\ q * k \in Nat BY <1>2
<1>5. (r * k + m * (q * k)) % m = (r * k) % m BY <1>4, Multiple
<1> QED BY <1>3, <1>5 DEF r

LEMMA Nested ==
    ASSUME NEW m \in Nat \ {0}, NEW u \in Nat \ {0}, u % m = 0, NEW x \in Nat
    PROVE  (x % u) % m = x % m
<1>1. PICK q \in Nat : x = (x % u) + u * q BY Split
<1>2. PICK w \in Nat : u = m * w
  <2>1. PICK w \in Nat : u = (u % m) + m * w BY Split
  <2>2. u = m * w BY <2>1
  <2> QED BY <2>2
<1> DEFINE r == x % u
<1>3. r \in Nat OBVIOUS
<1> HIDE DEF r
<1>4. x = r + m * (w * q)
  <2>1. u * q = m * (w * q) BY <1>2
  <2> QED BY <1>1, <2>1, <1>3 DEF r
<1>5. w * q \in Nat OBVIOUS
<1>6. (r + m * (w * q)) % m = r % m BY <1>3, <1>5, Multiple
<1> QED BY <1>4, <1>6 DEF r

LEMMA NumbersAreUll ==
    ASSUME NEW a \in Argument
    PROVE  strtoull(a) \in 0 .. UllRange - 1
<1>1. a.magnitude \in Nat BY DEF Argument
<1>2. \A i \in Int : i % UllRange \in 0 .. UllRange - 1
  BY RangesAssumption
<1> QED BY <1>1, <1>2, RangesAssumption DEF strtoull

(* One multiplication of KB, in unsigned long long and then size_t, agrees *)
(* modulo SizeRange with the product that was meant.                       *)
LEMMA KiloIsExact ==
    ASSUME NEW x \in Nat, NEW y \in Nat, x % SizeRange = y % SizeRange
    PROVE  /\ (x * Kilo) % UllRange \in Nat
           /\ ((x * Kilo) % UllRange) % SizeRange = (y * Kilo) % SizeRange
<1>1. x * Kilo \in Nat BY RangesAssumption
<1>2. ((x * Kilo) % UllRange) % SizeRange = (x * Kilo) % SizeRange
  BY <1>1, RangesAssumption, Nested
<1>3. ((x % SizeRange) * Kilo) % SizeRange = (x * Kilo) % SizeRange
  BY RangesAssumption, Product
<1>4. ((y % SizeRange) * Kilo) % SizeRange = (y * Kilo) % SizeRange
  BY RangesAssumption, Product
<1>5. (x * Kilo) % UllRange \in Nat BY <1>1, RangesAssumption
<1> QED BY <1>2, <1>3, <1>4, <1>5

LEMMA SizesAreExact ==
    ASSUME NEW a \in Argument, ~SizeInvalid(a)
    PROVE  parse_size(a) = (strtoull(a) * Unit(a.suffix)) % SizeRange
<1> DEFINE x == strtoull(a)
<1>1. x \in Nat BY NumbersAreUll, RangesAssumption
<1> HIDE DEF x
<1>2. Narrow(x) \in Nat /\ Narrow(x) % SizeRange = x % SizeRange
  <2>1. x % SizeRange \in 0 .. SizeRange - 1 BY <1>1, RangesAssumption
  <2>2. \A r \in 0 .. SizeRange - 1 : r % SizeRange = r BY RangesAssumption
  <2> QED BY <2>1, <2>2 DEF Narrow
<1>3. KB(x) \in Nat /\ KB(x) % SizeRange = (x * Kilo) % SizeRange
  BY <1>1, <1>2, KiloIsExact DEF KB
<1>4. x * Kilo \in Nat /\ x * Kilo * Kilo \in Nat
  BY <1>1, RangesAssumption
<1>5. MB(x) \in Nat /\ MB(x) % SizeRange = (x * Kilo * Kilo) % SizeRange
  BY <1>3, <1>4, KiloIsExact DEF MB
<1>6. GB(x) % SizeRange = (x * Kilo * Kilo * Kilo) % SizeRange
  BY <1>4, <1>5, KiloIsExact DEF GB
<1>7. /\ x * Kilo * Kilo = x * (Kilo * Kilo)
      /\ x * Kilo * Kilo * Kilo = x * (Kilo * Kilo * Kilo)
  BY <1>1, RangesAssumption
<1>8. a.suffix \in {"KB", "MB", "GB"} BY DEF SizeInvalid
<1>9. CASE a.suffix = "KB"
  BY <1>3, <1>9 DEF parse_size, Unit, Narrow, x
<1>10. CASE a.suffix = "MB"
  BY <1>5, <1>7, <1>10 DEF parse_size, Unit, Narrow, x
<1>11. CASE a.suffix = "GB"
  BY <1>6, <1>7, <1>11 DEF parse_size, Unit, Narrow, x
<1> QED BY <1>8, <1>9, <1>10, <1>11

-----------------------------------------------------------------------------
(* What a run knows at each point of its command line.                     *)

Config == [output_size : Nat, reseed_interval : Nat, repetitions : Nat,
           save_output : BOOLEAN, verify_output : BOOLEAN]

TypeOK ==
    /\ argv \in CommandLines \cup {<<>>}
    /\ arg \in Nat
    /\ pc \in {"idle", "generator", "size", "repetitions", "options", "header",
               "benchmark", "rejected", "exited"}
    /\ config \in Config

(* The log while the program runs. *)
LogInv ==
    /\ pc \in {"generator", "size", "repetitions", "options", "header", "rejected"}
           => csv = before
    /\ pc = "benchmark" => csv = <<Header>>
    /\ pc # "exited" => exit_code = "FAILURE"

GeneratorRead == Len(argv) >= 1 /\ argv[1].word \in registry
                 /\ drbg = argv[1].word

SizeRead == GeneratorRead /\ Len(argv) >= 2 /\ ~SizeInvalid(argv[2])
            /\ config.output_size = AskedSize

RepetitionsRead == SizeRead /\ (FirstOption = 4 => AskedRepetitions # 0)
                   /\ config.repetitions = AskedRepetitions

Before(S) == {p \in S : p < arg}

OptionRight(p) ==
    IF p \in Values THEN ~IntervalInvalid(argv[p])
    ELSE \/ argv[p].word \in Flags
         \/ argv[p].word = "--reseed" /\ p < Len(argv)

IntervalRead ==
    IF Before(Values) = {} THEN config.reseed_interval = 0
    ELSE \E p \in Before(Values) :
             /\ config.reseed_interval = strtoull(argv[p])
             /\ \A q \in Before(Values) : q <= p

(* The loop over the options, between two of its rounds: everything before *)
(* arg is right and in config, and the argument before arg is no --reseed, *)
(* whose value would come next.                                            *)
OptionsRead ==
    /\ RepetitionsRead
    /\ arg \in FirstOption .. Len(argv) + 1
    /\ arg > FirstOption => argv[arg - 1].word # "--reseed"
    /\ \A p \in Before(OptionArgs) : OptionRight(p)
    /\ config.save_output = (Before(Given("--save")) # {})
    /\ config.verify_output =
           \E p \in Before(Given("--verify")) :
               \A q \in Before(Given("--no-verify")) : q < p
    /\ IntervalRead

Fresh == config = [ZeroConfig EXCEPT !.output_size = config.output_size,
                                     !.repetitions = config.repetitions]

LineInv ==
    /\ pc = "size" => GeneratorRead /\ Fresh
                      /\ config.repetitions = DEFAULT_REPETITIONS
    /\ pc = "repetitions" => SizeRead /\ Fresh
                             /\ config.repetitions = DEFAULT_REPETITIONS
    /\ pc = "options" => OptionsRead

LEMMA LinesAreArguments ==
    ASSUME TypeOK
    PROVE  /\ argv \in Seq(Argument) /\ Len(argv) \in Nat
           /\ \A p \in 1 .. Len(argv) : argv[p] \in Argument
           /\ \A p \in 1 .. Len(argv) : argv[p].digits => argv[p].word = ""
<1>1. CASE argv = <<>>
  <2>1. argv \in Seq(Argument) BY <1>1
  <2>2. Len(argv) = 0 BY <1>1
  <2> QED BY <2>1, <2>2
<1>2. CASE argv \in CommandLines
  <2>1. argv \in Seq(Argument) BY <1>2, CommandLinesAssumption
  <2>2. \A p \in DOMAIN argv : argv[p].digits => argv[p].word = ""
    BY <1>2, CommandLinesAssumption
  <2>3. DOMAIN argv = 1 .. Len(argv) /\ Len(argv) \in Nat BY <2>1
  <2>4. \A p \in 1 .. Len(argv) : argv[p] \in Argument BY <2>1
  <2>5. \A p \in 1 .. Len(argv) : argv[p].digits => argv[p].word = ""
    BY <2>2, <2>3, Zenon
  <2> QED BY <2>1, <2>3, <2>4, <2>5
<1> QED BY <1>1, <1>2, Zenon DEF TypeOK

LEMMA ConfigsAreTyped ==
    ASSUME NEW a \in Argument
    PROVE  /\ Narrow(strtoull(a)) \in Nat /\ strtoull(a) \in Nat
           /\ parse_size(a) \in Nat
<1>1. strtoull(a) \in Nat BY NumbersAreUll, RangesAssumption
<1>2. \A i \in Int : i % UllRange \in Nat /\ i % SizeRange \in Nat
  BY RangesAssumption
<1>3. \A i \in Nat : i * Kilo \in Nat BY RangesAssumption
<1>4. \A i \in Nat : Narrow(i) \in Nat BY <1>2 DEF Narrow
<1>5. \A i \in Nat : KB(i) \in Nat BY <1>2, <1>3, <1>4 DEF KB
<1>6. \A i \in Nat : MB(i) \in Nat BY <1>2, <1>3, <1>5 DEF MB
<1>7. \A i \in Nat : GB(i) \in Nat BY <1>2, <1>3, <1>6 DEF GB
<1> QED BY <1>1, <1>4, <1>5, <1>6, <1>7 DEF parse_size

LEMMA Typed ==
    ASSUME TypeOK, [Next]_vars
    PROVE  TypeOK'
<1>0. /\ Len(argv) \in Nat
      /\ \A p \in 1 .. Len(argv) : argv[p] \in Argument
  BY LinesAreArguments
<1> USE DEF TypeOK
<1>1. CASE Run BY <1>1 DEF Run
<1>2. CASE Forget BY <1>2 DEF Forget, ZeroConfig, Config
<1>3. CASE Parse
  <2>1. CASE Reject BY <2>1 DEF Reject, Reading
  <2>2. CASE ReadGenerator
    <3>1. [ZeroConfig EXCEPT !.repetitions = DEFAULT_REPETITIONS] \in Config
      BY DEF ZeroConfig, Config, DEFAULT_REPETITIONS
    <3> QED BY <2>1, <2>2, <3>1 DEF ReadGenerator, Reading
  <2>3. CASE ReadSize
    <3>1. Len(argv) >= 2 => parse_size(argv[2]) \in Nat BY <1>0, ConfigsAreTyped
    <3>2. \A n \in Nat : [config EXCEPT !.output_size = n] \in Config
      BY DEF Config
    <3> QED BY <2>1, <2>3, <3>1, <3>2 DEF ReadSize, Reading
  <2>4. CASE ReadRepetitions
    <3>1. Len(argv) >= 3 => Narrow(strtoull(argv[3])) \in Nat BY <1>0, ConfigsAreTyped
    <3>2. \A n \in Nat : [config EXCEPT !.repetitions = n] \in Config
      BY DEF Config
    <3> QED BY <2>1, <2>4, <3>1, <3>2 DEF ReadRepetitions, Reading
  <2>5. CASE ReadFlag
    <3>1. \A word \in Flags : Flagged(config, word) \in Config
      BY DEF Flags, Flagged, Config
    <3> QED BY <2>5, <3>1 DEF ReadFlag, NextArg, Reading
  <2>6. CASE ReadReseed
    <3>1. arg + 1 <= Len(argv) => strtoull(argv[arg + 1]) \in Nat BY <1>0, ConfigsAreTyped
    <3>2. \A n \in Nat : [config EXCEPT !.reseed_interval = n] \in Config
      BY DEF Config
    <3>3. CASE ~Reject
      <4>1. /\ arg + 1 <= Len(argv) /\ arg' = arg + 2
            /\ config' = [config EXCEPT !.reseed_interval =
                                           strtoull(argv[arg + 1])]
            /\ UNCHANGED <<argv, pc>>
        BY <1>0, <2>6, <3>3 DEF ReadReseed, AtOption, Reading
      <4>2. config' \in Config BY <3>1, <3>2, <4>1
      <4> QED BY <4>1, <4>2
    <3> QED BY <2>1, <3>3
  <2>7. CASE ReadOther BY <2>1, <2>7 DEF ReadOther
  <2>8. CASE ReadAll BY <2>8 DEF ReadAll, Reading
  <2> QED BY <1>3, <2>2, <2>3, <2>4, <2>5, <2>6, <2>7, <2>8 DEF Parse
<1>4. CASE WriteHeader BY <1>4 DEF WriteHeader, Exit
<1>5. CASE RunBenchmark BY <1>5 DEF RunBenchmark, Exit
<1>6. CASE UNCHANGED vars BY <1>6 DEF vars
<1> QED BY <1>1, <1>2, <1>3, <1>4, <1>5, <1>6 DEF Next

LEMMA LogStep ==
    ASSUME LogInv, [Next]_vars
    PROVE  LogInv'
<1> USE DEF LogInv
<1>1. CASE Run BY <1>1 DEF Run
<1>2. CASE Forget BY <1>2 DEF Forget
<1>3. CASE Parse
  BY <1>3 DEF Parse, ReadGenerator, ReadSize, ReadRepetitions, ReadFlag,
              ReadReseed, ReadOther, ReadAll, AtOption, Reject, Reading
<1>4. CASE WriteHeader BY <1>4 DEF WriteHeader, Exit, FreshLog
<1>5. CASE RunBenchmark BY <1>5 DEF RunBenchmark, Exit
<1>6. CASE UNCHANGED vars BY <1>6 DEF vars
<1> QED BY <1>1, <1>2, <1>3, <1>4, <1>5, <1>6 DEF Next

LEMMA AppendTwo ==
    ASSUME NEW x, NEW y
    PROVE  Append(<<x>>, y) = <<x, y>>
<1>1. <<x>> \in Seq({x, y}) /\ Len(<<x>>) = 1 OBVIOUS
<1>2. /\ Append(<<x>>, y) \in Seq({x, y})
      /\ Len(Append(<<x>>, y)) = 2
      /\ Append(<<x>>, y)[1] = x /\ Append(<<x>>, y)[2] = y
  BY <1>1
<1>3. /\ <<x, y>> \in Seq({x, y}) /\ Len(<<x, y>>) = 2
      /\ <<x, y>>[1] = x /\ <<x, y>>[2] = y
  OBVIOUS
<1>4. \A i \in 1 .. 2 : Append(<<x>>, y)[i] = <<x, y>>[i]
  <2>1. \A i \in 1 .. 2 : i = 1 \/ i = 2 OBVIOUS
  <2> QED BY <1>2, <1>3, <2>1, Zenon
<1> QED BY <1>2, <1>3, <1>4, SeqEqual

(* The log at the end of a run. *)
LEMMA LogOfRun ==
    ASSUME TypeOK, LogInv, ExitTellsLog, [Next]_vars
    PROVE  ExitTellsLog'
<1> USE DEF LogInv, ExitTellsLog
<1>1. CASE Run BY <1>1 DEF Run
<1>2. CASE Forget BY <1>2 DEF Forget
<1>3. CASE Parse
  BY <1>3 DEF Parse, ReadGenerator, ReadSize, ReadRepetitions, ReadFlag,
              ReadReseed, ReadOther, ReadAll, AtOption, Reject, Reading
<1>4. CASE WriteHeader BY <1>4 DEF WriteHeader, Exit
<1>5. CASE RunBenchmark
  <2>1. PICK status \in Outcomes :
            /\ csv' = IF status = "SUCCESS"
                      THEN Append(csv, Row(drbg, config)) ELSE csv
            /\ Exit(ExitCode(status))
    BY <1>5 DEF RunBenchmark
  <2>2. csv = <<Header>> BY <1>5 DEF RunBenchmark
  <2>3. CASE status = "SUCCESS"
    <3>1. config.output_size > 0
      <4>1. config.output_size # 0 BY <2>3 DEF Outcomes
      <4>2. config.output_size \in Nat BY DEF TypeOK, Config
      <4> QED BY <4>1, <4>2
    <3>2. csv' = <<Header, Row(drbg, config)>>
      <4>1. csv' = Append(<<Header>>, Row(drbg, config))
        BY <2>1, <2>2, <2>3
      <4> QED BY <4>1, AppendTwo
    <3>3. Row(drbg, config)' = Row(drbg, config)
      BY <2>1 DEF Exit, Row
    <3>4. /\ pc' = "exited" /\ exit_code' = "SUCCESS"
          /\ config' = config
      BY <2>1, <2>3 DEF Exit, ExitCode
    <3> QED BY <3>1, <3>2, <3>3, <3>4
  <2>4. CASE status # "SUCCESS"
    BY <2>1, <2>2, <2>4 DEF Exit, ExitCode
  <2> QED BY <2>3, <2>4
<1>6. CASE UNCHANGED vars BY <1>6 DEF vars, Row
<1> QED BY <1>1, <1>2, <1>3, <1>4, <1>5, <1>6 DEF Next

-----------------------------------------------------------------------------
(* Reading the line. *)

LEMMA SameLine ==
    ASSUME argv' = argv
    PROVE  /\ FirstOption' = FirstOption /\ OptionArgs' = OptionArgs
           /\ Values' = Values
           /\ \A w : Given(w)' = Given(w)
           /\ AskedSize' = AskedSize /\ AskedRepetitions' = AskedRepetitions
           /\ AskedVerify' = AskedVerify
           /\ WellFormed' = WellFormed
           /\ \A p : OptionRight(p)' = OptionRight(p)
BY DEF FirstOption, OptionArgs, Values, Given, AskedSize, AskedRepetitions,
       AskedVerify, WellFormed, OptionRight

LEMMA GeneratorStep ==
    ASSUME TypeOK, ReadGenerator
    PROVE  LineInv' /\ ReadAsWritten'
<1> USE DEF ReadGenerator, Reading
<1>1. CASE Reject
  <2>1. ~(Len(argv) >= 1 /\ argv[1].word \in registry)
    BY <1>1 DEF Reject
  <2>2. ~WellFormed
    <3>1. Len(argv) \in Nat BY LinesAreArguments
    <3> QED BY <2>1, <3>1 DEF WellFormed
  <2> QED BY <1>1, <2>2, SameLine DEF Reject, LineInv, ReadAsWritten
<1>2. CASE ~Reject
  BY <1>2 DEF LineInv, ReadAsWritten, GeneratorRead, Fresh, ZeroConfig,
              DEFAULT_REPETITIONS
<1> QED BY <1>1, <1>2

LEMMA SizeStep ==
    ASSUME TypeOK, LineInv, ReadSize
    PROVE  LineInv' /\ ReadAsWritten'
<1> USE DEF ReadSize, Reading
<1>1. CASE Reject
  <2>1. ~(Len(argv) >= 2 /\ ~SizeInvalid(argv[2]))
    BY <1>1 DEF Reject
  <2>2. ~WellFormed BY <2>1 DEF WellFormed
  <2> QED BY <1>1, <2>2, SameLine DEF Reject, LineInv, ReadAsWritten
<1>2. CASE ~Reject
  <2>1. /\ Len(argv) >= 2 /\ ~SizeInvalid(argv[2])
        /\ config' = [config EXCEPT !.output_size = parse_size(argv[2])]
        /\ pc' = "repetitions" /\ argv' = argv /\ drbg' = drbg
    BY <1>2
  <2>2. GeneratorRead /\ Fresh /\ config.repetitions = DEFAULT_REPETITIONS
    BY DEF LineInv
  <2>3. parse_size(argv[2]) = AskedSize
    <3>1. argv[2] \in Argument
      <4>1. /\ Len(argv) \in Nat
            /\ \A p \in 1 .. Len(argv) : argv[p] \in Argument
        BY LinesAreArguments
      <4> QED BY <2>1, <4>1
    <3> QED BY <2>1, <3>1, SizesAreExact DEF AskedSize
  <2>4. SizeRead'
    <3>1. config'.output_size = AskedSize'
      BY <2>1, <2>3, SameLine DEF TypeOK, Config
    <3> QED BY <2>1, <2>2, <3>1 DEF SizeRead, GeneratorRead
  <2>5. Fresh' /\ config'.repetitions = DEFAULT_REPETITIONS
    BY <2>1, <2>2 DEF Fresh, ZeroConfig, TypeOK, Config
  <2> QED BY <2>1, <2>4, <2>5 DEF LineInv, ReadAsWritten
<1> QED BY <1>1, <1>2

LEMMA RepetitionsStep ==
    ASSUME TypeOK, LineInv, ReadRepetitions
    PROVE  LineInv' /\ ReadAsWritten'
<1>1. CASE Reject
  <2>1. FirstOption = 4 /\ Narrow(strtoull(argv[3])) = 0
    BY <1>1 DEF ReadRepetitions, Reject, FirstOption
  <2>2. ~WellFormed BY <2>1 DEF WellFormed
  <2> QED
    BY <1>1, <2>2, SameLine DEF Reject, Reading, LineInv, ReadAsWritten
<1>2. CASE ~Reject
  <2>1. /\ config' = [config EXCEPT !.repetitions = AskedRepetitions]
        /\ arg' = FirstOption
        /\ FirstOption = 4 => AskedRepetitions # 0
        /\ pc' = "options" /\ argv' = argv /\ drbg' = drbg
    <3>1. config.repetitions = DEFAULT_REPETITIONS
      BY DEF ReadRepetitions, LineInv
    <3>2. config = [config EXCEPT !.repetitions = config.repetitions]
      BY DEF TypeOK, Config
    <3> QED BY <1>2, <3>1, <3>2
            DEF ReadRepetitions, Reading, FirstOption, AskedRepetitions
  <2>2. SizeRead /\ Fresh BY DEF LineInv, ReadRepetitions
  <2>3. RepetitionsRead'
    <3>1. SizeRead'
      BY <2>1, <2>2, SameLine
      DEF SizeRead, GeneratorRead, TypeOK, Config
    <3>2. config'.repetitions = AskedRepetitions
      BY <2>1 DEF TypeOK, Config
    <3> QED BY <2>1, <3>1, <3>2, SameLine DEF RepetitionsRead
  <2>4. /\ config'.save_output = FALSE /\ config'.verify_output = FALSE
        /\ config'.reseed_interval = 0
    BY <2>1, <2>2 DEF Fresh, ZeroConfig, TypeOK, Config
  <2>5. FirstOption \in 3 .. Len(argv) + 1 /\ Len(argv) \in Nat
    <3>1. Len(argv) \in Nat BY LinesAreArguments
    <3> QED BY <2>2, <3>1 DEF FirstOption, SizeRead
  <2>6. \A S : S \subseteq OptionArgs => {p \in S : p < FirstOption} = {}
    <3> TAKE S
    <3> HAVE S \subseteq OptionArgs
    <3>1. ASSUME NEW p \in S PROVE ~(p < FirstOption)
      <4>1. p \in FirstOption .. Len(argv) BY DEF OptionArgs
      <4> QED BY <2>5, <4>1
    <3> QED BY <3>1
  <2>7. OptionsRead'
    <3>1. /\ Before(OptionArgs)' = {} /\ Before(Values)' = {}
          /\ \A w : Before(Given(w))' = {}
      <4>1. Values \subseteq OptionArgs /\ \A w : Given(w) \subseteq OptionArgs
        BY DEF Values, Given
      <4>2. \A S : S \subseteq OptionArgs => {p \in S : p < arg'} = {}
        BY <2>1, <2>6
      <4>3. /\ {p \in OptionArgs : p < arg'} = {}
            /\ {p \in Values : p < arg'} = {}
            /\ \A w : {p \in Given(w) : p < arg'} = {}
        BY <4>1, <4>2
      <4> QED BY <2>1, <4>3, SameLine DEF Before
    <3>2. IntervalRead' BY <2>4, <3>1 DEF IntervalRead
    <3>3. /\ config'.save_output = (Before(Given("--save"))' # {})
          /\ config'.verify_output =
                 \E p \in Before(Given("--verify"))' :
                     \A q \in Before(Given("--no-verify"))' : q < p
      BY <2>4, <3>1
    <3>4. /\ arg' \in FirstOption' .. Len(argv') + 1
          /\ ~(arg' > FirstOption')
      BY <2>1, <2>5, SameLine
    <3> QED BY <2>3, <3>1, <3>2, <3>3, <3>4 DEF OptionsRead
  <2> QED BY <2>1, <2>7 DEF LineInv, ReadAsWritten
<1> QED BY <1>1, <1>2

(* In a round of the loop, arg is an option and not another's value. *)
LEMMA RoundBegins ==
    ASSUME TypeOK, LineInv, AtOption
    PROVE  /\ OptionsRead
           /\ Len(argv) \in Nat /\ FirstOption \in {3, 4}
           /\ arg \in OptionArgs /\ arg \notin Values
<1>1. OptionsRead BY DEF AtOption, LineInv
<1>2. Len(argv) \in Nat BY LinesAreArguments
<1>3. FirstOption \in {3, 4} BY DEF FirstOption
<1>4. arg \in FirstOption .. Len(argv)
  BY <1>1, <1>2, <1>3 DEF AtOption, OptionsRead
<1> QED BY <1>1, <1>2, <1>3, <1>4 DEF OptionArgs, Values, OptionsRead

(* How the arguments read grow in a round. *)
LEMMA ReadGrows ==
    ASSUME arg \in Nat, NEW S, S \subseteq Int
    PROVE  /\ {p \in S : p < arg + 1} = Before(S) \cup (S \cap {arg})
           /\ {p \in S : p < arg + 2} = Before(S) \cup (S \cap {arg, arg + 1})
<1>1. ASSUME NEW p \in Int
      PROVE  /\ (p < arg + 1) <=> (p < arg \/ p = arg)
             /\ (p < arg + 2) <=> (p < arg \/ p = arg \/ p = arg + 1)
  OBVIOUS
<1>2. ASSUME NEW p
      PROVE  p \in {q \in S : q < arg + 1} <=> p \in Before(S) \cup (S \cap {arg})
  BY <1>1 DEF Before
<1>3. ASSUME NEW p
      PROVE  p \in {q \in S : q < arg + 2}
                 <=> p \in Before(S) \cup (S \cap {arg, arg + 1})
  BY <1>1 DEF Before
<1>4. {p \in S : p < arg + 1} = Before(S) \cup (S \cap {arg})
  BY <1>2
<1>5. {p \in S : p < arg + 2} = Before(S) \cup (S \cap {arg, arg + 1})
  BY <1>3
<1> QED BY <1>4, <1>5

LEMMA ArgumentsAreIntegers ==
    /\ OptionArgs \subseteq Int /\ Values \subseteq OptionArgs
    /\ \A w : Given(w) \subseteq OptionArgs
BY DEF OptionArgs, Values, Given

LEMMA FlagStep ==
    ASSUME TypeOK, LineInv, ReadFlag
    PROVE  LineInv' /\ ReadAsWritten'
<1> DEFINE word == argv[arg].word
<1>1. /\ AtOption /\ word \in Flags
      /\ config' = Flagged(config, word) /\ arg' = arg + 1
      /\ argv' = argv /\ pc' = "options" /\ drbg' = drbg
  BY DEF ReadFlag, Reading, NextArg, AtOption
<1>2. /\ OptionsRead /\ Len(argv) \in Nat /\ FirstOption \in {3, 4}
      /\ arg \in OptionArgs /\ arg \notin Values
  BY <1>1, RoundBegins
<1>3. \A S : S \subseteq OptionArgs
          => {p \in S : p < arg'} = Before(S) \cup (S \cap {arg})
  BY <1>1, ReadGrows, ArgumentsAreIntegers DEF TypeOK
<1>4. /\ Before(OptionArgs)' = Before(OptionArgs) \cup {arg}
      /\ Before(Values)' = Before(Values)
      /\ \A w : Before(Given(w))' = Before(Given(w)) \cup (Given(w) \cap {arg})
  <2>1. /\ {p \in OptionArgs : p < arg'}
              = Before(OptionArgs) \cup (OptionArgs \cap {arg})
        /\ {p \in Values : p < arg'} = Before(Values) \cup (Values \cap {arg})
        /\ \A w : {p \in Given(w) : p < arg'}
                     = Before(Given(w)) \cup (Given(w) \cap {arg})
    BY <1>3, ArgumentsAreIntegers
  <2> QED BY <1>1, <1>2, <2>1, SameLine DEF Before
<1>5. \A w : Given(w) \cap {arg} = IF w = word THEN {arg} ELSE {}
  BY <1>2 DEF Given
<1>6. RepetitionsRead'
  BY <1>1, <1>2, SameLine
  DEF OptionsRead, RepetitionsRead, SizeRead, GeneratorRead, Flagged, Flags,
      TypeOK, Config
<1>7. \A p \in Before(OptionArgs)' : OptionRight(p)'
  BY <1>1, <1>2, <1>4, SameLine DEF OptionsRead, OptionRight
<1>8. config'.save_output = (Before(Given("--save"))' # {})
  <2>1. config.save_output = (Before(Given("--save")) # {})
    BY <1>2 DEF OptionsRead
  <2>2. Before(Given("--save"))'
            = Before(Given("--save")) \cup IF word = "--save" THEN {arg} ELSE {}
    BY <1>4, <1>5
  <2> QED BY <1>1, <2>1, <2>2 DEF Flagged, Flags, TypeOK, Config
<1>9. config'.verify_output =
          \E p \in Before(Given("--verify"))' :
              \A q \in Before(Given("--no-verify"))' : q < p
  <2> DEFINE on == Before(Given("--verify"))
             off == Before(Given("--no-verify"))
  <2>1. config.verify_output = \E p \in on : \A q \in off : q < p
    BY <1>2 DEF OptionsRead
  <2>2. /\ on' = on \cup IF word = "--verify" THEN {arg} ELSE {}
        /\ off' = off \cup IF word = "--no-verify" THEN {arg} ELSE {}
    BY <1>4, <1>5
  <2>3. /\ arg \in Int
        /\ \A p \in on \cup off : p \in Int /\ p < arg
    <3>1. on \subseteq Int /\ off \subseteq Int
      BY ArgumentsAreIntegers DEF Before
    <3>2. \A p \in on \cup off : p < arg BY DEF Before
    <3> QED BY <3>1, <3>2 DEF TypeOK
  <2> HIDE DEF on, off
  <2>4. CASE word = "--save"
    <3>1. on' = on /\ off' = off BY <2>2, <2>4
    <3>2. config'.verify_output = config.verify_output
      BY <1>1, <2>4 DEF Flagged, TypeOK, Config
    <3> QED BY <2>1, <3>1, <3>2 DEF on, off
  <2>5. CASE word = "--verify"
    <3>1. arg \in on' /\ off' = off BY <2>2, <2>5
    <3>2. config'.verify_output = TRUE
      BY <1>1, <2>5 DEF Flagged, TypeOK, Config
    <3>3. \E p \in on' : \A q \in off' : q < p BY <2>3, <3>1
    <3> QED BY <3>2, <3>3 DEF on, off
  <2>6. CASE word = "--no-verify"
    <3>1. on' = on /\ arg \in off' BY <2>2, <2>6
    <3>2. config'.verify_output = FALSE
      BY <1>1, <2>6 DEF Flagged, TypeOK, Config
    <3>3. ~ \E p \in on' : \A q \in off' : q < p BY <2>3, <3>1
    <3> QED BY <3>2, <3>3 DEF on, off
  <2> QED BY <1>1, <2>4, <2>5, <2>6 DEF Flags
<1>10. IntervalRead'
  BY <1>1, <1>2, <1>4, SameLine
  DEF OptionsRead, IntervalRead, Flagged, Flags, TypeOK, Config
<1>11. /\ arg' \in FirstOption' .. Len(argv') + 1
       /\ argv'[arg' - 1].word # "--reseed"
  BY <1>1, <1>2, SameLine DEF OptionArgs, Flags, TypeOK
<1>12. OptionsRead'
  BY <1>6, <1>7, <1>8, <1>9, <1>10, <1>11 DEF OptionsRead
<1> QED BY <1>1, <1>12 DEF LineInv, ReadAsWritten

LEMMA ReseedStep ==
    ASSUME TypeOK, LineInv, ReadReseed
    PROVE  LineInv' /\ ReadAsWritten'
<1>1. /\ AtOption /\ argv[arg].word = "--reseed" /\ argv' = argv
      /\ drbg' = drbg
  BY DEF ReadReseed, Reading, Reject
<1>2. /\ OptionsRead /\ Len(argv) \in Nat /\ FirstOption \in {3, 4}
      /\ arg \in OptionArgs /\ arg \notin Values
  BY <1>1, RoundBegins
<1>3. arg + 1 \in Values <=> arg + 1 <= Len(argv)
  BY <1>1, <1>2 DEF Values, OptionArgs
<1>4. CASE Reject
  <2>1. arg + 1 > Len(argv) \/ IntervalInvalid(argv[arg + 1])
    BY <1>4 DEF ReadReseed, Reject, AtOption, TypeOK
  <2>2. CASE arg + 1 > Len(argv)
    <3>1. ~(arg < Len(argv)) /\ argv[arg].word \notin Flags
      BY <1>1, <1>2, <2>2 DEF OptionArgs, Flags
    <3>2. ~WellFormed BY <1>1, <1>2, <3>1 DEF WellFormed
    <3> QED BY <1>1, <1>4, <3>2, SameLine DEF Reject, LineInv, ReadAsWritten
  <2>3. CASE arg + 1 <= Len(argv) /\ IntervalInvalid(argv[arg + 1])
    <3>1. arg + 1 \in Values /\ arg + 1 \in OptionArgs
      BY <1>3, <2>3, ArgumentsAreIntegers
    <3>2. ~WellFormed BY <2>3, <3>1 DEF WellFormed
    <3> QED BY <1>1, <1>4, <3>2, SameLine DEF Reject, LineInv, ReadAsWritten
  <2> QED BY <1>2, <2>1, <2>2, <2>3 DEF TypeOK
<1>5. CASE ~Reject
  <2>1. /\ arg + 1 <= Len(argv) /\ ~IntervalInvalid(argv[arg + 1])
        /\ config' = [config EXCEPT !.reseed_interval =
                                        strtoull(argv[arg + 1])]
        /\ arg' = arg + 2 /\ pc' = "options"
    BY <1>2, <1>5 DEF ReadReseed, AtOption, TypeOK
  <2>2. argv[arg + 1].word = ""
    <3>1. argv[arg + 1].digits BY <2>1 DEF IntervalInvalid
    <3>2. arg + 1 \in 1 .. Len(argv) BY <1>2, <2>1 DEF TypeOK
    <3> QED BY <3>1, <3>2, LinesAreArguments
  <2>3. arg + 1 \in Values /\ arg + 1 \in OptionArgs
    BY <1>3, <2>1, ArgumentsAreIntegers
  <2>4. \A S : S \subseteq OptionArgs
            => {p \in S : p < arg'} = Before(S) \cup (S \cap {arg, arg + 1})
    BY <2>1, ReadGrows, ArgumentsAreIntegers DEF TypeOK
  <2>5. \A w \in Flags : Given(w) \cap {arg, arg + 1} = {}
    BY <1>1, <2>2 DEF Given, Flags
  <2>6. /\ Before(OptionArgs)' = Before(OptionArgs) \cup {arg, arg + 1}
        /\ Before(Values)' = Before(Values) \cup {arg + 1}
        /\ \A w \in Flags : Before(Given(w))' = Before(Given(w))
    <3>1. /\ {p \in OptionArgs : p < arg'}
                = Before(OptionArgs) \cup (OptionArgs \cap {arg, arg + 1})
          /\ {p \in Values : p < arg'}
                = Before(Values) \cup (Values \cap {arg, arg + 1})
          /\ \A w : {p \in Given(w) : p < arg'}
                       = Before(Given(w)) \cup (Given(w) \cap {arg, arg + 1})
      BY <2>4, ArgumentsAreIntegers
    <3>2. /\ OptionArgs \cap {arg, arg + 1} = {arg, arg + 1}
          /\ Values \cap {arg, arg + 1} = {arg + 1}
      BY <1>2, <2>3
    <3> QED BY <1>1, <2>5, <3>1, <3>2, SameLine DEF Before
  <2>7. RepetitionsRead'
    BY <1>1, <1>2, <2>1, SameLine
    DEF OptionsRead, RepetitionsRead, SizeRead, GeneratorRead, TypeOK, Config
  <2>8. \A p \in Before(OptionArgs)' : OptionRight(p)'
    <3>1. OptionRight(arg) BY <1>1, <1>2, <2>1 DEF OptionRight, TypeOK
    <3>2. OptionRight(arg + 1) BY <2>1, <2>3 DEF OptionRight
    <3> QED BY <1>1, <1>2, <2>6, <3>1, <3>2, SameLine DEF OptionsRead
  <2>9. /\ config'.save_output = (Before(Given("--save"))' # {})
        /\ config'.verify_output =
               \E p \in Before(Given("--verify"))' :
                   \A q \in Before(Given("--no-verify"))' : q < p
    <3>1. /\ config'.save_output = config.save_output
          /\ config'.verify_output = config.verify_output
      BY <2>1 DEF TypeOK, Config
    <3>2. /\ Before(Given("--save"))' = Before(Given("--save"))
          /\ Before(Given("--verify"))' = Before(Given("--verify"))
          /\ Before(Given("--no-verify"))' = Before(Given("--no-verify"))
      BY <2>6 DEF Flags
    <3> QED BY <1>2, <3>1, <3>2 DEF OptionsRead
  <2>10. IntervalRead'
    <3>1. config'.reseed_interval = strtoull(argv[arg + 1])
      BY <2>1 DEF TypeOK, Config
    <3>2. \A q \in Before(Values)' : q <= arg + 1
      <4>1. Before(Values) \subseteq Int /\ \A q \in Before(Values) : q < arg
        BY ArgumentsAreIntegers DEF Before
      <4> QED BY <2>6, <4>1 DEF TypeOK
    <3> QED BY <1>1, <2>6, <3>1, <3>2 DEF IntervalRead
  <2>11. /\ arg' \in FirstOption' .. Len(argv') + 1
         /\ argv'[arg' - 1].word # "--reseed"
    <3>1. arg' - 1 = arg + 1 BY <2>1 DEF TypeOK
    <3>2. argv'[arg' - 1].word # "--reseed" BY <1>1, <2>2, <3>1
    <3>3. arg + 2 \in FirstOption .. Len(argv) + 1
      BY <1>2, <2>1 DEF OptionArgs, TypeOK
    <3> QED BY <1>1, <2>1, <3>2, <3>3, SameLine
  <2>12. OptionsRead'
    BY <2>7, <2>8, <2>9, <2>10, <2>11 DEF OptionsRead
  <2> QED BY <2>1, <2>12 DEF LineInv, ReadAsWritten
<1> QED BY <1>4, <1>5

LEMMA OtherStep ==
    ASSUME TypeOK, LineInv, ReadOther
    PROVE  LineInv' /\ ReadAsWritten'
<1>1. /\ AtOption /\ argv[arg].word \notin Flags \cup {"--reseed"}
      /\ pc' = "rejected" /\ argv' = argv
  BY DEF ReadOther, Reject, Reading
<1>2. arg \in OptionArgs /\ arg \notin Values BY <1>1, RoundBegins
<1>3. ~WellFormed BY <1>1, <1>2 DEF WellFormed
<1> QED BY <1>1, <1>3, SameLine DEF LineInv, ReadAsWritten

LEMMA EndStep ==
    ASSUME TypeOK, LineInv, ReadAll
    PROVE  LineInv' /\ ReadAsWritten'
<1>1. /\ OptionsRead /\ arg > Len(argv) /\ pc' = "header"
      /\ UNCHANGED <<argv, drbg, config>>
  BY DEF ReadAll, Reading, LineInv
<1>2. Len(argv) \in Nat BY LinesAreArguments
<1>3. /\ Before(OptionArgs) = OptionArgs /\ Before(Values) = Values
      /\ \A w : Before(Given(w)) = Given(w)
  <2>1. \A p \in OptionArgs : p < arg
    BY <1>1, <1>2 DEF OptionArgs, FirstOption, TypeOK
  <2> QED BY <2>1, ArgumentsAreIntegers DEF Before
<1>4. WellFormed
  BY <1>1, <1>3
  DEF WellFormed, OptionsRead, RepetitionsRead, SizeRead, GeneratorRead,
      OptionRight, AskedRepetitions
<1>5. drbg = argv[1].word
  BY <1>1 DEF OptionsRead, RepetitionsRead, SizeRead, GeneratorRead
<1>6. Asked(config)
  BY <1>1, <1>3
  DEF Asked, OptionsRead, RepetitionsRead, SizeRead, AskedVerify,
      IntervalRead, AskedInterval
<1>7. Asked(config)' = Asked(config)
  BY <1>1, SameLine DEF Asked, AskedInterval
<1> QED BY <1>1, <1>4, <1>5, <1>6, <1>7, SameLine DEF LineInv, ReadAsWritten

LEMMA LineStep ==
    ASSUME TypeOK, LineInv, ReadAsWritten, [Next]_vars
    PROVE  LineInv' /\ ReadAsWritten'
<1>1. CASE Run BY <1>1 DEF Run, LineInv, ReadAsWritten
<1>2. CASE Forget BY <1>2 DEF Forget, LineInv, ReadAsWritten
<1>3. CASE Parse
  BY <1>3, GeneratorStep, SizeStep, RepetitionsStep, FlagStep, ReseedStep,
     OtherStep, EndStep
  DEF Parse
<1>4. CASE WriteHeader
  <2>1. /\ pc = "header" /\ pc' \in {"benchmark", "exited"}
        /\ UNCHANGED <<argv, drbg, config>>
    BY <1>4 DEF WriteHeader, Exit
  <2>2. Asked(config)' = Asked(config)
    BY <2>1, SameLine DEF Asked, AskedInterval
  <2> QED BY <2>1, <2>2, SameLine DEF LineInv, ReadAsWritten
<1>5. CASE RunBenchmark
  BY <1>5 DEF RunBenchmark, Exit, LineInv, ReadAsWritten
<1>6. CASE UNCHANGED vars
  <2>1. Asked(config)' = Asked(config)
    BY <1>6, SameLine DEF vars, Asked, AskedInterval
  <2>2. OptionsRead' = OptionsRead
    BY <1>6, SameLine
    DEF vars, OptionsRead, RepetitionsRead, SizeRead, GeneratorRead, Before,
        IntervalRead
  <2>3. SizeRead' = SizeRead /\ GeneratorRead' = GeneratorRead /\ Fresh' = Fresh
    BY <1>6, SameLine DEF vars, SizeRead, GeneratorRead, Fresh
  <2> QED BY <1>6, <2>1, <2>2, <2>3, SameLine DEF vars, LineInv, ReadAsWritten
<1> QED BY <1>1, <1>2, <1>3, <1>4, <1>5, <1>6 DEF Next

-----------------------------------------------------------------------------
(* Theorems. *)

(* Whatever is typed, cli_parse_arguments accepts it exactly when it is a  *)
(* line of the grammar, and benchmark_run is given what the line asks for. *)
THEOREM LinesAreRead == Spec => []ReadAsWritten
<1>1. Init => TypeOK /\ LineInv /\ ReadAsWritten
  BY DEF Init, TypeOK, LineInv, ReadAsWritten, ZeroConfig, Config
<1>2. TypeOK /\ LineInv /\ ReadAsWritten /\ [Next]_vars
          => TypeOK' /\ LineInv' /\ ReadAsWritten'
  BY Typed, LineStep
<1> QED BY <1>1, <1>2, PTL DEF Spec

(* Whatever earlier runs left in the log, and whatever fails: a run exits  *)
(* in success exactly with a log of its header and its own row.            *)
THEOREM LogIsTold == Spec => []ExitTellsLog
<1>1. Init => TypeOK /\ LogInv /\ ExitTellsLog
  BY DEF Init, TypeOK, LogInv, ExitTellsLog, ZeroConfig, Config
<1>2. TypeOK /\ LogInv /\ ExitTellsLog /\ [Next]_vars
          => TypeOK' /\ LogInv' /\ ExitTellsLog'
  BY Typed, LogStep, LogOfRun
<1> QED BY <1>1, <1>2, PTL DEF Spec
-----------------------------------------------------------------------------
(* Every step brings a run nearer to its exit.                             *)

LEMMA Places ==
    /\ Place["generator"] = 6 /\ Place["size"] = 5 /\ Place["repetitions"] = 4
    /\ Place["options"] = 3 /\ Place["header"] = 2 /\ Place["benchmark"] = 1
BY DEF Place

(* The next argument is never more than one behind the last. *)
ArgInv ==
    /\ pc \in {"idle", "generator"} => arg = 1
    /\ pc = "size" => arg = 2 /\ Len(argv) >= 1
    /\ pc = "repetitions" => arg = 3 /\ Len(argv) >= 2
    /\ pc \in {"options", "header", "benchmark"} => arg <= Len(argv) + 1

LEMMA ArgStep ==
    ASSUME TypeOK, ArgInv, [Next]_vars
    PROVE  ArgInv'
<1>0. Len(argv) \in Nat /\ arg \in Nat BY LinesAreArguments DEF TypeOK
<1> USE DEF ArgInv
<1>1. CASE Run BY <1>1 DEF Run
<1>2. CASE Forget BY <1>2 DEF Forget
<1>3. CASE Parse
  BY <1>0, <1>3
  DEF Parse, ReadGenerator, ReadSize, ReadRepetitions, ReadFlag, ReadReseed,
      ReadOther, ReadAll, AtOption, Reject, Reading, NextArg
<1>4. CASE WriteHeader BY <1>4 DEF WriteHeader, Exit
<1>5. CASE RunBenchmark BY <1>5 DEF RunBenchmark, Exit
<1>6. CASE UNCHANGED vars BY <1>6 DEF vars
<1> QED BY <1>1, <1>2, <1>3, <1>4, <1>5, <1>6 DEF Next

LEMMA FewerStepsLeft ==
    ASSUME TypeOK, ArgInv, ArgInv', Next, UnderWay
    PROVE  StepsLeft' \in 0 .. StepsLeft - 1
<1> DEFINE Stages == {"generator", "size", "repetitions", "options", "header",
                      "benchmark"}
<1>1. Len(argv) \in Nat /\ arg \in Nat BY LinesAreArguments DEF TypeOK
<1>2. pc \in Stages /\ StepsLeft = Place[pc] + Len(argv) + 1 - arg
  BY DEF StepsLeft, UnderWay, Place
<1>3. /\ pc' \in Stages => StepsLeft' = Place[pc'] + Len(argv') + 1 - arg'
      /\ pc' \notin Stages => StepsLeft' = 0
  BY DEF StepsLeft, UnderWay, Place
<1>4. StepsLeft \in Nat \ {0} BY <1>1, <1>2, Places DEF ArgInv
<1>5. CASE pc' \in {"rejected", "exited"} BY <1>3, <1>4, <1>5
<1>6. CASE pc' \notin {"rejected", "exited"}
  <2>1. CASE Run \/ Forget BY <1>2, <2>1 DEF Run, Forget
  <2>2. CASE Parse
    <3>1. /\ argv' = argv
          /\ \/ pc = "generator" /\ pc' = "size" /\ arg' = 2
             \/ pc = "size" /\ pc' = "repetitions" /\ arg' = 3
             \/ pc = "repetitions" /\ pc' = "options" /\ arg' \in {3, 4}
             \/ pc = "options" /\ pc' = "options" /\ arg' \in {arg + 1, arg + 2}
             \/ pc = "options" /\ pc' = "header" /\ arg' = arg
      BY <1>6, <2>2
      DEF Parse, ReadGenerator, ReadSize, ReadRepetitions, ReadFlag, ReadReseed,
          ReadOther, ReadAll, AtOption, Reject, Reading, NextArg
    <3> DEFINE n == Place[pc] + Len(argv) + 1 - arg
               m == Place[pc'] + Len(argv) + 1 - arg'
    <3>2. StepsLeft = n /\ StepsLeft' = m BY <1>2, <1>3, <3>1
    <3>3. m \in 0 .. n - 1
      <4>1. CASE pc' = "size" \/ pc' = "repetitions"
        BY <1>1, <3>1, <4>1, Places DEF ArgInv
      <4>2. CASE pc' = "options" /\ pc = "repetitions"
        BY <1>1, <3>1, <4>2, Places DEF ArgInv
      <4>3. CASE pc' = "options" /\ pc = "options"
        BY <1>1, <3>1, <4>3, Places DEF ArgInv
      <4>4. CASE pc' = "header" BY <1>1, <3>1, <4>4, Places DEF ArgInv
      <4> QED BY <3>1, <4>1, <4>2, <4>3, <4>4
    <3> QED BY <3>2, <3>3
  <2>3. CASE WriteHeader
    <3>1. pc = "header" /\ pc' = "benchmark" /\ UNCHANGED <<argv, arg>>
      BY <1>6, <2>3 DEF WriteHeader, Exit
    <3> QED BY <1>1, <1>2, <1>3, <3>1, Places DEF ArgInv
  <2>4. CASE RunBenchmark BY <1>6, <2>4 DEF RunBenchmark, Exit
  <2> QED BY <2>1, <2>2, <2>3, <2>4 DEF Next
<1> QED BY <1>5, <1>6

(* A run of the program counts down to its exit, in at most six steps more *)
(* than its command line has arguments, whatever is typed.                 *)
THEOREM EveryStepAdvances == Spec => RunAdvances
<1>1. Init => TypeOK /\ ArgInv
  BY DEF Init, TypeOK, ArgInv, ZeroConfig, Config
<1>2. TypeOK /\ ArgInv /\ [Next]_vars => TypeOK' /\ ArgInv'
  BY Typed, ArgStep
<1>3. TypeOK /\ ArgInv /\ ArgInv' /\ [Next]_vars
          => [UnderWay => StepsLeft' \in 0 .. StepsLeft - 1]_vars
  BY FewerStepsLeft
<1> QED BY <1>1, <1>2, <1>3, PTL DEF Spec, RunAdvances
=============================================================================
