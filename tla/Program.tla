------------------------------- MODULE Program -------------------------------
(***************************************************************************)
(* main of src/main.c with cli_parse_arguments of src/cli.c and the log of *)
(* src/csv.c: runs of the program, one after the other, over the one CSV   *)
(* file they leave behind.                                                 *)
(*                                                                         *)
(* A run reads its command line argument by argument, starts the log       *)
(* afresh, and hands the configuration to benchmark_run, which is one step *)
(* here: Benchmark has its own module, and what main relies on is its      *)
(* RowMeansSuccess.  entropy_initialize and entropy_shutdown only log and  *)
(* cannot fail, so the branches of main on their status are dead.          *)
(***************************************************************************)
EXTENDS Integers, Sequences

CONSTANTS
    CommandLines,    \* what may be typed after the program's name
    Kilo,            \* the 1024 of KB, MB and GB
    SizeRange,       \* SIZE_MAX + 1
    UllRange,        \* ULLONG_MAX + 1
    Failures         \* how benchmark_run may fail whatever it is asked for

ASSUME RangesAssumption ==
    /\ Kilo \in Nat \ {0} /\ SizeRange \in Nat \ {0}
    /\ UllRange \in Nat \ {0} /\ UllRange % SizeRange = 0

DEFAULT_REPETITIONS == 100

registry == {"dummy", "hash", "hmac"}

Flags   == {"--save", "--verify", "--no-verify"}
Options == Flags \cup {"--reseed", "--help", "--other"}

(* An argument is what the comparisons and strtoull see of it: the word it *)
(* is, or a number with a sign and the two capitals that follow it.        *)
Argument == [word : registry \cup Options \cup {""},
             digits : BOOLEAN, negative : BOOLEAN, magnitude : Nat,
             suffix : {"", "KB", "MB", "GB", "other"}]

ASSUME CommandLinesAssumption ==
    /\ CommandLines \subseteq Seq(Argument)
    /\ \A line \in CommandLines : \A p \in DOMAIN line :
           line[p].digits => line[p].word = ""
    /\ Failures \subseteq STRING \ {"SUCCESS"}

VARIABLES
    argv, arg,          \* the command line and the argument read next
    pc,
    drbg, config,
    csv,                \* the lines of the log
    exit_code,
    before              \* history: the log when this run began

vars == <<argv, arg, pc, drbg, config, csv, exit_code, before>>

ZeroConfig == [output_size |-> 0, reseed_interval |-> 0, repetitions |-> 0,
               save_output |-> FALSE, verify_output |-> FALSE]

Header == [line |-> "header"]

Row(generator, c) == [line |-> "row", drbg |-> generator,
                      output_size |-> c.output_size,
                      repetitions |-> c.repetitions]

Init ==
    /\ argv = <<>> /\ arg = 1 /\ pc = "idle"
    /\ drbg = "NULL" /\ config = ZeroConfig
    /\ csv = <<>> /\ exit_code = "FAILURE" /\ before = <<>>

Run ==
    /\ pc = "idle"
    /\ argv' \in CommandLines /\ pc' = "generator" /\ before' = csv
    /\ UNCHANGED <<arg, drbg, config, csv, exit_code>>

(* Nothing but the log survives a run. *)
Forget ==
    /\ pc \in {"rejected", "exited"}
    /\ argv' = <<>> /\ arg' = 1 /\ pc' = "idle"
    /\ drbg' = "NULL" /\ config' = ZeroConfig /\ exit_code' = "FAILURE"
    /\ before' = <<>>
    /\ UNCHANGED csv

-----------------------------------------------------------------------------
(* cli_parse_arguments *)

Narrow(x) == x % SizeRange    \* an unsigned long long as a size_t

(* Too large a number becomes ULLONG_MAX; a minus sign negates in unsigned *)
(* arithmetic; no digits give zero.                                        *)
strtoull(a) ==
    IF ~a.digits                    THEN 0
    ELSE IF a.magnitude >= UllRange THEN UllRange - 1
    ELSE IF a.negative              THEN (UllRange - a.magnitude) % UllRange
    ELSE                                 a.magnitude

KB(x) == (Narrow(x) * Kilo) % UllRange
MB(x) == (KB(x) * Kilo) % UllRange
GB(x) == (MB(x) * Kilo) % UllRange

parse_size_Bug(a) ==    \* a megabyte is a kilobyte's kilobyte, once too few
    Narrow(IF a.suffix = "GB" THEN MB(strtoull(a)) ELSE KB(strtoull(a)))

parse_size(a) ==
    LET value == strtoull(a)
    IN  Narrow(CASE a.suffix = "KB" -> KB(value)
                 [] a.suffix = "MB" -> MB(value)
                 [] a.suffix = "GB" -> GB(value)
                 [] OTHER           -> 0)

SizeInvalid(a) ==
    \/ ~a.digits \/ strtoull(a) = 0
    \/ a.suffix \notin {"KB", "MB", "GB"}

Reading == UNCHANGED <<argv, csv, exit_code, before>>

(* Every refusal of cli_parse_arguments ends the run. *)
Reject == pc' = "rejected" /\ Reading /\ UNCHANGED <<arg, drbg, config>>

ReadGenerator ==
    /\ pc = "generator"
    /\ IF Len(argv) >= 1 /\ argv[1].word \in registry
       THEN /\ drbg' = argv[1].word
            /\ config' = [ZeroConfig EXCEPT !.repetitions = DEFAULT_REPETITIONS]
            /\ arg' = 2 /\ pc' = "size" /\ Reading
       ELSE Reject

ReadSize ==
    /\ pc = "size"
    /\ IF Len(argv) >= 2 /\ ~SizeInvalid(argv[2])
       THEN /\ config' = [config EXCEPT !.output_size = parse_size(argv[2])]
            /\ arg' = 3 /\ pc' = "repetitions" /\ Reading /\ UNCHANGED drbg
       ELSE Reject

(* The number of repetitions may be left out: anything that does not begin *)
(* like an option is taken for it, and must not be zero.                   *)
ReadRepetitions ==
    /\ pc = "repetitions"
    /\ LET given       == Len(argv) >= 3 /\ argv[3].word \notin Options
           repetitions == Narrow(strtoull(argv[3]))
       IN  IF given /\ repetitions = 0 THEN Reject
           ELSE /\ config' = IF given
                             THEN [config EXCEPT !.repetitions = repetitions]
                             ELSE config
                /\ arg' = IF given THEN 4 ELSE 3
                /\ pc' = "options" /\ Reading /\ UNCHANGED drbg

AtOption == pc = "options" /\ arg <= Len(argv)

Flagged_Bug(c, word) ==    \* once on, verification stays on
    CASE word = "--save"   -> [c EXCEPT !.save_output = TRUE]
      [] word = "--verify" -> [c EXCEPT !.verify_output = TRUE]
      [] OTHER             -> c

Flagged(c, word) ==
    CASE word = "--save"      -> [c EXCEPT !.save_output = TRUE]
      [] word = "--verify"    -> [c EXCEPT !.verify_output = TRUE]
      [] word = "--no-verify" -> [c EXCEPT !.verify_output = FALSE]

NextArg_Bug == arg    \* the same option again

NextArg == arg + 1

ReadFlag ==
    /\ AtOption /\ argv[arg].word \in Flags
    /\ config' = Flagged(config, argv[arg].word)
    /\ arg' = NextArg
    /\ Reading /\ UNCHANGED <<pc, drbg>>

IntervalInvalid(a) ==
    \/ ~a.digits \/ a.suffix # ""
    \/ strtoull(a) > SizeRange - 1

ReadReseed ==
    /\ AtOption /\ argv[arg].word = "--reseed"
    /\ IF arg + 1 > Len(argv) \/ IntervalInvalid(argv[arg + 1]) THEN Reject
       ELSE /\ config' = [config EXCEPT !.reseed_interval =
                                            strtoull(argv[arg + 1])]
            /\ arg' = arg + 2
            /\ Reading /\ UNCHANGED <<pc, drbg>>

(* --help and everything unknown. *)
ReadOther ==
    /\ AtOption /\ argv[arg].word \notin Flags \cup {"--reseed"}
    /\ Reject

ReadAll ==
    /\ pc = "options" /\ arg > Len(argv)
    /\ pc' = "header" /\ Reading /\ UNCHANGED <<arg, drbg, config>>

-----------------------------------------------------------------------------
(* main, once the command line is read *)

Exit(code) ==
    /\ pc' = "exited" /\ exit_code' = code
    /\ UNCHANGED <<argv, arg, drbg, config, before>>

FreshLog_Bug == Append(csv, Header)    \* opened for appending

FreshLog == <<Header>>

(* csv_write_header: the log of earlier runs ends here, if it can be       *)
(* opened, whatever becomes of this one.                                   *)
WriteHeader ==
    /\ pc = "header"
    /\ \/ /\ csv' = FreshLog
          /\ pc' = "benchmark"
          /\ UNCHANGED <<argv, arg, drbg, config, exit_code, before>>
       \/ Exit("FAILURE") /\ UNCHANGED csv

(* benchmark_run turns down an empty output and verifies only the dummy,   *)
(* the one mechanism with a verify; every mechanism can be reseeded.       *)
Outcomes ==
    IF config.output_size = 0 \/ config.repetitions = 0
    THEN {"INVALID_ARGUMENT"}
    ELSE Failures \cup IF config.verify_output /\ drbg # "dummy"
                       THEN {"NOT_IMPLEMENTED"} ELSE {"SUCCESS"}

ExitCode_Bug(status) == "SUCCESS"    \* the run was made, well or not

ExitCode(status) == IF status = "SUCCESS" THEN "SUCCESS" ELSE "FAILURE"

RunBenchmark ==
    /\ pc = "benchmark"
    /\ \E status \in Outcomes :
           /\ csv' = IF status = "SUCCESS" THEN Append(csv, Row(drbg, config))
                                           ELSE csv
           /\ Exit(ExitCode(status))

Parse == ReadGenerator \/ ReadSize \/ ReadRepetitions \/ ReadFlag \/ ReadReseed
         \/ ReadOther \/ ReadAll

Next == Run \/ Parse \/ WriteHeader \/ RunBenchmark \/ Forget

(* A run that began goes on; nobody has to begin another. *)
Spec == Init /\ [][Next]_vars
             /\ WF_vars(Parse \/ WriteHeader \/ RunBenchmark)

-----------------------------------------------------------------------------
(* The command line, by its grammar: <generator> <size> [repetitions] and  *)
(* options, the last of which counts.                                      *)

FirstOption == IF Len(argv) >= 3 /\ argv[3].word \notin Options THEN 4 ELSE 3

OptionArgs == FirstOption .. Len(argv)

Values == {p \in OptionArgs : p > FirstOption /\ argv[p - 1].word = "--reseed"}

WellFormed ==
    /\ Len(argv) >= 2
    /\ argv[1].word \in registry
    /\ ~SizeInvalid(argv[2])
    /\ FirstOption = 4 => Narrow(strtoull(argv[3])) # 0
    /\ \A p \in OptionArgs :
           IF p \in Values THEN ~IntervalInvalid(argv[p])
           ELSE \/ argv[p].word \in Flags
                \/ argv[p].word = "--reseed" /\ p < Len(argv)

Given(word) == {p \in OptionArgs : argv[p].word = word}

Unit(suffix) == CASE suffix = "KB" -> Kilo
                  [] suffix = "MB" -> Kilo * Kilo
                  [] suffix = "GB" -> Kilo * Kilo * Kilo

(* A size that does not fit size_t is taken modulo its range, and may even *)
(* come out as zero: nothing checks the product.                           *)
AskedSize == (strtoull(argv[2]) * Unit(argv[2].suffix)) % SizeRange

AskedRepetitions == IF FirstOption = 4 THEN Narrow(strtoull(argv[3]))
                                       ELSE DEFAULT_REPETITIONS

AskedVerify == \E p \in Given("--verify") : \A q \in Given("--no-verify") : q < p

AskedInterval(n) ==
    IF Values = {} THEN n = 0
    ELSE \E p \in Values : /\ n = strtoull(argv[p])
                           /\ \A q \in Values : q <= p

Asked(c) ==
    /\ c.output_size = AskedSize
    /\ c.repetitions = AskedRepetitions
    /\ c.save_output = (Given("--save") # {})
    /\ c.verify_output = AskedVerify
    /\ AskedInterval(c.reseed_interval)

-----------------------------------------------------------------------------
(* Properties. *)

(* cli_parse_arguments accepts exactly the lines of the grammar, whatever  *)
(* the order and number of options, and hands to benchmark_run the named   *)
(* mechanism and what the line asks for: sizes to the byte as long as they *)
(* fit.                                                                    *)
ReadAsWritten ==
    /\ pc \in {"header", "benchmark"} =>
           WellFormed /\ drbg = argv[1].word /\ Asked(config)
    /\ pc = "rejected" => ~WellFormed

(* A run that exits in success leaves a log of its header and its own row, *)
(* whatever earlier runs had left there; a rejected command line leaves    *)
(* the log of earlier runs alone; any other failure leaves it alone or     *)
(* leaves no row at all.                                                   *)
ExitTellsLog ==
    CASE pc = "rejected" -> csv = before /\ exit_code = "FAILURE"
      [] pc = "exited" ->
             IF exit_code = "SUCCESS"
             THEN csv = <<Header, Row(drbg, config)>> /\ config.output_size > 0
             ELSE csv \in {before, <<Header>>}
      [] OTHER -> TRUE

(* An upper bound on the steps of a run that is under way: its stages, and *)
(* the arguments that cli_parse_arguments has not consumed.                *)
Place == [generator |-> 6, size |-> 5, repetitions |-> 4, options |-> 3,
          header |-> 2, benchmark |-> 1]

UnderWay == pc \in DOMAIN Place

StepsLeft == IF UnderWay THEN Place[pc] + Len(argv) + 1 - arg ELSE 0

(* Every step of a run brings it nearer to its exit: no argument is read   *)
(* twice, and the parser never steps over the end of the line.             *)
RunAdvances == [][UnderWay => StepsLeft' \in 0 .. StepsLeft - 1]_vars

(* Every run of the program exits, and is never stuck before that.         *)
RunsEnd ==
    RunAdvances /\ (pc = "generator" ~> pc \in {"rejected", "exited"})
=============================================================================
