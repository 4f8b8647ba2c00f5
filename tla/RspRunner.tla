------------------------------ MODULE RspRunner ------------------------------
(***************************************************************************)
(* The NIST response-file runner of tests/nist_rsp_runner.c (its HMAC      *)
(* variant differs in names only): files are read line by line, the lines  *)
(* of a test case are collected, and its ReturnedBits make it run.         *)
(*                                                                         *)
(* The mechanism under test is seen through its calls: each may fail, and  *)
(* the output is a function of the calls made so far.  ReturnedBits are    *)
(* right when they are the output of the standard's procedure for the      *)
(* lines they stand under.                                                 *)
(***************************************************************************)
EXTENDS Integers, Sequences, FiniteSets

CONSTANTS
    Files,             \* the contents each file named may have, in turn
    MAX_BYTES_PER_REQUEST

VECTOR_OPERATIONS == 2

Lengths  == {"EntropyInputLen", "NonceLen", "PersonalizationStringLen",
             "AdditionalInputLen", "ReturnedBitsLen"}
Settings == Lengths \cup {"PredictionResistance"}

Lists    == {"AdditionalInput", "EntropyInputPR"}
Singles  == {"EntropyInput", "Nonce", "PersonalizationString",
             "EntropyInputReseed", "AdditionalInputReseed", "ReturnedBits"}

Invalid == -1    \* a value that does not parse

(* What a line says.  A field has data of some length, if it is hex at all.*)
Data == [hex : BOOLEAN, length : Nat, data : STRING]

RspLines ==
    [kind : {"other", "malformed", "overlong"}]
    \cup [kind : {"heading"}, sha256 : BOOLEAN]
    \cup [kind : {"setting"}, name : Settings \cup {"other"},
          value : Nat \cup {Invalid}]
    \cup [kind : {"count"}, good : BOOLEAN]
    \cup [kind : {"field"}, key : Lists \cup Singles \cup {"other"},
          value : Data]

ASSUME FilesAssumption ==
    Files \in Seq(SUBSET Seq(RspLines)) /\ Files # <<>>

ASSUME BoundsAssumption == MAX_BYTES_PER_REQUEST \in Nat

VARIABLES
    pc,
    file, line,              \* the file that is read, and its next line
    config, test_case,
    file_ok, file_stats,
    all_files_ok, stats, exit_code,
    files,                   \* named so far
    todo, performed,         \* calls of the case that runs, and those made
    heap, seeded,            \* its memory; its context is instantiated
    passed,
    fault,                   \* history: memory or a call failed in this case
    cases                    \* history: SHA-256 cases in the files opened

reading == <<file, config, test_case, file_ok, file_stats>>
program == <<all_files_ok, stats, exit_code, files, cases>>
running == <<todo, performed, heap, seeded, passed>>

vars == <<pc, line, reading, program, running, fault>>

NoBuffer == [present |-> FALSE, length |-> 0, data |-> ""]

ZeroConfig == [is_sha256 |-> FALSE, have_prediction_resistance |-> FALSE,
               value |-> [name \in Settings |-> 0]]

NoCase == [active |-> FALSE, single |-> [key \in Singles |-> NoBuffer],
           list |-> [key \in Lists |-> <<>>]]

NoStats == [tested |-> 0, passed |-> 0, failed |-> 0, parse_errors |-> 0]

Init ==
    /\ pc = "open" /\ test_case = NoCase
    /\ file = <<>> /\ line = 1 /\ config = ZeroConfig
    /\ file_ok = TRUE /\ file_stats = NoStats
    /\ all_files_ok = TRUE /\ stats = NoStats /\ exit_code = "FAILURE"
    /\ files = 0
    /\ todo = <<>> /\ performed = <<>> /\ heap = {} /\ seeded = FALSE
    /\ passed = FALSE /\ fault = FALSE /\ cases = 0

-----------------------------------------------------------------------------
(* The files, by their lines: what the properties measure the code by. *)

LastOf(S) == CHOOSE i \in S : \A j \in S : j <= i

Headings(f, i) == {j \in 1 .. i - 1 : f[j].kind = "heading"}

InSha256Section(f, i) ==
    Headings(f, i) # {} /\ f[LastOf(Headings(f, i))].sha256

Sha256Cases(f) ==
    {i \in DOMAIN f : f[i].kind = "count" /\ InSha256Section(f, i)}

-----------------------------------------------------------------------------
(* Lines. *)

Open ==
    /\ pc = "open" /\ files < Len(Files)
    /\ files' = files + 1
    /\ \/ /\ file' \in Files[files + 1]
          /\ cases' = cases + Cardinality(Sha256Cases(file'))
          /\ pc' = "read"
          /\ UNCHANGED <<stats, all_files_ok>>
       \/ /\ stats' = [stats EXCEPT !.parse_errors = @ + 1]
          /\ all_files_ok' = FALSE
          /\ UNCHANGED <<file, cases, pc>>
    /\ UNCHANGED <<line, config, test_case, file_ok, file_stats, exit_code,
                   running, fault>>

Current == file[line]

At(kind) == pc = "read" /\ line <= Len(file) /\ Current.kind = kind

ParseError ==
    /\ file_stats' = [file_stats EXCEPT !.parse_errors = @ + 1]
    /\ file_ok' = FALSE

NoError == UNCHANGED <<file_stats, file_ok>>

NextLine == line' = line + 1 /\ pc' = "read" /\ UNCHANGED <<file, program, running>>

(* Blank lines, comments and lines without an equals sign. *)
SkipLine ==
    /\ At("other") /\ NextLine /\ NoError
    /\ UNCHANGED <<config, test_case, fault>>

ReadMalformed ==
    /\ At("malformed") /\ NextLine /\ ParseError
    /\ UNCHANGED <<config, test_case, fault>>

StopReading_Bug ==    \* the error is cleared and the line tried again
    /\ pc = "read" /\ line <= Len(file) /\ ParseError
    /\ UNCHANGED <<pc, line, file, config, test_case, program, running, fault>>

(* A line that does not fit the buffer, or a read error, ends the file. *)
StopReading ==
    /\ pc = "read" /\ line <= Len(file)
    /\ line' = Len(file) + 1 /\ pc' = "read"
    /\ ParseError
    /\ UNCHANGED <<file, config, test_case, program, running, fault>>

Heading_Bug(c, sha256) == [c EXCEPT !.is_sha256 = sha256]    \* settings stay

Heading(c, sha256) == [ZeroConfig EXCEPT !.is_sha256 = sha256]

ReadHeading ==
    /\ At("heading") /\ NextLine /\ NoError
    /\ config' = Heading(config, Current.sha256)
    /\ UNCHANGED <<test_case, fault>>

Set(c, name, value) ==
    [c EXCEPT !.value[name] = value,
              !.have_prediction_resistance = @ \/ name = "PredictionResistance"]

ReadSetting ==
    /\ At("setting") /\ NextLine /\ UNCHANGED <<test_case, fault>>
    /\ IF Current.name \notin Settings THEN NoError /\ UNCHANGED config
       ELSE IF Current.value = Invalid THEN ParseError /\ UNCHANGED config
       ELSE NoError /\ config' = Set(config, Current.name, Current.value)

CountErrors_Bug == IF Current.good THEN 0 ELSE 1    \* a case lost in silence

(* The case before this one may never have got its ReturnedBits. *)
CountErrors ==
    (IF test_case.active /\ ~test_case.single["ReturnedBits"].present
     THEN 1 ELSE 0) + (IF Current.good THEN 0 ELSE 1)

vector_case_clear_Bug == [NoCase EXCEPT !.list = test_case.list]

vector_case_clear == NoCase

ReadCount ==
    /\ At("count") /\ NextLine
    /\ file_stats' = [file_stats EXCEPT !.parse_errors = @ + CountErrors]
    /\ file_ok' = (file_ok /\ CountErrors = 0)
    /\ test_case' = [vector_case_clear EXCEPT
                        !.active = Current.good /\ config.is_sha256]
    /\ fault' = FALSE
    /\ UNCHANGED config

buffer_set_hex(value) ==
    IF value.hex THEN [present |-> TRUE, length |-> value.length,
                       data |-> value.data]
                 ELSE NoBuffer

TooMany(c, key) == key \in Lists /\ Len(c.list[key]) >= VECTOR_OPERATIONS

(* The place of a list element is taken before its text is looked at. *)
WithField(c, key, buffer) ==
    IF key \in Lists THEN [c EXCEPT !.list[key] = Append(@, buffer)]
                     ELSE [c EXCEPT !.single[key] = buffer]

SkipField ==
    /\ At("field")
    /\ ~test_case.active \/ Current.key = "other"
    /\ NextLine /\ NoError /\ UNCHANGED <<config, test_case, fault>>

Collecting == At("field") /\ test_case.active /\ Current.key # "other"

RefuseField ==
    /\ Collecting /\ TooMany(test_case, Current.key)
    /\ NextLine /\ ParseError /\ UNCHANGED <<config, test_case, fault>>

(* buffer_set_hex may also run out of memory. *)
BadField ==
    /\ Collecting /\ ~TooMany(test_case, Current.key)
    /\ ~Current.value.hex \/ Current.value.length > 0
    /\ test_case' = WithField(test_case, Current.key, NoBuffer)
    /\ fault' = (fault \/ Current.value.hex)
    /\ NextLine /\ ParseError /\ UNCHANGED config

GoodField ==
    /\ Collecting /\ ~TooMany(test_case, Current.key)
    /\ Current.value.hex
    /\ test_case' = WithField(test_case, Current.key,
                              buffer_set_hex(Current.value))
    /\ IF Current.key = "ReturnedBits"
       THEN /\ file_stats' = [file_stats EXCEPT !.tested = @ + 1]
            /\ pc' = "validate"
            /\ UNCHANGED <<line, file, file_ok, program, running>>
       ELSE NextLine /\ NoError
    /\ UNCHANGED <<config, fault>>

-----------------------------------------------------------------------------
(* execute_case *)

Aligned(c) == \A name \in Lengths : c.value[name] % 8 = 0

ByteLength(c, name) == c.value[name] \div 8

HasLength(buffer, length, optional) ==
    IF buffer.present THEN buffer.length = length
                      ELSE optional /\ length = 0

validate_case(c, single, list) ==
    LET entropy    == ByteLength(c, "EntropyInputLen")
        additional == ByteLength(c, "AdditionalInputLen")
        returned   == ByteLength(c, "ReturnedBitsLen")
        inputs     == list["AdditionalInput"]
        fresh      == list["EntropyInputPR"]
        HasLengths(buffers, length, optional) ==
            \A i \in DOMAIN buffers : HasLength(buffers[i], length, optional)
    IN  /\ c.have_prediction_resistance /\ Aligned(c)
        /\ returned \in 1 .. MAX_BYTES_PER_REQUEST
        /\ HasLength(single["EntropyInput"], entropy, FALSE)
        /\ HasLength(single["Nonce"], ByteLength(c, "NonceLen"), FALSE)
        /\ HasLength(single["PersonalizationString"],
                     ByteLength(c, "PersonalizationStringLen"), TRUE)
        /\ HasLength(single["ReturnedBits"], returned, FALSE)
        /\ Len(inputs) = VECTOR_OPERATIONS \/ (additional = 0 /\ inputs = <<>>)
        /\ HasLengths(inputs, additional, TRUE)
        /\ IF c.value["PredictionResistance"] = 1
           THEN Len(fresh) = VECTOR_OPERATIONS /\ HasLengths(fresh, entropy, FALSE)
           ELSE single["EntropyInputReseed"].present =>
                    /\ HasLength(single["EntropyInputReseed"], entropy, FALSE)
                    /\ HasLength(single["AdditionalInputReseed"], additional, TRUE)

(* optional_operation_input *)
Operation(inputs, i) == IF i <= Len(inputs) THEN inputs[i].data ELSE ""

InstantiateCall(single) ==
    [op |-> "instantiate", entropy |-> single["EntropyInput"].data,
     nonce |-> single["Nonce"].data,
     input |-> single["PersonalizationString"].data]

ReseedCall(entropy, input) == [op |-> "reseed", entropy |-> entropy, input |-> input]

GenerateCall(input) == [op |-> "generate", input |-> input]

(* The loops of execute_case, as the calls they make. *)
Calls_Bug(c, single, list) ==    \* the additional input goes to generate
    <<InstantiateCall(single)>>
    \o IF c.value["PredictionResistance"] = 1
       THEN <<ReseedCall(list["EntropyInputPR"][1].data, ""),
              GenerateCall(Operation(list["AdditionalInput"], 1)),
              ReseedCall(list["EntropyInputPR"][2].data, ""),
              GenerateCall(Operation(list["AdditionalInput"], 2))>>
       ELSE <<GenerateCall(Operation(list["AdditionalInput"], 1)),
              GenerateCall(Operation(list["AdditionalInput"], 2))>>

Calls(c, single, list) ==
    LET Input(i) == Operation(list["AdditionalInput"], i)
        Fresh(i) == list["EntropyInputPR"][i].data
    IN  <<InstantiateCall(single)>>
        \o IF c.value["PredictionResistance"] = 1
           THEN <<ReseedCall(Fresh(1), Input(1)), GenerateCall(""),
                  ReseedCall(Fresh(2), Input(2)), GenerateCall("")>>
           ELSE (IF single["EntropyInputReseed"].present
                 THEN <<ReseedCall(single["EntropyInputReseed"].data,
                                   single["AdditionalInputReseed"].data)>>
                 ELSE <<>>)
                \o <<GenerateCall(Input(1)), GenerateCall(Input(2))>>

Executing == UNCHANGED <<line, reading, program>>

Validate ==
    /\ pc = "validate" /\ Executing
    /\ performed' = <<>> /\ passed' = FALSE /\ todo' = <<>>
    /\ pc' = IF validate_case(config, test_case.single, test_case.list)
             THEN "alloc" ELSE "return"
    /\ UNCHANGED <<heap, seeded, fault>>

Alloc ==
    /\ pc = "alloc" /\ Executing
    /\ heap' \in SUBSET {"ctx", "output"}
    /\ IF heap' = {"ctx", "output"}
       THEN /\ todo' = Calls(config, test_case.single, test_case.list)
            /\ pc' = "calls" /\ UNCHANGED fault
       ELSE pc' = "cleanup" /\ fault' = TRUE /\ UNCHANGED todo
    /\ UNCHANGED <<performed, seeded, passed>>

CallSucceeds ==
    /\ pc = "calls" /\ todo # <<>> /\ Executing
    /\ performed' = Append(performed, Head(todo))
    /\ todo' = Tail(todo)
    /\ seeded' = TRUE
    /\ UNCHANGED <<pc, heap, passed, fault>>

CallFails ==
    /\ pc = "calls" /\ todo # <<>> /\ Executing
    /\ fault' = TRUE /\ todo' = <<>> /\ pc' = "cleanup"
    /\ UNCHANGED <<performed, heap, seeded, passed>>

-----------------------------------------------------------------------------
(* What the lines of a case ask for, by the standard's test procedure: the *)
(* reference for the loops above.  A list element is absent when its text  *)
(* is not hex, and there are never more than two.                          *)

FirstOf(S) == CHOOSE i \in S : \A j \in S : i <= j

CountLine(f, i) == LastOf({j \in 1 .. i : f[j].kind = "count"})

FieldLines(f, i, key) ==
    {j \in CountLine(f, i) + 1 .. i : f[j].kind = "field" /\ f[j].key = key}

LastField(f, own) ==
    IF own = {} THEN NoBuffer ELSE buffer_set_hex(f[LastOf(own)].value)

FirstFields(f, own) ==
    LET Read(S) == buffer_set_hex(f[FirstOf(S)].value)
        later   == own \ {FirstOf(own)}
    IN  IF own = {} THEN <<>>
        ELSE IF later = {} THEN <<Read(own)>>
        ELSE <<Read(own), Read(later)>>

OwnSingle(f, i) == [key \in Singles |-> LastField(f, FieldLines(f, i, key))]

OwnList(f, i) == [key \in Lists |-> FirstFields(f, FieldLines(f, i, key))]

(* The settings above line i, back to the last heading. *)
SettingLines(f, i, name) ==
    {j \in 1 .. i - 1 : /\ f[j].kind = "setting" /\ f[j].name = name
                        /\ f[j].value # Invalid
                        /\ \A h \in Headings(f, i) : h < j}

OwnValue(f, i, name) ==
    LET own == SettingLines(f, i, name)
    IN  IF own = {} THEN 0 ELSE f[LastOf(own)].value

OwnConfig(f, i) ==
    [is_sha256 |-> InSha256Section(f, i),
     have_prediction_resistance |-> SettingLines(f, i, "PredictionResistance") # {},
     value |-> [name \in Settings |-> OwnValue(f, i, name)]]

Complete(f, i) == validate_case(OwnConfig(f, i), OwnSingle(f, i), OwnList(f, i))

(* Two outputs are asked for; only the second is compared.  With           *)
(* prediction resistance each is preceded by a reseed that takes its       *)
(* additional input; without, one reseed comes first, if it is given.      *)
Procedure(f, i) ==
    LET single   == OwnSingle(f, i)
        list     == OwnList(f, i)
        Input(n) == IF list["AdditionalInput"] = <<>> THEN ""
                    ELSE list["AdditionalInput"][n].data
        reseed   == [op |-> "reseed", entropy |-> single["EntropyInputReseed"].data,
                     input |-> single["AdditionalInputReseed"].data]
        fresh    == [n \in 1 .. 4 |->
                        LET k == (n + 1) \div 2
                        IN  IF n % 2 = 1
                            THEN [op |-> "reseed", input |-> Input(k),
                                  entropy |-> list["EntropyInputPR"][k].data]
                            ELSE [op |-> "generate", input |-> ""]]
        outputs  == [n \in 1 .. 2 |-> [op |-> "generate", input |-> Input(n)]]
    IN  <<[op |-> "instantiate", entropy |-> single["EntropyInput"].data,
           nonce |-> single["Nonce"].data,
           input |-> single["PersonalizationString"].data]>>
        \o (IF OwnConfig(f, i).value["PredictionResistance"] = 1 THEN fresh
            ELSE IF single["EntropyInputReseed"].present THEN <<reseed>> \o outputs
            ELSE outputs)

-----------------------------------------------------------------------------
(* The end of a case, of a file and of the run. *)

(* memcmp of the last output with ReturnedBits. *)
OutputMatches ==
    /\ test_case.single["ReturnedBits"].data = "right"
    /\ performed = Procedure(file, line)

Compare ==
    /\ pc = "calls" /\ todo = <<>> /\ Executing
    /\ passed' = OutputMatches
    /\ pc' = "cleanup"
    /\ UNCHANGED <<todo, performed, heap, seeded, fault>>

AfterCleanup_Bug == seeded /\ ~passed    \* uninstantiated on success only

AfterCleanup == FALSE

Cleanup ==
    /\ pc = "cleanup" /\ Executing
    /\ seeded' = AfterCleanup
    /\ heap' = {}
    /\ pc' = "return"
    /\ UNCHANGED <<todo, performed, passed, fault>>

CountVerdict ==
    /\ pc = "return"
    /\ file_stats' = IF passed THEN [file_stats EXCEPT !.passed = @ + 1]
                               ELSE [file_stats EXCEPT !.failed = @ + 1]
    /\ file_ok' = (file_ok /\ passed)
    /\ test_case' = vector_case_clear
    /\ NextLine
    /\ UNCHANGED <<config, fault>>

(* The variables of the file and of its last case go with process_file. *)
EndOfFile ==
    /\ pc = "read" /\ line > Len(file)
    /\ LET errors == IF test_case.active THEN 1 ELSE 0
       IN  /\ stats' = [name \in DOMAIN stats |->
                            stats[name] + file_stats[name]
                                + IF name = "parse_errors" THEN errors ELSE 0]
           /\ all_files_ok' = (all_files_ok /\ file_ok /\ errors = 0)
    /\ test_case' = vector_case_clear
    /\ file' = <<>> /\ line' = 1 /\ config' = ZeroConfig
    /\ file_ok' = TRUE /\ file_stats' = NoStats
    /\ todo' = <<>> /\ performed' = <<>> /\ passed' = FALSE /\ fault' = FALSE
    /\ pc' = "open"
    /\ UNCHANGED <<exit_code, files, cases, heap, seeded>>

Success == /\ stats.tested # 0 /\ all_files_ok
           /\ stats.failed = 0 /\ stats.parse_errors = 0

(* At least one file is named. *)
Exit ==
    /\ pc = "open" /\ files > 0
    /\ exit_code' = IF Success THEN "SUCCESS" ELSE "FAILURE"
    /\ pc' = "exited"
    /\ UNCHANGED <<line, reading, all_files_ok, stats, files, cases, running, fault>>

ReadLine == SkipLine \/ ReadMalformed \/ StopReading \/ ReadHeading
            \/ ReadSetting \/ ReadCount \/ SkipField \/ RefuseField \/ BadField
            \/ GoodField

ExecuteCase == Validate \/ Alloc \/ CallSucceeds \/ CallFails \/ Compare
               \/ Cleanup \/ CountVerdict

Next == Open \/ ReadLine \/ ExecuteCase \/ EndOfFile \/ Exit

Spec == Init /\ [][Next]_vars

-----------------------------------------------------------------------------
(* Properties. *)

(* The verdict on a case is the one its own lines deserve: it passes when  *)
(* they are complete under the settings of their own section and their     *)
(* ReturnedBits are right, and only then.  A buffer or a setting left over *)
(* from an earlier case or section would turn a verdict round.  When       *)
(* memory or a call failed, it does not pass without an error that counts. *)
VerdictIsRight ==
    pc = "return" =>
        LET deserved == /\ Complete(file, line)
                        /\ file[line].value.data = "right"
        IN  IF fault THEN passed => file_stats.parse_errors > 0
                     ELSE passed = deserved

(* No case is lost in silence: the runner succeeds only when every SHA-256 *)
(* case of every file was tested and passed, whatever was malformed, cut   *)
(* off or out of order; and no case is ever counted twice.                 *)
NoCaseIsLost ==
    /\ stats.tested <= cases
    /\ pc = "exited" /\ exit_code = "SUCCESS" =>
           cases > 0 /\ stats.tested = cases /\ stats.passed = cases

(* An upper bound on the steps that the open file still takes: eleven for  *)
(* every further line, since the line that completes a case may run it,    *)
(* with up to five calls.                                                  *)
Place == [read |-> 12, validate |-> 11, alloc |-> 10, calls |-> 4,
          cleanup |-> 3, return |-> 2]

FileIsOpen == pc \in DOMAIN Place

StepsLeft ==
    IF FileIsOpen THEN 11 * (Len(file) - line) + Place[pc] + Len(todo) ELSE 0

(* A file that is open is read to its end: every step, also one that fails *)
(* or that meets a malformed line or a read error, brings the end nearer,  *)
(* and no line is read twice.                                              *)
FileAdvances == [][FileIsOpen => StepsLeft' \in 0 .. StepsLeft - 1]_vars

(* Nothing of a case outlives it, whichever call failed: its context is    *)
(* uninstantiated and freed when the verdict is returned, and its fields   *)
(* are cleared before the next file is opened.                             *)
NothingOutlivesItsCase ==
    /\ pc \notin {"calls", "cleanup"} => heap = {} /\ ~seeded
    /\ pc \in {"open", "exited"} => test_case = NoCase
=============================================================================
