-------------------------- MODULE RspRunnerProofs ---------------------------
(***************************************************************************)
(* Proofs about RspRunner, for any number of files of any lines: no test   *)
(* case is lost in silence, nothing of a case outlives it, and the verdict *)
(* on a case is the one its lines deserve.                                 *)
(***************************************************************************)
EXTENDS RspRunner, FiniteSetTheorems, WellFoundedInduction, TLAPS

-----------------------------------------------------------------------------
(* Shapes.                                                                 *)

Buffers == [present : BOOLEAN, length : Nat, data : {""} \cup STRING]

Configs == [is_sha256 : BOOLEAN, have_prediction_resistance : BOOLEAN,
            value : [Settings -> Nat]]

TestCases == [active : BOOLEAN, single : [Singles -> Buffers],
              list : [Lists -> Seq(Buffers)]]

Stats == [tested : Nat, passed : Nat, failed : Nat, parse_errors : Nat]

Executes == {"validate", "alloc", "calls", "cleanup", "return"}

Shapes ==
    /\ pc \in {"open", "read", "exited"} \cup Executes
    /\ file \in Seq(RspLines)
    /\ line \in Nat \ {0} /\ line <= Len(file) + 1
    /\ pc = "open" => line = 1
    /\ pc \in Executes => line <= Len(file)
    /\ config \in Configs /\ test_case \in TestCases
    /\ file_stats \in Stats /\ stats \in Stats
    /\ files \in Nat
    /\ cases \in Nat

(* A counter that grows stays a number. *)
LEMMA StatsGrow ==
    ASSUME NEW s \in Stats, NEW n \in Nat
    PROVE  /\ [s EXCEPT !.tested = @ + n] \in Stats
           /\ [s EXCEPT !.parse_errors = @ + n] \in Stats
BY DEF Stats

(* What a file adds to the totals. *)
LEMMA StatsSum ==
    ASSUME NEW s \in Stats, NEW t \in Stats, NEW n \in Nat
    PROVE  [name \in DOMAIN s |->
               s[name] + t[name] + IF name = "parse_errors" THEN n ELSE 0]
             \in Stats
<1> DEFINE sum(name) == s[name] + t[name]
                          + IF name = "parse_errors" THEN n ELSE 0
<1>1. DOMAIN s = {"tested", "passed", "failed", "parse_errors"} BY DEF Stats
<1>2. \A name \in DOMAIN s : s[name] \in Nat /\ t[name] \in Nat
  BY <1>1 DEF Stats
<1>3. \A name \in DOMAIN s : sum(name) \in Nat BY <1>2
<1> HIDE DEF sum
<1>4. [name \in DOMAIN s |-> sum(name)] \in Stats BY <1>1, <1>3 DEF Stats
<1> QED BY <1>4 DEF sum

LEMMA ParseErrorStats ==
    ASSUME Shapes, ParseError
    PROVE  file_stats' \in Stats
<1>1. file_stats \in Stats BY DEF Shapes
<1>2. file_stats' = [file_stats EXCEPT !.parse_errors = @ + 1] BY DEF ParseError
<1> QED BY <1>1, <1>2, StatsGrow

LEMMA VerdictStats ==
    ASSUME Shapes, CountVerdict
    PROVE  file_stats' \in Stats
<1>1. file_stats \in Stats BY DEF Shapes
<1>2. CASE passed
  <2>1. file_stats' = [file_stats EXCEPT !.passed = @ + 1]
    BY <1>2 DEF CountVerdict
  <2> QED BY <1>1, <2>1 DEF Stats
<1>3. CASE ~passed
  <2>1. file_stats' = [file_stats EXCEPT !.failed = @ + 1]
    BY <1>3 DEF CountVerdict
  <2> QED BY <1>1, <2>1 DEF Stats
<1> QED BY <1>2, <1>3

(* What a line carries, by its kind. *)
LEMMA LineParts ==
    ASSUME NEW l \in RspLines
    PROVE  /\ l.kind = "heading" => l.sha256 \in BOOLEAN
           /\ l.kind = "setting" => l.value \in Nat \cup {Invalid}
           /\ l.kind = "count" => l.good \in BOOLEAN
           /\ l.kind = "field" => /\ l.value \in Data
                                  /\ l.key \in Lists \cup Singles \cup {"other"}
BY DEF RspLines

LEMMA CurrentParts ==
    ASSUME Shapes, line <= Len(file)
    PROVE  Current \in RspLines
BY DEF Shapes, Current

LEMMA ZeroShapes ==
    /\ ZeroConfig \in Configs /\ NoBuffer \in Buffers
    /\ NoCase \in TestCases /\ ~NoCase.active
    /\ NoStats \in Stats
<1>1. ZeroConfig \in Configs BY DEF ZeroConfig, Configs
<1>2. NoBuffer \in Buffers BY DEF NoBuffer, Buffers
<1>3. [key \in Singles |-> NoBuffer] \in [Singles -> Buffers] BY <1>2
<1>4. [key \in Lists |-> <<>>] \in [Lists -> Seq(Buffers)] OBVIOUS
<1>5. NoCase \in TestCases /\ ~NoCase.active BY <1>3, <1>4 DEF NoCase, TestCases
<1>6. NoStats \in Stats BY DEF NoStats, Stats
<1> QED BY <1>1, <1>2, <1>5, <1>6

(* A collected field leaves the shape of the case, its activity, and every *)
(* other buffer.                                                           *)
LEMMA WithFieldShape ==
    ASSUME NEW c \in TestCases, NEW key \in Lists \cup Singles,
           NEW buffer \in Buffers
    PROVE  LET d == WithField(c, key, buffer)
           IN  /\ d \in TestCases /\ d.active = c.active
               /\ key # "ReturnedBits" =>
                      d.single["ReturnedBits"] = c.single["ReturnedBits"]
               /\ key = "ReturnedBits" => d.single["ReturnedBits"] = buffer
<1>1. CASE key \in Lists
  <2>1. /\ c.list \in [Lists -> Seq(Buffers)]
        /\ c.single \in [Singles -> Buffers] /\ c.active \in BOOLEAN
    BY DEF TestCases
  <2>2. Append(c.list[key], buffer) \in Seq(Buffers) BY <1>1, <2>1
  <2> DEFINE list == [c.list EXCEPT ![key] = Append(c.list[key], buffer)]
  <2>3. list \in [Lists -> Seq(Buffers)] BY <2>1, <2>2
  <2>4. WithField(c, key, buffer) = [c EXCEPT !.list = list]
    BY <1>1 DEF WithField, TestCases
  <2>5. key # "ReturnedBits" BY <1>1 DEF Lists
  <2> HIDE DEF list
  <2> QED BY <2>1, <2>3, <2>4, <2>5 DEF TestCases
<1>2. CASE key \in Singles /\ key \notin Lists
  <2>1. /\ c.list \in [Lists -> Seq(Buffers)]
        /\ c.single \in [Singles -> Buffers] /\ c.active \in BOOLEAN
    BY DEF TestCases
  <2> DEFINE single == [c.single EXCEPT ![key] = buffer]
  <2>2. single \in [Singles -> Buffers] BY <2>1
  <2>3. WithField(c, key, buffer) = [c EXCEPT !.single = single]
    BY <1>2 DEF WithField, TestCases
  <2>4. "ReturnedBits" \in Singles BY DEF Singles
  <2>5. /\ key # "ReturnedBits" =>
               single["ReturnedBits"] = c.single["ReturnedBits"]
        /\ key = "ReturnedBits" => single["ReturnedBits"] = buffer
    BY <2>1, <2>4
  <2> HIDE DEF single
  <2> QED BY <2>1, <2>2, <2>3, <2>5 DEF TestCases
<1> QED BY <1>1, <1>2

(* The shapes hold throughout. *)
LEMMA ShapesHold == Spec => []Shapes
<1>1. Init => Shapes
  <2> SUFFICES ASSUME Init PROVE Shapes OBVIOUS
  <2> QED BY ZeroShapes, FilesAssumption DEF Init, Shapes, Executes
<1>2. Shapes /\ [Next]_vars => Shapes'
  <2> SUFFICES ASSUME Shapes, [Next]_vars PROVE Shapes' OBVIOUS
  <2> USE DEF reading, program, running, Executes
  <2>1. CASE UNCHANGED vars BY <2>1 DEF Shapes, vars
  <2>2. CASE Open
    <3>1. CASE /\ file' \in Files[files + 1]
               /\ cases' = cases + Cardinality(Sha256Cases(file'))
               /\ pc' = "read" /\ UNCHANGED <<stats, all_files_ok>>
      <4>1. files \in Nat /\ files < Len(Files) BY <2>2 DEF Shapes, Open
      <4>2. file' \in Seq(RspLines) BY <3>1, <4>1, FilesAssumption
      <4>3. Cardinality(Sha256Cases(file')) \in Nat
        <5>1. Sha256Cases(file') \in SUBSET (1 .. Len(file'))
          BY <4>2 DEF Sha256Cases
        <5>2. IsFiniteSet(1 .. Len(file'))
          BY <4>2, FS_Interval
        <5> QED BY <5>1, <5>2, FS_Subset, FS_CardinalityType
      <4>4. line' = line /\ line = 1 
        BY <2>2 DEF Shapes, Open
      <4> QED BY <2>2, <3>1, <4>1, <4>2, <4>3, <4>4 DEF Shapes, Open
    <3>2. CASE /\ stats' = [stats EXCEPT !.parse_errors = @ + 1]
               /\ all_files_ok' = FALSE /\ UNCHANGED <<file, cases, pc>>
      <4>1. stats' \in Stats
        <5>1. stats \in Stats BY DEF Shapes
        <5> QED BY <3>2, <5>1, StatsGrow
      <4>2. files' \in Nat BY <2>2 DEF Shapes, Open
      <4> QED BY <2>2, <3>2, <4>1, <4>2 DEF Shapes, Open
    <3> QED BY <2>2, <3>1, <3>2 DEF Open
  <2>3. CASE SkipLine
    BY <2>3 DEF Shapes, SkipLine, At, NextLine, NoError
  <2>4. CASE ReadMalformed
    <3>1. file_stats' \in Stats
      BY <2>4, ParseErrorStats DEF ReadMalformed
    <3> QED BY <2>4, <3>1 DEF Shapes, ReadMalformed, At, NextLine
  <2>5. CASE StopReading
    <3>1. file_stats' \in Stats
      BY <2>5, ParseErrorStats DEF StopReading
    <3> QED BY <2>5, <3>1 DEF Shapes, StopReading
  <2>6. CASE ReadHeading
    <3>1. Heading(config, Current.sha256) \in Configs
      BY <2>6, CurrentParts, LineParts, ZeroShapes
      DEF ReadHeading, At, Heading, Configs
    <3> QED BY <2>6, <3>1 DEF Shapes, ReadHeading, At, NextLine, NoError
  <2>7. CASE ReadSetting
    <3>1. Current.value \in Nat \cup {Invalid}
      BY <2>7, CurrentParts, LineParts DEF ReadSetting, At
    <3>2. CASE Current.name \in Settings /\ Current.value # Invalid
      <4> DEFINE values == [config.value EXCEPT ![Current.name] = Current.value]
      <4>1. values \in [Settings -> Nat] BY <3>1, <3>2 DEF Shapes, Configs
      <4>2. Set(config, Current.name, Current.value) =
              [config EXCEPT !.value = values,
                             !.have_prediction_resistance =
                                 @ \/ Current.name = "PredictionResistance"]
        BY DEF Set, Shapes, Configs
      <4> HIDE DEF values
      <4>3. Set(config, Current.name, Current.value) \in Configs
        BY <4>1, <4>2 DEF Shapes, Configs
      <4> QED BY <2>7, <3>2, <4>3
              DEF Shapes, ReadSetting, At, NextLine, NoError
    <3>3. CASE ~(Current.name \in Settings /\ Current.value # Invalid)
      <4>1. file_stats' \in Stats
        BY <2>7, <3>3, ParseErrorStats DEF Shapes, ReadSetting, NoError
      <4>2. UNCHANGED config
        BY <2>7, <3>3 DEF ReadSetting
      <4> QED BY <2>7, <4>1, <4>2 DEF Shapes, ReadSetting, At, NextLine
    <3> QED BY <3>2, <3>3
  <2>8. CASE ReadCount
    <3>1. Current.good \in BOOLEAN
      BY <2>8, CurrentParts, LineParts DEF ReadCount, At
    <3>2. CountErrors \in Nat BY DEF CountErrors
    <3>3. test_case' \in TestCases
      BY <2>8, <3>1, ZeroShapes
      DEF ReadCount, vector_case_clear, TestCases, Shapes, Configs
    <3>4. file_stats' \in Stats
      <4>1. file_stats \in Stats BY DEF Shapes
      <4>2. file_stats' = [file_stats EXCEPT !.parse_errors = @ + CountErrors]
        BY <2>8 DEF ReadCount
      <4> QED BY <3>2, <4>1, <4>2, StatsGrow
    <3> QED BY <2>8, <3>3, <3>4 DEF Shapes, ReadCount, At, NextLine
  <2>9. CASE SkipField
    BY <2>9 DEF Shapes, SkipField, At, NextLine, NoError
  <2>10. CASE RefuseField
    <3>1. file_stats' \in Stats
      BY <2>10, ParseErrorStats DEF RefuseField
    <3> QED BY <2>10, <3>1 DEF Shapes, RefuseField, Collecting, At, NextLine
  <2>11. CASE BadField
    <3>1. Current.key \in Lists \cup Singles
      BY <2>11, CurrentParts, LineParts DEF BadField, Collecting, At
    <3>2. test_case' \in TestCases
      BY <2>11, <3>1, WithFieldShape, ZeroShapes DEF BadField, Shapes
    <3>3. file_stats' \in Stats
      BY <2>11, ParseErrorStats DEF BadField
    <3> QED BY <2>11, <3>2, <3>3 DEF Shapes, BadField, Collecting, At, NextLine
  <2>12. CASE GoodField
    <3>1. Current.key \in Lists \cup Singles /\ Current.value \in Data
      BY <2>12, CurrentParts, LineParts DEF GoodField, Collecting, At
    <3>2. buffer_set_hex(Current.value) \in Buffers
      BY <2>12, <3>1 DEF GoodField, buffer_set_hex, Buffers, Data
    <3>3. test_case' \in TestCases
      BY <2>12, <3>1, <3>2, WithFieldShape DEF GoodField, Shapes
    <3>4. file_stats' \in Stats
      <4>1. file_stats \in Stats BY DEF Shapes
      <4>2. \/ file_stats' = [file_stats EXCEPT !.tested = @ + 1]
            \/ file_stats' = file_stats
        BY <2>12 DEF GoodField, NoError
      <4> QED BY <4>1, <4>2, StatsGrow
    <3> QED BY <2>12, <3>3, <3>4
            DEF Shapes, GoodField, Collecting, At, NextLine, Executes
  <2>13. CASE ExecuteCase
    <3>1. CASE CountVerdict
      <4>1. file_stats' \in Stats BY <3>1, VerdictStats
      <4>2. test_case' \in TestCases
        BY <3>1, ZeroShapes DEF CountVerdict, vector_case_clear
      <4>3. line <= Len(file) BY <3>1 DEF Shapes, CountVerdict
      <4> QED BY <3>1, <4>1, <4>2, <4>3 DEF Shapes, CountVerdict, NextLine
    <3>2. CASE Compare
      BY <3>2 DEF Shapes, Compare, Executing, Executes, OutputMatches
    <3>3. CASE Validate \/ Alloc \/ CallSucceeds \/ CallFails \/ Cleanup
      BY <3>3 DEF Shapes, Validate, Alloc, CallSucceeds, CallFails, Cleanup,
                  Executing, Executes
    <3> QED BY <2>13, <3>1, <3>2, <3>3 DEF ExecuteCase
  <2>14. CASE EndOfFile
    <3>1. stats' \in Stats
      <4> DEFINE errors == IF test_case.active THEN 1 ELSE 0
      <4>1. stats \in Stats /\ file_stats \in Stats BY DEF Shapes
      <4>2. errors \in Nat OBVIOUS
      <4>3. stats' = [name \in DOMAIN stats |->
                         stats[name] + file_stats[name]
                           + IF name = "parse_errors" THEN errors ELSE 0]
        BY <2>14 DEF EndOfFile
      <4> HIDE DEF errors
      <4> QED BY <4>1, <4>2, <4>3, StatsSum
    <3>2. /\ <<>> \in Seq(RspLines) /\ Len(<<>>) = 0
          /\ file' = <<>> /\ line' = 1
      BY <2>14 DEF EndOfFile
    <3> QED BY <2>14, <3>1, <3>2, ZeroShapes DEF Shapes, EndOfFile, vector_case_clear
  <2>15. CASE Exit BY <2>15 DEF Shapes, Exit
  <2> QED
    BY <2>1, <2>2, <2>3, <2>4, <2>5, <2>6, <2>7, <2>8, <2>9, <2>10, <2>11,
       <2>12, <2>13, <2>14, <2>15 DEF Next, ReadLine
<1> QED BY <1>1, <1>2, PTL DEF Spec
-----------------------------------------------------------------------------
(* The cases of a file up to a line.                                       *)

SeenCases(f, i) == {j \in Sha256Cases(f) : j < i}

Seen(f, i) == Cardinality(SeenCases(f, i))

Total(f) == Cardinality(Sha256Cases(f))

LEMMA SeenFinite ==
    ASSUME NEW f \in Seq(RspLines), NEW i \in Nat
    PROVE  /\ IsFiniteSet(Sha256Cases(f)) /\ Total(f) \in Nat
           /\ IsFiniteSet(SeenCases(f, i)) /\ Seen(f, i) \in Nat
           /\ Seen(f, i) <= Total(f)
<1>1. IsFiniteSet(1 .. Len(f)) BY FS_Interval
<1>2. Sha256Cases(f) \in SUBSET (1 .. Len(f)) BY DEF Sha256Cases
<1>3. IsFiniteSet(Sha256Cases(f)) BY <1>1, <1>2, FS_Subset
<1>4. SeenCases(f, i) \in SUBSET Sha256Cases(f) BY DEF SeenCases
<1>5. /\ IsFiniteSet(SeenCases(f, i))
      /\ Cardinality(SeenCases(f, i)) <= Cardinality(Sha256Cases(f))
  BY <1>3, <1>4, FS_Subset
<1> QED BY <1>3, <1>5, FS_CardinalityType DEF Seen, Total

LEMMA SeenAtEnds ==
    ASSUME NEW f \in Seq(RspLines)
    PROVE  /\ Seen(f, 1) = 0 /\ ~InSha256Section(f, 1)
           /\ Seen(f, Len(f) + 1) = Total(f)
<1>1. SeenCases(f, 1) = {} BY DEF SeenCases, Sha256Cases
<1>2. Headings(f, 1) = {} BY DEF Headings
<1>3. SeenCases(f, Len(f) + 1) = Sha256Cases(f) BY DEF SeenCases, Sha256Cases
<1> QED BY <1>1, <1>2, <1>3, FS_EmptySet DEF Seen, Total, InSha256Section

LEMMA NothingSeen == Total(<<>>) = 0 /\ Seen(<<>>, 1) = 0
<1>1. <<>> \in Seq(RspLines) /\ Len(<<>>) + 1 = 1 OBVIOUS
<1>2. Seen(<<>>, Len(<<>>) + 1) = Total(<<>>) /\ Seen(<<>>, 1) = 0
  BY <1>1, SeenAtEnds
<1> QED BY <1>1, <1>2

(* One more line is one more case when it is a COUNT of a SHA-256 section. *)
LEMMA SeenNext ==
    ASSUME NEW f \in Seq(RspLines), NEW i \in 1 .. Len(f)
    PROVE  Seen(f, i + 1) = Seen(f, i)
               + IF f[i].kind = "count" /\ InSha256Section(f, i) THEN 1 ELSE 0
<1>1. CASE f[i].kind = "count" /\ InSha256Section(f, i)
  <2>1. SeenCases(f, i + 1) = SeenCases(f, i) \cup {i}
    BY <1>1 DEF SeenCases, Sha256Cases
  <2>2. i \notin SeenCases(f, i) BY DEF SeenCases
  <2> QED BY <1>1, <2>1, <2>2, SeenFinite, FS_AddElement DEF Seen
<1>2. CASE ~(f[i].kind = "count" /\ InSha256Section(f, i))
  <2>1. SeenCases(f, i + 1) = SeenCases(f, i)
    BY <1>2 DEF SeenCases, Sha256Cases
  <2> QED BY <1>2, <2>1, SeenFinite DEF Seen
<1> QED BY <1>1, <1>2

(* A heading opens a section, every other line stays in its own. *)
LEMMA SectionNext ==
    ASSUME NEW f \in Seq(RspLines), NEW i \in 1 .. Len(f)
    PROVE  /\ f[i].kind = "heading" =>
                  (InSha256Section(f, i + 1) <=> f[i].sha256)
           /\ f[i].kind # "heading" =>
                  (InSha256Section(f, i + 1) <=> InSha256Section(f, i))
<1>1. CASE f[i].kind = "heading"
  <2>1. i \in Headings(f, i + 1) /\ \A j \in Headings(f, i + 1) : j <= i
    BY <1>1 DEF Headings
  <2>2. Headings(f, i + 1) \subseteq Nat BY DEF Headings
  <2>3. LastOf(Headings(f, i + 1)) = i
    <3> DEFINE last == LastOf(Headings(f, i + 1))
    <3>1. /\ last \in Headings(f, i + 1)
          /\ \A j \in Headings(f, i + 1) : j <= last
      BY <2>1 DEF LastOf
    <3>2. last <= i /\ i <= last BY <2>1, <3>1
    <3>3. last \in Nat BY <2>2, <3>1
    <3> HIDE DEF last
    <3>4. last = i BY <3>2, <3>3
    <3> QED BY <3>4 DEF last
  <2> QED BY <1>1, <2>1, <2>3 DEF InSha256Section
<1>2. CASE f[i].kind # "heading"
  <2>1. Headings(f, i + 1) = Headings(f, i) BY <1>2 DEF Headings
  <2> QED BY <1>2, <2>1 DEF InSha256Section
<1> QED BY <1>1, <1>2

-----------------------------------------------------------------------------
(* No case is lost.                                                        *)

(* The counters account for every case: those of the file for the lines    *)
(* read, those of the run for the files that are closed.  A case stands in *)
(* the counters as soon as it runs; before that it is the active one.  All *)
(* of it holds up to the first error, which is what makes the run fail.    *)
Collected == IF pc = "read" /\ test_case.active THEN 1 ELSE 0

Running == IF pc \in Executes THEN 1 ELSE 0

FileCounted ==
    /\ file_stats.tested + Collected <= Seen(file, line)
    /\ file_ok => /\ file_stats.tested + Collected = Seen(file, line)
                  /\ file_stats.passed + Running = file_stats.tested

RunCounted ==
    /\ stats.tested + Total(file) <= cases
    /\ all_files_ok => /\ stats.tested + Total(file) = cases
                       /\ stats.passed = stats.tested

(* The code's view of the line: its section, and the end of a case.        *)
InStep ==
    /\ pc \in {"open", "exited"} =>
           /\ file = <<>> /\ line = 1 /\ file_stats = NoStats
           /\ ~config.is_sha256 /\ ~test_case.active
    /\ line <= Len(file) => (config.is_sha256 <=> InSha256Section(file, line))
    /\ pc = "read" /\ test_case.active => ~test_case.single["ReturnedBits"].present
    /\ pc \in Executes => file[line].kind = "field"

ExitCounted ==
    pc = "exited" /\ exit_code = "SUCCESS" => all_files_ok /\ stats.tested # 0

Counted == FileCounted /\ RunCounted /\ InStep /\ ExitCounted

(* A line that is no COUNT and runs no case. *)
LEMMA QuietLine ==
    ASSUME Shapes, Counted, pc = "read", line <= Len(file), NextLine,
           Current.kind # "count", NoError \/ ParseError,
           Current.kind = "heading" => config'.is_sha256 = Current.sha256,
           Current.kind # "heading" => config'.is_sha256 = config.is_sha256,
           test_case'.active = test_case.active,
           test_case'.active => ~test_case'.single["ReturnedBits"].present
    PROVE  Counted'
<1> DEFINE next == line + 1
<1>1. /\ line' = next /\ pc' = "read" /\ file' = file
      /\ UNCHANGED <<all_files_ok, stats, exit_code, cases>>
  BY DEF NextLine, program
<1>2. file \in Seq(RspLines) /\ line \in 1 .. Len(file) BY DEF Shapes
<1>3. Seen(file, next) = Seen(file, line) /\ Seen(file, line) \in Nat
  <2>1. line \in Nat BY DEF Shapes
  <2>2. Seen(file, line) \in Nat BY <1>2, <2>1, SeenFinite
  <2>3. file[line].kind # "count" BY DEF Current
  <2>4. Seen(file, next) = Seen(file, line) + 0 BY <1>2, <2>3, SeenNext
  <2> QED BY <2>2, <2>4
<1>4. next <= Len(file) =>
          (config'.is_sha256 <=> InSha256Section(file, next))
  <2>1. config.is_sha256 <=> InSha256Section(file, line)
    BY DEF Counted, InStep
  <2>2. CASE Current.kind = "heading"
    BY <1>2, <2>2, SectionNext DEF Current
  <2>3. CASE Current.kind # "heading"
    BY <1>2, <2>1, <2>3, SectionNext DEF Current
  <2> QED BY <2>2, <2>3
<1>5. InStep' BY <1>1, <1>4 DEF InStep, Executes
<1>6. ExitCounted' /\ RunCounted'
  BY <1>1 DEF Counted, ExitCounted, RunCounted
<1>7. Collected' = Collected /\ Running' = 0 /\ Running = 0
  BY <1>1 DEF Collected, Running, Executes
<1>8. FileCounted'
  <2>1. FileCounted BY DEF Counted
  <2>2. file_stats'.tested = file_stats.tested
    BY DEF NoError, ParseError, Shapes, Stats
  <2>3. CASE NoError
    BY <1>1, <1>3, <1>7, <2>1, <2>3 DEF NoError, FileCounted
  <2>4. CASE ParseError
    <3>1. ~file_ok' BY <2>4 DEF ParseError
    <3> QED BY <1>1, <1>3, <1>7, <2>1, <2>2, <3>1 DEF FileCounted
  <2> QED BY <2>3, <2>4
<1> QED BY <1>5, <1>6, <1>8 DEF Counted

LEMMA CountedStep == Shapes /\ Counted /\ [Next]_vars => Counted'
<1> SUFFICES ASSUME Shapes, Counted, [Next]_vars PROVE Counted' OBVIOUS
<1> USE DEF Counted
<1>1. CASE UNCHANGED vars
  BY <1>1 DEF vars, reading, program, running, FileCounted, RunCounted, InStep,
              ExitCounted, Collected, Running, Executes
<1>2. CASE SkipLine
  BY <1>2, QuietLine DEF SkipLine, At, InStep
<1>3. CASE ReadMalformed
  BY <1>3, QuietLine DEF ReadMalformed, At, InStep
<1>4. CASE ReadHeading
  <2>1. config'.is_sha256 = Current.sha256
    BY <1>4 DEF ReadHeading, Heading, ZeroConfig
  <2> QED BY <1>4, <2>1, QuietLine DEF ReadHeading, At, InStep
<1>5. CASE ReadSetting
  <2>1. config'.is_sha256 = config.is_sha256
    BY <1>5 DEF ReadSetting, Set, Shapes, Configs
  <2>2. NoError \/ ParseError BY <1>5 DEF ReadSetting
  <2> QED BY <1>5, <2>1, <2>2, QuietLine DEF ReadSetting, At, InStep
<1>6. CASE SkipField
  BY <1>6, QuietLine DEF SkipField, At, InStep
<1>7. CASE RefuseField
  BY <1>7, QuietLine DEF RefuseField, Collecting, At, InStep
<1>8. CASE BadField
  <2>1. Collecting /\ At("field") /\ line <= Len(file)
    BY <1>8 DEF BadField, Collecting, At
  <2>2. Current.key \in Lists \cup Singles
    BY <2>1, CurrentParts, LineParts DEF Collecting, At
  <2>3. /\ test_case'.active = test_case.active
        /\ ~test_case'.single["ReturnedBits"].present
    <3>1. ~test_case.single["ReturnedBits"].present
      BY <2>1 DEF Collecting, At, InStep
    <3>2. test_case \in TestCases /\ NoBuffer \in Buffers
      BY ZeroShapes DEF Shapes
    <3>3. test_case' = WithField(test_case, Current.key, NoBuffer)
      BY <1>8 DEF BadField
    <3>4. /\ test_case'.active = test_case.active
          /\ \/ test_case'.single["ReturnedBits"] = NoBuffer
             \/ test_case'.single["ReturnedBits"] =
                    test_case.single["ReturnedBits"]
      BY <2>2, <3>2, <3>3, WithFieldShape
    <3>5. ~NoBuffer.present BY DEF NoBuffer
    <3> QED BY <3>1, <3>4, <3>5
  <2> QED BY <1>8, <2>1, <2>3, QuietLine DEF BadField, At
<1>9. CASE GoodField
  <2>1. Collecting /\ At("field") /\ line <= Len(file)
    BY <1>9 DEF GoodField, Collecting, At
  <2>2. Current.key \in Lists \cup Singles /\ Current.value \in Data
    BY <2>1, CurrentParts, LineParts DEF Collecting, At
  <2>3. buffer_set_hex(Current.value) \in Buffers
    BY <1>9, <2>2 DEF GoodField, buffer_set_hex, Buffers, Data
  <2>4. test_case \in TestCases BY DEF Shapes
  <2>5. test_case' = WithField(test_case, Current.key,
                               buffer_set_hex(Current.value))
    BY <1>9 DEF GoodField
  <2>6. /\ test_case'.active = test_case.active
        /\ Current.key # "ReturnedBits" =>
              test_case'.single["ReturnedBits"] = test_case.single["ReturnedBits"]
    BY <2>2, <2>3, <2>4, <2>5, WithFieldShape
  <2>7. CASE Current.key # "ReturnedBits"
    <3>1. NextLine /\ NoError /\ UNCHANGED config
      BY <1>9, <2>7 DEF GoodField
    <3>2. test_case'.active => ~test_case'.single["ReturnedBits"].present
      BY <2>1, <2>6, <2>7 DEF InStep, At
    <3> QED BY <2>1, <2>6, <3>1, <3>2, QuietLine DEF At
  <2>8. CASE Current.key = "ReturnedBits"
    <3>1. /\ file_stats' = [file_stats EXCEPT !.tested = @ + 1]
          /\ pc = "read" /\ pc' = "validate" /\ test_case.active
          /\ UNCHANGED <<line, file, file_ok, config, stats, all_files_ok,
                         exit_code, cases>>
          /\ file[line].kind = "field"
      BY <1>9, <2>1, <2>8
      DEF GoodField, program, Collecting, At, Current
    <3>2. file_stats'.tested = file_stats.tested + 1
          /\ file_stats'.passed = file_stats.passed
      BY <3>1 DEF Shapes, Stats
    <3>3. Collected = 1 /\ Collected' = 0 /\ Running = 0 /\ Running' = 1
      BY <3>1 DEF Collected, Running, Executes
    <3>4. /\ file_stats.tested \in Nat /\ file_stats.passed \in Nat
          /\ Seen(file, line) \in Nat
      BY SeenFinite DEF Shapes, Stats
    <3>5. FileCounted' BY <3>1, <3>2, <3>3, <3>4 DEF FileCounted
    <3>6. RunCounted' /\ ExitCounted'
      BY <3>1 DEF RunCounted, ExitCounted
    <3>7. InStep' BY <3>1, <3>2 DEF InStep, Executes
    <3> QED BY <3>5, <3>6, <3>7
  <2> QED BY <2>7, <2>8
<1>10. CASE ReadCount
  <2>1. /\ pc = "read" /\ line <= Len(file) /\ file[line].kind = "count"
        /\ line' = line + 1 /\ pc' = "read"
        /\ UNCHANGED <<file, config, stats, all_files_ok, exit_code, cases>>
        /\ file_stats' = [file_stats EXCEPT !.parse_errors = @ + CountErrors]
    BY <1>10 DEF ReadCount, At, Current, NextLine, program
  <2>2. /\ test_case'.active <=> (Current.good /\ config.is_sha256)
        /\ ~test_case'.single["ReturnedBits"].present
    BY <1>10 DEF ReadCount, vector_case_clear, NoCase, NoBuffer, Singles
  <2>3. /\ file \in Seq(RspLines) /\ line \in 1 .. Len(file) /\ line \in Nat
        /\ file_stats.tested \in Nat /\ file_stats.passed \in Nat
    BY <2>1 DEF Shapes, Stats
  <2>4. Seen(file, line) \in Nat BY <2>3, SeenFinite
  <2>5. config.is_sha256 <=> InSha256Section(file, line) BY <2>1 DEF InStep
  <2>6. Seen(file', line') = Seen(file, line)
                                 + IF config.is_sha256 THEN 1 ELSE 0
    BY <2>1, <2>3, <2>5, SeenNext
  <2>7. file_stats'.tested = file_stats.tested
        /\ file_stats'.passed = file_stats.passed
    BY <2>1 DEF Shapes, Stats
  <2>8. Running = 0 /\ Running' = 0 /\ Collected \in {0, 1}
    BY <2>1 DEF Running, Executes, Collected
  <2>9. Collected' <= (IF config.is_sha256 THEN 1 ELSE 0) /\ Collected' \in {0, 1}
    BY <2>1, <2>2 DEF Collected
  <2>10. file_ok' => /\ file_ok /\ Collected = 0
                    /\ Collected' = IF config.is_sha256 THEN 1 ELSE 0
    <3> SUFFICES ASSUME file_ok'
                 PROVE  /\ file_ok /\ Collected = 0
                        /\ Collected' = IF config.is_sha256 THEN 1 ELSE 0
      OBVIOUS
    <3>1. file_ok /\ CountErrors = 0 BY <1>10 DEF ReadCount
    <3>2. Current.good BY <3>1 DEF CountErrors
    <3>3. ~(test_case.active /\ ~test_case.single["ReturnedBits"].present)
      BY <3>1 DEF CountErrors
    <3>4. ~test_case.active BY <2>1, <3>3 DEF InStep
    <3> QED BY <2>1, <2>2, <3>1, <3>2, <3>4 DEF Collected
  <2>11. FileCounted'
    BY <2>3, <2>4, <2>6, <2>7, <2>8, <2>9, <2>10 DEF FileCounted
  <2>12. InStep' BY <2>1, <2>2, <2>3, <2>5, SectionNext DEF InStep, Executes
  <2>13. RunCounted' /\ ExitCounted' BY <2>1 DEF RunCounted, ExitCounted
  <2> QED BY <2>11, <2>12, <2>13
<1>11. CASE StopReading
  <2>1. /\ pc = "read" /\ line' = Len(file) + 1 /\ pc' = "read" /\ ~file_ok'
        /\ UNCHANGED <<file, config, test_case, stats, all_files_ok, exit_code,
                       cases>>
        /\ file_stats' = [file_stats EXCEPT !.parse_errors = @ + 1]
    BY <1>11 DEF StopReading, ParseError, program
  <2>2. /\ file \in Seq(RspLines) /\ line \in Nat
        /\ file_stats.tested \in Nat /\ file_stats'.tested = file_stats.tested
    BY <2>1 DEF Shapes, Stats
  <2>3. /\ Seen(file, line) <= Seen(file', line')
        /\ Seen(file, line) \in Nat /\ Seen(file', line') \in Nat
    <3>1. Seen(file, line) \in Nat /\ Total(file) \in Nat
          /\ Seen(file, line) <= Total(file)
      BY <2>2, SeenFinite
    <3>2. Seen(file, Len(file) + 1) = Total(file) BY <2>2, SeenAtEnds
    <3> QED BY <2>1, <3>1, <3>2
  <2>4. Collected' = Collected /\ Collected \in {0, 1} BY <2>1 DEF Collected
  <2>5. FileCounted' BY <2>1, <2>2, <2>3, <2>4 DEF FileCounted
  <2>6. ~(line' <= Len(file')) BY <2>1, <2>2
  <2>7. InStep' BY <2>1, <2>6 DEF InStep, Executes
  <2>8. RunCounted' /\ ExitCounted' BY <2>1 DEF RunCounted, ExitCounted
  <2> QED BY <2>5, <2>7, <2>8
<1>12. CASE Open
  <2>1. /\ pc = "open"
        /\ UNCHANGED <<line, config, test_case, file_ok, file_stats>>
        /\ file = <<>> /\ line = 1 /\ file_stats = NoStats
        /\ ~config.is_sha256 /\ ~test_case.active
    BY <1>12 DEF Open, InStep
  <2>2. Total(<<>>) = 0 BY NothingSeen
  <2>3. CASE /\ file' \in Files[files + 1]
             /\ cases' = cases + Cardinality(Sha256Cases(file'))
             /\ pc' = "read" /\ UNCHANGED <<stats, all_files_ok>>
    <3>1. files \in Nat /\ files < Len(Files) BY <1>12 DEF Shapes, Open
    <3>2. file' \in Seq(RspLines) BY <2>3, <3>1, FilesAssumption
    <3>3. /\ Seen(file', line') = 0 /\ ~InSha256Section(file', line')
          /\ Total(file') \in Nat
      BY <2>1, <3>2, SeenAtEnds, SeenFinite
    <3>4. Collected' = 0 /\ Running' = 0
      BY <2>1, <2>3 DEF Collected, Running, Executes
    <3>5. file_stats'.tested = 0 /\ file_stats'.passed = 0
      BY <2>1 DEF NoStats
    <3>6. FileCounted' BY <3>3, <3>4, <3>5 DEF FileCounted
    <3>7. cases \in Nat /\ stats.tested \in Nat BY DEF Shapes, Stats
    <3>8. cases' = cases + Total(file') BY <2>3 DEF Total
    <3>9. RunCounted' BY <2>1, <2>2, <2>3, <3>3, <3>7, <3>8 DEF RunCounted
    <3>10. InStep' /\ ExitCounted'
      BY <2>1, <2>3, <3>3 DEF InStep, ExitCounted, Executes
    <3> QED BY <3>6, <3>9, <3>10
  <2>4. CASE /\ stats' = [stats EXCEPT !.parse_errors = @ + 1]
             /\ all_files_ok' = FALSE /\ UNCHANGED <<file, cases, pc>>
    <3>1. stats'.tested = stats.tested BY <2>4 DEF Shapes, Stats
    <3>2. InStep' BY <2>1, <2>4 DEF InStep, Executes
    <3>3. Collected' = Collected /\ Running' = Running
      BY <2>1, <2>4 DEF Collected, Running
    <3>4. FileCounted' BY <2>1, <2>4, <3>3 DEF FileCounted
    <3>5. RunCounted' BY <2>4, <3>1 DEF RunCounted
    <3>6. ExitCounted' BY <2>1, <2>4 DEF ExitCounted
    <3> QED BY <3>2, <3>4, <3>5, <3>6
  <2> QED BY <1>12, <2>3, <2>4 DEF Open
<1>13. CASE ExecuteCase
  <2>1. CASE CountVerdict
    <3>1. /\ pc = "return" /\ pc' = "read" /\ line' = line + 1
          /\ UNCHANGED <<file, config, stats, all_files_ok, exit_code, cases>>
          /\ ~test_case'.active
          /\ file[line].kind = "field"
      BY <2>1, ZeroShapes
      DEF CountVerdict, NextLine, program, vector_case_clear, InStep, Executes
    <3>2. file \in Seq(RspLines) /\ line \in 1 .. Len(file) /\ line \in Nat
      BY <3>1 DEF Shapes, Executes
    <3>3. Seen(file', line') = Seen(file, line) /\ Seen(file, line) \in Nat
      <4>1. Seen(file, line + 1) = Seen(file, line) + 0
        BY <3>1, <3>2, SeenNext
      <4>2. Seen(file, line) \in Nat BY <3>2, SeenFinite
      <4> QED BY <3>1, <4>1, <4>2
    <3>4. Collected = 0 /\ Collected' = 0 /\ Running = 1 /\ Running' = 0
      BY <3>1 DEF Collected, Running, Executes
    <3>5. /\ file_stats'.tested = file_stats.tested
          /\ file_ok' => file_ok /\ file_stats'.passed = file_stats.passed + 1
      <4>1. CASE passed
        <5>1. file_stats' = [file_stats EXCEPT !.passed = @ + 1]
              /\ file_ok' = (file_ok /\ passed)
          BY <2>1, <4>1 DEF CountVerdict
        <5> QED BY <5>1 DEF Shapes, Stats
      <4>2. CASE ~passed
        <5>1. file_stats' = [file_stats EXCEPT !.failed = @ + 1]
              /\ file_ok' = (file_ok /\ passed)
          BY <2>1, <4>2 DEF CountVerdict
        <5> QED BY <4>2, <5>1 DEF Shapes, Stats
      <4> QED BY <4>1, <4>2
    <3>6. file_stats.tested \in Nat /\ file_stats.passed \in Nat
      BY DEF Shapes, Stats
    <3>7. FileCounted' BY <3>3, <3>4, <3>5, <3>6 DEF FileCounted
    <3>8. InStep' BY <3>1, <3>2, SectionNext DEF InStep, Executes
    <3>9. RunCounted' /\ ExitCounted' BY <3>1 DEF RunCounted, ExitCounted
    <3> QED BY <3>7, <3>8, <3>9
  <2>2. CASE Validate \/ Alloc \/ CallSucceeds \/ CallFails \/ Compare \/ Cleanup
    <3>1. /\ pc \in Executes /\ pc' \in Executes
          /\ Executing
      BY <2>2 DEF Validate, Alloc, CallSucceeds, CallFails, Compare, Cleanup,
                  Executes
    <3> QED
      BY <3>1 DEF Executing, reading, program, FileCounted, RunCounted, InStep,
                  ExitCounted, Collected, Running, Executes
  <2> QED BY <1>13, <2>1, <2>2 DEF ExecuteCase
<1>14. CASE EndOfFile
  <2>1. /\ pc = "read" /\ line > Len(file) /\ pc' = "open"
        /\ file' = <<>> /\ line' = 1 /\ config' = ZeroConfig
        /\ file_ok' = TRUE /\ file_stats' = NoStats /\ test_case' = NoCase
        /\ UNCHANGED cases
    BY <1>14 DEF EndOfFile, vector_case_clear
  <2>2. /\ file \in Seq(RspLines) /\ line = Len(file) + 1 /\ line \in Nat
        /\ cases \in Nat
    BY <2>1 DEF Shapes
  <2>3. Seen(file, line) = Total(file) /\ Total(file) \in Nat
    BY <2>2, SeenAtEnds, SeenFinite
  <2>4. Total(file') = 0 /\ Seen(file', line') = 0
    BY <2>1, NothingSeen
  <2>5. /\ stats.tested \in Nat /\ stats.passed \in Nat
        /\ file_stats.tested \in Nat /\ file_stats.passed \in Nat
        /\ DOMAIN stats = {"tested", "passed", "failed", "parse_errors"}
    BY DEF Shapes, Stats
  <2>6. /\ stats'.tested = stats.tested + file_stats.tested
        /\ stats'.passed = stats.passed + file_stats.passed
    <3>1. stats' = [name \in {"tested", "passed", "failed", "parse_errors"} |->
                       stats[name] + file_stats[name]
                           + IF name = "parse_errors"
                             THEN IF test_case.active THEN 1 ELSE 0 ELSE 0]
      BY <1>14, <2>5 DEF EndOfFile
    <3> QED BY <2>5, <3>1
  <2>7. all_files_ok' => all_files_ok /\ file_ok /\ ~test_case.active
    <3>1. all_files_ok' = (all_files_ok /\ file_ok
                               /\ (IF test_case.active THEN 1 ELSE 0) = 0)
      BY <1>14, Zenon DEF EndOfFile
    <3>2. (IF test_case.active THEN 1 ELSE 0) = 0 => ~test_case.active OBVIOUS
    <3> QED BY <3>1, <3>2, Zenon
  <2>8. Collected \in {0, 1} /\ Running = 0 /\ (~test_case.active => Collected = 0)
    BY <2>1 DEF Collected, Running, Executes
  <2>9. RunCounted'
    BY <2>1, <2>2, <2>3, <2>4, <2>5, <2>6, <2>7, <2>8 DEF RunCounted, FileCounted
  <2>10. FileCounted'
    <3>1. Collected' = 0 /\ Running' = 0
      BY <2>1 DEF Collected, Running, Executes
    <3>2. file_stats'.tested = 0 /\ file_stats'.passed = 0
      BY <2>1 DEF NoStats
    <3> QED BY <2>4, <3>1, <3>2 DEF FileCounted
  <2>11. InStep' /\ ExitCounted'
    <3>1. ~config'.is_sha256 BY <2>1 DEF ZeroConfig
    <3>2. ~test_case'.active BY <2>1, ZeroShapes
    <3>3. ~(line' <= Len(file')) BY <2>1
    <3> QED BY <2>1, <3>1, <3>2, <3>3 DEF InStep, ExitCounted, Executes
  <2> QED BY <2>9, <2>10, <2>11
<1>15. CASE Exit
  <2>1. /\ pc = "open" /\ pc' = "exited"
        /\ exit_code' = IF Success THEN "SUCCESS" ELSE "FAILURE"
        /\ UNCHANGED <<line, file, config, test_case, file_ok, file_stats,
                       all_files_ok, stats, cases>>
    BY <1>15 DEF Exit, reading
  <2>2. ExitCounted' BY <2>1 DEF ExitCounted, Success
  <2>3. RunCounted' BY <2>1 DEF RunCounted
  <2>4. FileCounted' /\ InStep'
    BY <2>1 DEF FileCounted, InStep, Collected, Running, Executes
  <2> QED BY <2>2, <2>3, <2>4
<1> QED
  BY <1>1, <1>2, <1>3, <1>4, <1>5, <1>6, <1>7, <1>8, <1>9, <1>10, <1>11,
     <1>12, <1>13, <1>14, <1>15 DEF Next, ReadLine

LEMMA CountedInit == Init => Counted
<1> SUFFICES ASSUME Init PROVE Counted OBVIOUS
<1>1. Total(<<>>) = 0 /\ Seen(<<>>, 1) = 0 BY NothingSeen
<1>2. FileCounted
  BY <1>1 DEF Init, FileCounted, Collected, Running, Executes, NoStats
<1>3. RunCounted BY <1>1 DEF Init, RunCounted, NoStats
<1>4. InStep /\ ExitCounted
  BY ZeroShapes DEF Init, InStep, ExitCounted, ZeroConfig, Executes
<1> QED BY <1>2, <1>3, <1>4 DEF Counted

(* No case is lost in silence: see NoCaseIsLost.  With an error anywhere,  *)
(* in a line, in a case or in a file, the run cannot succeed; without one, *)
(* every case of every file was tested and passed.                         *)
THEOREM EveryCaseCounts == Spec => []NoCaseIsLost
<1>1. Init => Counted BY CountedInit
<1>2. Shapes /\ Counted => NoCaseIsLost
  <2> SUFFICES ASSUME Shapes, Counted PROVE NoCaseIsLost OBVIOUS
  <2>1. /\ cases \in Nat /\ stats.tested \in Nat
        /\ file \in Seq(RspLines) /\ line \in Nat
    BY DEF Shapes, Stats
  <2>2. Total(file) \in Nat BY <2>1, SeenFinite
  <2>3. stats.tested <= cases BY <2>1, <2>2 DEF Counted, RunCounted
  <2>4. CASE pc = "exited" /\ exit_code = "SUCCESS"
    <3>1. file = <<>> /\ all_files_ok /\ stats.tested # 0
      BY <2>4 DEF Counted, InStep, ExitCounted
    <3>2. Total(file) = 0 BY <3>1, NothingSeen
    <3> QED BY <2>1, <2>3, <3>1, <3>2 DEF Counted, RunCounted, NoCaseIsLost
  <2> QED BY <2>3, <2>4 DEF NoCaseIsLost
<1> QED BY <1>1, <1>2, CountedStep, ShapesHold, PTL DEF Spec

-----------------------------------------------------------------------------
(* Nothing of a case outlives it: its context is uninstantiated and freed  *)
(* before its verdict is counted, its fields are cleared before the next   *)
(* file, on every path through execute_case.                               *)
THEOREM CasesEndClean == Spec => []NothingOutlivesItsCase
<1>1. Init => NothingOutlivesItsCase BY DEF Init, NothingOutlivesItsCase
<1>2. NothingOutlivesItsCase /\ [Next]_vars => NothingOutlivesItsCase'
  <2> SUFFICES ASSUME NothingOutlivesItsCase, [Next]_vars
               PROVE  NothingOutlivesItsCase'
    OBVIOUS
  <2> USE DEF NothingOutlivesItsCase, reading, program, running
  <2>1. CASE UNCHANGED vars BY <2>1 DEF vars
  <2>2. CASE Open BY <2>2 DEF Open
  <2>3. CASE ReadLine
    BY <2>3 DEF ReadLine, SkipLine, ReadMalformed, StopReading, ReadHeading,
                ReadSetting, ReadCount, SkipField, RefuseField, BadField,
                GoodField, Collecting, At, NextLine
  <2>4. CASE ExecuteCase
    <3>1. CASE CallSucceeds \/ CallFails \/ Compare
      BY <3>1 DEF CallSucceeds, CallFails, Compare, Executing
    <3>2. CASE Validate \/ Alloc BY <3>2 DEF Validate, Alloc, Executing
    <3>3. CASE Cleanup BY <3>3 DEF Cleanup, AfterCleanup, Executing
    <3>4. CASE CountVerdict BY <3>4 DEF CountVerdict, NextLine
    <3> QED BY <2>4, <3>1, <3>2, <3>3, <3>4 DEF ExecuteCase
  <2>5. CASE EndOfFile BY <2>5 DEF EndOfFile, vector_case_clear
  <2>6. CASE Exit BY <2>6 DEF Exit
  <2> QED BY <2>1, <2>2, <2>3, <2>4, <2>5, <2>6 DEF Next
<1> QED BY <1>1, <1>2, PTL DEF Spec

-----------------------------------------------------------------------------
(* The first and the last of some lines.                                   *)
LEMMA LastIs ==
    ASSUME NEW S, S \subseteq Nat, NEW m \in S, \A j \in S : j <= m
    PROVE  LastOf(S) = m
<1> DEFINE last == LastOf(S)
<1>1. last \in S /\ \A j \in S : j <= last BY DEF LastOf
<1> HIDE DEF last
<1>2. last <= m /\ m <= last /\ last \in Nat BY <1>1
<1>3. last = m BY <1>2
<1> QED BY <1>3 DEF last

LEMMA FirstExists ==
    ASSUME NEW S, S \subseteq Nat, S # {}
    PROVE  FirstOf(S) \in S /\ \A j \in S : FirstOf(S) <= j
<1> DEFINE less == OpToRel(<, Nat)
<1>1. IsWellFoundedOn(less, Nat) BY NatLessThanWellFounded
<1>2. \A m, n \in Nat : m < n => <<m, n>> \in less BY DEF OpToRel
<1> HIDE DEF less
<1>3. PICK n \in S : \A m \in S : ~(<<m, n>> \in less) BY <1>1, WFMin
<1>4. \A m \in S : n <= m
  <2> SUFFICES ASSUME NEW m \in S PROVE n <= m OBVIOUS
  <2>1. m \in Nat /\ n \in Nat OBVIOUS
  <2>2. ~(m < n) BY <1>2, <1>3, <2>1
  <2> QED BY <2>1, <2>2
<1> QED BY <1>4 DEF FirstOf

LEMMA FirstStays ==
    ASSUME NEW S, S \subseteq Nat, S # {}, NEW m \in Nat, \A j \in S : j < m
    PROVE  FirstOf(S \cup {m}) = FirstOf(S)
<1> DEFINE first == FirstOf(S)
           next  == FirstOf(S \cup {m})
<1>1. first \in S /\ \A j \in S : first <= j BY FirstExists
<1>2. next \in S \cup {m} /\ \A j \in S \cup {m} : next <= j
  <2>1. S \cup {m} \subseteq Nat /\ S \cup {m} # {} OBVIOUS
  <2> HIDE DEF next
  <2> QED BY <2>1, FirstExists DEF next
<1> HIDE DEF first, next
<1>3. next <= first /\ first < m BY <1>1, <1>2
<1>4. next \in S BY <1>1, <1>2, <1>3
<1>5. first = next BY <1>1, <1>3, <1>4
<1> QED BY <1>5 DEF first, next

LEMMA FirstOfOne ==
    ASSUME NEW m \in Nat
    PROVE  FirstOf({m}) = m
BY FirstExists

(* A list of one, and one more.                                            *)
LEMMA Appended ==
    ASSUME NEW T, NEW s \in Seq(T), NEW b \in T
    PROVE  /\ Append(s, b) \in Seq(T) /\ Len(Append(s, b)) = Len(s) + 1
           /\ \A i \in 1 .. Len(s) : Append(s, b)[i] = s[i]
           /\ Append(s, b)[Len(s) + 1] = b
OBVIOUS

LEMMA AppendedToOne ==
    ASSUME NEW T, NEW s \in Seq(T), NEW b \in T, Len(s) = 1
    PROVE  Append(s, b)[1] = s[1] /\ Append(s, b)[2] = b
<1>1. Append(s, b)[2] = b
  <2>1. Append(s, b)[Len(s) + 1] = b BY Appended, Zenon
  <2>2. Len(s) + 1 = 2 OBVIOUS
  <2> QED BY <2>1, <2>2, Zenon
<1>2. Append(s, b)[1] = s[1]
  <2>1. \A i \in 1 .. Len(s) : Append(s, b)[i] = s[i] OBVIOUS
  <2>2. 1 \in 1 .. Len(s) OBVIOUS
  <2> QED BY <2>1, <2>2, Zenon
<1> QED BY <1>1, <1>2, Zenon

LEMMA SamePairs ==
    ASSUME NEW T, NEW s \in Seq(T), NEW t \in Seq(T), Len(s) = 2, Len(t) = 2,
           s[1] = t[1], s[2] = t[2]
    PROVE  s = t
<1>1. \A i \in 1 .. 2 : s[i] = t[i]
  <2> TAKE i \in 1 .. 2
  <2>1. i = 1 \/ i = 2 OBVIOUS
  <2> QED BY <2>1
<1> QED BY <1>1

LEMMA TwoElements ==
    ASSUME NEW T, NEW a \in T, NEW b \in T
    PROVE  Append(<<a>>, b) = <<a, b>>
<1> DEFINE one == <<a>>
<1>1. one \in Seq(T) /\ Len(one) = 1 /\ one[1] = a OBVIOUS
<1> HIDE DEF one
<1>2. Append(one, b) \in Seq(T) /\ Len(Append(one, b)) = 1 + 1
  BY <1>1, Appended
<1>3. Append(one, b)[2] = b BY <1>1, AppendedToOne, Zenon
<1>4. Append(one, b)[1] = a BY <1>1, AppendedToOne, Zenon
<1> DEFINE two == Append(one, b)
           pair == <<a, b>>
<1>5. two \in Seq(T) /\ Len(two) = 2 /\ two[1] = a /\ two[2] = b
  BY <1>2, <1>3, <1>4
<1>6. pair \in Seq(T) /\ Len(pair) = 2 /\ pair[1] = a /\ pair[2] = b OBVIOUS
<1> HIDE DEF two, pair
<1>7. two = pair BY <1>5, <1>6, SamePairs
<1> QED BY <1>7 DEF one, two, pair

LEMMA ShortLists ==
    ASSUME NEW a, NEW b
    PROVE  /\ Len(<<a>>) = 1 /\ Len(<<a, b>>) = 2
           /\ Append(<<a>>, b) = <<a, b>>
<1>1. a \in {a, b} /\ b \in {a, b} OBVIOUS
<1>2. Append(<<a>>, b) = <<a, b>> BY <1>1, TwoElements
<1> QED BY <1>2

(* One more line of a field is the last of them, and goes to the end of    *)
(* those that are kept.                                                    *)
LEMMA OneMoreField ==
    ASSUME NEW f, NEW S, S \subseteq Nat, NEW m \in Nat, \A j \in S : j < m
    PROVE  LET buffer == buffer_set_hex(f[m].value)
               kept   == FirstFields(f, S)
           IN  /\ LastField(f, S \cup {m}) = buffer
               /\ FirstFields(f, S \cup {m}) =
                      IF Len(kept) >= VECTOR_OPERATIONS THEN kept
                      ELSE Append(kept, buffer)
<1> DEFINE buffer == buffer_set_hex(f[m].value)
           kept   == FirstFields(f, S)
           more   == S \cup {m}
           Read(T) == buffer_set_hex(f[FirstOf(T)].value)
<1> SUFFICES /\ LastField(f, more) = buffer
             /\ FirstFields(f, more) = IF Len(kept) >= VECTOR_OPERATIONS
                                       THEN kept ELSE Append(kept, buffer)
  OBVIOUS
<1>1. LastField(f, more) = buffer
  <2>1. more \subseteq Nat /\ m \in more /\ \A j \in more : j <= m OBVIOUS
  <2>2. LastOf(more) = m /\ more # {} BY <2>1, LastIs
  <2> QED BY <2>2 DEF LastField
<1>2. CASE S = {}
  <2>1. more = {m} BY <1>2
  <2>2. FirstOf(more) = m BY <2>1, FirstOfOne
  <2>3. more # {} /\ more \ {FirstOf(more)} = {} BY <2>1, <2>2
  <2>4. FirstFields(f, more) = <<buffer>> BY <2>2, <2>3 DEF FirstFields
  <2>5. kept = <<>> BY <1>2 DEF FirstFields
  <2>6. ~(Len(kept) >= VECTOR_OPERATIONS) /\ Append(kept, buffer) = <<buffer>>
    BY <2>5 DEF VECTOR_OPERATIONS
  <2> QED BY <1>1, <2>4, <2>6
<1>3. CASE S # {}
  <2> DEFINE later == S \ {FirstOf(S)}
             rest  == more \ {FirstOf(more)}
  <2>1. FirstOf(more) = FirstOf(S) BY <1>3, FirstStays
  <2>2. FirstOf(S) # m
    <3>1. FirstOf(S) \in S BY <1>3, FirstExists
    <3> QED BY <3>1
  <2>3. rest = later \cup {m} BY <2>1, <2>2
  <2>4. more # {} /\ rest # {} BY <2>3
  <2>5. FirstFields(f, more) = <<Read(S), Read(rest)>>
    BY <2>1, <2>4 DEF FirstFields
  <2>6. CASE later = {}
    <3>1. FirstOf(rest) = m BY <2>3, <2>6, FirstOfOne
    <3>2. kept = <<Read(S)>> BY <1>3, <2>6 DEF FirstFields
    <3>3. ~(Len(kept) >= VECTOR_OPERATIONS)
          /\ Append(kept, buffer) = <<Read(S), buffer>>
      BY <3>2, ShortLists DEF VECTOR_OPERATIONS
    <3> QED BY <1>1, <2>5, <3>1, <3>3
  <2>7. CASE later # {}
    <3>1. FirstOf(rest) = FirstOf(later) BY <2>3, <2>7, FirstStays
    <3>2. kept = <<Read(S), Read(later)>> BY <1>3, <2>7 DEF FirstFields
    <3>3. Len(kept) >= VECTOR_OPERATIONS BY <3>2 DEF VECTOR_OPERATIONS
    <3> QED BY <1>1, <2>5, <3>1, <3>2, <3>3
  <2> QED BY <2>6, <2>7, Zenon
<1> QED BY <1>2, <1>3, Zenon

-----------------------------------------------------------------------------
(* What one more line does to the reference.                               *)

(* Settings count from the heading before them.                            *)
LEMMA SettingsNext ==
    ASSUME NEW f \in Seq(RspLines), NEW i \in 1 .. Len(f), NEW name
    PROVE  SettingLines(f, i + 1, name) =
               IF f[i].kind = "heading" THEN {}
               ELSE IF /\ f[i].kind = "setting" /\ f[i].name = name
                       /\ f[i].value # Invalid
                    THEN SettingLines(f, i, name) \cup {i}
                    ELSE SettingLines(f, i, name)
<1>1. CASE f[i].kind = "heading"
  <2>1. i \in Headings(f, i + 1) BY <1>1 DEF Headings
  <2>2. \A j \in 1 .. (i + 1) - 1 : j # i => ~(i < j) OBVIOUS
  <2>3. SettingLines(f, i + 1, name) = {}
    BY <1>1, <2>1, <2>2 DEF SettingLines
  <2> QED BY <1>1, <2>3
<1>2. CASE f[i].kind # "heading"
  <2>1. Headings(f, i + 1) = Headings(f, i) BY <1>2 DEF Headings
  <2>2. \A h \in Headings(f, i) : h < i BY DEF Headings
  <2>3. SettingLines(f, i + 1, name) \ {i} = SettingLines(f, i, name)
    BY <2>1 DEF SettingLines
  <2>4. i \in SettingLines(f, i + 1, name) <=>
            /\ f[i].kind = "setting" /\ f[i].name = name /\ f[i].value # Invalid
    BY <2>1, <2>2 DEF SettingLines
  <2> QED BY <1>2, <2>3, <2>4
<1> QED BY <1>1, <1>2

LEMMA ValueNext ==
    ASSUME NEW f \in Seq(RspLines), NEW i \in 1 .. Len(f), NEW name
    PROVE  OwnValue(f, i + 1, name) =
               IF f[i].kind = "heading" THEN 0
               ELSE IF /\ f[i].kind = "setting" /\ f[i].name = name
                       /\ f[i].value # Invalid
                    THEN f[i].value
                    ELSE OwnValue(f, i, name)
<1> DEFINE own  == SettingLines(f, i, name)
           more == SettingLines(f, i + 1, name)
<1>1. CASE f[i].kind = "heading"
  <2>1. more = {} BY <1>1, SettingsNext
  <2> QED BY <1>1, <2>1 DEF OwnValue
<1>2. CASE /\ f[i].kind # "heading" /\ f[i].kind = "setting" /\ f[i].name = name
           /\ f[i].value # Invalid
  <2>1. more = own \cup {i} BY <1>2, SettingsNext
  <2>2. own \subseteq 1 .. i - 1 BY DEF SettingLines
  <2>3. more \subseteq Nat /\ i \in more /\ \A j \in more : j <= i
    BY <2>1, <2>2
  <2>4. LastOf(more) = i /\ more # {} BY <2>3, LastIs
  <2> QED BY <1>2, <2>4 DEF OwnValue
<1>3. CASE /\ f[i].kind # "heading"
           /\ ~(/\ f[i].kind = "setting" /\ f[i].name = name
                /\ f[i].value # Invalid)
  <2>1. more = own BY <1>3, SettingsNext
  <2> QED BY <1>3, <2>1 DEF OwnValue
<1> QED BY <1>1, <1>2, <1>3

LEMMA SameConfigs ==
    ASSUME NEW c \in Configs, NEW d \in Configs, c.is_sha256 = d.is_sha256,
           c.have_prediction_resistance = d.have_prediction_resistance,
           c.value = d.value
    PROVE  c = d
BY DEF Configs

LEMMA HeadingIs ==
    ASSUME NEW sha256 \in BOOLEAN, NEW c
    PROVE  LET d == Heading(c, sha256)
           IN  /\ d \in Configs /\ d.is_sha256 = sha256
               /\ d.have_prediction_resistance = FALSE
               /\ d.value = [name \in Settings |-> 0]
<1>1. Heading(c, sha256) \in Configs BY ZeroShapes DEF Heading, Configs
<1>2. Heading(c, sha256).is_sha256 = sha256 BY DEF Heading, ZeroConfig
<1>3. Heading(c, sha256).have_prediction_resistance = FALSE
  BY DEF Heading, ZeroConfig
<1>4. Heading(c, sha256).value = [name \in Settings |-> 0]
  BY DEF Heading, ZeroConfig
<1> QED BY <1>1, <1>2, <1>3, <1>4

LEMMA SetIs ==
    ASSUME NEW c \in Configs, NEW name \in Settings, NEW value \in Nat
    PROVE  LET d == Set(c, name, value)
           IN  /\ d \in Configs /\ d.is_sha256 = c.is_sha256
               /\ d.have_prediction_resistance
                      = (c.have_prediction_resistance
                             \/ name = "PredictionResistance")
               /\ d.value = [c.value EXCEPT ![name] = value]
<1> DEFINE values == [c.value EXCEPT ![name] = value]
           have   == c.have_prediction_resistance
                         \/ name = "PredictionResistance"
           next   == [c EXCEPT !.value = values,
                               !.have_prediction_resistance = have]
<1>1. Set(c, name, value) = next BY DEF Set, Configs
<1>2. values \in [Settings -> Nat] /\ have \in BOOLEAN BY DEF Configs
<1> HIDE DEF values, have
<1>3. next \in Configs BY <1>2 DEF Configs
<1>4. next.value = values BY <1>2 DEF Configs
<1>5. next.is_sha256 = c.is_sha256 BY <1>2 DEF Configs
<1>6. next.have_prediction_resistance = have BY <1>2 DEF Configs
<1> QED BY <1>1, <1>3, <1>4, <1>5, <1>6 DEF values, have

LEMMA OwnParts ==
    ASSUME NEW f, NEW i
    PROVE  /\ OwnConfig(f, i).is_sha256 = InSha256Section(f, i)
           /\ OwnConfig(f, i).have_prediction_resistance
                 = (SettingLines(f, i, "PredictionResistance") # {})
           /\ OwnConfig(f, i).value
                 = [name \in Settings |-> OwnValue(f, i, name)]
           /\ InSha256Section(f, i) \in BOOLEAN
<1>1. InSha256Section(f, i) \in BOOLEAN BY DEF InSha256Section
<1> QED BY <1>1 DEF OwnConfig

(* The configuration of the next line is what the code makes of this one.  *)
LEMMA ConfigNext ==
    ASSUME NEW f \in Seq(RspLines), NEW i \in 1 .. Len(f),
           OwnConfig(f, i) \in Configs
    PROVE  LET c     == OwnConfig(f, i)
               d     == OwnConfig(f, i + 1)
               known == /\ f[i].kind = "setting" /\ f[i].name \in Settings
                        /\ f[i].value # Invalid
           IN  /\ f[i].kind = "heading" => d = Heading(c, f[i].sha256)
               /\ known => d = Set(c, f[i].name, f[i].value)
               /\ f[i].kind # "heading" /\ ~known => d = c
<1> DEFINE c     == OwnConfig(f, i)
           d     == OwnConfig(f, i + 1)
           known == /\ f[i].kind = "setting" /\ f[i].name \in Settings
                    /\ f[i].value # Invalid
<1> SUFFICES /\ f[i].kind = "heading" => d = Heading(c, f[i].sha256)
             /\ known => d = Set(c, f[i].name, f[i].value)
             /\ f[i].kind # "heading" /\ ~known => d = c
  OBVIOUS
<1>1. f[i] \in RspLines OBVIOUS
<1>2. /\ f[i].kind = "heading" => f[i].sha256 \in BOOLEAN
      /\ known => f[i].value \in Nat
  BY <1>1, LineParts
<1>3. /\ c.is_sha256 = InSha256Section(f, i)
      /\ d.is_sha256 = InSha256Section(f, i + 1)
      /\ c.have_prediction_resistance
            = (SettingLines(f, i, "PredictionResistance") # {})
      /\ d.have_prediction_resistance
            = (SettingLines(f, i + 1, "PredictionResistance") # {})
      /\ c.value = [name \in Settings |-> OwnValue(f, i, name)]
      /\ d.value = [name \in Settings |-> OwnValue(f, i + 1, name)]
      /\ InSha256Section(f, i + 1) \in BOOLEAN
      /\ InSha256Section(f, i) \in BOOLEAN
  BY OwnParts
<1>4. c \in Configs /\ c.is_sha256 \in BOOLEAN
      /\ c.value \in [Settings -> Nat]
  BY DEF Configs
<1>5. ASSUME d.value \in [Settings -> Nat], d.is_sha256 \in BOOLEAN
      PROVE  d \in Configs
  BY <1>5 DEF OwnConfig, Configs
<1> HIDE DEF c, d
<1>6. CASE f[i].kind = "heading"
  <2> DEFINE h == Heading(c, f[i].sha256)
  <2>1. /\ h \in Configs /\ h.is_sha256 = f[i].sha256
        /\ h.have_prediction_resistance = FALSE
        /\ h.value = [name \in Settings |-> 0]
    BY <1>2, <1>6, HeadingIs
  <2>2. d.is_sha256 = f[i].sha256 BY <1>2, <1>3, <1>6, SectionNext
  <2>3. d.have_prediction_resistance = FALSE BY <1>3, <1>6, SettingsNext
  <2>4. d.value = [name \in Settings |-> 0]
    <3>1. \A name \in Settings : OwnValue(f, i + 1, name) = 0
      BY <1>6, ValueNext
    <3> QED BY <1>3, <3>1
  <2>5. d \in Configs BY <1>2, <1>5, <1>6, <2>2, <2>4
  <2> HIDE DEF h
  <2>6. d = h BY <2>1, <2>2, <2>3, <2>4, <2>5, SameConfigs
  <2> QED BY <1>6, <2>6 DEF h
<1>7. CASE f[i].kind # "heading" /\ known
  <2> DEFINE s == Set(c, f[i].name, f[i].value)
  <2>1. /\ s \in Configs /\ s.is_sha256 = c.is_sha256
        /\ s.have_prediction_resistance
              = (c.have_prediction_resistance
                     \/ f[i].name = "PredictionResistance")
        /\ s.value = [c.value EXCEPT ![f[i].name] = f[i].value]
    BY <1>2, <1>4, <1>7, SetIs
  <2>2. d.is_sha256 = c.is_sha256 BY <1>3, <1>4, <1>7, SectionNext
  <2>3. d.have_prediction_resistance
            = (c.have_prediction_resistance \/ f[i].name = "PredictionResistance")
    <3>1. SettingLines(f, i + 1, "PredictionResistance") =
              IF f[i].name = "PredictionResistance"
              THEN SettingLines(f, i, "PredictionResistance") \cup {i}
              ELSE SettingLines(f, i, "PredictionResistance")
      BY <1>7, SettingsNext
    <3> QED BY <1>3, <3>1
  <2>4. d.value = [c.value EXCEPT ![f[i].name] = f[i].value]
    <3>1. \A name \in Settings :
              OwnValue(f, i + 1, name) = IF f[i].name = name THEN f[i].value
                                         ELSE OwnValue(f, i, name)
      BY <1>7, ValueNext
    <3> QED BY <1>3, <1>7, <3>1
  <2>5. d \in Configs BY <1>2, <1>4, <1>5, <1>7, <2>2, <2>4
  <2> HIDE DEF s
  <2>6. d = s BY <2>1, <2>2, <2>3, <2>4, <2>5, SameConfigs
  <2> QED BY <1>7, <2>6 DEF s
<1>8. CASE f[i].kind # "heading" /\ ~known
  <2>1. d.is_sha256 = c.is_sha256 BY <1>3, <1>4, <1>8, SectionNext
  <2>2. \A name \in Settings :
            SettingLines(f, i + 1, name) = SettingLines(f, i, name)
    BY <1>8, SettingsNext
  <2>3. d.have_prediction_resistance = c.have_prediction_resistance
    <3>1. "PredictionResistance" \in Settings BY DEF Settings
    <3> QED BY <1>3, <2>2, <3>1
  <2>4. d.value = c.value
    <3>1. \A name \in Settings : OwnValue(f, i + 1, name) = OwnValue(f, i, name)
      BY <2>2 DEF OwnValue
    <3> QED BY <1>3, <3>1
  <2>5. d \in Configs BY <1>4, <1>5, <2>1, <2>4
  <2>6. d = c BY <1>4, <2>1, <2>3, <2>4, <2>5, SameConfigs
  <2> QED BY <1>8, <2>6
<1> QED BY <1>6, <1>7, <1>8

(* Fields count from the COUNT line before them.                           *)
LEMMA CountNext ==
    ASSUME NEW f \in Seq(RspLines), NEW i \in 1 .. Len(f), f[i].kind = "count"
    PROVE  /\ CountLine(f, i) = i
           /\ OwnSingle(f, i) = NoCase.single /\ OwnList(f, i) = NoCase.list
<1> DEFINE counts == {j \in 1 .. i : f[j].kind = "count"}
<1>1. counts \subseteq Nat /\ i \in counts /\ \A j \in counts : j <= i OBVIOUS
<1> HIDE DEF counts
<1>2. LastOf(counts) = i BY <1>1, LastIs
<1>3. CountLine(f, i) = i BY <1>2 DEF CountLine, counts
<1>4. \A key : FieldLines(f, i, key) = {} BY <1>3 DEF FieldLines
<1>5. OwnSingle(f, i) = [key \in Singles |-> NoBuffer]
  BY <1>4 DEF OwnSingle, LastField
<1>6. OwnList(f, i) = [key \in Lists |-> <<>>]
  BY <1>4 DEF OwnList, FirstFields
<1> QED BY <1>3, <1>5, <1>6 DEF NoCase

LEMMA FieldsNext ==
    ASSUME NEW f \in Seq(RspLines), NEW i \in 1 .. Len(f),
           CountLine(f, i - 1) \in 1 .. i - 1, f[i].kind # "count", NEW key
    PROVE  /\ CountLine(f, i) = CountLine(f, i - 1)
           /\ FieldLines(f, i - 1, key) \subseteq 1 .. i - 1
           /\ FieldLines(f, i, key) =
                  IF f[i].kind = "field" /\ f[i].key = key
                  THEN FieldLines(f, i - 1, key) \cup {i}
                  ELSE FieldLines(f, i - 1, key)
<1> DEFINE start == CountLine(f, i - 1)
<1>1. CountLine(f, i) = start
  <2>1. {j \in 1 .. i : f[j].kind = "count"}
            = {j \in 1 .. i - 1 : f[j].kind = "count"}
    OBVIOUS
  <2> QED BY <2>1 DEF CountLine
<1>2. start \in Nat /\ start < i /\ 0 < start OBVIOUS
<1> HIDE DEF start
<1>3. FieldLines(f, i - 1, key) =
          {j \in start + 1 .. i - 1 : f[j].kind = "field" /\ f[j].key = key}
  BY DEF FieldLines, start
<1>4. FieldLines(f, i, key) =
          {j \in start + 1 .. i : f[j].kind = "field" /\ f[j].key = key}
  BY <1>1 DEF FieldLines
<1>5. FieldLines(f, i - 1, key) \subseteq 1 .. i - 1 BY <1>2, <1>3
<1>6. start + 1 .. i = (start + 1 .. i - 1) \cup {i} BY <1>2
<1>7. FieldLines(f, i, key) =
          IF f[i].kind = "field" /\ f[i].key = key
          THEN FieldLines(f, i - 1, key) \cup {i}
          ELSE FieldLines(f, i - 1, key)
  BY <1>3, <1>4, <1>6
<1> QED BY <1>1, <1>5, <1>7 DEF start

(* The fields of the next line are what the code makes of these.           *)
LEMMA OwnNext ==
    ASSUME NEW f \in Seq(RspLines), NEW i \in 1 .. Len(f),
           CountLine(f, i - 1) \in 1 .. i - 1, f[i].kind # "count"
    PROVE  LET buffer == buffer_set_hex(f[i].value)
               single == OwnSingle(f, i - 1)
               list   == OwnList(f, i - 1)
               named(S) == f[i].kind = "field" /\ f[i].key \in S
           IN  /\ CountLine(f, i) = CountLine(f, i - 1)
               /\ OwnSingle(f, i) =
                      IF named(Singles) THEN [single EXCEPT ![f[i].key] = buffer]
                      ELSE single
               /\ OwnList(f, i) =
                      IF /\ named(Lists)
                         /\ ~(Len(list[f[i].key]) >= VECTOR_OPERATIONS)
                      THEN [list EXCEPT ![f[i].key] = Append(@, buffer)]
                      ELSE list
<1> DEFINE buffer == buffer_set_hex(f[i].value)
           single == OwnSingle(f, i - 1)
           list   == OwnList(f, i - 1)
           named(S) == f[i].kind = "field" /\ f[i].key \in S
           before(key) == FieldLines(f, i - 1, key)
           after(key)  == FieldLines(f, i, key)
<1>1. \A key : /\ CountLine(f, i) = CountLine(f, i - 1)
               /\ before(key) \subseteq 1 .. i - 1
               /\ after(key) = IF f[i].kind = "field" /\ f[i].key = key
                               THEN before(key) \cup {i} ELSE before(key)
  BY FieldsNext
<1>2. \A key : /\ LastField(f, before(key) \cup {i}) = buffer
               /\ FirstFields(f, before(key) \cup {i}) =
                      IF Len(FirstFields(f, before(key))) >= VECTOR_OPERATIONS
                      THEN FirstFields(f, before(key))
                      ELSE Append(FirstFields(f, before(key)), buffer)
  <2> TAKE key
  <2>1. /\ before(key) \subseteq Nat /\ \A j \in before(key) : j < i
        /\ i \in Nat
    BY <1>1
  <2> HIDE DEF before
  <2> QED BY <2>1, OneMoreField
<1>3. single = [key \in Singles |-> LastField(f, before(key))]
      /\ OwnSingle(f, i) = [key \in Singles |-> LastField(f, after(key))]
  BY DEF OwnSingle
<1>4. list = [key \in Lists |-> FirstFields(f, before(key))]
      /\ OwnList(f, i) = [key \in Lists |-> FirstFields(f, after(key))]
  BY DEF OwnList
<1> HIDE DEF before, after, buffer, single, list
<1>5. OwnSingle(f, i) = IF named(Singles) THEN [single EXCEPT ![f[i].key] = buffer]
                        ELSE single
  BY <1>1, <1>2, <1>3
<1>6. OwnList(f, i) = IF /\ named(Lists)
                         /\ ~(Len(list[f[i].key]) >= VECTOR_OPERATIONS)
                      THEN [list EXCEPT ![f[i].key] = Append(@, buffer)]
                      ELSE list
  <2>1. CASE ~named(Lists) BY <1>1, <1>4, <2>1
  <2>2. CASE named(Lists)
    <3>1. list[f[i].key] = FirstFields(f, before(f[i].key)) BY <1>4, <2>2
    <3>2. FirstFields(f, after(f[i].key)) =
              IF Len(list[f[i].key]) >= VECTOR_OPERATIONS THEN list[f[i].key]
              ELSE Append(list[f[i].key], buffer)
      BY <1>1, <1>2, <2>2, <3>1
    <3>3. \A key \in Lists : key # f[i].key => after(key) = before(key) BY <1>1
    <3> QED BY <1>4, <2>2, <3>1, <3>2, <3>3
  <2> QED BY <2>1, <2>2
<1> QED BY <1>1, <1>5, <1>6 DEF buffer, single, list

-----------------------------------------------------------------------------
(* The verdict on a case.                                                  *)

(* The last line whose field has been collected.                           *)
Reached == IF pc = "read" THEN line - 1 ELSE line

Configured ==
    /\ pc \in {"open", "exited"} => config = ZeroConfig /\ ~test_case.active
    /\ pc \notin {"open", "exited"} /\ line <= Len(file)
           => config = OwnConfig(file, line)

OwnFields(c, i) == c.single = OwnSingle(file, i) /\ c.list = OwnList(file, i)

(* The active case holds the fields of its own lines, or an error counts.  *)
Gathered ==
    test_case.active /\ line <= Len(file) =>
        /\ CountLine(file, Reached) \in 1 .. Reached
        /\ OwnFields(test_case, Reached) \/ fault
        /\ pc \in {"read", "validate", "alloc", "calls"} /\ fault
               => file_stats.parse_errors > 0

Texts == {""} \cup STRING

Steps ==
    [op : {"instantiate"}, entropy : Texts, nonce : Texts, input : Texts]
    \cup [op : {"reseed"}, entropy : Texts, input : Texts]
    \cup [op : {"generate"}, input : Texts]

CaseCalls == Calls(config, test_case.single, test_case.list)

CaseIsValid == validate_case(config, test_case.single, test_case.list)

Expected == test_case.single["ReturnedBits"].data

(* What is decided of the case at each point of execute_case.              *)
Executed ==
    pc \in Executes =>
        /\ test_case.active
        /\ file[line].value.data = Expected
        /\ pc \in {"alloc", "calls"} => CaseIsValid /\ ~passed
        /\ pc = "alloc" => performed = <<>>
        /\ pc = "calls" => /\ performed \in Seq(Steps) /\ todo \in Seq(Steps)
                          /\ performed \o todo = CaseCalls
        /\ pc \in {"cleanup", "return"} =>
               IF fault THEN passed => file_stats.parse_errors > 0
               ELSE passed = (CaseIsValid /\ Expected = "right")

Judged == Configured /\ Gathered /\ Executed

LEMMA ValidCalls ==
    ASSUME NEW c \in Configs, NEW single \in [Singles -> Buffers],
           NEW list \in [Lists -> Seq(Buffers)], validate_case(c, single, list)
    PROVE  /\ list["AdditionalInput"] = <<>> \/ Len(list["AdditionalInput"]) = 2
           /\ c.value["PredictionResistance"] = 1
                  => Len(list["EntropyInputPR"]) = 2
BY DEF validate_case, VECTOR_OPERATIONS

LEMMA TupleTypes ==
    ASSUME NEW T, NEW a \in T, NEW b \in T, NEW c \in T, NEW d \in T
    PROVE  /\ <<a>> \in Seq(T) /\ <<a, b>> \in Seq(T)
           /\ <<a, b, c, d>> \in Seq(T)
OBVIOUS

LEMMA ElementOf ==
    ASSUME NEW T, NEW s \in Seq(T), NEW n \in 1 .. Len(s)
    PROVE  s[n] \in T
OBVIOUS

LEMMA BothElements ==
    ASSUME NEW T, NEW s \in Seq(T), Len(s) = 2
    PROVE  s[1] \in T /\ s[2] \in T
<1>1. 1 \in 1 .. Len(s) /\ 2 \in 1 .. Len(s) OBVIOUS
<1> QED BY <1>1, ElementOf, Zenon

LEMMA TwoOf ==
    ASSUME NEW g, g = [n \in 1 .. 2 |-> g[n]]
    PROVE  g = <<g[1], g[2]>>
OBVIOUS

LEMMA FourOf ==
    ASSUME NEW g, g = [n \in 1 .. 4 |-> g[n]]
    PROVE  g = <<g[1], g[2], g[3], g[4]>>
OBVIOUS

LEMMA OperationText ==
    ASSUME NEW inputs \in Seq(Buffers), NEW n \in Nat \ {0}
    PROVE  Operation(inputs, n) \in Texts
<1>1. n <= Len(inputs) => inputs[n] \in Buffers OBVIOUS
<1>2. "" \in Texts /\ \A b \in Buffers : b.data \in Texts
  BY DEF Buffers, Texts
<1> QED BY <1>1, <1>2 DEF Operation

LEMMA SameInput ==
    ASSUME NEW inputs \in Seq(Buffers), inputs = <<>> \/ Len(inputs) = 2,
           NEW n \in {1, 2}
    PROVE  Operation(inputs, n) = IF inputs = <<>> THEN "" ELSE inputs[n].data
<1>1. CASE inputs = <<>>
  <2>1. ~(n <= Len(inputs)) BY <1>1
  <2>2. Operation(inputs, n) = "" BY <2>1, Zenon DEF Operation
  <2> QED BY <1>1, <2>2, Zenon
<1>2. CASE Len(inputs) = 2
  <2>1. inputs # <<>> /\ n <= Len(inputs) BY <1>2
  <2>2. Operation(inputs, n) = inputs[n].data BY <2>1, Zenon DEF Operation
  <2> QED BY <2>1, <2>2, Zenon
<1> QED BY <1>1, <1>2, Zenon

LEMMA CallsAreSteps ==
    ASSUME NEW c \in Configs, NEW single \in [Singles -> Buffers],
           NEW list \in [Lists -> Seq(Buffers)], validate_case(c, single, list)
    PROVE  /\ Calls(c, single, list) \in Seq(Steps)
           /\ Len(Calls(c, single, list)) <= 5
<1> DEFINE fresh    == list["EntropyInputPR"]
           Input(n) == Operation(list["AdditionalInput"], n)
           first    == InstantiateCall(single)
           reseed   == ReseedCall(single["EntropyInputReseed"].data,
                                  single["AdditionalInputReseed"].data)
           fresh1   == ReseedCall(fresh[1].data, Input(1))
           fresh2   == ReseedCall(fresh[2].data, Input(2))
           output1  == GenerateCall(Input(1))
           output2  == GenerateCall(Input(2))
           silent   == GenerateCall("")
<1>1. \A b \in Buffers : b.data \in Texts BY DEF Buffers, Texts
<1>2. \A e, n, i \in Texts :
          /\ [op |-> "instantiate", entropy |-> e, nonce |-> n, input |-> i] \in Steps
          /\ ReseedCall(e, i) \in Steps /\ GenerateCall(i) \in Steps
  BY DEF Steps, ReseedCall, GenerateCall
<1>3. Input(1) \in Texts /\ Input(2) \in Texts
  <2>1. list["AdditionalInput"] \in Seq(Buffers) BY DEF Lists
  <2> QED BY <2>1, OperationText
<1>4. "" \in Texts BY DEF Texts
<1>5. first \in Steps /\ reseed \in Steps
  <2>1. \A key \in Singles : single[key].data \in Texts BY <1>1
  <2>2. /\ single["EntropyInput"].data \in Texts
        /\ single["Nonce"].data \in Texts
        /\ single["PersonalizationString"].data \in Texts
        /\ single["EntropyInputReseed"].data \in Texts
        /\ single["AdditionalInputReseed"].data \in Texts
    BY <2>1 DEF Singles
  <2> QED BY <1>2, <2>2 DEF InstantiateCall
<1> HIDE DEF Input
<1>6. output1 \in Steps /\ output2 \in Steps /\ silent \in Steps
  BY <1>2, <1>3, <1>4
<1>7. ASSUME c.value["PredictionResistance"] = 1
      PROVE  fresh1 \in Steps /\ fresh2 \in Steps
  <2>1. fresh \in Seq(Buffers) BY DEF Lists
  <2>2. Len(fresh) = 2 BY <1>7, ValidCalls
  <2> HIDE DEF fresh
  <2>3. fresh[1] \in Buffers /\ fresh[2] \in Buffers
    BY <2>1, <2>2, BothElements
  <2>4. fresh[1].data \in Texts /\ fresh[2].data \in Texts BY <1>1, <2>3
  <2> QED BY <1>2, <1>3, <2>4
<1>8. Calls(c, single, list) =
          <<first>> \o IF c.value["PredictionResistance"] = 1
                       THEN <<fresh1, silent, fresh2, silent>>
                       ELSE (IF single["EntropyInputReseed"].present
                             THEN <<reseed>> ELSE <<>>) \o <<output1, output2>>
  BY DEF Calls, Input
<1> HIDE DEF first, reseed, fresh1, fresh2, output1, output2, silent
<1>9. /\ <<first>> \in Seq(Steps) /\ <<reseed>> \in Seq(Steps)
      /\ <<output1, output2>> \in Seq(Steps) /\ <<>> \in Seq(Steps)
  BY <1>5, <1>6, TupleTypes
<1>10. c.value["PredictionResistance"] = 1 =>
           <<fresh1, silent, fresh2, silent>> \in Seq(Steps)
  BY <1>6, <1>7, TupleTypes
<1>11. \A s, t \in Seq(Steps) :
           s \o t \in Seq(Steps) /\ Len(s \o t) = Len(s) + Len(t)
  OBVIOUS
<1>12. /\ Len(<<first>>) = 1 /\ Len(<<reseed>>) = 1 /\ Len(<<>>) = 0
       /\ Len(<<output1, output2>>) = 2
       /\ Len(<<fresh1, silent, fresh2, silent>>) = 4
  OBVIOUS
<1> QED BY <1>8, <1>9, <1>10, <1>11, <1>12

(* The loops of execute_case follow the standard's procedure.              *)
LEMMA CallsFollowProcedure ==
    ASSUME NEW f, NEW i, NEW c \in Configs, NEW single \in [Singles -> Buffers],
           NEW list \in [Lists -> Seq(Buffers)], validate_case(c, single, list),
           c = OwnConfig(f, i), single = OwnSingle(f, i), list = OwnList(f, i)
    PROVE  Calls(c, single, list) = Procedure(f, i)
<1> DEFINE inputs == list["AdditionalInput"]
           given  == [op |-> "reseed",
                      entropy |-> single["EntropyInputReseed"].data,
                      input |-> single["AdditionalInputReseed"].data]
           Input(n)  == IF inputs = <<>> THEN "" ELSE inputs[n].data
           Reseed(n) == [op |-> "reseed", input |-> Input(n),
                         entropy |-> list["EntropyInputPR"][n].data]
           Output(n) == [op |-> "generate", input |-> Input(n)]
           first  == InstantiateCall(single)
           silent == [op |-> "generate", input |-> ""]
           fresh == [n \in 1 .. 4 |->
                        LET k == (n + 1) \div 2
                        IN  IF n % 2 = 1
                            THEN [op |-> "reseed", input |-> Input(k),
                                  entropy |-> list["EntropyInputPR"][k].data]
                            ELSE [op |-> "generate", input |-> ""]]
           outputs == [n \in 1 .. 2 |-> [op |-> "generate", input |-> Input(n)]]
<1>1. Operation(inputs, 1) = Input(1) /\ Operation(inputs, 2) = Input(2)
  <2>1. inputs \in Seq(Buffers) BY DEF Lists
  <2>2. inputs = <<>> \/ Len(inputs) = 2 BY ValidCalls
  <2> HIDE DEF inputs
  <2> QED BY <2>1, <2>2, SameInput
<1>2. Procedure(f, i) =
          <<first>> \o (IF c.value["PredictionResistance"] = 1 THEN fresh
                        ELSE IF single["EntropyInputReseed"].present
                        THEN <<given>> \o outputs ELSE outputs)
  BY DEF Procedure, InstantiateCall
<1>3. Calls(c, single, list) =
          <<first>> \o IF c.value["PredictionResistance"] = 1
                       THEN <<Reseed(1), silent, Reseed(2), silent>>
                       ELSE (IF single["EntropyInputReseed"].present
                             THEN <<given>> ELSE <<>>) \o <<Output(1), Output(2)>>
  BY <1>1 DEF Calls, ReseedCall, GenerateCall
<1> HIDE DEF Input, inputs, first, given
<1>4. fresh = <<Reseed(1), silent, Reseed(2), silent>>
  <2>1. /\ fresh[1] = Reseed(1) /\ fresh[2] = silent
        /\ fresh[3] = Reseed(2) /\ fresh[4] = silent
    <3>1. /\ (1 + 1) \div 2 = 1 /\ (3 + 1) \div 2 = 2
          /\ 1 % 2 = 1 /\ 2 % 2 = 0 /\ 3 % 2 = 1 /\ 4 % 2 = 0
      OBVIOUS
    <3> QED BY <3>1
  <2>2. fresh = [n \in 1 .. 4 |-> fresh[n]] OBVIOUS
  <2> HIDE DEF fresh, Reseed, silent
  <2> QED BY <2>1, <2>2, FourOf
<1>5. outputs = <<Output(1), Output(2)>> OBVIOUS
<1> HIDE DEF fresh, outputs, Reseed, silent, Output
<1>6. <<>> \o <<Output(1), Output(2)>> = <<Output(1), Output(2)>> OBVIOUS
<1> QED BY <1>2, <1>3, <1>4, <1>5, <1>6

(* A line that leaves the case as it is.                                   *)
LEMMA IdleLine ==
    ASSUME Shapes, Judged, pc = "read", line <= Len(file), NextLine,
           Current.kind # "count", NoError \/ ParseError,
           UNCHANGED <<test_case, fault>>,
           test_case.active /\ Current.kind = "field" =>
               /\ Current.key \notin Singles
               /\ Current.key \in Lists => TooMany(test_case, Current.key)
    PROVE  Gathered' /\ Executed'
<1>1. /\ line' = line + 1 /\ pc' = "read" /\ file' = file
      /\ test_case' = test_case /\ fault' = fault
  BY DEF NextLine
<1>2. Executed' BY <1>1 DEF Executed, Executes
<1>3. file \in Seq(RspLines) /\ line \in 1 .. Len(file) BY DEF Shapes
<1>4. Reached = line - 1 /\ Reached' = line BY <1>1, <1>3 DEF Reached
<1>5. file_stats'.parse_errors >= file_stats.parse_errors
  BY DEF NoError, ParseError, Shapes, Stats
<1>6. ASSUME test_case.active
      PROVE  /\ CountLine(file, line) \in 1 .. line
             /\ OwnFields(test_case, line) \/ fault
             /\ fault => file_stats.parse_errors > 0
  <2>1. /\ CountLine(file, line - 1) \in 1 .. line - 1
        /\ OwnFields(test_case, line - 1) \/ fault
        /\ fault => file_stats.parse_errors > 0
    BY <1>3, <1>4, <1>6 DEF Judged, Gathered
  <2>2. CountLine(file, line) \in 1 .. line
    BY <1>3, <2>1, OwnNext DEF Current
  <2>3. ASSUME OwnFields(test_case, line - 1)
        PROVE  OwnFields(test_case, line)
    <3>1. OwnSingle(file, line) = OwnSingle(file, line - 1)
      BY <1>3, <1>6, <2>1, OwnNext DEF Current
    <3>2. Current.kind = "field" /\ Current.key \in Lists =>
              Len(OwnList(file, line - 1)[Current.key]) >= VECTOR_OPERATIONS
      BY <1>6, <2>3 DEF OwnFields, TooMany
    <3>3. OwnList(file, line) = OwnList(file, line - 1)
      BY <1>3, <2>1, <3>2, OwnNext DEF Current
    <3> QED BY <2>3, <3>1, <3>3 DEF OwnFields
  <2> QED BY <2>1, <2>2, <2>3
<1>7. Gathered'
  <2>1. file_stats.parse_errors > 0 => file_stats'.parse_errors > 0
    BY <1>5 DEF NoError, ParseError, Shapes, Stats
  <2> QED BY <1>1, <1>4, <1>6, <2>1 DEF Gathered, OwnFields
<1> QED BY <1>2, <1>7

(* A field that is kept goes to where the reference has it.                *)
LEMMA FieldKept ==
    ASSUME Shapes, Collecting, ~TooMany(test_case, Current.key),
           CountLine(file, line - 1) \in 1 .. line - 1,
           OwnFields(test_case, line - 1)
    PROVE  OwnFields(WithField(test_case, Current.key,
                               buffer_set_hex(Current.value)), line)
<1> DEFINE key    == Current.key
           buffer == buffer_set_hex(Current.value)
           next   == WithField(test_case, key, buffer)
<1>1. /\ file \in Seq(RspLines) /\ line \in 1 .. Len(file)
      /\ file[line] = Current /\ Current.kind = "field"
      /\ key \in Lists \cup Singles
  BY CurrentParts, LineParts DEF Collecting, At, Shapes, Current
<1>2. /\ test_case.single = OwnSingle(file, line - 1)
      /\ test_case.list = OwnList(file, line - 1)
      /\ test_case \in TestCases
  BY DEF OwnFields, Shapes
<1>3. Current.kind # "count" BY <1>1
<1>4. /\ OwnSingle(file, line) =
             IF key \in Singles
             THEN [test_case.single EXCEPT ![key] = buffer]
             ELSE test_case.single
      /\ OwnList(file, line) =
             IF /\ key \in Lists
                /\ ~(Len(test_case.list[key]) >= VECTOR_OPERATIONS)
             THEN [test_case.list EXCEPT ![key] = Append(@, buffer)]
             ELSE test_case.list
  BY <1>1, <1>2, <1>3, OwnNext
<1> HIDE DEF buffer
<1>5. CASE key \in Lists
  <2>1. key \notin Singles BY <1>5 DEF Lists, Singles
  <2>2. ~(Len(test_case.list[key]) >= VECTOR_OPERATIONS) BY <1>5 DEF TooMany
  <2>3. /\ next.single = test_case.single
        /\ next.list = [test_case.list EXCEPT ![key] = Append(@, buffer)]
    BY <1>2, <1>5 DEF WithField, TestCases
  <2> QED BY <1>4, <1>5, <2>1, <2>2, <2>3 DEF OwnFields, buffer
<1>6. CASE key \notin Lists
  <2>1. key \in Singles BY <1>1, <1>6
  <2>2. /\ next.single = [test_case.single EXCEPT ![key] = buffer]
        /\ next.list = test_case.list
    BY <1>2, <1>6 DEF WithField, TestCases
  <2> QED BY <1>4, <1>6, <2>1, <2>2 DEF OwnFields, buffer
<1> QED BY <1>5, <1>6

LEMMA FirstConfig ==
    ASSUME NEW f
    PROVE  OwnConfig(f, 1) = ZeroConfig
<1>1. Headings(f, 1) = {} /\ \A name : SettingLines(f, 1, name) = {}
  BY DEF Headings, SettingLines
<1>2. InSha256Section(f, 1) = FALSE BY <1>1 DEF InSha256Section
<1>3. [name \in Settings |-> OwnValue(f, 1, name)] = [name \in Settings |-> 0]
  BY <1>1 DEF OwnValue
<1>4. (SettingLines(f, 1, "PredictionResistance") # {}) = FALSE BY <1>1
<1> QED BY <1>2, <1>3, <1>4, Zenon DEF OwnConfig, ZeroConfig

LEMMA ConfiguredStep ==
    ASSUME Shapes, Counted, Configured, [Next]_vars
    PROVE  Configured'
<1> USE DEF reading, program, running
<1>1. ASSUME NextLine, pc \notin {"open", "exited"}, line <= Len(file),
             config' = config,
             Current.kind # "heading",
             Current.kind = "setting" =>
                 Current.name \notin Settings \/ Current.value = Invalid
      PROVE  Configured'
  <2>1. /\ line' = line + 1 /\ pc' = "read" /\ file' = file
        /\ file \in Seq(RspLines) /\ line \in 1 .. Len(file)
        /\ config = OwnConfig(file, line) /\ config \in Configs
    BY <1>1 DEF NextLine, Shapes, Configured
  <2>2. OwnConfig(file, line + 1) = config
    BY <1>1, <2>1, ConfigNext DEF Current
  <2> QED BY <1>1, <2>1, <2>2 DEF Configured
<1>2. CASE UNCHANGED vars BY <1>2 DEF vars, Configured
<1>3. CASE Open
  <2>1. pc = "open" /\ config' = config /\ test_case' = test_case /\ line' = line
        /\ config = ZeroConfig /\ ~test_case.active /\ line = 1
    BY <1>3 DEF Open, Configured, Shapes
  <2>2. pc' \in {"read", "open"} BY <1>3, <2>1 DEF Open
  <2> QED BY <2>1, <2>2, FirstConfig DEF Configured
<1>4. CASE SkipLine BY <1>1, <1>4 DEF SkipLine, At
<1>5. CASE ReadMalformed BY <1>1, <1>5 DEF ReadMalformed, At
<1>6. CASE StopReading
  <2>1. /\ pc' = "read" /\ line' = Len(file) + 1 /\ file' = file
        /\ file \in Seq(RspLines)
    BY <1>6 DEF StopReading, Shapes
  <2> QED BY <2>1 DEF Configured
<1>7. CASE ReadHeading
  <2>1. /\ line' = line + 1 /\ pc' = "read" /\ file' = file
        /\ file \in Seq(RspLines) /\ line \in 1 .. Len(file)
        /\ config = OwnConfig(file, line) /\ config \in Configs
        /\ file[line].kind = "heading"
        /\ config' = Heading(config, file[line].sha256)
    BY <1>7 DEF ReadHeading, At, Current, NextLine, Shapes, Configured
  <2>2. OwnConfig(file, line + 1) = config' BY <2>1, ConfigNext
  <2> QED BY <2>1, <2>2 DEF Configured
<1>8. CASE ReadSetting
  <2>1. /\ line' = line + 1 /\ pc = "read" /\ pc' = "read" /\ file' = file
        /\ file \in Seq(RspLines) /\ line \in 1 .. Len(file)
        /\ config = OwnConfig(file, line) /\ config \in Configs
        /\ Current = file[line] /\ file[line].kind = "setting"
    BY <1>8 DEF ReadSetting, At, Current, NextLine, Shapes, Configured
  <2>2. CASE Current.name \in Settings /\ Current.value # Invalid
    <3>1. config' = Set(config, Current.name, Current.value)
      BY <1>8, <2>2 DEF ReadSetting
    <3>2. OwnConfig(file, line + 1) = config' BY <2>1, <2>2, <3>1, ConfigNext
    <3> QED BY <2>1, <3>2 DEF Configured
  <2>3. CASE ~(Current.name \in Settings /\ Current.value # Invalid)
    <3>1. config' = config BY <1>8, <2>3 DEF ReadSetting
    <3>2. OwnConfig(file, line + 1) = config' BY <2>1, <2>3, <3>1, ConfigNext
    <3> QED BY <2>1, <3>2 DEF Configured
  <2> QED BY <2>2, <2>3
<1>9. CASE ReadCount BY <1>1, <1>9 DEF ReadCount, At
<1>10. CASE SkipField BY <1>1, <1>10 DEF SkipField, At
<1>11. CASE RefuseField BY <1>1, <1>11 DEF RefuseField, Collecting, At
<1>12. CASE BadField BY <1>1, <1>12 DEF BadField, Collecting, At
<1>13. CASE GoodField
  <2>1. CASE Current.key = "ReturnedBits"
    <3>1. /\ pc = "read" /\ line <= Len(file) /\ pc' = "validate"
          /\ UNCHANGED <<line, file, config>>
      BY <1>13, <2>1 DEF GoodField, Collecting, At
    <3> QED BY <3>1 DEF Configured
  <2>2. CASE Current.key # "ReturnedBits"
    BY <1>1, <1>13, <2>2 DEF GoodField, Collecting, At
  <2> QED BY <2>1, <2>2
<1>14. CASE ExecuteCase
  <2>1. CASE CountVerdict
    <3>1. /\ pc = "return" /\ line <= Len(file) /\ NextLine
          /\ config' = config
      BY <2>1 DEF CountVerdict, Shapes, Executes
    <3>2. Current.kind = "field" BY <3>1 DEF Counted, InStep, Executes, Current
    <3> QED BY <1>1, <3>1, <3>2
  <2>2. CASE Validate \/ Alloc \/ CallSucceeds \/ CallFails \/ Compare \/ Cleanup
    <3>1. pc \in Executes /\ pc' \in Executes /\ UNCHANGED <<line, file, config>>
      BY <2>2 DEF Validate, Alloc, CallSucceeds, CallFails, Compare, Cleanup,
                  Executing, Executes
    <3> QED BY <3>1 DEF Configured, Executes
  <2> QED BY <1>14, <2>1, <2>2 DEF ExecuteCase
<1>15. CASE EndOfFile
  <2>1. /\ pc' = "open" /\ config' = ZeroConfig /\ test_case' = NoCase
    BY <1>15 DEF EndOfFile, vector_case_clear
  <2> QED BY <2>1, ZeroShapes DEF Configured
<1>16. CASE Exit BY <1>16 DEF Exit, Configured
<1> QED
  BY <1>2, <1>3, <1>4, <1>5, <1>6, <1>7, <1>8, <1>9, <1>10, <1>11, <1>12,
     <1>13, <1>14, <1>15, <1>16 DEF Next, ReadLine

LEMMA LineStep ==
    ASSUME Shapes, Counted, Judged, ReadLine
    PROVE  Gathered' /\ Executed'
<1>1. pc = "read" /\ line <= Len(file)
  BY DEF ReadLine, SkipLine, ReadMalformed, StopReading, ReadHeading, ReadSetting,
         ReadCount, SkipField, RefuseField, BadField, GoodField, Collecting, At
<1>2. /\ file \in Seq(RspLines) /\ line \in 1 .. Len(file)
      /\ test_case \in TestCases /\ file_stats \in Stats
      /\ Reached = line - 1 /\ Current = file[line]
  BY <1>1 DEF Shapes, Reached, Current
<1>3. CASE SkipLine BY <1>1, <1>3, IdleLine DEF SkipLine, At
<1>4. CASE ReadMalformed BY <1>1, <1>4, IdleLine DEF ReadMalformed, At
<1>5. CASE ReadHeading BY <1>1, <1>5, IdleLine DEF ReadHeading, At
<1>6. CASE ReadSetting
  <2>1. NoError \/ ParseError BY <1>6 DEF ReadSetting
  <2> QED BY <1>1, <1>6, <2>1, IdleLine DEF ReadSetting, At
<1>7. CASE SkipField
  <2>1. "other" \notin Singles /\ "other" \notin Lists BY DEF Singles, Lists
  <2> QED BY <1>1, <1>7, <2>1, IdleLine DEF SkipField, At
<1>8. CASE RefuseField
  <2>1. Current.key \in Lists /\ Current.key \notin Singles
    BY <1>8 DEF RefuseField, TooMany, Lists, Singles
  <2> QED BY <1>1, <1>8, <2>1, IdleLine DEF RefuseField, Collecting, At
<1>9. CASE StopReading
  <2>1. ~(line' <= Len(file')) /\ pc' = "read"
    BY <1>2, <1>9 DEF StopReading
  <2> QED BY <2>1 DEF Gathered, Executed, Executes
<1>10. CASE ReadCount
  <2>1. /\ pc' = "read" /\ line' = line + 1 /\ file' = file
        /\ fault' = FALSE /\ file[line].kind = "count"
        /\ test_case' = [NoCase EXCEPT !.active = Current.good /\ config.is_sha256]
    BY <1>2, <1>10 DEF ReadCount, NextLine, At, vector_case_clear
  <2>2. test_case'.single = NoCase.single /\ test_case'.list = NoCase.list
    BY <2>1 DEF NoCase
  <2>3. /\ CountLine(file, line) = line
        /\ OwnSingle(file, line) = NoCase.single
        /\ OwnList(file, line) = NoCase.list
    BY <1>2, <2>1, CountNext
  <2>4. Reached' = line BY <1>2, <2>1 DEF Reached
  <2>5. OwnFields(test_case, Reached)'
    BY <2>1, <2>2, <2>3, <2>4 DEF OwnFields
  <2>6. Gathered' BY <1>2, <2>1, <2>3, <2>4, <2>5 DEF Gathered
  <2>7. Executed' BY <2>1 DEF Executed, Executes
  <2> QED BY <2>6, <2>7
<1>11. ASSUME Collecting
       PROVE  /\ test_case.active /\ Current.kind # "count"
              /\ Current.key \in Lists \cup Singles
              /\ CountLine(file, line - 1) \in 1 .. line - 1
              /\ CountLine(file, line) \in 1 .. line
              /\ OwnFields(test_case, line - 1) \/ fault
              /\ fault => file_stats.parse_errors > 0
  <2>1. /\ test_case.active /\ Current.kind # "count"
        /\ Current.key \in Lists \cup Singles
    BY <1>1, <1>11, CurrentParts, LineParts DEF Collecting, At
  <2>2. /\ CountLine(file, line - 1) \in 1 .. line - 1
        /\ OwnFields(test_case, line - 1) \/ fault
        /\ fault => file_stats.parse_errors > 0
    BY <1>1, <1>2, <2>1 DEF Judged, Gathered
  <2>3. CountLine(file, line) = CountLine(file, line - 1)
    BY <1>2, <2>1, <2>2, OwnNext
  <2> QED BY <1>2, <2>1, <2>2, <2>3
<1>12. CASE BadField
  <2>1. /\ pc' = "read" /\ line' = line + 1 /\ file' = file
        /\ Collecting /\ ~TooMany(test_case, Current.key)
        /\ test_case' = WithField(test_case, Current.key, NoBuffer)
        /\ fault' = (fault \/ Current.value.hex)
        /\ file_stats' = [file_stats EXCEPT !.parse_errors = @ + 1]
    BY <1>12 DEF BadField, NextLine, ParseError
  <2>2. file_stats'.parse_errors > 0 BY <1>2, <2>1 DEF Stats
  <2>3. Reached' = line BY <1>2, <2>1 DEF Reached
  <2>4. OwnFields(test_case, Reached)' \/ fault'
    <3>1. CASE fault \/ Current.value.hex BY <2>1, <3>1
    <3>2. CASE ~fault /\ ~Current.value.hex
      <4>1. buffer_set_hex(Current.value) = NoBuffer
        BY <3>2 DEF buffer_set_hex
      <4>2. OwnFields(test_case', line)
        BY <1>11, <2>1, <3>2, <4>1, FieldKept
      <4> QED BY <2>1, <2>3, <4>2 DEF OwnFields
    <3> QED BY <3>1, <3>2
  <2>5. CountLine(file, line) \in 1 .. line BY <1>11, <2>1
  <2>6. Gathered' BY <2>1, <2>2, <2>3, <2>4, <2>5 DEF Gathered
  <2>7. Executed' BY <2>1 DEF Executed, Executes
  <2> QED BY <2>6, <2>7
<1>13. CASE GoodField
  <2> DEFINE buffer == buffer_set_hex(Current.value)
  <2>1. /\ Collecting /\ ~TooMany(test_case, Current.key) /\ Current.value.hex
        /\ test_case' = WithField(test_case, Current.key, buffer)
        /\ fault' = fault /\ file' = file
    BY <1>13 DEF GoodField, NextLine
  <2>2. buffer \in Buffers /\ buffer.data = Current.value.data
    <3>1. Current.value \in Data
      BY <1>1, <2>1, CurrentParts, LineParts DEF Collecting, At
    <3> QED BY <2>1, <3>1 DEF buffer_set_hex, Buffers, Data
  <2> HIDE DEF buffer
  <2>3. /\ test_case'.active = test_case.active
        /\ Current.key = "ReturnedBits" =>
               test_case'.single["ReturnedBits"] = buffer
    BY <1>2, <1>11, <2>1, <2>2, WithFieldShape
  <2>4. OwnFields(test_case', line) \/ fault
    BY <1>11, <2>1, FieldKept DEF buffer
  <2>5. CountLine(file, line) \in 1 .. line BY <1>11, <2>1
  <2>6. CASE Current.key # "ReturnedBits"
    <3>1. pc' = "read" /\ line' = line + 1 /\ file_stats' = file_stats
      BY <1>13, <2>6 DEF GoodField, NextLine, NoError
    <3>2. Reached' = line BY <1>2, <3>1 DEF Reached
    <3>3. fault' => file_stats'.parse_errors > 0 BY <1>11, <2>1, <3>1
    <3>4. OwnFields(test_case, Reached)' \/ fault'
      BY <2>1, <2>4, <3>2 DEF OwnFields
    <3>5. Gathered' BY <2>1, <2>5, <3>2, <3>3, <3>4 DEF Gathered
    <3>6. Executed' BY <3>1 DEF Executed, Executes
    <3> QED BY <3>5, <3>6
  <2>7. CASE Current.key = "ReturnedBits"
    <3>1. /\ pc' = "validate" /\ line' = line
          /\ file_stats' = [file_stats EXCEPT !.tested = @ + 1]
      BY <1>13, <2>7 DEF GoodField
    <3>2. Reached' = line BY <3>1 DEF Reached
    <3>3. file_stats'.parse_errors = file_stats.parse_errors
      BY <1>2, <3>1 DEF Stats
    <3>4. OwnFields(test_case, Reached)' \/ fault'
      BY <2>1, <2>4, <3>2 DEF OwnFields
    <3>5. fault' => file_stats'.parse_errors > 0 BY <1>11, <2>1, <3>3
    <3>6. Gathered' BY <2>1, <2>5, <3>2, <3>4, <3>5 DEF Gathered
    <3>7. test_case'.active BY <1>11, <2>1, <2>3
    <3>8. file'[line'].value.data = Expected'
      BY <1>2, <2>1, <2>2, <2>3, <2>7, <3>1 DEF Expected
    <3>9. Executed' BY <3>1, <3>7, <3>8 DEF Executed
    <3> QED BY <3>6, <3>9
  <2> QED BY <2>6, <2>7
<1> QED
  BY <1>3, <1>4, <1>5, <1>6, <1>7, <1>8, <1>9, <1>10, <1>12, <1>13 DEF ReadLine

(* While a case runs, its fields stay and errors are not forgotten.        *)
LEMMA GatheredStays ==
    ASSUME Shapes, Gathered, Executing, pc \in Executes, pc' \in Executes,
           fault' = fault \/ pc' \in {"cleanup", "return"}, fault => fault',
           pc' \in {"validate", "alloc", "calls"} =>
               pc \in {"validate", "alloc", "calls"}
    PROVE  Gathered'
<1>1. UNCHANGED <<line, file, config, test_case, file_stats>>
  BY DEF Executing, reading
<1>2. Reached' = Reached BY <1>1 DEF Reached, Executes
<1>3. OwnFields(test_case, Reached)' <=> OwnFields(test_case, Reached)
  BY <1>1, <1>2 DEF OwnFields
<1> QED BY <1>1, <1>2, <1>3 DEF Gathered, Executes

LEMMA ExecuteStep ==
    ASSUME Shapes, Counted, Judged, ExecuteCase
    PROVE  Gathered' /\ Executed'
<1> USE DEF Judged
<1>1. CASE CountVerdict
  <2>1. pc' = "read" /\ test_case' = NoCase
    BY <1>1 DEF CountVerdict, NextLine, vector_case_clear
  <2> QED BY <2>1, ZeroShapes DEF Gathered, Executed, Executes
<1>2. ASSUME Executing, pc \in Executes
      PROVE  /\ UNCHANGED <<line, file, config, test_case, file_stats>>
             /\ test_case'.active /\ file'[line'].value.data = Expected'
             /\ Expected' = Expected /\ CaseIsValid' = CaseIsValid
             /\ CaseCalls' = CaseCalls
  BY <1>2 DEF Executing, reading, Executed, Expected, CaseIsValid, CaseCalls
<1>3. ASSUME pc \in {"validate", "alloc", "calls"}, fault
      PROVE  file_stats.parse_errors > 0
  BY <1>3 DEF Gathered, Executed, Shapes, Executes
<1>4. CaseIsValid \in BOOLEAN BY DEF CaseIsValid, validate_case
<1>5. /\ config \in Configs /\ test_case.single \in [Singles -> Buffers]
      /\ test_case.list \in [Lists -> Seq(Buffers)]
  BY DEF Shapes, TestCases
<1>6. CASE Validate
  <2>1. /\ pc = "validate" /\ Executing /\ passed' = FALSE /\ fault' = fault
        /\ performed' = <<>>
        /\ pc' = IF CaseIsValid THEN "alloc" ELSE "return"
    BY <1>6 DEF Validate, CaseIsValid
  <2>2. pc \in Executes /\ pc' \in Executes BY <2>1 DEF Executes
  <2>3. Gathered' BY <2>1, <2>2, GatheredStays
  <2>4. Executed' BY <1>2, <1>4, <2>1, <2>2 DEF Executed
  <2> QED BY <2>3, <2>4
<1>7. CASE Alloc
  <2>1. pc = "alloc" /\ Executing /\ passed' = passed /\ performed' = performed
    BY <1>7 DEF Alloc
  <2>2. pc \in Executes BY <2>1 DEF Executes
  <2>3. CaseIsValid /\ ~passed /\ performed = <<>>
    BY <2>1, <2>2 DEF Executed
  <2>4. CASE heap' = {"ctx", "output"}
    <3>1. pc' = "calls" /\ todo' = CaseCalls /\ fault' = fault
      BY <1>7, <2>4 DEF Alloc, CaseCalls
    <3>2. CaseCalls \in Seq(Steps)
      BY <1>5, <2>3, CallsAreSteps DEF CaseCalls, CaseIsValid
    <3>3. <<>> \in Seq(Steps) /\ <<>> \o CaseCalls = CaseCalls
      <4> HIDE DEF CaseCalls
      <4> QED BY <3>2
    <3>4. pc' \in Executes BY <3>1 DEF Executes
    <3>5. Gathered' BY <2>1, <2>2, <3>1, <3>4, GatheredStays
    <3>6. Executed'
      BY <1>2, <2>1, <2>2, <2>3, <3>1, <3>2, <3>3 DEF Executed
    <3> QED BY <3>5, <3>6
  <2>5. CASE heap' # {"ctx", "output"}
    <3>1. pc' = "cleanup" /\ fault' = TRUE BY <1>7, <2>5 DEF Alloc
    <3>2. pc' \in Executes BY <3>1 DEF Executes
    <3>3. Gathered' BY <2>1, <2>2, <3>1, <3>2, GatheredStays
    <3>4. Executed' BY <1>2, <2>1, <2>2, <2>3, <3>1 DEF Executed
    <3> QED BY <3>3, <3>4
  <2> QED BY <2>4, <2>5
<1>8. ASSUME pc = "calls"
      PROVE  /\ pc \in Executes /\ CaseIsValid /\ ~passed
             /\ performed \in Seq(Steps) /\ todo \in Seq(Steps)
             /\ performed \o todo = CaseCalls
  BY <1>8 DEF Executed, Executes
<1>9. CASE CallSucceeds
  <2>1. /\ pc = "calls" /\ todo # <<>> /\ Executing
        /\ performed' = Append(performed, Head(todo)) /\ todo' = Tail(todo)
        /\ pc' = pc /\ passed' = passed /\ fault' = fault
    BY <1>9 DEF CallSucceeds
  <2>2. /\ performed' \in Seq(Steps) /\ todo' \in Seq(Steps)
        /\ performed' \o todo' = performed \o todo
    <3> DEFINE T == Steps
    <3>1. performed \in Seq(T) /\ todo \in Seq(T) BY <1>8, <2>1
    <3> HIDE DEF T
    <3>2. /\ Append(performed, Head(todo)) \in Seq(T) /\ Tail(todo) \in Seq(T)
      BY <2>1, <3>1
    <3>3. Append(performed, Head(todo)) \o Tail(todo) = performed \o todo
      BY <2>1, <3>1
    <3> QED BY <2>1, <3>2, <3>3 DEF T
  <2>3. Gathered' BY <1>8, <2>1, GatheredStays
  <2>4. Executed' BY <1>2, <1>8, <2>1, <2>2 DEF Executed
  <2> QED BY <2>3, <2>4
<1>10. CASE CallFails
  <2>1. /\ pc = "calls" /\ Executing /\ fault' = TRUE /\ pc' = "cleanup"
        /\ passed' = passed
    BY <1>10 DEF CallFails
  <2>2. pc' \in Executes BY <2>1 DEF Executes
  <2>3. Gathered' BY <1>8, <2>1, <2>2, GatheredStays
  <2>4. Executed' BY <1>2, <1>8, <2>1 DEF Executed
  <2> QED BY <2>3, <2>4
<1>11. CASE Compare
  <2>1. /\ pc = "calls" /\ todo = <<>> /\ Executing /\ fault' = fault
        /\ pc' = "cleanup"
        /\ passed' = (Expected = "right" /\ performed = Procedure(file, line))
    BY <1>11 DEF Compare, OutputMatches, Expected
  <2>2. pc' \in Executes BY <2>1 DEF Executes
  <2>3. Gathered' BY <1>8, <2>1, <2>2, GatheredStays
  <2>4. performed = CaseCalls
    <3> DEFINE T == Steps
    <3>1. performed \in Seq(T) /\ performed \o todo = CaseCalls BY <1>8, <2>1
    <3> HIDE DEF T
    <3>2. performed \o <<>> = performed BY <3>1
    <3> QED BY <2>1, <3>1, <3>2
  <2>5. ~fault => CaseCalls = Procedure(file, line)
    <3> HAVE ~fault
    <3>1. /\ config = OwnConfig(file, line)
          /\ test_case.single = OwnSingle(file, line)
          /\ test_case.list = OwnList(file, line)
      BY <1>8, <2>1
      DEF Configured, Gathered, Executed, OwnFields, Reached, Shapes, Executes
    <3> QED BY <1>5, <1>8, <2>1, <3>1, CallsFollowProcedure
            DEF CaseCalls, CaseIsValid
  <2>6. ~fault => passed' = (CaseIsValid /\ Expected = "right")
    BY <1>8, <2>1, <2>4, <2>5
  <2>7. Executed' BY <1>2, <1>3, <1>8, <2>1, <2>6 DEF Executed
  <2> QED BY <2>3, <2>7
<1>12. CASE Cleanup
  <2>1. pc = "cleanup" /\ Executing /\ pc' = "return"
        /\ passed' = passed /\ fault' = fault
    BY <1>12 DEF Cleanup
  <2>2. pc \in Executes /\ pc' \in Executes BY <2>1 DEF Executes
  <2>3. Gathered' BY <2>1, <2>2, GatheredStays
  <2>4. Executed' BY <1>2, <2>1, <2>2 DEF Executed
  <2> QED BY <2>3, <2>4
<1> QED BY <1>1, <1>6, <1>7, <1>9, <1>10, <1>11, <1>12 DEF ExecuteCase

(* What is known of a case holds at every point. *)
LEMMA JudgedHolds == Spec => []Judged
<1>1. Init => Judged
  <2> SUFFICES ASSUME Init PROVE Judged OBVIOUS
  <2>1. pc = "open" /\ config = ZeroConfig /\ ~test_case.active
    BY ZeroShapes DEF Init
  <2> QED BY <2>1 DEF Judged, Configured, Gathered, Executed, Executes
<1>2. Shapes /\ Counted /\ Judged /\ [Next]_vars => Judged'
  <2> SUFFICES ASSUME Shapes, Counted, Judged, [Next]_vars PROVE Judged'
    OBVIOUS
  <2>1. Configured' BY ConfiguredStep DEF Judged
  <2>2. Gathered' /\ Executed'
    <3>1. CASE UNCHANGED vars
      BY <3>1 DEF vars, reading, program, running, Judged, Gathered, Executed,
                  Reached, OwnFields, CaseIsValid, CaseCalls, Expected
    <3>2. CASE Open
      <4>1. pc = "open" /\ pc' \in {"open", "read"} /\ test_case' = test_case
        BY <3>2 DEF Open
      <4>2. ~test_case.active BY <4>1 DEF Judged, Configured
      <4> QED BY <4>1, <4>2 DEF Gathered, Executed, Executes
    <3>3. CASE ReadLine BY <3>3, LineStep
    <3>4. CASE ExecuteCase BY <3>4, ExecuteStep
    <3>5. CASE EndOfFile
      <4>1. pc' = "open" /\ test_case' = NoCase
        BY <3>5 DEF EndOfFile, vector_case_clear
      <4> QED BY <4>1, ZeroShapes DEF Gathered, Executed, Executes
    <3>6. CASE Exit
      <4>1. pc = "open" /\ pc' = "exited" /\ test_case' = test_case
        BY <3>6 DEF Exit, reading
      <4>2. ~test_case.active BY <4>1 DEF Judged, Configured
      <4> QED BY <4>1, <4>2 DEF Gathered, Executed, Executes
    <3> QED BY <3>1, <3>2, <3>3, <3>4, <3>5, <3>6 DEF Next
  <2> QED BY <2>1, <2>2 DEF Judged
<1> QED BY <1>1, <1>2, ShapesHold, CountedInit, CountedStep, PTL DEF Spec

(* The verdict on a case is the one its own lines deserve: see             *)
(* VerdictIsRight.  The code knows the line by what the lines before it    *)
(* left in its variables; the reference reads the file backwards, and both *)
(* say the same as long as memory and calls do not fail.                   *)
THEOREM VerdictsAreDeserved == Spec => []VerdictIsRight
<1>3. Shapes /\ Judged => VerdictIsRight
  <2> SUFFICES ASSUME Shapes, Judged, pc = "return"
               PROVE  IF fault THEN passed => file_stats.parse_errors > 0
                      ELSE passed = (/\ Complete(file, line)
                                     /\ file[line].value.data = "right")
    BY DEF VerdictIsRight
  <2>1. /\ test_case.active /\ file[line].value.data = Expected
        /\ IF fault THEN passed => file_stats.parse_errors > 0
           ELSE passed = (CaseIsValid /\ Expected = "right")
    BY DEF Judged, Executed, Executes
  <2>2. CASE ~fault
    <3>1. /\ config = OwnConfig(file, line)
          /\ test_case.single = OwnSingle(file, line)
          /\ test_case.list = OwnList(file, line)
      BY <2>1, <2>2
      DEF Judged, Configured, Gathered, OwnFields, Reached, Shapes, Executes
    <3>2. CaseIsValid = Complete(file, line)
      BY <3>1 DEF CaseIsValid, Complete
    <3> QED BY <2>1, <2>2, <3>2
  <2> QED BY <2>1, <2>2
<1> QED BY <1>3, JudgedHolds, ShapesHold, PTL

-----------------------------------------------------------------------------
(* A file that is open is read to its end.                                 *)

LEMMA Places ==
    /\ Place["read"] = 12 /\ Place["validate"] = 11 /\ Place["alloc"] = 10
    /\ Place["calls"] = 4 /\ Place["cleanup"] = 3 /\ Place["return"] = 2
BY DEF Place

(* Only the loops of execute_case have calls to make, and at most five. *)
FewCalls ==
    /\ pc # "calls" => todo = <<>>
    /\ pc = "calls" => Len(todo) <= 5

LEMMA FewCallsStep ==
    ASSUME Shapes, Judged, FewCalls, [Next]_vars
    PROVE  FewCalls'
<1> USE DEF FewCalls, reading, program, running
<1>1. CASE UNCHANGED vars BY <1>1 DEF vars
<1>2. CASE Open \/ EndOfFile \/ Exit BY <1>2 DEF Open, EndOfFile, Exit
<1>3. CASE ReadLine
  BY <1>3 DEF ReadLine, SkipLine, ReadMalformed, StopReading, ReadHeading,
              ReadSetting, ReadCount, SkipField, RefuseField, BadField,
              GoodField, Collecting, At, NextLine
<1>4. CASE Alloc
  <2>1. pc = "alloc" BY <1>4 DEF Alloc
  <2>2. CaseIsValid BY <2>1 DEF Judged, Executed, Executes
  <2>3. Len(Calls(config, test_case.single, test_case.list)) <= 5
    BY <2>2, CallsAreSteps DEF CaseIsValid, Shapes, TestCases
  <2> QED BY <1>4, <2>3 DEF Alloc
<1>5. CASE CallSucceeds
  <2>1. pc = "calls" /\ pc' = pc /\ todo # <<>> /\ todo' = Tail(todo)
    BY <1>5 DEF CallSucceeds
  <2>2. todo \in Seq(Steps) BY <2>1 DEF Judged, Executed, Executes
  <2> DEFINE T == Steps
  <2> HIDE DEF T
  <2>3. todo \in Seq(T) BY <2>2 DEF T
  <2>4. Len(Tail(todo)) <= Len(todo) BY <2>1, <2>3
  <2>5. Len(todo) \in Nat /\ Len(Tail(todo)) \in Nat BY <2>1, <2>3
  <2> QED BY <2>1, <2>4, <2>5
<1>6. CASE Validate \/ CallFails \/ Compare \/ Cleanup \/ CountVerdict
  BY <1>6 DEF Validate, CallFails, Compare, Cleanup, CountVerdict, NextLine
<1> QED BY <1>1, <1>2, <1>3, <1>4, <1>5, <1>6 DEF Next, ExecuteCase

LEMMA FewerStepsLeft ==
    ASSUME Shapes, Judged, FewCalls, FewCalls', Next, FileIsOpen
    PROVE  StepsLeft' \in 0 .. StepsLeft - 1
<1> DEFINE below == Len(file) - line
<1>1. /\ Len(file) \in Nat /\ below \in Int /\ below >= -1
      /\ pc \in Executes => below >= 0
      /\ line \in Nat
  BY DEF Shapes
<1>2. /\ pc \in {"read"} \cup Executes
      /\ StepsLeft = 11 * below + Place[pc] + Len(todo)
  BY DEF StepsLeft, FileIsOpen, Place, Executes
<1>3. /\ pc' \in {"read"} \cup Executes =>
             StepsLeft' = 11 * (Len(file') - line') + Place[pc'] + Len(todo')
      /\ pc' \notin {"read"} \cup Executes => StepsLeft' = 0
  BY DEF StepsLeft, FileIsOpen, Place, Executes
<1>4. Len(<<>>) = 0 OBVIOUS
<1> HIDE DEF below
<1> USE Places DEF Executes
<1>5. ASSUME pc \in {"read", "return"}, NextLine, pc = "read" => below >= 0
      PROVE  StepsLeft' \in 0 .. StepsLeft - 1
  <2>1. Len(file') - line' = below - 1 /\ pc' = "read" /\ todo' = <<>>
    BY <1>1, <1>5 DEF NextLine, below, running, FewCalls
  <2>2. todo = <<>> BY <1>5 DEF FewCalls
  <2> QED BY <1>1, <1>2, <1>3, <1>4, <1>5, <2>1, <2>2
<1>6. CASE Open \/ Exit
  BY <1>2, <1>6 DEF Open, Exit
<1>7. CASE EndOfFile
  <2>1. pc = "read" /\ pc' = "open" /\ todo = <<>>
    BY <1>7 DEF EndOfFile, FewCalls
  <2> QED BY <1>1, <1>2, <1>3, <1>4, <2>1
<1>8. CASE ReadLine
  <2>1. pc = "read" /\ line <= Len(file) /\ below >= 0
    BY <1>1, <1>8
    DEF ReadLine, SkipLine, ReadMalformed, StopReading, ReadHeading,
        ReadSetting, ReadCount, SkipField, RefuseField, BadField, GoodField,
        Collecting, At, below
  <2>2. CASE NextLine BY <1>5, <2>1, <2>2
  <2>3. CASE StopReading
    <3>1. Len(file') - line' = -1 /\ pc' = "read" /\ todo' = <<>> /\ todo = <<>>
      BY <1>1, <2>1, <2>3 DEF StopReading, running, FewCalls
    <3> QED BY <1>1, <1>2, <1>3, <1>4, <2>1, <3>1
  <2>4. CASE GoodField /\ ~NextLine
    <3>1. UNCHANGED <<line, file>> /\ pc' = "validate"
      BY <2>4 DEF GoodField
    <3>2. todo = <<>> /\ todo' = <<>> BY <2>1, <3>1 DEF FewCalls
    <3>3. Len(file') - line' = below BY <3>1 DEF below
    <3> QED BY <1>1, <1>2, <1>3, <1>4, <2>1, <3>1, <3>2, <3>3
  <2> QED
    BY <1>8, <2>2, <2>3, <2>4
    DEF ReadLine, SkipLine, ReadMalformed, ReadHeading, ReadSetting, ReadCount,
        SkipField, RefuseField, BadField
<1>9. CASE CountVerdict
  BY <1>5, <1>9 DEF CountVerdict
<1>10. ASSUME Executing, pc \in Executes
       PROVE  Len(file') - line' = below /\ below >= 0
  BY <1>1, <1>10 DEF Executing, reading, below
<1>11. ASSUME Executing, pc \in Executes, pc' \in Executes,
               Len(todo) \in Nat, Len(todo') \in Nat,
               Place[pc'] + Len(todo') < Place[pc] + Len(todo)
        PROVE  StepsLeft' \in 0 .. StepsLeft - 1
  <2> DEFINE n == Place[pc] + Len(todo)  m == Place[pc'] + Len(todo')
  <2>1. n \in Nat /\ m \in Nat /\ m < n
    <3>1. Place[pc] \in Nat /\ Place[pc'] \in Nat BY <1>11
    <3> DEFINE p == Place[pc]  q == Place[pc']  l == Len(todo)  k == Len(todo')
    <3>2. p \in Nat /\ q \in Nat /\ l \in Nat /\ k \in Nat /\ q + k < p + l
      BY <1>11, <3>1
    <3> HIDE DEF p, q, l, k
    <3>3. p + l \in Nat /\ q + k \in Nat BY <3>2
    <3>4. n = p + l /\ m = q + k BY DEF p, q, l, k
    <3> HIDE DEF n, m
    <3> QED BY <3>2, <3>3, <3>4
  <2>2. StepsLeft = 11 * below + n BY <1>1, <1>2, <1>11
  <2>3. StepsLeft' = 11 * below + m BY <1>1, <1>3, <1>10, <1>11
  <2>4. below \in Nat BY <1>1, <1>10, <1>11
  <2> HIDE DEF n, m
  <2> QED BY <2>1, <2>2, <2>3, <2>4
<1>12. CASE Validate \/ Compare \/ Cleanup
  <2>1. /\ pc \in Executes /\ Executing /\ todo = <<>> /\ todo' = <<>>
        /\ \/ pc = "validate" /\ pc' \in {"alloc", "return"}
           \/ pc = "calls" /\ pc' = "cleanup"
           \/ pc = "cleanup" /\ pc' = "return"
    BY <1>12 DEF Validate, Compare, Cleanup, FewCalls
  <2> QED BY <1>4, <1>11, <2>1
<1>13. CASE Alloc
  <2>1. pc = "alloc" /\ Executing /\ todo = <<>> /\ pc' \in {"calls", "cleanup"}
    BY <1>13 DEF Alloc, FewCalls
  <2>2. Len(todo') \in 0 .. 5
    <3>1. CASE pc' = "cleanup" BY <1>4, <3>1 DEF FewCalls
    <3>2. CASE pc' = "calls"
      <4>1. todo' = Calls(config, test_case.single, test_case.list)
        BY <1>13, <3>2 DEF Alloc
      <4>2. CaseIsValid BY <2>1 DEF Judged, Executed
      <4>3. todo' \in Seq(Steps)
        BY <4>1, <4>2, CallsAreSteps DEF CaseIsValid, Shapes, TestCases
      <4> DEFINE T == Steps
      <4>4. todo' \in Seq(T) BY <4>3
      <4> HIDE DEF T
      <4>5. Len(todo') \in Nat BY <4>4
      <4>6. Len(todo') <= 5 BY <3>2 DEF FewCalls
      <4>7. \A n \in Nat : n <= 5 => n \in 0 .. 5 OBVIOUS
      <4> QED BY <4>5, <4>6, <4>7, Zenon
    <3> QED BY <2>1, <3>1, <3>2
  <2>3. Place[pc'] + Len(todo') < Place[pc] + Len(todo)
    <3>1. Len(todo) = 0 BY <1>4, <2>1
    <3>2. pc' = "cleanup" => Len(todo') = 0 BY <1>4 DEF FewCalls
    <3> DEFINE n == Len(todo')
    <3>3. n \in 0 .. 5 /\ (pc' = "cleanup" => n = 0) BY <2>2, <3>2
    <3> HIDE DEF n
    <3>4. Place[pc'] + n < Place[pc] + 0 BY <2>1, <3>3
    <3> QED BY <3>1, <3>4 DEF n
  <2>4. Len(todo) \in Nat /\ Len(todo') \in Nat BY <1>4, <2>1, <2>2
  <2> QED BY <1>11, <2>1, <2>3, <2>4
<1>14. CASE CallSucceeds \/ CallFails
  <2>1. /\ pc = "calls" /\ Executing /\ todo # <<>>
        /\ \/ pc' = pc /\ todo' = Tail(todo)
           \/ pc' = "cleanup" /\ todo' = <<>>
    BY <1>14 DEF CallSucceeds, CallFails
  <2>2. todo \in Seq(Steps) BY <2>1 DEF Judged, Executed
  <2> DEFINE T == Steps
  <2>3. todo \in Seq(T) BY <2>2
  <2> HIDE DEF T
  <2>4. Len(todo) \in Nat \ {0} /\ Len(Tail(todo)) = Len(todo) - 1
    BY <2>1, <2>3
  <2> QED BY <1>4, <1>11, <2>1, <2>4
<1> QED
  BY <1>6, <1>7, <1>8, <1>9, <1>12, <1>13, <1>14 DEF Next, ExecuteCase

(* However many lines there are and whatever fails: a file that was opened *)
(* is read to its end in at most eleven steps a line, and no line is read  *)
(* or run twice.                                                           *)
THEOREM EveryStepAdvances == Spec => FileAdvances
<1>1. Init => FewCalls BY DEF Init, FewCalls
<1>2. Shapes /\ Judged /\ FewCalls /\ [Next]_vars => FewCalls'
  BY FewCallsStep
<1>3. Shapes /\ Judged /\ FewCalls /\ FewCalls' /\ [Next]_vars
          => [FileIsOpen => StepsLeft' \in 0 .. StepsLeft - 1]_vars
  BY FewerStepsLeft
<1> QED
  BY <1>1, <1>2, <1>3, ShapesHold, JudgedHolds, PTL DEF Spec, FileAdvances
=============================================================================
