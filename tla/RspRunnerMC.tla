----------------------------- MODULE RspRunnerMC -----------------------------
(***************************************************************************)
(* Small response files: a heading and settings, and one or two cases that *)
(* are complete, or not, each in several ways.                             *)
(***************************************************************************)
EXTENDS RspRunner

Heading1(sha256)     == [kind |-> "heading", sha256 |-> sha256]
Setting(name, value) == [kind |-> "setting", name |-> name, value |-> value]
Count(good)          == [kind |-> "count", good |-> good]
Other                == [kind |-> "other"]

Field(key, data) ==
    [kind |-> "field", key |-> key,
     value |-> [hex |-> TRUE, data |-> data,
                length |-> IF data = "" THEN 0 ELSE 1]]

FiveBytes(key, data) ==
    [kind |-> "field", key |-> key,
     value |-> [hex |-> TRUE, data |-> data, length |-> 5]]

NoHex(key) == [kind |-> "field", key |-> key,
               value |-> [hex |-> FALSE, data |-> "", length |-> 1]]

(* A heading with its settings; bytes of one bit's width would not align.  *)
Section(resistance, additional) ==
    <<Heading1(TRUE), Setting("PredictionResistance", resistance),
      Setting("EntropyInputLen", 8), Setting("NonceLen", 8),
      Setting("AdditionalInputLen", additional), Setting("ReturnedBitsLen", 8)>>

Sections == {Section(r, a) : r \in {0, 1}, a \in {0, 8}}

Seed(x) == <<Field("EntropyInput", x), Field("Nonce", x)>>

Inputs(x) == <<Field("AdditionalInput", x), Field("AdditionalInput", x)>>

Fresh2(x) == <<Field("EntropyInputPR", x), Field("EntropyInputPR", x)>>

Returned(x) == <<Field("ReturnedBits", x)>>

(* The middles of a case, in the data of the x-th one. *)
Middles(x) ==
    { <<>>, Inputs(x), Fresh2(x), Fresh2(x) \o Inputs(x),
      <<Field("AdditionalInput", x)>>,
      <<Field("EntropyInputReseed", x)>>,
      <<Field("EntropyInputReseed", x), Field("AdditionalInputReseed", x)>>
          \o Inputs(x) }

Cases(x) ==
    {<<Count(TRUE)>> \o Seed(x) \o m \o Returned("right") : m \in Middles(x)}
    \cup {<<Count(TRUE)>> \o m \o Returned("right") : m \in {<<>>, Inputs(x)}}
    \cup {<<Count(TRUE)>> \o Seed(x) \o Returned("wrong"),
          <<Count(TRUE)>> \o Seed(x) \o Inputs(x),
          <<Count(FALSE)>> \o Seed(x) \o Returned("right")}

(* What else a file may hold: between the cases, or in the second one. *)
Oddities ==
    { <<>>, <<Other>>, <<[kind |-> "malformed"]>>, <<[kind |-> "overlong"]>>,
      <<Heading1(FALSE)>>, <<Heading1(TRUE)>>, <<Setting("other", 0)>>,
      <<Setting("ReturnedBitsLen", 12)>>, <<Setting("ReturnedBitsLen", 40)>>,
      <<Setting("NonceLen", Invalid)>>, <<Setting("PersonalizationStringLen", 8)>>,
      <<Field("Nonce", "b")>> }

Late ==
    { Seed("b") \o Returned("right") \o Returned("right"),
      Seed("b") \o <<Heading1(FALSE)>> \o Returned("right"),
      Seed("a") \o Seed("b") \o Returned("right"),
      Seed("b") \o <<NoHex("PersonalizationString")>> \o Returned("right"),
      Seed("b") \o <<NoHex("ReturnedBits")>>,
      Seed("b") \o <<NoHex("AdditionalInput"), Field("other", "b")>>
          \o Inputs("b") \o Returned("right"),
      Seed("b") \o Inputs("b") \o Inputs("b") \o Returned("right") }

(* A second case, complete under some of the sections and not under others. *)
Seconds == {<<Count(TRUE)>> \o Seed("b") \o m \o Returned("right") :
                m \in {<<>>, Inputs("b"), Fresh2("b") \o Inputs("b"),
                       <<Field("PersonalizationString", "b")>>}}
           \cup {<<Count(TRUE)>> \o Seed("b") \o <<FiveBytes("ReturnedBits", "right")>>}

Firsts == {<<Count(TRUE)>> \o Seed("a") \o Returned("right"),
           <<Count(TRUE)>> \o Seed("a") \o Inputs("a")}

TwoCases(firsts, oddities) ==
    {s \o c \o o \o d : s \in Sections, c \in firsts, o \in oddities,
                       d \in Seconds}

(* Every first case before a second one, and every oddity between two; then *)
(* a file whose cases add to the same counts.                              *)
MCFiles ==
    << {<<Other>>} \cup TwoCases(Cases("a"), {<<>>}) \cup TwoCases(Firsts, Oddities)
           \cup {s \o <<Count(TRUE)>> \o l : s \in Sections, l \in Late},
       {<<Other>>, Section(0, 0) \o <<Count(TRUE)>> \o Seed("a") \o Returned("right")} >>
=============================================================================
