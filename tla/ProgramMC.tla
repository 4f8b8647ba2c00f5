------------------------------ MODULE ProgramMC ------------------------------
(***************************************************************************)
(* Command lines of up to six arguments: every size with every generator,  *)
(* and every sequence of up to three or, for the options that interact,    *)
(* four further arguments.  A size_t has 6 bits and an unsigned long long  *)
(* 8, so that products wrap, and one number is too large even for strtoull.*)
(***************************************************************************)
EXTENDS Program

Word(w) == [word |-> w, digits |-> FALSE, negative |-> FALSE, magnitude |-> 0,
            suffix |-> "other"]

Number(n, suffix) == [word |-> "", digits |-> TRUE, negative |-> FALSE,
                      magnitude |-> n, suffix |-> suffix]

Minus(a) == [a EXCEPT !.negative = TRUE]

Generators == {Word(w) : w \in {"dummy", "hash", "", "--help"}}

Sizes == {Number(n, u) : n \in {0, 1, 5, 17, 256}, u \in {"KB", "MB", "GB"}}
         \cup {Number(16, "KB"), Number(1, ""), Number(1, "other"),
               Minus(Number(1, "KB")), Word("")}

Further == {Word(w) : w \in Options \cup {"", "dummy"}}
           \cup {Number(n, "") : n \in {0, 2, 64}}
           \cup {Number(2, "other"), Minus(Number(1, ""))}

Interacting == {Word("--verify"), Word("--no-verify"), Word("--reseed"),
                Number(0, ""), Number(2, "")}

Tails(S, n) == UNION {[1 .. k -> S] : k \in 0 .. n}

MCCommandLines ==
    {<<>>} \cup {<<g>> : g \in Generators}
    \cup {<<g, s>> : g \in Generators, s \in Sizes}
    \cup {<<Word("dummy"), Number(1, "KB")>> \o t : t \in Tails(Further, 3)}
    \cup {<<Word("hash"), Number(1, "KB")>> \o t : t \in Tails(Interacting, 4)}
=============================================================================
