------------------------- MODULE HashDrbgRefinement -------------------------
(***************************************************************************)
(* HashDrbg implements DrbgMechanism.  While a call is under way the       *)
(* abstract state is the one the call found; it becomes the context when   *)
(* the call returns, in one step.                                          *)
(***************************************************************************)
EXTENDS HashDrbg

State(c) == [V |-> c.V, C |-> c.C]

(* What the caller can rely on: the context at the last return or call. *)
Visible == IF pc = "idle" THEN ctx ELSE before

SeededBy(v) == [V |-> v, C |-> HashDf(<<0>> \o v)]

Seeds(c) == {SeededBy(HashDf(m)) : m \in SeedMaterials(c)}

(* The first n digests of new have been copied over old. *)
Overwritten(old, new, n) ==
    [i \in 1..SeedBytes |-> IF BlockOf(i) <= n THEN new[i] ELSE old[i]]

(* An instantiation that fails has overwritten V in part, or V and then C  *)
(* in part.                                                                *)
Torn(s, c) ==
    LET blocks == 0 .. BlockOf(SeedBytes)
        TornV(new) == {[s EXCEPT !.V = Overwritten(s.V, new.V, n)] : n \in blocks}
        TornC(new) == {[V |-> new.V, C |-> Overwritten(s.C, new.C, n)] :
                           n \in blocks \ {BlockOf(SeedBytes)}}
    IN  UNION {TornV(new) \cup TornC(new) : new \in Seeds(c)}

Reseeded(s, c) == SeededBy(HashDf(ReseedMaterial(s.V, c)))

Advance(s, c, counter) ==
    [s EXCEPT !.V = AdvanceV(WorkingV(s.V, c), s.C, counter)]

Stream(s, c) == Hashgen(WorkingV(s.V, c), c.output_len)

MayInstantiate(c) == ~InstantiateInvalid(c)
MayGenerate(c)    == ~GenerateInvalid(c)
MayReseed(c)      == ~ReseedInvalid(c)

Promise == INSTANCE DrbgMechanism WITH
    Faults         <- HashFault,
    Zeroed         <- State(ZeroCtx),
    TooLong        <- AdditionalTooLong,
    state          <- State(Visible),
    reseed_counter <- Visible.reseed_counter

(* Every call of Hash_DRBG is the atomic call its interface promises: its  *)
(* bytes, its next state and its status are those of DrbgMechanism, with   *)
(* the closed forms of hash_df and hashgen in the place of their loops.    *)
KeepsPromise == Promise!Spec

-----------------------------------------------------------------------------
(* Histories.  What a seeding leads to when only requests that are served  *)
(* count, as if no call ever failed.                                       *)

Servable == {c \in GenerateCalls : ~GenerateInvalid(c) /\ ~AdditionalTooLong(c)}

(* What hashgen is given for request c on state s. *)
Request(s, c) == [V |-> WorkingV(s.V, c), len |-> c.output_len]

(* One more request, the n-th of its seeding.                              *)
Further(walks, n) ==
    {[state  |-> Advance(w.state, c, n),
      served |-> Append(w.served, Request(w.state, c))] :
        w \in walks, c \in Servable}

(* The states that n requests lead to from the seed v, each with the       *)
(* requests it was reached by.                                             *)
Walks(v, n) ==
    LET walks[k \in 0..n] ==
            IF k = 0 THEN {[state |-> SeededBy(v), served |-> <<>>]}
            ELSE Further(walks[k - 1], k)
    IN  walks[n]

(* The context is always what its seed and the requests served since then  *)
(* make of it: failed reseeds, failed and refused requests and calls on    *)
(* another context, however many and wherever they fell, left no trace in  *)
(* V, in C or in what the requests were served from, and consumed none of  *)
(* the requests that the seed is good for.                                 *)
ContextIsWalked ==
    /\ CounterTracksRequests
    /\ pc = "idle" /\ seed # <<>> =>
           [state |-> State(ctx), served |-> served] \in Walks(seed, requests)

(* No requests that may be made on seed v, within one interval, hash the   *)
(* same block twice: this is about the hash, and not about the program.    *)
WalksApart(v) ==
    \A n \in 0..ReseedInterval : \A w \in Walks(v, n) : Apart(w.served)
=============================================================================
