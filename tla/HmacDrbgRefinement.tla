------------------------- MODULE HmacDrbgRefinement -------------------------
(***************************************************************************)
(* HmacDrbg implements DrbgMechanism, and more strictly than HashDrbg: an  *)
(* instantiation that fails leaves no trace either.                        *)
(***************************************************************************)
EXTENDS HmacDrbg

(* What the caller can rely on: the context at the last return or call. *)
Visible == IF pc = "idle" THEN ctx ELSE before

Seeds(c) == {Update(InitialKV, SeedMaterial(c))}

Torn(s, c) == {s}

Reseeded(s, c) == Update(s, SeedMaterial(c))

Stream(s, c) == Blocks(ServedFrom(s, c), c.output_len)

Advance(s, c, counter) ==
    LET from == ServedFrom(s, c)
    IN  Update([from EXCEPT !.V = Chain(from, BlockOf(c.output_len))],
               c.additional.data)

MayInstantiate(c) == ~InstantiateInvalid(c)
MayGenerate(c)    == ~GenerateInvalid(c)
MayReseed(c)      == ~ReseedInvalid(c)

Promise == INSTANCE DrbgMechanism WITH
    Faults         <- {"MEMORY_ERROR", "INTERNAL_ERROR"},
    Zeroed         <- Erased,
    TooLong        <- AdditionalTooLong,
    state          <- KV(Visible),
    reseed_counter <- Visible.reseed_counter

(* Every call of HMAC_DRBG is the atomic call its interface promises: its  *)
(* bytes, its next state and its status are those of DrbgMechanism, with   *)
(* the closed forms of the update and of the chain of blocks.  And every   *)
(* call is answered: those loops end.                                      *)
KeepsPromise == Promise!Spec /\ EveryCallReturns

-----------------------------------------------------------------------------
(* Histories.  What a seeding leads to when only requests that are served  *)
(* count, as if no call ever failed.                                       *)

Servable == {c \in GenerateCalls : ~GenerateInvalid(c) /\ ~AdditionalTooLong(c)}

(* What the blocks of request c on state s are computed from. *)
Request(s, c) == [from |-> ServedFrom(s, c), len |-> c.output_len]

(* One more request, the n-th of its seeding.                              *)
Further(walks, n) ==
    {[state  |-> Advance(w.state, c, n),
      served |-> Append(w.served, Request(w.state, c))] :
        w \in walks, c \in Servable}

(* The states that n requests lead to from the seed kv, each with the      *)
(* requests it was reached by.                                             *)
Walks(kv, n) ==
    LET walks[k \in 0..n] ==
            IF k = 0 THEN {[state |-> kv, served |-> <<>>]}
            ELSE Further(walks[k - 1], k)
    IN  walks[n]

(* K and V are always what their seed and the requests served since then   *)
(* make of them: failed seedings, failed and refused requests and calls on *)
(* another context, however many and wherever they fell, left no trace in  *)
(* them or in what the requests were served from, and consumed none of the *)
(* requests that the seed is good for.                                     *)
ContextIsWalked ==
    /\ CounterTracksRequests
    /\ pc = "idle" /\ seed # <<>> =>
           [state |-> KV(ctx), served |-> served] \in Walks(seed, requests)

(* No requests that may be made on seed kv, within one interval, come back *)
(* to a key that has served: this is about the MAC, and not about the      *)
(* program.                                                                *)
KeysApart(kv) ==
    \A n \in 0..ReseedInterval : \A w \in Walks(kv, n) :
        /\ \A i \in DOMAIN w.served : w.served[i].from.K # w.state.K
        /\ \A i, j \in DOMAIN w.served :
               i < j => w.served[i].from.K # w.served[j].from.K
=============================================================================
