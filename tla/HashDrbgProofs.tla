---------------------------- MODULE HashDrbgProofs ----------------------------
(***************************************************************************)
(* Proofs about HashDrbg, for every hash function, every size and every    *)
(* set of calls.                                                           *)
(***************************************************************************)
EXTENDS HashDrbgRefinement, BufferLemmas

-----------------------------------------------------------------------------
(* The operators of the data path keep the length of a byte string.        *)

(* Additions and increments keep the length of their first operand. *)
LEMMA AddedBytes ==
    ASSUME NEW v, NEW n \in Nat, IsBytes(v, n), NEW x
    PROVE  IsBytes(AddBytes(v, x), n)
<1>1. Len(v) = n BY BytesLength
<1> QED BY <1>1 DEF IsBytes, AddBytes

LEMMA IncrementedBytes ==
    ASSUME NEW v, NEW n \in Nat, IsBytes(v, n)
    PROVE  IsBytes(Increment(v), n)
<1>1. Len(v) = n BY BytesLength
<1> QED BY <1>1 DEF IsBytes, Increment

LEMMA AdvancedBytes ==
    ASSUME NEW v, NEW n \in Nat, IsBytes(v, n), NEW c, NEW counter
    PROVE  IsBytes(AdvanceV(v, c, counter), n)
BY AddedBytes DEF AdvanceV, AddU64

LEMMA BlendedBytes ==
    ASSUME NEW v, NEW n \in Nat, IsBytes(v, n), NEW c
    PROVE  IsBytes(Blend(v, c), n)
BY AddedBytes DEF Blend

-----------------------------------------------------------------------------
(* Type correctness.                                                       *)

LEMMA InitialTypes == Init => TypeOK
<1> SUFFICES ASSUME Init PROVE TypeOK OBVIOUS
<1>1. IsBytes(ZeroBytes(SeedBytes), SeedBytes)
  BY SizesAssumption, ZeroedBytes
<1>2. IsBytes(CallerBuffer, MaxBytes + 2) BY DEF IsBytes, CallerBuffer
<1> QED
  BY <1>1, <1>2, SizesAssumption
  DEF Init, TypeOK, ZeroCtx, NoWork, NoDf, NoGen, NoReply, Reply

(* A call that returns before any derivation: at most ctx or output changed. *)
LEMMA TypesOfCall ==
    ASSUME TypeOK, InstantiateRejected \/ ReseedRejected \/ GenerateRejected
                   \/ GenerateUnprepared \/ Uninstantiate
    PROVE  TypeOK'
<1>1. IsBytes(ZeroBytes(SeedBytes), SeedBytes)
  BY SizesAssumption, ZeroedBytes
<1>2. IsBytes(CallerBuffer, MaxBytes + 2) BY DEF IsBytes, CallerBuffer
<1>3. \A len : IsBytes(ErasedOutput(CallerBuffer, len), MaxBytes + 2)
  BY <1>2, BuffersAssumption, ErasedBytes
<1>4. CASE InstantiateRejected
  BY <1>4, SizesAssumption
  DEF InstantiateRejected, Begin, Return, locals, history, TypeOK
<1>5. CASE ReseedRejected
  BY <1>5, SizesAssumption
  DEF ReseedRejected, Begin, Return, locals, history, TypeOK
<1>6. CASE GenerateRejected
  BY <1>6, <1>2, SizesAssumption
  DEF GenerateRejected, Begin, Return, locals, history, TypeOK
<1>7. CASE GenerateUnprepared
  BY <1>7, <1>3, SizesAssumption
  DEF GenerateUnprepared, Begin, Return, locals, history, TypeOK
<1>8. CASE Uninstantiate
  BY <1>8, <1>1, SizesAssumption
  DEF Uninstantiate, Begin, Return, SeededFrom, ZeroCtx, locals, history, TypeOK
<1> QED BY <1>4, <1>5, <1>6, <1>7, <1>8

(* A call that begins to derive or to generate. *)
LEMMA TypesOfBeginning ==
    ASSUME TypeOK, InstantiateBegins \/ ReseedBegins \/ GenerateBegins
    PROVE  TypeOK'
<1>1. IsBytes(CallerBuffer, MaxBytes + 2) BY DEF IsBytes, CallerBuffer
<1>2. CASE InstantiateBegins
  BY <1>2, SizesAssumption
  DEF InstantiateBegins, StartDf, Begin, Goto, history, TypeOK, Buffers
<1>3. CASE ReseedBegins
  BY <1>3, SizesAssumption
  DEF ReseedBegins, StartDf, Begin, Goto, history, TypeOK, Buffers
<1>4. CASE GenerateBegins
  BY <1>4, <1>1, SizesAssumption
  DEF GenerateBegins, StartHashgen, Begin, Goto, history, TypeOK, Buffers
<1> QED BY <1>2, <1>3, <1>4

(* One round of hash_df writes V or C, in the context or in a temporary. *)
LEMMA TypesOfDfRound == ASSUME TypeOK, DfRound PROVE TypeOK'
<1> DEFINE digest == Sha256(DfInput(df.block, df.input))
           copied(dest) == CopyDigest(dest, SeedBytes, df.block, digest)
<1>1. /\ IsBytes(copied(ctx.V), SeedBytes) /\ IsBytes(copied(ctx.C), SeedBytes)
      /\ IsBytes(copied(work.V), SeedBytes) /\ IsBytes(copied(work.C), SeedBytes)
  BY SizesAssumption, CopyBytes DEF TypeOK
<1>2. \/ /\ ctx' = [ctx EXCEPT ![df.target] = copied(ctx[df.target])]
         /\ UNCHANGED work
      \/ /\ work' = [work EXCEPT ![df.target] = copied(work[df.target])]
         /\ UNCHANGED ctx
  BY DEF DfRound
<1>3. requests' \in Nat
  BY DEF DfRound, SeededFrom, history, TypeOK
<1> HIDE DEF copied
<1>4. /\ ctx' = [V |-> ctx'.V, C |-> ctx'.C,
                 reseed_counter |-> ctx'.reseed_counter]
      /\ IsBytes(ctx'.V, SeedBytes) /\ IsBytes(ctx'.C, SeedBytes)
      /\ ctx'.reseed_counter \in Nat
  <2>1. CASE df.target = "V" BY <2>1, <1>1, <1>2 DEF TypeOK
  <2>2. CASE df.target = "C" BY <2>2, <1>1, <1>2 DEF TypeOK
  <2> QED BY <2>1, <2>2 DEF TypeOK
<1>5. /\ work' = [V |-> work'.V, C |-> work'.C]
      /\ IsBytes(work'.V, SeedBytes) /\ IsBytes(work'.C, SeedBytes)
  <2>1. CASE df.target = "V" BY <2>1, <1>1, <1>2 DEF TypeOK
  <2>2. CASE df.target = "C" BY <2>2, <1>1, <1>2 DEF TypeOK
  <2> QED BY <2>1, <2>2 DEF TypeOK
<1>6. /\ df' = [target |-> df'.target, input |-> df'.input, block |-> df'.block]
      /\ df'.target \in {"V", "C"} /\ df'.block \in Nat
      /\ heap' \subseteq Buffers
      /\ pc' \in {"df_round", "df_done"}
  BY DEF DfRound, NextBlock, Goto, TypeOK
<1> QED BY <1>3, <1>4, <1>5, <1>6 DEF DfRound, Continue, TypeOK

(* The other steps of a derivation. *)
LEMMA TypesOfDerivation ==
    ASSUME TypeOK, DfAlloc \/ SeedDerived \/ InstantiateSucceeds
                   \/ ReseedSucceeds \/ DfAllocFails \/ DfRoundFails
    PROVE  TypeOK'
<1>1. IsBytes(ZeroBytes(SeedBytes), SeedBytes)
  BY SizesAssumption, ZeroedBytes
<1>2. CASE DfAlloc
  BY <1>2 DEF DfAlloc, Continue, Goto, history, TypeOK, Buffers
<1>3. CASE SeedDerived
  BY <1>3 DEF SeedDerived, StartDf, Continue, Goto, history, TypeOK, Buffers
<1>4. CASE InstantiateSucceeds
  BY <1>4
  DEF InstantiateSucceeds, SeededFrom, NoDf, Continue, Return, TypeOK, Buffers
<1>5. CASE ReseedSucceeds
  BY <1>5, <1>1
  DEF ReseedSucceeds, AfterReseed, SeededFrom, NoDf, NoWork, Continue, Return,
      TypeOK, Buffers
<1>6. CASE DfAllocFails
  BY <1>6, <1>1
  DEF DfAllocFails, DfGivesUp, NoDf, NoWork, Continue, Return, history,
      TypeOK, Buffers
<1>7. CASE DfRoundFails
  BY <1>7, <1>1
  DEF DfRoundFails, DfGivesUp, NoDf, NoWork, Continue, Return, history,
      TypeOK, Buffers
<1> QED BY <1>2, <1>3, <1>4, <1>5, <1>6, <1>7

(* The steps of a generate. *)
LEMMA TypesOfGeneration ==
    ASSUME TypeOK, GenerateBlend \/ HashgenRound \/ GenerateSucceeds
                   \/ GenerateFails
    PROVE  TypeOK'
<1>1. IsBytes(ZeroBytes(SeedBytes), SeedBytes)
  BY SizesAssumption, ZeroedBytes
<1>2. CASE GenerateBlend
  <2>1. IsBytes(Blend(work.V, call), SeedBytes)
    BY SizesAssumption, BlendedBytes DEF TypeOK
  <2> QED
    BY <1>2, <2>1
    DEF GenerateBlend, StartHashgen, Continue, Goto, history, TypeOK
<1>3. CASE HashgenRound
  <2>1. IsBytes(output', MaxBytes + 2)
    BY <1>3, BuffersAssumption, CopyBytes DEF HashgenRound, TypeOK
  <2>2. IsBytes(Increment(gen.data), SeedBytes)
    BY SizesAssumption, IncrementedBytes DEF TypeOK
  <2> QED
    BY <1>1, <1>3, <2>1, <2>2
    DEF HashgenRound, NoGen, Continue, Goto, history, TypeOK
<1>4. CASE GenerateSucceeds
  <2>1. IsBytes(AdvanceV(work.V, ctx.C, ctx.reseed_counter), SeedBytes)
    BY SizesAssumption, AdvancedBytes DEF TypeOK
  <2>2. ctx' = [V |-> AdvanceV(work.V, ctx.C, ctx.reseed_counter),
                C |-> ctx.C, reseed_counter |-> ctx.reseed_counter + 1]
    BY <1>4 DEF GenerateSucceeds, AfterGenerate, TypeOK
  <2>3. UNCHANGED <<output, df, gen, call, calls>> /\ requests' = requests + 1
    BY <1>4 DEF GenerateSucceeds, Continue
  <2>4. work' = NoWork /\ heap' \subseteq heap /\ pc' = "idle"
    BY <1>4 DEF GenerateSucceeds, Return
  <2> QED BY <1>1, <2>1, <2>2, <2>3, <2>4 DEF NoWork, TypeOK
<1>5. CASE GenerateFails
  <2>1. IsBytes(output', MaxBytes + 2)
    BY <1>5, BuffersAssumption, ErasedBytes DEF GenerateFails, TypeOK
  <2> QED
    BY <1>1, <1>5, <2>1
    DEF GenerateFails, NoWork, NoGen, Continue, Return, history, TypeOK
<1> QED BY <1>2, <1>3, <1>4, <1>5

(* TypeOK is inductive. *)
LEMMA TypesStep == TypeOK /\ [Next]_vars => TypeOK'
<1> SUFFICES ASSUME TypeOK, [Next]_vars PROVE TypeOK' OBVIOUS
<1>1. CASE UNCHANGED vars BY <1>1 DEF vars, locals, history, TypeOK
<1>2. CASE Next
  BY <1>2, TypesOfCall, TypesOfBeginning, TypesOfDfRound, TypesOfDerivation,
     TypesOfGeneration
  DEF Next, Derivation, Generation, Fault
<1> QED BY <1>1, <1>2

(* Every variable keeps its shape: the context and the temporaries hold    *)
(* byte strings of SeedBytes bytes at every point of every call.           *)
THEOREM TypeCorrect == Spec => []TypeOK
BY InitialTypes, TypesStep, PTL DEF Spec

-----------------------------------------------------------------------------
(* Failed calls.  FailedCallKeepsState speaks of a call that has returned; *)
(* it is inductive together with what holds while a call is under way:     *)
(* only an instantiation has touched the context, and not its counter.     *)

ContextKept ==
    /\ FailedCallKeepsState
    /\ pc # "idle" => ctx.reseed_counter = before.reseed_counter
    /\ pc # "idle" /\ call.op # "instantiate" => ctx = before

LEMMA ContextKeptStep == TypeOK /\ ContextKept /\ [Next]_vars => ContextKept'
<1> SUFFICES ASSUME TypeOK, ContextKept, [Next]_vars PROVE ContextKept'
  OBVIOUS
<1> USE DEF ContextKept, FailedCallKeepsState, Failed
<1>1. /\ \A c \in InstantiateCalls : c.op = "instantiate"
      /\ \A c \in GenerateCalls : c.op = "generate"
      /\ \A c \in ReseedCalls : c.op = "reseed"
  BY CallsAssumption DEF InstantiateCall, GenerateCall, ReseedCall
<1>2. \A op, status, bytes :
         /\ Reply(op, status, bytes).op = op
         /\ Reply(op, status, bytes).status = status
  BY DEF Reply
<1>3. CASE UNCHANGED vars BY <1>3 DEF vars
<1>4. CASE InstantiateRejected
  BY <1>4, <1>2 DEF InstantiateRejected, Begin, Return
<1>5. CASE ReseedRejected
  BY <1>5, <1>2 DEF ReseedRejected, Begin, Return
<1>6. CASE GenerateRejected
  BY <1>6, <1>2 DEF GenerateRejected, Begin, Return
<1>7. CASE GenerateUnprepared
  BY <1>7, <1>2 DEF GenerateUnprepared, Begin, Return
<1>8. CASE Uninstantiate
  BY <1>8, <1>2 DEF Uninstantiate, Begin, Return
<1>9. CASE InstantiateBegins \/ ReseedBegins \/ GenerateBegins
  BY <1>9 DEF InstantiateBegins, ReseedBegins, GenerateBegins, Begin, Goto
<1>10. CASE DfAlloc \/ SeedDerived \/ GenerateBlend \/ HashgenRound
  BY <1>10 DEF DfAlloc, SeedDerived, GenerateBlend, HashgenRound, Goto, Continue
<1>11. CASE DfRound
  \* In place only for an instantiation, and never into the counter.
  BY <1>11 DEF DfRound, DerivesInPlace, Goto, Continue, TypeOK
<1>12. CASE InstantiateSucceeds \/ ReseedSucceeds \/ GenerateSucceeds
  BY <1>12, <1>2
  DEF InstantiateSucceeds, ReseedSucceeds, GenerateSucceeds, Return
<1>13. CASE DfAllocFails \/ DfRoundFails
  BY <1>13, <1>2
  DEF DfAllocFails, DfRoundFails, DfGivesUp, HashFault, Return, Continue
<1>14. CASE GenerateFails
  <2>1. call.op = "generate" BY <1>1, <1>14 DEF GenerateFails, TypeOK
  <2> QED BY <1>14, <1>2, <2>1 DEF GenerateFails, Return, Continue
<1> QED
  BY <1>3, <1>4, <1>5, <1>6, <1>7, <1>8, <1>9, <1>10, <1>11, <1>12, <1>13,
     <1>14
  DEF Next, Derivation, Generation, Fault

(* A failed call leaves V, C and reseed_counter as it found them; a failed *)
(* instantiation, which derives in place, leaves the counter.              *)
THEOREM FailuresKeepState == Spec => []FailedCallKeepsState
<1>1. Init => ContextKept
  BY DEF Init, ContextKept, FailedCallKeepsState, Failed, NoReply, Reply
<1>2. ContextKept => FailedCallKeepsState BY DEF ContextKept
<1> QED BY <1>1, <1>2, TypeCorrect, ContextKeptStep, PTL DEF Spec

-----------------------------------------------------------------------------
(* Cleanup.  FreedAndErased speaks of the idle program; it is inductive *)
(* together with what each control location holds.                         *)

Held ==
    /\ pc = "idle"     => heap = {} /\ work = NoWork
    /\ pc = "df_alloc" => heap = {"seed_material"}
    /\ pc = "df_round" => heap = {"seed_material", "hash_input"}
    /\ pc = "df_done"  => heap = {"seed_material"}
    /\ pc = "blend"    => heap = {"w_input"}
    /\ pc \in {"hashgen", "advance"} => heap \subseteq {"w_input"}
    /\ pc # "hashgen" => gen = NoGen
    /\ pc # "idle" /\ call.op = "instantiate" => work = NoWork

LEMMA HeldStep == TypeOK /\ Held /\ [Next]_vars => Held'
<1> SUFFICES ASSUME TypeOK, Held, [Next]_vars PROVE Held' OBVIOUS
<1> USE DEF Held
<1>1. /\ \A c \in InstantiateCalls : c.op = "instantiate"
      /\ \A c \in GenerateCalls : c.op = "generate"
      /\ \A c \in ReseedCalls : c.op = "reseed"
  BY CallsAssumption DEF InstantiateCall, GenerateCall, ReseedCall
<1>2. CASE UNCHANGED vars BY <1>2 DEF vars, locals
<1>3. CASE InstantiateRejected \/ ReseedRejected \/ GenerateRejected
           \/ GenerateUnprepared \/ Uninstantiate
  BY <1>3
  DEF InstantiateRejected, ReseedRejected, GenerateRejected,
      GenerateUnprepared, Uninstantiate, Begin, Return, locals
<1>4. CASE InstantiateBegins \/ ReseedBegins
  BY <1>4 DEF InstantiateBegins, ReseedBegins, Begin, Goto
<1>5. CASE GenerateBegins
  <2>1. call'.op = "generate" BY <1>1, <1>5 DEF GenerateBegins, Begin
  <2>2. pc = "idle" BY <1>5 DEF GenerateBegins, Begin
  <2>3. \/ heap' = heap \cup {"w_input"} /\ pc' = "blend" /\ gen' = gen
        \/ heap' = heap /\ pc' = "hashgen"
    BY <1>5 DEF GenerateBegins, Goto
  <2> QED BY <2>1, <2>2, <2>3
<1>6. CASE DfAlloc \/ SeedDerived
  BY <1>6 DEF DfAlloc, SeedDerived, Goto, Continue
<1>7. CASE DfRound
  BY <1>7 DEF DfRound, DerivesInPlace, Goto, Continue
<1>8. CASE InstantiateSucceeds \/ ReseedSucceeds
  BY <1>8 DEF InstantiateSucceeds, ReseedSucceeds, Return
<1>9. CASE DfAllocFails \/ DfRoundFails
  BY <1>9 DEF DfAllocFails, DfRoundFails, DfGivesUp, FreedOnFailure, Return
<1>10. CASE GenerateBlend
  <2>1. call'.op = "generate"
    BY <1>1, <1>10 DEF GenerateBlend, Continue, TypeOK
  <2> QED BY <1>10, <2>1 DEF GenerateBlend, Goto
<1>11. CASE HashgenRound
  BY <1>11 DEF HashgenRound, Goto, Continue
<1>12. CASE GenerateSucceeds \/ GenerateFails
  BY <1>12 DEF GenerateSucceeds, GenerateFails, Return
<1> QED
  BY <1>2, <1>3, <1>4, <1>5, <1>6, <1>7, <1>8, <1>9, <1>10, <1>11, <1>12
  DEF Next, Derivation, Generation, Fault

(* Between calls nothing is allocated, and the working values of           *)
(* hash_reseed, hash_generate and hashgen are erased.                      *)
THEOREM CallsCleanUp == Spec => []FreedAndErased
<1>1. Init => Held BY DEF Init, Held
<1>2. Held => FreedAndErased BY DEF Held, FreedAndErased
<1> QED BY <1>1, <1>2, TypeCorrect, HeldStep, PTL DEF Spec

-----------------------------------------------------------------------------
(* The counter.  While a seeding lasts it counts the requests served; the  *)
(* guard of a generate still holds when it commits, because nothing moves  *)
(* the counter in between.                                                 *)

Counted ==
    /\ ctx.reseed_counter <= ReseedInterval + 1
    /\ seed # <<>> => /\ ctx.reseed_counter = requests + 1
                      /\ requests <= ReseedInterval
    /\ pc \in {"blend", "hashgen", "advance"} =>
           ctx.reseed_counter <= ReseedInterval

LEMMA CountedStep == TypeOK /\ Counted /\ [Next]_vars => Counted'
<1> SUFFICES ASSUME TypeOK, Counted, [Next]_vars PROVE Counted' OBVIOUS
<1> USE SizesAssumption DEF Counted
<1>1. CASE UNCHANGED vars BY <1>1 DEF vars, history
<1>2. CASE InstantiateRejected \/ ReseedRejected \/ GenerateRejected
           \/ GenerateUnprepared
  BY <1>2
  DEF InstantiateRejected, ReseedRejected, GenerateRejected,
      GenerateUnprepared, Return, history
<1>3. CASE Uninstantiate
  BY <1>3 DEF Uninstantiate, SeededFrom, ZeroCtx, Return, history
<1>4. CASE InstantiateBegins \/ ReseedBegins
  BY <1>4 DEF InstantiateBegins, ReseedBegins, Goto, history
<1>5. CASE GenerateBegins
  BY <1>5 DEF GenerateBegins, ReseedRequired, history, TypeOK
<1>6. CASE DfAlloc \/ SeedDerived \/ GenerateBlend \/ HashgenRound
  BY <1>6
  DEF DfAlloc, SeedDerived, GenerateBlend, HashgenRound, Goto, history
<1>7. CASE DfRound
  <2>1. ctx'.reseed_counter = ctx.reseed_counter BY <1>7 DEF DfRound, TypeOK
  <2>2. seed' = <<>> \/ UNCHANGED history
    BY <1>7 DEF DfRound, SeededFrom
  <2>3. pc' \in {"df_round", "df_done"} BY <1>7 DEF DfRound, Goto
  <2> QED BY <2>1, <2>2, <2>3 DEF history
<1>8. CASE InstantiateSucceeds
  <2>1. ctx'.reseed_counter = 1 /\ requests' = 0 /\ pc' = "idle"
    BY <1>8 DEF InstantiateSucceeds, SeededFrom, Return, TypeOK
  <2> QED BY <2>1
<1>9. CASE ReseedSucceeds
  <2>1. ctx'.reseed_counter = 1 /\ requests' = 0 /\ pc' = "idle"
    BY <1>9 DEF ReseedSucceeds, AfterReseed, SeededFrom, Return, TypeOK
  <2> QED BY <2>1
<1>10. CASE GenerateSucceeds
  <2>1. /\ ctx'.reseed_counter = ctx.reseed_counter + 1
        /\ requests' = requests + 1
        /\ seed' = seed /\ pc' = "idle"
        /\ ctx.reseed_counter <= ReseedInterval
    BY <1>10 DEF GenerateSucceeds, AfterGenerate, Return, TypeOK
  <2> QED BY <2>1 DEF TypeOK
<1>11. CASE DfAllocFails \/ DfRoundFails \/ GenerateFails
  BY <1>11
  DEF DfAllocFails, DfRoundFails, DfGivesUp, GenerateFails, Return, history
<1> QED
  BY <1>1, <1>2, <1>3, <1>4, <1>5, <1>6, <1>7, <1>8, <1>9, <1>10, <1>11
  DEF Next, Derivation, Generation, Fault

(* reseed_counter counts the requests of a seeding, which are never more   *)
(* than ReseedInterval, whatever calls fail or are repeated.               *)
THEOREM CounterIsExact == Spec => []CounterTracksRequests
<1>1. Init => Counted BY SizesAssumption DEF Init, Counted, ZeroCtx
<1>2. Counted => CounterTracksRequests BY DEF Counted, CounterTracksRequests
<1> QED BY <1>1, <1>2, TypeCorrect, CountedStep, PTL DEF Spec

-----------------------------------------------------------------------------
(* The constant.  While hash_df runs, the digests it has copied are those  *)
(* of its result; so when it has copied the last one, its target holds     *)
(* HashDf of its input, and C is derived from the V beside it.             *)

(* Where hash_df writes. *)
Derived == IF DerivesInPlace(call) THEN ctx ELSE work

(* The digests before number n are those of hash_df on df.input. *)
DerivedUpTo(n) ==
    \A i \in 1..SeedBytes :
        BlockOf(i) < n => Derived[df.target][i] = HashDf(df.input)[i]

Deriving == pc \in {"df_alloc", "df_round", "df_done"}

Matched ==
    /\ seed # <<>> => ctx.C = HashDf(<<0>> \o seed)
    /\ Deriving /\ df.target = "C" => df.input = <<0>> \o Derived.V
    /\ pc = "df_alloc" => df.block = 1
    /\ pc = "df_round" => DerivedUpTo(df.block)
    /\ pc = "df_done" =>
           \A i \in 1..SeedBytes :
               Derived[df.target][i] = HashDf(df.input)[i]

(* A round makes one more digest of the target right, and no other byte    *)
(* wrong; the round that leaves the loop is that of the last digest.       *)
LEMMA RoundCopies ==
    ASSUME TypeOK, DfRound, DerivedUpTo(df.block)
    PROVE  /\ \A i \in 1..SeedBytes :
                  BlockOf(i) < df.block + 1 =>
                      Derived'[df.target][i] = HashDf(df.input)[i]
           /\ df.target = "C" => Derived'.V = Derived.V
<1> DEFINE digest == Sha256(DfInput(df.block, df.input))
           new    == CopyDigest(Derived[df.target], SeedBytes, df.block, digest)
<1>1. Derived' = [Derived EXCEPT ![df.target] = new]
  BY DEF DfRound, Continue, Derived, DerivesInPlace
<1>2. df.target \in DOMAIN Derived /\ "V" \in DOMAIN Derived
  BY DEF TypeOK, Derived
<1>3. Derived'[df.target] = new BY <1>1, <1>2
<1>4. DOMAIN Derived[df.target] = 1..SeedBytes
  <2>1. CASE df.target = "V" BY <2>1 DEF TypeOK, Derived, IsBytes
  <2>2. CASE df.target = "C" BY <2>2 DEF TypeOK, Derived, IsBytes
  <2> QED BY <2>1, <2>2 DEF TypeOK
<1>5. ASSUME NEW i \in 1..SeedBytes, BlockOf(i) < df.block + 1
      PROVE  new[i] = HashDf(df.input)[i]
  <2>1. BlockOf(i) \in Nat /\ df.block \in Nat
    BY <1>5, BlocksInOrder, SizesAssumption DEF TypeOK
  <2>2. CASE BlockOf(i) = df.block
    BY <1>4, <2>2, SizesAssumption DEF CopyDigest, HashDf
  <2>3. CASE BlockOf(i) < df.block
    BY <1>4, <2>1, <2>3 DEF CopyDigest, DerivedUpTo
  <2> QED BY <1>5, <2>1, <2>2, <2>3
<1>6. df.target = "C" => Derived'.V = Derived.V BY <1>1, <1>2
<1> QED BY <1>3, <1>5, <1>6

LEMMA MatchedRound ==
    ASSUME TypeOK, Matched, DfRound
    PROVE  Matched'
<1>1. pc = "df_round" /\ DerivedUpTo(df.block) BY DEF DfRound, Matched
<1>2. /\ \A i \in 1..SeedBytes :
             BlockOf(i) < df.block + 1 =>
                 Derived'[df.target][i] = HashDf(df.input)[i]
      /\ df.target = "C" => Derived'.V = Derived.V
  BY <1>1, RoundCopies
<1>3. df'.target = df.target /\ df'.input = df.input
  BY DEF DfRound, TypeOK
<1>4. (seed # <<>> => ctx.C = HashDf(<<0>> \o seed))'
  BY DEF DfRound, SeededFrom, history, Matched
<1>5. (Deriving /\ df.target = "C" => df.input = <<0>> \o Derived.V)'
  BY <1>1, <1>2, <1>3 DEF Matched, Deriving
<1>6. CASE df.block < BlockOf(SeedBytes)
  <2>1. pc' = "df_round" /\ df'.block = df.block + 1
    BY <1>6 DEF DfRound, NextBlock, Goto, TypeOK
  <2>2. DerivedUpTo(df.block)' BY <1>2, <1>3, <2>1 DEF DerivedUpTo
  <2> QED BY <1>4, <1>5, <2>1, <2>2 DEF Matched
<1>7. CASE ~(df.block < BlockOf(SeedBytes))
  <2>1. pc' = "df_done" BY <1>7 DEF DfRound, Goto
  <2>2. ASSUME NEW i \in 1..SeedBytes PROVE BlockOf(i) < df.block + 1
    <3>1. /\ BlockOf(i) <= BlockOf(SeedBytes)
          /\ BlockOf(i) \in Nat /\ BlockOf(SeedBytes) \in Nat
      BY BlocksInOrder, SizesAssumption
    <3> QED BY <1>7, <3>1 DEF TypeOK
  <2>3. (\A i \in 1..SeedBytes :
            Derived[df.target][i] = HashDf(df.input)[i])'
    BY <1>2, <1>3, <2>2
  <2> QED BY <1>4, <1>5, <2>1, <2>3 DEF Matched
<1> QED BY <1>6, <1>7

(* At the end of a derivation the target of C holds the constant of V. *)
LEMMA DerivedConstant ==
    ASSUME TypeOK, Matched, pc = "df_done", df.target = "C"
    PROVE  Derived.C = HashDf(<<0>> \o Derived.V)
<1>1. \A i \in 1..SeedBytes : Derived.C[i] = HashDf(df.input)[i]
  BY DEF Matched
<1>2. df.input = <<0>> \o Derived.V BY DEF Matched, Deriving
<1>3. Derived.C = [i \in 1..SeedBytes |-> Derived.C[i]]
  BY DEF TypeOK, Derived, IsBytes
<1>4. HashDf(df.input) = [i \in 1..SeedBytes |-> HashDf(df.input)[i]]
  BY DEF HashDf
<1> QED BY <1>1, <1>2, <1>3, <1>4

LEMMA MatchedStep == TypeOK /\ Matched /\ [Next]_vars => Matched'
<1> SUFFICES ASSUME TypeOK, Matched, [Next]_vars PROVE Matched' OBVIOUS
<1>1. /\ \A c \in InstantiateCalls : c.op = "instantiate"
      /\ \A c \in ReseedCalls : c.op = "reseed"
  BY CallsAssumption DEF InstantiateCall, ReseedCall
<1>2. CASE UNCHANGED vars
  BY <1>2 DEF vars, locals, history, Matched, Deriving, Derived, DerivedUpTo
<1>3. CASE InstantiateRejected \/ ReseedRejected \/ GenerateRejected
           \/ GenerateUnprepared
  BY <1>3
  DEF InstantiateRejected, ReseedRejected, GenerateRejected,
      GenerateUnprepared, Return, history, Matched, Deriving
<1>4. CASE Uninstantiate
  BY <1>4 DEF Uninstantiate, SeededFrom, Return, history, Matched, Deriving
<1>5. CASE InstantiateBegins \/ ReseedBegins
  BY <1>5
  DEF InstantiateBegins, ReseedBegins, StartDf, Goto, history, Matched, Deriving
<1>6. CASE GenerateBegins
  BY <1>6 DEF GenerateBegins, Goto, history, Matched, Deriving
<1>7. CASE DfAlloc
  <2>1. \A i \in 1..SeedBytes : ~(BlockOf(i) < 1)
    <3> TAKE i \in 1..SeedBytes
    <3>1. BlockOf(i) \in Nat \ {0} BY BlocksInOrder
    <3> QED BY <3>1
  <2>2. pc = "df_alloc" /\ df.block = 1 BY <1>7 DEF DfAlloc, Matched
  <2>3. pc' = "df_round" /\ UNCHANGED <<ctx, work, df, call, seed>>
    BY <1>7 DEF DfAlloc, Goto, Continue, history
  <2>4. Derived' = Derived BY <2>3 DEF Derived, DerivesInPlace
  <2>5. DerivedUpTo(df.block)' BY <2>1, <2>2, <2>3 DEF DerivedUpTo
  <2> QED BY <2>2, <2>3, <2>4, <2>5 DEF Matched, Deriving
<1>8. CASE DfRound BY <1>8, MatchedRound
<1>9. CASE SeedDerived
  <2>1. /\ df' = [target |-> "C", input |-> <<0>> \o Derived.V, block |-> 1]
        /\ pc' = "df_alloc" /\ UNCHANGED <<ctx, work, call, seed>>
    BY <1>9 DEF SeedDerived, StartDf, Goto, Continue, history, Derived
  <2>2. Derived' = Derived BY <2>1 DEF Derived, DerivesInPlace
  <2> QED BY <2>1, <2>2 DEF Matched, Deriving
<1>10. CASE InstantiateSucceeds
  <2>1. pc = "df_done" /\ df.target = "C" /\ Derived = ctx
    BY <1>10 DEF InstantiateSucceeds, Derived, DerivesInPlace
  <2>2. ctx.C = HashDf(<<0>> \o ctx.V) BY <2>1, DerivedConstant
  <2>3. ctx'.C = ctx.C /\ seed' = ctx.V /\ pc' = "idle"
    BY <1>10 DEF InstantiateSucceeds, SeededFrom, Return, TypeOK
  <2> QED BY <2>2, <2>3 DEF Matched, Deriving
<1>11. CASE ReseedSucceeds
  <2>1. pc = "df_done" /\ df.target = "C" /\ Derived = work
    BY <1>11 DEF ReseedSucceeds, Derived, DerivesInPlace
  <2>2. work.C = HashDf(<<0>> \o work.V) BY <2>1, DerivedConstant
  <2>3. ctx'.C = work.C /\ seed' = work.V /\ pc' = "idle"
    BY <1>11 DEF ReseedSucceeds, AfterReseed, SeededFrom, Return, TypeOK
  <2> QED BY <2>2, <2>3 DEF Matched, Deriving
<1>12. CASE GenerateBlend \/ HashgenRound
  BY <1>12 DEF GenerateBlend, HashgenRound, Goto, history, Matched, Deriving
<1>13. CASE GenerateSucceeds
  <2>1. ctx'.C = ctx.C /\ seed' = seed /\ pc' = "idle"
    BY <1>13 DEF GenerateSucceeds, AfterGenerate, Return, TypeOK
  <2> QED BY <2>1 DEF Matched, Deriving
<1>14. CASE DfAllocFails \/ DfRoundFails \/ GenerateFails
  BY <1>14
  DEF DfAllocFails, DfRoundFails, DfGivesUp, GenerateFails, Return, history,
      Matched, Deriving
<1> QED
  BY <1>2, <1>3, <1>4, <1>5, <1>6, <1>7, <1>8, <1>9, <1>10, <1>11, <1>12,
     <1>13, <1>14
  DEF Next, Derivation, Generation, Fault

(* C is the constant of the V that was seeded, for as long as the seeding  *)
(* lasts: a reseed that fails between the two derivations leaves the old   *)
(* pair, and no request changes C.                                         *)
THEOREM ConstantIsDerived == Spec => []ConstantMatchesSeed
<1>1. Init => Matched BY DEF Init, Matched, Deriving
<1>2. Matched => ConstantMatchesSeed BY DEF Matched, ConstantMatchesSeed
<1> QED BY <1>1, <1>2, TypeCorrect, MatchedStep, PTL DEF Spec

-----------------------------------------------------------------------------

(* IncrementBy is defined by recursion.  That the recursion defines it is  *)
(* proved by induction, here on the number of increments.                  *)

(* The function that IncrementBy reads its result from. *)
IsIncrements(data, v, n) ==
    data = [k \in 0..n |-> IF k = 0 THEN v ELSE Increment(data[k - 1])]

(* It exists, for any number of increments. *)
LEMMA IncrementsExist ==
    ASSUME NEW v, NEW n \in Nat
    PROVE  \E data : IsIncrements(data, v, n)
<1> DEFINE S == {m \in Nat : \E data : IsIncrements(data, v, m)}
<1>1. 0 \in S
  <2>1. IsIncrements([k \in 0..0 |-> v], v, 0) BY DEF IsIncrements
  <2> QED BY <2>1
<1>2. ASSUME NEW m \in Nat, m \in S PROVE m + 1 \in S
  <2>1. PICK data : IsIncrements(data, v, m) BY <1>2
  <2> DEFINE next == [k \in 0 .. m + 1 |->
                         IF k <= m THEN data[k] ELSE Increment(data[m])]
  <2>2. \A k \in 0..m : next[k] = data[k] BY <1>2
  <2>3. next[m + 1] = Increment(data[m]) BY <1>2
  <2>4. \A k \in 0..m : data[k] = IF k = 0 THEN v ELSE Increment(data[k - 1])
    BY <2>1 DEF IsIncrements
  <2>5. DOMAIN next = 0 .. m + 1 /\ next = [k \in 0 .. m + 1 |-> next[k]]
    OBVIOUS
  <2> HIDE DEF next
  <2>6. ASSUME NEW k \in 0 .. m + 1
        PROVE  next[k] = IF k = 0 THEN v ELSE Increment(next[k - 1])
    <3>1. CASE k \in 0..m
      <4>1. k = 0 \/ k - 1 \in 0..m BY <3>1
      <4> QED BY <2>2, <2>4, <3>1, <4>1
    <3>2. CASE k = m + 1
      <4>1. k # 0 /\ k - 1 = m /\ m \in 0..m BY <3>2
      <4> QED BY <2>2, <2>3, <3>2, <4>1
    <3> QED BY <3>1, <3>2
  <2>7. next = [k \in 0 .. m + 1 |->
                   IF k = 0 THEN v ELSE Increment(next[k - 1])]
    BY <2>5, <2>6
  <2>8. IsIncrements(next, v, m + 1) BY <2>7 DEF IsIncrements
  <2> QED BY <2>8
<1> HIDE DEF S
<1>3. n \in S BY <1>1, <1>2, SetInduction
<1> QED BY <1>3 DEF S

(* Two such functions agree where both are defined. *)
LEMMA IncrementsAgree ==
    ASSUME NEW v, NEW n \in Nat, NEW m \in Nat, n <= m,
           NEW f, IsIncrements(f, v, n), NEW g, IsIncrements(g, v, m)
    PROVE  f[n] = g[n]
<1> DEFINE S == {k \in Nat : k <= n => f[k] = g[k]}
<1>1. \A k \in 0..n : /\ f[k] = IF k = 0 THEN v ELSE Increment(f[k - 1])
                      /\ g[k] = IF k = 0 THEN v ELSE Increment(g[k - 1])
  <2> TAKE k \in 0..n
  <2>1. k \in 0..m OBVIOUS
  <2>2. f[k] = IF k = 0 THEN v ELSE Increment(f[k - 1]) BY DEF IsIncrements
  <2>3. g[k] = IF k = 0 THEN v ELSE Increment(g[k - 1])
     BY <2>1 DEF IsIncrements
  <2> QED BY <2>2, <2>3
<1>2. 0 \in S BY <1>1
<1>3. ASSUME NEW k \in Nat, k \in S PROVE k + 1 \in S
  <2> SUFFICES ASSUME k + 1 <= n PROVE f[k + 1] = g[k + 1] BY <1>3
  <2>1. f[k] = g[k] BY <1>3
  <2>2. k + 1 \in 0..n /\ k + 1 # 0 /\ (k + 1) - 1 = k BY <1>3
  <2> QED BY <1>1, <2>1, <2>2
<1> HIDE DEF S
<1>4. n \in S BY <1>2, <1>3, SetInduction
<1> QED BY <1>4 DEF S

(* So each increment is made on the result of those before it. *)
LEMMA IncrementByUnfolds ==
    ASSUME NEW v, NEW n \in Nat
    PROVE  /\ IncrementBy(v, 0) = v
           /\ IncrementBy(v, n + 1) = Increment(IncrementBy(v, n))
<1> DEFINE data(m) == CHOOSE f : IsIncrements(f, v, m)
<1>1. \A m \in Nat : IncrementBy(v, m) = data(m)[m]
  BY DEF IncrementBy, IsIncrements
<1>2. \A m \in Nat : IsIncrements(data(m), v, m) BY IncrementsExist
<1> HIDE DEF data
<1>3. IncrementBy(v, 0) = v
  <2>1. data(0) = [k \in 0..0 |-> IF k = 0 THEN v ELSE Increment(data(0)[k - 1])]
    BY <1>2 DEF IsIncrements
  <2>2. 0 \in 0..0 OBVIOUS
  <2> QED BY <1>1, <2>1, <2>2
<1>4. IncrementBy(v, n + 1) = Increment(IncrementBy(v, n))
  <2>1. data(n)[n] = data(n + 1)[n] BY <1>2, IncrementsAgree
  <2>2. data(n + 1) = [k \in 0 .. n + 1 |-> IF k = 0 THEN v
                                     ELSE Increment(data(n + 1)[k - 1])]
    BY <1>2 DEF IsIncrements
  <2>3. n + 1 \in 0 .. n + 1 /\ n + 1 # 0 /\ (n + 1) - 1 = n OBVIOUS
  <2>4. data(n + 1)[n + 1] = Increment(data(n + 1)[n]) BY <2>2, <2>3
  <2> QED BY <1>1, <2>1, <2>4
<1> QED BY <1>3, <1>4
-----------------------------------------------------------------------------
(* The output.  OutputAllOrNothing speaks of the idle program; it is       *)
(* inductive together with what a generate under way has copied out: the   *)
(* digests of the blocks before the one it is at, and no other byte.       *)

(* What hashgen has copied out before block n, and nothing beside it. *)
Delivered(n) ==
    output = [i \in 1 .. MaxBytes + 2 |->
                 IF i <= call.output_len /\ BlockOf(i) < n
                 THEN Hashgen(work.V, call.output_len)[i] ELSE Untouched]

Generating == pc \in {"blend", "hashgen", "advance"}

Streamed ==
    /\ OutputAllOrNothing
    /\ Generating => ~GenerateInvalid(call) /\ ~AdditionalTooLong(call)
    /\ pc = "blend" => /\ HasAdditional(call)
                       /\ work.V = before.V
                       /\ output = CallerBuffer
    /\ pc \in {"hashgen", "advance"} => work.V = WorkingV(before.V, call)
    /\ pc = "hashgen" => /\ gen.block \in 1 .. BlockOf(call.output_len)
                         /\ gen.data = IncrementBy(work.V, gen.block - 1)
                         /\ Delivered(gen.block)
    /\ pc = "advance" => Delivered(BlockOf(call.output_len) + 1)

(* A generate under way was accepted, so its length is in bounds. *)
LEMMA RequestLength ==
    ASSUME TypeOK, Streamed, Generating
    PROVE  /\ call.output_len \in 1..MaxBytes
           /\ call \in GenerateCalls /\ call.op = "generate"
<1>1. call \in GenerateCall BY CallsAssumption DEF TypeOK, Generating
<1>2. call.output_len \in Nat /\ call.op = "generate" BY <1>1 DEF GenerateCall
<1>3. ~GenerateInvalid(call) BY DEF Streamed
<1> QED BY <1>2, <1>3, BuffersAssumption DEF GenerateInvalid, TypeOK, Generating

(* A round of hashgen adds the digest of its block to the output. *)
LEMMA DeliveredGrows ==
    ASSUME TypeOK, Streamed, HashgenRound
    PROVE  /\ UNCHANGED <<call, before, work>>
           /\ output' = [i \in 1 .. MaxBytes + 2 |->
                            IF i <= call.output_len /\ BlockOf(i) < gen.block + 1
                            THEN Hashgen(work.V, call.output_len)[i]
                            ELSE Untouched]
<1> DEFINE len == call.output_len
           stream == Hashgen(work.V, len)
<1>1. pc = "hashgen" BY DEF HashgenRound
<1>2. len \in 1..MaxBytes BY <1>1, RequestLength DEF Generating
<1>3. gen.block \in Nat /\ gen.data = IncrementBy(work.V, gen.block - 1)
  BY <1>1 DEF Streamed, TypeOK
<1>4. output = [i \in 1 .. MaxBytes + 2 |->
                   IF i <= len /\ BlockOf(i) < gen.block
                   THEN stream[i] ELSE Untouched]
  BY <1>1 DEF Streamed, Delivered
<1>5. output' = [i \in 1 .. MaxBytes + 2 |->
                    IF i <= len /\ BlockOf(i) = gen.block
                    THEN Sha256(gen.data)[OffsetOf(i)] ELSE output[i]]
  BY <1>4 DEF HashgenRound, CopyDigest
<1>6. \A i \in 1 .. MaxBytes + 2 : BlockOf(i) \in Nat
  BY BlocksInOrder, BuffersAssumption
<1>7. \A i \in 1..len : stream[i] =
          Sha256(IncrementBy(work.V, BlockOf(i) - 1))[OffsetOf(i)]
  BY DEF Hashgen
<1> HIDE DEF len, stream
<1>8. ASSUME NEW i \in 1 .. MaxBytes + 2
      PROVE  (IF i <= len /\ BlockOf(i) = gen.block
              THEN Sha256(gen.data)[OffsetOf(i)] ELSE output[i])
             = IF i <= len /\ BlockOf(i) < gen.block + 1
               THEN stream[i] ELSE Untouched
  <2>1. CASE i <= len /\ BlockOf(i) = gen.block
    <3>1. i \in 1..len BY <1>2, <2>1
    <3> QED BY <1>3, <1>7, <2>1, <3>1
  <2>2. CASE ~(i <= len /\ BlockOf(i) = gen.block)
    BY <1>2, <1>3, <1>4, <1>6, <2>2
  <2> QED BY <2>1, <2>2
<1>9. output' = [i \in 1 .. MaxBytes + 2 |->
                    IF i <= len /\ BlockOf(i) < gen.block + 1
                    THEN stream[i] ELSE Untouched]
  BY <1>5, <1>8
<1> QED BY <1>9 DEF HashgenRound, Continue, len, stream

(* So a round keeps the invariant, whether it is the last one or not. *)
LEMMA StreamedRound ==
    ASSUME TypeOK, Streamed, HashgenRound
    PROVE  Streamed'
<1>1. /\ pc = "hashgen" /\ Generating
      /\ gen.block \in 1 .. BlockOf(call.output_len)
      /\ gen.data = IncrementBy(work.V, gen.block - 1)
      /\ work.V = WorkingV(before.V, call)
  BY DEF HashgenRound, Streamed, Generating
<1>2. call.output_len \in 1..MaxBytes BY <1>1, RequestLength
<1>3. BlockOf(call.output_len) \in Nat
  BY <1>2, BlocksInOrder, BuffersAssumption
<1>4. UNCHANGED <<call, before, work>> BY DeliveredGrows
<1>5. CASE gen.block < BlockOf(call.output_len)
  <2>1. /\ gen' = [data |-> Increment(gen.data), block |-> gen.block + 1]
        /\ pc' = "hashgen"
    BY <1>5 DEF HashgenRound, Goto
  <2>2. Increment(gen.data) = IncrementBy(work.V, (gen.block + 1) - 1)
    <3>1. gen.block - 1 \in Nat /\ (gen.block - 1) + 1 = (gen.block + 1) - 1
      BY <1>1, <1>3
    <3> QED BY <1>1, <3>1, IncrementByUnfolds
  <2>3. Delivered(gen.block)' BY <2>1, <1>4, DeliveredGrows DEF Delivered
  <2>4. gen'.block \in 1 .. BlockOf(call.output_len) BY <1>1, <1>3, <1>5, <2>1
  <2> QED BY <1>1, <1>4, <2>1, <2>2, <2>3, <2>4
          DEF Streamed, Generating, OutputAllOrNothing
<1>6. CASE ~(gen.block < BlockOf(call.output_len))
  <2>1. pc' = "advance" BY <1>6 DEF HashgenRound, Goto
  <2>2. gen.block = BlockOf(call.output_len) BY <1>1, <1>3, <1>6
  <2>3. Delivered(BlockOf(call.output_len) + 1)'
    BY <2>2, <1>4, DeliveredGrows DEF Delivered
  <2> QED BY <1>1, <1>4, <2>1, <2>3 DEF Streamed, Generating, OutputAllOrNothing
<1> QED BY <1>5, <1>6

(* The byte of a request is in one of the blocks that were copied out. *)
LEMMA LastBlock ==
    ASSUME NEW len \in 1..MaxBytes, NEW i \in 1..len
    PROVE  BlockOf(i) < BlockOf(len) + 1
BY BlocksInOrder, BuffersAssumption

(* What the caller finds when a generate succeeds. *)
LEMMA StreamedSuccess ==
    ASSUME TypeOK, Streamed, GenerateSucceeds
    PROVE  /\ \A i \in 1 .. MaxBytes + 2 :
                  output[i] = IF i <= call.output_len
                              THEN Hashgen(WorkingV(before.V, call),
                                           call.output_len)[i]
                              ELSE Untouched
           /\ UNCHANGED <<call, before, output>>
           /\ pc' = "idle" /\ reply'.status = "SUCCESS"
<1>1. pc = "advance" /\ Generating BY DEF GenerateSucceeds, Generating
<1>2. call.output_len \in 1..MaxBytes BY <1>1, RequestLength
<1>3. /\ Delivered(BlockOf(call.output_len) + 1)
      /\ work.V = WorkingV(before.V, call)
  BY <1>1 DEF Streamed
<1>4. ASSUME NEW i \in 1 .. MaxBytes + 2
      PROVE  output[i] = IF i <= call.output_len
                         THEN Hashgen(WorkingV(before.V, call),
                                      call.output_len)[i]
                         ELSE Untouched
  <2>1. i <= call.output_len => BlockOf(i) < BlockOf(call.output_len) + 1
    BY <1>2, LastBlock
  <2> QED BY <1>3, <2>1 DEF Delivered
<1> QED BY <1>4 DEF GenerateSucceeds, Continue, Return, Reply

(* Of a generate that fails under way every requested byte is erased. *)
LEMMA StreamedFailure ==
    ASSUME TypeOK, Streamed, GenerateFails
    PROVE  Streamed'
<1>1. Generating BY DEF GenerateFails, Generating
<1>2. \A i \in 1 .. MaxBytes + 2 :
          i > call.output_len => output[i] = Untouched
  <2>1. call.output_len \in Nat BY <1>1, RequestLength, BuffersAssumption
  <2>2. CASE pc = "blend" BY <2>2 DEF Streamed, CallerBuffer
  <2>3. CASE pc = "hashgen" BY <2>1, <2>3 DEF Streamed, Delivered
  <2>4. CASE pc = "advance" BY <2>1, <2>4 DEF Streamed, Delivered
  <2> QED BY <1>1, <2>2, <2>3, <2>4 DEF Generating
<1>3. DOMAIN output = 1 .. MaxBytes + 2 BY DEF TypeOK, IsBytes
<1>4. call.output_len \in Nat BY <1>1, RequestLength, BuffersAssumption
<1>5. /\ output' = ErasedOutput(output, call.output_len)
      /\ pc' = "idle" /\ UNCHANGED call
      /\ reply'.status \in HashFault
  BY DEF GenerateFails, Continue, Return, Reply
<1>6. /\ DOMAIN output' = 1 .. MaxBytes + 2
      /\ \A i \in 1 .. MaxBytes + 2 :
             output'[i] = IF i <= call.output_len THEN 0 ELSE Untouched
  BY <1>2, <1>3, <1>4, <1>5, BuffersAssumption DEF ErasedOutput
<1>7. OutputAllOrNothing'
  BY <1>5, <1>6, BuffersAssumption DEF OutputAllOrNothing, HashFault
<1> QED BY <1>5, <1>7 DEF Streamed, Generating

(* Streamed is inductive. *)
LEMMA StreamedStep ==
    TypeOK /\ ContextKept /\ Streamed /\ [Next]_vars => Streamed'
<1> SUFFICES ASSUME TypeOK, ContextKept, Streamed, [Next]_vars
             PROVE  Streamed'
  OBVIOUS
<1>1. /\ \A c \in InstantiateCalls : c.op = "instantiate"
      /\ \A c \in GenerateCalls : c.op = "generate" /\ c.output_len \in Nat
      /\ \A c \in ReseedCalls : c.op = "reseed"
      /\ \A c \in UninstantiateCalls : c.op = "uninstantiate"
  BY CallsAssumption
  DEF InstantiateCall, GenerateCall, ReseedCall, UninstantiateCall
<1>2. CASE UNCHANGED vars
  BY <1>2 DEF vars, locals, Streamed, OutputAllOrNothing, Generating, Delivered
<1>3. CASE InstantiateRejected \/ ReseedRejected \/ Uninstantiate
  <2>1. pc' = "idle" /\ call'.op # "generate"
    BY <1>1, <1>3
    DEF InstantiateRejected, ReseedRejected, Uninstantiate, Begin, Return
  <2> QED BY <2>1 DEF Streamed, OutputAllOrNothing, Generating
<1>4. CASE GenerateRejected
  <2>1. pc' = "idle" /\ output' = CallerBuffer /\ reply'.status # "SUCCESS"
    BY <1>4 DEF GenerateRejected, Return, Reply
  <2> QED
    BY <2>1 DEF Streamed, OutputAllOrNothing, Generating, CallerBuffer
<1>5. CASE GenerateUnprepared
  <2>1. PICK c \in GenerateCalls :
            /\ call' = c /\ pc' = "idle" /\ reply'.status # "SUCCESS"
            /\ output' = ErasedOutput(CallerBuffer, c.output_len)
    BY <1>5 DEF GenerateUnprepared, Begin, Return, Reply
  <2> QED
    BY <2>1
    DEF Streamed, OutputAllOrNothing, Generating, CallerBuffer, ErasedOutput
<1>6. CASE InstantiateBegins \/ ReseedBegins
  <2>1. pc' = "df_alloc"
    BY <1>6 DEF InstantiateBegins, ReseedBegins, Goto
  <2> QED BY <2>1 DEF Streamed, OutputAllOrNothing, Generating
<1>7. CASE GenerateBegins
  <2>1. PICK c \in GenerateCalls :
            /\ call' = c /\ before' = ctx
            /\ ~GenerateInvalid(c) /\ ~AdditionalTooLong(c)
            /\ output' = CallerBuffer
            /\ work' = [work EXCEPT !.V = ctx.V]
            /\ IF HasAdditional(c)
               THEN pc' = "blend"
               ELSE StartHashgen(ctx.V) /\ pc' = "hashgen"
    BY <1>7 DEF GenerateBegins, Begin, Goto
  <2>2. work'.V = before'.V BY <2>1 DEF TypeOK
  <2>3. CASE HasAdditional(c)
    BY <2>1, <2>2, <2>3
    DEF Streamed, OutputAllOrNothing, Generating
  <2>4. CASE ~HasAdditional(c)
    <3>1. pc' = "hashgen" /\ gen' = [data |-> ctx.V, block |-> 1]
      BY <2>1, <2>4 DEF StartHashgen
    <3>2. c.output_len \in 1..MaxBytes
      BY <1>1, <2>1, BuffersAssumption DEF GenerateInvalid
    <3>3. 1 \in 1 .. BlockOf(c.output_len)
      BY <3>2, BlocksInOrder, BuffersAssumption
    <3>4. ctx.V = IncrementBy(ctx.V, 1 - 1) BY IncrementByUnfolds
    <3>5. \A i \in 1 .. MaxBytes + 2 : ~(BlockOf(i) < 1)
      BY BlocksInOrder, BuffersAssumption
    <3>6. Delivered(1)'
      BY <2>1, <3>5 DEF Delivered, CallerBuffer
    <3>7. work'.V = WorkingV(before'.V, call')
      BY <2>1, <2>2, <2>4 DEF WorkingV
    <3> QED
      BY <2>1, <2>2, <3>1, <3>3, <3>4, <3>6, <3>7
      DEF Streamed, OutputAllOrNothing, Generating
  <2> QED BY <2>3, <2>4
<1>8. CASE DfAlloc \/ DfRound \/ SeedDerived
  <2>1. pc' \in {"df_alloc", "df_round", "df_done"}
    BY <1>8 DEF DfAlloc, DfRound, SeedDerived, Goto
  <2> QED BY <2>1 DEF Streamed, OutputAllOrNothing, Generating
<1>9. CASE InstantiateSucceeds \/ ReseedSucceeds \/ DfAllocFails \/ DfRoundFails
  <2>1. call.op # "generate" /\ UNCHANGED call
    BY <1>1, <1>9
    DEF InstantiateSucceeds, ReseedSucceeds, DfAllocFails, DfRoundFails,
        DfGivesUp, Continue, TypeOK
  <2>2. pc' = "idle"
    BY <1>9
    DEF InstantiateSucceeds, ReseedSucceeds, DfAllocFails, DfRoundFails,
        DfGivesUp, Return
  <2> QED BY <2>1, <2>2 DEF Streamed, OutputAllOrNothing, Generating
<1>10. CASE GenerateBlend
  <2>1. /\ pc = "blend" /\ Generating /\ UNCHANGED <<call, before, output>>
        /\ work' = [work EXCEPT !.V = Blend(work.V, call)]
        /\ gen' = [data |-> Blend(work.V, call), block |-> 1]
        /\ pc' = "hashgen"
    BY <1>10 DEF GenerateBlend, StartHashgen, Continue, Goto, Generating
  <2>2. HasAdditional(call) /\ work.V = before.V /\ output = CallerBuffer
    BY <2>1 DEF Streamed
  <2>3. work'.V = Blend(work.V, call) BY <2>1 DEF TypeOK
  <2>4. work'.V = WorkingV(before.V, call) BY <2>2, <2>3 DEF WorkingV
  <2>5. 1 \in 1 .. BlockOf(call.output_len)
    BY <2>1, RequestLength, BlocksInOrder, BuffersAssumption
  <2>6. gen'.data = IncrementBy(work'.V, 1 - 1)
    BY <2>1, <2>3, IncrementByUnfolds
  <2>7. \A i \in 1 .. MaxBytes + 2 : ~(BlockOf(i) < 1)
    BY BlocksInOrder, BuffersAssumption
  <2>8. Delivered(1)' BY <2>1, <2>2, <2>7 DEF Delivered, CallerBuffer
  <2> QED
    BY <2>1, <2>4, <2>5, <2>6, <2>8
    DEF Streamed, OutputAllOrNothing, Generating
<1>11. CASE HashgenRound BY <1>11, StreamedRound
<1>12. CASE GenerateSucceeds
  <2>1. DOMAIN output = 1 .. MaxBytes + 2 BY DEF TypeOK, IsBytes
  <2>2. OutputAllOrNothing'
    BY <1>12, <2>1, StreamedSuccess DEF OutputAllOrNothing
  <2> QED BY <1>12, <2>2, StreamedSuccess DEF Streamed, Generating
<1>13. CASE GenerateFails BY <1>13, StreamedFailure
<1> QED
  BY <1>2, <1>3, <1>4, <1>5, <1>6, <1>7, <1>8, <1>9, <1>10, <1>11, <1>12,
     <1>13
  DEF Next, Derivation, Generation, Fault

(* Of the caller's buffer a success filled exactly the requested bytes,    *)
(* with the stream of the state the call found; a failure, wherever it     *)
(* came, left every requested byte untouched or every one zero.            *)
THEOREM OutputIsWhole == Spec => []OutputAllOrNothing
<1>1. Init => Streamed
  BY DEF Init, Streamed, OutputAllOrNothing, Generating
<1>2. Init => ContextKept
  BY DEF Init, ContextKept, FailedCallKeepsState, Failed, NoReply, Reply
<1>3. Streamed => OutputAllOrNothing BY DEF Streamed
<1> QED
  BY <1>1, <1>2, <1>3, TypeCorrect, ContextKeptStep, StreamedStep, PTL DEF Spec

-----------------------------------------------------------------------------
(* The refinement.  A derivation under way is tied to the state the call   *)
(* found: which call it is, what it derives from, and how much of the old  *)
(* value it has overwritten.                                               *)

(* How many digests hash_df has copied to its target. *)
Copied == IF pc = "df_done" THEN BlockOf(SeedBytes) ELSE df.block - 1

(* An instantiation derives over what the context held: V first, then C.   *)
InstantiateUnderWay ==
    /\ ~InstantiateInvalid(call)
    /\ \E m \in SeedMaterials(call) :
           IF df.target = "V"
           THEN /\ df.input = m
                /\ ctx.V = Overwritten(before.V, HashDf(m), Copied)
                /\ ctx.C = before.C
           ELSE /\ ctx.V = HashDf(m)
                /\ ctx.C = Overwritten(before.C, HashDf(df.input), Copied)

(* A reseed derives into temporaries, from the V the call found. *)
ReseedUnderWay ==
    /\ ~ReseedInvalid(call)
    /\ LET material == ReseedMaterial(before.V, call)
       IN  IF df.target = "V" THEN df.input = material
                              ELSE work.V = HashDf(material)

Seeding ==
    Deriving =>
        /\ df.block \in 1 .. BlockOf(SeedBytes)
        /\ call.op = "instantiate" => InstantiateUnderWay
        /\ call.op = "reseed" => ReseedUnderWay

(* Overwriting with all its digests makes a target the derived string.     *)
LEMMA OverwrittenWhole ==
    ASSUME NEW old, NEW input
    PROVE  Overwritten(old, HashDf(input), BlockOf(SeedBytes)) = HashDf(input)
<1>1. \A i \in 1..SeedBytes : BlockOf(i) <= BlockOf(SeedBytes)
  BY BlocksInOrder, SizesAssumption
<1> QED BY <1>1 DEF Overwritten, HashDf

(* Overwriting with none of them leaves it alone. *)
LEMMA OverwrittenNot ==
    ASSUME NEW old, IsBytes(old, SeedBytes), NEW new
    PROVE  Overwritten(old, new, 0) = old
<1>1. \A i \in 1..SeedBytes : ~(BlockOf(i) <= 0)
  BY BlocksInOrder, SizesAssumption
<1> QED BY <1>1 DEF Overwritten, IsBytes

(* A round of hash_df overwrites its target by one more digest. *)
LEMMA OverwrittenMore ==
    ASSUME NEW old, NEW input, NEW block \in Nat \ {0}
    PROVE  CopyDigest(Overwritten(old, HashDf(input), block - 1), SeedBytes,
                      block, Sha256(DfInput(block, input)))
             = Overwritten(old, HashDf(input), block)
<1> DEFINE dest == Overwritten(old, HashDf(input), block - 1)
           digest == Sha256(DfInput(block, input))
<1>1. \A i \in 1..SeedBytes : BlockOf(i) \in Nat /\ i <= SeedBytes
  BY BlocksInOrder, SizesAssumption
<1>2. dest = [i \in 1..SeedBytes |-> IF BlockOf(i) <= block - 1
                                     THEN HashDf(input)[i] ELSE old[i]]
  BY DEF Overwritten
<1>3. \A i \in 1..SeedBytes :
          HashDf(input)[i] = Sha256(DfInput(BlockOf(i), input))[OffsetOf(i)]
  BY DEF HashDf
<1>4. CopyDigest(dest, SeedBytes, block, digest)
        = [i \in 1..SeedBytes |-> IF BlockOf(i) = block
                                  THEN digest[OffsetOf(i)] ELSE dest[i]]
  BY <1>1, <1>2 DEF CopyDigest
<1>5. ASSUME NEW i \in 1..SeedBytes
      PROVE  (IF BlockOf(i) = block THEN digest[OffsetOf(i)] ELSE dest[i])
             = IF BlockOf(i) <= block THEN HashDf(input)[i] ELSE old[i]
  <2>1. dest[i] = IF BlockOf(i) <= block - 1
                  THEN HashDf(input)[i] ELSE old[i]
    BY <1>2
  <2> HIDE DEF dest
  <2>2. CASE BlockOf(i) = block
    <3>1. HashDf(input)[i] = digest[OffsetOf(i)] BY <1>3, <2>2
    <3> QED BY <2>2, <3>1
  <2>3. CASE BlockOf(i) # block BY <1>1, <2>1, <2>3
  <2> QED BY <2>2, <2>3
<1> QED BY <1>4, <1>5 DEF Overwritten

(* What is known of a derivation under way when it takes a step. *)
LEMMA DerivingCalls ==
    ASSUME TypeOK, Deriving
    PROVE  \/ call \in InstantiateCalls /\ call.op = "instantiate"
           \/ call \in ReseedCalls /\ call.op = "reseed"
BY CallsAssumption DEF TypeOK, Deriving, InstantiateCall, ReseedCall

(* A round of hash_df keeps Seeding. *)
LEMMA SeedingRound ==
    ASSUME TypeOK, Seeding, DfRound
    PROVE  Seeding'
<1> DEFINE digest == Sha256(DfInput(df.block, df.input))
           copied(dest) == CopyDigest(dest, SeedBytes, df.block, digest)
<1>1. /\ pc = "df_round" /\ Deriving
      /\ df.block \in 1 .. BlockOf(SeedBytes)
      /\ BlockOf(SeedBytes) \in Nat
  BY BlocksInOrder, SizesAssumption DEF DfRound, Deriving, Seeding
<1>2. UNCHANGED <<call, before>> BY DEF DfRound, Continue
<1>3. /\ df'.target = df.target /\ df'.input = df.input
      /\ df'.block \in 1 .. BlockOf(SeedBytes)
      /\ Copied' = df.block
  <2>1. CASE df.block < BlockOf(SeedBytes)
    BY <1>1, <2>1 DEF DfRound, NextBlock, Goto, Copied, TypeOK
  <2>2. CASE ~(df.block < BlockOf(SeedBytes))
    BY <1>1, <2>2 DEF DfRound, Goto, Copied
  <2> QED BY <2>1, <2>2
<1>4. ASSUME call.op = "instantiate" PROVE InstantiateUnderWay'
  <2>1. InstantiateUnderWay /\ Copied = df.block - 1
    BY <1>1, <1>4 DEF Seeding, Copied
  <2>2. ctx' = [ctx EXCEPT ![df.target] = copied(ctx[df.target])]
    BY <1>4 DEF DfRound, DerivesInPlace
  <2>3. PICK m \in SeedMaterials(call) :
            IF df.target = "V"
            THEN /\ df.input = m
                 /\ ctx.V = Overwritten(before.V, HashDf(m), df.block - 1)
                 /\ ctx.C = before.C
            ELSE /\ ctx.V = HashDf(m)
                 /\ ctx.C = Overwritten(before.C, HashDf(df.input), df.block - 1)
    BY <2>1 DEF InstantiateUnderWay
  <2>4. CASE df.target = "V"
    <3>1. ctx'.V = copied(ctx.V) /\ ctx'.C = ctx.C
      BY <2>2, <2>4 DEF TypeOK
    <3>2. ctx'.V = Overwritten(before.V, HashDf(m), df.block)
      BY <1>1, <2>3, <2>4, <3>1, OverwrittenMore
    <3> QED BY <1>2, <1>3, <2>1, <2>3, <2>4, <3>1, <3>2
            DEF InstantiateUnderWay
  <2>5. CASE df.target = "C"
    <3>1. ctx'.C = copied(ctx.C) /\ ctx'.V = ctx.V
      BY <2>2, <2>5 DEF TypeOK
    <3>2. ctx'.C = Overwritten(before.C, HashDf(df.input), df.block)
      BY <1>1, <2>3, <2>5, <3>1, OverwrittenMore
    <3> QED BY <1>2, <1>3, <2>1, <2>3, <2>5, <3>1, <3>2
            DEF InstantiateUnderWay
  <2> QED BY <2>4, <2>5 DEF TypeOK
<1>5. ASSUME call.op = "reseed" PROVE ReseedUnderWay'
  <2>1. ReseedUnderWay BY <1>1, <1>5 DEF Seeding
  <2>2. work' = [work EXCEPT ![df.target] = copied(work[df.target])]
    BY <1>5 DEF DfRound, DerivesInPlace
  <2>3. df.target = "C" => work'.V = work.V BY <2>2 DEF TypeOK
  <2> QED BY <1>2, <1>3, <2>1, <2>3 DEF ReseedUnderWay, TypeOK
<1> QED BY <1>2, <1>3, <1>4, <1>5 DEF Seeding

(* V is derived, and C is next. *)
LEMMA SeedingTurns ==
    ASSUME TypeOK, ContextKept, Matched, Seeding, SeedDerived
    PROVE  Seeding'
<1>1. /\ pc = "df_done" /\ Deriving /\ df.target = "V"
      /\ 1 \in 1 .. BlockOf(SeedBytes)
  BY BlocksInOrder, SizesAssumption DEF SeedDerived, Deriving
<1>2. /\ df'.target = "C" /\ df'.block = 1 /\ pc' = "df_alloc"
      /\ UNCHANGED <<ctx, work, call, before>>
  BY DEF SeedDerived, StartDf, Goto, Continue
<1>3. Copied = BlockOf(SeedBytes) /\ Copied' = 0 BY <1>1, <1>2 DEF Copied
<1>4. ASSUME call.op = "instantiate" PROVE InstantiateUnderWay'
  <2>1. PICK m \in SeedMaterials(call) :
            /\ df.input = m
            /\ ctx.V = Overwritten(before.V, HashDf(m), BlockOf(SeedBytes))
            /\ ctx.C = before.C
    BY <1>1, <1>3, <1>4 DEF Seeding, InstantiateUnderWay
  <2>2. ctx.V = HashDf(m) BY <2>1, OverwrittenWhole
  <2>3. ctx.C = Overwritten(before.C, HashDf(df'.input), 0)
    BY <2>1, OverwrittenNot DEF TypeOK
  <2> QED BY <1>1, <1>2, <1>3, <1>4, <2>2, <2>3
          DEF Seeding, InstantiateUnderWay
<1>5. ASSUME call.op = "reseed" PROVE ReseedUnderWay'
  <2>1. ReseedUnderWay /\ df.input = ReseedMaterial(before.V, call)
    BY <1>1, <1>5 DEF Seeding, ReseedUnderWay
  <2>2. \A i \in 1..SeedBytes : work.V[i] = HashDf(df.input)[i]
    BY <1>1, <1>5 DEF Matched, Derived, DerivesInPlace
  <2>3. work.V = [i \in 1..SeedBytes |-> work.V[i]]
    BY DEF TypeOK, IsBytes
  <2>4. HashDf(df.input) = [i \in 1..SeedBytes |-> HashDf(df.input)[i]]
    BY DEF HashDf
  <2>5. work.V = HashDf(df.input) BY <2>2, <2>3, <2>4
  <2> QED BY <1>2, <2>1, <2>5 DEF ReseedUnderWay
<1> QED BY <1>1, <1>2, <1>4, <1>5 DEF Seeding

(* Seeding is inductive. *)
LEMMA SeedingStep ==
    TypeOK /\ ContextKept /\ Matched /\ Seeding /\ [Next]_vars => Seeding'
<1> SUFFICES ASSUME TypeOK, ContextKept, Matched, Seeding, [Next]_vars
             PROVE  Seeding'
  OBVIOUS
<1>1. /\ \A c \in InstantiateCalls : c.op = "instantiate"
      /\ \A c \in ReseedCalls : c.op = "reseed"
  BY CallsAssumption DEF InstantiateCall, ReseedCall
<1>2. 1 \in 1 .. BlockOf(SeedBytes) BY BlocksInOrder, SizesAssumption
<1>3. CASE UNCHANGED vars
  BY <1>3 DEF vars, locals, Seeding, Deriving, InstantiateUnderWay,
              ReseedUnderWay, Copied
<1>4. CASE InstantiateRejected \/ ReseedRejected \/ GenerateRejected
           \/ GenerateUnprepared \/ Uninstantiate
  BY <1>4
  DEF InstantiateRejected, ReseedRejected, GenerateRejected,
      GenerateUnprepared, Uninstantiate, Return, Seeding, Deriving
<1>5. CASE InstantiateBegins
  <2>1. PICK c \in InstantiateCalls :
            /\ call' = c /\ before' = ctx /\ ~InstantiateInvalid(c)
            /\ \E m \in SeedMaterials(c) :
                   df' = [target |-> "V", input |-> m, block |-> 1]
            /\ pc' = "df_alloc" /\ UNCHANGED ctx
    BY <1>5 DEF InstantiateBegins, Begin, StartDf, Goto
  <2> PICK m \in SeedMaterials(c) :
          df' = [target |-> "V", input |-> m, block |-> 1]
    BY <2>1
  <2>2. Copied' = 0 BY <2>1 DEF Copied
  <2>3. ctx'.V = Overwritten(before'.V, HashDf(m), 0)
    BY <2>1, OverwrittenNot DEF TypeOK
  <2>4. InstantiateUnderWay' BY <2>1, <2>2, <2>3 DEF InstantiateUnderWay
  <2> QED BY <1>1, <1>2, <2>1, <2>4 DEF Seeding
<1>6. CASE ReseedBegins
  <2>1. PICK c \in ReseedCalls :
            /\ call' = c /\ before' = ctx /\ ~ReseedInvalid(c)
            /\ df' = [target |-> "V", input |-> ReseedMaterial(ctx.V, c),
                      block |-> 1]
            /\ pc' = "df_alloc" /\ UNCHANGED ctx
    BY <1>6 DEF ReseedBegins, Begin, StartDf, Goto
  <2>2. ReseedUnderWay' BY <2>1 DEF ReseedUnderWay
  <2> QED BY <1>1, <1>2, <2>1, <2>2 DEF Seeding
<1>7. CASE DfAlloc
  <2>1. /\ pc = "df_alloc" /\ pc' = "df_round"
        /\ UNCHANGED <<ctx, work, df, call, before>>
    BY <1>7 DEF DfAlloc, Goto, Continue
  <2>2. Copied' = Copied BY <2>1 DEF Copied
  <2> QED BY <2>1, <2>2 DEF Seeding, Deriving, InstantiateUnderWay,
                            ReseedUnderWay
<1>8. CASE DfRound BY <1>8, SeedingRound
<1>9. CASE SeedDerived BY <1>9, SeedingTurns
<1>10. CASE GenerateBegins \/ GenerateBlend \/ HashgenRound
  BY <1>10
  DEF GenerateBegins, GenerateBlend, HashgenRound, Goto, Seeding, Deriving
<1>11. CASE InstantiateSucceeds \/ ReseedSucceeds \/ GenerateSucceeds
            \/ DfAllocFails \/ DfRoundFails \/ GenerateFails
  BY <1>11
  DEF InstantiateSucceeds, ReseedSucceeds, GenerateSucceeds, DfAllocFails,
      DfRoundFails, DfGivesUp, GenerateFails, Return, Seeding, Deriving
<1> QED
  BY <1>3, <1>4, <1>5, <1>6, <1>7, <1>8, <1>9, <1>10, <1>11
  DEF Next, Derivation, Generation, Fault

-----------------------------------------------------------------------------
(* HashDrbg implements DrbgMechanism.  A call is answered by the step that *)
(* returns; the steps before it are hidden by what the caller can see.     *)

(* Any seed material is possible, whatever the heap held. *)
LEMMA SeedMaterialsExist == ASSUME NEW c PROVE SeedMaterials(c) # {}
<1> DEFINE written == c.entropy.data \o c.nonce.data \o c.personalization.data
           len     == c.entropy.len + c.nonce.len + c.personalization.len
           tails   == [1 .. len - Len(written) -> StaleBytes]
           tail    == [i \in 1 .. len - Len(written) |->
                          CHOOSE b \in StaleBytes : TRUE]
<1>1. tail \in tails BY StaleBytesAssumption
<1>2. written \o tail \in SeedMaterials(c) BY <1>1 DEF SeedMaterials
<1> QED BY <1>2

(* A failed instantiation may have overwritten V in part, or not at all;   *)
(* or V, and C in part.                                                    *)
LEMMA TornInV ==
    ASSUME NEW s, s = [V |-> s.V, C |-> s.C], NEW c, NEW m \in SeedMaterials(c),
           NEW n \in 0 .. BlockOf(SeedBytes)
    PROVE  [V |-> Overwritten(s.V, HashDf(m), n), C |-> s.C] \in Torn(s, c)
<1>1. SeededBy(HashDf(m)) \in Seeds(c) BY DEF Seeds
<1>2. SeededBy(HashDf(m)).V = HashDf(m) BY DEF SeededBy
<1>3. [s EXCEPT !.V = Overwritten(s.V, HashDf(m), n)]
        = [V |-> Overwritten(s.V, HashDf(m), n), C |-> s.C]
  OBVIOUS
<1>4. [s EXCEPT !.V = Overwritten(s.V, HashDf(m), n)] \in Torn(s, c)
  BY <1>1, <1>2 DEF Torn
<1> QED BY <1>3, <1>4

LEMMA TornInC ==
    ASSUME NEW s, NEW c, NEW m \in SeedMaterials(c),
           NEW n \in 0 .. BlockOf(SeedBytes) - 1
    PROVE  [V |-> HashDf(m),
            C |-> Overwritten(s.C, HashDf(<<0>> \o HashDf(m)), n)] \in Torn(s, c)
<1> DEFINE new == SeededBy(HashDf(m))
<1>1. new \in Seeds(c) BY DEF Seeds
<1>2. new.V = HashDf(m) /\ new.C = HashDf(<<0>> \o HashDf(m)) BY DEF SeededBy
<1>3. BlockOf(SeedBytes) \in Nat BY BlocksInOrder, SizesAssumption
<1>4. n \in (0 .. BlockOf(SeedBytes)) \ {BlockOf(SeedBytes)} BY <1>3
<1> HIDE DEF new
<1>5. [V |-> new.V, C |-> Overwritten(s.C, new.C, n)] \in Torn(s, c)
  BY <1>1, <1>4 DEF Torn
<1> QED BY <1>2, <1>5

LEMMA TornNot ==
    ASSUME NEW s, s = [V |-> s.V, C |-> s.C], IsBytes(s.V, SeedBytes), NEW c
    PROVE  s \in Torn(s, c)
<1> PICK m \in SeedMaterials(c) : TRUE BY SeedMaterialsExist
<1>1. 0 \in 0 .. BlockOf(SeedBytes) BY BlocksInOrder, SizesAssumption
<1>2. [V |-> Overwritten(s.V, HashDf(m), 0), C |-> s.C] \in Torn(s, c)
  BY <1>1, TornInV
<1> QED BY <1>2, OverwrittenNot

(* The steps inside a call, and the one that makes it, are not seen. *)
LEMMA HiddenSteps ==
    ASSUME \/ InstantiateBegins \/ ReseedBegins \/ GenerateBegins
           \/ DfAlloc \/ DfRound \/ SeedDerived \/ GenerateBlend \/ HashgenRound
    PROVE  UNCHANGED Promise!vars
<1>1. UNCHANGED <<Visible, reply>>
  <2>1. CASE InstantiateBegins \/ ReseedBegins \/ GenerateBegins
    <3>1. /\ pc = "idle" /\ pc' # "idle" /\ before' = ctx /\ UNCHANGED reply
      BY <2>1
      DEF InstantiateBegins, ReseedBegins, GenerateBegins, Begin, Goto
    <3> QED BY <3>1 DEF Visible
  <2>2. CASE DfAlloc \/ DfRound \/ SeedDerived \/ GenerateBlend \/ HashgenRound
    <3>1. /\ pc # "idle" /\ pc' # "idle" /\ UNCHANGED <<before, reply>>
      BY <2>2
      DEF DfAlloc, DfRound, SeedDerived, GenerateBlend, HashgenRound, Goto,
          Continue
    <3> QED BY <3>1 DEF Visible
  <2> QED BY <2>1, <2>2
<1> QED BY <1>1 DEF Promise!vars

(* The call c is turned down, or fails, with nothing changed. *)
Refused(c, status) ==
    /\ Visible' = Visible
    /\ reply' = Reply(c.op, status, <<>>)

(* Such a call is a failure of DrbgMechanism. *)
LEMMA RefusedFails ==
    ASSUME NEW c, NEW status, Refused(c, status)
    PROVE  Promise!Fails(c, status)
BY DEF Refused, Promise!Fails, Promise!Reply, Reply

(* Each step that returns is a step of DrbgMechanism. *)
LEMMA InstantiateRejectedAnswers ==
    ASSUME TypeOK, InstantiateRejected
    PROVE  Promise!Next
<1>1. PICK c \in InstantiateCalls :
          /\ pc = "idle" /\ pc' = "idle" /\ UNCHANGED ctx /\ call' = c
          /\ \/ InstantiateInvalid(c) /\ Return("INVALID_ARGUMENT")
             \/ ~InstantiateInvalid(c) /\ Return("MEMORY_ERROR")
  BY DEF InstantiateRejected, Begin, Return
<1>2. Visible = ctx /\ Visible' = ctx BY <1>1 DEF Visible
<1>3. CASE InstantiateInvalid(c)
  <2>1. Refused(c, "INVALID_ARGUMENT") BY <1>1, <1>2, <1>3 DEF Refused, Return
  <2> QED BY <1>3, <2>1, RefusedFails
          DEF Promise!Next, Promise!Instantiate, MayInstantiate
<1>4. CASE ~InstantiateInvalid(c)
  <2>1. Refused(c, "MEMORY_ERROR") BY <1>1, <1>2, <1>4 DEF Refused, Return
  <2>2. Promise!Fails(c, "MEMORY_ERROR") BY <2>1, RefusedFails
  <2>3. State(Visible)' \in Torn(State(Visible), c)
    <3>1. State(ctx) \in Torn(State(ctx), c)
      <4>1. /\ State(ctx) = [V |-> State(ctx).V, C |-> State(ctx).C]
            /\ State(ctx).V = ctx.V
        BY DEF State
      <4> QED BY <4>1, TornNot DEF TypeOK
    <3> QED BY <1>2, <3>1
  <2>4. /\ reply' \in {Promise!Reply(c.op, s, <<>>) : s \in HashFault}
        /\ UNCHANGED Visible.reseed_counter
    BY <2>2 DEF Promise!Fails, HashFault
  <2> QED BY <1>4, <2>3, <2>4
          DEF Promise!Next, Promise!Instantiate, MayInstantiate
<1> QED BY <1>3, <1>4

LEMMA ReseedRejectedAnswers ==
    ASSUME TypeOK, ReseedRejected
    PROVE  Promise!Next
<1>1. PICK c \in ReseedCalls :
          /\ pc = "idle" /\ pc' = "idle" /\ UNCHANGED ctx /\ call' = c
          /\ \/ ReseedInvalid(c) /\ Return("INVALID_ARGUMENT")
             \/ ~ReseedInvalid(c) /\ Return("MEMORY_ERROR")
  BY DEF ReseedRejected, Begin, Return
<1>2. Visible = ctx /\ Visible' = ctx BY <1>1 DEF Visible
<1>3. CASE ReseedInvalid(c)
  <2>1. Refused(c, "INVALID_ARGUMENT") BY <1>1, <1>2, <1>3 DEF Refused, Return
  <2> QED BY <1>3, <2>1, RefusedFails
          DEF Promise!Next, Promise!Reseed, MayReseed
<1>4. CASE ~ReseedInvalid(c)
  <2>1. Refused(c, "MEMORY_ERROR") BY <1>1, <1>2, <1>4 DEF Refused, Return
  <2>2. "MEMORY_ERROR" \in HashFault BY DEF HashFault
  <2> QED BY <1>4, <2>1, <2>2, RefusedFails
          DEF Promise!Next, Promise!Reseed, MayReseed
<1> QED BY <1>3, <1>4

LEMMA GenerateRefusedAnswers ==
    ASSUME TypeOK, GenerateRejected \/ GenerateUnprepared
    PROVE  Promise!Next
<1>1. PICK c \in GenerateCalls :
          /\ pc = "idle" /\ pc' = "idle" /\ UNCHANGED ctx /\ call' = c
          /\ \/ GenerateInvalid(c) /\ Return("INVALID_ARGUMENT")
             \/ /\ ~GenerateInvalid(c) /\ ReseedRequired(ctx.reseed_counter)
                /\ Return("RESEED_REQUIRED")
             \/ /\ ~GenerateInvalid(c) /\ ~ReseedRequired(ctx.reseed_counter)
                /\ Return(IF AdditionalTooLong(c) THEN "INVALID_ARGUMENT"
                                                  ELSE "MEMORY_ERROR")
  <2>1. CASE GenerateRejected BY <2>1 DEF GenerateRejected, Begin, Return
  <2>2. CASE GenerateUnprepared BY <2>2 DEF GenerateUnprepared, Begin, Return
  <2> QED BY <2>1, <2>2
<1>2. Visible = ctx /\ Visible' = ctx BY <1>1 DEF Visible
<1>3. ASSUME NEW status, status # "SUCCESS", Return(status)
      PROVE  Promise!Fails(c, status)
  <2>1. Refused(c, status) BY <1>1, <1>2, <1>3 DEF Refused, Return
  <2> QED BY <2>1, RefusedFails
<1>4. /\ Visible.reseed_counter \in Nat /\ ReseedInterval \in Nat
      /\ ReseedRequired(ctx.reseed_counter)
           <=> Visible.reseed_counter > ReseedInterval
      /\ ~ReseedRequired(ctx.reseed_counter)
           <=> Visible.reseed_counter <= ReseedInterval
  BY <1>2, SizesAssumption DEF ReseedRequired, TypeOK
<1>5. CASE GenerateInvalid(c)
  <2>1. Promise!Fails(c, "INVALID_ARGUMENT") BY <1>1, <1>3, <1>5
  <2> QED BY <1>5, <2>1 DEF Promise!Next, Promise!Generate, MayGenerate
<1>6. CASE ~GenerateInvalid(c) /\ ReseedRequired(ctx.reseed_counter)
  <2>1. Promise!Fails(c, "RESEED_REQUIRED") BY <1>1, <1>3, <1>6
  <2> QED BY <1>4, <1>6, <2>1 DEF Promise!Next, Promise!Generate, MayGenerate
<1>7. CASE ~GenerateInvalid(c) /\ ~ReseedRequired(ctx.reseed_counter)
  <2>1. CASE AdditionalTooLong(c)
    <3>1. Promise!Fails(c, "INVALID_ARGUMENT") BY <1>1, <1>3, <1>7, <2>1
    <3> QED BY <1>4, <1>7, <2>1, <3>1
            DEF Promise!Next, Promise!Generate, MayGenerate
  <2>2. CASE ~AdditionalTooLong(c)
    <3>1. Promise!Fails(c, "MEMORY_ERROR") BY <1>1, <1>3, <1>7, <2>2
    <3>2. "MEMORY_ERROR" \in HashFault BY DEF HashFault
    <3> QED BY <1>4, <1>7, <2>2, <3>1, <3>2
            DEF Promise!Next, Promise!Generate, MayGenerate
  <2> QED BY <2>1, <2>2
<1> QED BY <1>5, <1>6, <1>7

LEMMA UninstantiateAnswers ==
    ASSUME TypeOK, Uninstantiate
    PROVE  Promise!Next
<1>1. PICK c \in UninstantiateCalls :
          /\ pc = "idle" /\ pc' = "idle" /\ call' = c
          /\ IF c.ctx THEN ctx' = ZeroCtx ELSE ctx' = ctx
          /\ Return("SUCCESS")
  BY DEF Uninstantiate, Begin, Return
<1>2. c.op # "generate" BY CallsAssumption DEF UninstantiateCall
<1>3. reply' = Promise!Reply(c.op, "SUCCESS", <<>>)
  BY <1>1, <1>2 DEF Return, Reply, Promise!Reply
<1>4. Visible = ctx /\ Visible' = ctx' BY <1>1 DEF Visible
<1>5. IF c.ctx THEN /\ State(Visible)' = State(ZeroCtx)
                    /\ Visible'.reseed_counter = 0
               ELSE UNCHANGED <<State(Visible), Visible.reseed_counter>>
  BY <1>1, <1>4 DEF State, ZeroCtx
<1> QED BY <1>3, <1>5 DEF Promise!Next, Promise!Uninstantiate

(* A derivation that fails under way. *)
LEMMA DerivationFailureAnswers ==
    ASSUME TypeOK, ContextKept, Matched, Seeding, DfAllocFails \/ DfRoundFails
    PROVE  Promise!Next
<1>1. /\ pc \in {"df_alloc", "df_round"} /\ pc' = "idle"
      /\ UNCHANGED <<call, ctx>>
      /\ \E s \in HashFault : reply' = Promise!Reply(call.op, s, <<>>)
  BY DEF DfAllocFails, DfRoundFails, DfGivesUp, Return, Continue, HashFault,
         Reply, Promise!Reply
<1>2. /\ Deriving /\ Visible = before /\ Visible' = ctx
      /\ UNCHANGED Visible.reseed_counter
  BY <1>1 DEF Deriving, Visible, ContextKept
<1>3. CASE call \in InstantiateCalls /\ call.op = "instantiate"
  <2>1. InstantiateUnderWay /\ df.block \in 1 .. BlockOf(SeedBytes)
    BY <1>2, <1>3 DEF Seeding
  <2>2. /\ df.block - 1 \in 0 .. BlockOf(SeedBytes) - 1
        /\ df.block - 1 \in 0 .. BlockOf(SeedBytes)
        /\ Copied = df.block - 1
    BY <1>1, <2>1, BlocksInOrder, SizesAssumption DEF Copied
  <2>3. PICK m \in SeedMaterials(call) :
            IF df.target = "V"
            THEN /\ df.input = m
                 /\ ctx.V = Overwritten(before.V, HashDf(m), df.block - 1)
                 /\ ctx.C = before.C
            ELSE /\ ctx.V = HashDf(m)
                 /\ ctx.C = Overwritten(before.C, HashDf(df.input), df.block - 1)
    BY <2>1, <2>2 DEF InstantiateUnderWay
  <2>4. State(ctx) \in Torn(State(before), call)
    <3>1. /\ State(before) = [V |-> State(before).V, C |-> State(before).C]
          /\ State(before).V = before.V /\ State(before).C = before.C
      BY DEF State
    <3>2. CASE df.target = "V"
      <4>1. State(ctx) = [V |-> Overwritten(before.V, HashDf(m), df.block - 1),
                          C |-> before.C]
        BY <2>3, <3>2 DEF State
      <4> QED BY <2>2, <3>1, <4>1, TornInV
    <3>3. CASE df.target = "C"
      <4>1. df.input = <<0>> \o ctx.V
        BY <1>2, <1>3, <3>3 DEF Matched, Derived, DerivesInPlace
      <4>2. State(ctx) = [V |-> HashDf(m),
                          C |-> Overwritten(before.C,
                                            HashDf(<<0>> \o HashDf(m)),
                                            df.block - 1)]
        BY <2>3, <3>3, <4>1 DEF State
      <4> QED BY <2>2, <3>1, <4>2, TornInC
    <3> QED BY <3>2, <3>3 DEF TypeOK
  <2> QED
    BY <1>1, <1>2, <1>3, <2>1, <2>4
    DEF Promise!Next, Promise!Instantiate, MayInstantiate, InstantiateUnderWay
<1>4. CASE call \in ReseedCalls /\ call.op = "reseed"
  <2>1. ~ReseedInvalid(call) BY <1>2, <1>4 DEF Seeding, ReseedUnderWay
  <2>2. ctx = before BY <1>1, <1>4 DEF ContextKept
  <2>3. \E s \in HashFault : Promise!Fails(call, s)
    BY <1>1, <1>2, <2>2 DEF Promise!Fails
  <2> QED BY <1>4, <2>1, <2>3 DEF Promise!Next, Promise!Reseed, MayReseed
<1> QED BY <1>2, <1>3, <1>4, DerivingCalls

LEMMA InstantiateSucceedsAnswers ==
    ASSUME TypeOK, Matched, Seeding, InstantiateSucceeds
    PROVE  Promise!Next
<1>1. /\ pc = "df_done" /\ df.target = "C" /\ call.op = "instantiate"
      /\ pc' = "idle" /\ UNCHANGED call /\ Deriving
      /\ ctx' = [ctx EXCEPT !.reseed_counter = 1]
      /\ reply' = Promise!Reply(call.op, "SUCCESS", <<>>)
  BY DEF InstantiateSucceeds, Return, Continue, Deriving, Reply, Promise!Reply
<1>2. call \in InstantiateCalls BY <1>1, DerivingCalls
<1>3. InstantiateUnderWay BY <1>1 DEF Seeding
<1>4. PICK m \in SeedMaterials(call) : ctx.V = HashDf(m)
  BY <1>1, <1>3 DEF InstantiateUnderWay
<1>5. ctx.C = HashDf(<<0>> \o ctx.V)
  BY <1>1, DerivedConstant DEF Derived, DerivesInPlace
<1>6. Visible' = ctx' /\ ctx'.V = ctx.V /\ ctx'.C = ctx.C
      /\ ctx'.reseed_counter = 1
  BY <1>1 DEF Visible, TypeOK
<1>7. State(Visible)' = SeededBy(HashDf(m))
  BY <1>4, <1>5, <1>6 DEF State, SeededBy
<1>8. State(Visible)' \in Seeds(call) BY <1>7 DEF Seeds
<1> QED
  BY <1>1, <1>2, <1>3, <1>6, <1>8
  DEF Promise!Next, Promise!Instantiate, MayInstantiate, InstantiateUnderWay

LEMMA ReseedSucceedsAnswers ==
    ASSUME TypeOK, ContextKept, Matched, Seeding, ReseedSucceeds
    PROVE  Promise!Next
<1>1. /\ pc = "df_done" /\ df.target = "C" /\ call.op = "reseed"
      /\ pc' = "idle" /\ UNCHANGED call /\ Deriving
      /\ ctx' = AfterReseed(ctx, work)
      /\ reply' = Promise!Reply(call.op, "SUCCESS", <<>>)
  BY DEF ReseedSucceeds, Return, Continue, Deriving, Reply, Promise!Reply
<1>2. call \in ReseedCalls BY <1>1, DerivingCalls
<1>3. /\ ~ReseedInvalid(call)
      /\ work.V = HashDf(ReseedMaterial(before.V, call))
  BY <1>1 DEF Seeding, ReseedUnderWay
<1>4. work.C = HashDf(<<0>> \o work.V)
  BY <1>1, DerivedConstant DEF Derived, DerivesInPlace
<1>5. /\ Visible' = ctx' /\ Visible = before
      /\ ctx'.V = work.V /\ ctx'.C = work.C /\ ctx'.reseed_counter = 1
  BY <1>1 DEF Visible, AfterReseed, TypeOK
<1>6. State(Visible)' = Reseeded(State(Visible), call)
  BY <1>3, <1>4, <1>5 DEF State, SeededBy, Reseeded
<1> QED
  BY <1>1, <1>2, <1>3, <1>5, <1>6 DEF Promise!Next, Promise!Reseed, MayReseed

(* A generate that began was acceptable, and within the interval. *)
LEMMA GenerateMayAnswer ==
    ASSUME TypeOK, ContextKept, Counted, Streamed, Generating
    PROVE  /\ call \in GenerateCalls /\ call.op = "generate"
           /\ MayGenerate(call) /\ ~AdditionalTooLong(call)
           /\ Visible = ctx /\ ctx = before
           /\ Visible.reseed_counter <= ReseedInterval
<1>1. call \in GenerateCalls /\ call.op = "generate" BY RequestLength
<1>2. ctx = before /\ Visible = before
  BY <1>1 DEF Generating, ContextKept, Visible
<1> QED BY <1>1, <1>2 DEF Generating, Streamed, Counted, MayGenerate

LEMMA GenerateFailsAnswers ==
    ASSUME TypeOK, ContextKept, Counted, Streamed, GenerateFails
    PROVE  Promise!Next
<1>1. /\ Generating /\ pc' = "idle" /\ UNCHANGED <<call, ctx>>
      /\ \E s \in HashFault : reply' = Promise!Reply(call.op, s, <<>>)
  BY DEF GenerateFails, Generating, Return, Continue, HashFault, Reply,
         Promise!Reply
<1>2. Visible' = Visible BY <1>1, GenerateMayAnswer DEF Visible
<1>3. \E s \in HashFault : Promise!Fails(call, s)
  BY <1>1, <1>2 DEF Promise!Fails
<1> QED BY <1>1, <1>3, GenerateMayAnswer DEF Promise!Next, Promise!Generate

LEMMA GenerateSucceedsAnswers ==
    ASSUME TypeOK, ContextKept, Counted, Streamed, GenerateSucceeds
    PROVE  Promise!Next
<1> DEFINE len == call.output_len
<1>1. /\ pc = "advance" /\ Generating /\ pc' = "idle"
      /\ UNCHANGED <<call, output>>
      /\ ctx' = AfterGenerate(ctx, work.V)
  BY DEF GenerateSucceeds, Generating, Return, Continue
<1>2. /\ call \in GenerateCalls /\ call.op = "generate"
      /\ MayGenerate(call) /\ ~AdditionalTooLong(call)
      /\ Visible = ctx /\ ctx = before
      /\ Visible.reseed_counter <= ReseedInterval
  BY <1>1, GenerateMayAnswer
<1>3. len \in 1..MaxBytes BY <1>1, RequestLength
<1>4. SubSeq(output, 1, len) = Stream(State(Visible), call)
  <2>1. SubSeq(output, 1, len) = [i \in 1..len |-> output[i]]
    <3>1. len \in 1 .. MaxBytes + 2 /\ MaxBytes + 2 \in Nat
      BY <1>3, BuffersAssumption
    <3> QED BY <3>1, PrefixOfBytes DEF TypeOK
  <2>2. \A i \in 1..len :
            output[i] = Hashgen(WorkingV(before.V, call), len)[i]
    BY <1>3, StreamedSuccess, BuffersAssumption
  <2>3. Hashgen(WorkingV(before.V, call), len)
          = [i \in 1..len |-> Hashgen(WorkingV(before.V, call), len)[i]]
    BY DEF Hashgen
  <2>4. Stream(State(Visible), call) = Hashgen(WorkingV(before.V, call), len)
    BY <1>2 DEF Stream, State
  <2> QED BY <2>1, <2>2, <2>3, <2>4
<1>5. reply' = Promise!Reply(call.op, "SUCCESS", Stream(State(Visible), call))
  BY <1>1, <1>2, <1>4 DEF GenerateSucceeds, Return, Reply, Promise!Reply
<1>6. work.V = WorkingV(before.V, call) BY <1>1 DEF Streamed
<1>7. /\ Visible' = ctx' /\ ctx'.C = ctx.C
      /\ ctx'.V = AdvanceV(work.V, ctx.C, ctx.reseed_counter)
      /\ ctx'.reseed_counter = ctx.reseed_counter + 1
  BY <1>1 DEF Visible, AfterGenerate, TypeOK
<1>8. State(Visible)'
        = Advance(State(Visible), call, Visible.reseed_counter)
  BY <1>2, <1>6, <1>7 DEF State, Advance
<1> QED BY <1>2, <1>5, <1>7, <1>8 DEF Promise!Next, Promise!Generate

(* Every step is one of DrbgMechanism, or is hidden. *)
LEMMA EveryStepAnswers ==
    TypeOK /\ ContextKept /\ Counted /\ Matched /\ Streamed /\ Seeding
      /\ [Next]_vars
      => [Promise!Next]_(Promise!vars)
<1> SUFFICES ASSUME TypeOK, ContextKept, Counted, Matched, Streamed, Seeding,
                    [Next]_vars
             PROVE  Promise!Next \/ UNCHANGED Promise!vars
  OBVIOUS
<1>1. CASE UNCHANGED vars BY <1>1 DEF vars, Promise!vars, Visible
<1>2. CASE Next
  BY <1>2, HiddenSteps, InstantiateRejectedAnswers, ReseedRejectedAnswers,
     GenerateRefusedAnswers, UninstantiateAnswers, DerivationFailureAnswers,
     InstantiateSucceedsAnswers, ReseedSucceedsAnswers, GenerateFailsAnswers,
     GenerateSucceedsAnswers
  DEF Next, Derivation, Generation, Fault
<1> QED BY <1>1, <1>2

(* Every call of Hash_DRBG, whatever hash, sizes and calls, is the atomic  *)
(* call DrbgMechanism promises: the loops compute their closed forms, the  *)
(* failures leave the promised states, and no other step is visible.       *)
THEOREM PromiseIsKept == Spec => KeepsPromise
<1>1. Init => Promise!Init
  BY DEF Init, Promise!Init, Visible, ZeroCtx, NoReply, Reply,
         Promise!NoReply, Promise!Reply
<1>2. Init => ContextKept /\ Counted /\ Matched /\ Streamed /\ Seeding
  BY SizesAssumption
  DEF Init, ContextKept, FailedCallKeepsState, Failed, NoReply, Reply, Counted,
      ZeroCtx, Matched, Streamed, OutputAllOrNothing, Generating, Seeding,
      Deriving
<1> QED
  BY <1>1, <1>2, TypeCorrect, ContextKeptStep, CountedStep, MatchedStep,
     StreamedStep, SeedingStep, EveryStepAnswers, PTL
  DEF Spec, KeepsPromise, Promise!Spec

-----------------------------------------------------------------------------
(* The history of a context.  Walks is defined by recursion, and like      *)
(* IncrementBy it is unfolded by induction, here on the requests.          *)

(* The function that Walks reads its result from. *)
IsWalks(f, v, n) ==
    f = [k \in 0..n |-> IF k = 0 THEN {[state |-> SeededBy(v), served |-> <<>>]}
                                 ELSE Further(f[k - 1], k)]

(* It exists, for any number of requests. *)
LEMMA WalksExist ==
    ASSUME NEW v, NEW n \in Nat
    PROVE  \E f : IsWalks(f, v, n)
<1> DEFINE start == {[state |-> SeededBy(v), served |-> <<>>]}
           S == {m \in Nat : \E f : IsWalks(f, v, m)}
<1>1. 0 \in S
  <2>1. IsWalks([k \in 0..0 |-> start], v, 0) BY DEF IsWalks
  <2> QED BY <2>1
<1>2. ASSUME NEW m \in Nat, m \in S PROVE m + 1 \in S
  <2>1. PICK f : IsWalks(f, v, m) BY <1>2
  <2> DEFINE next == [k \in 0 .. m + 1 |->
                         IF k <= m THEN f[k] ELSE Further(f[m], m + 1)]
  <2>2. \A k \in 0..m : next[k] = f[k] BY <1>2
  <2>3. next[m + 1] = Further(f[m], m + 1) BY <1>2
  <2>4. \A k \in 0..m : f[k] = IF k = 0 THEN start ELSE Further(f[k - 1], k)
    BY <2>1 DEF IsWalks
  <2>5. DOMAIN next = 0 .. m + 1 /\ next = [k \in 0 .. m + 1 |-> next[k]]
    OBVIOUS
  <2> HIDE DEF next, start
  <2>6. ASSUME NEW k \in 0 .. m + 1
        PROVE  next[k] = IF k = 0 THEN start ELSE Further(next[k - 1], k)
    <3>1. CASE k \in 0..m
      <4>1. k = 0 \/ k - 1 \in 0..m BY <3>1
      <4> QED BY <2>2, <2>4, <3>1, <4>1
    <3>2. CASE k = m + 1
      <4>1. k # 0 /\ k - 1 = m /\ m \in 0..m BY <3>2
      <4> QED BY <2>2, <2>3, <3>2, <4>1
    <3> QED BY <3>1, <3>2
  <2>7. next = [k \in 0 .. m + 1 |->
                   IF k = 0 THEN start ELSE Further(next[k - 1], k)]
    BY <2>5, <2>6
  <2>8. IsWalks(next, v, m + 1) BY <2>7 DEF IsWalks, start
  <2> QED BY <2>8
<1> HIDE DEF S
<1>3. n \in S BY <1>1, <1>2, SetInduction
<1> QED BY <1>3 DEF S

(* Two such functions agree where both are defined. *)
LEMMA WalksAgree ==
    ASSUME NEW v, NEW n \in Nat, NEW m \in Nat, n <= m,
           NEW f, IsWalks(f, v, n), NEW g, IsWalks(g, v, m)
    PROVE  f[n] = g[n]
<1> DEFINE start == {[state |-> SeededBy(v), served |-> <<>>]}
           S == {k \in Nat : k <= n => f[k] = g[k]}
<1>1. \A k \in 0..n : /\ f[k] = IF k = 0 THEN start ELSE Further(f[k - 1], k)
                      /\ g[k] = IF k = 0 THEN start ELSE Further(g[k - 1], k)
  <2> TAKE k \in 0..n
  <2>1. k \in 0..m OBVIOUS
  <2>2. f[k] = IF k = 0 THEN start ELSE Further(f[k - 1], k) BY DEF IsWalks
  <2>3. g[k] = IF k = 0 THEN start ELSE Further(g[k - 1], k)
    BY <2>1 DEF IsWalks
  <2> QED BY <2>2, <2>3
<1> HIDE DEF start
<1>2. 0 \in S BY <1>1
<1>3. ASSUME NEW k \in Nat, k \in S PROVE k + 1 \in S
  <2> SUFFICES ASSUME k + 1 <= n PROVE f[k + 1] = g[k + 1] BY <1>3
  <2>1. f[k] = g[k] BY <1>3
  <2>2. k + 1 \in 0..n /\ k + 1 # 0 /\ (k + 1) - 1 = k BY <1>3
  <2> QED BY <1>1, <2>1, <2>2
<1> HIDE DEF S
<1>4. n \in S BY <1>2, <1>3, SetInduction
<1> QED BY <1>4 DEF S

(* So a history of n + 1 requests is one of n, and one more request. *)
LEMMA WalksUnfold ==
    ASSUME NEW v, NEW n \in Nat
    PROVE  /\ Walks(v, 0) = {[state |-> SeededBy(v), served |-> <<>>]}
           /\ Walks(v, n + 1) = Further(Walks(v, n), n + 1)
<1> DEFINE walks(m) == CHOOSE f : IsWalks(f, v, m)
<1>1. \A m \in Nat : Walks(v, m) = walks(m)[m] BY DEF Walks, IsWalks
<1>2. \A m \in Nat : IsWalks(walks(m), v, m) BY WalksExist
<1> HIDE DEF walks
<1>3. Walks(v, 0) = {[state |-> SeededBy(v), served |-> <<>>]}
  <2>1. walks(0) = [k \in 0..0 |->
                       IF k = 0 THEN {[state |-> SeededBy(v), served |-> <<>>]}
                                ELSE Further(walks(0)[k - 1], k)]
    BY <1>2 DEF IsWalks
  <2>2. 0 \in 0..0 OBVIOUS
  <2> QED BY <1>1, <2>1, <2>2
<1>4. Walks(v, n + 1) = Further(Walks(v, n), n + 1)
  <2>1. walks(n)[n] = walks(n + 1)[n] BY <1>2, WalksAgree
  <2>2. IsWalks(walks(n + 1), v, n + 1) BY <1>2
  <2>3. n + 1 \in 0 .. n + 1 /\ n + 1 # 0 /\ (n + 1) - 1 = n OBVIOUS
  <2>4. walks(n + 1)[n + 1] = Further(walks(n + 1)[n], n + 1)
    BY <2>2, <2>3 DEF IsWalks
  <2> QED BY <1>1, <2>1, <2>4
<1> QED BY <1>3, <1>4

LEMMA FurtherByOne ==
    ASSUME NEW walks, NEW w \in walks, NEW c \in Servable, NEW n
    PROVE  [state  |-> Advance(w.state, c, n),
            served |-> Append(w.served, Request(w.state, c))]
               \in Further(walks, n)
BY DEF Further

(* ContextIsWalked, also while a call is under way: only an instantiation  *)
(* touches the context before it commits, and by then the seed is gone.    *)
Walked ==
    seed # <<>> =>
        [state |-> State(ctx), served |-> served] \in Walks(seed, requests)

(* A context that was just seeded has served nothing. *)
LEMMA WalkedFromSeed ==
    ASSUME NEW v, SeededFrom(v), State(ctx') = SeededBy(v)
    PROVE  Walked'
<1>1. /\ seed' = v /\ requests' = 0 /\ served' = <<>>
  BY DEF SeededFrom
<1>2. [state |-> State(ctx'), served |-> <<>>] \in Walks(v, 0)
  BY WalksUnfold
<1> QED BY <1>1, <1>2 DEF Walked, State

(* A request that is served extends the history of its seed by one. *)
LEMMA WalkedFurther ==
    ASSUME TypeOK, ContextKept, Counted, Streamed, Walked, GenerateSucceeds,
           seed # <<>>
    PROVE  [state |-> State(ctx'), served |-> served']
               \in Walks(seed, requests + 1)
<1>1. /\ call \in Servable /\ ctx = before
      /\ ctx.reseed_counter = requests + 1 /\ requests \in Nat
  BY GenerateMayAnswer
  DEF GenerateSucceeds, Generating, Servable, MayGenerate, Counted, TypeOK
<1>2. work.V = WorkingV(ctx.V, call)
  BY <1>1 DEF GenerateSucceeds, Streamed
<1>3. State(ctx') = Advance(State(ctx), call, requests + 1)
  <2>1. /\ ctx'.V = AdvanceV(work.V, ctx.C, ctx.reseed_counter)
        /\ ctx'.C = ctx.C
    BY DEF GenerateSucceeds, AfterGenerate, TypeOK
  <2> QED BY <1>1, <1>2, <2>1 DEF State, Advance
<1>4. served' = Append(served, Request(State(ctx), call))
  BY <1>2 DEF GenerateSucceeds, Request, State
<1> DEFINE w == [state |-> State(ctx), served |-> served]
<1>5. w \in Walks(seed, requests) /\ w.state = State(ctx) /\ w.served = served
  BY DEF Walked
<1> HIDE DEF w
<1>6. [state |-> State(ctx'), served |-> served']
          \in Further(Walks(seed, requests), requests + 1)
  BY <1>1, <1>3, <1>4, <1>5, FurtherByOne
<1> QED BY <1>1, <1>6, WalksUnfold

LEMMA WalkedStep ==
    TypeOK /\ ContextKept /\ Counted /\ Matched /\ Streamed /\ Walked
      /\ [Next]_vars
      => Walked'
<1> SUFFICES ASSUME TypeOK, ContextKept, Counted, Matched, Streamed, Walked,
                    [Next]_vars
             PROVE  Walked'
  OBVIOUS
<1>1. CASE UNCHANGED <<ctx, history>> BY <1>1 DEF history, Walked, State
<1>2. CASE UNCHANGED vars \/ InstantiateRejected \/ InstantiateBegins
           \/ ReseedRejected \/ ReseedBegins \/ GenerateRejected
           \/ GenerateUnprepared \/ GenerateBegins \/ DfAlloc \/ SeedDerived
           \/ GenerateBlend \/ HashgenRound \/ Fault
  <2>1. UNCHANGED <<ctx, history>>
    BY <1>2
    DEF vars, InstantiateRejected, InstantiateBegins, ReseedRejected,
        ReseedBegins, GenerateRejected, GenerateUnprepared, GenerateBegins,
        DfAlloc, SeedDerived, GenerateBlend, HashgenRound, Fault,
        DfAllocFails, DfRoundFails, DfGivesUp, GenerateFails
  <2> QED BY <1>1, <2>1
<1>3. CASE Uninstantiate
  <2>1. UNCHANGED <<ctx, history>> \/ SeededFrom(<<>>)
    BY <1>3 DEF Uninstantiate
  <2> QED BY <1>1, <2>1 DEF SeededFrom, Walked
<1>4. CASE DfRound
  <2>1. UNCHANGED <<ctx, history>> \/ SeededFrom(<<>>) BY <1>4 DEF DfRound
  <2> QED BY <1>1, <2>1 DEF SeededFrom, Walked
<1>5. CASE InstantiateSucceeds
  <2>1. pc = "df_done" /\ df.target = "C" /\ Derived = ctx
    BY <1>5 DEF InstantiateSucceeds, Derived, DerivesInPlace
  <2>2. ctx.C = HashDf(<<0>> \o ctx.V) BY <2>1, DerivedConstant
  <2>3. ctx'.V = ctx.V /\ ctx'.C = ctx.C /\ SeededFrom(ctx.V)
    BY <1>5 DEF InstantiateSucceeds, TypeOK
  <2> QED BY <2>2, <2>3, WalkedFromSeed DEF State, SeededBy
<1>6. CASE ReseedSucceeds
  <2>1. pc = "df_done" /\ df.target = "C" /\ Derived = work
    BY <1>6 DEF ReseedSucceeds, Derived, DerivesInPlace
  <2>2. work.C = HashDf(<<0>> \o work.V) BY <2>1, DerivedConstant
  <2>3. ctx'.V = work.V /\ ctx'.C = work.C /\ SeededFrom(work.V)
    BY <1>6 DEF ReseedSucceeds, AfterReseed, TypeOK
  <2> QED BY <2>2, <2>3, WalkedFromSeed DEF State, SeededBy
<1>7. CASE GenerateSucceeds
  <2>1. seed' = seed /\ requests' = requests + 1 BY <1>7 DEF GenerateSucceeds
  <2> QED BY <1>7, <2>1, WalkedFurther DEF Walked, State
<1> QED
  BY <1>2, <1>3, <1>4, <1>5, <1>6, <1>7
  DEF Next, Derivation, Generation, Fault

(* Walked is kept with the invariants it rests on. *)
LEMMA AlwaysWalked == Spec => [](TypeOK /\ Counted /\ Walked)
<1>1. Init => ContextKept /\ Counted /\ Matched /\ Streamed /\ Walked
  BY SizesAssumption
  DEF Init, ContextKept, FailedCallKeepsState, Failed, NoReply, Reply, Counted,
      ZeroCtx, Matched, Streamed, OutputAllOrNothing, Generating, Deriving,
      Walked
<1> QED
  BY <1>1, TypeCorrect, ContextKeptStep, CountedStep, MatchedStep,
     StreamedStep, WalkedStep, PTL
  DEF Spec

(* Whatever calls failed in between, the context is the one that its seed  *)
(* and the requests served since then make, and those requests were served *)
(* from the states on the way to it.                                       *)
THEOREM HistoryIsWalked == Spec => []ContextIsWalked
<1>1. Walked /\ CounterTracksRequests => ContextIsWalked
  BY DEF Walked, ContextIsWalked
<1> QED BY <1>1, AlwaysWalked, CounterIsExact, PTL

(* So no two requests of one seeding hash the same block, unless the hash  *)
(* itself leads from the seed back to a block already used: nothing that a *)
(* caller does, and no failure, repeats one.                               *)
THEOREM StreamsApart ==
    Spec => [](seed # <<>> /\ WalksApart(seed) => NoStreamReuse)
<1>1. TypeOK /\ Counted /\ Walked =>
          (seed # <<>> /\ WalksApart(seed) => NoStreamReuse)
  <2> SUFFICES ASSUME TypeOK, Counted, Walked, seed # <<>>, WalksApart(seed)
               PROVE  NoStreamReuse
    OBVIOUS
  <2>1. requests \in 0..ReseedInterval
    BY SizesAssumption DEF TypeOK, Counted
  <2> DEFINE w == [state |-> State(ctx), served |-> served]
  <2>2. w \in Walks(seed, requests) BY DEF Walked
  <2>3. Apart(w.served) BY <2>1, <2>2 DEF WalksApart
  <2> QED BY <2>3 DEF NoStreamReuse
<1> QED BY <1>1, AlwaysWalked, PTL

-----------------------------------------------------------------------------
(* Progress.  A round of hash_df that is not the last is within the result.*)

InRounds == pc = "df_round" => df.block \in 1 .. BlockOf(SeedBytes)

LEMMA SeedRounds == BlockOf(SeedBytes) \in Nat \ {0}
BY BlocksInOrder, SizesAssumption

LEMMA InRoundsStep == TypeOK /\ Matched /\ InRounds /\ [Next]_vars => InRounds'
<1> SUFFICES ASSUME TypeOK, Matched, InRounds, [Next]_vars, pc' = "df_round"
             PROVE  df'.block \in 1 .. BlockOf(SeedBytes)
  BY DEF InRounds
<1>1. CASE UNCHANGED vars BY <1>1 DEF vars, locals, InRounds
<1>2. CASE DfAlloc BY <1>2, SeedRounds DEF DfAlloc, Matched
<1>3. CASE DfRound
  <2>1. pc = "df_round" /\ df.block < BlockOf(SeedBytes)
    BY <1>3 DEF DfRound, Goto
  <2>2. df'.block = df.block + 1
    BY <1>3, <2>1 DEF DfRound, NextBlock, TypeOK
  <2> QED BY <2>1, <2>2, SeedRounds DEF InRounds
<1>4. CASE InstantiateRejected \/ ReseedRejected \/ GenerateRejected
           \/ GenerateUnprepared \/ Uninstantiate \/ InstantiateSucceeds
           \/ ReseedSucceeds \/ GenerateSucceeds \/ Fault
  BY <1>4
  DEF InstantiateRejected, ReseedRejected, GenerateRejected,
      GenerateUnprepared, Uninstantiate, InstantiateSucceeds, ReseedSucceeds,
      GenerateSucceeds, Fault, DfAllocFails, DfRoundFails, DfGivesUp,
      GenerateFails, Return
<1>5. CASE InstantiateBegins \/ ReseedBegins \/ GenerateBegins \/ SeedDerived
           \/ GenerateBlend \/ HashgenRound
  BY <1>5
  DEF InstantiateBegins, ReseedBegins, GenerateBegins, SeedDerived,
      GenerateBlend, HashgenRound, Goto
<1> QED BY <1>1, <1>2, <1>3, <1>4, <1>5 DEF Next, Derivation, Generation

(* Under way there are steps left, also where the loops are. *)
LEMMA StepsRemain ==
    ASSUME TypeOK, Matched, Streamed, InRounds, pc # "idle"
    PROVE  /\ StepsLeft \in Nat \ {0}
           /\ BlockOf(SeedBytes) \in Nat \ {0}
           /\ Generating => BlockOf(call.output_len) \in Nat \ {0}
<1>1. Generating => BlockOf(call.output_len) \in Nat \ {0}
  BY RequestLength, BlocksInOrder, BuffersAssumption
<1>2. /\ pc = "df_round" => df.block \in 1 .. BlockOf(SeedBytes)
      /\ pc = "hashgen" => gen.block \in 1 .. BlockOf(call.output_len)
  BY DEF InRounds, Streamed
<1>3. BlockOf(SeedBytes) \in Nat \ {0} BY SeedRounds
<1>4. StepsLeft \in Nat \ {0}
  <2>1. CASE pc \in {"df_alloc", "df_round", "df_done"}
    BY <1>2, <1>3, <2>1 DEF StepsLeft
  <2>2. CASE Generating
    BY <1>1, <1>2, <2>2 DEF StepsLeft, Generating
  <2> QED BY <2>1, <2>2 DEF TypeOK, Generating
<1> QED BY <1>1, <1>3, <1>4

(* Every step of a call leaves fewer. *)
LEMMA FewerLeft ==
    ASSUME TypeOK, Matched, Streamed, InRounds, Next, pc # "idle"
    PROVE  StepsLeft' \in 0 .. StepsLeft - 1
<1> DEFINE rounds == BlockOf(SeedBytes)
           blocks == BlockOf(call.output_len)
<1>1. /\ StepsLeft \in Nat \ {0} /\ rounds \in Nat \ {0}
      /\ Generating => blocks \in Nat \ {0}
  BY StepsRemain
<1> HIDE DEF rounds, blocks
<1>2. CASE Fault \/ InstantiateSucceeds \/ ReseedSucceeds \/ GenerateSucceeds
  <2>1. pc' = "idle"
    BY <1>2
    DEF Fault, DfAllocFails, DfRoundFails, DfGivesUp, GenerateFails,
        InstantiateSucceeds, ReseedSucceeds, GenerateSucceeds, Return
  <2>2. StepsLeft' = 0 BY <2>1 DEF StepsLeft
  <2> QED BY <1>1, <2>2
<1>3. CASE DfAlloc
  <2>1. /\ pc = "df_alloc" /\ pc' = "df_round" /\ df' = df /\ df.block = 1
        /\ df.target \in {"V", "C"}
    BY <1>3 DEF DfAlloc, Goto, Matched, TypeOK
  <2>2. /\ StepsLeft = (IF df.target = "V" THEN rounds + 2 ELSE 0) + rounds + 2
        /\ StepsLeft' = (IF df.target = "V" THEN rounds + 2 ELSE 0)
                          + rounds - 1 + 2
    BY <2>1 DEF StepsLeft, rounds
  <2> QED BY <1>1, <2>1, <2>2
<1>4. CASE DfRound
  <2>1. /\ pc = "df_round" /\ df'.target = df.target
        /\ df.block \in 1..rounds
    BY <1>4 DEF DfRound, TypeOK, InRounds, rounds
  <2>2. StepsLeft = (IF df.target = "V" THEN rounds + 2 ELSE 0)
                     + rounds - df.block + 2
    BY <2>1 DEF StepsLeft, rounds
  <2>3. CASE df.block < rounds
    <3>1. pc' = "df_round" /\ df'.block = df.block + 1
      BY <1>4, <2>3 DEF DfRound, NextBlock, Goto, TypeOK, rounds
    <3>2. StepsLeft' = (IF df.target = "V" THEN rounds + 2 ELSE 0)
                        + rounds - (df.block + 1) + 2
      BY <2>1, <3>1 DEF StepsLeft, rounds
    <3> QED BY <1>1, <2>1, <2>2, <2>3, <3>2
  <2>4. CASE ~(df.block < rounds)
    <3>1. pc' = "df_done" BY <1>4, <2>4 DEF DfRound, Goto, rounds
    <3>2. StepsLeft' = (IF df.target = "V" THEN rounds + 2 ELSE 0) + 1
      BY <2>1, <3>1 DEF StepsLeft, rounds
    <3> QED BY <1>1, <2>1, <2>2, <3>2
  <2> QED BY <2>3, <2>4
<1>5. CASE SeedDerived
  <2>1. /\ pc = "df_done" /\ df.target = "V"
        /\ pc' = "df_alloc" /\ df'.target = "C"
    BY <1>5 DEF SeedDerived, StartDf, Goto
  <2>2. StepsLeft = rounds + 2 + 1 /\ StepsLeft' = 0 + rounds + 2
    BY <2>1 DEF StepsLeft, rounds
  <2> QED BY <1>1, <2>2
<1>6. CASE GenerateBlend
  <2>1. /\ pc = "blend" /\ pc' = "hashgen" /\ gen'.block = 1
        /\ call' = call /\ Generating
    BY <1>6 DEF GenerateBlend, StartHashgen, Goto, Continue, Generating
  <2>2. StepsLeft = blocks + 2 /\ StepsLeft' = blocks - 1 + 2
    BY <2>1 DEF StepsLeft, blocks
  <2> QED BY <1>1, <2>1, <2>2
<1>7. CASE HashgenRound
  <2>1. /\ pc = "hashgen" /\ call' = call /\ Generating
        /\ gen.block \in 1..blocks
    BY <1>7 DEF HashgenRound, Continue, Generating, Streamed, blocks
  <2>2. StepsLeft = blocks - gen.block + 2 BY <2>1 DEF StepsLeft, blocks
  <2>3. CASE gen.block < blocks
    <3>1. pc' = "hashgen" /\ gen'.block = gen.block + 1
      BY <1>7, <2>3 DEF HashgenRound, Goto, blocks
    <3>2. StepsLeft' = blocks - (gen.block + 1) + 2
      BY <2>1, <3>1 DEF StepsLeft, blocks
    <3> QED BY <1>1, <2>1, <2>2, <2>3, <3>2
  <2>4. CASE ~(gen.block < blocks)
    <3>1. pc' = "advance" BY <1>7, <2>4 DEF HashgenRound, Goto, blocks
    <3>2. StepsLeft' = 1 BY <3>1 DEF StepsLeft
    <3> QED BY <1>1, <2>1, <2>2, <3>2
  <2> QED BY <2>3, <2>4
<1>8. CASE \/ InstantiateRejected \/ InstantiateBegins
           \/ ReseedRejected \/ ReseedBegins \/ GenerateRejected
           \/ GenerateUnprepared \/ GenerateBegins \/ Uninstantiate
  BY <1>8
  DEF InstantiateRejected, InstantiateBegins, ReseedRejected, ReseedBegins,
      GenerateRejected, GenerateUnprepared, GenerateBegins, Uninstantiate,
      Begin
<1> QED
  BY <1>2, <1>3, <1>4, <1>5, <1>6, <1>7, <1>8
  DEF Next, Derivation, Generation

(* Every step that a call under way takes, whether it fails or not, brings *)
(* its return nearer, by a measure that cannot fall for ever: no sizes, no *)
(* digests and no failures make a loop of Hash_DRBG run on.                *)
THEOREM EveryStepAdvances == Spec => CallsAdvance
<1>1. Init => ContextKept /\ Matched /\ Streamed /\ InRounds
  BY DEF Init, ContextKept, FailedCallKeepsState, Failed, NoReply, Reply,
         Matched, Streamed, OutputAllOrNothing, Generating, Deriving, InRounds
<1>2. TypeOK /\ Matched /\ Streamed /\ InRounds /\ [Next]_vars
          => [pc # "idle" => StepsLeft' \in 0 .. StepsLeft - 1]_vars
  BY FewerLeft
<1> QED
  BY <1>1, <1>2, TypeCorrect, ContextKeptStep, MatchedStep, StreamedStep,
     InRoundsStep, PTL
  DEF Spec, CallsAdvance

-----------------------------------------------------------------------------
(* A generate streams as many bytes as it was asked for, from any state:   *)
(* what the benchmark's theorems suppose of its mechanism.                 *)
LEMMA StreamIsWhole ==
    \A s, c : Stream(s, c) = [i \in 1 .. c.output_len |-> Stream(s, c)[i]]
BY DEF Stream, Hashgen

(* The mechanism takes what the benchmark passes it: seed material as long *)
(* as the entropy source delivers, with nothing personal or additional,    *)
(* and every request up to the limit its descriptor names.                 *)
LEMMA DescriptorIsMet ==
    ASSUME EntropyBytes \in Nat, NonceBytes \in Nat, EntropyBytes > 0, NEW e \in Seq(Nat),
           NEW n \in Seq(Nat), EntropyBytes <= Len(e), NonceBytes <= Len(n),
           1 + SeedBytes + Len(e) <= SizeMax
    PROVE  LET none == NullBuffer(0)
               ServedRequest(len) ==
                   [op |-> "generate", ctx |-> TRUE, output |-> TRUE,
                    output_len |-> len, additional |-> none]
           IN
           /\ MayInstantiate([op |-> "instantiate", ctx |-> TRUE,
                              entropy |-> Bytes(e), nonce |-> Bytes(n),
                              personalization |-> none])
           /\ MayReseed([op |-> "reseed", ctx |-> TRUE, entropy |-> Bytes(e),
                         additional |-> none])
           /\ \A len \in 1 .. MaxBytes : /\ MayGenerate(ServedRequest(len))
                                         /\ ~AdditionalTooLong(ServedRequest(len))
<1>1. /\ Len(e) \in Nat /\ Len(n) \in Nat /\ SizeMax \in Nat
      /\ DigestSize \in Nat /\ MaxBytes \in Nat
  BY SizesAssumption, BuffersAssumption
<1> QED
  BY <1>1, SizesAssumption
  DEF MayInstantiate, InstantiateInvalid, MayReseed, ReseedInvalid,
      MayGenerate, GenerateInvalid, AdditionalTooLong, HasAdditional, Bytes,
      NullBuffer
=============================================================================
