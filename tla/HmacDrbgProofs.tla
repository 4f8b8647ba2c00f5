---------------------------- MODULE HmacDrbgProofs ----------------------------
(***************************************************************************)
(* Proofs about HmacDrbg, for every MAC, every size and every set of       *)
(* calls.                                                                  *)
(***************************************************************************)
EXTENDS HmacDrbgRefinement, BufferLemmas

(* The calls know their operation. *)
LEMMA Operations ==
    /\ \A c \in InstantiateCalls : c.op = "instantiate"
    /\ \A c \in ReseedCalls : c.op = "reseed"
    /\ \A c \in GenerateCalls : c.op = "generate"
BY CallsAssumption DEF InstantiateCall, ReseedCall, GenerateCall

LEMMA Replies ==
    ASSUME NEW op, NEW status, NEW bytes
    PROVE  /\ Reply(op, status, bytes).op = op
           /\ Reply(op, status, bytes).status = status
BY DEF Reply

-----------------------------------------------------------------------------
(* Type correctness.                                                       *)

LEMMA InitialTypes == Init => TypeOK
<1> SUFFICES ASSUME Init PROVE TypeOK OBVIOUS
<1>1. IsBytes(CallerBuffer, MaxBytes + 2) BY DEF IsBytes, CallerBuffer
<1> QED
  BY <1>1, SizesAssumption DEF Init, TypeOK, ZeroCtx, Erased, NoUpd, NoGen

(* The steps that make a call: rejected, returning at once, or beginning.  *)
LEMMA TypesOfCall ==
    ASSUME TypeOK, SeedingRejected \/ InstantiateBegins \/ ReseedBegins
                   \/ GenerateRejected \/ GenerateTooLong \/ GenerateBegins
                   \/ Uninstantiate
    PROVE  TypeOK'
<1>1. IsBytes(CallerBuffer, MaxBytes + 2) BY DEF IsBytes, CallerBuffer
<1>2. \A len : IsBytes(ErasedOutput(CallerBuffer, len), MaxBytes + 2)
  BY <1>1, BuffersAssumption, ErasedBytes
<1>3. CASE SeedingRejected
  BY <1>3, SizesAssumption
  DEF SeedingRejected, Begin, Return, locals, history, TypeOK
<1>4. CASE InstantiateBegins
  BY <1>4, SizesAssumption
  DEF InstantiateBegins, StartUpdate, NoUpd, InitialKV, Begin, Goto, history,
      TypeOK
<1>5. CASE ReseedBegins
  BY <1>5, SizesAssumption
  DEF ReseedBegins, StartUpdate, NoUpd, KV, Begin, Goto, history, TypeOK
<1>6. CASE GenerateRejected
  BY <1>6, <1>1, SizesAssumption
  DEF GenerateRejected, Begin, Return, locals, history, TypeOK
<1>7. CASE GenerateTooLong
  BY <1>7, <1>2, SizesAssumption
  DEF GenerateTooLong, Begin, Return, locals, history, TypeOK
<1>8. CASE GenerateBegins
  BY <1>8, <1>1, SizesAssumption
  DEF GenerateBegins, StartUpdate, StartBlocks, NoUpd, KV, Begin, Goto,
      history, TypeOK
<1>9. CASE Uninstantiate
  BY <1>9, SizesAssumption
  DEF Uninstantiate, Begin, Return, ZeroCtx, locals, history, TypeOK
<1> QED BY <1>3, <1>4, <1>5, <1>6, <1>7, <1>8, <1>9

(* The rounds of the update. *)
LEMMA TypesOfUpdating == ASSUME TypeOK, Updating PROVE TypeOK'
<1>1. CASE UpdAlloc
  BY <1>1 DEF UpdAlloc, Continue, Goto, history, TypeOK
<1>2. CASE UpdKey
  BY <1>2 DEF UpdKey, Continue, Goto, history, TypeOK
<1>3. CASE UpdValue
  <2>1. /\ upd' = [separator |-> upd'.separator, data |-> upd'.data,
                   key |-> upd'.key, then |-> upd'.then]
        /\ upd'.separator \in {0, 1} /\ upd'.then \in {"blocks", "commit"}
        /\ pc' = "upd_alloc" => upd'.then = upd.then
        /\ pc' # "upd_alloc" => pc' = upd.then /\ upd'.then = "commit"
        /\ pc' \in {"upd_alloc", "blocks", "commit"}
    <3>1. CASE SecondRound(upd.separator, upd.data)
      <4> DEFINE same == [upd EXCEPT !.separator = 1]
      <4>1. same = [separator |-> 1, data |-> upd.data, key |-> upd.key,
                    then |-> upd.then]
        BY DEF TypeOK
      <4>2. upd' = [same EXCEPT !.key = NoUpd.key] /\ pc' = "upd_alloc"
        BY <1>3, <3>1 DEF UpdValue, Goto
      <4> HIDE DEF same
      <4> QED BY <4>1, <4>2 DEF TypeOK
    <3>2. CASE ~SecondRound(upd.separator, upd.data)
      <4>1. upd' = NoUpd /\ pc' = upd.then
        BY <1>3, <3>2 DEF UpdValue, Goto
      <4> QED BY <4>1 DEF NoUpd, TypeOK
    <3> QED BY <3>1, <3>2
  <2>2. gen' = [block |-> gen'.block, from |-> gen'.from] /\ gen'.block \in Nat
    BY <1>3 DEF UpdValue, StartBlocks, TypeOK
  <2>3. /\ UNCHANGED <<ctx, output, call, calls, requests>>
        /\ heap' \subseteq heap
        /\ work' = [K |-> upd.key, V |-> Hmac(upd.key, work.V)]
        /\ pc = "upd_V"
    BY <1>3 DEF UpdValue, Continue, history
  <2> QED BY <2>1, <2>2, <2>3 DEF TypeOK
<1> QED BY <1>1, <1>2, <1>3 DEF Updating

(* The commits, the block loop and the failures. *)
LEMMA TypesOfCompletion ==
    ASSUME TypeOK, SeedingSucceeds \/ Generation \/ Fault
    PROVE  TypeOK'
<1>1. CASE SeedingSucceeds
  BY <1>1 DEF SeedingSucceeds, Erased, Continue, Return, TypeOK
<1>2. CASE GenerateBlock
  <2>1. IsBytes(output', MaxBytes + 2)
    BY <1>2, BuffersAssumption, CopyBytes DEF GenerateBlock, TypeOK
  <2> QED
    BY <1>2, <2>1
    DEF GenerateBlock, StartUpdate, NextBlock, NoUpd, Continue, Goto, history,
        TypeOK
<1>3. CASE GenerateSucceeds
  <2>1. ctx' = [K |-> work.K, V |-> work.V,
                reseed_counter |-> ctx.reseed_counter + 1]
    BY <1>3 DEF GenerateSucceeds, AfterGenerate, TypeOK
  <2>2. /\ UNCHANGED <<output, upd, heap, call, calls>>
        /\ requests' = requests + 1
        /\ work' = Erased /\ gen' = NoGen /\ pc' = "idle"
    BY <1>3 DEF GenerateSucceeds, Continue, Return
  <2> QED BY <2>1, <2>2 DEF Erased, NoGen, TypeOK
<1>4. CASE Fault
  <2>1. PICK status : GivesUp(status)
    BY <1>4 DEF Fault, UpdAllocFails, MacFails
  <2>2. IsBytes(output', MaxBytes + 2)
    BY <2>1, BuffersAssumption, ErasedBytes DEF GivesUp, TypeOK
  <2> QED
    BY <2>1, <2>2
    DEF GivesUp, FreedOnFailure, Erased, NoUpd, NoGen, Continue, Return,
        history, TypeOK
<1> QED BY <1>1, <1>2, <1>3, <1>4 DEF Generation

(* TypeOK is inductive. *)
LEMMA TypesStep == TypeOK /\ [Next]_vars => TypeOK'
<1> SUFFICES ASSUME TypeOK, [Next]_vars PROVE TypeOK' OBVIOUS
<1>1. CASE UNCHANGED vars BY <1>1 DEF vars, locals, history, TypeOK
<1>2. CASE Next
  BY <1>2, TypesOfCall, TypesOfUpdating, TypesOfCompletion DEF Next
<1> QED BY <1>1, <1>2

(* Every variable keeps its shape, and each control location finds the     *)
(* frame and the call it works for: the update that precedes the blocks of *)
(* hmac_generate is never entered from a seeding.                          *)
THEOREM TypeCorrect == Spec => []TypeOK
BY InitialTypes, TypesStep, PTL DEF Spec

-----------------------------------------------------------------------------
(* Failed calls.  While a call is under way the context is still the one   *)
(* it was made on: that is what makes FailedCallKeepsState inductive.      *)

ContextKept == FailedCallKeepsState /\ (pc # "idle" => ctx = before)

LEMMA ContextKeptStep == ContextKept /\ [Next]_vars => ContextKept'
<1> SUFFICES ASSUME ContextKept, [Next]_vars PROVE ContextKept' OBVIOUS
<1> USE DEF ContextKept, FailedCallKeepsState
<1>1. CASE UNCHANGED vars BY <1>1 DEF vars
<1>2. CASE SeedingRejected
  BY <1>2 DEF SeedingRejected, Begin, Return
<1>3. CASE GenerateRejected \/ GenerateTooLong
  BY <1>3 DEF GenerateRejected, GenerateTooLong, Begin, Return
<1>4. CASE Uninstantiate
  BY <1>4, Replies DEF Uninstantiate, Begin, Return
<1>5. CASE InstantiateBegins \/ ReseedBegins
  BY <1>5
  DEF InstantiateBegins, ReseedBegins, StartUpdate, Begin, Goto
<1>6. CASE GenerateBegins
  BY <1>6 DEF GenerateBegins, StartUpdate, Begin, Goto
<1>7. CASE Updating
  BY <1>7 DEF Updating, UpdAlloc, UpdKey, UpdValue, Continue, Goto
<1>8. CASE SeedingSucceeds \/ GenerateSucceeds
  BY <1>8, Replies DEF SeedingSucceeds, GenerateSucceeds, Return
<1>9. CASE GenerateBlock
  BY <1>9 DEF GenerateBlock, StartUpdate, Continue, Goto
<1>10. CASE Fault
  BY <1>10 DEF Fault, UpdAllocFails, MacFails, GivesUp, Continue, Return
<1> QED
  BY <1>1, <1>2, <1>3, <1>4, <1>5, <1>6, <1>7, <1>8, <1>9, <1>10
  DEF Next, Generation

(* A failed call, an instantiation over an earlier seed included, leaves   *)
(* K, V and reseed_counter as it found them.                               *)
THEOREM FailuresKeepState == Spec => []FailedCallKeepsState
<1>1. Init => ContextKept
  BY DEF Init, ContextKept, FailedCallKeepsState, NoReply, Reply
<1>2. ContextKept => FailedCallKeepsState BY DEF ContextKept
<1> QED BY <1>1, <1>2, ContextKeptStep, PTL DEF Spec

-----------------------------------------------------------------------------
(* Cleanup.  Each control location determines which buffers are allocated  *)
(* and which frames are in use.                                            *)

Seeding == pc # "idle" /\ call.op # "generate"

Held ==
    /\ heap = (IF Seeding THEN {"seed_material"} ELSE {})
              \cup (IF pc \in {"upd_K", "upd_V"} THEN {"input"} ELSE {})
    /\ pc \notin {"upd_alloc", "upd_K", "upd_V"} => upd = NoUpd
    /\ pc = "idle" => work = Erased
    /\ pc = "idle" \/ Seeding => gen = NoGen

LEMMA HeldStep == TypeOK /\ Held /\ [Next]_vars => Held'
<1> SUFFICES ASSUME TypeOK, Held, [Next]_vars PROVE Held' OBVIOUS
<1> USE DEF Held, Seeding
<1>1. CASE UNCHANGED vars BY <1>1 DEF vars, locals
<1>2. CASE SeedingRejected \/ GenerateRejected \/ GenerateTooLong
           \/ Uninstantiate
  BY <1>2
  DEF SeedingRejected, GenerateRejected, GenerateTooLong, Uninstantiate,
      Begin, Return, locals
<1>3. CASE InstantiateBegins \/ ReseedBegins
  <2>1. pc = "idle" /\ pc' = "upd_alloc" /\ call'.op # "generate"
    BY <1>3, Operations
    DEF InstantiateBegins, ReseedBegins, StartUpdate, Begin, Goto
  <2>2. heap' = heap \cup {"seed_material"} /\ gen' = gen
    BY <1>3 DEF InstantiateBegins, ReseedBegins
  <2> QED BY <2>1, <2>2
<1>4. CASE GenerateBegins
  <2>1. pc = "idle" /\ call'.op = "generate" /\ heap' = heap
    BY <1>4, Operations DEF GenerateBegins, Begin
  <2>2. pc' = "upd_alloc" \/ (pc' = "blocks" /\ upd' = upd)
    BY <1>4 DEF GenerateBegins, StartUpdate, Goto
  <2> QED BY <2>1, <2>2
<1>5. CASE UpdAlloc \/ UpdKey
  BY <1>5 DEF UpdAlloc, UpdKey, Goto, Continue
<1>6. CASE UpdValue
  <2>1. /\ pc = "upd_V" /\ heap' = heap \ {"input"} /\ call' = call
        /\ pc' \in {"upd_alloc", "blocks", "commit"}
        /\ pc' # "upd_alloc" => upd' = NoUpd
    BY <1>6 DEF UpdValue, Goto, Continue, TypeOK
  <2>2. call.op # "generate" => gen' = gen
    BY <1>6, <2>1, Operations DEF UpdValue, TypeOK
  <2> QED BY <2>1, <2>2
<1>7. CASE SeedingSucceeds
  BY <1>7 DEF SeedingSucceeds, Return
<1>8. CASE GenerateBlock
  <2>1. pc = "blocks" /\ call' = call /\ heap' = heap
    BY <1>8 DEF GenerateBlock, Continue
  <2>2. call.op = "generate" BY <2>1, Operations DEF TypeOK
  <2>3. pc' = "upd_alloc" \/ (pc' = "blocks" /\ upd' = upd)
    BY <1>8 DEF GenerateBlock, StartUpdate, Goto
  <2> QED BY <2>1, <2>2, <2>3
<1>9. CASE GenerateSucceeds
  BY <1>9 DEF GenerateSucceeds, Return, Continue
<1>10. CASE Fault
  BY <1>10
  DEF Fault, UpdAllocFails, MacFails, GivesUp, FreedOnFailure, Return
<1> QED
  BY <1>1, <1>2, <1>3, <1>4, <1>5, <1>6, <1>7, <1>8, <1>9, <1>10
  DEF Next, Updating, Generation

(* Between calls nothing is allocated, and the working K and V of the      *)
(* call, the new_K of the update and the state of the block loop are gone. *)
THEOREM CallsCleanUp == Spec => []NothingLeftBehind
<1>1. Init => Held BY DEF Init, Held, Seeding
<1>2. Held => NothingLeftBehind BY DEF Held, Seeding, NothingLeftBehind
<1> QED BY <1>1, <1>2, TypeCorrect, HeldStep, PTL DEF Spec

-----------------------------------------------------------------------------
(* The counter.  The guard of a generate still holds when it commits.      *)

Counted ==
    /\ ctx.reseed_counter <= ReseedInterval + 1
    /\ seed # <<>> => /\ ctx.reseed_counter = requests + 1
                      /\ requests <= ReseedInterval
    /\ pc # "idle" /\ call.op = "generate" =>
           ctx.reseed_counter <= ReseedInterval

LEMMA CountedStep == TypeOK /\ Counted /\ [Next]_vars => Counted'
<1> SUFFICES ASSUME TypeOK, Counted, [Next]_vars PROVE Counted' OBVIOUS
<1> USE SizesAssumption DEF Counted
<1>1. CASE UNCHANGED vars BY <1>1 DEF vars, history
<1>2. CASE SeedingRejected \/ GenerateRejected \/ GenerateTooLong
  BY <1>2
  DEF SeedingRejected, GenerateRejected, GenerateTooLong, Return, history
<1>3. CASE Uninstantiate
  BY <1>3 DEF Uninstantiate, ZeroCtx, Return, history
<1>4. CASE InstantiateBegins \/ ReseedBegins
  BY <1>4, Operations DEF InstantiateBegins, ReseedBegins, Begin, history
<1>5. CASE GenerateBegins
  BY <1>5 DEF GenerateBegins, ReseedRequired, history, TypeOK
<1>6. CASE Updating \/ GenerateBlock
  <2>1. UNCHANGED <<ctx, call, seed, requests>> /\ pc # "idle"
    BY <1>6
    DEF Updating, UpdAlloc, UpdKey, UpdValue, GenerateBlock, Continue, history
  <2> QED BY <2>1
<1>7. CASE SeedingSucceeds
  BY <1>7 DEF SeedingSucceeds, Return
<1>8. CASE GenerateSucceeds
  <2>1. /\ ctx'.reseed_counter = ctx.reseed_counter + 1
        /\ requests' = requests + 1
        /\ seed' = seed /\ pc' = "idle"
        /\ ctx.reseed_counter <= ReseedInterval
    BY <1>8 DEF GenerateSucceeds, AfterGenerate, Return, TypeOK
  <2> QED BY <2>1 DEF TypeOK
<1>9. CASE Fault
  BY <1>9 DEF Fault, UpdAllocFails, MacFails, GivesUp, Return, history
<1> QED
  BY <1>1, <1>2, <1>3, <1>4, <1>5, <1>6, <1>7, <1>8, <1>9
  DEF Next, Generation

(* reseed_counter counts the requests of a seeding, which are never more   *)
(* than ReseedInterval, whatever calls fail or are repeated.               *)
THEOREM CounterIsExact == Spec => []CounterTracksRequests
<1>1. Init => Counted BY SizesAssumption DEF Init, Counted, ZeroCtx
<1>2. Counted => CounterTracksRequests BY DEF Counted, CounterTracksRequests
<1> QED BY <1>1, <1>2, TypeCorrect, CountedStep, PTL DEF Spec

-----------------------------------------------------------------------------
(* Chain is defined by recursion.  That the recursion defines it is proved *)
(* by induction, here on the number of blocks.                             *)

(* The function that Chain reads its result from. *)
IsChain(f, kv, n) ==
    f = [k \in 0..n |-> IF k = 0 THEN kv.V ELSE Hmac(kv.K, f[k - 1])]

(* It exists, for any number of blocks. *)
LEMMA ChainsExist ==
    ASSUME NEW kv, NEW n \in Nat
    PROVE  \E f : IsChain(f, kv, n)
<1> DEFINE S == {m \in Nat : \E f : IsChain(f, kv, m)}
<1>1. 0 \in S
  <2>1. IsChain([k \in 0..0 |-> kv.V], kv, 0) BY DEF IsChain
  <2> QED BY <2>1
<1>2. ASSUME NEW m \in Nat, m \in S PROVE m + 1 \in S
  <2>1. PICK f : IsChain(f, kv, m) BY <1>2
  <2> DEFINE next == [k \in 0 .. m + 1 |->
                         IF k <= m THEN f[k] ELSE Hmac(kv.K, f[m])]
  <2>2. \A k \in 0..m : next[k] = f[k] BY <1>2
  <2>3. next[m + 1] = Hmac(kv.K, f[m]) BY <1>2
  <2>4. \A k \in 0..m : f[k] = IF k = 0 THEN kv.V ELSE Hmac(kv.K, f[k - 1])
    BY <2>1 DEF IsChain
  <2>5. DOMAIN next = 0 .. m + 1 /\ next = [k \in 0 .. m + 1 |-> next[k]]
    OBVIOUS
  <2> HIDE DEF next
  <2>6. ASSUME NEW k \in 0 .. m + 1
        PROVE  next[k] = IF k = 0 THEN kv.V ELSE Hmac(kv.K, next[k - 1])
    <3>1. CASE k \in 0..m
      <4>1. k = 0 \/ k - 1 \in 0..m BY <3>1
      <4> QED BY <2>2, <2>4, <3>1, <4>1
    <3>2. CASE k = m + 1
      <4>1. k # 0 /\ k - 1 = m /\ m \in 0..m BY <3>2
      <4> QED BY <2>2, <2>3, <3>2, <4>1
    <3> QED BY <3>1, <3>2
  <2>7. next = [k \in 0 .. m + 1 |->
                   IF k = 0 THEN kv.V ELSE Hmac(kv.K, next[k - 1])]
    BY <2>5, <2>6
  <2>8. IsChain(next, kv, m + 1) BY <2>7 DEF IsChain
  <2> QED BY <2>8
<1> HIDE DEF S
<1>3. n \in S BY <1>1, <1>2, SetInduction
<1> QED BY <1>3 DEF S

(* Two such functions agree where both are defined. *)
LEMMA ChainsAgree ==
    ASSUME NEW kv, NEW n \in Nat, NEW m \in Nat, n <= m,
           NEW f, IsChain(f, kv, n), NEW g, IsChain(g, kv, m)
    PROVE  f[n] = g[n]
<1> DEFINE S == {k \in Nat : k <= n => f[k] = g[k]}
<1>1. \A k \in 0..n : /\ f[k] = IF k = 0 THEN kv.V ELSE Hmac(kv.K, f[k - 1])
                      /\ g[k] = IF k = 0 THEN kv.V ELSE Hmac(kv.K, g[k - 1])
  <2> TAKE k \in 0..n
  <2>1. k \in 0..m OBVIOUS
  <2>2. f[k] = IF k = 0 THEN kv.V ELSE Hmac(kv.K, f[k - 1]) BY DEF IsChain
  <2>3. g[k] = IF k = 0 THEN kv.V ELSE Hmac(kv.K, g[k - 1])
     BY <2>1 DEF IsChain
  <2> QED BY <2>2, <2>3
<1>2. 0 \in S BY <1>1
<1>3. ASSUME NEW k \in Nat, k \in S PROVE k + 1 \in S
  <2> SUFFICES ASSUME k + 1 <= n PROVE f[k + 1] = g[k + 1] BY <1>3
  <2>1. f[k] = g[k] BY <1>3
  <2>2. k + 1 \in 0..n /\ k + 1 # 0 /\ (k + 1) - 1 = k BY <1>3
  <2> QED BY <1>1, <2>1, <2>2
<1> HIDE DEF S
<1>4. n \in S BY <1>2, <1>3, SetInduction
<1> QED BY <1>4 DEF S

(* So each block is the MAC, under the one key, of the block before it. *)
LEMMA ChainUnfolds ==
    ASSUME NEW kv, NEW n \in Nat
    PROVE  /\ Chain(kv, 0) = kv.V
           /\ Chain(kv, n + 1) = Hmac(kv.K, Chain(kv, n))
<1> DEFINE v(m) == CHOOSE f : IsChain(f, kv, m)
<1>1. \A m \in Nat : Chain(kv, m) = v(m)[m] BY DEF Chain, IsChain
<1>2. \A m \in Nat : IsChain(v(m), kv, m) BY ChainsExist
<1> HIDE DEF v
<1>3. Chain(kv, 0) = kv.V
  <2>1. v(0) = [k \in 0..0 |-> IF k = 0 THEN kv.V
                                        ELSE Hmac(kv.K, v(0)[k - 1])]
    BY <1>2 DEF IsChain
  <2>2. 0 \in 0..0 OBVIOUS
  <2> QED BY <1>1, <2>1, <2>2
<1>4. Chain(kv, n + 1) = Hmac(kv.K, Chain(kv, n))
  <2>1. v(n)[n] = v(n + 1)[n] BY <1>2, ChainsAgree
  <2>2. v(n + 1) = [k \in 0 .. n + 1 |-> IF k = 0 THEN kv.V
                                         ELSE Hmac(kv.K, v(n + 1)[k - 1])]
    BY <1>2 DEF IsChain
  <2>3. n + 1 \in 0 .. n + 1 /\ n + 1 # 0 /\ (n + 1) - 1 = n OBVIOUS
  <2>4. v(n + 1)[n + 1] = Hmac(kv.K, v(n + 1)[n]) BY <2>2, <2>3
  <2> QED BY <1>1, <2>1, <2>4
<1> QED BY <1>3, <1>4

-----------------------------------------------------------------------------
(* The output and the refinement.  What a call has computed at each point  *)
(* of it: the update under way is one of a known K and V with known data,  *)
(* the block loop is at a known place of the chain, and it has copied out  *)
(* the blocks before that place and no other byte.                         *)

InUpdate   == pc \in {"upd_alloc", "upd_K", "upd_V"}
Generating == pc # "idle" /\ call.op = "generate"

(* An update of kv with data is under way, in its first or second round. *)
UpdateUnderWay(kv, data) ==
    /\ upd.data = data
    /\ \/ upd.separator = 0 /\ work = kv
       \/ /\ upd.separator = 1 /\ data # <<>>
          /\ work = UpdateRound(kv, 0, data)
    /\ pc = "upd_V" => upd.key = RoundKey(work.K, work.V, upd.separator, data)

(* What a seeding derives from. *)
SeedingFrom == IF call.op = "instantiate" THEN InitialKV ELSE KV(before)

(* K and V of a request after n blocks. *)
From     == ServedFrom(KV(before), call)
After(n) == [K |-> From.K, V |-> Chain(From, n)]

LastBlock == BlockOf(call.output_len)

(* What the caller's buffer holds before block n, and nothing beside it. *)
Delivered(n) ==
    output = [i \in 1 .. MaxBytes + 2 |->
                 IF i <= call.output_len /\ BlockOf(i) < n
                 THEN Blocks(From, call.output_len)[i] ELSE Untouched]

SeedingTraced ==
    /\ call.op = "instantiate" => ~InstantiateInvalid(call)
    /\ call.op = "reseed"      => ~ReseedInvalid(call)
    /\ InUpdate => /\ upd.then = "commit"
                   /\ UpdateUnderWay(SeedingFrom, SeedMaterial(call))
    /\ pc = "commit" => work = Update(SeedingFrom, SeedMaterial(call))

GenerateTraced ==
    /\ ~GenerateInvalid(call) /\ ~AdditionalTooLong(call)
    /\ InUpdate /\ upd.then = "blocks" =>
           /\ call.additional.len > 0
           /\ output = CallerBuffer
           /\ UpdateUnderWay(KV(before), call.additional.data)
    /\ pc = "blocks" =>
           /\ gen.block \in 1..LastBlock
           /\ work = After(gen.block - 1)
           /\ Delivered(gen.block)
    /\ InUpdate /\ upd.then = "commit" =>
           /\ Delivered(LastBlock + 1)
           /\ UpdateUnderWay(After(LastBlock), call.additional.data)
    /\ pc = "commit" =>
           /\ Delivered(LastBlock + 1)
           /\ work = Update(After(LastBlock), call.additional.data)

Traced ==
    /\ OutputAllOrNothing
    /\ Seeding    => SeedingTraced
    /\ Generating => GenerateTraced

(* A generate under way was accepted, so its length is in bounds. *)
LEMMA RequestLength ==
    ASSUME TypeOK, Traced, Generating
    PROVE  /\ call.output_len \in 1..MaxBytes
           /\ call \in GenerateCalls /\ call.op = "generate"
           /\ LastBlock \in Nat \ {0}
<1>1. call \in GenerateCalls
  BY Operations, CallsAssumption
  DEF TypeOK, Generating, InstantiateCall, ReseedCall
<1>2. call.output_len \in Nat /\ call.op = "generate"
  BY <1>1, CallsAssumption DEF GenerateCall
<1>3. ~GenerateInvalid(call) BY DEF Traced, GenerateTraced
<1>4. call.output_len \in 1..MaxBytes
  BY <1>2, <1>3, BuffersAssumption DEF GenerateInvalid
<1> QED BY <1>1, <1>2, <1>4, BlocksInOrder, BuffersAssumption DEF LastBlock

(* K and V of a request are a pair, also before the first block. *)
LEMMA FromShape ==
    /\ From = [K |-> From.K, V |-> From.V]
    /\ After(0) = From
<1>1. From = [K |-> From.K, V |-> From.V]
  BY DEF From, ServedFrom, Update, UpdateRound, KV
<1> QED BY <1>1, ChainUnfolds DEF After

(* A seeding is under way: what it is, and that it was accepted. *)
LEMMA SeedingCalls ==
    ASSUME TypeOK, Seeding
    PROVE  \/ call \in InstantiateCalls /\ call.op = "instantiate"
           \/ call \in ReseedCalls /\ call.op = "reseed"
BY Operations DEF TypeOK, Seeding

(* The value step of a round makes K and V those of the round; after the   *)
(* last one they are the K and V of the whole update.                      *)
LEMMA RoundMade ==
    ASSUME TypeOK, NEW kv, NEW data, UpdateUnderWay(kv, data), UpdValue
    PROVE  IF SecondRound(upd.separator, upd.data)
           THEN work' = UpdateRound(kv, 0, data) /\ data # <<>>
           ELSE work' = Update(kv, data)
<1>1. /\ upd.data = data
      /\ upd.key = RoundKey(work.K, work.V, upd.separator, data)
      /\ work' = [K |-> upd.key, V |-> Hmac(upd.key, work.V)]
  BY DEF UpdValue, UpdateUnderWay
<1>2. work' = UpdateRound(work, upd.separator, data)
  BY <1>1 DEF UpdateRound
<1>3. CASE upd.separator = 0 /\ work = kv
  BY <1>1, <1>2, <1>3 DEF SecondRound, Update
<1>4. CASE upd.separator = 1 /\ data # <<>> /\ work = UpdateRound(kv, 0, data)
  BY <1>1, <1>2, <1>4 DEF SecondRound, Update
<1> QED BY <1>3, <1>4 DEF UpdateUnderWay

(* It is followed by the second round, or by what the update was made for. *)
LEMMA RoundFollowed ==
    ASSUME TypeOK, UpdValue
    PROVE  /\ pc = "upd_V" /\ UNCHANGED <<output, call, before>>
           /\ IF SecondRound(upd.separator, upd.data)
              THEN /\ pc' = "upd_alloc" /\ upd'.separator = 1
                   /\ upd'.data = upd.data /\ upd'.then = upd.then
              ELSE /\ pc' = upd.then
                   /\ upd.then = "blocks" => gen'.block = 1
<1>1. pc = "upd_V" /\ UNCHANGED <<output, call, before>>
  BY DEF UpdValue, Continue
<1>2. CASE SecondRound(upd.separator, upd.data)
  <2> DEFINE same == [upd EXCEPT !.separator = 1]
  <2>1. same = [separator |-> 1, data |-> upd.data, key |-> upd.key,
                then |-> upd.then]
    BY DEF TypeOK
  <2>2. upd' = [same EXCEPT !.key = NoUpd.key] /\ pc' = "upd_alloc"
    BY <1>2 DEF UpdValue, Goto
  <2> HIDE DEF same
  <2> QED BY <1>1, <1>2, <2>1, <2>2
<1>3. CASE ~SecondRound(upd.separator, upd.data)
  BY <1>1, <1>3 DEF UpdValue, StartBlocks, Goto
<1> QED BY <1>2, <1>3

(* A round keeps what its caller needs to know of it. *)
LEMMA TracedRound ==
    ASSUME TypeOK, Traced, UpdValue
    PROVE  Traced'
<1> DEFINE again == SecondRound(upd.separator, upd.data)
<1>1. /\ pc = "upd_V" /\ InUpdate /\ pc' # "idle" /\ pc' # "upd_V"
      /\ UNCHANGED <<output, call, before>>
  BY RoundFollowed DEF TypeOK, InUpdate
<1>2. /\ UNCHANGED <<From, LastBlock, SeedingFrom>>
      /\ \A n : After(n)' = After(n)
  BY <1>1 DEF From, LastBlock, SeedingFrom, After
<1>3. OutputAllOrNothing' BY <1>1 DEF OutputAllOrNothing
<1>4. ASSUME Seeding PROVE SeedingTraced'
  <2> DEFINE data == SeedMaterial(call)
  <2>1. /\ SeedingTraced /\ upd.then = "commit"
        /\ UpdateUnderWay(SeedingFrom, data)
    BY <1>1, <1>4 DEF Traced, SeedingTraced
  <2>2. CASE again
    <3>1. work' = UpdateRound(SeedingFrom, 0, data) /\ data # <<>>
      BY <2>1, <2>2, RoundMade
    <3>2. /\ pc' = "upd_alloc" /\ upd'.separator = 1
          /\ upd'.data = upd.data /\ upd'.then = "commit"
      BY <2>1, <2>2, RoundFollowed
    <3>3. UpdateUnderWay(SeedingFrom, SeedMaterial(call))'
      BY <1>1, <1>2, <2>1, <3>1, <3>2 DEF UpdateUnderWay
    <3> QED BY <1>1, <2>1, <3>2, <3>3 DEF SeedingTraced
  <2>3. CASE ~again
    <3>1. work' = Update(SeedingFrom, data) BY <2>1, <2>3, RoundMade
    <3>2. pc' = "commit" BY <2>1, <2>3, RoundFollowed
    <3> QED BY <1>1, <1>2, <2>1, <3>1, <3>2 DEF SeedingTraced, InUpdate
  <2> QED BY <2>2, <2>3
<1>5. ASSUME Generating PROVE GenerateTraced'
  <2> DEFINE data == call.additional.data
  <2>1. GenerateTraced /\ upd.then \in {"blocks", "commit"}
    BY <1>5 DEF Traced, TypeOK
  <2>2. CASE upd.then = "blocks"
    <3>1. /\ call.additional.len > 0 /\ output = CallerBuffer
          /\ UpdateUnderWay(KV(before), data)
      BY <1>1, <2>1, <2>2 DEF GenerateTraced
    <3>2. CASE again
      <4>1. work' = UpdateRound(KV(before), 0, data) /\ data # <<>>
        BY <3>1, <3>2, RoundMade
      <4>2. /\ pc' = "upd_alloc" /\ upd'.separator = 1
            /\ upd'.data = upd.data /\ upd'.then = "blocks"
        BY <2>2, <3>2, RoundFollowed
      <4>3. UpdateUnderWay(KV(before), call.additional.data)'
        BY <1>1, <3>1, <4>1, <4>2 DEF UpdateUnderWay
      <4> QED BY <1>1, <2>1, <3>1, <4>2, <4>3 DEF GenerateTraced
    <3>3. CASE ~again
      <4>1. work' = Update(KV(before), data) BY <3>1, <3>3, RoundMade
      <4>2. pc' = "blocks" /\ gen'.block = 1 BY <2>2, <3>3, RoundFollowed
      <4>3. work' = After(0)'
        <5>1. From = Update(KV(before), data) BY <3>1 DEF From, ServedFrom
        <5> QED BY <1>2, <4>1, <5>1, FromShape
      <4>4. gen'.block \in 1..LastBlock' BY <1>2, <1>5, <4>2, RequestLength
      <4>5. Delivered(1)'
        <5>1. \A i \in 1 .. MaxBytes + 2 : ~(BlockOf(i) < 1)
          BY BlocksInOrder, BuffersAssumption
        <5> QED BY <1>1, <3>1, <5>1 DEF Delivered, CallerBuffer
      <4> QED BY <1>1, <2>1, <4>2, <4>3, <4>4, <4>5
              DEF GenerateTraced, InUpdate
    <3> QED BY <3>2, <3>3
  <2>3. CASE upd.then = "commit"
    <3>1. /\ Delivered(LastBlock + 1)
          /\ UpdateUnderWay(After(LastBlock), data)
      BY <1>1, <2>1, <2>3 DEF GenerateTraced
    <3>2. Delivered(LastBlock + 1)' BY <1>1, <1>2, <3>1 DEF Delivered
    <3>3. CASE again
      <4>1. work' = UpdateRound(After(LastBlock), 0, data) /\ data # <<>>
        BY <3>1, <3>3, RoundMade
      <4>2. /\ pc' = "upd_alloc" /\ upd'.separator = 1
            /\ upd'.data = upd.data /\ upd'.then = "commit"
        BY <2>3, <3>3, RoundFollowed
      <4>3. UpdateUnderWay(After(LastBlock), call.additional.data)'
        BY <1>1, <1>2, <3>1, <4>1, <4>2 DEF UpdateUnderWay
      <4> QED BY <1>1, <2>1, <3>2, <4>2, <4>3 DEF GenerateTraced
    <3>4. CASE ~again
      <4>1. work' = Update(After(LastBlock), data) BY <3>1, <3>4, RoundMade
      <4>2. pc' = "commit" BY <2>3, <3>4, RoundFollowed
      <4> QED BY <1>1, <1>2, <2>1, <3>2, <4>1, <4>2
              DEF GenerateTraced, InUpdate
    <3> QED BY <3>3, <3>4
  <2> QED BY <2>1, <2>2, <2>3
<1> QED BY <1>1, <1>3, <1>4, <1>5 DEF Traced, Seeding, Generating

(* A round of the block loop adds its block to the output. *)
LEMMA DeliveredGrows ==
    ASSUME TypeOK, Traced, GenerateBlock
    PROVE  /\ Generating /\ UNCHANGED <<call, before, From, LastBlock>>
           /\ gen.block \in 1..LastBlock
           /\ work' = After(gen.block)
           /\ \A n : n = gen.block + 1 => Delivered(n)'
<1> DEFINE len == call.output_len
           stream == Blocks(From, len)
           generated == Hmac(work.K, work.V)
<1>1. /\ pc = "blocks" /\ call \in GenerateCalls
      /\ UNCHANGED <<call, before>>
  BY DEF GenerateBlock, Continue, TypeOK
<1>2. Generating BY <1>1, Operations DEF Generating
<1>3. len \in 1..MaxBytes BY <1>2, RequestLength
<1>4. /\ gen.block \in 1..LastBlock
      /\ work = After(gen.block - 1)
      /\ Delivered(gen.block)
  BY <1>1, <1>2 DEF Traced, GenerateTraced
<1>5. /\ gen.block - 1 \in Nat /\ (gen.block - 1) + 1 = gen.block
      /\ gen.block \in Nat
  BY <1>2, <1>4, RequestLength
<1>6. generated = Chain(From, gen.block)
  BY <1>4, <1>5, ChainUnfolds DEF After
<1>7. work' = After(gen.block)
  <2>1. work' = [work EXCEPT !.V = generated] BY DEF GenerateBlock
  <2> QED BY <1>4, <1>6, <2>1 DEF After
<1>8. UNCHANGED <<From, LastBlock>> BY <1>1 DEF From, LastBlock
<1>9. output = [i \in 1 .. MaxBytes + 2 |->
                   IF i <= len /\ BlockOf(i) < gen.block
                   THEN stream[i] ELSE Untouched]
  BY <1>4 DEF Delivered
<1>10. output' = [i \in 1 .. MaxBytes + 2 |->
                     IF i <= len /\ BlockOf(i) = gen.block
                     THEN generated[OffsetOf(i)] ELSE output[i]]
  BY <1>9 DEF GenerateBlock, CopyDigest
<1>11. \A i \in 1 .. MaxBytes + 2 : BlockOf(i) \in Nat
  BY BlocksInOrder, BuffersAssumption
<1>12. \A i \in 1..len : stream[i] = Chain(From, BlockOf(i))[OffsetOf(i)]
  BY DEF Blocks
<1> HIDE DEF len, stream, generated
<1>13. ASSUME NEW i \in 1 .. MaxBytes + 2
       PROVE  (IF i <= len /\ BlockOf(i) = gen.block
               THEN generated[OffsetOf(i)] ELSE output[i])
              = IF i <= len /\ BlockOf(i) < gen.block + 1
                THEN stream[i] ELSE Untouched
  <2>1. CASE i <= len /\ BlockOf(i) = gen.block
    <3>1. i \in 1..len BY <1>3, <2>1
    <3> QED BY <1>5, <1>6, <1>12, <2>1, <3>1
  <2>2. CASE ~(i <= len /\ BlockOf(i) = gen.block)
    BY <1>3, <1>5, <1>9, <1>11, <2>2
  <2> QED BY <2>1, <2>2
<1>14. output' = [i \in 1 .. MaxBytes + 2 |->
                     IF i <= len /\ BlockOf(i) < gen.block + 1
                     THEN stream[i] ELSE Untouched]
  BY <1>10, <1>13
<1>15. \A n : n = gen.block + 1 => Delivered(n)'
  BY <1>1, <1>8, <1>14 DEF Delivered, len, stream
<1> QED BY <1>1, <1>2, <1>4, <1>7, <1>8, <1>15

(* So the loop keeps the invariant, whether its round is the last or not. *)
LEMMA TracedBlock ==
    ASSUME TypeOK, Traced, GenerateBlock
    PROVE  Traced'
<1>1. /\ Generating /\ GenerateTraced /\ UNCHANGED call
      /\ UNCHANGED <<From, LastBlock>>
      /\ gen.block \in 1..LastBlock /\ LastBlock \in Nat
      /\ work' = After(gen.block)
      /\ \A n : n = gen.block + 1 => Delivered(n)'
      /\ \A n : After(n)' = After(n)
  BY DeliveredGrows, RequestLength DEF Traced, After
<1>2. CASE gen.block < LastBlock
  <2>1. pc' = "blocks" /\ gen'.block = gen.block + 1
    BY <1>2 DEF GenerateBlock, NextBlock, Goto, LastBlock, TypeOK
  <2>2. /\ gen'.block \in 1..LastBlock' /\ gen'.block - 1 = gen.block
        /\ Delivered(gen.block)'
    BY <1>1, <1>2, <2>1
  <2>3. GenerateTraced' BY <1>1, <2>1, <2>2 DEF GenerateTraced, InUpdate
  <2> QED BY <1>1, <2>1, <2>3
          DEF Traced, Generating, Seeding, OutputAllOrNothing
<1>3. CASE ~(gen.block < LastBlock)
  <2>1. /\ pc' = "upd_alloc" /\ upd'.separator = 0 /\ upd'.then = "commit"
        /\ upd'.data = call.additional.data
    BY <1>3 DEF GenerateBlock, StartUpdate, Goto, LastBlock
  <2>2. gen.block = LastBlock BY <1>1, <1>3
  <2>3. Delivered(LastBlock + 1)' BY <1>1, <2>2
  <2>4. UpdateUnderWay(After(LastBlock), call.additional.data)'
    BY <1>1, <2>1, <2>2 DEF UpdateUnderWay
  <2>5. GenerateTraced' BY <1>1, <2>1, <2>3, <2>4 DEF GenerateTraced, InUpdate
  <2> QED BY <1>1, <2>1, <2>5
          DEF Traced, Generating, Seeding, OutputAllOrNothing
<1> QED BY <1>2, <1>3

(* What the caller's buffer holds when the last update has been made. *)
LEMMA WholeOutput ==
    ASSUME TypeOK, Traced, Generating, pc = "commit"
    PROVE  \A i \in 1 .. MaxBytes + 2 :
               output[i] = IF i <= call.output_len
                           THEN Blocks(From, call.output_len)[i]
                           ELSE Untouched
<1>1. call.output_len \in 1..MaxBytes /\ Delivered(LastBlock + 1)
  BY RequestLength DEF Traced, GenerateTraced
<1>2. \A i \in 1..call.output_len : BlockOf(i) < LastBlock + 1
  BY <1>1, BlocksInOrder, BuffersAssumption DEF LastBlock
<1> QED BY <1>1, <1>2 DEF Delivered

(* Before it, nothing was written beyond the request. *)
LEMMA NothingBeyond ==
    ASSUME TypeOK, Traced, Generating
    PROVE  \A i \in 1 .. MaxBytes + 2 :
               i > call.output_len => output[i] = Untouched
<1>1. call.output_len \in Nat BY RequestLength, BuffersAssumption
<1>2. output = CallerBuffer \/ \E n : Delivered(n)
  BY DEF Traced, GenerateTraced, Generating, InUpdate, TypeOK
<1>3. CASE output = CallerBuffer BY <1>3 DEF CallerBuffer
<1>4. ASSUME NEW n, Delivered(n)
      PROVE  \A i \in 1 .. MaxBytes + 2 :
                 i > call.output_len => output[i] = Untouched
  BY <1>1, <1>4, BuffersAssumption DEF Delivered
<1> QED BY <1>2, <1>3, <1>4

(* Of a generate that fails under way every requested byte is erased. *)
LEMMA TracedFailure ==
    ASSUME TypeOK, Traced, Fault
    PROVE  Traced'
<1>1. PICK status \in {"MEMORY_ERROR", "INTERNAL_ERROR"} :
          pc # "idle" /\ GivesUp(status)
  BY DEF Fault, UpdAllocFails, MacFails
<1>2. pc' = "idle" /\ UNCHANGED call /\ reply'.status = status
  BY <1>1, Replies DEF GivesUp, Continue, Return
<1>3. ASSUME call.op = "generate" PROVE OutputAllOrNothing'
  <2>1. Generating BY <1>1, <1>3 DEF Generating
  <2>2. output' = ErasedOutput(output, call.output_len)
    BY <1>1, <1>3 DEF GivesUp
  <2>3. DOMAIN output = 1 .. MaxBytes + 2 BY DEF TypeOK, IsBytes
  <2>4. /\ DOMAIN output' = 1 .. MaxBytes + 2
        /\ \A i \in 1 .. MaxBytes + 2 :
               output'[i] = IF i <= call.output_len THEN 0 ELSE output[i]
    BY <2>2, <2>3 DEF ErasedOutput
  <2>5. \A i \in 1 .. MaxBytes + 2 :
            ~(i <= call.output_len) => output'[i] = Untouched
    BY <2>1, <2>4, NothingBeyond, RequestLength, BuffersAssumption
  <2> QED BY <1>2, <2>4, <2>5 DEF OutputAllOrNothing
<1> QED BY <1>2, <1>3 DEF Traced, Seeding, Generating, OutputAllOrNothing

(* What a call that begins has computed: nothing yet. *)
LEMMA TracedBegins ==
    ASSUME TypeOK, InstantiateBegins \/ ReseedBegins \/ GenerateBegins
    PROVE  Traced'
<1>1. CASE InstantiateBegins
  <2>1. PICK c \in InstantiateCalls :
            /\ call' = c /\ ~InstantiateInvalid(c) /\ pc' = "upd_alloc"
            /\ work' = InitialKV
            /\ upd' = [separator |-> 0, data |-> SeedMaterial(c),
                       key |-> NoUpd.key, then |-> "commit"]
    BY <1>1 DEF InstantiateBegins, Begin, StartUpdate, Goto
  <2>2. call'.op = "instantiate" BY <2>1, Operations
  <2>3. UpdateUnderWay(SeedingFrom, SeedMaterial(call))'
    BY <2>1, <2>2 DEF UpdateUnderWay, SeedingFrom
  <2>4. SeedingTraced' BY <2>1, <2>2, <2>3 DEF SeedingTraced
  <2> QED BY <2>1, <2>2, <2>4 DEF Traced, Seeding, Generating,
                                  OutputAllOrNothing
<1>2. CASE ReseedBegins
  <2>1. PICK c \in ReseedCalls :
            /\ call' = c /\ before' = ctx /\ ~ReseedInvalid(c)
            /\ pc' = "upd_alloc" /\ work' = KV(ctx)
            /\ upd' = [separator |-> 0, data |-> SeedMaterial(c),
                       key |-> NoUpd.key, then |-> "commit"]
    BY <1>2 DEF ReseedBegins, Begin, StartUpdate, Goto
  <2>2. call'.op = "reseed" BY <2>1, Operations
  <2>3. UpdateUnderWay(SeedingFrom, SeedMaterial(call))'
    BY <2>1, <2>2 DEF UpdateUnderWay, SeedingFrom
  <2>4. SeedingTraced' BY <2>1, <2>2, <2>3 DEF SeedingTraced
  <2> QED BY <2>1, <2>2, <2>4 DEF Traced, Seeding, Generating,
                                  OutputAllOrNothing
<1>3. CASE GenerateBegins
  <2>1. PICK c \in GenerateCalls :
            /\ call' = c /\ before' = ctx
            /\ ~GenerateInvalid(c) /\ ~AdditionalTooLong(c)
            /\ output' = CallerBuffer /\ work' = KV(ctx)
            /\ IF c.additional.len > 0
               THEN StartUpdate(c.additional.data, "blocks")
               ELSE StartBlocks(KV(ctx)) /\ Goto("blocks")
    BY <1>3 DEF GenerateBegins, Begin
  <2>2. call'.op = "generate" BY <2>1, Operations
  <2>3. CASE c.additional.len > 0
    <3>1. /\ pc' = "upd_alloc"
          /\ upd' = [separator |-> 0, data |-> c.additional.data,
                     key |-> NoUpd.key, then |-> "blocks"]
      BY <2>1, <2>3 DEF StartUpdate, Goto
    <3>2. UpdateUnderWay(KV(before), call.additional.data)'
      BY <2>1, <3>1 DEF UpdateUnderWay
    <3>3. GenerateTraced' BY <2>1, <2>3, <3>1, <3>2 DEF GenerateTraced
    <3> QED BY <2>2, <3>1, <3>3 DEF Traced, Seeding, Generating,
                                    OutputAllOrNothing
  <2>4. CASE ~(c.additional.len > 0)
    <3>1. pc' = "blocks" /\ gen'.block = 1
      BY <2>1, <2>4 DEF StartBlocks, Goto
    <3>2. From' = KV(ctx) BY <2>1, <2>4 DEF From, ServedFrom
    <3>3. work' = After(0)'
      <4>1. After(0)' = [K |-> From'.K, V |-> Chain(From', 0)] BY DEF After
      <4> QED BY <2>1, <3>2, <4>1, ChainUnfolds DEF KV
    <3>4. gen'.block \in 1..LastBlock'
      <4>1. c.output_len \in 1..MaxBytes
        BY <2>1, CallsAssumption, BuffersAssumption
        DEF GenerateCall, GenerateInvalid
      <4> QED BY <2>1, <3>1, <4>1, BlocksInOrder, BuffersAssumption
              DEF LastBlock
    <3>5. Delivered(1)'
      <4>1. \A i \in 1 .. MaxBytes + 2 : ~(BlockOf(i) < 1)
        BY BlocksInOrder, BuffersAssumption
      <4> QED BY <2>1, <4>1 DEF Delivered, CallerBuffer
    <3>6. GenerateTraced'
      BY <2>1, <3>1, <3>3, <3>4, <3>5 DEF GenerateTraced, InUpdate
    <3> QED BY <2>2, <3>1, <3>6 DEF Traced, Seeding, Generating,
                                    OutputAllOrNothing
  <2> QED BY <2>3, <2>4
<1> QED BY <1>1, <1>2, <1>3

(* Inside a round only the new key changes. *)
LEMMA UnmovedInUpdate ==
    ASSUME TypeOK, Traced, InUpdate, InUpdate', pc # "upd_V",
           UNCHANGED <<output, call, before, work>>,
           upd'.separator = upd.separator, upd'.data = upd.data,
           upd'.then = upd.then,
           pc' = "upd_V" => upd'.key = RoundKey(work.K, work.V, upd.separator,
                                                upd.data)
    PROVE  Traced'
<1>1. /\ UNCHANGED <<From, LastBlock, SeedingFrom, Seeding, Generating>>
      /\ pc # "idle" /\ pc' # "idle"
      /\ pc' \notin {"blocks", "commit"}
  BY DEF From, LastBlock, SeedingFrom, InUpdate, Seeding, Generating
<1>2. OutputAllOrNothing' BY <1>1 DEF OutputAllOrNothing
<1>3. /\ \A kv, data : UpdateUnderWay(kv, data) => UpdateUnderWay(kv, data)'
      /\ \A n : After(n)' = After(n)
      /\ \A n : Delivered(n) => Delivered(n)'
  BY <1>1 DEF UpdateUnderWay, After, Delivered
<1>4. SeedingTraced => SeedingTraced' BY <1>1, <1>3 DEF SeedingTraced
<1>5. GenerateTraced => GenerateTraced' BY <1>1, <1>3 DEF GenerateTraced
<1> QED BY <1>1, <1>2, <1>4, <1>5 DEF Traced

(* Traced is inductive. *)
LEMMA TracedStep == TypeOK /\ Traced /\ [Next]_vars => Traced'
<1> SUFFICES ASSUME TypeOK, Traced, [Next]_vars PROVE Traced' OBVIOUS
<1>1. CASE UNCHANGED vars
  <2>1. UNCHANGED <<From, LastBlock, SeedingFrom, InUpdate, Seeding,
                    Generating>>
    BY <1>1 DEF vars, locals, From, LastBlock, SeedingFrom, InUpdate, Seeding,
                Generating
  <2>2. UNCHANGED <<pc, call, reply, output, before, work, upd, gen>>
    BY <1>1 DEF vars, locals
  <2>3. OutputAllOrNothing' BY <2>2 DEF OutputAllOrNothing, Traced
  <2>4. /\ \A kv, data : UpdateUnderWay(kv, data) => UpdateUnderWay(kv, data)'
        /\ \A n : After(n)' = After(n)
        /\ \A n : Delivered(n) => Delivered(n)'
    BY <2>1, <2>2 DEF UpdateUnderWay, After, Delivered
  <2>5. SeedingTraced => SeedingTraced'
    BY <2>1, <2>2, <2>4 DEF SeedingTraced
  <2>6. GenerateTraced => GenerateTraced'
    BY <2>1, <2>2, <2>4 DEF GenerateTraced
  <2> QED BY <2>1, <2>3, <2>5, <2>6 DEF Traced
<1>2. CASE SeedingRejected \/ Uninstantiate
  <2>1. pc' = "idle" /\ call'.op # "generate"
    BY <1>2, Operations, CallsAssumption
    DEF SeedingRejected, Uninstantiate, Begin, Return, UninstantiateCall
  <2> QED BY <2>1 DEF Traced, Seeding, Generating, OutputAllOrNothing
<1>3. CASE GenerateRejected
  <2>1. pc' = "idle" /\ output' = CallerBuffer /\ reply'.status # "SUCCESS"
    BY <1>3, Replies DEF GenerateRejected, Return
  <2> QED BY <2>1 DEF Traced, Seeding, Generating, OutputAllOrNothing,
                      CallerBuffer
<1>4. CASE GenerateTooLong
  <2>1. PICK c \in GenerateCalls :
            /\ call' = c /\ pc' = "idle" /\ reply'.status # "SUCCESS"
            /\ output' = ErasedOutput(CallerBuffer, c.output_len)
    BY <1>4, Replies DEF GenerateTooLong, Begin, Return
  <2> QED BY <2>1 DEF Traced, Seeding, Generating, OutputAllOrNothing,
                      CallerBuffer, ErasedOutput
<1>5. CASE InstantiateBegins \/ ReseedBegins \/ GenerateBegins
  BY <1>5, TracedBegins
<1>6. CASE UpdAlloc
  <2>1. /\ pc = "upd_alloc" /\ pc' = "upd_K"
        /\ UNCHANGED <<output, call, before, work, upd>>
    BY <1>6 DEF UpdAlloc, Continue, Goto
  <2> QED BY <2>1, UnmovedInUpdate DEF InUpdate
<1>7. CASE UpdKey
  <2>1. /\ pc = "upd_K" /\ pc' = "upd_V"
        /\ UNCHANGED <<output, call, before, work>>
        /\ upd' = [upd EXCEPT !.key = RoundKey(work.K, work.V, upd.separator,
                                               upd.data)]
    BY <1>7 DEF UpdKey, Continue, Goto
  <2>2. /\ upd'.separator = upd.separator /\ upd'.data = upd.data
        /\ upd'.then = upd.then
        /\ upd'.key = RoundKey(work.K, work.V, upd.separator, upd.data)
    BY <2>1 DEF TypeOK
  <2> QED BY <2>1, <2>2, UnmovedInUpdate DEF InUpdate
<1>8. CASE UpdValue BY <1>8, TracedRound
<1>9. CASE GenerateBlock BY <1>9, TracedBlock
<1>10. CASE SeedingSucceeds
  BY <1>10
  DEF SeedingSucceeds, Continue, Return, Traced, Seeding, Generating,
      OutputAllOrNothing
<1>11. CASE GenerateSucceeds
  <2>1. /\ Generating /\ pc = "commit" /\ pc' = "idle"
        /\ UNCHANGED <<output, call, before>> /\ reply'.status = "SUCCESS"
    BY <1>11, Replies DEF GenerateSucceeds, Generating, Continue, Return
  <2>2. DOMAIN output = 1 .. MaxBytes + 2 BY DEF TypeOK, IsBytes
  <2>3. OutputAllOrNothing'
    BY <2>1, <2>2, WholeOutput DEF OutputAllOrNothing, From
  <2> QED BY <2>1, <2>3 DEF Traced, Seeding, Generating
<1>12. CASE Fault BY <1>12, TracedFailure
<1> QED
  BY <1>1, <1>2, <1>3, <1>4, <1>5, <1>6, <1>7, <1>8, <1>9, <1>10, <1>11,
     <1>12
  DEF Next, Updating, Generation

LEMMA InitiallyTraced == Init => Traced
BY DEF Init, Traced, Seeding, Generating, OutputAllOrNothing

(* Of the caller's buffer a success filled exactly the requested bytes,    *)
(* with the blocks of the state the call found; a failure, also one in the *)
(* update after the last block, left them all untouched or all zero.       *)
THEOREM OutputIsWhole == Spec => []OutputAllOrNothing
<1>1. Traced => OutputAllOrNothing BY DEF Traced
<1> QED BY <1>1, InitiallyTraced, TypeCorrect, TracedStep, PTL DEF Spec

-----------------------------------------------------------------------------
(* HmacDrbg implements DrbgMechanism.  A call is answered by the step that *)
(* returns; the steps before it are hidden by what the caller can see.     *)

Faults == {"MEMORY_ERROR", "INTERNAL_ERROR"}

(* The steps inside a call, and the one that makes it, are not seen. *)
LEMMA HiddenSteps ==
    ASSUME TypeOK, InstantiateBegins \/ ReseedBegins \/ GenerateBegins
                   \/ Updating \/ GenerateBlock
    PROVE  UNCHANGED Promise!vars
<1>1. UNCHANGED <<Visible, reply>>
  <2>1. CASE InstantiateBegins \/ ReseedBegins \/ GenerateBegins
    <3>1. /\ pc = "idle" /\ pc' # "idle" /\ before' = ctx /\ UNCHANGED reply
      BY <2>1
      DEF InstantiateBegins, ReseedBegins, GenerateBegins, Begin, StartUpdate,
          Goto
    <3> QED BY <3>1 DEF Visible
  <2>2. CASE Updating \/ GenerateBlock
    <3>1. /\ pc # "idle" /\ pc' # "idle" /\ UNCHANGED <<before, reply>>
      BY <2>2
      DEF Updating, UpdAlloc, UpdKey, UpdValue, GenerateBlock, StartUpdate,
          Goto, Continue, TypeOK
    <3> QED BY <3>1 DEF Visible
  <2> QED BY <2>1, <2>2
<1> QED BY <1>1 DEF Promise!vars

(* A call that is turned down, or fails, with nothing changed is a failure *)
(* of DrbgMechanism.                                                       *)
LEMMA RefusedFails ==
    ASSUME NEW c, NEW status, status # "SUCCESS", call' = c, Return(status),
           Visible' = Visible
    PROVE  Promise!Fails(c, status)
BY DEF Return, Promise!Fails, Promise!Reply, Reply

(* Each step that returns is a step of DrbgMechanism. *)
LEMMA SeedingRejectedAnswers ==
    ASSUME TypeOK, SeedingRejected
    PROVE  Promise!Next
<1>1. PICK c \in InstantiateCalls \cup ReseedCalls :
          LET invalid == IF c.op = "instantiate" THEN InstantiateInvalid(c)
                                                 ELSE ReseedInvalid(c)
          IN  /\ call' = c /\ pc = "idle" /\ pc' = "idle" /\ UNCHANGED ctx
              /\ Return(IF invalid THEN "INVALID_ARGUMENT" ELSE "MEMORY_ERROR")
  BY DEF SeedingRejected, Begin, Return
<1>2. Visible' = Visible BY <1>1 DEF Visible
<1>3. CASE c \in InstantiateCalls
  <2>1. c.op = "instantiate" BY <1>3, Operations
  <2>2. CASE InstantiateInvalid(c)
    <3>1. Promise!Fails(c, "INVALID_ARGUMENT")
      BY <1>1, <1>2, <2>1, <2>2, RefusedFails
    <3> QED BY <1>3, <2>2, <3>1
            DEF Promise!Next, Promise!Instantiate, MayInstantiate
  <2>3. CASE ~InstantiateInvalid(c)
    <3>1. Promise!Fails(c, "MEMORY_ERROR")
      BY <1>1, <1>2, <2>1, <2>3, RefusedFails
    <3> QED BY <1>3, <2>3, <3>1
            DEF Promise!Next, Promise!Instantiate, Promise!Fails,
                MayInstantiate, Torn
  <2> QED BY <2>2, <2>3
<1>4. CASE c \in ReseedCalls
  <2>1. c.op # "instantiate" BY <1>4, Operations
  <2>2. CASE ReseedInvalid(c)
    <3>1. Promise!Fails(c, "INVALID_ARGUMENT")
      BY <1>1, <1>2, <2>1, <2>2, RefusedFails
    <3> QED BY <1>4, <2>2, <3>1 DEF Promise!Next, Promise!Reseed, MayReseed
  <2>3. CASE ~ReseedInvalid(c)
    <3>1. Promise!Fails(c, "MEMORY_ERROR")
      BY <1>1, <1>2, <2>1, <2>3, RefusedFails
    <3> QED BY <1>4, <2>3, <3>1 DEF Promise!Next, Promise!Reseed, MayReseed
  <2> QED BY <2>2, <2>3
<1> QED BY <1>3, <1>4

(* The counter is compared with the interval as DrbgMechanism does. *)
LEMMA IntervalAgrees ==
    ASSUME TypeOK, Visible = ctx
    PROVE  /\ ReseedRequired(ctx.reseed_counter)
                <=> Visible.reseed_counter > ReseedInterval
           /\ ~ReseedRequired(ctx.reseed_counter)
                <=> Visible.reseed_counter <= ReseedInterval
BY SizesAssumption DEF ReseedRequired, TypeOK

LEMMA GenerateRefusedAnswers ==
    ASSUME TypeOK, GenerateRejected \/ GenerateTooLong
    PROVE  Promise!Next
<1>1. PICK c \in GenerateCalls :
          /\ call' = c /\ pc = "idle" /\ pc' = "idle" /\ UNCHANGED ctx
          /\ \/ GenerateInvalid(c) /\ Return("INVALID_ARGUMENT")
             \/ /\ ~GenerateInvalid(c) /\ ReseedRequired(ctx.reseed_counter)
                /\ Return("RESEED_REQUIRED")
             \/ /\ ~GenerateInvalid(c) /\ ~ReseedRequired(ctx.reseed_counter)
                /\ AdditionalTooLong(c)
                /\ Return("INVALID_ARGUMENT")
  <2>1. CASE GenerateRejected BY <2>1 DEF GenerateRejected, Begin, Return
  <2>2. CASE GenerateTooLong BY <2>2 DEF GenerateTooLong, Begin, Return
  <2> QED BY <2>1, <2>2
<1>2. Visible = ctx /\ Visible' = Visible BY <1>1 DEF Visible
<1>3. CASE GenerateInvalid(c)
  <2>1. Promise!Fails(c, "INVALID_ARGUMENT") BY <1>1, <1>2, <1>3, RefusedFails
  <2> QED BY <1>3, <2>1 DEF Promise!Next, Promise!Generate, MayGenerate
<1>4. CASE ~GenerateInvalid(c) /\ ReseedRequired(ctx.reseed_counter)
  <2>1. Promise!Fails(c, "RESEED_REQUIRED") BY <1>1, <1>2, <1>4, RefusedFails
  <2> QED BY <1>2, <1>4, <2>1, IntervalAgrees
          DEF Promise!Next, Promise!Generate, MayGenerate
<1>5. CASE ~GenerateInvalid(c) /\ ~ReseedRequired(ctx.reseed_counter)
  <2>1. AdditionalTooLong(c) /\ Promise!Fails(c, "INVALID_ARGUMENT")
    BY <1>1, <1>2, <1>5, RefusedFails
  <2> QED BY <1>2, <1>5, <2>1, IntervalAgrees
          DEF Promise!Next, Promise!Generate, MayGenerate
<1> QED BY <1>3, <1>4, <1>5

LEMMA UninstantiateAnswers ==
    ASSUME TypeOK, Uninstantiate
    PROVE  Promise!Next
<1>1. PICK c \in UninstantiateCalls :
          /\ pc = "idle" /\ pc' = "idle" /\ call' = c
          /\ IF c.ctx THEN ctx' = ZeroCtx ELSE ctx' = ctx
          /\ Return("SUCCESS")
  BY DEF Uninstantiate, Begin, Return
<1>2. c.op # "generate" BY CallsAssumption DEF UninstantiateCall
<1>3. reply' = Promise!Reply(c.op, "SUCCESS", <<>>)
  BY <1>1, <1>2 DEF Return, Reply, Promise!Reply
<1>4. Visible = ctx /\ Visible' = ctx' BY <1>1 DEF Visible
<1>5. IF c.ctx THEN /\ KV(Visible)' = Erased
                    /\ Visible'.reseed_counter = 0
               ELSE UNCHANGED <<KV(Visible), Visible.reseed_counter>>
  BY <1>1, <1>4 DEF KV, ZeroCtx, Erased
<1> QED BY <1>3, <1>5 DEF Promise!Next, Promise!Uninstantiate

(* A call that is under way was accepted, within the interval, and the     *)
(* caller still sees the context it was made on.                           *)
LEMMA CallUnderWay ==
    ASSUME TypeOK, ContextKept, Counted, Traced, pc # "idle"
    PROVE  /\ Visible = before /\ ctx = before
           /\ \/ call \in InstantiateCalls /\ MayInstantiate(call)
              \/ call \in ReseedCalls /\ MayReseed(call)
              \/ /\ call \in GenerateCalls /\ MayGenerate(call)
                 /\ ~AdditionalTooLong(call)
                 /\ Visible.reseed_counter <= ReseedInterval
<1>1. Visible = before /\ ctx = before BY DEF Visible, ContextKept
<1>2. CASE Generating
  BY <1>1, <1>2, RequestLength
  DEF Generating, Traced, GenerateTraced, Counted, MayGenerate
<1>3. CASE Seeding
  BY <1>1, <1>3, SeedingCalls
  DEF Traced, SeedingTraced, MayInstantiate, MayReseed
<1> QED BY <1>1, <1>2, <1>3 DEF Generating, Seeding

(* A failure under way. *)
LEMMA FaultAnswers ==
    ASSUME TypeOK, ContextKept, Counted, Traced, Fault
    PROVE  Promise!Next
<1>1. PICK s \in Faults : pc # "idle" /\ GivesUp(s)
  BY DEF Fault, UpdAllocFails, MacFails, Faults
<1>2. /\ pc' = "idle" /\ UNCHANGED <<call, ctx>>
      /\ Return(s) /\ s # "SUCCESS"
  BY <1>1 DEF GivesUp, Continue, Return, Faults
<1>3. Visible' = Visible BY <1>1, <1>2, CallUnderWay DEF Visible
<1>4. Promise!Fails(call, s) BY <1>2, <1>3, RefusedFails
<1>5. CASE call \in InstantiateCalls /\ MayInstantiate(call)
  BY <1>4, <1>5
  DEF Promise!Next, Promise!Instantiate, Promise!Fails, Torn, Faults
<1>6. CASE call \in ReseedCalls /\ MayReseed(call)
  BY <1>4, <1>6 DEF Promise!Next, Promise!Reseed, Faults
<1>7. CASE /\ call \in GenerateCalls /\ MayGenerate(call)
           /\ ~AdditionalTooLong(call)
           /\ Visible.reseed_counter <= ReseedInterval
  BY <1>4, <1>7 DEF Promise!Next, Promise!Generate, Faults
<1> QED BY <1>1, <1>5, <1>6, <1>7, CallUnderWay

LEMMA SeedingSucceedsAnswers ==
    ASSUME TypeOK, ContextKept, Counted, Traced, SeedingSucceeds
    PROVE  Promise!Next
<1>1. /\ pc = "commit" /\ Seeding /\ pc' = "idle" /\ UNCHANGED call
      /\ ctx' = [K |-> work.K, V |-> work.V, reseed_counter |-> 1]
      /\ reply' = Promise!Reply(call.op, "SUCCESS", <<>>)
  BY DEF SeedingSucceeds, Seeding, Return, Continue, Reply, Promise!Reply
<1>2. /\ work = Update(SeedingFrom, SeedMaterial(call))
      /\ call.op = "instantiate" => MayInstantiate(call)
      /\ call.op = "reseed" => MayReseed(call)
  BY <1>1 DEF Traced, SeedingTraced, MayInstantiate, MayReseed
<1>3. /\ Visible = before /\ Visible' = ctx'
      /\ KV(Visible)' = work /\ Visible'.reseed_counter = 1
  BY <1>1, CallUnderWay DEF Visible, KV, TypeOK
<1>4. CASE call \in InstantiateCalls /\ call.op = "instantiate"
  <2>1. KV(Visible)' \in Seeds(call)
    BY <1>2, <1>3, <1>4 DEF Seeds, SeedingFrom
  <2> QED BY <1>1, <1>2, <1>3, <1>4, <2>1
          DEF Promise!Next, Promise!Instantiate
<1>5. CASE call \in ReseedCalls /\ call.op = "reseed"
  <2>1. KV(Visible)' = Reseeded(KV(Visible), call)
    BY <1>2, <1>3, <1>5 DEF Reseeded, SeedingFrom
  <2> QED BY <1>1, <1>2, <1>3, <1>5, <2>1 DEF Promise!Next, Promise!Reseed
<1> QED BY <1>1, <1>4, <1>5, SeedingCalls

LEMMA GenerateSucceedsAnswers ==
    ASSUME TypeOK, ContextKept, Counted, Traced, GenerateSucceeds
    PROVE  Promise!Next
<1> DEFINE len == call.output_len
<1>1. /\ pc = "commit" /\ Generating /\ pc' = "idle"
      /\ UNCHANGED <<call, output>>
      /\ ctx' = AfterGenerate(ctx, work)
  BY DEF GenerateSucceeds, Generating, Return, Continue
<1>2. /\ len \in 1..MaxBytes
      /\ call \in GenerateCalls /\ call.op = "generate"
  BY <1>1, RequestLength
<1>3. /\ Visible = before /\ ctx = before
      /\ MayGenerate(call) /\ ~AdditionalTooLong(call)
      /\ Visible.reseed_counter <= ReseedInterval
  BY <1>1, <1>2, CallUnderWay, Operations
<1>4. SubSeq(output, 1, len) = Stream(KV(Visible), call)
  <2>1. SubSeq(output, 1, len) = [i \in 1..len |-> output[i]]
    <3>1. len \in 1 .. MaxBytes + 2 /\ MaxBytes + 2 \in Nat
      BY <1>2, BuffersAssumption
    <3> QED BY <3>1, PrefixOfBytes DEF TypeOK
  <2>2. \A i \in 1..len : output[i] = Blocks(From, len)[i]
    BY <1>1, <1>2, WholeOutput, BuffersAssumption
  <2>3. Blocks(From, len) = [i \in 1..len |-> Blocks(From, len)[i]]
    BY DEF Blocks
  <2>4. Stream(KV(Visible), call) = Blocks(From, len)
    BY <1>3 DEF Stream, From
  <2> QED BY <2>1, <2>2, <2>3, <2>4
<1>5. reply' = Promise!Reply(call.op, "SUCCESS", Stream(KV(Visible), call))
  BY <1>1, <1>2, <1>4 DEF GenerateSucceeds, Return, Reply, Promise!Reply
<1>6. work = Update(After(LastBlock), call.additional.data)
  BY <1>1 DEF Traced, GenerateTraced
<1>7. /\ Visible' = ctx' /\ KV(Visible)' = work
      /\ ctx'.reseed_counter = ctx.reseed_counter + 1
  BY <1>1 DEF Visible, AfterGenerate, KV, TypeOK
<1>8. KV(Visible)' = Advance(KV(Visible), call, Visible.reseed_counter)
  <2>1. After(LastBlock)
          = [From EXCEPT !.V = Chain(From, BlockOf(call.output_len))]
    BY FromShape DEF After, LastBlock
  <2> QED BY <1>3, <1>6, <1>7, <2>1 DEF Advance, From
<1> QED BY <1>2, <1>3, <1>5, <1>7, <1>8 DEF Promise!Next, Promise!Generate

(* Every step is one of DrbgMechanism, or is hidden. *)
LEMMA EveryStepAnswers ==
    TypeOK /\ ContextKept /\ Counted /\ Traced /\ [Next]_vars
      => [Promise!Next]_(Promise!vars)
<1> SUFFICES ASSUME TypeOK, ContextKept, Counted, Traced, [Next]_vars
             PROVE  Promise!Next \/ UNCHANGED Promise!vars
  OBVIOUS
<1>1. CASE UNCHANGED vars BY <1>1 DEF vars, Promise!vars, Visible
<1>2. CASE Next
  BY <1>2, HiddenSteps, SeedingRejectedAnswers, GenerateRefusedAnswers,
     UninstantiateAnswers, FaultAnswers, SeedingSucceedsAnswers,
     GenerateSucceedsAnswers
  DEF Next, Generation
<1> QED BY <1>1, <1>2

(* Every call of HMAC_DRBG, whatever MAC, sizes and calls, is the atomic   *)
(* call DrbgMechanism promises: the rounds and the block loop compute      *)
(* their closed forms, and a failure leaves no trace.                      *)
THEOREM PromiseIsKept == Spec => Promise!Spec
<1>1. Init => Promise!Init
  BY DEF Init, Promise!Init, Visible, ZeroCtx, KV, Erased, NoReply, Reply,
         Promise!NoReply, Promise!Reply
<1>2. Init => ContextKept /\ Counted
  BY SizesAssumption
  DEF Init, ContextKept, FailedCallKeepsState, NoReply, Reply, Counted, ZeroCtx
<1> QED
  BY <1>1, <1>2, InitiallyTraced, TypeCorrect, ContextKeptStep, CountedStep,
     TracedStep, EveryStepAnswers, PTL
  DEF Spec, Promise!Spec

-----------------------------------------------------------------------------
(* The history of a context.  Walks is defined by recursion, and like      *)
(* Chain it is unfolded by induction, here on the requests.                *)

(* The function that Walks reads its result from. *)
IsWalks(f, kv, n) ==
    f = [k \in 0..n |-> IF k = 0 THEN {[state |-> kv, served |-> <<>>]}
                                 ELSE Further(f[k - 1], k)]

(* It exists, for any number of requests. *)
LEMMA WalksExist ==
    ASSUME NEW kv, NEW n \in Nat
    PROVE  \E f : IsWalks(f, kv, n)
<1> DEFINE start == {[state |-> kv, served |-> <<>>]}
           S == {m \in Nat : \E f : IsWalks(f, kv, m)}
<1>1. 0 \in S
  <2>1. IsWalks([k \in 0..0 |-> start], kv, 0) BY DEF IsWalks
  <2> QED BY <2>1
<1>2. ASSUME NEW m \in Nat, m \in S PROVE m + 1 \in S
  <2>1. PICK f : IsWalks(f, kv, m) BY <1>2
  <2> DEFINE next == [k \in 0 .. m + 1 |->
                         IF k <= m THEN f[k] ELSE Further(f[m], m + 1)]
  <2>2. \A k \in 0..m : next[k] = f[k] BY <1>2
  <2>3. next[m + 1] = Further(f[m], m + 1) BY <1>2
  <2>4. \A k \in 0..m : f[k] = IF k = 0 THEN start ELSE Further(f[k - 1], k)
    BY <2>1 DEF IsWalks
  <2>5. DOMAIN next = 0 .. m + 1 /\ next = [k \in 0 .. m + 1 |-> next[k]]
    OBVIOUS
  <2> HIDE DEF next, start
  <2>6. ASSUME NEW k \in 0 .. m + 1
        PROVE  next[k] = IF k = 0 THEN start ELSE Further(next[k - 1], k)
    <3>1. CASE k \in 0..m
      <4>1. k = 0 \/ k - 1 \in 0..m BY <3>1
      <4> QED BY <2>2, <2>4, <3>1, <4>1
    <3>2. CASE k = m + 1
      <4>1. k # 0 /\ k - 1 = m /\ m \in 0..m BY <3>2
      <4> QED BY <2>2, <2>3, <3>2, <4>1
    <3> QED BY <3>1, <3>2
  <2>7. next = [k \in 0 .. m + 1 |->
                   IF k = 0 THEN start ELSE Further(next[k - 1], k)]
    BY <2>5, <2>6
  <2>8. IsWalks(next, kv, m + 1) BY <2>7 DEF IsWalks, start
  <2> QED BY <2>8
<1> HIDE DEF S
<1>3. n \in S BY <1>1, <1>2, SetInduction
<1> QED BY <1>3 DEF S

(* Two such functions agree where both are defined. *)
LEMMA WalksAgree ==
    ASSUME NEW kv, NEW n \in Nat, NEW m \in Nat, n <= m,
           NEW f, IsWalks(f, kv, n), NEW g, IsWalks(g, kv, m)
    PROVE  f[n] = g[n]
<1> DEFINE start == {[state |-> kv, served |-> <<>>]}
           S == {k \in Nat : k <= n => f[k] = g[k]}
<1>1. \A k \in 0..n : /\ f[k] = IF k = 0 THEN start ELSE Further(f[k - 1], k)
                      /\ g[k] = IF k = 0 THEN start ELSE Further(g[k - 1], k)
  <2> TAKE k \in 0..n
  <2>1. k \in 0..m OBVIOUS
  <2>2. f[k] = IF k = 0 THEN start ELSE Further(f[k - 1], k) BY DEF IsWalks
  <2>3. g[k] = IF k = 0 THEN start ELSE Further(g[k - 1], k)
    BY <2>1 DEF IsWalks
  <2> QED BY <2>2, <2>3
<1> HIDE DEF start
<1>2. 0 \in S BY <1>1
<1>3. ASSUME NEW k \in Nat, k \in S PROVE k + 1 \in S
  <2> SUFFICES ASSUME k + 1 <= n PROVE f[k + 1] = g[k + 1] BY <1>3
  <2>1. f[k] = g[k] BY <1>3
  <2>2. k + 1 \in 0..n /\ k + 1 # 0 /\ (k + 1) - 1 = k BY <1>3
  <2> QED BY <1>1, <2>1, <2>2
<1> HIDE DEF S
<1>4. n \in S BY <1>2, <1>3, SetInduction
<1> QED BY <1>4 DEF S

(* So a history of n + 1 requests is one of n, and one more request. *)
LEMMA WalksUnfold ==
    ASSUME NEW kv, NEW n \in Nat
    PROVE  /\ Walks(kv, 0) = {[state |-> kv, served |-> <<>>]}
           /\ Walks(kv, n + 1) = Further(Walks(kv, n), n + 1)
<1> DEFINE walks(m) == CHOOSE f : IsWalks(f, kv, m)
<1>1. \A m \in Nat : Walks(kv, m) = walks(m)[m] BY DEF Walks, IsWalks
<1>2. \A m \in Nat : IsWalks(walks(m), kv, m) BY WalksExist
<1> HIDE DEF walks
<1>3. Walks(kv, 0) = {[state |-> kv, served |-> <<>>]}
  <2>1. walks(0) = [k \in 0..0 |->
                       IF k = 0 THEN {[state |-> kv, served |-> <<>>]}
                                ELSE Further(walks(0)[k - 1], k)]
    BY <1>2 DEF IsWalks
  <2>2. 0 \in 0..0 OBVIOUS
  <2> QED BY <1>1, <2>1, <2>2
<1>4. Walks(kv, n + 1) = Further(Walks(kv, n), n + 1)
  <2>1. walks(n)[n] = walks(n + 1)[n] BY <1>2, WalksAgree
  <2>2. IsWalks(walks(n + 1), kv, n + 1) BY <1>2
  <2>3. n + 1 \in 0 .. n + 1 /\ n + 1 # 0 /\ (n + 1) - 1 = n OBVIOUS
  <2>4. walks(n + 1)[n + 1] = Further(walks(n + 1)[n], n + 1)
    BY <2>2, <2>3 DEF IsWalks
  <2> QED BY <1>1, <2>1, <2>4
<1> QED BY <1>3, <1>4

LEMMA FurtherByOne ==
    ASSUME NEW walks, NEW w \in walks, NEW c \in Servable, NEW n
    PROVE  [state  |-> Advance(w.state, c, n),
            served |-> Append(w.served, Request(w.state, c))]
               \in Further(walks, n)
BY DEF Further

(* The first update of a request is over: gen.from is what it led to. *)
FromKept ==
    Generating /\ ~(InUpdate /\ upd.then = "blocks") => gen.from = From

LEMMA FromKeptStep ==
    TypeOK /\ Traced /\ FromKept /\ [Next]_vars => FromKept'
<1> SUFFICES ASSUME TypeOK, Traced, FromKept, [Next]_vars, Generating',
                    ~(InUpdate /\ upd.then = "blocks")'
             PROVE  gen'.from = From'
  BY DEF FromKept
<1>1. CASE UNCHANGED vars
  BY <1>1 DEF vars, locals, FromKept, Generating, InUpdate, From
<1>2. CASE SeedingRejected \/ GenerateRejected \/ GenerateTooLong
           \/ Uninstantiate \/ SeedingSucceeds \/ GenerateSucceeds \/ Fault
  <2>1. pc' = "idle"
    BY <1>2
    DEF SeedingRejected, GenerateRejected, GenerateTooLong, Uninstantiate,
        SeedingSucceeds, GenerateSucceeds, Fault, UpdAllocFails, MacFails,
        GivesUp, Return
  <2> QED BY <2>1 DEF Generating
<1>3. CASE InstantiateBegins \/ ReseedBegins
  <2>1. call'.op # "generate"
    BY <1>3, Operations DEF InstantiateBegins, ReseedBegins, Begin
  <2> QED BY <2>1 DEF Generating
<1>4. CASE GenerateBegins
  <2>1. PICK c \in GenerateCalls :
            /\ call' = c /\ before' = ctx
            /\ IF c.additional.len > 0
               THEN StartUpdate(c.additional.data, "blocks")
               ELSE StartBlocks(KV(ctx))
    BY <1>4 DEF GenerateBegins, Begin
  <2>2. CASE c.additional.len > 0
    <3>1. pc' = "upd_alloc" /\ upd'.then = "blocks"
      BY <2>1, <2>2 DEF StartUpdate, Goto
    <3> QED BY <3>1 DEF InUpdate
  <2>3. CASE ~(c.additional.len > 0)
    BY <2>1, <2>3 DEF StartBlocks, From, ServedFrom
  <2> QED BY <2>2, <2>3
<1>5. CASE UpdAlloc \/ UpdKey
  <2>1. /\ UNCHANGED <<call, before, gen>> /\ upd'.then = upd.then
        /\ pc \in {"upd_alloc", "upd_K"} /\ pc' \in {"upd_K", "upd_V"}
    BY <1>5 DEF UpdAlloc, UpdKey, Continue, Goto, TypeOK
  <2> QED BY <2>1 DEF FromKept, Generating, InUpdate, From
<1>6. CASE UpdValue
  <2>1. /\ pc = "upd_V" /\ UNCHANGED <<call, before>> /\ InUpdate /\ Generating
    BY <1>6, RoundFollowed DEF InUpdate, Generating
  <2>2. From' = From BY <2>1 DEF From
  <2>3. CASE SecondRound(upd.separator, upd.data)
    <3>1. pc' = "upd_alloc" /\ upd'.then = upd.then /\ gen' = gen
      BY <1>6, <2>3, RoundFollowed DEF UpdValue
    <3> QED BY <2>1, <2>2, <3>1 DEF FromKept, InUpdate
  <2>4. CASE ~SecondRound(upd.separator, upd.data) /\ upd.then = "commit"
    <3>1. gen' = gen BY <1>6, <2>4 DEF UpdValue
    <3> QED BY <2>1, <2>2, <2>4, <3>1 DEF FromKept
  <2>5. CASE ~SecondRound(upd.separator, upd.data) /\ upd.then = "blocks"
    <3>1. gen'.from = work' BY <1>6, <2>5 DEF UpdValue, StartBlocks
    <3>2. /\ call.additional.len > 0
          /\ UpdateUnderWay(KV(before), call.additional.data)
      BY <2>1, <2>5 DEF Traced, GenerateTraced
    <3>3. work' = Update(KV(before), call.additional.data)
      BY <1>6, <2>5, <3>2, RoundMade
    <3> QED BY <2>2, <3>1, <3>2, <3>3 DEF From, ServedFrom
  <2> QED BY <2>3, <2>4, <2>5 DEF TypeOK
<1>7. CASE GenerateBlock
  <2>1. /\ pc = "blocks" /\ UNCHANGED <<call, before>> /\ Generating
        /\ gen'.from = gen.from
    BY <1>7 DEF GenerateBlock, Continue, Generating, TypeOK
  <2> QED BY <2>1 DEF FromKept, InUpdate, From
<1> QED
  BY <1>1, <1>2, <1>3, <1>4, <1>5, <1>6, <1>7
  DEF Next, Updating, Generation

(* ContextIsWalked, also while a call is under way: nothing but a commit   *)
(* touches the context.                                                    *)
Walked ==
    seed # <<>> =>
        [state |-> KV(ctx), served |-> served] \in Walks(seed, requests)

(* A request that is served extends the history of its seed by one. *)
LEMMA WalkedFurther ==
    ASSUME TypeOK, ContextKept, Counted, Traced, FromKept, Walked,
           GenerateSucceeds, seed # <<>>
    PROVE  [state |-> KV(ctx'), served |-> served']
               \in Walks(seed, requests + 1)
<1>1. /\ pc = "commit" /\ Generating /\ ~InUpdate
      /\ ctx.reseed_counter = requests + 1 /\ requests \in Nat
  BY DEF GenerateSucceeds, Generating, InUpdate, Counted, TypeOK
<1>2. call \in Servable /\ ctx = before
  BY <1>1, CallUnderWay, RequestLength DEF Servable, Traced, GenerateTraced
<1>3. From = ServedFrom(KV(ctx), call) /\ gen.from = From
  BY <1>1, <1>2 DEF From, FromKept
<1>4. KV(ctx') = Advance(KV(ctx), call, requests + 1)
  <2>1. /\ work = Update(After(LastBlock), call.additional.data)
        /\ work = [K |-> work.K, V |-> work.V]
    BY <1>1 DEF Traced, GenerateTraced, TypeOK
  <2>2. KV(ctx') = work BY <2>1 DEF GenerateSucceeds, AfterGenerate, KV, TypeOK
  <2>3. After(LastBlock)
          = [From EXCEPT !.V = Chain(From, BlockOf(call.output_len))]
    BY FromShape DEF After, LastBlock
  <2> QED BY <1>3, <2>1, <2>2, <2>3 DEF Advance
<1>5. served' = Append(served, Request(KV(ctx), call))
  BY <1>3 DEF GenerateSucceeds, Request
<1> DEFINE w == [state |-> KV(ctx), served |-> served]
<1>6. w \in Walks(seed, requests) /\ w.state = KV(ctx) /\ w.served = served
  BY DEF Walked
<1> HIDE DEF w
<1>7. [state |-> KV(ctx'), served |-> served']
          \in Further(Walks(seed, requests), requests + 1)
  BY <1>2, <1>4, <1>5, <1>6, FurtherByOne
<1> QED BY <1>1, <1>7, WalksUnfold

LEMMA WalkedStep ==
    TypeOK /\ ContextKept /\ Counted /\ Traced /\ FromKept /\ Walked
      /\ [Next]_vars
      => Walked'
<1> SUFFICES ASSUME TypeOK, ContextKept, Counted, Traced, FromKept, Walked,
                    [Next]_vars
             PROVE  Walked'
  OBVIOUS
<1>1. CASE UNCHANGED <<ctx, history>> BY <1>1 DEF history, Walked, KV
<1>2. CASE UNCHANGED vars \/ SeedingRejected \/ InstantiateBegins
           \/ ReseedBegins \/ GenerateRejected \/ GenerateTooLong
           \/ GenerateBegins \/ Updating \/ GenerateBlock \/ Fault
  <2>1. UNCHANGED <<ctx, history>>
    BY <1>2
    DEF vars, SeedingRejected, InstantiateBegins, ReseedBegins,
        GenerateRejected, GenerateTooLong, GenerateBegins, Updating, UpdAlloc,
        UpdKey, UpdValue, GenerateBlock, Fault, UpdAllocFails, MacFails,
        GivesUp
  <2> QED BY <1>1, <2>1
<1>3. CASE Uninstantiate
  <2>1. UNCHANGED <<ctx, history>> \/ seed' = <<>>
    BY <1>3 DEF Uninstantiate
  <2> QED BY <1>1, <2>1 DEF Walked
<1>4. CASE SeedingSucceeds
  <2>1. /\ seed' = work /\ requests' = 0 /\ served' = <<>>
        /\ KV(ctx') = work
    BY <1>4 DEF SeedingSucceeds, KV, TypeOK
  <2> QED BY <2>1, WalksUnfold DEF Walked, KV
<1>5. CASE GenerateSucceeds
  <2>1. seed' = seed /\ requests' = requests + 1 BY <1>5 DEF GenerateSucceeds
  <2> QED BY <1>5, <2>1, WalkedFurther DEF Walked, KV
<1> QED BY <1>2, <1>3, <1>4, <1>5 DEF Next, Generation

(* Walked is kept with the invariants it rests on. *)
LEMMA AlwaysWalked == Spec => [](TypeOK /\ Counted /\ Walked)
<1>1. Init => ContextKept /\ Counted /\ FromKept /\ Walked
  BY SizesAssumption
  DEF Init, ContextKept, FailedCallKeepsState, NoReply, Reply, Counted,
      ZeroCtx, FromKept, Generating, Walked
<1> QED
  BY <1>1, InitiallyTraced, TypeCorrect, ContextKeptStep, CountedStep,
     TracedStep, FromKeptStep, WalkedStep, PTL
  DEF Spec

(* Whatever calls failed in between, K and V are those that the seed and   *)
(* the requests served since then make, and those requests were served     *)
(* from the states on the way to them.                                     *)
THEOREM HistoryIsWalked == Spec => []ContextIsWalked
<1>1. Walked /\ CounterTracksRequests => ContextIsWalked
  BY DEF Walked, ContextIsWalked
<1> QED BY <1>1, AlwaysWalked, CounterIsExact, PTL

(* So a seeded context never holds a key that has served again, unless the *)
(* MAC itself leads from the seed back to it: nothing that a caller does,  *)
(* and no failure, brings one back.                                        *)
THEOREM KeysNeverReturn ==
    Spec => [](seed # <<>> /\ KeysApart(seed) => PastKeysGone)
<1>1. TypeOK /\ Counted /\ Walked =>
          (seed # <<>> /\ KeysApart(seed) => PastKeysGone)
  <2> SUFFICES ASSUME TypeOK, Counted, Walked, seed # <<>>, KeysApart(seed),
                      NEW i \in DOMAIN served
               PROVE  served[i].from.K # ctx.K
    BY DEF PastKeysGone
  <2>1. requests \in 0..ReseedInterval
    BY SizesAssumption DEF TypeOK, Counted
  <2> DEFINE w == [state |-> KV(ctx), served |-> served]
  <2>2. w \in Walks(seed, requests) BY DEF Walked
  <2>3. w.served[i].from.K # w.state.K BY <2>1, <2>2 DEF KeysApart
  <2> QED BY <2>3 DEF KV
<1> QED BY <1>1, AlwaysWalked, PTL

(* And then no two of its requests compute a block from the same input:    *)
(* their keys differ already.                                              *)
THEOREM StreamsApart ==
    Spec => [](seed # <<>> /\ KeysApart(seed) => NoStreamReuse)
<1>1. TypeOK /\ Counted /\ Walked =>
          (seed # <<>> /\ KeysApart(seed) => NoStreamReuse)
  <2> SUFFICES ASSUME TypeOK, Counted, Walked, seed # <<>>, KeysApart(seed),
                      NEW i \in DOMAIN served, NEW j \in DOMAIN served, i < j
               PROVE  Inputs(served[i]) \cap Inputs(served[j]) = {}
    BY DEF NoStreamReuse
  <2>1. requests \in 0..ReseedInterval
    BY SizesAssumption DEF TypeOK, Counted
  <2> DEFINE w == [state |-> KV(ctx), served |-> served]
  <2>2. w \in Walks(seed, requests) BY DEF Walked
  <2>3. served[i].from.K # served[j].from.K
    BY <2>1, <2>2 DEF KeysApart
  <2> QED BY <2>3 DEF Inputs
<1> QED BY <1>1, AlwaysWalked, PTL

-----------------------------------------------------------------------------
(* Progress.                                                               *)

(* The part of StepsLeft that the update under way makes up, and the part  *)
(* that comes after it.                                                    *)
RoundsLeft ==
    (CASE pc = "upd_alloc" -> 3 [] pc = "upd_K" -> 2 [] pc = "upd_V" -> 1)
      + IF SecondRound(upd.separator, upd.data) THEN 3 ELSE 0

Closing == IF call.additional.data = <<>> THEN 4 ELSE 7

AfterUpdate ==
    IF upd.then = "blocks" THEN LastBlock + Closing ELSE 1

LEMMA StepsOfUpdate ==
    ASSUME TypeOK, Traced, InUpdate
    PROVE  /\ StepsLeft = RoundsLeft + AfterUpdate
           /\ RoundsLeft \in 1..6
           /\ AfterUpdate \in Nat \ {0}
<1>1. RoundsLeft \in 1..6 BY DEF RoundsLeft, InUpdate
<1>2. AfterUpdate \in Nat \ {0}
  <2>1. CASE upd.then = "blocks"
    <3>1. Generating
      BY <2>1, Operations DEF TypeOK, Generating, InUpdate
    <3> QED BY <2>1, <3>1, RequestLength DEF AfterUpdate, Closing
  <2>2. CASE upd.then # "blocks" BY <2>2 DEF AfterUpdate
  <2> QED BY <2>1, <2>2
<1>3. StepsLeft = RoundsLeft + AfterUpdate
  BY DEF StepsLeft, RoundsLeft, AfterUpdate, Closing, LastBlock, InUpdate
<1> QED BY <1>1, <1>2, <1>3

(* Every step of a call leaves fewer. *)
LEMMA FewerLeft ==
    ASSUME TypeOK, Traced, Next, pc # "idle"
    PROVE  StepsLeft' \in 0 .. StepsLeft - 1
<1>1. InUpdate => /\ StepsLeft = RoundsLeft + AfterUpdate
                  /\ RoundsLeft \in 1..6
                  /\ AfterUpdate \in Nat \ {0}
  BY StepsOfUpdate
<1>2. Closing \in {4, 7} BY DEF Closing
<1>3. CASE Fault
  <2>1. pc' = "idle"
    BY <1>3 DEF Fault, UpdAllocFails, MacFails, GivesUp, Return
  <2>2. StepsLeft' = 0 BY <2>1 DEF StepsLeft
  <2>3. CASE InUpdate BY <1>1, <2>2, <2>3
  <2>4. CASE ~InUpdate
    <3>1. pc = "blocks" BY <1>3, <2>4 DEF Fault, UpdAllocFails, MacFails, InUpdate
    <3>2. Generating BY <3>1, Operations DEF TypeOK, Generating
    <3>3. StepsLeft = LastBlock - gen.block + 1 + Closing
      BY <3>1 DEF StepsLeft, LastBlock, Closing
    <3>4. gen.block \in 1..LastBlock BY <3>1, <3>2 DEF Traced, GenerateTraced
    <3> QED BY <1>2, <2>2, <3>2, <3>3, <3>4, RequestLength
  <2> QED BY <2>3, <2>4
<1>4. CASE SeedingSucceeds \/ GenerateSucceeds
  <2>1. pc = "commit" /\ pc' = "idle"
    BY <1>4 DEF SeedingSucceeds, GenerateSucceeds, Return
  <2>2. StepsLeft = 1 /\ StepsLeft' = 0 BY <2>1 DEF StepsLeft
  <2> QED BY <2>2
<1>5. CASE UpdAlloc \/ UpdKey
  <2>1. /\ InUpdate /\ InUpdate' /\ call' = call
        /\ upd'.separator = upd.separator /\ upd'.data = upd.data
        /\ upd'.then = upd.then
        /\ \/ pc = "upd_alloc" /\ pc' = "upd_K"
           \/ pc = "upd_K" /\ pc' = "upd_V"
    BY <1>5 DEF UpdAlloc, UpdKey, Goto, Continue, InUpdate, TypeOK
  <2>2. RoundsLeft' = RoundsLeft - 1 BY <2>1 DEF RoundsLeft, SecondRound
  <2>3. AfterUpdate' = AfterUpdate
    BY <2>1 DEF AfterUpdate, LastBlock, Closing
  <2>4. StepsLeft' = RoundsLeft' + AfterUpdate'
    BY <2>1
    DEF StepsLeft, RoundsLeft, AfterUpdate, Closing, LastBlock, InUpdate
  <2> QED BY <1>1, <2>1, <2>2, <2>3, <2>4
<1>6. CASE UpdValue
  <2>1. pc = "upd_V" /\ InUpdate /\ call' = call
    BY <1>6, RoundFollowed DEF InUpdate
  <2>2. UNCHANGED <<LastBlock, Closing>> BY <2>1 DEF LastBlock, Closing
  <2>3. CASE SecondRound(upd.separator, upd.data)
    <3>1. pc' = "upd_alloc" /\ upd'.separator = 1 /\ upd'.then = upd.then
      BY <1>6, <2>3, RoundFollowed
    <3>2. RoundsLeft = 4 /\ RoundsLeft' = 3
      BY <2>1, <2>3, <3>1 DEF RoundsLeft, SecondRound
    <3>3. StepsLeft' = RoundsLeft' + AfterUpdate'
      BY <3>1
      DEF StepsLeft, RoundsLeft, AfterUpdate, Closing, LastBlock
    <3>4. AfterUpdate' = AfterUpdate BY <2>2, <3>1 DEF AfterUpdate
    <3> QED BY <1>1, <2>1, <3>2, <3>3, <3>4
  <2>4. CASE ~SecondRound(upd.separator, upd.data) /\ upd.then = "commit"
    <3>1. pc' = "commit" BY <1>6, <2>4, RoundFollowed
    <3>2. StepsLeft' = 1 BY <3>1 DEF StepsLeft
    <3>3. RoundsLeft = 1 /\ AfterUpdate = 1
      BY <2>1, <2>4 DEF RoundsLeft, AfterUpdate
    <3> QED BY <1>1, <2>1, <3>2, <3>3
  <2>5. CASE ~SecondRound(upd.separator, upd.data) /\ upd.then = "blocks"
    <3>1. pc' = "blocks" /\ gen'.block = 1 BY <1>6, <2>5, RoundFollowed
    <3>2. StepsLeft' = LastBlock - 1 + 1 + Closing
      BY <2>1, <3>1 DEF StepsLeft, LastBlock, Closing
    <3>3. RoundsLeft = 1 /\ AfterUpdate = LastBlock + Closing
      BY <2>1, <2>5 DEF RoundsLeft, AfterUpdate
    <3>4. Generating
      BY <2>1, <2>5, Operations DEF TypeOK, Generating
    <3> QED BY <1>1, <1>2, <2>1, <3>2, <3>3, <3>4, RequestLength
  <2> QED BY <2>3, <2>4, <2>5 DEF TypeOK
<1>7. CASE GenerateBlock
  <2>1. /\ pc = "blocks" /\ Generating /\ call' = call
        /\ gen.block \in 1..LastBlock /\ LastBlock \in Nat
    BY <1>7, DeliveredGrows, RequestLength DEF GenerateBlock
  <2>2. StepsLeft = LastBlock - gen.block + 1 + Closing
    BY <2>1 DEF StepsLeft, LastBlock, Closing
  <2>3. CASE gen.block < LastBlock
    <3>1. pc' = "blocks" /\ gen'.block = gen.block + 1
      BY <1>7, <2>3 DEF GenerateBlock, NextBlock, Goto, LastBlock, TypeOK
    <3>2. StepsLeft' = LastBlock - (gen.block + 1) + 1 + Closing
      BY <2>1, <3>1 DEF StepsLeft, LastBlock, Closing
    <3> QED BY <1>2, <2>1, <2>2, <2>3, <3>2
  <2>4. CASE ~(gen.block < LastBlock)
    <3>1. /\ pc' = "upd_alloc" /\ upd'.separator = 0 /\ upd'.then = "commit"
          /\ upd'.data = call.additional.data
      BY <1>7, <2>4 DEF GenerateBlock, StartUpdate, Goto, LastBlock
    <3>2. StepsLeft' = RoundsLeft' + 1
      BY <3>1 DEF StepsLeft, RoundsLeft
    <3>3. RoundsLeft' = Closing - 1
      BY <3>1 DEF RoundsLeft, SecondRound, Closing
    <3> QED BY <1>2, <2>1, <2>2, <3>2, <3>3
  <2> QED BY <2>3, <2>4
<1>8. CASE \/ SeedingRejected \/ InstantiateBegins \/ ReseedBegins
           \/ GenerateRejected \/ GenerateTooLong \/ GenerateBegins
           \/ Uninstantiate
  BY <1>8
  DEF SeedingRejected, InstantiateBegins, ReseedBegins, GenerateRejected,
      GenerateTooLong, GenerateBegins, Uninstantiate, Begin
<1> QED
  BY <1>3, <1>4, <1>5, <1>6, <1>7, <1>8 DEF Next, Updating, Generation

(* Every step that a call under way takes, whether it fails or not, brings *)
(* its return nearer, by a measure that cannot fall for ever: no sizes, no *)
(* MACs and no failures make the rounds or the block loop run on.          *)
THEOREM EveryStepAdvances == Spec => CallsAdvance
<1>1. TypeOK /\ Traced /\ [Next]_vars
          => [pc # "idle" => StepsLeft' \in 0 .. StepsLeft - 1]_vars
  BY FewerLeft
<1> QED
  BY <1>1, InitiallyTraced, TypeCorrect, TracedStep, PTL
  DEF Spec, CallsAdvance

-----------------------------------------------------------------------------
(* A generate streams as many bytes as it was asked for, from any state:   *)
(* what the benchmark's theorems suppose of its mechanism.                 *)
LEMMA StreamIsWhole ==
    \A s, c : Stream(s, c) = [i \in 1 .. c.output_len |-> Stream(s, c)[i]]
BY DEF Stream, Blocks

(* The mechanism takes what the benchmark passes it: seed material as long *)
(* as the entropy source delivers, with nothing personal or additional,    *)
(* and every request up to the limit its descriptor names.                 *)
LEMMA DescriptorIsMet ==
    ASSUME EntropyBytes \in Nat, NonceBytes \in Nat, NEW e \in Seq(Nat),
           NEW n \in Seq(Nat), EntropyBytes <= Len(e), NonceBytes <= Len(n),
           Len(e) + Len(n) <= SizeMax, DigestSize + 1 <= SizeMax
    PROVE  LET none == NullBuffer(0)
               ServedRequest(len) ==
                   [op |-> "generate", ctx |-> TRUE, output |-> TRUE,
                    output_len |-> len, additional |-> none]
           IN
           /\ MayInstantiate([op |-> "instantiate", ctx |-> TRUE,
                              entropy |-> Bytes(e), nonce |-> Bytes(n),
                              personalization |-> none])
           /\ MayReseed([op |-> "reseed", ctx |-> TRUE, entropy |-> Bytes(e),
                         additional |-> none])
           /\ \A len \in 1 .. MaxBytes : /\ MayGenerate(ServedRequest(len))
                                         /\ ~AdditionalTooLong(ServedRequest(len))
<1>1. /\ Len(e) \in Nat /\ Len(n) \in Nat /\ SizeMax \in Nat
      /\ DigestSize \in Nat /\ MaxBytes \in Nat
  BY SizesAssumption, BuffersAssumption
<1> QED
  BY <1>1, SizesAssumption
  DEF MayInstantiate, InstantiateInvalid, MayReseed, ReseedInvalid,
      MayGenerate, GenerateInvalid, AdditionalTooLong, Bytes,
      NullBuffer
=============================================================================
