-------------------------- MODULE ExpertCacheProofs --------------------------
(***************************************************************************)
(* Theorems about ExpertCache, for every number of experts, layers, sets   *)
(* and ranks, and every hash.  Those about the device assume RingHolds: a  *)
(* block has no more ranks than the ring has staging buffers.              *)
(*                                                                         *)
(* ImplementsMoEBlock is about what a kernel finds in its slots when the   *)
(* device comes to it, long after the host has enqueued it.  IInv says     *)
(* what it will find while it still waits in its stream: Reads.  That      *)
(* rests on the directory being true of the time when all that is enqueued *)
(* has run (Final), which a staging buffer refilled too early would make   *)
(* false (Rings).  That every rank of a token is added once, and in order, *)
(* is a fact about the kernels in the stream (Order).                      *)
(***************************************************************************)
EXTENDS ExpertCache, SequenceTheorems, TLAPS

RingHolds == Ranks <= StageBufs

Kernel(o) == o.op \in {"gateup", "down"}
IsCopy(o) == o.op = "copy"

-----------------------------------------------------------------------------
(* The host.                                                               *)

HostTypes ==
    /\ TypeOK
    /\ out \in [1 .. Len(route) -> Seq(Contents)]
    /\ \A i \in DOMAIN copy : IsCopy(copy[i])
    /\ pc # "sync" => route \in Routes
    /\ pc = "rank" => turn.rank \in 1 .. Ranks /\ turn.tok \in 1 .. Len(route)
    /\ pc \in {"locate", "fill"} => Len(route) = 1 /\ turn = [rank |-> 1, tok |-> 1]
    /\ pc = "locate" => Len(plan) < Ranks /\ Len(misses) <= Len(plan)
    /\ pc = "fill" => Len(plan) = Ranks

-----------------------------------------------------------------------------
(* The streams and the ring.                                               *)

\* Which stream carries the copies of the block: in the batched path g_stream2,
\* with an event that g_stream waits for, else g_stream itself.
Streams ==
    /\ pc = "locate" => compute = <<>>
    /\ pc = "rank" => copy = <<>>
    /\ pc = "fill" => \A i \in DOMAIN compute : compute[i].op = "wait"
    /\ copy # <<>> => \A i \in DOMAIN compute : ~IsCopy(compute[i])
    /\ \A i \in DOMAIN copy : \E j \in DOMAIN compute :
          /\ compute[j].op = "wait" /\ compute[j].n = copy[i].n
          /\ \A k \in DOMAIN compute : Kernel(compute[k]) => j < k

\* How many claims of the ring ago, at ring index f, a buffer was claimed.
Age(f, st) == IF st < f THEN f - st ELSE f - st + StageBufs

\* The staging buffers of a batch are claimed one after the other, and none is
\* claimed twice: the copy of an expert not yet staged finds its buffer free.
Rings ==
    /\ pc \in {"locate", "fill"} =>
          \A i \in DOMAIN misses : Age(flag, misses[i].stage) = Len(misses) - i + 1
    /\ pc = "fill" =>
          \A i \in DOMAIN copy : Age(flag, copy[i].stage) = copy[i].n /\ copy[i].n > Len(misses)

-----------------------------------------------------------------------------
(* The directory.                                                          *)

\* Operation i is the last of the queue's first n that copies to slot b.
Last(q, n, b, i) ==
    /\ i \in DOMAIN q /\ i <= n /\ IsCopy(q[i]) /\ q[i].slot = b
    /\ \A j \in DOMAIN q : j <= n /\ IsCopy(q[j]) /\ q[j].slot = b => j <= i
Untouched(q, n, b) == \A j \in DOMAIN q : j <= n /\ IsCopy(q[j]) => q[j].slot # b

\* Slot b will hold e when the first n operations of g_stream (q) have run, and
\* with them the copies on g_stream2 (c) they wait for.
Holds(q, c, slots, stages, n, b, e) ==
    \/ Untouched(q, n, b) /\ Untouched(c, Len(c), b) /\ slots[b] = e
    \/ c = <<>> /\ \E i \in DOMAIN q : Last(q, n, b, i) /\ stages[q[i].stage] = e
    \/ Untouched(q, n, b) /\ \E i \in DOMAIN c : Last(c, Len(c), b, i) /\ stages[c[i].stage] = e

\* The directory tells what a slot holds when all that is enqueued has run.
Final ==
    \A b \in Slots : tag[b] # NoExpert => Holds(compute, copy, slot, stage, Len(compute), b, tag[b])

\* A batch has a slot for each rank located, two ranks never the same; it holds
\* the rank's expert or is a miss that is still to be filled.
Located ==
    pc \in {"locate", "fill"} =>
       /\ \A i, j \in DOMAIN plan : plan[i] = plan[j] => i = j
       /\ \A i \in DOMAIN plan :
             \/ /\ tag[plan[i]] = route[1][i]
                /\ \A m \in DOMAIN misses : misses[m].slot # plan[i]
             \/ \E m \in DOMAIN misses : misses[m].slot = plan[i] /\ misses[m].expert = route[1][i]
       /\ \A m, n \in DOMAIN misses : misses[m].slot = misses[n].slot => m = n
       /\ \A m \in DOMAIN misses : \E i \in DOMAIN plan : misses[m].slot = plan[i]

-----------------------------------------------------------------------------
(* The kernels.                                                            *)

\* The experts that the routes r make kernel o stand for.
Meant(r, o) == [k \in DOMAIN o.slots |-> r[CHOOSE t \in o.toks : TRUE][o.rank + k - 1]]

Launched(r, o) ==
    /\ o.toks # {} /\ o.toks \subseteq DOMAIN r
    /\ Len(o.slots) > 0 /\ o.rank + Len(o.slots) <= Ranks + 1
    /\ \A t \in o.toks, k \in DOMAIN o.slots : r[t][o.rank + k - 1] = Meant(r, o)[k]

\* A kernel finds its experts: the gate/up kernel when it runs, the down kernel
\* behind it as well, and what the gate/up kernel read last is the down
\* kernel's when that is next.
Reads ==
    /\ \A i \in DOMAIN compute : Kernel(compute[i]) =>
          /\ Launched(route, compute[i])
          /\ \A k \in DOMAIN compute[i].slots :
                Holds(compute, copy, slot, stage, i - 1, compute[i].slots[k], Meant(route, compute[i])[k])
    /\ \A i \in DOMAIN compute : compute[i].op = "down" =>
          IF i = 1 THEN half = Meant(route, compute[1])
          ELSE compute[i - 1] = [compute[i] EXCEPT !.op = "gateup"]

\* The rank that comes next for token t, once all that is enqueued has run.
NextRank(t) ==
    CASE pc = "sync" -> Ranks + 1
      [] pc = "rank" -> IF t < turn.tok THEN turn.rank + 1 ELSE turn.rank
      [] OTHER -> 1

\* Operation o adds ranks to the output of token t: the next after them is After.
Adds(o, t) == o.op = "down" /\ t \in o.toks
After(o) == o.rank + Len(o.slots)

\* The output of token t, so far o, holds the first ranks of its choice r, the
\* stream q adds those that follow, each once and in order, up to rank n.
Ordered(t, r, o, q, n) ==
    /\ Len(o) <= Ranks /\ Len(o) < n
    /\ \A k \in DOMAIN o : o[k] = r[k]
    /\ \A i \in DOMAIN q : Adds(q[i], t) =>
          /\ Len(o) < q[i].rank /\ After(q[i]) <= n
          /\ \A j \in DOMAIN q : j > i /\ Adds(q[j], t) => After(q[i]) <= q[j].rank
    /\ \A k \in 1 .. Ranks : Len(o) < k /\ k < n =>
          \E i \in DOMAIN q : Adds(q[i], t) /\ q[i].rank <= k /\ k < After(q[i])

Order ==
    /\ pc = "rank" /\ Agree => turn.tok = 1
    /\ \A t \in DOMAIN route : Ordered(t, route[t], out[t], compute, NextRank(t))

IInv == HostTypes /\ Streams /\ Rings /\ Final /\ Located /\ Reads /\ Order
-----------------------------------------------------------------------------
(* Facts about the operators.                                              *)

LEMMA OperationFacts ==
    /\ \A b \in Slots, st \in Stages, n \in 0 .. Ranks :
          CopyOp(b, st, n) \in Operations /\ IsCopy(CopyOp(b, st, n))
    /\ \A n \in 1 .. Ranks : WaitOp(n) \in Operations
    /\ \A o \in Operations :
          /\ o.op \in {"copy", "wait", "gateup", "down"}
          /\ IsCopy(o) => o.slot \in Slots /\ o.stage \in Stages /\ o.n \in 0 .. Ranks
          /\ Kernel(o) => /\ o.slots \in Seq(Slots) /\ o.rank \in 1 .. Ranks
                          /\ o.toks \in SUBSET (1 .. MaxSeqLen)
  BY DEF Operations, CopyOp, WaitOp, IsCopy, Kernel

LEMMA KernelsFacts ==
    ASSUME NEW toks \in SUBSET (1 .. MaxSeqLen), NEW bases \in Seq(Slots), NEW r \in 1 .. Ranks
    PROVE  /\ Kernels(toks, bases, r) \in Seq(Operations) /\ Len(Kernels(toks, bases, r)) = 2
           /\ Kernels(toks, bases, r)[1] = [op |-> "gateup", slots |-> bases, toks |-> toks, rank |-> r]
           /\ Kernels(toks, bases, r)[2] = [op |-> "down", slots |-> bases, toks |-> toks, rank |-> r]
  BY DEF Kernels, Operations

\* The ring index is one claim on, or back at the first buffer.
LEMMA ClaimFacts ==
    ASSUME flag \in Stages, Claim
    PROVE  /\ flag' \in Stages
           /\ flag' = IF flag + 1 = StageBufs THEN 0 ELSE flag + 1
  BY SizesAssumption DEF Stages, Claim

LEMMA RouteFacts ==
    ASSUME NEW r \in Routes
    PROVE  /\ Len(r) \in 1 .. MaxSeqLen /\ DOMAIN r = 1 .. Len(r)
           /\ \A t \in 1 .. Len(r) : r[t] \in [1 .. Ranks -> Experts]
           /\ \A t \in 1 .. Len(r), i, j \in 1 .. Ranks : r[t][i] = r[t][j] => i = j
  <1>1. PICK n \in 1 .. MaxSeqLen : r \in [1 .. n -> Choices]
    BY DEF Routes
  <1>2. Len(r) = n /\ DOMAIN r = 1 .. n
    BY <1>1, SizesAssumption
  <1> QED
    BY <1>1, <1>2 DEF Choices

LEMMA FunctionIsSeq ==
    ASSUME NEW S, NEW n \in Nat, NEW f \in [1 .. n -> S]
    PROVE  f \in Seq(S) /\ Len(f) = n
  OBVIOUS

LEMMA SlotFacts ==
    ASSUME NEW e \in Experts, layer \in Layers, lru \in [Layers \X Sets -> Ways]
    PROVE  /\ Way(e) \in Ways /\ Slot(e, Way(e)) \in Slots
           /\ <<layer, SetOf[e]>> \in Layers \X Sets
           /\ Hit(e) => tag[Slot(e, Way(e))] = e
           /\ Touch(e) => lru' \in [Layers \X Sets -> Ways]
  <1>1. SetOf[e] \in Sets /\ <<layer, SetOf[e]>> \in Layers \X Sets
    BY SetsAssumption
  <1>2. Way(e) \in Ways /\ (Hit(e) => tag[Slot(e, Way(e))] = e)
    BY <1>1 DEF Way, Hit, Ways
  <1>3. Slot(e, Way(e)) \in Slots
    BY <1>1, <1>2 DEF Slot, Slots
  <1>4. Touch(e) => lru' \in [Layers \X Sets -> Ways]
    BY <1>1, <1>2 DEF Touch, Ways
  <1> QED
    BY <1>1, <1>2, <1>3, <1>4

-----------------------------------------------------------------------------
(* The initial state, and what the types say of a turn.                    *)

LEMMA Initial == Init => IInv
  <1> SUFFICES ASSUME Init
               PROVE  IInv
    OBVIOUS
  <1>1. HostTypes
    BY ExpertsAssumption, LayersAssumption, SizesAssumption
       DEF Init, HostTypes, TypeOK, Contents, Stages, Ways, Layers
  <1>2. Streams /\ Rings /\ Located
    BY DEF Init, Streams, Rings, Located
  <1>3. Final
    BY DEF Init, Final
  <1>4. Reads /\ Order
    BY DEF Init, Reads, Order, Ordered, Agree
  <1> QED
    BY <1>1, <1>2, <1>3, <1>4 DEF IInv

\* The rank whose turn it is, and the tokens it is run for.
LEMMA TurnFacts ==
    ASSUME HostTypes, pc = "rank"
    PROVE  /\ Wanted \in Experts /\ Turn \in SUBSET DOMAIN route /\ Turn # {}
           /\ turn.tok \in Turn \/ Agree
           /\ \A t \in Turn : route[t][turn.rank] = Wanted
           /\ DOMAIN route \subseteq 1 .. MaxSeqLen
  <1>1. /\ route \in Routes /\ Len(route) \in 1 .. MaxSeqLen /\ DOMAIN route = 1 .. Len(route)
        /\ \A t \in 1 .. Len(route) : route[t] \in [1 .. Ranks -> Experts]
    BY RouteFacts DEF HostTypes
  <1>2. turn.rank \in 1 .. Ranks /\ turn.tok \in 1 .. Len(route)
    BY DEF HostTypes
  <1> QED
    BY <1>1, <1>2, SizesAssumption DEF Wanted, Turn, Agree

\* A turn taken.
LEMMA AdvanceFacts ==
    ASSUME HostTypes, pc = "rank", Advance
    PROVE  /\ turn' \in [rank : 1 .. Ranks + 1, tok : 1 .. MaxSeqLen]
           /\ pc' \in {"rank", "sync"}
           /\ pc' = "rank" => turn'.rank \in 1 .. Ranks /\ turn'.tok \in 1 .. Len(route)
  <1>1. Len(route) \in 1 .. MaxSeqLen
    BY RouteFacts DEF HostTypes
  <1>2. turn.rank \in 1 .. Ranks /\ turn.tok \in 1 .. Len(route)
    BY DEF HostTypes
  <1>3. CASE ~Agree /\ turn.tok < Len(route)
    <2>1. turn' = [turn EXCEPT !.tok = turn.tok + 1] /\ pc' = "rank"
      BY <1>3 DEF Advance
    <2>2. turn' = [rank |-> turn.rank, tok |-> turn.tok + 1]
      BY <2>1 DEF HostTypes, TypeOK
    <2>3. /\ turn'.rank = turn.rank /\ turn'.tok = turn.tok + 1
          /\ turn.rank \in 1 .. Ranks + 1 /\ turn.tok + 1 \in 1 .. Len(route)
          /\ turn.tok + 1 \in 1 .. MaxSeqLen
      BY <1>1, <1>2, <1>3, <2>2, SizesAssumption
    <2> QED
      BY <1>2, <2>1, <2>2, <2>3
  <1>4. CASE ~(~Agree /\ turn.tok < Len(route))
    <2>1. turn' = [rank |-> turn.rank + 1, tok |-> 1]
          /\ pc' = IF turn.rank = Ranks THEN "sync" ELSE "rank"
      BY <1>4 DEF Advance
    <2> QED
      BY <1>1, <1>2, <2>1, SizesAssumption
  <1> QED
    BY <1>3, <1>4

\* What every step leaves of the types, where it leaves them alone.
LEMMA EnqueueTypes ==
    ASSUME HostTypes,
           NEW ops \in Seq(Operations)
    PROVE  compute \o ops \in Seq(Operations)
  BY ConcatProperties DEF HostTypes, TypeOK

LEMMA HostStep ==
    ASSUME HostTypes, [Next]_vars
    PROVE  HostTypes'
  <1>1. ASSUME NEW r \in Routes, Route(r)
        PROVE  HostTypes'
    <2>1. Len(r) \in 1 .. MaxSeqLen
      BY RouteFacts
    <2>2. layer' \in Layers
      BY <1>1, LayersAssumption DEF Route, Layers, HostTypes, TypeOK
    <2>3. out' \in [1 .. Len(r) -> Seq(Contents)] /\ Len(out') = Len(r)
      BY <1>1, <2>1 DEF Route
    <2> QED
      BY <1>1, <2>1, <2>2, <2>3, SizesAssumption DEF Route, cache, ring, HostTypes, TypeOK
  <1>2. CASE Locate
    <2>1. route \in Routes /\ Len(route) = 1 /\ pc = "locate" /\ Len(plan) < Ranks
          /\ Len(misses) <= Len(plan)
      BY <1>2 DEF Locate, HostTypes
    <2>2. route[1][Len(plan) + 1] \in Experts
      <3>1. Len(plan) + 1 \in 1 .. Ranks
        BY <2>1, SizesAssumption DEF HostTypes, TypeOK
      <3>2. route[1] \in [1 .. Ranks -> Experts]
        BY <2>1, RouteFacts
      <3> QED
        BY <3>1, <3>2
    <2> DEFINE e == route[1][Len(plan) + 1]
               base == Slot(e, Way(e))
               miss == [expert |-> e, slot |-> base, stage |-> flag]
    <2> HIDE DEF e
    <2>3. base \in Slots /\ lru' \in [Layers \X Sets -> Ways]
      BY <1>2, <2>2, SlotFacts DEF Locate, HostTypes, TypeOK, e
    <2>4. flag' \in Stages
      BY <1>2, ClaimFacts DEF Locate, HostTypes, TypeOK
    <2>5. plan' = Append(plan, base) /\ misses' \in {misses, Append(misses, miss)}
          /\ pc' \in {"rank", "fill", "locate"} /\ (pc' = "locate" => Len(plan') # Ranks)
          /\ (pc' = "fill" => Len(plan') = Ranks)
      BY <1>2 DEF Locate, e
    <2>6. plan' \in Seq(Slots) /\ Len(plan') = Len(plan) + 1
      BY <2>3, <2>5 DEF HostTypes, TypeOK
    <2>7. misses' \in Seq([expert : Experts, slot : Slots, stage : Stages])
          /\ Len(misses') <= Len(misses) + 1
      <3> DEFINE Miss == [expert : Experts, slot : Slots, stage : Stages]
      <3>1. miss \in Miss
        BY <2>2, <2>3 DEF HostTypes, TypeOK, e
      <3>2. misses \in Seq(Miss)
        BY DEF HostTypes, TypeOK
      <3> HIDE DEF Miss, miss
      <3>3. misses' \in Seq(Miss) /\ Len(misses') <= Len(misses) + 1
        BY <2>5, <3>1, <3>2, AppendProperties
      <3> QED
        BY <3>3 DEF Miss
    <2>8. UNCHANGED <<layer, route, turn, tag, stage, device, compute, copy>>
      BY <1>2 DEF Locate
    <2>9. Len(plan) \in Nat /\ Len(misses) \in Nat /\ Ranks \in Nat
      BY SizesAssumption DEF HostTypes, TypeOK
    <2>10. TypeOK'
      <3>1. Len(plan') <= Ranks /\ Len(misses') <= Ranks
        BY <2>1, <2>6, <2>7, <2>9
      <3>2. pc' \in {"sync", "locate", "fill", "rank"}
        BY <2>5
      <3> QED
        BY <2>3, <2>4, <2>6, <2>7, <2>8, <3>1, <3>2 DEF device, HostTypes, TypeOK
    <2>11. /\ pc' = "locate" => Len(plan') < Ranks /\ Len(misses') <= Len(plan')
           /\ pc' = "fill" => Len(plan') = Ranks
      BY <2>1, <2>5, <2>6, <2>7, <2>9
    <2>12. UNCHANGED <<route, turn, copy, out>>
      BY <2>8 DEF device
    <2>13. turn.rank \in 1 .. Ranks /\ turn.tok \in 1 .. Len(route)
      BY <2>1, SizesAssumption DEF HostTypes
    <2> QED
      BY <2>1, <2>5, <2>10, <2>11, <2>12, <2>13 DEF HostTypes
  <1>3. CASE Fill
    <2>1. /\ misses # <<>> /\ Head(misses) \in [expert : Experts, slot : Slots, stage : Stages]
          /\ Tail(misses) \in Seq([expert : Experts, slot : Slots, stage : Stages])
          /\ Len(misses) \in 1 .. Ranks /\ Len(Tail(misses)) <= Ranks
      <3> DEFINE Miss == [expert : Experts, slot : Slots, stage : Stages]
      <3>1. misses # <<>> /\ misses \in Seq(Miss) /\ Len(misses) <= Ranks
        BY <1>3 DEF Fill, HostTypes, TypeOK
      <3> HIDE DEF Miss
      <3>2. /\ Head(misses) \in Miss /\ Tail(misses) \in Seq(Miss)
            /\ Len(misses) \in Nat \ {0} /\ Len(Tail(misses)) = Len(misses) - 1
        BY <3>1, HeadTailProperties, EmptySeq
      <3> QED
        BY <3>1, <3>2, SizesAssumption DEF Miss
    <2>2. /\ CopyOp(Head(misses).slot, Head(misses).stage, Len(misses)) \in Operations
          /\ IsCopy(CopyOp(Head(misses).slot, Head(misses).stage, Len(misses)))
          /\ WaitOp(Len(misses)) \in Operations
      BY <2>1, OperationFacts
    <2>3. /\ compute' \in Seq(Operations) /\ copy' \in Seq(Operations)
          /\ \A i \in DOMAIN copy' : IsCopy(copy'[i])
      BY <1>3, <2>2 DEF Fill, HostTypes, TypeOK
    <2>4. /\ stage' \in [Stages -> Contents] /\ tag' \in [Slots -> Contents]
      BY <1>3, <2>1 DEF Fill, HostTypes, TypeOK, Contents
    <2> QED
      BY <1>3, <2>1, <2>3, <2>4 DEF Fill, host, device, HostTypes, TypeOK
  <1>4. CASE Launch
    <2>1. Kernels({1}, plan, 1) \in Seq(Operations)
      <3>1. {1} \in SUBSET (1 .. MaxSeqLen) /\ plan \in Seq(Slots) /\ 1 \in 1 .. Ranks
        BY SizesAssumption DEF HostTypes, TypeOK
      <3> QED
        BY <3>1, KernelsFacts
    <2>2. compute' \in Seq(Operations)
      BY <1>4, <2>1, EnqueueTypes DEF Launch
    <2> QED
      BY <1>4, <2>2 DEF Launch, located, cache, ring, device, HostTypes, TypeOK
  <1>5. CASE RankHit
    <2>1. pc = "rank" /\ Wanted \in Experts /\ Turn \in SUBSET (1 .. MaxSeqLen)
      BY <1>5, TurnFacts DEF RankHit
    <2>2. Slot(Wanted, Way(Wanted)) \in Slots /\ lru' \in [Layers \X Sets -> Ways]
      BY <1>5, <2>1, SlotFacts DEF RankHit, HostTypes, TypeOK
    <2>3. Kernels(Turn, <<Slot(Wanted, Way(Wanted))>>, turn.rank) \in Seq(Operations)
      <3>1. <<Slot(Wanted, Way(Wanted))>> \in Seq(Slots) /\ turn.rank \in 1 .. Ranks
        BY <2>1, <2>2 DEF HostTypes
      <3> QED
        BY <2>1, <3>1, KernelsFacts
    <2>4. compute' \in Seq(Operations)
      BY <1>5, <2>3, EnqueueTypes DEF RankHit
    <2> QED
      BY <1>5, <2>1, <2>2, <2>4, AdvanceFacts DEF RankHit, located, ring, device, HostTypes, TypeOK
  <1>6. CASE RankMiss
    <2> DEFINE base == Slot(Wanted, Way(Wanted))
    <2>1. pc = "rank" /\ Wanted \in Experts /\ Turn \in SUBSET (1 .. MaxSeqLen)
      BY <1>6, TurnFacts DEF RankMiss
    <2>2. base \in Slots /\ lru' \in [Layers \X Sets -> Ways]
      BY <1>6, <2>1, SlotFacts DEF RankMiss, HostTypes, TypeOK
    <2>3. Kernels(Turn, <<base>>, turn.rank) \in Seq(Operations)
      <3>1. <<base>> \in Seq(Slots) /\ turn.rank \in 1 .. Ranks
        BY <2>1, <2>2 DEF HostTypes
      <3> QED
        BY <2>1, <3>1, KernelsFacts
    <2>4. CopyOp(base, flag, 0) \in Operations
      BY <2>2, SizesAssumption, OperationFacts DEF HostTypes, TypeOK
    <2>5. compute' \in Seq(Operations)
      <3>1. Append(compute, CopyOp(base, flag, 0)) \in Seq(Operations)
        BY <2>4 DEF HostTypes, TypeOK
      <3> QED
        BY <1>6, <2>3, <3>1, ConcatProperties DEF RankMiss
    <2>6. /\ stage' \in [Stages -> Contents] /\ tag' \in [Slots -> Contents] /\ flag' \in Stages
      BY <1>6, <2>1, <2>2, ClaimFacts DEF RankMiss, HostTypes, TypeOK, Contents
    <2> QED
      BY <1>6, <2>1, <2>2, <2>5, <2>6, AdvanceFacts DEF RankMiss, located, device, HostTypes, TypeOK
  <1>7. CASE CopyStream
    <2>1. /\ Head(copy) \in Operations /\ IsCopy(Head(copy)) /\ Tail(copy) \in Seq(Operations)
          /\ \A i \in DOMAIN Tail(copy) : IsCopy(Tail(copy)[i])
      BY <1>7, HeadTailProperties DEF CopyStream, HostTypes, TypeOK
    <2>2. slot' \in [Slots -> Contents]
      BY <1>7, <2>1, OperationFacts DEF CopyStream, RunCopy, HostTypes, TypeOK
    <2> QED
      BY <1>7, <2>1, <2>2 DEF CopyStream, host, located, cache, ring, HostTypes, TypeOK
  <1>8. CASE ComputeStream
    <2> DEFINE o == Head(compute)
               read == [i \in DOMAIN o.slots |-> slot[o.slots[i]]]
               used == [i \in DOMAIN o.slots |-> IF half[i] = read[i] THEN read[i] ELSE NoExpert]
    <2>1. o \in Operations /\ Tail(compute) \in Seq(Operations)
      BY <1>8, HeadTailProperties DEF ComputeStream, HostTypes, TypeOK
    <2> HIDE DEF o
    <2>2. o.op = "copy" => [slot EXCEPT ![o.slot] = stage[o.stage]] \in [Slots -> Contents]
      BY <2>1, OperationFacts DEF IsCopy, HostTypes, TypeOK
    <2>3. Kernel(o) => /\ read \in Seq(Contents) /\ used \in Seq(Contents)
      <3> SUFFICES ASSUME Kernel(o)
                   PROVE  read \in Seq(Contents) /\ used \in Seq(Contents)
        OBVIOUS
      <3>1. /\ o.slots \in Seq(Slots) /\ DOMAIN o.slots = 1 .. Len(o.slots) /\ Len(o.slots) \in Nat
            /\ \A i \in 1 .. Len(o.slots) : o.slots[i] \in Slots
        BY <2>1, OperationFacts
      <3>2. read \in [1 .. Len(o.slots) -> Contents] /\ used \in [1 .. Len(o.slots) -> Contents]
        BY <3>1 DEF HostTypes, TypeOK, Contents
      <3> QED
        BY <3>1, <3>2, FunctionIsSeq
    <2>4. /\ slot' \in [Slots -> Contents] /\ half' \in Seq(Contents)
          /\ out' \in [1 .. Len(route) -> Seq(Contents)]
      <3>1. CASE o.op = "wait" /\ UNCHANGED device
        BY <3>1 DEF device, HostTypes, TypeOK
      <3>2. CASE o.op = "copy" /\ RunCopy(o) /\ UNCHANGED <<half, out>>
        BY <2>2, <3>2 DEF RunCopy, HostTypes, TypeOK
      <3>3. CASE o.op = "gateup" /\ half' = read /\ UNCHANGED <<slot, out>>
        BY <2>3, <3>3 DEF Kernel, HostTypes, TypeOK
      <3>4. CASE /\ o.op = "down" /\ UNCHANGED <<slot, half>>
                 /\ out' = [t \in DOMAIN out |-> IF t \in o.toks THEN out[t] \o used ELSE out[t]]
        <4>1. used \in Seq(Contents)
          BY <2>3, <3>4 DEF Kernel
        <4> QED
          BY <3>4, <4>1, ConcatProperties DEF HostTypes, TypeOK
      <3> QED
        BY <1>8, <3>1, <3>2, <3>3, <3>4 DEF ComputeStream, o
    <2>5. Len(out') = Len(route)
      <3>1. Len(route) \in Nat
        BY RouteFacts DEF HostTypes, TypeOK
      <3> QED
        BY <2>4, <3>1, FunctionIsSeq
    <2> QED
      BY <1>8, <2>1, <2>4, <2>5 DEF ComputeStream, host, located, cache, ring, HostTypes, TypeOK
  <1>9. CASE UNCHANGED vars
    BY <1>9 DEF vars, host, located, cache, ring, device, HostTypes, TypeOK
  <1> QED
    BY <1>1, <1>2, <1>3, <1>4, <1>5, <1>6, <1>7, <1>8, <1>9 DEF Next, Block

-----------------------------------------------------------------------------
(* What a slot will hold, as the queues grow and shrink.                   *)

\* Operations are put behind, none of those that count a copy to the slot, and
\* no staging buffer of a copy still to run is refilled.
LEMMA HoldsOn ==
    ASSUME NEW q \in Seq(Operations), NEW q2 \in Seq(Operations), NEW c \in Seq(Operations),
           NEW sl, NEW st, NEW st2, NEW n \in 0 .. Len(q), NEW m \in n .. Len(q2), NEW b, NEW e,
           Holds(q, c, sl, st, n, b, e),
           \A i \in 1 .. n : q2[i] = q[i],
           \A i \in n + 1 .. m : IsCopy(q2[i]) => q2[i].slot # b,
           \A i \in 1 .. Len(q) : IsCopy(q[i]) => st2[q[i].stage] = st[q[i].stage],
           \A i \in 1 .. Len(c) : IsCopy(c[i]) => st2[c[i].stage] = st[c[i].stage]
    PROVE  Holds(q2, c, sl, st2, m, b, e)
  <1>1. /\ Len(q) \in Nat /\ Len(q2) \in Nat /\ Len(c) \in Nat
        /\ DOMAIN q = 1 .. Len(q) /\ DOMAIN q2 = 1 .. Len(q2) /\ DOMAIN c = 1 .. Len(c)
    OBVIOUS
  <1>2. Untouched(q, n, b) => Untouched(q2, m, b)
    BY <1>1 DEF Untouched
  <1>3. CASE Untouched(q, n, b) /\ Untouched(c, Len(c), b) /\ sl[b] = e
    BY <1>2, <1>3 DEF Holds
  <1>4. CASE c = <<>> /\ \E i \in DOMAIN q : Last(q, n, b, i) /\ st[q[i].stage] = e
    <2>1. PICK i \in DOMAIN q : Last(q, n, b, i) /\ st[q[i].stage] = e
      BY <1>4
    <2>2. i \in DOMAIN q2 /\ Last(q2, m, b, i) /\ st2[q2[i].stage] = e
      BY <1>1, <2>1 DEF Last
    <2> QED
      BY <1>4, <2>2 DEF Holds
  <1>5. CASE Untouched(q, n, b) /\ \E i \in DOMAIN c : Last(c, Len(c), b, i) /\ st[c[i].stage] = e
    <2>1. PICK i \in DOMAIN c : Last(c, Len(c), b, i) /\ st[c[i].stage] = e
      BY <1>5
    <2>2. st2[c[i].stage] = e
      BY <1>1, <2>1 DEF Last
    <2> QED
      BY <1>2, <1>5, <2>1, <2>2 DEF Holds
  <1> QED
    BY <1>3, <1>4, <1>5 DEF Holds

\* A copy on g_stream delivers what it was staged for.
LEMMA HoldsCopied ==
    ASSUME NEW q \in Seq(Operations), NEW sl, NEW st, NEW b, NEW e,
           NEW n \in 1 .. Len(q), NEW m \in n .. Len(q),
           IsCopy(q[n]), q[n].slot = b, st[q[n].stage] = e,
           \A i \in n + 1 .. m : ~IsCopy(q[i])
    PROVE  Holds(q, <<>>, sl, st, m, b, e)
  <1>1. Len(q) \in Nat /\ DOMAIN q = 1 .. Len(q)
    OBVIOUS
  <1>2. Last(q, m, b, n)
    BY <1>1 DEF Last
  <1> QED
    BY <1>1, <1>2 DEF Holds

\* A copy is put behind the others on g_stream2.
LEMMA HoldsFilled ==
    ASSUME NEW q \in Seq(Operations), NEW q2 \in Seq(Operations), NEW c \in Seq(Operations),
           NEW o \in Operations, NEW sl, NEW st, NEW st2, NEW b, NEW e,
           \A i \in 1 .. Len(q) : ~IsCopy(q[i]), \A i \in 1 .. Len(q2) : ~IsCopy(q2[i]),
           \A i \in 1 .. Len(c) : IsCopy(c[i]) => st2[c[i].stage] = st[c[i].stage],
           IsCopy(o),
           IF o.slot = b THEN st2[o.stage] = e ELSE Holds(q, c, sl, st, Len(q), b, e)
    PROVE  Holds(q2, Append(c, o), sl, st2, Len(q2), b, e)
  <1> DEFINE c2 == Append(c, o)
  <1>1. /\ Len(c) \in Nat /\ DOMAIN c = 1 .. Len(c) /\ DOMAIN c2 = 1 .. Len(c2)
        /\ Len(c2) = Len(c) + 1 /\ c2[Len(c) + 1] = o
        /\ \A i \in 1 .. Len(c) : c2[i] = c[i]
        /\ DOMAIN q = 1 .. Len(q) /\ DOMAIN q2 = 1 .. Len(q2)
    BY AppendProperties
  <1> HIDE DEF c2
  <1>2. Untouched(q2, Len(q2), b)
    BY <1>1 DEF Untouched
  <1>3. CASE o.slot = b
    <2>1. Len(c) + 1 \in DOMAIN c2 /\ Last(c2, Len(c2), b, Len(c) + 1)
      BY <1>1, <1>3 DEF Last
    <2> QED
      BY <1>1, <1>2, <1>3, <2>1 DEF Holds, c2
  <1>4. CASE o.slot # b /\ Untouched(c, Len(c), b) /\ sl[b] = e
    <2>1. Untouched(c2, Len(c2), b)
      BY <1>1, <1>4 DEF Untouched
    <2> QED
      BY <1>2, <1>4, <2>1 DEF Holds, c2
  <1>5. CASE o.slot # b /\ \E i \in DOMAIN q : Last(q, Len(q), b, i)
    BY <1>1, <1>5 DEF Last
  <1>6. CASE o.slot # b /\ \E i \in DOMAIN c : Last(c, Len(c), b, i) /\ st[c[i].stage] = e
    <2>1. PICK i \in DOMAIN c : Last(c, Len(c), b, i) /\ st[c[i].stage] = e
      BY <1>6
    <2>2. i \in DOMAIN c2 /\ Last(c2, Len(c2), b, i) /\ st2[c2[i].stage] = e
      BY <1>1, <1>6, <2>1 DEF Last
    <2> QED
      BY <1>2, <2>2 DEF Holds, c2
  <1> QED
    BY <1>3, <1>4, <1>5, <1>6 DEF Holds

LEMMA TailFacts ==
    ASSUME NEW S, NEW q \in Seq(S), q # <<>>
    PROVE  /\ Len(q) \in Nat \ {0} /\ DOMAIN q = 1 .. Len(q) /\ Head(q) = q[1]
           /\ Tail(q) \in Seq(S) /\ Len(Tail(q)) = Len(q) - 1
           /\ DOMAIN Tail(q) = 1 .. Len(q) - 1
           /\ \A i \in DOMAIN Tail(q) : i + 1 \in DOMAIN q /\ Tail(q)[i] = q[i + 1]
           /\ \A i \in DOMAIN q : i # 1 => i - 1 \in DOMAIN Tail(q) /\ Tail(q)[i - 1] = q[i]
  <1>1. Len(q) \in Nat \ {0} /\ DOMAIN q = 1 .. Len(q) /\ Head(q) = q[1]
    BY EmptySeq
  <1>2. /\ Tail(q) \in Seq(S) /\ Len(Tail(q)) = Len(q) - 1
        /\ \A i \in 1 .. Len(q) - 1 : Tail(q)[i] = q[i + 1]
    BY HeadTailProperties
  <1>3. DOMAIN Tail(q) = 1 .. Len(q) - 1
    BY <1>1, <1>2
  <1>4. ASSUME NEW i \in DOMAIN q, i # 1
        PROVE  i - 1 \in DOMAIN Tail(q) /\ Tail(q)[i - 1] = q[i]
    <2>1. i - 1 \in 1 .. Len(q) - 1 /\ (i - 1) + 1 = i
      BY <1>1, <1>4
    <2> QED
      BY <1>2, <1>3, <2>1
  <1>5. \A i \in 1 .. Len(q) - 1 : i + 1 \in 1 .. Len(q)
    BY <1>1
  <1> QED
    BY <1>1, <1>2, <1>3, <1>4, <1>5

\* The first operation of g_stream runs.
LEMMA HoldsAfter ==
    ASSUME NEW q \in Seq(Operations), q # <<>>, NEW c \in Seq(Operations),
           NEW sl \in [Slots -> Contents], NEW sl2, NEW st, NEW b \in Slots, NEW e,
           NEW n \in 1 .. Len(q),
           Holds(q, c, sl, st, n, b, e),
           IF IsCopy(Head(q)) THEN c = <<>> /\ sl2 = [sl EXCEPT ![Head(q).slot] = st[Head(q).stage]]
           ELSE sl2 = sl
    PROVE  Holds(Tail(q), c, sl2, st, n - 1, b, e)
  <1> DEFINE r == Tail(q)
  <1>1. /\ Len(q) \in Nat \ {0} /\ DOMAIN q = 1 .. Len(q) /\ Head(q) = q[1]
        /\ Len(r) = Len(q) - 1 /\ DOMAIN r = 1 .. Len(q) - 1
        /\ \A i \in DOMAIN r : i + 1 \in DOMAIN q /\ r[i] = q[i + 1]
        /\ \A i \in DOMAIN q : i # 1 => i - 1 \in DOMAIN r /\ r[i - 1] = q[i]
    BY TailFacts
  <1> HIDE DEF r
  <1>2. Untouched(q, n, b) => Untouched(r, n - 1, b) /\ sl2[b] = sl[b]
    <2> SUFFICES ASSUME Untouched(q, n, b)
                 PROVE  Untouched(r, n - 1, b) /\ sl2[b] = sl[b]
      OBVIOUS
    <2>1. Untouched(r, n - 1, b)
      BY <1>1 DEF Untouched
    <2>2. IsCopy(q[1]) => q[1].slot # b
      BY <1>1 DEF Untouched
    <2> QED
      BY <1>1, <2>1, <2>2
  <1>3. CASE Untouched(q, n, b) /\ Untouched(c, Len(c), b) /\ sl[b] = e
    BY <1>2, <1>3 DEF Holds, r
  <1>4. CASE c = <<>> /\ \E i \in DOMAIN q : Last(q, n, b, i) /\ st[q[i].stage] = e
    <2>1. PICK i \in DOMAIN q : Last(q, n, b, i) /\ st[q[i].stage] = e
      BY <1>4
    <2>2. CASE i = 1
      <3>1. Untouched(r, n - 1, b) /\ Untouched(c, Len(c), b)
        BY <1>1, <1>4, <2>1, <2>2 DEF Last, Untouched
      <3>2. sl2[b] = e
        BY <1>1, <2>1, <2>2 DEF Last
      <3> QED
        BY <3>1, <3>2 DEF Holds, r
    <2>3. CASE i # 1
      <3>1. i - 1 \in DOMAIN r /\ Last(r, n - 1, b, i - 1) /\ st[r[i - 1].stage] = e
        BY <1>1, <2>1, <2>3 DEF Last
      <3> QED
        BY <1>4, <3>1 DEF Holds, r
    <2> QED
      BY <2>2, <2>3
  <1>5. CASE Untouched(q, n, b) /\ \E i \in DOMAIN c : Last(c, Len(c), b, i) /\ st[c[i].stage] = e
    BY <1>2, <1>5 DEF Holds, r
  <1> QED
    BY <1>3, <1>4, <1>5 DEF Holds

\* The first copy on g_stream2 runs.
LEMMA HoldsCopyRun ==
    ASSUME NEW q \in Seq(Operations), NEW c \in Seq(Operations), c # <<>>, IsCopy(Head(c)),
           NEW sl \in [Slots -> Contents], NEW st, NEW b \in Slots, NEW e, NEW n \in Nat,
           Holds(q, c, sl, st, n, b, e)
    PROVE  Holds(q, Tail(c), [sl EXCEPT ![Head(c).slot] = st[Head(c).stage]], st, n, b, e)
  <1> DEFINE r == Tail(c)
             sl2 == [sl EXCEPT ![Head(c).slot] = st[Head(c).stage]]
  <1>1. /\ Len(c) \in Nat \ {0} /\ DOMAIN c = 1 .. Len(c) /\ Head(c) = c[1]
        /\ Len(r) = Len(c) - 1 /\ DOMAIN r = 1 .. Len(c) - 1
        /\ \A i \in DOMAIN r : i + 1 \in DOMAIN c /\ r[i] = c[i + 1]
        /\ \A i \in DOMAIN c : i # 1 => i - 1 \in DOMAIN r /\ r[i - 1] = c[i]
    BY TailFacts
  <1>2. sl2[b] = IF c[1].slot = b THEN st[c[1].stage] ELSE sl[b]
    BY <1>1
  <1> HIDE DEF r, sl2
  <1>3. CASE Untouched(q, n, b) /\ Untouched(c, Len(c), b) /\ sl[b] = e
    <2>1. Untouched(r, Len(r), b) /\ c[1].slot # b
      BY <1>1, <1>3 DEF Untouched
    <2> QED
      BY <1>2, <1>3, <2>1 DEF Holds, r, sl2
  <1>4. CASE Untouched(q, n, b) /\ \E i \in DOMAIN c : Last(c, Len(c), b, i) /\ st[c[i].stage] = e
    <2>1. PICK i \in DOMAIN c : Last(c, Len(c), b, i) /\ st[c[i].stage] = e
      BY <1>4
    <2>2. CASE i = 1
      <3>1. Untouched(r, Len(r), b) /\ sl2[b] = e
        BY <1>1, <1>2, <2>1, <2>2 DEF Last, Untouched
      <3> QED
        BY <1>4, <3>1 DEF Holds, r, sl2
    <2>3. CASE i # 1
      <3>1. i - 1 \in DOMAIN r /\ Last(r, Len(r), b, i - 1) /\ st[r[i - 1].stage] = e
        BY <1>1, <2>1, <2>3 DEF Last
      <3> QED
        BY <1>4, <3>1 DEF Holds, r, sl2
    <2> QED
      BY <2>2, <2>3
  <1> QED
    BY <1>3, <1>4 DEF Holds

-----------------------------------------------------------------------------
(* The streams and the ring.                                               *)

LEMMA AppendIndex ==
    ASSUME NEW S, NEW q \in Seq(S), NEW o \in S
    PROVE  /\ Append(q, o) \in Seq(S) /\ Len(q) \in Nat /\ DOMAIN q = 1 .. Len(q)
           /\ Len(Append(q, o)) = Len(q) + 1 /\ DOMAIN Append(q, o) = 1 .. Len(q) + 1
           /\ Append(q, o)[Len(q) + 1] = o
           /\ \A i \in 1 .. Len(q) : Append(q, o)[i] = q[i]
  BY AppendProperties

\* The stream q2 is the stream q with the two kernels behind it.
Behind(q2, q, bases, toks, r) ==
    /\ q2 \in Seq(Operations) /\ Len(q) \in Nat /\ Len(q2) = Len(q) + 2
    /\ DOMAIN q = 1 .. Len(q) /\ DOMAIN q2 = 1 .. Len(q) + 2
    /\ \A i \in 1 .. Len(q) : q2[i] = q[i]
    /\ q2[Len(q) + 1] = [op |-> "gateup", slots |-> bases, toks |-> toks, rank |-> r]
    /\ q2[Len(q) + 2] = [op |-> "down", slots |-> bases, toks |-> toks, rank |-> r]

LEMMA KernelsBehind ==
    ASSUME NEW q \in Seq(Operations), NEW toks \in SUBSET (1 .. MaxSeqLen),
           NEW bases \in Seq(Slots), NEW r \in 1 .. Ranks
    PROVE  Behind(q \o Kernels(toks, bases, r), q, bases, toks, r)
  <1> DEFINE k == Kernels(toks, bases, r)
             q2 == q \o k
  <1>1. /\ k \in Seq(Operations) /\ Len(k) = 2
        /\ k[1] = [op |-> "gateup", slots |-> bases, toks |-> toks, rank |-> r]
        /\ k[2] = [op |-> "down", slots |-> bases, toks |-> toks, rank |-> r]
    BY KernelsFacts
  <1> HIDE DEF k
  <1>2. /\ q2 \in Seq(Operations) /\ Len(q2) = Len(q) + 2 /\ Len(q) \in Nat
        /\ DOMAIN q = 1 .. Len(q)
        /\ \A i \in 1 .. Len(q) + 2 : q2[i] = IF i <= Len(q) THEN q[i] ELSE k[i - Len(q)]
    <2>1. /\ q2 \in Seq(Operations) /\ Len(q2) = Len(q) + Len(k)
          /\ \A i \in 1 .. Len(q) + Len(k) : q2[i] = IF i <= Len(q) THEN q[i] ELSE k[i - Len(q)]
      BY <1>1, ConcatProperties
    <2>2. Len(q) \in Nat /\ DOMAIN q = 1 .. Len(q)
      BY LenProperties
    <2> QED
      BY <1>1, <2>1, <2>2
  <1> HIDE DEF q2
  <1>3. DOMAIN q2 = 1 .. Len(q) + 2
    BY <1>2
  <1>4. q2[Len(q) + 1] = k[1] /\ q2[Len(q) + 2] = k[2]
    BY <1>2
  <1>5. Behind(q2, q, bases, toks, r)
    BY <1>1, <1>2, <1>3, <1>4 DEF Behind
  <1> QED
    BY <1>5 DEF q2, k

\* The block's own kernels and copy, put behind what is in the stream.
LEMMA TurnBehind ==
    ASSUME HostTypes, pc = "rank"
    PROVE  /\ Slot(Wanted, Way(Wanted)) \in Slots /\ turn.rank \in 1 .. Ranks
           /\ <<Slot(Wanted, Way(Wanted))>> \in Seq(Slots)
           /\ Turn \in SUBSET (1 .. MaxSeqLen)
           /\ CopyOp(Slot(Wanted, Way(Wanted)), flag, 0) \in Operations
  <1>1. Wanted \in Experts /\ Turn \in SUBSET (1 .. MaxSeqLen) /\ turn.rank \in 1 .. Ranks
    BY TurnFacts DEF HostTypes
  <1>2. Slot(Wanted, Way(Wanted)) \in Slots
    BY <1>1, SlotFacts DEF HostTypes, TypeOK
  <1>3. CopyOp(Slot(Wanted, Way(Wanted)), flag, 0) \in Operations
    <2>1. flag \in Stages /\ 0 \in 0 .. Ranks
      BY SizesAssumption DEF HostTypes, TypeOK
    <2> QED
      BY <1>2, <2>1, OperationFacts
  <1> QED
    BY <1>1, <1>2, <1>3

\* When g_stream has run dry, so has g_stream2.
LEMMA BothIdle ==
    ASSUME HostTypes, Streams, compute = <<>>
    PROVE  copy = <<>>
  <1>1. copy # <<>> => 1 \in DOMAIN copy
    BY EmptySeq DEF HostTypes, TypeOK
  <1> QED
    BY <1>1 DEF Streams

LEMMA StreamsStep ==
    ASSUME HostTypes, Streams, [Next]_vars
    PROVE  Streams'
  <1>0. compute \in Seq(Operations) /\ copy \in Seq(Operations)
    BY DEF HostTypes, TypeOK
  <1>1. ASSUME NEW r \in Routes, Route(r)
        PROVE  Streams'
    BY <1>1, BothIdle DEF Route, Streams
  <1>2. CASE Locate
    BY <1>2, BothIdle DEF Locate, Streams
  <1>3. CASE Fill
    <2> DEFINE o == CopyOp(Head(misses).slot, Head(misses).stage, Len(misses))
               w == WaitOp(Len(misses))
    <2>1. o \in Operations /\ w \in Operations /\ w.op = "wait" /\ w.n = o.n /\ w.n = Len(misses)
      <3> DEFINE Miss == [expert : Experts, slot : Slots, stage : Stages]
      <3>1. misses # <<>> /\ misses \in Seq(Miss) /\ Len(misses) <= Ranks
        BY <1>3 DEF Fill, HostTypes, TypeOK
      <3> HIDE DEF Miss
      <3>2. Head(misses) \in Miss /\ Len(misses) \in Nat \ {0}
        BY <3>1, HeadTailProperties, EmptySeq
      <3>3. Head(misses).slot \in Slots /\ Head(misses).stage \in Stages /\ Len(misses) \in 1 .. Ranks
        BY <3>1, <3>2, SizesAssumption DEF Miss
      <3> QED
        BY <3>3, OperationFacts DEF CopyOp, WaitOp
    <2>2. pc = "fill" /\ pc' = "fill" /\ copy' = Append(copy, o) /\ compute' = Append(compute, w)
      BY <1>3 DEF Fill, host
    <2> HIDE DEF o, w
    <2>3. /\ Len(copy) \in Nat /\ DOMAIN copy = 1 .. Len(copy) /\ DOMAIN copy' = 1 .. Len(copy) + 1
          /\ copy'[Len(copy) + 1] = o /\ \A i \in 1 .. Len(copy) : copy'[i] = copy[i]
      BY <1>0, <2>1, <2>2, AppendIndex
    <2>4. /\ Len(compute) \in Nat /\ DOMAIN compute = 1 .. Len(compute)
          /\ DOMAIN compute' = 1 .. Len(compute) + 1
          /\ compute'[Len(compute) + 1] = w /\ \A i \in 1 .. Len(compute) : compute'[i] = compute[i]
      BY <1>0, <2>1, <2>2, AppendIndex
    <2>5. \A i \in DOMAIN compute' : compute'[i].op = "wait"
      BY <2>1, <2>2, <2>4 DEF Streams
    <2>6. \A i \in DOMAIN copy' : \E j \in DOMAIN compute' :
             compute'[j].op = "wait" /\ compute'[j].n = copy'[i].n
      <3>1. \A i \in DOMAIN copy : \E j \in DOMAIN compute :
               compute[j].op = "wait" /\ compute[j].n = copy[i].n
        BY DEF Streams
      <3>2. ASSUME NEW i \in DOMAIN copy', i <= Len(copy)
            PROVE  \E j \in DOMAIN compute' : compute'[j].op = "wait" /\ compute'[j].n = copy'[i].n
        <4>1. i \in DOMAIN copy /\ copy'[i] = copy[i]
          BY <2>3, <3>2
        <4>2. PICK j \in DOMAIN compute : compute[j].op = "wait" /\ compute[j].n = copy[i].n
          BY <3>1, <4>1
        <4>3. j \in DOMAIN compute' /\ compute'[j] = compute[j]
          BY <2>4
        <4> QED
          BY <4>1, <4>2, <4>3
      <3>3. Len(compute) + 1 \in DOMAIN compute'
        BY <2>4
      <3>4. \A i \in DOMAIN copy' : i <= Len(copy) \/ i = Len(copy) + 1
        BY <2>3
      <3> QED
        BY <2>1, <2>3, <2>4, <3>2, <3>3, <3>4
    <2> QED
      BY <2>2, <2>5, <2>6 DEF Streams, Kernel, IsCopy
  <1>4. CASE Launch
    <2>1. {1} \in SUBSET (1 .. MaxSeqLen) /\ plan \in Seq(Slots) /\ 1 \in 1 .. Ranks
      BY SizesAssumption DEF HostTypes, TypeOK
    <2>2. /\ pc = "fill" /\ pc' = "sync" /\ copy' = copy /\ compute' = compute \o Kernels({1}, plan, 1)
          /\ Len(compute) \in Nat /\ DOMAIN compute = 1 .. Len(compute)
          /\ DOMAIN compute' = 1 .. Len(compute) + 2
          /\ \A i \in 1 .. Len(compute) : compute'[i] = compute[i]
          /\ compute'[Len(compute) + 1].op = "gateup" /\ compute'[Len(compute) + 2].op = "down"
      <3>1. /\ pc = "fill" /\ pc' = "sync" /\ copy' = copy
            /\ compute' = compute \o Kernels({1}, plan, 1)
        BY <1>4 DEF Launch
      <3>2. /\ Len(compute) \in Nat /\ DOMAIN compute = 1 .. Len(compute)
            /\ DOMAIN compute' = 1 .. Len(compute) + 2
            /\ \A i \in 1 .. Len(compute) : compute'[i] = compute[i]
            /\ compute'[Len(compute) + 1] =
                  [op |-> "gateup", slots |-> plan, toks |-> {1}, rank |-> 1]
            /\ compute'[Len(compute) + 2] =
                  [op |-> "down", slots |-> plan, toks |-> {1}, rank |-> 1]
        <4>1. Behind(compute', compute, plan, {1}, 1)
          BY <1>0, <2>1, <3>1, KernelsBehind
        <4> QED
          BY <4>1 DEF Behind
      <3> QED
        BY <3>1, <3>2
    <2>3. \A i \in DOMAIN compute' : compute'[i].op \in {"wait", "gateup", "down"}
                                      /\ (Kernel(compute'[i]) => i > Len(compute))
      BY <2>2 DEF Streams, Kernel
    <2>4. \A i \in DOMAIN copy' : \E j \in DOMAIN compute' :
             /\ compute'[j].op = "wait" /\ compute'[j].n = copy'[i].n
             /\ j <= Len(compute)
      BY <2>2 DEF Streams
    <2>5. \A i \in DOMAIN copy' : \E j \in DOMAIN compute' :
             /\ compute'[j].op = "wait" /\ compute'[j].n = copy'[i].n
             /\ \A k \in DOMAIN compute' : Kernel(compute'[k]) => j < k
      BY <2>2, <2>3, <2>4
    <2> QED
      BY <2>2, <2>3, <2>5 DEF Streams, IsCopy
  <1>5. CASE RankHit
    BY <1>5, AdvanceFacts DEF RankHit, Streams
  <1>6. CASE RankMiss
    BY <1>6, AdvanceFacts DEF RankMiss, Streams
  <1>7. CASE CopyStream
    <2>1. /\ copy # <<>> /\ copy' = Tail(copy) /\ UNCHANGED <<pc, compute>>
          /\ \A i \in DOMAIN copy' : i + 1 \in DOMAIN copy /\ copy'[i] = copy[i + 1]
      BY <1>0, <1>7, TailFacts DEF CopyStream, host
    <2> QED
      BY <2>1 DEF Streams
  <1>8. CASE ComputeStream
    <2>1. /\ compute # <<>> /\ compute' = Tail(compute) /\ UNCHANGED <<pc, copy>>
          /\ Head(compute).op = "wait" => Waited(Head(compute).n)
          /\ \A i \in DOMAIN compute' : i + 1 \in DOMAIN compute /\ compute'[i] = compute[i + 1]
          /\ \A i \in DOMAIN compute : i # 1 => i - 1 \in DOMAIN compute' /\ compute'[i - 1] = compute[i]
          /\ Head(compute) = compute[1] /\ DOMAIN compute = 1 .. Len(compute) /\ Len(compute) \in Nat
      BY <1>0, <1>8, TailFacts DEF ComputeStream, host
    <2>2. ASSUME NEW i \in DOMAIN copy
          PROVE  \E j \in DOMAIN compute' :
                   /\ compute'[j].op = "wait" /\ compute'[j].n = copy[i].n
                   /\ \A k \in DOMAIN compute' : Kernel(compute'[k]) => j < k
      <3>1. PICK j \in DOMAIN compute :
               /\ compute[j].op = "wait" /\ compute[j].n = copy[i].n
               /\ \A k \in DOMAIN compute : Kernel(compute[k]) => j < k
        BY DEF Streams
      <3>2. j # 1
        <4>1. copy[i].n \in Nat
          BY <1>0, OperationFacts DEF HostTypes
        <4> QED
          BY <2>1, <3>1, <4>1 DEF Waited
      <3>3. /\ j - 1 \in DOMAIN compute' /\ compute'[j - 1] = compute[j]
            /\ \A k \in DOMAIN compute' : Kernel(compute'[k]) => j - 1 < k
        BY <2>1, <3>1, <3>2
      <3> QED
        BY <3>1, <3>3
    <2>3. compute' = <<>> \/ compute # <<>>
      BY <2>1
    <2> QED
      BY <2>1, <2>2 DEF Streams
  <1>9. CASE UNCHANGED vars
    BY <1>9 DEF vars, host, Streams
  <1> QED
    BY <1>1, <1>2, <1>3, <1>4, <1>5, <1>6, <1>7, <1>8, <1>9 DEF Next, Block


LEMMA AgeFacts ==
    ASSUME flag \in Stages, Claim
    PROVE  /\ Age(flag', flag) = 1
           /\ \A st \in Stages : Age(flag, st) < StageBufs => Age(flag', st) = Age(flag, st) + 1
  BY ClaimFacts, SizesAssumption DEF Stages, Age

LEMMA AgeInjective ==
    ASSUME NEW f \in Stages, NEW a \in Stages, NEW b \in Stages, Age(f, a) = Age(f, b)
    PROVE  a = b
  BY SizesAssumption DEF Stages, Age

LEMMA RingsStep ==
    ASSUME RingHolds, HostTypes, Streams, Rings, [Next]_vars
    PROVE  Rings'
  <1> DEFINE Miss == [expert : Experts, slot : Slots, stage : Stages]
  <1>0. /\ misses \in Seq(Miss) /\ DOMAIN misses = 1 .. Len(misses) /\ Len(misses) \in Nat
        /\ \A i \in DOMAIN misses : misses[i].stage \in Stages
        /\ compute \in Seq(Operations) /\ copy \in Seq(Operations)
        /\ DOMAIN copy = 1 .. Len(copy) /\ Len(copy) \in Nat
    <2>1. /\ misses \in Seq(Miss) /\ compute \in Seq(Operations) /\ copy \in Seq(Operations)
      BY DEF HostTypes, TypeOK
    <2>2. \A m \in Miss : m.stage \in Stages
      OBVIOUS
    <2> HIDE DEF Miss
    <2> QED
      BY <2>1, <2>2
  <1> HIDE DEF Miss
  <1>1. ASSUME NEW r \in Routes, Route(r)
        PROVE  Rings'
    BY <1>1 DEF Route, Rings
  <1>2. CASE Locate
    <2>1. /\ Len(misses) < StageBufs /\ pc = "locate" /\ copy' = <<>> /\ flag \in Stages
      <3>1. Len(misses) <= Len(plan) /\ Len(plan) < Ranks /\ Len(plan) \in Nat /\ pc = "locate"
        BY <1>2 DEF Locate, HostTypes, TypeOK
      <3>2. copy = <<>>
        BY <3>1, BothIdle DEF Streams
      <3> QED
        BY <1>0, <1>2, <3>1, <3>2, SizesAssumption DEF RingHolds, Locate, HostTypes, TypeOK
    <2>2. \A i \in DOMAIN misses : Age(flag, misses[i].stage) = Len(misses) - i + 1
      BY <2>1 DEF Rings
    <2>3. CASE UNCHANGED <<misses, flag>>
      BY <2>1, <2>2, <2>3 DEF Rings
    <2>4. CASE Claim /\ \E m : m.stage = flag /\ misses' = Append(misses, m)
      <3>1. PICK m : m.stage = flag /\ misses' = Append(misses, m)
        BY <2>4
      <3>2. /\ Len(misses') = Len(misses) + 1 /\ DOMAIN misses' = 1 .. Len(misses) + 1
            /\ misses'[Len(misses) + 1] = m
            /\ \A i \in 1 .. Len(misses) : misses'[i] = misses[i]
        BY <1>0, <3>1
      <3>3. ASSUME NEW i \in 1 .. Len(misses)
            PROVE  Age(flag', misses'[i].stage) = Len(misses') - i + 1
        <4>1. Age(flag, misses[i].stage) = Len(misses) - i + 1 /\ misses[i].stage \in Stages
          BY <1>0, <2>2
        <4>2. Age(flag', misses[i].stage) = Age(flag, misses[i].stage) + 1
          <5>1. Age(flag, misses[i].stage) < StageBufs
            BY <1>0, <2>1, <4>1, SizesAssumption
          <5> QED
            BY <2>1, <2>4, <4>1, <5>1, AgeFacts
        <4> QED
          BY <1>0, <3>2, <4>1, <4>2
      <3>4. Age(flag', misses'[Len(misses) + 1].stage) = 1
        BY <2>1, <2>4, <3>1, <3>2, AgeFacts
      <3>5. \A i \in DOMAIN misses' : Age(flag', misses'[i].stage) = Len(misses') - i + 1
        <4>1. \A i \in DOMAIN misses' : i \in 1 .. Len(misses) \/ i = Len(misses) + 1
          BY <1>0, <3>2
        <4> QED
          BY <1>0, <3>2, <3>3, <3>4, <4>1
      <3> QED
        BY <2>1, <3>5 DEF Rings
    <2>5. UNCHANGED <<misses, flag>> \/ (Claim /\ \E m : m.stage = flag /\ misses' = Append(misses, m))
      <3> DEFINE e == route[1][Len(plan) + 1]
                 m == [expert |-> e, slot |-> Slot(e, Way(e)), stage |-> flag]
      <3>1. UNCHANGED <<misses, flag>> \/ (Claim /\ misses' = Append(misses, m))
        BY <1>2 DEF Locate
      <3>2. m.stage = flag
        OBVIOUS
      <3> HIDE DEF m
      <3> QED
        BY <3>1, <3>2
    <2> QED
      BY <2>3, <2>4, <2>5
  <1>3. CASE Fill
    <2> DEFINE o == CopyOp(Head(misses).slot, Head(misses).stage, Len(misses))
    <2>1. /\ pc = "fill" /\ misses # <<>> /\ misses' = Tail(misses) /\ flag' = flag
          /\ copy' = Append(copy, o) /\ o.stage = Head(misses).stage /\ o.n = Len(misses)
      BY <1>3 DEF Fill, CopyOp
    <2> HIDE DEF o
    <2>2. /\ Len(misses') = Len(misses) - 1 /\ Head(misses) = misses[1] /\ 1 \in DOMAIN misses
          /\ \A i \in DOMAIN misses' : i + 1 \in DOMAIN misses /\ misses'[i] = misses[i + 1]
          /\ DOMAIN misses' = 1 .. Len(misses) - 1
      BY <1>0, <2>1, TailFacts
    <2>3. /\ DOMAIN copy' = 1 .. Len(copy) + 1 /\ copy'[Len(copy) + 1] = o
          /\ \A i \in 1 .. Len(copy) : copy'[i] = copy[i]
      BY <1>0, <2>1
    <2>4. \A i \in DOMAIN misses : Age(flag, misses[i].stage) = Len(misses) - i + 1
      BY <2>1 DEF Rings
    <2>5. \A i \in DOMAIN misses' : Age(flag', misses'[i].stage) = Len(misses') - i + 1
      BY <1>0, <2>1, <2>2, <2>4
    <2>6. \A i \in DOMAIN copy : Age(flag, copy[i].stage) = copy[i].n /\ copy[i].n > Len(misses)
      BY <2>1 DEF Rings
    <2>7. Age(flag, o.stage) = o.n /\ o.n > Len(misses')
      BY <1>0, <2>1, <2>2, <2>4
    <2>8. \A i \in DOMAIN copy : copy[i].n \in Nat
      BY <1>0, OperationFacts DEF HostTypes
    <2>9. \A i \in DOMAIN copy' : Age(flag', copy'[i].stage) = copy'[i].n /\ copy'[i].n > Len(misses')
      <3>1. \A i \in DOMAIN copy' : i \in 1 .. Len(copy) \/ i = Len(copy) + 1
        BY <1>0, <2>3
      <3> QED
        BY <1>0, <2>1, <2>2, <2>3, <2>6, <2>7, <2>8, <3>1
    <2> QED
      BY <2>5, <2>9 DEF Rings
  <1>4. CASE Launch
    BY <1>4 DEF Launch, Rings
  <1>5. CASE RankHit
    BY <1>5, AdvanceFacts DEF RankHit, Rings
  <1>6. CASE RankMiss
    BY <1>6, AdvanceFacts DEF RankMiss, Rings
  <1>7. CASE CopyStream
    <2>1. /\ copy # <<>> /\ copy' = Tail(copy) /\ UNCHANGED <<pc, misses, flag>>
          /\ \A i \in DOMAIN copy' : i + 1 \in DOMAIN copy /\ copy'[i] = copy[i + 1]
      BY <1>0, <1>7, TailFacts DEF CopyStream, host, located, ring
    <2> QED
      BY <2>1 DEF Rings
  <1>8. CASE ComputeStream
    BY <1>8 DEF ComputeStream, host, located, ring, Rings
  <1>9. CASE UNCHANGED vars
    BY <1>9 DEF vars, host, located, ring, Rings
  <1> QED
    BY <1>1, <1>2, <1>3, <1>4, <1>5, <1>6, <1>7, <1>8, <1>9 DEF Next, Block

-----------------------------------------------------------------------------
(* What a slot will hold, step by step.                                    *)

\* g_stream2 advances.
LEMMA CopyKeeps ==
    ASSUME HostTypes, CopyStream, NEW b \in Slots, NEW e, NEW n \in Nat,
           Holds(compute, copy, slot, stage, n, b, e)
    PROVE  Holds(compute', copy', slot', stage', n, b, e)
  <1>1. /\ copy # <<>> /\ copy' = Tail(copy) /\ UNCHANGED <<compute, stage>>
        /\ slot' = [slot EXCEPT ![Head(copy).slot] = stage[Head(copy).stage]]
    BY DEF CopyStream, RunCopy, ring
  <1>2. compute \in Seq(Operations) /\ copy \in Seq(Operations) /\ slot \in [Slots -> Contents]
    BY DEF HostTypes, TypeOK
  <1>3. IsCopy(Head(copy))
    <2>1. 1 \in DOMAIN copy /\ Head(copy) = copy[1]
      BY <1>1, <1>2, TailFacts
    <2> QED
      BY <2>1 DEF HostTypes
  <1> QED
    BY <1>1, <1>2, <1>3, HoldsCopyRun

\* g_stream advances.
LEMMA ComputeKeeps ==
    ASSUME HostTypes, Streams, ComputeStream, NEW b \in Slots, NEW e, NEW n \in 1 .. Len(compute),
           Holds(compute, copy, slot, stage, n, b, e)
    PROVE  Holds(compute', copy', slot', stage', n - 1, b, e)
  <1>1. compute # <<>> /\ compute' = Tail(compute) /\ UNCHANGED <<copy, stage>>
    BY DEF ComputeStream, ring
  <1>2. compute \in Seq(Operations) /\ copy \in Seq(Operations) /\ slot \in [Slots -> Contents]
    BY DEF HostTypes, TypeOK
  <1>3. IF IsCopy(Head(compute))
        THEN copy = <<>> /\ slot' = [slot EXCEPT ![Head(compute).slot] = stage[Head(compute).stage]]
        ELSE slot' = slot
    <2>1. IF IsCopy(Head(compute)) THEN RunCopy(Head(compute)) ELSE slot' = slot
      BY DEF ComputeStream, IsCopy, device
    <2>2. IsCopy(Head(compute)) => copy = <<>>
      <3>1. 1 \in DOMAIN compute /\ Head(compute) = compute[1]
        BY <1>1, <1>2, TailFacts
      <3> QED
        BY <3>1 DEF Streams
    <2> QED
      BY <2>1, <2>2 DEF RunCopy
  <1> QED
    BY <1>1, <1>2, <1>3, HoldsAfter

\* The host enqueues kernels, with a copy before them or without.
Enqueues(bases, toks, r) ==
    /\ bases \in Seq(Slots) /\ toks \in SUBSET (1 .. MaxSeqLen) /\ r \in 1 .. Ranks
    /\ \/ /\ Behind(compute', compute, bases, toks, r)
          /\ stage' = stage
       \/ /\ copy = <<>>
          /\ bases[1] \in Slots /\ Copies(compute, flag) = {}
          /\ Behind(compute', Append(compute, CopyOp(bases[1], flag, 0)), bases, toks, r)
          /\ stage' = [stage EXCEPT ![flag] = Wanted]
    /\ UNCHANGED <<slot, copy>>

Enqueued(bases, toks, r) ==
    /\ compute \in Seq(Operations) /\ compute' \in Seq(Operations)
    /\ Len(compute) \in Nat /\ DOMAIN compute = 1 .. Len(compute)
    /\ Len(compute') \in {Len(compute) + 2, Len(compute) + 3}
    /\ DOMAIN compute' = 1 .. Len(compute')
    /\ \A i \in 1 .. Len(compute) : compute'[i] = compute[i]
    /\ compute'[Len(compute') - 1] = [op |-> "gateup", slots |-> bases, toks |-> toks, rank |-> r]
    /\ compute'[Len(compute')] = [op |-> "down", slots |-> bases, toks |-> toks, rank |-> r]
    /\ Len(compute') = Len(compute) + 3 => compute'[Len(compute) + 1] = CopyOp(bases[1], flag, 0)
    /\ \A i \in 1 .. Len(compute) : IsCopy(compute[i]) => stage'[compute[i].stage] = stage[compute[i].stage]
    /\ \A i \in 1 .. Len(copy) : stage'[copy[i].stage] = stage[copy[i].stage]

LEMMA EnqueueKeeps ==
    ASSUME HostTypes, NEW bases, NEW toks, NEW r, Enqueues(bases, toks, r)
    PROVE  Enqueued(bases, toks, r)
  <1>0. /\ compute \in Seq(Operations) /\ Len(compute) \in Nat /\ DOMAIN compute = 1 .. Len(compute)
        /\ stage \in [Stages -> Contents] /\ flag \in Stages
    BY DEF HostTypes, TypeOK
  <1>1. CASE Behind(compute', compute, bases, toks, r) /\ stage' = stage
    BY <1>0, <1>1 DEF Behind, Enqueued
  <1>2. CASE /\ copy = <<>> /\ bases[1] \in Slots /\ Copies(compute, flag) = {}
             /\ Behind(compute', Append(compute, CopyOp(bases[1], flag, 0)), bases, toks, r)
             /\ stage' = [stage EXCEPT ![flag] = Wanted]
    <2> DEFINE o == CopyOp(bases[1], flag, 0)
               q == Append(compute, o)
    <2>1. o \in Operations
      <3>1. flag \in Stages /\ 0 \in 0 .. Ranks
        BY <1>0, SizesAssumption
      <3> QED
        BY <1>2, <3>1, OperationFacts
    <2> HIDE DEF o
    <2>2. /\ Len(q) = Len(compute) + 1 /\ q[Len(compute) + 1] = o
          /\ \A i \in 1 .. Len(compute) : q[i] = compute[i]
      BY <1>0, <2>1, AppendIndex
    <2> HIDE DEF q
    <2>3. /\ compute' \in Seq(Operations) /\ Len(compute') = Len(q) + 2
          /\ DOMAIN compute' = 1 .. Len(q) + 2
          /\ \A i \in 1 .. Len(q) : compute'[i] = q[i]
          /\ compute'[Len(q) + 1] = [op |-> "gateup", slots |-> bases, toks |-> toks, rank |-> r]
          /\ compute'[Len(q) + 2] = [op |-> "down", slots |-> bases, toks |-> toks, rank |-> r]
      BY <1>2 DEF Behind, q, o
    <2>4. \A i \in 1 .. Len(compute) : IsCopy(compute[i]) => compute[i].stage # flag
      BY <1>0, <1>2 DEF Copies, IsCopy
    <2>5. \A i \in 1 .. Len(compute) : IsCopy(compute[i]) => stage'[compute[i].stage] = stage[compute[i].stage]
      <3>1. \A st \in Stages : st # flag => stage'[st] = stage[st]
        BY <1>0, <1>2
      <3>2. \A i \in 1 .. Len(compute) : IsCopy(compute[i]) => compute[i].stage \in Stages
        BY <1>0, OperationFacts
      <3> QED
        BY <2>4, <3>1, <3>2
    <2>6. /\ \A i \in 1 .. Len(compute) : compute'[i] = compute[i]
          /\ compute'[Len(compute) + 1] = o /\ Len(compute') = Len(compute) + 3
          /\ DOMAIN compute' = 1 .. Len(compute) + 3
          /\ Len(compute') - 1 = Len(q) + 1 /\ Len(compute') = Len(q) + 2
      BY <1>0, <2>2, <2>3
    <2>7. \A i \in 1 .. Len(copy) : stage'[copy[i].stage] = stage[copy[i].stage]
      <3>1. 1 .. Len(copy) = {}
        BY <1>2
      <3> QED
        BY <3>1
    <2> QED
      BY <1>0, <2>3, <2>5, <2>6, <2>7 DEF o, Enqueued
  <1> QED
    BY <1>1, <1>2 DEF Enqueues

\* Which of the host's actions enqueue kernels, and for which slots.
LEMMA Enqueuing ==
    ASSUME HostTypes, Streams
    PROVE  /\ Launch => Enqueues(plan, {1}, 1) /\ tag' = tag
           /\ RankHit => /\ Enqueues(<<Slot(Wanted, Way(Wanted))>>, Turn, turn.rank)
                         /\ tag' = tag /\ stage' = stage
           /\ RankMiss => /\ Enqueues(<<Slot(Wanted, Way(Wanted))>>, Turn, turn.rank)
                          /\ tag' = [tag EXCEPT ![Slot(Wanted, Way(Wanted))] = Wanted]
                          /\ Len(compute') = Len(compute) + 3
                          /\ stage'[flag] = Wanted
  <1>0. compute \in Seq(Operations) /\ stage \in [Stages -> Contents] /\ flag \in Stages
    BY DEF HostTypes, TypeOK
  <1>1. ASSUME Launch
        PROVE  Enqueues(plan, {1}, 1) /\ tag' = tag
    <2>1. plan \in Seq(Slots) /\ {1} \in SUBSET (1 .. MaxSeqLen) /\ 1 \in 1 .. Ranks
      BY SizesAssumption DEF HostTypes, TypeOK
    <2>2. compute' = compute \o Kernels({1}, plan, 1) /\ UNCHANGED <<slot, copy, stage, tag>>
      BY <1>1 DEF Launch, device, ring, cache
    <2>3. Behind(compute', compute, plan, {1}, 1)
      BY <1>0, <2>1, <2>2, KernelsBehind
    <2> QED
      BY <2>1, <2>2, <2>3 DEF Enqueues
  <1> DEFINE base == Slot(Wanted, Way(Wanted))
  <1>2. ASSUME RankHit
        PROVE  Enqueues(<<base>>, Turn, turn.rank) /\ tag' = tag /\ stage' = stage
    <2>1. base \in Slots /\ <<base>> \in Seq(Slots) /\ Turn \in SUBSET (1 .. MaxSeqLen) /\ turn.rank \in 1 .. Ranks
      BY <1>2, TurnBehind DEF RankHit
    <2>2. compute' = compute \o Kernels(Turn, <<base>>, turn.rank) /\ UNCHANGED <<slot, copy, stage, tag>>
      BY <1>2 DEF RankHit, device, ring
    <2>3. Behind(compute', compute, <<base>>, Turn, turn.rank)
      BY <1>0, <2>1, <2>2, KernelsBehind
    <2> QED
      BY <2>1, <2>2, <2>3 DEF Enqueues
  <1>3. ASSUME RankMiss
        PROVE  /\ Enqueues(<<base>>, Turn, turn.rank)
               /\ tag' = [tag EXCEPT ![base] = Wanted]
               /\ Len(compute') = Len(compute) + 3
               /\ stage'[flag] = Wanted
    <2>1. /\ base \in Slots /\ <<base>> \in Seq(Slots) /\ Turn \in SUBSET (1 .. MaxSeqLen)
          /\ turn.rank \in 1 .. Ranks /\ CopyOp(base, flag, 0) \in Operations
      BY <1>3, TurnBehind DEF RankMiss
    <2>2. /\ compute' = Append(compute, CopyOp(base, flag, 0)) \o Kernels(Turn, <<base>>, turn.rank)
          /\ UNCHANGED <<slot, copy>> /\ Copies(compute, flag) = {} /\ copy = <<>>
          /\ stage' = [stage EXCEPT ![flag] = Wanted] /\ tag' = [tag EXCEPT ![base] = Wanted]
      BY <1>3 DEF RankMiss, device, Streams
    <2> HIDE DEF base
    <2>3. Append(compute, CopyOp(base, flag, 0)) \in Seq(Operations)
          /\ Len(Append(compute, CopyOp(base, flag, 0))) = Len(compute) + 1 /\ Len(compute) \in Nat
      BY <1>0, <2>1, AppendIndex
    <2>4. Behind(compute', Append(compute, CopyOp(base, flag, 0)), <<base>>, Turn, turn.rank)
      BY <2>1, <2>2, <2>3, KernelsBehind
    <2>5. <<base>>[1] = base /\ stage'[flag] = Wanted
      BY <1>0, <2>2
    <2>6. Len(compute') = Len(compute) + 3
      BY <2>3, <2>4 DEF Behind
    <2> QED
      BY <2>1, <2>2, <2>4, <2>5, <2>6 DEF Enqueues, base
  <1> QED
    BY <1>1, <1>2, <1>3

\* What a slot will hold behind all that was enqueued before, when more is
\* enqueued that copies nothing to it.
LEMMA HoldsBehind ==
    ASSUME HostTypes, NEW bases, NEW toks, NEW r, Enqueues(bases, toks, r),
           NEW b, NEW e, NEW n \in 0 .. Len(compute), NEW m \in n .. Len(compute'),
           Holds(compute, copy, slot, stage, n, b, e),
           n = m \/ Len(compute') = Len(compute) + 2 \/ bases[1] # b,
           n = m \/ n = Len(compute)
    PROVE  Holds(compute', copy', slot', stage', m, b, e)
  <1>0. Enqueued(bases, toks, r)
    BY EnqueueKeeps
  <1>1. /\ compute \in Seq(Operations) /\ compute' \in Seq(Operations)
        /\ Len(compute) \in Nat /\ Len(compute') \in Nat
        /\ Len(compute') \in {Len(compute) + 2, Len(compute) + 3}
        /\ \A i \in 1 .. Len(compute) : compute'[i] = compute[i]
    <2>1. compute \in Seq(Operations) /\ compute' \in Seq(Operations)
      BY <1>0 DEF Enqueued
    <2>2. Len(compute') \in {Len(compute) + 2, Len(compute) + 3}
      BY <1>0 DEF Enqueued
    <2>3. \A i \in 1 .. Len(compute) : compute'[i] = compute[i]
      BY <1>0 DEF Enqueued
    <2> QED
      BY <2>1, <2>2, <2>3
  <1>2. /\ copy \in Seq(Operations) /\ copy' = copy /\ slot' = slot
        /\ \A i \in 1 .. Len(compute) : IsCopy(compute[i]) => stage'[compute[i].stage] = stage[compute[i].stage]
        /\ \A i \in 1 .. Len(copy) : stage'[copy[i].stage] = stage[copy[i].stage]
    BY <1>0 DEF HostTypes, TypeOK, Enqueues, Enqueued
  <1>3. ~IsCopy(compute'[Len(compute') - 1]) /\ ~IsCopy(compute'[Len(compute')])
    <2>1. compute'[Len(compute') - 1] = [op |-> "gateup", slots |-> bases, toks |-> toks, rank |-> r]
      BY <1>0 DEF Enqueued
    <2>2. compute'[Len(compute')] = [op |-> "down", slots |-> bases, toks |-> toks, rank |-> r]
      BY <1>0 DEF Enqueued
    <2>3. compute'[Len(compute') - 1].op = "gateup"
      BY <2>1
    <2>4. compute'[Len(compute')].op = "down"
      BY <2>2
    <2> QED
      BY <2>3, <2>4 DEF IsCopy
  <1>4. \A i \in n + 1 .. m : IsCopy(compute'[i]) => compute'[i].slot # b
    <2>1. CASE n = m
      BY <2>1
    <2>2. CASE n = Len(compute) /\ Len(compute') = Len(compute) + 2
      BY <1>1, <1>3, <2>2
    <2>3. CASE n = Len(compute) /\ Len(compute') = Len(compute) + 3 /\ bases[1] # b
      <3>1. compute'[Len(compute) + 1].slot # b
        <4>1. compute'[Len(compute) + 1] = CopyOp(bases[1], flag, 0)
          BY <1>0, <2>3 DEF Enqueued
        <4>2. CopyOp(bases[1], flag, 0).slot = bases[1]
          BY DEF CopyOp
        <4> QED
          BY <2>3, <4>1, <4>2
      <3> QED
        BY <1>1, <1>3, <2>3, <3>1
    <2> QED
      BY <1>1, <2>1, <2>2, <2>3
  <1>5. \A i \in 1 .. n : compute'[i] = compute[i]
    BY <1>1
  <1> QED
    BY <1>1, <1>2, <1>4, <1>5, HoldsOn

\* The slot of a rank that missed holds its expert behind the copy.
LEMMA HoldsMissed ==
    ASSUME HostTypes, Streams, RankMiss, NEW m \in Len(compute) + 1 .. Len(compute')
    PROVE  Holds(compute', copy', slot', stage', m, Slot(Wanted, Way(Wanted)), Wanted)
  <1> DEFINE base == Slot(Wanted, Way(Wanted))
             n == Len(compute) + 1
  <1>0. /\ Enqueues(<<base>>, Turn, turn.rank) /\ Len(compute') = Len(compute) + 3
        /\ stage'[flag] = Wanted /\ copy' = <<>>
    BY Enqueuing DEF RankMiss, Streams
  <1>1. /\ compute' \in Seq(Operations) /\ Len(compute) \in Nat
        /\ compute'[Len(compute') - 1].op = "gateup" /\ compute'[Len(compute')].op = "down"
        /\ compute'[n] = CopyOp(base, flag, 0)
    <2>1. <<base>>[1] = base
      OBVIOUS
    <2>2. Enqueued(<<base>>, Turn, turn.rank)
      BY <1>0, EnqueueKeeps
    <2> QED
      BY <1>0, <2>1, <2>2 DEF Enqueued
  <1>2. IsCopy(compute'[n]) /\ compute'[n].slot = base /\ stage'[compute'[n].stage] = Wanted
    BY <1>0, <1>1 DEF CopyOp, IsCopy
  <1>3. \A i \in n + 1 .. m : ~IsCopy(compute'[i])
    BY <1>0, <1>1 DEF IsCopy
  <1>4. n \in 1 .. Len(compute') /\ m \in n .. Len(compute')
    BY <1>0, <1>1
  <1> HIDE DEF base, n
  <1>5. Holds(compute', <<>>, slot', stage', m, base, Wanted)
    BY <1>1, <1>2, <1>3, <1>4, HoldsCopied
  <1> QED
    BY <1>0, <1>5 DEF base

\* A batch's missing expert is staged and its copy enqueued.
LEMMA FillKeeps ==
    ASSUME HostTypes, Streams, Rings, Fill, NEW b \in Slots, NEW e,
           IF Head(misses).slot = b THEN e = Head(misses).expert
           ELSE Holds(compute, copy, slot, stage, Len(compute), b, e)
    PROVE  Holds(compute', copy', slot', stage', Len(compute'), b, e)
  <1> DEFINE m == Head(misses)
             o == CopyOp(m.slot, m.stage, Len(misses))
             w == WaitOp(Len(misses))
             Miss == [expert : Experts, slot : Slots, stage : Stages]
  <1>1. /\ pc = "fill" /\ misses # <<>> /\ copy' = Append(copy, o) /\ compute' = Append(compute, w)
        /\ stage' = [stage EXCEPT ![m.stage] = m.expert] /\ slot' = slot
    BY DEF Fill, device
  <1>2. /\ compute \in Seq(Operations) /\ copy \in Seq(Operations) /\ misses \in Seq(Miss)
        /\ stage \in [Stages -> Contents] /\ Len(misses) <= Ranks
    BY DEF HostTypes, TypeOK
  <1> HIDE DEF Miss
  <1>3. m = misses[1] /\ 1 \in DOMAIN misses /\ m \in Miss /\ Len(misses) \in Nat \ {0}
    BY <1>1, <1>2, TailFacts
  <1>4. m.slot \in Slots /\ m.stage \in Stages /\ Len(misses) \in 1 .. Ranks
    BY <1>2, <1>3, SizesAssumption DEF Miss
  <1>5. /\ o \in Operations /\ w \in Operations /\ ~IsCopy(w) /\ IsCopy(o)
        /\ o.slot = m.slot /\ o.stage = m.stage
    BY <1>4, OperationFacts DEF CopyOp, WaitOp, IsCopy
  <1> HIDE DEF m, o, w
  <1>6. /\ \A i \in 1 .. Len(compute) : ~IsCopy(compute[i])
        /\ \A i \in 1 .. Len(compute') : ~IsCopy(compute'[i])
        /\ compute' \in Seq(Operations)
    BY <1>1, <1>2, <1>5 DEF Streams, IsCopy
  <1>7. \A i \in 1 .. Len(copy) : stage'[copy[i].stage] = stage[copy[i].stage]
    <2>1. ASSUME NEW i \in 1 .. Len(copy)
          PROVE  stage'[copy[i].stage] = stage[copy[i].stage]
      <3>1. IsCopy(copy[i]) /\ copy[i].stage \in Stages /\ copy[i].n \in Nat
        BY <1>2, OperationFacts DEF HostTypes
      <3>2. Age(flag, copy[i].stage) = copy[i].n /\ copy[i].n > Len(misses)
        BY <1>1, <1>2 DEF Rings
      <3>3. Age(flag, m.stage) = Len(misses)
        BY <1>1, <1>3 DEF Rings
      <3>4. copy[i].stage # m.stage
        BY <1>3, <3>1, <3>2, <3>3
      <3> QED
        BY <1>1, <1>2, <1>4, <3>1, <3>4
    <2> QED
      BY <2>1
  <1>8. m.slot = b => stage'[m.stage] = e
    BY <1>1, <1>2, <1>4 DEF m
  <1>9. IF o.slot = b THEN stage'[o.stage] = e ELSE Holds(compute, copy, slot, stage, Len(compute), b, e)
    BY <1>5, <1>8 DEF m
  <1>10. Holds(compute', Append(copy, o), slot, stage', Len(compute'), b, e)
    BY <1>2, <1>5, <1>6, <1>7, <1>9, HoldsFilled
  <1> QED
    BY <1>1, <1>10

LEMMA FinalStep ==
    ASSUME HostTypes, Streams, Rings, Final, [Next]_vars
    PROVE  Final'
  <1>0. /\ tag \in [Slots -> Contents] /\ compute \in Seq(Operations) /\ Len(compute) \in Nat
        /\ Len(compute) \in 0 .. Len(compute)
    BY DEF HostTypes, TypeOK
  <1>1. ASSUME NEW r \in Routes, Route(r)
        PROVE  Final'
    BY <1>1 DEF Route, cache, ring, Final
  <1>2. CASE Locate
    BY <1>2 DEF Locate, device, Final
  <1>3. CASE Fill
    <2> SUFFICES ASSUME NEW b \in Slots, tag'[b] # NoExpert
                 PROVE  Holds(compute', copy', slot', stage', Len(compute'), b, tag'[b])
      BY DEF Final
    <2>1. tag' = [tag EXCEPT ![Head(misses).slot] = Head(misses).expert]
      BY <1>3 DEF Fill
    <2>2. CASE Head(misses).slot = b
      <3>1. tag'[b] = Head(misses).expert
        BY <1>0, <2>1, <2>2
      <3> QED
        BY <1>3, <2>2, <3>1, FillKeeps
    <2>3. CASE Head(misses).slot # b
      <3>1. tag'[b] = tag[b]
        BY <1>0, <2>1, <2>3
      <3>2. Holds(compute, copy, slot, stage, Len(compute), b, tag'[b])
        BY <3>1 DEF Final
      <3> QED
        BY <1>3, <2>3, <3>2, FillKeeps
    <2> QED
      BY <2>2, <2>3
  <1>4. CASE Launch
    <2> SUFFICES ASSUME NEW b \in Slots, tag'[b] # NoExpert
                 PROVE  Holds(compute', copy', slot', stage', Len(compute'), b, tag'[b])
      BY DEF Final
    <2>1. Enqueues(plan, {1}, 1) /\ tag' = tag /\ stage' = stage
      BY <1>4, Enqueuing DEF Launch, ring
    <2>2. Len(compute') \in Len(compute) .. Len(compute') /\ Len(compute') = Len(compute) + 2
      <3>1. Behind(compute', compute, plan, {1}, 1)
        BY <1>0, <1>4, SizesAssumption, KernelsBehind DEF Launch, HostTypes, TypeOK
      <3> QED
        BY <1>0, <3>1 DEF Behind
    <2>3. Holds(compute, copy, slot, stage, Len(compute), b, tag[b])
      BY <2>1 DEF Final
    <2> QED
      BY <1>0, <2>1, <2>2, <2>3, HoldsBehind
  <1>5. CASE RankHit
    <2> SUFFICES ASSUME NEW b \in Slots, tag'[b] # NoExpert
                 PROVE  Holds(compute', copy', slot', stage', Len(compute'), b, tag'[b])
      BY DEF Final
    <2>1. Enqueues(<<Slot(Wanted, Way(Wanted))>>, Turn, turn.rank) /\ tag' = tag
      BY <1>5, Enqueuing
    <2>2. Len(compute') \in Len(compute) .. Len(compute') /\ Len(compute') = Len(compute) + 2
      <3>1. Behind(compute', compute, <<Slot(Wanted, Way(Wanted))>>, Turn, turn.rank)
        BY <1>0, <1>5, TurnBehind, KernelsBehind DEF RankHit
      <3> QED
        BY <1>0, <3>1 DEF Behind
    <2>3. Holds(compute, copy, slot, stage, Len(compute), b, tag[b])
      BY <2>1 DEF Final
    <2> QED
      BY <1>0, <2>1, <2>2, <2>3, HoldsBehind
  <1>6. CASE RankMiss
    <2> DEFINE base == Slot(Wanted, Way(Wanted))
    <2> SUFFICES ASSUME NEW b \in Slots, tag'[b] # NoExpert
                 PROVE  Holds(compute', copy', slot', stage', Len(compute'), b, tag'[b])
      BY DEF Final
    <2>1. /\ Enqueues(<<base>>, Turn, turn.rank) /\ tag' = [tag EXCEPT ![base] = Wanted]
          /\ Len(compute') = Len(compute) + 3
      BY <1>6, Enqueuing
    <2>2. /\ Len(compute') \in Len(compute) .. Len(compute')
          /\ Len(compute') \in Len(compute) + 1 .. Len(compute')
      BY <1>0, <2>1
    <2>3. CASE b = base
      <3>1. tag'[b] = Wanted
        BY <1>0, <2>1, <2>3
      <3> QED
        BY <1>6, <2>2, <2>3, <3>1, HoldsMissed
    <2>4. CASE b # base
      <3>1. tag'[b] = tag[b] /\ <<base>>[1] # b
        BY <1>0, <2>1, <2>4
      <3>2. Holds(compute, copy, slot, stage, Len(compute), b, tag'[b])
        BY <3>1 DEF Final
      <3> HIDE DEF base
      <3> QED
        BY <1>0, <2>1, <2>2, <3>1, <3>2, HoldsBehind
    <2> QED
      BY <2>3, <2>4
  <1>7. CASE CopyStream
    <2> SUFFICES ASSUME NEW b \in Slots, tag'[b] # NoExpert
                 PROVE  Holds(compute', copy', slot', stage', Len(compute'), b, tag'[b])
      BY DEF Final
    <2>1. tag' = tag /\ compute' = compute
      BY <1>7 DEF CopyStream, cache
    <2>2. Holds(compute, copy, slot, stage, Len(compute), b, tag[b])
      BY <2>1 DEF Final
    <2> QED
      BY <1>0, <1>7, <2>1, <2>2, CopyKeeps
  <1>8. CASE ComputeStream
    <2> SUFFICES ASSUME NEW b \in Slots, tag'[b] # NoExpert
                 PROVE  Holds(compute', copy', slot', stage', Len(compute'), b, tag'[b])
      BY DEF Final
    <2>1. tag' = tag /\ compute # <<>> /\ compute' = Tail(compute)
      BY <1>8 DEF ComputeStream, cache
    <2>2. Len(compute') = Len(compute) - 1 /\ Len(compute) \in 1 .. Len(compute)
      BY <1>0, <2>1, TailFacts
    <2>3. Holds(compute, copy, slot, stage, Len(compute), b, tag[b])
      BY <2>1 DEF Final
    <2> QED
      BY <1>8, <2>1, <2>2, <2>3, ComputeKeeps
  <1>9. CASE UNCHANGED vars
    BY <1>9 DEF vars, cache, ring, device, Final
  <1> QED
    BY <1>1, <1>2, <1>3, <1>4, <1>5, <1>6, <1>7, <1>8, <1>9 DEF Next, Block

-----------------------------------------------------------------------------
(* The batch.                                                              *)

LEMMA LocatedStep ==
    ASSUME HostTypes, Located, [Next]_vars
    PROVE  Located'
  <1> DEFINE Miss == [expert : Experts, slot : Slots, stage : Stages]
  <1>0. /\ misses \in Seq(Miss) /\ DOMAIN misses = 1 .. Len(misses) /\ Len(misses) \in Nat
        /\ plan \in Seq(Slots) /\ DOMAIN plan = 1 .. Len(plan) /\ Len(plan) \in Nat
        /\ tag \in [Slots -> Contents]
    BY DEF HostTypes, TypeOK
  <1> HIDE DEF Miss
  <1>1. ASSUME NEW r \in Routes, Route(r)
        PROVE  Located'
    BY <1>1 DEF Route, Located
  <1>2. CASE Locate
    <2> DEFINE e == route[1][Len(plan) + 1]
               base == Slot(e, Way(e))
               miss == [expert |-> e, slot |-> base, stage |-> flag]
               conflict == \E i \in DOMAIN plan : plan[i] = base
    <2>1. /\ pc = "locate" /\ plan' = Append(plan, base) /\ UNCHANGED <<tag, route>>
          /\ IF Hit(e) THEN misses' = misses ELSE misses' = Append(misses, miss)
          /\ conflict => pc' = "rank"
      BY <1>2 DEF Locate
    <2>2. route[1][Len(plan) + 1] \in Experts
      <3>1. Len(plan) + 1 \in 1 .. Ranks /\ route \in Routes /\ Len(route) = 1
        BY <1>0, <2>1, SizesAssumption DEF HostTypes
      <3>2. route[1] \in [1 .. Ranks -> Experts]
        BY <3>1, RouteFacts
      <3> QED
        BY <3>1, <3>2
    <2> HIDE DEF e
    <2>3. base \in Slots /\ (Hit(e) => tag[base] = e)
      BY <2>2, SlotFacts DEF HostTypes, TypeOK, e
    <2>4. miss.slot = base /\ miss.expert = e
      OBVIOUS
    <2> HIDE DEF base, miss
    <2> SUFFICES ASSUME ~conflict
                 PROVE  Located'
      BY <2>1 DEF Located
    <2>5. /\ Len(plan') = Len(plan) + 1 /\ DOMAIN plan' = 1 .. Len(plan) + 1
          /\ plan'[Len(plan) + 1] = base
          /\ \A i \in 1 .. Len(plan) : plan'[i] = plan[i]
      BY <1>0, <2>1, <2>3, AppendIndex
    <2>6. \A i \in 1 .. Len(plan) : plan[i] # base
      BY <1>0
    <2>7. \A m \in DOMAIN misses : misses[m].slot # base
      BY <1>0, <2>1, <2>6 DEF Located
    <2>8. /\ \A i, j \in DOMAIN plan : plan[i] = plan[j] => i = j
          /\ \A i \in DOMAIN plan :
                \/ /\ tag[plan[i]] = route[1][i]
                   /\ \A m \in DOMAIN misses : misses[m].slot # plan[i]
                \/ \E m \in DOMAIN misses : misses[m].slot = plan[i] /\ misses[m].expert = route[1][i]
          /\ \A m, n \in DOMAIN misses : misses[m].slot = misses[n].slot => m = n
          /\ \A m \in DOMAIN misses : \E i \in DOMAIN plan : misses[m].slot = plan[i]
      BY <2>1 DEF Located
    <2>9. \A i, j \in DOMAIN plan' : plan'[i] = plan'[j] => i = j
      BY <1>0, <2>5, <2>6, <2>8
    <2>10. \A i \in DOMAIN plan' : i \in 1 .. Len(plan) \/ i = Len(plan) + 1
      BY <1>0, <2>5
    <2>11. CASE Hit(e)
      <3>1. misses' = misses
        BY <2>1, <2>11
      <3>2. \A i \in DOMAIN plan' :
               \/ /\ tag'[plan'[i]] = route'[1][i]
                  /\ \A m \in DOMAIN misses' : misses'[m].slot # plan'[i]
               \/ \E m \in DOMAIN misses' : misses'[m].slot = plan'[i] /\ misses'[m].expert = route'[1][i]
        <4>1. tag[base] = route[1][Len(plan) + 1]
          BY <2>3, <2>11 DEF e
        <4>2. ASSUME NEW i \in 1 .. Len(plan)
              PROVE  \/ /\ tag[plan[i]] = route[1][i]
                        /\ \A m \in DOMAIN misses : misses[m].slot # plan[i]
                     \/ \E m \in DOMAIN misses : misses[m].slot = plan[i] /\ misses[m].expert = route[1][i]
          BY <1>0, <2>8
        <4>3. \A i \in 1 .. Len(plan) : plan'[i] = plan[i]
          BY <2>5
        <4>4. misses' = misses /\ tag' = tag /\ route' = route /\ plan'[Len(plan) + 1] = base
          BY <2>1, <2>5, <3>1
        <4> QED
          BY <2>7, <2>10, <4>1, <4>2, <4>3, <4>4
      <3>3. \A m \in DOMAIN misses' : \E i \in DOMAIN plan' : misses'[m].slot = plan'[i]
        BY <1>0, <2>5, <2>8, <3>1
      <3> QED
        BY <2>8, <2>9, <3>1, <3>2, <3>3 DEF Located
    <2>12. CASE ~Hit(e)
      <3>1. /\ DOMAIN misses' = 1 .. Len(misses) + 1
            /\ misses'[Len(misses) + 1] = miss
            /\ \A m \in 1 .. Len(misses) : misses'[m] = misses[m]
        <4>1. miss \in Miss
          BY <2>2, <2>3 DEF Miss, miss, e, HostTypes, TypeOK
        <4> QED
          BY <1>0, <2>1, <2>12, <4>1, AppendIndex
      <3>2. \A m \in DOMAIN misses' : m \in 1 .. Len(misses) \/ m = Len(misses) + 1
        BY <1>0, <3>1
      <3>3. \A i \in 1 .. Len(plan) :
               \/ /\ tag'[plan'[i]] = route'[1][i]
                  /\ \A m \in DOMAIN misses' : misses'[m].slot # plan'[i]
               \/ \E m \in DOMAIN misses' : misses'[m].slot = plan'[i] /\ misses'[m].expert = route'[1][i]
        <4> SUFFICES ASSUME NEW i \in 1 .. Len(plan)
                     PROVE  \/ /\ tag'[plan'[i]] = route'[1][i]
                               /\ \A m \in DOMAIN misses' : misses'[m].slot # plan'[i]
                            \/ \E m \in DOMAIN misses' : misses'[m].slot = plan'[i] /\ misses'[m].expert = route'[1][i]
          OBVIOUS
        <4>1. CASE tag[plan[i]] = route[1][i] /\ \A m \in DOMAIN misses : misses[m].slot # plan[i]
          BY <1>0, <2>1, <2>4, <2>5, <2>6, <3>1, <3>2, <4>1
        <4>2. CASE \E m \in DOMAIN misses : misses[m].slot = plan[i] /\ misses[m].expert = route[1][i]
          <5>1. PICK m \in DOMAIN misses : misses[m].slot = plan[i] /\ misses[m].expert = route[1][i]
            BY <4>2
          <5>2. m \in DOMAIN misses' /\ misses'[m] = misses[m]
            BY <1>0, <3>1
          <5> QED
            BY <2>1, <2>5, <5>1, <5>2
        <4> QED
          BY <1>0, <2>8, <4>1, <4>2
      <3>4. misses'[Len(misses) + 1].slot = plan'[Len(plan) + 1]
            /\ misses'[Len(misses) + 1].expert = route'[1][Len(plan) + 1]
        BY <2>1, <2>4, <2>5, <3>1 DEF e
      <3>5. \A i \in DOMAIN plan' :
               \/ /\ tag'[plan'[i]] = route'[1][i]
                  /\ \A m \in DOMAIN misses' : misses'[m].slot # plan'[i]
               \/ \E m \in DOMAIN misses' : misses'[m].slot = plan'[i] /\ misses'[m].expert = route'[1][i]
        <4>1. Len(misses) + 1 \in DOMAIN misses'
          BY <1>0, <3>1
        <4> QED
          BY <2>10, <3>3, <3>4, <4>1
      <3>6. \A m, n \in DOMAIN misses' : misses'[m].slot = misses'[n].slot => m = n
        BY <1>0, <2>4, <2>7, <2>8, <3>1, <3>2
      <3>7. \A m \in DOMAIN misses' : \E i \in DOMAIN plan' : misses'[m].slot = plan'[i]
        <4>1. \A m \in 1 .. Len(misses) : \E i \in DOMAIN plan' : misses'[m].slot = plan'[i]
          <5>1. ASSUME NEW m \in 1 .. Len(misses)
                PROVE  \E i \in DOMAIN plan' : misses'[m].slot = plan'[i]
            <6>1. PICK i \in DOMAIN plan : misses[m].slot = plan[i]
              BY <1>0, <2>8
            <6>2. i \in DOMAIN plan' /\ plan'[i] = plan[i] /\ misses'[m] = misses[m]
              BY <1>0, <2>5, <3>1
            <6> QED
              BY <6>1, <6>2
          <5> QED
            BY <5>1
        <4>2. Len(plan) + 1 \in DOMAIN plan'
          BY <1>0, <2>5
        <4> QED
          BY <3>2, <3>4, <4>1, <4>2
      <3> QED
        BY <2>9, <3>5, <3>6, <3>7 DEF Located
    <2> QED
      BY <2>11, <2>12
  <1>3. CASE Fill
    <2> DEFINE h == Head(misses)
    <2>1. /\ pc = "fill" /\ misses # <<>> /\ misses' = Tail(misses) /\ plan' = plan /\ route' = route
          /\ tag' = [tag EXCEPT ![h.slot] = h.expert]
      BY <1>3 DEF Fill, host
    <2>2. /\ h = misses[1] /\ 1 \in DOMAIN misses /\ h \in Miss
          /\ \A m \in DOMAIN misses' : m + 1 \in DOMAIN misses /\ misses'[m] = misses[m + 1]
          /\ \A m \in DOMAIN misses : m # 1 => m - 1 \in DOMAIN misses' /\ misses'[m - 1] = misses[m]
          /\ DOMAIN misses' = 1 .. Len(misses) - 1
      BY <1>0, <2>1, TailFacts
    <2>3. h.slot \in Slots
      BY <2>2 DEF Miss
    <2> HIDE DEF h
    <2>4. /\ \A i, j \in DOMAIN plan : plan[i] = plan[j] => i = j
          /\ \A i \in DOMAIN plan :
                \/ /\ tag[plan[i]] = route[1][i]
                   /\ \A m \in DOMAIN misses : misses[m].slot # plan[i]
                \/ \E m \in DOMAIN misses : misses[m].slot = plan[i] /\ misses[m].expert = route[1][i]
          /\ \A m, n \in DOMAIN misses : misses[m].slot = misses[n].slot => m = n
          /\ \A m \in DOMAIN misses : \E i \in DOMAIN plan : misses[m].slot = plan[i]
      BY <2>1 DEF Located
    <2>5. \A m \in DOMAIN misses' : m + 1 # 1
      BY <1>0, <2>2
    <2>6. \A m \in DOMAIN misses' : misses'[m].slot # h.slot
      BY <2>2, <2>4, <2>5
    <2>7. \A m, n \in DOMAIN misses' : misses'[m].slot = misses'[n].slot => m = n
      <3> SUFFICES ASSUME NEW m \in DOMAIN misses', NEW n \in DOMAIN misses',
                          misses'[m].slot = misses'[n].slot
                   PROVE  m = n
        OBVIOUS
      <3>1. m + 1 = n + 1
        BY <2>2, <2>4
      <3> QED
        BY <1>0, <2>2, <3>1
    <2>8. \A m \in DOMAIN misses' : \E i \in DOMAIN plan' : misses'[m].slot = plan'[i]
      BY <2>1, <2>2, <2>4
    <2>9. ASSUME NEW i \in DOMAIN plan
          PROVE  \/ /\ tag'[plan[i]] = route[1][i]
                    /\ \A m \in DOMAIN misses' : misses'[m].slot # plan[i]
                 \/ \E m \in DOMAIN misses' : misses'[m].slot = plan[i] /\ misses'[m].expert = route[1][i]
      <3>1. plan[i] \in Slots
        BY <1>0
      <3>2. CASE tag[plan[i]] = route[1][i] /\ \A m \in DOMAIN misses : misses[m].slot # plan[i]
        <4>1. h.slot # plan[i]
          BY <2>2, <3>2
        <4>2. tag'[plan[i]] = tag[plan[i]]
          BY <1>0, <2>1, <3>1, <4>1
        <4> QED
          BY <2>2, <3>2, <4>2
      <3>3. CASE \E m \in DOMAIN misses : misses[m].slot = plan[i] /\ misses[m].expert = route[1][i]
        <4>1. PICK m \in DOMAIN misses : misses[m].slot = plan[i] /\ misses[m].expert = route[1][i]
          BY <3>3
        <4>2. CASE m = 1
          <5>1. h.slot = plan[i] /\ h.expert = route[1][i]
            BY <2>2, <4>1, <4>2
          <5>2. tag'[plan[i]] = route[1][i]
            BY <1>0, <2>1, <3>1, <5>1
          <5> QED
            BY <2>6, <5>1, <5>2
        <4>3. CASE m # 1
          <5>1. m - 1 \in DOMAIN misses' /\ misses'[m - 1] = misses[m]
            BY <2>2, <4>3
          <5> QED
            BY <4>1, <5>1
        <4> QED
          BY <4>2, <4>3
      <3> QED
        BY <2>4, <3>2, <3>3
    <2> QED
      BY <2>1, <2>4, <2>7, <2>8, <2>9 DEF Located
  <1>4. CASE Launch
    BY <1>4 DEF Launch, Located
  <1>5. CASE RankHit
    BY <1>5, AdvanceFacts DEF RankHit, Located
  <1>6. CASE RankMiss
    BY <1>6, AdvanceFacts DEF RankMiss, Located
  <1>7. CASE CopyStream
    BY <1>7 DEF CopyStream, host, located, cache, Located
  <1>8. CASE ComputeStream
    BY <1>8 DEF ComputeStream, host, located, cache, Located
  <1>9. CASE UNCHANGED vars
    BY <1>9 DEF vars, host, located, cache, Located
  <1> QED
    BY <1>1, <1>2, <1>3, <1>4, <1>5, <1>6, <1>7, <1>8, <1>9 DEF Next, Block

-----------------------------------------------------------------------------
(* The kernels.                                                            *)

\* The tokens toks agree on the experts E of the ranks from r on, and these have
\* slots.
Wants(toks, bases, r, E) ==
    /\ route \in Routes /\ bases \in Seq(Slots) /\ r \in 1 .. Ranks
    /\ E \in Seq(Experts) /\ Len(E) = Len(bases) /\ Len(bases) > 0
    /\ r + Len(bases) <= Ranks + 1
    /\ toks # {} /\ toks \subseteq DOMAIN route
    /\ \A t \in toks : \A k \in DOMAIN bases : route[t][r + k - 1] = E[k]

\* A kernel finds E in its slots once the first m operations have run.
FindsBehind(m, bases, E) ==
    \A k \in DOMAIN bases : Holds(compute', copy', slot', stage', m, bases[k], E[k])

LEMMA KernelMeant ==
    ASSUME NEW toks, NEW bases, NEW r, NEW E, Wants(toks, bases, r, E),
           NEW o, o.slots = bases, o.toks = toks, o.rank = r
    PROVE  Launched(route, o) /\ Meant(route, o) = E
  <1>0. /\ bases \in Seq(Slots) /\ E \in Seq(Experts) /\ Len(E) = Len(bases) /\ Len(bases) > 0
        /\ r + Len(bases) <= Ranks + 1 /\ toks # {} /\ toks \subseteq DOMAIN route
        /\ \A t \in toks : \A k \in DOMAIN bases : route[t][r + k - 1] = E[k]
    BY DEF Wants
  <1>1. Len(bases) \in Nat /\ DOMAIN bases = 1 .. Len(bases) /\ DOMAIN E = 1 .. Len(bases)
    BY <1>0
  <1>2. (CHOOSE t \in toks : TRUE) \in toks
    BY <1>0
  <1>3. \A k \in DOMAIN bases : route[CHOOSE t \in toks : TRUE][r + k - 1] = E[k]
    BY <1>0, <1>2
  <1>4. E = [k \in DOMAIN E |-> E[k]]
    BY <1>0
  <1>5. Meant(route, o) = E
    BY <1>1, <1>3, <1>4 DEF Meant
  <1>6. Launched(route, o)
    BY <1>0, <1>1, <1>5 DEF Launched
  <1> QED
    BY <1>5, <1>6

\* Kernels behind those in the stream.
LEMMA ReadsBehind ==
    ASSUME HostTypes, Reads, NEW bases, NEW toks, NEW r, Enqueues(bases, toks, r),
           UNCHANGED <<route, half>>, NEW E, Wants(toks, bases, r, E),
           FindsBehind(Len(compute') - 2, bases, E), FindsBehind(Len(compute') - 1, bases, E)
    PROVE  Reads'
  <1>1. Enqueued(bases, toks, r)
    BY EnqueueKeeps
  <1>2. /\ Len(compute) \in Nat /\ Len(compute') \in Nat /\ DOMAIN compute = 1 .. Len(compute)
        /\ Len(compute) + 2 <= Len(compute') /\ Len(compute') <= Len(compute) + 3
        /\ DOMAIN compute' = 1 .. Len(compute')
        /\ \A i \in 1 .. Len(compute) : compute'[i] = compute[i]
    <2>1. compute \in Seq(Operations) /\ compute' \in Seq(Operations)
      BY <1>1 DEF Enqueued
    <2>2. Len(compute') \in {Len(compute) + 2, Len(compute) + 3}
      BY <1>1 DEF Enqueued
    <2>3. \A i \in 1 .. Len(compute) : compute'[i] = compute[i]
      BY <1>1 DEF Enqueued
    <2> QED
      BY <2>1, <2>2, <2>3
  <1> DEFINE g == [op |-> "gateup", slots |-> bases, toks |-> toks, rank |-> r]
             d == [op |-> "down", slots |-> bases, toks |-> toks, rank |-> r]
  <1>3. compute'[Len(compute') - 1] = g
    BY <1>1 DEF Enqueued
  <1>4. compute'[Len(compute')] = d
    BY <1>1 DEF Enqueued
  <1>5. Len(compute') = Len(compute) + 3 => ~Kernel(compute'[Len(compute) + 1]) /\ compute'[Len(compute) + 1].op # "down"
    <2> SUFFICES ASSUME Len(compute') = Len(compute) + 3
                 PROVE  compute'[Len(compute) + 1].op = "copy"
      BY DEF Kernel
    <2>1. compute'[Len(compute) + 1] = CopyOp(bases[1], flag, 0)
      BY <1>1 DEF Enqueued
    <2>2. CopyOp(bases[1], flag, 0).op = "copy"
      BY DEF CopyOp
    <2> QED
      BY <2>1, <2>2
  <1>6. ASSUME NEW i \in DOMAIN compute', i > Len(compute), i # Len(compute') - 1, i # Len(compute')
        PROVE  i = Len(compute) + 1 /\ Len(compute') = Len(compute) + 3
    <2>1. i \in Nat /\ i <= Len(compute') /\ Len(compute) \in Nat /\ Len(compute') \in Nat
      BY <1>2
    <2>2. i <= Len(compute') - 2
      BY <1>6, <2>1
    <2>3. Len(compute) + 2 <= Len(compute') /\ Len(compute') <= Len(compute) + 3
      BY <1>2
    <2> QED
      BY <1>6, <2>1, <2>2, <2>3
  <1>7. Launched(route, g) /\ Meant(route, g) = E /\ g.slots = bases /\ g.op = "gateup"
    <2>1. g.slots = bases /\ g.toks = toks /\ g.rank = r /\ g.op = "gateup"
      OBVIOUS
    <2> HIDE DEF g
    <2> QED
      BY <2>1, KernelMeant
  <1>8. Launched(route, d) /\ Meant(route, d) = E /\ d.slots = bases /\ d.op = "down"
    <2>1. d.slots = bases /\ d.toks = toks /\ d.rank = r /\ d.op = "down"
      OBVIOUS
    <2> HIDE DEF d
    <2> QED
      BY <2>1, KernelMeant
  <1>9. g = [d EXCEPT !.op = "gateup"]
    OBVIOUS
  <1> HIDE DEF g, d
  <1>10. ASSUME NEW i \in DOMAIN compute', Kernel(compute'[i])
         PROVE  /\ Launched(route', compute'[i])
                /\ \A k \in DOMAIN compute'[i].slots :
                      Holds(compute', copy', slot', stage', i - 1, compute'[i].slots[k], Meant(route', compute'[i])[k])
    <2>1. CASE i <= Len(compute)
      <3>1. i \in DOMAIN compute /\ compute'[i] = compute[i]
        BY <1>2, <2>1
      <3>2. Launched(route, compute[i])
        BY <1>10, <3>1 DEF Reads
      <3>3. ASSUME NEW k \in DOMAIN compute[i].slots
            PROVE  Holds(compute', copy', slot', stage', i - 1, compute[i].slots[k], Meant(route, compute[i])[k])
        <4>1. Holds(compute, copy, slot, stage, i - 1, compute[i].slots[k], Meant(route, compute[i])[k])
          BY <1>10, <3>1, <3>3 DEF Reads
        <4>2. i - 1 \in 0 .. Len(compute) /\ i - 1 \in i - 1 .. Len(compute')
          BY <1>2, <3>1
        <4> QED
          BY <4>1, <4>2, HoldsBehind
      <3> QED
        BY <3>1, <3>2, <3>3
    <2>2. CASE i > Len(compute)
      <3>1. i = Len(compute') - 1 \/ i = Len(compute')
        BY <1>5, <1>6, <1>10, <2>2
      <3>2. CASE i = Len(compute') - 1
        <4>1. compute'[i] = g /\ i - 1 = Len(compute') - 2
          BY <1>2, <1>3, <3>2
        <4> QED
          BY <1>7, <4>1 DEF FindsBehind
      <3>3. CASE i = Len(compute')
        <4>1. compute'[i] = d /\ i - 1 = Len(compute') - 1
          BY <1>2, <1>4, <3>3
        <4> QED
          BY <1>8, <4>1 DEF FindsBehind
      <3> QED
        BY <3>1, <3>2, <3>3
    <2> QED
      BY <1>2, <2>1, <2>2
  <1>11. ASSUME NEW i \in DOMAIN compute', compute'[i].op = "down"
         PROVE  IF i = 1 THEN half' = Meant(route', compute'[1])
                ELSE compute'[i - 1] = [compute'[i] EXCEPT !.op = "gateup"]
    <2>1. CASE i <= Len(compute)
      <3>1. i \in DOMAIN compute /\ compute'[i] = compute[i]
        BY <1>2, <2>1
      <3>2. IF i = 1 THEN half = Meant(route, compute[1])
            ELSE compute[i - 1] = [compute[i] EXCEPT !.op = "gateup"]
        BY <1>11, <3>1 DEF Reads
      <3>3. i # 1 => compute'[i - 1] = compute[i - 1]
        BY <1>2, <2>1
      <3> QED
        BY <3>1, <3>2, <3>3
    <2>2. CASE i > Len(compute)
      <3>1. i = Len(compute')
        BY <1>3, <1>5, <1>6, <1>7, <1>11, <2>2
      <3>2. compute'[i - 1] = g /\ compute'[i] = d /\ i # 1
        BY <1>2, <1>3, <1>4, <3>1
      <3> QED
        BY <1>9, <3>2
    <2> QED
      BY <1>2, <2>1, <2>2
  <1> QED
    BY <1>10, <1>11 DEF Reads

\* When a kernel is next on g_stream, g_stream2 has run dry, and the kernel's
\* slots hold what it stands for.
LEMMA KernelNext ==
    ASSUME HostTypes, Streams, Reads, compute # <<>>, Kernel(Head(compute))
    PROVE  /\ Launched(route, Head(compute))
           /\ \A k \in DOMAIN Head(compute).slots :
                 slot[Head(compute).slots[k]] = Meant(route, Head(compute))[k]
  <1>1. Head(compute) = compute[1] /\ 1 \in DOMAIN compute /\ DOMAIN compute = 1 .. Len(compute)
    BY TailFacts DEF HostTypes, TypeOK
  <1>2. copy = <<>>
    <2> SUFFICES ASSUME copy # <<>>
                 PROVE  FALSE
      OBVIOUS
    <2>1. 1 \in DOMAIN copy
      BY TailFacts DEF HostTypes, TypeOK
    <2>2. PICK j \in DOMAIN compute : \A k \in DOMAIN compute : Kernel(compute[k]) => j < k
      BY <2>1 DEF Streams
    <2>3. j < 1 /\ j \in 1 .. Len(compute)
      BY <1>1, <2>2
    <2> QED
      BY <2>3
  <1>3. Launched(route, compute[1])
    BY <1>1 DEF Reads
  <1>4. ASSUME NEW k \in DOMAIN compute[1].slots
        PROVE  slot[compute[1].slots[k]] = Meant(route, compute[1])[k]
    <2>1. Holds(compute, copy, slot, stage, 1 - 1, compute[1].slots[k], Meant(route, compute[1])[k])
      BY <1>1, <1>4 DEF Reads
    <2>2. Holds(compute, <<>>, slot, stage, 0, compute[1].slots[k], Meant(route, compute[1])[k])
      BY <1>2, <2>1
    <2>3. \A i \in DOMAIN compute : ~(i <= 0)
      BY <1>1
    <2>4. DOMAIN <<>> = {}
      OBVIOUS
    <2> QED
      BY <2>2, <2>3, <2>4 DEF Holds, Last
  <1> QED
    BY <1>1, <1>3, <1>4

LEMMA ReadsStep ==
    ASSUME HostTypes, Streams, Final, Located, Reads, [Next]_vars
    PROVE  Reads'
  <1>0. /\ compute \in Seq(Operations) /\ Len(compute) \in Nat /\ DOMAIN compute = 1 .. Len(compute)
        /\ tag \in [Slots -> Contents]
    BY DEF HostTypes, TypeOK
  <1>1. ASSUME NEW r \in Routes, Route(r)
        PROVE  Reads'
    <2>1. compute' = <<>>
      BY <1>1 DEF Route
    <2> QED
      BY <2>1 DEF Reads
  <1>2. CASE Locate
    <2>1. compute' = <<>>
      BY <1>2 DEF Locate, Streams
    <2> QED
      BY <2>1 DEF Reads
  <1>3. CASE Fill
    <2>1. /\ pc = "fill" /\ compute' = Append(compute, WaitOp(Len(misses))) /\ Len(misses) \in 1 .. Ranks
      <3>1. misses # <<>> /\ Len(misses) <= Ranks /\ Len(misses) \in Nat
        BY <1>3 DEF Fill, HostTypes, TypeOK
      <3>2. Len(misses) # 0
        BY <3>1, EmptySeq DEF HostTypes, TypeOK
      <3> QED
        BY <1>3, <3>1, <3>2, SizesAssumption DEF Fill
    <2>2. WaitOp(Len(misses)) \in Operations /\ WaitOp(Len(misses)).op = "wait"
      BY <2>1, OperationFacts DEF WaitOp
    <2>3. \A i \in DOMAIN compute' : compute'[i].op = "wait"
      BY <1>0, <2>1, <2>2 DEF Streams
    <2> QED
      BY <2>3 DEF Reads, Kernel
  <1>4. CASE Launch
    <2>1. /\ Enqueues(plan, {1}, 1) /\ stage' = stage /\ UNCHANGED <<route, half>>
          /\ pc = "fill" /\ misses = <<>>
      BY <1>4, Enqueuing DEF Launch, ring, device
    <2>2. Len(compute') = Len(compute) + 2
      <3>1. Behind(compute', compute, plan, {1}, 1)
        <4>1. plan \in Seq(Slots) /\ {1} \in SUBSET (1 .. MaxSeqLen) /\ 1 \in 1 .. Ranks
          BY SizesAssumption DEF HostTypes, TypeOK
        <4>2. compute' = compute \o Kernels({1}, plan, 1)
          BY <1>4 DEF Launch
        <4> QED
          BY <1>0, <4>1, <4>2, KernelsBehind
      <3> QED
        BY <3>1 DEF Behind
    <2>3. /\ route \in Routes /\ Len(route) = 1 /\ DOMAIN route = 1 .. 1
          /\ plan \in Seq(Slots) /\ Len(plan) = Ranks
          /\ route[1] \in [1 .. Ranks -> Experts]
      <3>1. route \in Routes /\ Len(route) = 1 /\ plan \in Seq(Slots) /\ Len(plan) = Ranks
        BY <2>1 DEF HostTypes, TypeOK
      <3>2. DOMAIN route = 1 .. 1 /\ route[1] \in [1 .. Ranks -> Experts]
        BY <3>1, RouteFacts
      <3> QED
        BY <3>1, <3>2
    <2>4. Wants({1}, plan, 1, route[1])
      <3>1. route[1] \in Seq(Experts) /\ Len(route[1]) = Ranks
        BY <2>3, SizesAssumption, FunctionIsSeq
      <3>2. \A k \in DOMAIN plan : 1 + k - 1 = k
        BY <2>3
      <3> QED
        BY <2>3, <3>1, <3>2, SizesAssumption DEF Wants
    <2>5. ASSUME NEW k \in DOMAIN plan
          PROVE  Holds(compute, copy, slot, stage, Len(compute), plan[k], route[1][k])
      <3>1. tag[plan[k]] = route[1][k]
        BY <2>1 DEF Located
      <3>2. plan[k] \in Slots /\ route[1][k] \in Experts
        BY <2>3
      <3>3. tag[plan[k]] # NoExpert
        BY <3>1, <3>2, ExpertsAssumption
      <3> QED
        BY <3>1, <3>2, <3>3 DEF Final
    <2>6. ASSUME NEW m \in Len(compute) .. Len(compute')
          PROVE  FindsBehind(m, plan, route[1])
      <3>1. Len(compute) \in 0 .. Len(compute)
        BY <1>0
      <3>2. ASSUME NEW k \in DOMAIN plan
            PROVE  Holds(compute', copy', slot', stage', m, plan[k], route[1][k])
        BY <2>1, <2>2, <2>5, <3>1, <3>2, HoldsBehind
      <3> QED
        BY <3>2 DEF FindsBehind
    <2>7. Len(compute') - 2 \in Len(compute) .. Len(compute') /\ Len(compute') - 1 \in Len(compute) .. Len(compute')
      BY <1>0, <2>2
    <2> QED
      BY <2>1, <2>4, <2>6, <2>7, ReadsBehind
  <1> DEFINE base == Slot(Wanted, Way(Wanted))
  <1>5. ASSUME RankHit \/ RankMiss
        PROVE  /\ UNCHANGED <<route, half>> /\ Enqueues(<<base>>, Turn, turn.rank)
               /\ base \in Slots /\ Wanted \in Experts
               /\ Wants(Turn, <<base>>, turn.rank, <<Wanted>>)
    <2>1. UNCHANGED <<route, half>> /\ pc = "rank"
      BY <1>5 DEF RankHit, RankMiss, device
    <2>2. Enqueues(<<base>>, Turn, turn.rank)
      BY <1>5, Enqueuing
    <2>3. base \in Slots
      BY <2>1, TurnBehind
    <2>4. /\ Wanted \in Experts /\ Turn \in SUBSET DOMAIN route /\ Turn # {}
          /\ \A t \in Turn : route[t][turn.rank] = Wanted
      BY <2>1, TurnFacts
    <2>5. route \in Routes /\ turn.rank \in 1 .. Ranks
      BY <2>1 DEF HostTypes
    <2> HIDE DEF base
    <2>6. Wants(Turn, <<base>>, turn.rank, <<Wanted>>)
      <3>1. /\ <<Wanted>> \in Seq(Experts) /\ Len(<<Wanted>>) = Len(<<base>>) /\ Len(<<base>>) = 1
            /\ <<base>> \in Seq(Slots) /\ DOMAIN <<base>> = {1} /\ <<Wanted>>[1] = Wanted
        BY <2>3, <2>4
      <3>2. turn.rank + 1 <= Ranks + 1 /\ turn.rank + 1 - 1 = turn.rank
        BY <2>5, SizesAssumption
      <3> QED
        BY <2>4, <2>5, <3>1, <3>2 DEF Wants
    <2> QED
      BY <2>1, <2>2, <2>3, <2>4, <2>6 DEF base
  <1> HIDE DEF base
  <1>6. CASE RankHit
    <2>1. Len(compute') = Len(compute) + 2
      <3>1. Behind(compute', compute, <<base>>, Turn, turn.rank)
        BY <1>0, <1>6, TurnBehind, KernelsBehind DEF RankHit, base
      <3> QED
        BY <3>1 DEF Behind
    <2>2. Holds(compute, copy, slot, stage, Len(compute), base, Wanted)
      <3>1. tag[base] = Wanted
        BY <1>5, <1>6, SlotFacts DEF RankHit, base, HostTypes, TypeOK
      <3>2. tag[base] # NoExpert
        BY <1>5, <1>6, <3>1, ExpertsAssumption
      <3> QED
        BY <1>5, <1>6, <3>1, <3>2 DEF Final
    <2>3. ASSUME NEW m \in Len(compute) .. Len(compute')
          PROVE  FindsBehind(m, <<base>>, <<Wanted>>)
      <3>1. Len(compute) \in 0 .. Len(compute)
        BY <1>0
      <3>2. Holds(compute', copy', slot', stage', m, base, Wanted)
        BY <1>5, <1>6, <2>1, <2>2, <3>1, HoldsBehind
      <3>3. DOMAIN <<base>> = {1} /\ <<base>>[1] = base /\ <<Wanted>>[1] = Wanted
        OBVIOUS
      <3> QED
        BY <3>2, <3>3 DEF FindsBehind
    <2>4. Len(compute') - 2 \in Len(compute) .. Len(compute') /\ Len(compute') - 1 \in Len(compute) .. Len(compute')
      BY <1>0, <2>1
    <2> QED
      BY <1>5, <1>6, <2>3, <2>4, ReadsBehind
  <1>7. CASE RankMiss
    <2>1. Len(compute') = Len(compute) + 3
      BY <1>7, Enqueuing
    <2>2. ASSUME NEW m \in Len(compute) + 1 .. Len(compute')
          PROVE  FindsBehind(m, <<base>>, <<Wanted>>)
      <3>1. Holds(compute', copy', slot', stage', m, base, Wanted)
        BY <1>7, HoldsMissed DEF base
      <3>2. DOMAIN <<base>> = {1} /\ <<base>>[1] = base /\ <<Wanted>>[1] = Wanted
        OBVIOUS
      <3> QED
        BY <3>1, <3>2 DEF FindsBehind
    <2>3. Len(compute') - 2 \in Len(compute) + 1 .. Len(compute') /\ Len(compute') - 1 \in Len(compute) + 1 .. Len(compute')
      BY <1>0, <2>1
    <2> QED
      BY <1>5, <1>7, <2>2, <2>3, ReadsBehind
  <1>8. CASE CopyStream
    <2>1. UNCHANGED <<compute, route, half>>
      BY <1>8 DEF CopyStream, host
    <2>2. ASSUME NEW i \in DOMAIN compute, NEW k \in DOMAIN compute[i].slots,
                 Holds(compute, copy, slot, stage, i - 1, compute[i].slots[k], Meant(route, compute[i])[k]),
                 Kernel(compute[i])
          PROVE  Holds(compute', copy', slot', stage', i - 1, compute[i].slots[k], Meant(route, compute[i])[k])
      <3>1. i - 1 \in Nat
        BY <1>0
      <3>2. compute[i] \in Operations
        BY <1>0
      <3>3. compute[i].slots[k] \in Slots
        BY <2>2, <3>2, OperationFacts
      <3> QED
        BY <1>8, <2>2, <3>1, <3>3, CopyKeeps
    <2> QED
      BY <2>1, <2>2 DEF Reads
  <1>9. CASE ComputeStream
    <2>1. compute # <<>> /\ compute' = Tail(compute) /\ UNCHANGED <<copy, route, stage>>
      BY <1>9 DEF ComputeStream, host, ring
    <2>2. /\ 1 \in DOMAIN compute /\ Head(compute) = compute[1]
          /\ \A i \in DOMAIN compute' : i + 1 \in DOMAIN compute /\ compute'[i] = compute[i + 1]
          /\ DOMAIN compute' = 1 .. Len(compute) - 1
      BY <1>0, <2>1, TailFacts
    <2>3. ASSUME NEW i \in DOMAIN compute', Kernel(compute'[i])
          PROVE  /\ Launched(route', compute'[i])
                 /\ \A k \in DOMAIN compute'[i].slots :
                       Holds(compute', copy', slot', stage', i - 1, compute'[i].slots[k], Meant(route', compute'[i])[k])
      <3> DEFINE o == compute[i + 1]
      <3>1. i + 1 \in DOMAIN compute /\ compute'[i] = o /\ o \in Operations /\ i \in 1 .. Len(compute) /\ (i + 1) - 1 = i
        BY <1>0, <2>2
      <3> HIDE DEF o
      <3>2. Launched(route, o)
        BY <2>3, <3>1 DEF Reads, o
      <3>3. ASSUME NEW k \in DOMAIN o.slots
            PROVE  Holds(compute', copy', slot', stage', i - 1, o.slots[k], Meant(route, o)[k])
        <4>1. Holds(compute, copy, slot, stage, (i + 1) - 1, o.slots[k], Meant(route, o)[k])
          BY <2>3, <3>1, <3>3 DEF Reads, o
        <4>2. o.slots[k] \in Slots
          BY <2>3, <3>1, <3>3, OperationFacts
        <4> QED
          BY <1>9, <3>1, <4>1, <4>2, ComputeKeeps
      <3> QED
        BY <2>1, <3>1, <3>2, <3>3
    <2>4. ASSUME NEW i \in DOMAIN compute', compute'[i].op = "down"
          PROVE  IF i = 1 THEN half' = Meant(route', compute'[1])
                 ELSE compute'[i - 1] = [compute'[i] EXCEPT !.op = "gateup"]
      <3>1. i + 1 \in DOMAIN compute /\ i + 1 # 1 /\ (i + 1) - 1 = i /\ compute'[i] = compute[i + 1]
        BY <2>2
      <3>2. compute[i] = [compute[i + 1] EXCEPT !.op = "gateup"]
        BY <2>4, <3>1 DEF Reads
      <3>3. CASE i = 1
        <4> DEFINE o == compute[1]
                   d == compute[2]
        <4>1. d = compute'[1] /\ d \in Operations /\ d.op = "down"
          BY <1>0, <2>4, <3>1, <3>3
        <4>2. o = [d EXCEPT !.op = "gateup"]
          BY <3>2, <3>3
        <4>3. o.op = "gateup" /\ o.slots = d.slots /\ o.toks = d.toks /\ o.rank = d.rank
          <5>1. d \in [op : {"gateup", "down"}, slots : Seq(Slots), toks : SUBSET (1 .. MaxSeqLen), rank : 1 .. Ranks]
            BY <4>1 DEF Operations
          <5> HIDE DEF d, o
          <5> QED
            BY <4>2, <5>1
        <4> HIDE DEF o, d
        <4>4. Head(compute) = o
          BY <2>2 DEF o
        <4>5. half' = [k \in DOMAIN o.slots |-> slot[o.slots[k]]]
          BY <1>9, <4>3, <4>4 DEF ComputeStream
        <4>6. \A k \in DOMAIN o.slots : slot[o.slots[k]] = Meant(route, o)[k]
          BY <2>1, <4>3, <4>4, KernelNext DEF Kernel
        <4>7. half' = Meant(route, o)
          BY <4>5, <4>6 DEF Meant
        <4>8. Meant(route, o) = Meant(route, d)
          BY <4>3 DEF Meant
        <4> QED
          BY <2>1, <3>3, <4>1, <4>7, <4>8
      <3>4. CASE i # 1
        <4>1. i - 1 \in DOMAIN compute' /\ (i - 1) + 1 = i
          BY <1>0, <2>2, <3>4
        <4>2. compute'[i - 1] = compute[i]
          BY <2>2, <4>1
        <4> QED
          BY <3>1, <3>2, <3>4, <4>2
      <3> QED
        BY <3>3, <3>4
    <2> QED
      BY <2>3, <2>4 DEF Reads
  <1>10. CASE UNCHANGED vars
    BY <1>10 DEF vars, host, ring, device, Reads
  <1> QED
    BY <1>1, <1>2, <1>3, <1>4, <1>6, <1>7, <1>8, <1>9, <1>10 DEF Next, Block

-----------------------------------------------------------------------------
(* The order of the ranks.                                                 *)

Typed(q, t) ==
    /\ Len(q) \in Nat /\ DOMAIN q = 1 .. Len(q)
    /\ \A i \in DOMAIN q : Adds(q[i], t) => q[i].rank \in Nat /\ After(q[i]) \in Nat

LEMMA TypedStream ==
    ASSUME HostTypes, NEW t
    PROVE  Typed(compute, t)
  <1>1. compute \in Seq(Operations) /\ Len(compute) \in Nat /\ DOMAIN compute = 1 .. Len(compute)
    BY DEF HostTypes, TypeOK
  <1>2. ASSUME NEW o \in Operations, Adds(o, t)
        PROVE  o.rank \in Nat /\ After(o) \in Nat
    <2>1. o.rank \in 1 .. Ranks /\ o.slots \in Seq(Slots)
      BY <1>2, OperationFacts DEF Adds, Kernel
    <2> QED
      BY <2>1, SizesAssumption DEF After
  <1> QED
    BY <1>1, <1>2 DEF Typed

\* The stream q2 is q with something behind it.
Grows(q2, q) ==
    /\ Len(q) \in Nat /\ DOMAIN q = 1 .. Len(q)
    /\ Len(q2) \in Nat /\ DOMAIN q2 = 1 .. Len(q2)
    /\ Len(q) < Len(q2)
    /\ \A i \in 1 .. Len(q) : q2[i] = q[i]

LEMMA GrowsFacts ==
    ASSUME NEW q, NEW q2, Grows(q2, q)
    PROVE  /\ \A i \in DOMAIN q : i \in DOMAIN q2 /\ q2[i] = q[i] /\ i < Len(q2)
           /\ \A i \in DOMAIN q2 : i > Len(q) \/ (i \in DOMAIN q /\ q2[i] = q[i])
           /\ Len(q2) \in DOMAIN q2 /\ Len(q2) \in Nat /\ \A i \in DOMAIN q2 : i \in Nat /\ i <= Len(q2)
  <1>1. /\ Len(q) \in Nat /\ DOMAIN q = 1 .. Len(q)
        /\ Len(q2) \in Nat /\ DOMAIN q2 = 1 .. Len(q2)
        /\ Len(q) < Len(q2)
        /\ \A i \in 1 .. Len(q) : q2[i] = q[i]
    BY DEF Grows
  <1>2. \A i \in DOMAIN q : i \in DOMAIN q2 /\ q2[i] = q[i] /\ i < Len(q2)
    BY <1>1
  <1>3. \A i \in DOMAIN q2 : i > Len(q) \/ (i \in DOMAIN q /\ q2[i] = q[i])
    BY <1>1
  <1> QED
    BY <1>1, <1>2, <1>3

\* Nothing of the token's is put behind.
LEMMA OrderedOthers ==
    ASSUME NEW t, NEW r, NEW o, NEW q, NEW n, Ordered(t, r, o, q, n),
           NEW q2, Grows(q2, q), \A i \in DOMAIN q2 : i > Len(q) => ~Adds(q2[i], t)
    PROVE  Ordered(t, r, o, q2, n)
  <1>1. /\ \A i \in DOMAIN q : i \in DOMAIN q2 /\ q2[i] = q[i]
        /\ \A i \in DOMAIN q2 : Adds(q2[i], t) => i \in DOMAIN q /\ q2[i] = q[i]
    BY GrowsFacts
  <1> QED
    BY <1>1 DEF Ordered

\* The ranks that are the token's next are put behind.
LEMMA OrderedBehind ==
    ASSUME NEW t, NEW r, NEW o, Len(o) \in Nat, NEW q, Typed(q, t), NEW n \in Nat, Ordered(t, r, o, q, n),
           NEW q2, Grows(q2, q), NEW m \in Nat, n < m,
           \A i \in DOMAIN q2 : i > Len(q) /\ Adds(q2[i], t) => i = Len(q2),
           Adds(q2[Len(q2)], t), q2[Len(q2)].rank = n, After(q2[Len(q2)]) = m
    PROVE  Ordered(t, r, o, q2, m)
  <1>1. /\ \A i \in DOMAIN q : i \in DOMAIN q2 /\ q2[i] = q[i] /\ i < Len(q2)
        /\ \A i \in DOMAIN q2 : Adds(q2[i], t) => i = Len(q2) \/ (i \in DOMAIN q /\ q2[i] = q[i])
        /\ Len(q2) \in DOMAIN q2 /\ Len(q2) \in Nat /\ \A i \in DOMAIN q2 : i \in Nat /\ i <= Len(q2)
    BY GrowsFacts
  <1>2. /\ Len(o) <= Ranks /\ Len(o) < n /\ \A k \in DOMAIN o : o[k] = r[k]
        /\ \A i \in DOMAIN q : Adds(q[i], t) => Len(o) < q[i].rank /\ After(q[i]) <= n
        /\ \A i, j \in DOMAIN q : Adds(q[i], t) /\ j > i /\ Adds(q[j], t) => After(q[i]) <= q[j].rank
        /\ \A k \in 1 .. Ranks : Len(o) < k /\ k < n =>
              \E i \in DOMAIN q : Adds(q[i], t) /\ q[i].rank <= k /\ k < After(q[i])
    BY DEF Ordered
  <1>3. \A i \in DOMAIN q : Adds(q[i], t) => After(q[i]) \in Nat
    BY DEF Typed
  <1>4. ASSUME NEW i \in DOMAIN q2, Adds(q2[i], t)
        PROVE  /\ Len(o) < q2[i].rank /\ After(q2[i]) <= m
               /\ \A j \in DOMAIN q2 : j > i /\ Adds(q2[j], t) => After(q2[i]) <= q2[j].rank
    <2>1. CASE i = Len(q2)
      <3>1. \A j \in DOMAIN q2 : ~(j > i)
        BY <1>1, <2>1
      <3> QED
        BY <1>2, <2>1, <3>1
    <2>2. CASE i \in DOMAIN q /\ q2[i] = q[i]
      <3>1. Adds(q[i], t) /\ Len(o) < q[i].rank /\ After(q[i]) <= n /\ After(q[i]) \in Nat
        BY <1>2, <1>3, <1>4, <2>2
      <3>2. After(q[i]) <= m
        BY <3>1
      <3>3. ASSUME NEW j \in DOMAIN q2, j > i, Adds(q2[j], t)
            PROVE  After(q[i]) <= q2[j].rank
        <4>1. CASE j = Len(q2)
          BY <3>1, <4>1
        <4>2. CASE j \in DOMAIN q /\ q2[j] = q[j]
          BY <1>2, <2>2, <3>1, <3>3, <4>2
        <4> QED
          BY <1>1, <3>3, <4>1, <4>2
      <3> QED
        BY <2>2, <3>1, <3>2, <3>3
    <2> QED
      BY <1>1, <1>4, <2>1, <2>2
  <1>5. ASSUME NEW k \in 1 .. Ranks, Len(o) < k, k < m
        PROVE  \E i \in DOMAIN q2 : Adds(q2[i], t) /\ q2[i].rank <= k /\ k < After(q2[i])
    <2>1. CASE k < n
      <3>1. PICK i \in DOMAIN q : Adds(q[i], t) /\ q[i].rank <= k /\ k < After(q[i])
        BY <1>2, <1>5, <2>1
      <3>2. i \in DOMAIN q2 /\ q2[i] = q[i]
        BY <1>1
      <3> QED
        BY <3>1, <3>2
    <2>2. CASE ~(k < n)
      <3>1. n <= k
        BY <2>2, SizesAssumption
      <3> QED
        BY <1>1, <1>5, <3>1
    <2> QED
      BY <2>1, <2>2
  <1>6. Len(o) < m
    BY <1>2
  <1> QED
    BY <1>2, <1>4, <1>5, <1>6 DEF Ordered

\* An operation that is not the token's has run.
LEMMA OrderedRun ==
    ASSUME NEW t, NEW r, NEW o, NEW S, NEW q \in Seq(S), q # <<>>, NEW n, Ordered(t, r, o, q, n), ~Adds(q[1], t)
    PROVE  Ordered(t, r, o, Tail(q), n)
  <1> DEFINE p == Tail(q)
  <1>1. /\ \A i \in DOMAIN p : i \in Nat /\ i + 1 \in DOMAIN q /\ p[i] = q[i + 1]
        /\ \A i \in DOMAIN q : i # 1 => i - 1 \in DOMAIN p /\ p[i - 1] = q[i]
    BY TailFacts
  <1> HIDE DEF p
  <1>2. ASSUME NEW i \in DOMAIN p, Adds(p[i], t)
        PROVE  /\ Len(o) < p[i].rank /\ After(p[i]) <= n
               /\ \A j \in DOMAIN p : j > i /\ Adds(p[j], t) => After(p[i]) <= p[j].rank
    <2>1. i + 1 \in DOMAIN q /\ p[i] = q[i + 1] /\ i \in Nat
      BY <1>1
    <2>2. ASSUME NEW j \in DOMAIN p, j > i, Adds(p[j], t)
          PROVE  After(p[i]) <= p[j].rank
      <3>1. j + 1 \in DOMAIN q /\ p[j] = q[j + 1] /\ j \in Nat
        BY <1>1
      <3>2. j + 1 > i + 1
        BY <2>1, <2>2, <3>1
      <3> QED
        BY <1>2, <2>1, <2>2, <3>1, <3>2 DEF Ordered
    <2> QED
      BY <1>2, <2>1, <2>2 DEF Ordered
  <1>3. ASSUME NEW k \in 1 .. Ranks, Len(o) < k, k < n
        PROVE  \E i \in DOMAIN p : Adds(p[i], t) /\ p[i].rank <= k /\ k < After(p[i])
    <2>1. PICK i \in DOMAIN q : Adds(q[i], t) /\ q[i].rank <= k /\ k < After(q[i])
      BY <1>3 DEF Ordered
    <2>2. i # 1
      BY <2>1
    <2> QED
      BY <1>1, <2>1, <2>2
  <1> QED
    BY <1>2, <1>3 DEF Ordered, p

\* The next kernel that adds to the token adds exactly its next ranks.
LEMMA OrderedAdds ==
    ASSUME NEW t, NEW r, NEW o, Len(o) \in Nat, NEW S, NEW q \in Seq(S), q # <<>>, Typed(q, t),
           NEW n \in Nat, Ordered(t, r, o, q, n), Adds(q[1], t), q[1].rank < After(q[1]),
           After(q[1]) <= Ranks + 1
    PROVE  q[1].rank = Len(o) + 1
  <1>1. 1 \in DOMAIN q /\ DOMAIN q = 1 .. Len(q) /\ Len(q) \in Nat
    BY TailFacts
  <1> DEFINE k == Len(o) + 1
             a == q[1].rank
             b == After(q[1])
  <1>2. a \in Nat /\ b \in Nat /\ Len(o) < a /\ b <= n /\ a < b /\ b <= Ranks + 1
    BY <1>1 DEF Ordered, Typed
  <1> HIDE DEF a, b
  <1>3. k \in 1 .. Ranks /\ Len(o) < k /\ k < n
    BY <1>2, SizesAssumption
  <1>4. PICK i \in DOMAIN q : Adds(q[i], t) /\ q[i].rank <= k /\ k < After(q[i])
    BY <1>3 DEF Ordered
  <1>5. CASE i = 1
    <2>1. a <= k
      BY <1>4, <1>5 DEF a
    <2>2. a = k
      BY <1>2, <2>1
    <2> QED
      BY <2>2 DEF a
  <1>6. CASE i # 1
    <2>1. i > 1
      BY <1>1, <1>6
    <2>2. b <= q[i].rank /\ q[i].rank \in Nat
      BY <1>1, <1>4, <2>1 DEF Ordered, Typed, b
    <2> QED
      BY <1>2, <1>4, <2>2
  <1> QED
    BY <1>5, <1>6

\* A kernel of the token's has run.
LEMMA OrderedAdded ==
    ASSUME NEW t, NEW r, NEW o, Len(o) \in Nat, NEW S, NEW q \in Seq(S), q # <<>>, Typed(q, t),
           NEW n \in Nat, Ordered(t, r, o, q, n), Adds(q[1], t), q[1].rank < After(q[1]),
           After(q[1]) <= Ranks + 1,
           NEW o2, Len(o2) \in Nat, Len(o2) = After(q[1]) - 1, \A k \in DOMAIN o2 : o2[k] = r[k]
    PROVE  Ordered(t, r, o2, Tail(q), n)
  <1> DEFINE p == Tail(q)
  <1>1. /\ \A i \in DOMAIN p : i \in Nat /\ i > 0 /\ i + 1 \in DOMAIN q /\ p[i] = q[i + 1]
        /\ \A i \in DOMAIN q : i # 1 => i - 1 \in DOMAIN p /\ p[i - 1] = q[i]
        /\ 1 \in DOMAIN q
    BY TailFacts
  <1> HIDE DEF p
  <1>0. After(q[1]) \in Nat /\ q[1].rank \in Nat /\ Len(o) < q[1].rank /\ After(q[1]) <= n
    BY <1>1 DEF Ordered, Typed
  <1>2. ASSUME NEW i \in DOMAIN p, Adds(p[i], t)
        PROVE  /\ Len(o2) < p[i].rank /\ After(p[i]) <= n
               /\ \A j \in DOMAIN p : j > i /\ Adds(p[j], t) => After(p[i]) <= p[j].rank
    <2>1. i + 1 \in DOMAIN q /\ p[i] = q[i + 1] /\ i \in Nat /\ i + 1 > 1
      BY <1>1
    <2>2. ASSUME NEW j \in DOMAIN p, j > i, Adds(p[j], t)
          PROVE  After(p[i]) <= p[j].rank
      <3>1. j + 1 \in DOMAIN q /\ p[j] = q[j + 1] /\ j \in Nat
        BY <1>1
      <3>2. j + 1 > i + 1
        BY <2>1, <2>2, <3>1
      <3> QED
        BY <1>2, <2>1, <2>2, <3>1, <3>2 DEF Ordered
    <2>3. After(q[1]) <= p[i].rank /\ p[i].rank \in Nat /\ After(p[i]) <= n
      BY <1>1, <1>2, <2>1 DEF Ordered, Typed
    <2>4. Len(o2) < p[i].rank
      BY <1>0, <2>3
    <2> QED
      BY <2>2, <2>3, <2>4
  <1>3. ASSUME NEW k \in 1 .. Ranks, Len(o2) < k, k < n
        PROVE  \E i \in DOMAIN p : Adds(p[i], t) /\ p[i].rank <= k /\ k < After(p[i])
    <2>1. After(q[1]) <= k /\ Len(o) < k
      BY <1>0, <1>3
    <2>2. PICK i \in DOMAIN q : Adds(q[i], t) /\ q[i].rank <= k /\ k < After(q[i])
      BY <1>3, <2>1 DEF Ordered
    <2>3. i # 1
      BY <1>0, <2>1, <2>2
    <2> QED
      BY <1>1, <2>2, <2>3
  <1>4. Len(o2) <= Ranks /\ Len(o2) < n
    BY <1>0, SizesAssumption
  <1> QED
    BY <1>2, <1>3, <1>4 DEF Ordered, p

\* The rank that comes next for a token, before and after a turn.
LEMMA NextRankFacts ==
    ASSUME HostTypes, pc = "rank", Advance, Agree => turn.tok = 1, route' = route
    PROVE  /\ \A t \in DOMAIN route :
                 /\ t \in Turn => NextRank(t) = turn.rank /\ NextRank(t)' = turn.rank + 1
                 /\ t \notin Turn => NextRank(t)' = NextRank(t)
           /\ pc' = "rank" /\ Agree' => turn'.tok = 1
  <1>1. /\ DOMAIN route = 1 .. Len(route) /\ Len(route) \in Nat
        /\ turn.rank \in 1 .. Ranks /\ turn.tok \in 1 .. Len(route)
    BY RouteFacts DEF HostTypes
  <1>2. CASE ~Agree /\ turn.tok < Len(route)
    <2>1. turn' = [rank |-> turn.rank, tok |-> turn.tok + 1] /\ pc' = "rank" /\ Turn = {turn.tok}
      BY <1>2 DEF Advance, Turn, HostTypes, TypeOK
    <2>2. turn'.rank = turn.rank /\ turn'.tok = turn.tok + 1
      BY <2>1
    <2>3. ~Agree'
      BY <1>2, <2>2 DEF Agree
    <2>4. ASSUME NEW t \in DOMAIN route
          PROVE  /\ t \in Turn => NextRank(t) = turn.rank /\ NextRank(t)' = turn.rank + 1
                 /\ t \notin Turn => NextRank(t)' = NextRank(t)
      <3>1. /\ NextRank(t) = IF t < turn.tok THEN turn.rank + 1 ELSE turn.rank
            /\ NextRank(t)' = IF t < turn.tok + 1 THEN turn.rank + 1 ELSE turn.rank
        BY <2>1, <2>2 DEF NextRank
      <3>2. t \in Turn <=> t = turn.tok
        BY <2>1
      <3> QED
        BY <1>1, <3>1, <3>2
    <2> QED
      BY <2>3, <2>4
  <1>3. CASE ~(~Agree /\ turn.tok < Len(route))
    <2>1. /\ turn' = [rank |-> turn.rank + 1, tok |-> 1]
          /\ pc' = IF turn.rank = Ranks THEN "sync" ELSE "rank"
      BY <1>3 DEF Advance
    <2>2. turn'.rank = turn.rank + 1 /\ turn'.tok = 1
      BY <2>1
    <2>3. ASSUME NEW t \in DOMAIN route
          PROVE  /\ t \in Turn => NextRank(t) = turn.rank /\ NextRank(t)' = turn.rank + 1
                 /\ t \notin Turn => NextRank(t)' = NextRank(t)
      <3>1. NextRank(t) = IF t < turn.tok THEN turn.rank + 1 ELSE turn.rank
        BY DEF NextRank
      <3>2. NextRank(t)' = turn.rank + 1
        <4>1. CASE turn.rank = Ranks
          BY <2>1, <4>1 DEF NextRank
        <4>2. CASE turn.rank # Ranks
          <5>1. pc' = "rank" /\ ~(t < 1)
            BY <1>1, <2>1, <4>2
          <5> QED
            BY <2>2, <5>1 DEF NextRank
        <4> QED
          BY <4>1, <4>2
      <3>3. CASE Agree
        <4>1. t \in Turn /\ turn.tok = 1
          BY <3>3 DEF Turn
        <4> QED
          BY <1>1, <3>1, <3>2, <4>1
      <3>4. CASE ~Agree
        <4>1. turn.tok = Len(route) /\ (t \in Turn <=> t = turn.tok)
          BY <1>1, <1>3, <3>4 DEF Turn
        <4> QED
          BY <1>1, <3>1, <3>2, <4>1
      <3> QED
        BY <3>3, <3>4
    <2> QED
      BY <2>2, <2>3
  <1> QED
    BY <1>2, <1>3

\* What enqueued kernels are to the order.
LEMMA EnqueueOrder ==
    ASSUME HostTypes, NEW bases, NEW toks, NEW r, Enqueues(bases, toks, r)
    PROVE  /\ Grows(compute', compute)
           /\ \A i \in DOMAIN compute' : \A t : i > Len(compute) /\ Adds(compute'[i], t) => i = Len(compute') /\ t \in toks
           /\ \A t \in toks : Adds(compute'[Len(compute')], t)
           /\ compute'[Len(compute')].rank = r
           /\ After(compute'[Len(compute')]) = r + Len(bases)
  <1>1. Enqueued(bases, toks, r)
    BY EnqueueKeeps
  <1>2. /\ Len(compute) \in Nat /\ Len(compute') \in Nat /\ DOMAIN compute = 1 .. Len(compute)
        /\ Len(compute) + 2 <= Len(compute') /\ Len(compute') <= Len(compute) + 3
        /\ DOMAIN compute' = 1 .. Len(compute')
        /\ \A i \in 1 .. Len(compute) : compute'[i] = compute[i]
    <2>1. compute \in Seq(Operations) /\ compute' \in Seq(Operations)
      BY <1>1 DEF Enqueued
    <2>2. Len(compute') \in {Len(compute) + 2, Len(compute) + 3}
      BY <1>1 DEF Enqueued
    <2>3. \A i \in 1 .. Len(compute) : compute'[i] = compute[i]
      BY <1>1 DEF Enqueued
    <2> QED
      BY <2>1, <2>2, <2>3
  <1>3. Grows(compute', compute)
    BY <1>2 DEF Grows
  <1> DEFINE d == compute'[Len(compute')]
  <1>4. d.op = "down" /\ d.toks = toks /\ d.rank = r /\ d.slots = bases
    <2>1. d = [op |-> "down", slots |-> bases, toks |-> toks, rank |-> r]
      BY <1>1 DEF Enqueued
    <2> HIDE DEF d
    <2> QED
      BY <2>1
  <1>5. compute'[Len(compute') - 1].op = "gateup"
    <2>1. compute'[Len(compute') - 1] = [op |-> "gateup", slots |-> bases, toks |-> toks, rank |-> r]
      BY <1>1 DEF Enqueued
    <2> QED
      BY <2>1
  <1>6. Len(compute') = Len(compute) + 3 => compute'[Len(compute) + 1].op = "copy"
    <2>1. Len(compute') = Len(compute) + 3 => compute'[Len(compute) + 1] = CopyOp(bases[1], flag, 0)
      BY <1>1 DEF Enqueued
    <2>2. CopyOp(bases[1], flag, 0).op = "copy"
      BY DEF CopyOp
    <2> QED
      BY <2>1, <2>2
  <1> HIDE DEF d
  <1>7. ASSUME NEW i \in DOMAIN compute', i > Len(compute), compute'[i].op = "down"
        PROVE  i = Len(compute')
    <2>1. i \in Nat /\ i <= Len(compute') /\ Len(compute) \in Nat /\ Len(compute') \in Nat
          /\ Len(compute) + 2 <= Len(compute') /\ Len(compute') <= Len(compute) + 3
      BY <1>2
    <2>2. i # Len(compute') - 1
      BY <1>5, <1>7
    <2>3. i = Len(compute) + 1 => Len(compute') # Len(compute) + 3
      BY <1>6, <1>7
    <2> QED
      BY <1>7, <2>1, <2>2, <2>3
  <1>8. \A i \in DOMAIN compute' : \A t : i > Len(compute) /\ Adds(compute'[i], t) => i = Len(compute') /\ t \in toks
    <2> SUFFICES ASSUME NEW i \in DOMAIN compute', NEW t, i > Len(compute), Adds(compute'[i], t)
                 PROVE  i = Len(compute') /\ t \in toks
      OBVIOUS
    <2>1. i = Len(compute')
      BY <1>7 DEF Adds
    <2> QED
      BY <1>4, <2>1 DEF Adds, d
  <1>9. \A t \in toks : Adds(d, t)
    BY <1>4 DEF Adds
  <1>10. After(d) = r + Len(bases)
    BY <1>4 DEF After
  <1> QED
    BY <1>3, <1>4, <1>8, <1>9, <1>10 DEF d

LEMMA OrderStep ==
    ASSUME HostTypes, Streams, Reads, Order, [Next]_vars
    PROVE  Order'
  <1>0. /\ compute \in Seq(Operations) /\ Len(compute) \in Nat /\ DOMAIN compute = 1 .. Len(compute)
        /\ DOMAIN out = 1 .. Len(route)
        /\ \A t \in 1 .. Len(route) : out[t] \in Seq(Contents) /\ Len(out[t]) \in Nat
        /\ pc # "sync" => DOMAIN route = 1 .. Len(route)
    <2>1. compute \in Seq(Operations) /\ out \in [1 .. Len(route) -> Seq(Contents)]
      BY DEF HostTypes, TypeOK
    <2>2. pc # "sync" => DOMAIN route = 1 .. Len(route)
      BY RouteFacts DEF HostTypes
    <2> QED
      BY <2>1, <2>2
  <1>1. ASSUME NEW r \in Routes, Route(r)
        PROVE  Order'
    <2>1. /\ compute' = <<>> /\ route' = r /\ out' = [t \in 1 .. Len(r) |-> <<>>]
          /\ turn' = [rank |-> 1, tok |-> 1] /\ pc' \in {"locate", "rank"}
          /\ DOMAIN r = 1 .. Len(r)
      BY <1>1, RouteFacts DEF Route
    <2>2. turn'.rank = 1 /\ turn'.tok = 1
      BY <2>1
    <2>3. ASSUME NEW t \in DOMAIN route'
          PROVE  Ordered(t, route'[t], out'[t], compute', NextRank(t)')
      <3>1. NextRank(t)' = 1
        <4>1. t \in 1 .. Len(r) /\ ~(t < 1)
          BY <2>1
        <4> QED
          BY <2>1, <2>2, <4>1 DEF NextRank
      <3>2. out'[t] = <<>> /\ Len(out'[t]) = 0 /\ DOMAIN out'[t] = {}
        BY <2>1
      <3> QED
        BY <2>1, <3>1, <3>2, SizesAssumption DEF Ordered
    <2> QED
      BY <2>2, <2>3 DEF Order
  <1>2. CASE Locate
    <2>1. /\ compute' = compute /\ pc = "locate" /\ UNCHANGED <<route, out, turn>>
          /\ pc' \in {"locate", "fill", "rank"} /\ turn.rank = 1 /\ turn.tok = 1
      BY <1>2 DEF Locate, device, HostTypes
    <2>2. \A t \in DOMAIN route : NextRank(t) = 1 /\ NextRank(t)' = 1
      <3>1. \A t \in DOMAIN route : ~(t < 1)
        BY <1>0, <2>1
      <3> QED
        BY <2>1, <3>1 DEF NextRank
    <2> QED
      BY <2>1, <2>2 DEF Order
  <1>3. CASE Fill
    <2>1. /\ pc = "fill" /\ pc' = "fill" /\ UNCHANGED <<route, out, turn>>
          /\ compute' = Append(compute, WaitOp(Len(misses)))
          /\ Len(misses) \in 1 .. Ranks
      <3>1. misses # <<>> /\ Len(misses) <= Ranks /\ Len(misses) \in Nat
        BY <1>3 DEF Fill, HostTypes, TypeOK
      <3>2. Len(misses) # 0
        BY <3>1, EmptySeq DEF HostTypes, TypeOK
      <3> QED
        BY <1>3, <3>1, <3>2, SizesAssumption DEF Fill, host, device
    <2>2. WaitOp(Len(misses)) \in Operations /\ WaitOp(Len(misses)).op = "wait"
      BY <2>1, OperationFacts DEF WaitOp
    <2>3. Grows(compute', compute) /\ compute'[Len(compute) + 1].op = "wait" /\ Len(compute') = Len(compute) + 1
      BY <1>0, <2>1, <2>2, AppendIndex DEF Grows
    <2>4. \A i \in DOMAIN compute' : i > Len(compute) => compute'[i].op = "wait"
      <3>1. DOMAIN compute' = 1 .. Len(compute) + 1
        BY <2>3 DEF Grows
      <3>2. \A i \in 1 .. Len(compute) + 1 : i > Len(compute) => i = Len(compute) + 1
        BY <1>0
      <3> QED
        BY <2>3, <3>1, <3>2
    <2>5. ASSUME NEW t \in DOMAIN route
          PROVE  Ordered(t, route[t], out[t], compute', NextRank(t))
      <3>1. Ordered(t, route[t], out[t], compute, NextRank(t))
        BY DEF Order
      <3>2. \A i \in DOMAIN compute' : i > Len(compute) => ~Adds(compute'[i], t)
        BY <2>4 DEF Adds
      <3> QED
        BY <2>3, <3>1, <3>2, OrderedOthers
    <2>6. \A t \in DOMAIN route : NextRank(t)' = NextRank(t)
      BY <2>1 DEF NextRank
    <2> QED
      BY <2>1, <2>5, <2>6 DEF Order
  <1>4. CASE Launch
    <2>1. /\ Enqueues(plan, {1}, 1) /\ UNCHANGED <<route, out>> /\ pc = "fill" /\ pc' = "sync"
          /\ Len(plan) = Ranks /\ DOMAIN route = {1} /\ 1 \in 1 .. Len(route)
      BY <1>0, <1>4, Enqueuing DEF Launch, device, HostTypes
    <2>2. NextRank(1) = 1 /\ NextRank(1)' = Ranks + 1
      BY <2>1 DEF NextRank
    <2>3. Ordered(1, route[1], out[1], compute, 1)
      BY <2>1, <2>2 DEF Order
    <2>4. /\ Grows(compute', compute)
          /\ \A i \in DOMAIN compute' : i > Len(compute) /\ Adds(compute'[i], 1) => i = Len(compute')
          /\ Adds(compute'[Len(compute')], 1)
          /\ compute'[Len(compute')].rank = 1
          /\ After(compute'[Len(compute')]) = Ranks + 1
      <3>1. 1 + Len(plan) = Ranks + 1
        BY <2>1, SizesAssumption
      <3> QED
        BY <2>1, <3>1, EnqueueOrder
    <2>5. Ordered(1, route[1], out[1], compute', Ranks + 1)
      <3>1. Ranks + 1 \in Nat /\ 1 \in Nat /\ 1 < Ranks + 1
        BY SizesAssumption
      <3>2. Typed(compute, 1)
        BY TypedStream
      <3>3. Len(out[1]) \in Nat
        BY <1>0, <2>1
      <3> QED
        BY <2>3, <2>4, <3>1, <3>2, <3>3, OrderedBehind
    <2> QED
      BY <2>1, <2>2, <2>5 DEF Order
  <1>5. CASE RankHit \/ RankMiss
    <2> DEFINE bases == <<Slot(Wanted, Way(Wanted))>>
    <2>1. /\ Enqueues(bases, Turn, turn.rank) /\ UNCHANGED <<route, out>> /\ pc = "rank" /\ Advance
      BY <1>5, Enqueuing DEF RankHit, RankMiss, device
    <2>2. Len(bases) = 1
      OBVIOUS
    <2> HIDE DEF bases
    <2>3. /\ \A t \in DOMAIN route :
                /\ t \in Turn => NextRank(t) = turn.rank /\ NextRank(t)' = turn.rank + 1
                /\ t \notin Turn => NextRank(t)' = NextRank(t)
          /\ pc' = "rank" /\ Agree' => turn'.tok = 1
      BY <2>1, NextRankFacts DEF Order
    <2>4. /\ Grows(compute', compute)
          /\ \A i \in DOMAIN compute' : \A t : i > Len(compute) /\ Adds(compute'[i], t) => i = Len(compute') /\ t \in Turn
          /\ \A t \in Turn : Adds(compute'[Len(compute')], t)
          /\ compute'[Len(compute')].rank = turn.rank
          /\ After(compute'[Len(compute')]) = turn.rank + 1
      <3>1. /\ Grows(compute', compute)
            /\ \A i \in DOMAIN compute' : \A t : i > Len(compute) /\ Adds(compute'[i], t) => i = Len(compute') /\ t \in Turn
            /\ \A t \in Turn : Adds(compute'[Len(compute')], t)
            /\ compute'[Len(compute')].rank = turn.rank
            /\ After(compute'[Len(compute')]) = turn.rank + Len(bases)
        BY <2>1, EnqueueOrder
      <3> QED
        BY <2>2, <3>1
    <2>5. ASSUME NEW t \in DOMAIN route
          PROVE  Ordered(t, route[t], out[t], compute', NextRank(t)')
      <3>1. Ordered(t, route[t], out[t], compute, NextRank(t))
        BY DEF Order
      <3>2. CASE t \in Turn
        <4>1. turn.rank \in Nat /\ turn.rank + 1 \in Nat /\ turn.rank < turn.rank + 1
          BY <2>1, SizesAssumption DEF HostTypes
        <4>2. Typed(compute, t)
          BY TypedStream
        <4>3. Len(out[t]) \in Nat
          BY <1>0, <2>1
        <4>4. Ordered(t, route[t], out[t], compute', turn.rank + 1)
          <5>1. Ordered(t, route[t], out[t], compute, turn.rank)
            BY <2>3, <3>1, <3>2
          <5>2. \A i \in DOMAIN compute' : i > Len(compute) /\ Adds(compute'[i], t) => i = Len(compute')
            BY <2>4
          <5> QED
            BY <2>4, <3>2, <4>1, <4>2, <4>3, <5>1, <5>2, OrderedBehind
        <4> QED
          BY <2>3, <3>2, <4>4
      <3>3. CASE t \notin Turn
        <4>1. \A i \in DOMAIN compute' : i > Len(compute) => ~Adds(compute'[i], t)
          BY <2>4, <3>3
        <4> QED
          BY <2>3, <2>4, <3>1, <3>3, <4>1, OrderedOthers
      <3> QED
        BY <3>2, <3>3
    <2> QED
      BY <2>1, <2>3, <2>5 DEF Order
  <1>6. CASE CopyStream
    <2>1. UNCHANGED <<pc, route, turn, out, compute>>
      BY <1>6 DEF CopyStream, host
    <2> QED
      BY <2>1 DEF Order, Agree, NextRank
  <1>7. CASE ComputeStream
    <2> DEFINE o == Head(compute)
    <2>1. compute # <<>> /\ compute' = Tail(compute) /\ UNCHANGED <<pc, turn, route>>
      BY <1>7 DEF ComputeStream, host
    <2>2. o = compute[1] /\ 1 \in DOMAIN compute /\ o \in Operations
      BY <1>0, <2>1, TailFacts
    <2> HIDE DEF o
    <2>3. (pc = "rank" /\ Agree => turn.tok = 1)' /\ \A t : NextRank(t)' = NextRank(t)
      BY <2>1 DEF Order, Agree, NextRank
    <2>4. ASSUME NEW t \in DOMAIN route
          PROVE  Ordered(t, route[t], out'[t], compute', NextRank(t))
      <3>1. Ordered(t, route[t], out[t], compute, NextRank(t))
        BY DEF Order
      <3>2. t \in 1 .. Len(route) /\ out[t] \in Seq(Contents) /\ Len(out[t]) \in Nat
        <4>1. DOMAIN route = 1 .. Len(route)
          BY RouteFacts DEF HostTypes, TypeOK
        <4> QED
          BY <1>0, <4>1
      <3>3. CASE ~Adds(o, t)
        <4>1. out'[t] = out[t]
          BY <1>0, <1>7, <3>2, <3>3 DEF ComputeStream, device, Adds, o
        <4> QED
          BY <1>0, <2>1, <2>2, <3>1, <3>3, <4>1, OrderedRun
      <3>4. CASE Adds(o, t)
        <4> DEFINE n == Len(o.slots)
                   used == [i \in DOMAIN o.slots |->
                              IF half[i] = slot[o.slots[i]] THEN slot[o.slots[i]] ELSE NoExpert]
        <4>1. /\ out'[t] = out[t] \o used
          BY <1>0, <1>7, <3>2, <3>4 DEF ComputeStream, Adds, o
        <4>2. Kernel(o) /\ o.rank \in 1 .. Ranks /\ o.slots \in Seq(Slots) /\ n \in Nat /\ DOMAIN o.slots = 1 .. n
          BY <2>2, <3>4, OperationFacts DEF Kernel, Adds
        <4>3. /\ Launched(route, o)
              /\ \A k \in DOMAIN o.slots : slot[o.slots[k]] = Meant(route, o)[k]
          BY <2>1, <4>2, KernelNext DEF o
        <4>4. half = Meant(route, o)
          BY <2>2, <3>4 DEF Reads, Adds
        <4>5. n > 0 /\ o.rank + n <= Ranks + 1 /\ \A k \in DOMAIN o.slots : route[t][o.rank + k - 1] = Meant(route, o)[k]
          BY <3>4, <4>3 DEF Launched, Adds
        <4>6. After(o) = o.rank + n
          BY DEF After
        <4>7. \A k \in DOMAIN o.slots : used[k] = route[t][o.rank + k - 1]
          BY <4>3, <4>4, <4>5
        <4>8. used \in Seq(Contents) /\ Len(used) = n
          <5>1. \A i \in DOMAIN o.slots : slot[o.slots[i]] \in Contents
            BY <4>2 DEF HostTypes, TypeOK
          <5>2. used \in [1 .. n -> Contents]
            BY <4>2, <5>1 DEF Contents
          <5> QED
            BY <4>2, <5>2, FunctionIsSeq
        <4> HIDE DEF n, used
        <4>9. Typed(compute, t) /\ NextRank(t) \in Nat
          <5>1. NextRank(t) \in Nat
            BY SizesAssumption DEF NextRank, HostTypes, TypeOK
          <5> QED
            BY <5>1, TypedStream
        <4>10. o.rank = Len(out[t]) + 1
          BY <1>0, <2>1, <2>2, <3>1, <3>2, <3>4, <4>2, <4>5, <4>6, <4>9, OrderedAdds
        <4>11. Len(out'[t]) = After(o) - 1 /\ Len(out'[t]) \in Nat /\ DOMAIN out'[t] = 1 .. Len(out[t]) + n
          <5>1. Len(out'[t]) = Len(out[t]) + n /\ out'[t] \in Seq(Contents)
            BY <3>2, <4>1, <4>8, ConcatProperties
          <5>2. After(o) - 1 = Len(out[t]) + n /\ Len(out[t]) + n \in Nat
            BY <3>2, <4>2, <4>6, <4>10
          <5>3. DOMAIN out'[t] = 1 .. Len(out'[t])
            BY <5>1
          <5> QED
            BY <5>1, <5>2, <5>3
        <4>12. \A k \in DOMAIN out'[t] : out'[t][k] = route[t][k]
          <5> SUFFICES ASSUME NEW k \in 1 .. Len(out[t]) + n
                       PROVE  out'[t][k] = route[t][k]
            BY <4>11
          <5>1. out'[t][k] = IF k <= Len(out[t]) THEN out[t][k] ELSE used[k - Len(out[t])]
            BY <3>2, <4>1, <4>8, ConcatProperties
          <5>2. CASE k <= Len(out[t])
            <6>1. k \in DOMAIN out[t]
              BY <3>2, <5>2
            <6> QED
              BY <3>1, <5>1, <5>2, <6>1 DEF Ordered
          <5>3. CASE ~(k <= Len(out[t]))
            <6>1. k - Len(out[t]) \in DOMAIN o.slots /\ o.rank + (k - Len(out[t])) - 1 = k
              <7>1. k \in Nat /\ Len(out[t]) \in Nat /\ n \in Nat /\ k <= Len(out[t]) + n /\ Len(out[t]) < k
                BY <3>2, <4>2, <5>3
              <7>2. k - Len(out[t]) \in 1 .. n
                BY <7>1
              <7>3. o.rank + (k - Len(out[t])) - 1 = k
                <8>1. \A a, b \in Nat : (a + 1) + (b - a) - 1 = b
                  OBVIOUS
                <8> QED
                  BY <4>10, <7>1, <8>1
              <7> QED
                BY <4>2, <7>2, <7>3
            <6>2. used[k - Len(out[t])] = route[t][k]
              BY <4>7, <6>1
            <6> QED
              BY <5>1, <5>3, <6>2
          <5> QED
            BY <5>2, <5>3
        <4>13. o.rank < After(o) /\ After(o) <= Ranks + 1
          BY <4>2, <4>5, <4>6
        <4> QED
          BY <1>0, <2>1, <2>2, <3>1, <3>2, <3>4, <4>9, <4>11, <4>12, <4>13, OrderedAdded
      <3> QED
        BY <3>3, <3>4
    <2> QED
      BY <2>1, <2>3, <2>4 DEF Order
  <1>8. CASE UNCHANGED vars
    BY <1>8 DEF vars, host, device, Order, Agree, NextRank
  <1> QED
    BY <1>1, <1>2, <1>3, <1>4, <1>5, <1>6, <1>7, <1>8 DEF Next, Block

LEMMA Preserved ==
    ASSUME RingHolds
    PROVE  IInv /\ [Next]_vars => IInv'
  BY HostStep, StreamsStep, RingsStep, FinalStep, LocatedStep, ReadsStep, OrderStep DEF IInv

\* The strengthening, in every reachable state.
THEOREM Inductive ==
    ASSUME RingHolds
    PROVE  Spec => []IInv
  BY Initial, Preserved, PTL DEF Spec

-----------------------------------------------------------------------------
\* The variables have their types: the ring index stays inside the ring, and no
\* more experts are missing than a token has ranks.
THEOREM TypeCorrect == Spec => []TypeOK
  <1>1. Init => HostTypes
    BY Initial DEF IInv
  <1>2. HostTypes /\ [Next]_vars => HostTypes'
    BY HostStep
  <1>3. HostTypes => TypeOK
    BY DEF HostTypes
  <1> QED
    BY <1>1, <1>2, <1>3, PTL DEF Spec

\* With a staging buffer for each rank of a token the cache is final once
\* g_stream has been synchronised: what the directory says is in the slot, and
\* a later hit need not wait for anything.
THEOREM SlotsBecomeFinal ==
    ASSUME RingHolds
    PROVE  Spec => []SlotsFinal
  <1>1. IInv => SlotsFinal
    <2> SUFFICES ASSUME IInv, pc = "sync", compute = <<>>
                 PROVE  copy = <<>> /\ \A b \in Slots : tag[b] # NoExpert => slot[b] = tag[b]
      BY DEF SlotsFinal
    <2>1. copy = <<>>
      BY BothIdle DEF IInv
    <2>2. ASSUME NEW b \in Slots, tag[b] # NoExpert
          PROVE  slot[b] = tag[b]
      <3>1. Holds(<<>>, <<>>, slot, stage, Len(compute), b, tag[b])
        BY <2>1, <2>2 DEF IInv, Final
      <3>2. DOMAIN <<>> = {}
        OBVIOUS
      <3> QED
        BY <3>1, <3>2 DEF Holds
    <2> QED
      BY <2>1, <2>2
  <1> QED
    BY <1>1, Inductive, PTL

\* With a staging buffer for each rank of a token no buffer is refilled while a
\* copy out of it is still to run: the path by ranks waits for that, and a batch
\* never claims the same buffer twice.
THEOREM DrainKept ==
    ASSUME RingHolds
    PROVE  Spec => DrainBeforeRefill
  <1> DEFINE Drained == \A st \in Stages : stage'[st] # stage[st] =>
                           Copies(compute, st) = {} /\ Copies(copy, st) = {}
  <1>1. ASSUME IInv, [Next]_vars
        PROVE  [Drained]_vars
    <2>0. HostTypes /\ Streams /\ Rings /\ stage \in [Stages -> Contents]
          /\ copy \in Seq(Operations) /\ DOMAIN copy = 1 .. Len(copy)
      BY <1>1 DEF IInv, HostTypes, TypeOK
    <2>1. CASE Fill
      <3> DEFINE m == Head(misses)
      <3>1. pc = "fill" /\ misses # <<>> /\ stage' = [stage EXCEPT ![m.stage] = m.expert]
        BY <2>1 DEF Fill
      <3>2. m = misses[1] /\ 1 \in DOMAIN misses /\ Len(misses) \in Nat
        BY <2>0, <3>1, TailFacts DEF HostTypes, TypeOK
      <3>3. Age(flag, m.stage) = Len(misses)
        BY <2>0, <3>1, <3>2 DEF Rings
      <3> HIDE DEF m
      <3>4. ASSUME NEW st \in Stages, stage'[st] # stage[st]
            PROVE  Copies(compute, st) = {} /\ Copies(copy, st) = {}
        <4>1. st = m.stage
          BY <2>0, <3>1, <3>4
        <4>2. Copies(compute, st) = {}
          BY <2>0, <3>1 DEF Copies, Streams
        <4>3. ASSUME NEW i \in DOMAIN copy
              PROVE  copy[i].stage # st
          <5>1. copy[i].n \in Nat
            BY <2>0, OperationFacts DEF HostTypes
          <5>2. Age(flag, copy[i].stage) = copy[i].n /\ copy[i].n > Len(misses)
            BY <2>0, <3>1 DEF Rings
          <5> QED
            BY <3>2, <3>3, <4>1, <5>1, <5>2
        <4> QED
          BY <4>2, <4>3 DEF Copies
      <3> QED
        BY <3>4
    <2>2. CASE RankMiss
      <3>1. /\ stage' = [stage EXCEPT ![flag] = Wanted]
            /\ Copies(compute, flag) = {} /\ Copies(copy, flag) = {}
        BY <2>2 DEF RankMiss
      <3> QED
        BY <2>0, <3>1
    <2>3. CASE stage' = stage
      BY <2>3
    <2>4. Fill \/ RankMiss \/ stage' = stage
      BY <1>1 DEF Next, Block, Route, Locate, Launch, RankHit, CopyStream, ComputeStream, ring, vars
    <2> QED
      BY <2>1, <2>2, <2>3, <2>4
  <1> QED
    BY <1>1, Inductive, PTL DEF Spec, DrainBeforeRefill

-----------------------------------------------------------------------------
(* The block computes what the router chose.                               *)

LEMMA PrefixFacts ==
    ASSUME NEW S, NEW s \in Seq(S), NEW t \in Seq(S), Len(s) <= Len(t),
           \A i \in 1 .. Len(s) : s[i] = t[i]
    PROVE  Abstract!IsPrefix(s, t)
  <1>1. Len(s) \in Nat /\ Len(t) \in Nat
    OBVIOUS
  <1>2. SubSeq(s, 1, Len(s)) = SubSeq(t, 1, Len(s))
    BY <1>1
  <1> QED
    BY <1>2 DEF Abstract!IsPrefix

\* A block that has been enqueued and run has summed every rank.
LEMMA BlockSummed ==
    ASSUME IInv, pc = "sync", compute = <<>>
    PROVE  out = route
  <1>1. /\ DOMAIN route = 1 .. Len(route) /\ Len(route) \in Nat /\ route = [t \in 1 .. Len(route) |-> route[t]]
        /\ \A t \in 1 .. Len(route) : route[t] \in [1 .. Ranks -> Experts]
    <2>1. CASE route = <<>>
      BY <2>1
    <2>2. CASE route \in Routes
      <3>1. \A n \in Nat : \A f \in [1 .. n -> Choices] : f = [t \in 1 .. n |-> f[t]] /\ Len(f) = n
        OBVIOUS
      <3>2. route = [t \in 1 .. Len(route) |-> route[t]]
        BY <2>2, <3>1, SizesAssumption DEF Routes
      <3> QED
        BY <2>2, <3>2, RouteFacts
    <2> QED
      BY <2>1, <2>2 DEF IInv, HostTypes, TypeOK
  <1>2. out \in [1 .. Len(route) -> Seq(Contents)]
    BY DEF IInv, HostTypes
  <1>3. ASSUME NEW t \in 1 .. Len(route)
        PROVE  out[t] = route[t]
    <2>1. out[t] \in Seq(Contents) /\ Len(out[t]) \in Nat /\ route[t] \in [1 .. Ranks -> Experts]
      BY <1>1, <1>2
    <2>2. Ordered(t, route[t], out[t], <<>>, Ranks + 1)
      <3>1. NextRank(t) = Ranks + 1
        BY DEF NextRank
      <3> QED
        BY <1>1, <3>1 DEF IInv, Order
    <2>3. Len(out[t]) = Ranks
      <3>1. Len(out[t]) <= Ranks /\ \A k \in 1 .. Ranks : ~(Len(out[t]) < k /\ k < Ranks + 1)
        <4>1. DOMAIN <<>> = {}
          OBVIOUS
        <4> QED
          BY <2>2, <4>1 DEF Ordered
      <3>2. Len(out[t]) < Ranks => Ranks \in 1 .. Ranks /\ Ranks < Ranks + 1
        BY SizesAssumption
      <3> QED
        BY <2>1, <3>1, <3>2, SizesAssumption
    <2>4. \A k \in 1 .. Ranks : out[t][k] = route[t][k]
      BY <2>1, <2>2, <2>3 DEF Ordered
    <2>5. out[t] = [k \in 1 .. Ranks |-> out[t][k]]
      BY <2>1, <2>3
    <2>6. route[t] = [k \in 1 .. Ranks |-> route[t][k]]
      BY <2>1
    <2> QED
      BY <2>4, <2>5, <2>6
  <1>4. out = [t \in 1 .. Len(route) |-> out[t]]
    BY <1>2
  <1> QED
    BY <1>1, <1>3, <1>4

\* An operation on g_stream adds to the output of the tokens their next ranks.
LEMMA Accumulates ==
    ASSUME IInv, IInv', ComputeStream
    PROVE  Abstract!Accumulate
  <1>1. /\ DOMAIN route = 1 .. Len(route) /\ route' = route
        /\ \A t \in 1 .. Len(route) : route[t] \in [1 .. Ranks -> Experts]
    <2>1. (route = <<>> \/ route \in Routes) /\ route' = route
      BY DEF IInv, HostTypes, TypeOK, ComputeStream, host
    <2>2. CASE route = <<>>
      BY <2>1, <2>2
    <2>3. CASE route \in Routes
      BY <2>1, <2>3, RouteFacts
    <2> QED
      BY <2>1, <2>2, <2>3
  <1>2. /\ out \in [1 .. Len(route) -> Seq(Contents)] /\ out' \in [1 .. Len(route) -> Seq(Contents)]
    BY <1>1 DEF IInv, HostTypes
  <1>3. ASSUME NEW t \in DOMAIN route
        PROVE  Abstract!IsPrefix(out[t], out'[t]) /\ Abstract!IsPrefix(out'[t], route[t])
    <2>1. /\ out[t] \in Seq(Contents) /\ out'[t] \in Seq(Contents)
          /\ Len(out[t]) \in Nat /\ Len(out'[t]) \in Nat
          /\ DOMAIN out[t] = 1 .. Len(out[t]) /\ DOMAIN out'[t] = 1 .. Len(out'[t])
      BY <1>1, <1>2
    <2>2. route[t] \in Seq(Contents) /\ Len(route[t]) = Ranks
      <3>1. route[t] \in [1 .. Ranks -> Contents]
        BY <1>1 DEF Contents
      <3> QED
        BY <3>1, SizesAssumption, FunctionIsSeq
    <2>3. Len(out'[t]) <= Ranks /\ \A k \in 1 .. Len(out'[t]) : out'[t][k] = route[t][k]
      <3>1. Ordered(t, route[t], out'[t], compute', NextRank(t)')
        BY <1>1 DEF IInv, Order
      <3> QED
        BY <2>1, <3>1 DEF Ordered
    <2>4. Len(out[t]) <= Len(out'[t]) /\ \A k \in 1 .. Len(out[t]) : out[t][k] = route[t][k]
      <3>1. Ordered(t, route[t], out[t], compute, NextRank(t))
        BY DEF IInv, Order
      <3>2. CASE out'[t] = out[t]
        BY <2>1, <3>1, <3>2 DEF Ordered
      <3>3. CASE \E u \in Seq(Contents) : out'[t] = out[t] \o u
        <4>1. PICK u \in Seq(Contents) : out'[t] = out[t] \o u
          BY <3>3
        <4>2. Len(out'[t]) = Len(out[t]) + Len(u) /\ Len(u) \in Nat
          BY <2>1, <4>1, ConcatProperties
        <4> QED
          BY <2>1, <3>1, <4>2 DEF Ordered
      <3>4. out'[t] = out[t] \/ \E u \in Seq(Contents) : out'[t] = out[t] \o u
        <4> DEFINE o == Head(compute)
                   used == [i \in DOMAIN o.slots |->
                              IF half[i] = slot[o.slots[i]] THEN slot[o.slots[i]] ELSE NoExpert]
        <4>1. out'[t] = out[t] \/ (o.op = "down" /\ out'[t] = out[t] \o used)
          BY <1>1, <1>2 DEF ComputeStream, device
        <4>2. ASSUME o.op = "down"
              PROVE  used \in Seq(Contents)
          <5>1. o \in Operations
            BY HeadTailProperties DEF ComputeStream, IInv, HostTypes, TypeOK
          <5> HIDE DEF o
          <5>2. o.slots \in Seq(Slots)
            BY <4>2, <5>1, OperationFacts DEF Kernel
          <5>3. used \in [1 .. Len(o.slots) -> Contents] /\ Len(o.slots) \in Nat
            <6>1. slot \in [Slots -> Contents]
              BY DEF IInv, HostTypes, TypeOK
            <6>2. /\ Len(o.slots) \in Nat /\ DOMAIN o.slots = 1 .. Len(o.slots)
                  /\ \A i \in 1 .. Len(o.slots) : slot[o.slots[i]] \in Contents
              BY <5>2, <6>1
            <6> QED
              BY <6>2 DEF Contents
          <5> QED
            BY <5>3, FunctionIsSeq
        <4> HIDE DEF used, o
        <4> QED
          BY <4>1, <4>2
      <3> QED
        BY <3>2, <3>3, <3>4
    <2>5. \A k \in 1 .. Len(out[t]) : out[t][k] = out'[t][k]
      BY <2>1, <2>3, <2>4
    <2>6. Abstract!IsPrefix(out[t], out'[t])
      BY <2>1, <2>4, <2>5, PrefixFacts
    <2>7. Abstract!IsPrefix(out'[t], route[t])
      BY <2>1, <2>2, <2>3, PrefixFacts
    <2> QED
      BY <2>6, <2>7
  <1>4. DOMAIN out' = DOMAIN route
    BY <1>1, <1>2
  <1> QED
    BY <1>1, <1>3, <1>4 DEF Abstract!Accumulate

\* With a staging buffer for each rank of a token: whatever is hit, missed,
\* evicted and in flight, the block computes what a machine without a cache and
\* without streams computes.
THEOREM ImplementsBlock ==
    ASSUME RingHolds
    PROVE  Spec => ImplementsMoEBlock
  <1>1. Init => Abstract!Init
    BY DEF Init, Abstract!Init
  <1>2. IInv /\ IInv' /\ [Next]_vars => [Abstract!Next]_(Abstract!vars)
    <2> SUFFICES ASSUME IInv, IInv', [Next]_vars
                 PROVE  [Abstract!Next]_(Abstract!vars)
      OBVIOUS
    <2>1. ASSUME NEW r \in Routes, Route(r)
          PROVE  Abstract!Begin(r)
      BY <2>1, BlockSummed DEF Route, Abstract!Begin
    <2>2. CASE ComputeStream
      BY <2>2, Accumulates DEF Abstract!Next
    <2>3. CASE UNCHANGED <<route, out>>
      BY <2>3 DEF Abstract!vars
    <2>4. (\E r \in Routes : Route(r)) \/ ComputeStream \/ UNCHANGED <<route, out>>
      BY DEF Next, Block, Locate, Fill, Launch, RankHit, RankMiss, CopyStream, host, device, vars
    <2> QED
      BY <2>1, <2>2, <2>3, <2>4 DEF Abstract!Next
  <1> QED
    BY <1>1, <1>2, Inductive, PTL DEF Spec, ImplementsMoEBlock, Abstract!Spec
=============================================================================
