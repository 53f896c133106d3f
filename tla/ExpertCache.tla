---------------------------- MODULE ExpertCache -----------------------------
(***************************************************************************)
(* The device cache of MoE experts (ensureExpertCached in                  *)
(* GPUComputeMoE.cu) and its two users in forwardQwen35MoePrefix           *)
(* (GPUComputeForward.cu): the batched path of a decode step, which        *)
(* locates all ranks first, copies the missing experts on g_stream2 and    *)
(* then runs all ranks at once, and the path that takes one rank after the *)
(* other, with the copies on g_stream.                                     *)
(*                                                                         *)
(* The host thread runs ahead of the device: what it enqueues on a stream  *)
(* runs in order there and in any order with the other stream and with the *)
(* host.  A copy reads its staging buffer when it runs, a kernel its slots *)
(* when it runs.  One operation of a stream is one step; an overlap of two *)
(* that would tear the data shows up as one of their orders.               *)
(*                                                                         *)
(* Not modelled: the arithmetic, the growth of the staging ring (at its    *)
(* sizes the ring is idle), failing CUDA calls (the engine is then given   *)
(* up), the resident arenas, which no copy ever overwrites.                *)
(***************************************************************************)
EXTENDS Naturals, Sequences

CONSTANTS
    Experts,     \* expert ids
    NoExpert,    \* an empty slot, or a blend of two experts
    NumLayers,   \* MoE layers of a forward pass
    Fast,        \* the layers with Q8_0 experts: batched when decoding
    NumSets,     \* expertCacheSets_
    SetOf,       \* expertCacheSet(), a hash
    StageBufs,   \* kExpertStageBufs
    Ranks,       \* expertUsedCount
    MaxSeqLen    \* bound: tokens of a pass

Layers == 1 .. NumLayers
Sets == 0 .. NumSets - 1
Ways == {0, 1}
Slots == Layers \X Sets \X Ways
Stages == 0 .. StageBufs - 1
Contents == Experts \cup {NoExpert}
\* The router's choice for a token: distinct experts, one per rank.
Choices == {c \in [1 .. Ranks -> Experts] :
              \A i, j \in 1 .. Ranks : c[i] = c[j] => i = j}
Routes == UNION {[1 .. n -> Choices] : n \in 1 .. MaxSeqLen}

ASSUME ExpertsAssumption == NoExpert \notin Experts
ASSUME LayersAssumption == NumLayers \in Nat \ {0} /\ Fast \subseteq Layers
ASSUME SetsAssumption == NumSets \in Nat \ {0} /\ SetOf \in [Experts -> Sets]
ASSUME SizesAssumption == /\ StageBufs \in Nat \ {0} /\ Ranks \in Nat \ {0}
                          /\ MaxSeqLen \in Nat \ {0}

VARIABLES
    pc,       \* where the host is in the block
    layer,    \* the layer it runs
    route,    \* moeRouterIdxHost_: per token, the experts of its ranks
    turn,     \* the rank and the token to enqueue next
    plan,     \* moeRankWqHost: the slots of the ranks located so far
    misses,   \* moeMisses and moeMissStage: what remains to be copied
    tag,      \* expertCacheTag_
    lru,      \* expertCacheLru_
    flag,     \* expertStageFlag_ modulo the ring
    stage,    \* the expert in each staging buffer
    slot,     \* the expert in each device slot
    compute,  \* g_stream: the operations enqueued and not yet run
    copy,     \* g_stream2
    half,     \* what the last gate/up kernel read
    out       \* per token, the experts added to its output

host == <<pc, layer, route, turn>>
located == <<plan, misses>>
cache == <<tag, lru>>
ring == <<flag, stage>>
device == <<slot, half, out>>
vars == <<host, located, cache, ring, device, compute, copy>>

Init ==
    /\ pc = "sync" /\ layer = NumLayers /\ route = <<>>
    /\ turn = [rank |-> 1, tok |-> 1]
    /\ plan = <<>> /\ misses = <<>>
    /\ tag = [b \in Slots |-> NoExpert]
    /\ lru = [x \in Layers \X Sets |-> 0]
    /\ flag = 0 /\ stage = [s \in Stages |-> NoExpert]
    /\ slot = [b \in Slots |-> NoExpert]
    /\ compute = <<>> /\ copy = <<>>
    /\ half = <<>> /\ out = <<>>

-----------------------------------------------------------------------------
(* The cache's directory.                                                  *)

Slot(e, w) == <<layer, SetOf[e], w>>
Hit(e) == \E w \in Ways : tag[Slot(e, w)] = e

\* The way of expert e: the one that holds it, else the victim.
Way(e) == IF Hit(e) THEN CHOOSE w \in Ways : tag[Slot(e, w)] = e
          ELSE IF \A w \in Ways : tag[Slot(e, w)] = NoExpert THEN 0
          ELSE lru[<<layer, SetOf[e]>>]

\* Hit or miss, the other way is the next victim.
Touch(e) == lru' = [lru EXCEPT ![<<layer, SetOf[e]>>] = 1 - Way(e)]

\* Slip: the ring index is not reduced.
ClaimUnreduced == flag' = flag + 1

\* The ring index that expertStageFlag_++ claims.
Claim == flag' = (flag + 1) % StageBufs

\* The operations.  The copies of a block are numbered downwards; the number
\* stands for the event recorded behind the copy.  Kernels take the weights of
\* their tokens' ranks from "rank" on, one rank per slot.
CopyOp(base, st, n) == [op |-> "copy", slot |-> base, stage |-> st, n |-> n]
WaitOp(n) == [op |-> "wait", n |-> n]
Kernels(toks, bases, rank) ==
    << [op |-> "gateup", slots |-> bases, toks |-> toks, rank |-> rank],
       [op |-> "down", slots |-> bases, toks |-> toks, rank |-> rank] >>
Copies(queue, st) == {i \in DOMAIN queue :
                        queue[i].op = "copy" /\ queue[i].stage = st}

-----------------------------------------------------------------------------
(* The host: a layer's block.                                              *)

\* g_stream is synchronised, the router chooses.  A pass keeps its length
\* over its layers.
Route(r) ==
    /\ pc = "sync" /\ compute = <<>>
    /\ layer' = (layer % NumLayers) + 1
    /\ layer' # 1 => Len(r) = Len(route)
    /\ route' = r
    /\ out' = [t \in 1 .. Len(r) |-> <<>>]
    /\ turn' = [rank |-> 1, tok |-> 1]
    /\ plan' = <<>> /\ misses' = <<>>
    /\ pc' = IF Len(r) = 1 /\ layer' \in Fast THEN "locate" ELSE "rank"
    /\ UNCHANGED <<cache, ring, slot, half, compute, copy>>

\* Slip: no slot-conflict guard.
LocateUnguarded ==
    /\ pc = "locate"
    /\ LET e == route[1][Len(plan) + 1]
           base == Slot(e, Way(e))
       IN /\ Touch(e)
          /\ IF Hit(e) THEN UNCHANGED <<misses, flag>>
             ELSE /\ misses' = Append(misses, [expert |-> e, slot |-> base,
                                               stage |-> flag])
                  /\ Claim
          /\ plan' = Append(plan, base)
          /\ pc' = IF Len(plan') = Ranks THEN "fill" ELSE "locate"
    /\ UNCHANGED <<layer, route, turn, tag, stage, device, compute, copy>>

\* Slip: after a conflict the ranks are located again.
LocateRetries ==
    /\ pc = "locate"
    /\ LET e == route[1][Len(plan) + 1]
           base == Slot(e, Way(e))
           conflict == \E i \in DOMAIN plan : plan[i] = base
       IN /\ Touch(e)
          /\ IF conflict THEN plan' = <<>> /\ misses' = <<>>
             ELSE /\ plan' = Append(plan, base)
                  /\ misses' = IF Hit(e) THEN misses
                               ELSE Append(misses, [expert |-> e, slot |-> base,
                                                    stage |-> flag])
          /\ IF Hit(e) THEN UNCHANGED flag ELSE Claim
          /\ pc' = IF Len(plan') = Ranks THEN "fill" ELSE "locate"
    /\ UNCHANGED <<layer, route, turn, tag, stage, device, compute, copy>>

\* PHASE 1: the slot of one rank after the other, nothing is copied yet.  Two
\* experts in one slot: the path by ranks takes over.
Locate ==
    /\ pc = "locate"
    /\ LET e == route[1][Len(plan) + 1]
           base == Slot(e, Way(e))
           conflict == \E i \in DOMAIN plan : plan[i] = base
       IN /\ Touch(e)
          /\ IF Hit(e) THEN UNCHANGED <<misses, flag>>
             ELSE /\ misses' = Append(misses, [expert |-> e, slot |-> base,
                                               stage |-> flag])
                  /\ Claim
          /\ plan' = Append(plan, base)
          /\ pc' = IF conflict THEN "rank"
                   ELSE IF Len(plan') = Ranks THEN "fill" ELSE "locate"
    /\ UNCHANGED <<layer, route, turn, tag, stage, device, compute, copy>>

\* Slip: g_stream does not wait for the copy.
FillUnawaited ==
    /\ pc = "fill" /\ misses # <<>>
    /\ LET m == Head(misses)
       IN /\ stage' = [stage EXCEPT ![m.stage] = m.expert]
          /\ copy' = Append(copy, CopyOp(m.slot, m.stage, Len(misses)))
          /\ tag' = [tag EXCEPT ![m.slot] = m.expert]
    /\ misses' = Tail(misses)
    /\ UNCHANGED <<host, plan, lru, flag, device, compute>>

\* PHASE 1b: a missing expert is put into its staging buffer, copied on
\* g_stream2, awaited by g_stream, and entered in the directory.
Fill ==
    /\ pc = "fill" /\ misses # <<>>
    /\ LET m == Head(misses)
           n == Len(misses)
       IN /\ stage' = [stage EXCEPT ![m.stage] = m.expert]
          /\ copy' = Append(copy, CopyOp(m.slot, m.stage, n))
          /\ compute' = Append(compute, WaitOp(n))
          /\ tag' = [tag EXCEPT ![m.slot] = m.expert]
    /\ misses' = Tail(misses)
    /\ UNCHANGED <<host, plan, lru, flag, device>>

\* PHASE 2: the kernels of all ranks.
Launch ==
    /\ pc = "fill" /\ misses = <<>>
    /\ compute' = compute \o Kernels({1}, plan, 1)
    /\ pc' = "sync"
    /\ UNCHANGED <<layer, route, turn, located, cache, ring, device, copy>>

\* The path by ranks: a rank on which the tokens agree is run for all of them
\* at once, else token by token.
Agree == \A t \in DOMAIN route : route[t][turn.rank] = route[1][turn.rank]
Turn == IF Agree THEN DOMAIN route ELSE {turn.tok}
Wanted == route[turn.tok][turn.rank]
Advance ==
    IF ~Agree /\ turn.tok < Len(route)
    THEN turn' = [turn EXCEPT !.tok = @ + 1] /\ UNCHANGED pc
    ELSE /\ turn' = [rank |-> turn.rank + 1, tok |-> 1]
         /\ pc' = IF turn.rank = Ranks THEN "sync" ELSE "rank"

RankHit ==
    /\ pc = "rank" /\ Hit(Wanted)
    /\ Touch(Wanted)
    /\ compute' = compute \o Kernels(Turn, <<Slot(Wanted, Way(Wanted))>>, turn.rank)
    /\ Advance
    /\ UNCHANGED <<layer, route, located, tag, ring, device, copy>>

\* Slip: the staging buffer is refilled without waiting for the copy out of it.
RankMissUndrained ==
    /\ pc = "rank" /\ ~Hit(Wanted)
    /\ LET base == Slot(Wanted, Way(Wanted))
       IN /\ stage' = [stage EXCEPT ![flag] = Wanted]
          /\ tag' = [tag EXCEPT ![base] = Wanted]
          /\ compute' = Append(compute, CopyOp(base, flag, 0))
                          \o Kernels(Turn, <<base>>, turn.rank)
    /\ Touch(Wanted) /\ Claim
    /\ Advance
    /\ UNCHANGED <<layer, route, located, device, copy>>

\* The slip the code once had: the copy runs on g_stream2, awaited by its own
\* kernels but not ordered behind those of an earlier rank.
RankMissCopyStream ==
    /\ pc = "rank" /\ ~Hit(Wanted)
    /\ Copies(compute, flag) = {} /\ Copies(copy, flag) = {}
    /\ LET base == Slot(Wanted, Way(Wanted))
       IN /\ stage' = [stage EXCEPT ![flag] = Wanted]
          /\ tag' = [tag EXCEPT ![base] = Wanted]
          /\ copy' = Append(copy, CopyOp(base, flag, 1))
          /\ compute' = Append(compute, WaitOp(1)) \o Kernels(Turn, <<base>>, turn.rank)
    /\ Touch(Wanted) /\ Claim
    /\ Advance
    /\ UNCHANGED <<layer, route, located, device>>

\* A miss waits until the last copy out of its staging buffer has run; its own
\* copy goes in front of the kernels, on g_stream.
RankMiss ==
    /\ pc = "rank" /\ ~Hit(Wanted)
    /\ Copies(compute, flag) = {} /\ Copies(copy, flag) = {}
    /\ LET base == Slot(Wanted, Way(Wanted))
       IN /\ stage' = [stage EXCEPT ![flag] = Wanted]
          /\ tag' = [tag EXCEPT ![base] = Wanted]
          /\ compute' = Append(compute, CopyOp(base, flag, 0))
                          \o Kernels(Turn, <<base>>, turn.rank)
    /\ Touch(Wanted) /\ Claim
    /\ Advance
    /\ UNCHANGED <<layer, route, located, device, copy>>

-----------------------------------------------------------------------------
(* The device.                                                             *)

RunCopy(o) == slot' = [slot EXCEPT ![o.slot] = stage[o.stage]]

CopyStream ==
    /\ copy # <<>>
    /\ RunCopy(Head(copy))
    /\ copy' = Tail(copy)
    /\ UNCHANGED <<host, located, cache, ring, half, out, compute>>

\* cudaStreamWaitEvent: the copy, and those before it, have run.
Waited(n) == \A i \in DOMAIN copy : copy[i].n < n

ComputeStream ==
    /\ compute # <<>>
    /\ LET o == Head(compute)
           read == [i \in DOMAIN o.slots |-> slot[o.slots[i]]]
           used == [i \in DOMAIN o.slots |->
                      IF half[i] = read[i] THEN read[i] ELSE NoExpert]
       IN \/ o.op = "wait" /\ Waited(o.n) /\ UNCHANGED device
          \/ o.op = "copy" /\ RunCopy(o) /\ UNCHANGED <<half, out>>
          \/ o.op = "gateup" /\ half' = read /\ UNCHANGED <<slot, out>>
          \/ /\ o.op = "down"
             /\ out' = [t \in DOMAIN out |->
                          IF t \in o.toks THEN out[t] \o used ELSE out[t]]
             /\ UNCHANGED <<slot, half>>
    /\ compute' = Tail(compute)
    /\ UNCHANGED <<host, located, cache, ring, copy>>

Block == Locate \/ Fill \/ Launch \/ RankHit \/ RankMiss
Next == (\E r \in Routes : Route(r)) \/ Block \/ CopyStream \/ ComputeStream
Spec == Init /\ [][Next]_vars

\* The host thread runs, the device works off its streams.  Nothing obliges
\* the program to run another layer.
Fairness == WF_vars(Block) /\ WF_vars(CopyStream) /\ WF_vars(ComputeStream)
FairSpec == Spec /\ Fairness

-----------------------------------------------------------------------------
Operations ==
    [op : {"copy"}, slot : Slots, stage : Stages, n : 0 .. Ranks]
      \cup [op : {"wait"}, n : 1 .. Ranks]
      \cup [op : {"gateup", "down"}, slots : Seq(Slots),
             toks : SUBSET (1 .. MaxSeqLen), rank : 1 .. Ranks]

\* Every variable has the type of what it stands for; the ring index stays
\* inside the ring, no more experts are missing than there are ranks.
TypeOK ==
    /\ pc \in {"sync", "locate", "fill", "rank"}
    /\ layer \in Layers
    /\ route = <<>> \/ route \in Routes
    /\ turn \in [rank : 1 .. Ranks + 1, tok : 1 .. MaxSeqLen]
    /\ plan \in Seq(Slots) /\ Len(plan) <= Ranks
    /\ misses \in Seq([expert : Experts, slot : Slots, stage : Stages])
    /\ Len(misses) <= Ranks
    /\ tag \in [Slots -> Contents] /\ lru \in [Layers \X Sets -> Ways]
    /\ flag \in Stages /\ stage \in [Stages -> Contents]
    /\ slot \in [Slots -> Contents]
    /\ compute \in Seq(Operations) /\ copy \in Seq(Operations)
    /\ half \in Seq(Contents) /\ Len(out) = Len(route)

Abstract == INSTANCE MoEBlock

\* Whatever is hit, missed, evicted and in flight, the output of a token sums
\* the contributions of the experts its router chose, each once and in rank
\* order, and the next layer starts from the whole sum: no kernel reads a slot
\* that still holds, or already holds, or half holds, another expert.
ImplementsMoEBlock == Abstract!Spec

\* Once g_stream has been synchronised every byte of the cache is final: no
\* copy is in flight, and a later hit, which waits for nothing, finds in the
\* slot what the directory says.
SlotsFinal ==
    pc = "sync" /\ compute = <<>> =>
        /\ copy = <<>>
        /\ \A b \in Slots : tag[b] # NoExpert => slot[b] = tag[b]

\* A staging buffer is not refilled while a copy out of it is still to run:
\* the copy would deliver another expert than the one it was made for.
DrainBeforeRefill ==
    [][\A st \in Stages : stage'[st] # stage[st] =>
         Copies(compute, st) = {} /\ Copies(copy, st) = {}]_vars

\* A block once begun gets enqueued and run to its end, conflicts included.
BlockCompletes == pc # "sync" ~> pc = "sync" /\ compute = <<>>
=============================================================================
