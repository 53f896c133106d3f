-------------------------- MODULE ThreadPoolProofs --------------------------
(***************************************************************************)
(* Theorems about ThreadPool, for every number of threads, every index     *)
(* width and every set of calls; the last three for those whose ranges     *)
(* leave fetch_add room (NoWrap).                                          *)
(*                                                                         *)
(* The properties are not inductive.  IInv adds what each thread's place   *)
(* in the code says of the shared counters: TypeOK, the Protocol of the    *)
(* generation and of pendingWorkers_, and the Phasing of the two-phase      *)
(* calls (phase1Arrived_, phase2Ready_).                                   *)
(*                                                                         *)
(* That every item runs exactly once and in its phase, and that the pool   *)
(* implements ForkJoin, follows the items.  An item that has not run is in *)
(* one place: in the claim of one thread, in the slab of one thread that   *)
(* has not taken it yet, or in the shared counter; each step moves it to   *)
(* the next place or runs it.  Work says so, and is inductive on top of    *)
(* IInv.                                                                   *)
(***************************************************************************)
EXTENDS ThreadPoolForkJoin, FiniteSetTheorems, WellFoundedInduction, TLAPS

\* The main thread is in a dispatch whose task has been published.
Active == pc[Main] \in Dispatched /\ ~solo
Prepared == pc[Main] \in Preparing \/ Active

\* The generation protocol: who owes an acknowledgement, and who may sleep.
Protocol ==
    /\ pc[Main] \in Preparing \cup (Dispatched \ {"item1", "item2", "between"})
         => ~solo
    /\ pc[Main] = "return" => solo
    /\ pc[Main] \in Preparing => taskId < MaxTasks
    /\ stop => pc[Main] \in {"joining", "gone"}
    /\ Prepared => depth = 1 /\ NumThreads > 1 /\ call.s1 < call.e1
    /\ ~Active => Owing = {}
    /\ Active => pending = Cardinality(Owing)
    /\ pc[Main] = "publish" => pending = NumWorkers
    /\ pc[Main] = "clear" => pending = 0
    /\ \A w \in Workers : pc[w] \in Working => myGen[w] = taskId
    /\ \A w \in Workers : pc[w] = "check" => stop \/ myGen[w] # taskId
    /\ NoLostWakeup

TwoPhaseTask == task.two \/ task.two2
InPhase1 == {"fetch1", "item1", "arrive"}
InPhase2 == {"fetch2", "item2"}

\* The workers past phase 1 of the current task.
Arrivals == {w \in Workers : myGen[w] = taskId /\ pc[w] \notin InPhase1}

\* The two-phase protocol: phase1Arrived_ counts the workers past phase 1, and
\* until phase2Ready_ is released none is past the flag.
Phasing ==
    /\ pc[Main] = "publish" \/ Active =>
          /\ task.slab = SlabKind(call)
          /\ task.two = (call.kind = "slab2" /\ HasPhase2(call))
          /\ task.two2 = (call.kind = "steal2" /\ HasPhase2(call))
    /\ pc[Main] = "publish" /\ TwoPhase(call) => arrived = 0 /\ ~ready
    /\ Active /\ TwoPhaseTask => arrived = Cardinality(Arrivals)
    /\ Active /\ TwoPhase(call) /\ ~TwoPhaseTask => arrived = 0
    /\ Active /\ TwoPhase(call)
         /\ pc[Main] \in {"fetch1", "item1", "barrier", "between", "release"} => ~ready
    /\ Active /\ pc[Main] \in {"barrier", "between", "release"} => TwoPhase(call)
    /\ Active /\ pc[Main] \in {"between", "release"} => arrived >= NumWorkers
    /\ \A w \in Workers : pc[w] \in {"arrive", "await"} \cup InPhase2 => TwoPhaseTask
    /\ Active /\ TwoPhaseTask /\ ~ready =>
         \A w \in Workers : myGen[w] = taskId => pc[w] \in InPhase1 \cup {"await"}

IInv == TypeOK /\ Protocol /\ Phasing

-----------------------------------------------------------------------------
(* Threads and counting.                                                   *)

LEMMA ThreadFacts ==
    /\ Main \in Threads /\ Main \notin Workers /\ Workers \subseteq Threads
    /\ \A t \in Threads : t = Main \/ t \in Workers
    /\ NumWorkers \in Nat
  BY ThreadsAssumption DEF Main, Threads, Workers, NumWorkers

LEMMA WorkersCount ==
    /\ IsFiniteSet(Workers)
    /\ Cardinality(Workers) = NumWorkers
  <1>1. NumWorkers \in Nat
    BY ThreadFacts
  <1>2. IsFiniteSet(Threads) /\ Cardinality(Threads) = NumWorkers + 1
    BY <1>1, FS_Interval DEF Threads
  <1>3. Cardinality(Threads \ {Main}) = NumWorkers + 1 - 1 /\ IsFiniteSet(Threads \ {Main})
    BY <1>2, ThreadFacts, FS_RemoveElement
  <1> QED
    BY <1>1, <1>3 DEF Workers

\* Counts over subsets of the workers: bounds, and what adding or removing one
\* worker does.
LEMMA SubsetCount ==
    ASSUME NEW S \in SUBSET Workers
    PROVE  /\ IsFiniteSet(S)
           /\ Cardinality(S) \in 0 .. NumWorkers
           /\ Cardinality(S) = 0 <=> S = {}
           /\ Cardinality(S) = NumWorkers => S = Workers
           /\ \A w \in S : Cardinality(S \ {w}) = Cardinality(S) - 1
           /\ \A w \in Workers \ S : Cardinality(S \cup {w}) = Cardinality(S) + 1
  <1>1. IsFiniteSet(S) /\ Cardinality(S) <= NumWorkers
        /\ (Cardinality(S) = NumWorkers => S = Workers)
    BY WorkersCount, FS_Subset
  <1>2. Cardinality(S) \in Nat
    BY <1>1, FS_CardinalityType
  <1>3. Cardinality(S) = 0 <=> S = {}
    BY <1>1, FS_EmptySet
  <1>4. \A w \in S : Cardinality(S \ {w}) = Cardinality(S) - 1
    BY <1>1, FS_RemoveElement
  <1>5. \A w \in Workers \ S : Cardinality(S \cup {w}) = Cardinality(S) + 1
    BY <1>1, FS_AddElement
  <1> QED
    BY <1>1, <1>2, <1>3, <1>4, <1>5, ThreadFacts

LEMMA Modulo ==
    ASSUME NEW a \in Nat
    PROVE  a % IndexModulus \in Indices
  BY IndexAssumption DEF Indices

\* The slab of a thread is a pair of naturals, whatever the range.
LEMMA SlabType ==
    ASSUME NEW r \in Ranges, NEW t \in Threads
    PROVE  SlabOf(r, t) \in [at : Nat, to : Nat]
  <1>1. t \in Nat /\ t + 1 \in Nat /\ r.s \in Nat /\ r.e - r.s \in Nat
    BY ThreadFacts, IndexAssumption DEF Threads, Ranges, Indices
  <1>2. (r.e - r.s) \div NumThreads \in Nat /\ (r.e - r.s) % NumThreads \in Nat
    BY <1>1, ThreadsAssumption
  <1>3. \A n, q \in Nat : n * q \in Nat
    OBVIOUS
  <1>4. \A n \in Nat : SlabFrom(r, n) \in Nat
    BY <1>1, <1>2, <1>3 DEF SlabFrom, Least
  <1> QED
    BY <1>1, <1>4 DEF SlabOf

-----------------------------------------------------------------------------
(* TypeOK is preserved.                                                    *)

\* What a thread gets when it fetches, and the counter it leaves behind.
LEMMA FetchType ==
    ASSUME TypeOK, NEW t \in Threads, NEW p \in Phases
    PROVE  /\ MySlab(t, p) \in [at : Nat, to : Nat]
           /\ Limit(t, p) \in Nat
           /\ Stride(t, p) \in Nat
           /\ \A idx \in Indices :
                 ChunkAt(idx, Stride(t, p), Limit(t, p)) \in [at : Nat, to : Nat]
  <1>1. MySlab(t, p) \in [at : Nat, to : Nat]
    <2>1. slab1 \in Ranges /\ slab \in Ranges
      BY DEF TypeOK
    <2> QED
      BY <2>1, SlabType DEF MySlab
  <1>2. Indices \subseteq Nat
    BY IndexAssumption DEF Indices
  <1>3. Limit(t, p) \in Nat
    BY <1>2 DEF TypeOK, Limit, CallType, TaskType
  <1>4. Stride(t, p) \in Nat
    BY <1>2 DEF TypeOK, Stride, CallType, TaskType, NonZero
  <1>5. ASSUME NEW idx \in Indices
        PROVE  ChunkAt(idx, Stride(t, p), Limit(t, p)) \in [at : Nat, to : Nat]
    <2>1. idx \in Nat /\ idx + Stride(t, p) \in Nat
      BY <1>2, <1>4
    <2>2. (idx + Stride(t, p)) % IndexModulus \in Nat
      BY <1>2, <2>1, Modulo
    <2> QED
      BY <1>3, <2>1, <2>2 DEF ChunkAt, Least
  <1> QED
    BY <1>1, <1>3, <1>4, <1>5

LEMMA PhaseType == \A t \in Threads : PhaseAt(t) \in Phases
  BY DEF PhaseAt, Phases

\* NotifyAll keeps every thread among its own places.
LEMMA NotifyAllType ==
    ASSUME NEW f \in [Threads -> MainPCs \cup WorkerPCs], f[Main] \in MainPCs,
           \A w \in Workers : f[w] \in WorkerPCs
    PROVE  /\ NotifyAll(f) \in [Threads -> MainPCs \cup WorkerPCs]
           /\ NotifyAll(f)[Main] \in MainPCs
           /\ \A w \in Workers : NotifyAll(f)[w] \in WorkerPCs
  BY ThreadFacts DEF NotifyAll, MainPCs, WorkerPCs

\* The same for one thread that goes elsewhere.
LEMMA GotoType ==
    ASSUME TypeOK, NEW t \in Threads, NEW label,
           t = Main => label \in MainPCs, t \in Workers => label \in WorkerPCs
    PROVE  LET f == [pc EXCEPT ![t] = label]
           IN  /\ f \in [Threads -> MainPCs \cup WorkerPCs]
               /\ f[Main] \in MainPCs
               /\ \A w \in Workers : f[w] \in WorkerPCs
  BY ThreadFacts DEF TypeOK

LEMMA AfterPhaseType ==
    ASSUME NEW t \in Threads, NEW p \in Phases
    PROVE  /\ t = Main => AfterPhase(t, p) \in MainPCs
           /\ t # Main => AfterPhase(t, p) \in {"arrive", "finish"}
  BY DEF AfterPhase, MainPCs

\* The fetch and the item steps touch only the claim, the index and the record
\* of what has run.
LEMMA FetchKeepsType ==
    ASSUME TypeOK, NEW t \in Threads, Fetch(t)
    PROVE  TypeOK'
  <1> DEFINE p == PhaseAt(t)
             stride == Stride(t, p)
             limit == Limit(t, p)
             got == IF UsesSlab(t) THEN MySlab(t, p)
                    ELSE IF nextIndex >= limit
                         THEN [at |-> nextIndex, to |-> nextIndex]
                         ELSE ChunkAt(nextIndex, stride, limit)
             label == IF ~Empty(got) THEN ItemPC(p)
                      ELSE IF UsesSlab(t) \/ nextIndex >= limit THEN AfterPhase(t, p)
                      ELSE FetchPC(p)
  <1>1. p \in Phases
    BY PhaseType
  <1>2. nextIndex \in Nat /\ nextIndex \in Indices
    BY IndexAssumption DEF TypeOK, Indices
  <1>3. got \in [at : Nat, to : Nat]
    BY <1>1, <1>2, FetchType
  <1>4. nextIndex + stride \in Nat
    BY <1>1, <1>2, FetchType
  <1>5. (nextIndex + stride) % IndexModulus \in Indices
    BY <1>4, Modulo
  <1>6. /\ t = Main => label \in MainPCs
        /\ t \in Workers => label \in WorkerPCs
    <2>1. /\ ItemPC(p) \in MainPCs \cap WorkerPCs
          /\ FetchPC(p) \in MainPCs \cap WorkerPCs
      BY DEF ItemPC, FetchPC, MainPCs, WorkerPCs
    <2> QED
      BY <1>1, <2>1, AfterPhaseType, ThreadFacts DEF WorkerPCs
  <1>7. /\ pc' = [pc EXCEPT ![t] = label]
        /\ claim' = [claim EXCEPT ![t] = got]
        /\ nextIndex' \in Indices
        /\ UNCHANGED <<myGen, pending, arrived, ready, done,
                       task, slab1, slab, endIndex, control>>
    BY <1>2, <1>5 DEF Fetch, Goto
  <1> HIDE DEF p, stride, limit, got, label
  <1>8. /\ pc' \in [Threads -> MainPCs \cup WorkerPCs]
        /\ pc'[Main] \in MainPCs
        /\ \A w \in Workers : pc'[w] \in WorkerPCs
    BY <1>6, <1>7, GotoType
  <1>9. claim' \in [Threads -> [at : Nat, to : Nat]]
    BY <1>3, <1>7 DEF TypeOK
  <1> QED
    BY <1>7, <1>8, <1>9 DEF TypeOK, control

LEMMA ItemKeepsType ==
    ASSUME TypeOK, NEW t \in Threads, Item(t)
    PROVE  TypeOK'
  <1> DEFINE p == PhaseAt(t)
             i == claim[t].at
             label == IF i + 1 < claim[t].to THEN ItemPC(p)
                      ELSE IF (t = Main /\ solo) \/ UsesSlab(t) THEN AfterPhase(t, p)
                      ELSE FetchPC(p)
  <1>1. p \in Phases
    BY PhaseType
  <1>2. i \in Nat /\ i + 1 \in Nat
    BY DEF TypeOK
  <1>3. /\ t = Main => label \in MainPCs
        /\ t \in Workers => label \in WorkerPCs
    <2>1. /\ ItemPC(p) \in MainPCs \cap WorkerPCs
          /\ FetchPC(p) \in MainPCs \cap WorkerPCs
      BY DEF ItemPC, FetchPC, MainPCs, WorkerPCs
    <2> QED
      BY <1>1, <2>1, AfterPhaseType, ThreadFacts DEF WorkerPCs
  <1>4. /\ pc' = [pc EXCEPT ![t] = label]
        /\ claim' = [claim EXCEPT ![t].at = i + 1]
        /\ done' = [done EXCEPT ![p][i] = @ + 1]
        /\ UNCHANGED <<myGen, pending, arrived, ready, fields, control>>
    BY DEF Item, Goto
  <1> HIDE DEF p, i, label
  <1>5. /\ pc' \in [Threads -> MainPCs \cup WorkerPCs]
        /\ pc'[Main] \in MainPCs
        /\ \A w \in Workers : pc'[w] \in WorkerPCs
    BY <1>3, <1>4, GotoType
  <1>6. claim' \in [Threads -> [at : Nat, to : Nat]]
    BY <1>2, <1>4 DEF TypeOK
  <1>7. done' \in [Phases -> [Indices -> Nat]]
    <2>1. done[p] \in [Indices -> Nat]
      BY <1>1 DEF TypeOK
    <2>2. [done[p] EXCEPT ![i] = @ + 1] \in [Indices -> Nat]
      <3>1. \A j \in Indices : [done[p] EXCEPT ![i] = @ + 1][j] \in Nat
        BY <2>1
      <3> QED
        BY <2>1, <3>1
    <2> QED
      BY <1>1, <1>4, <2>2 DEF TypeOK
  <1>8. UNCHANGED <<myGen, pending, arrived, ready, task, slab1, slab, nextIndex,
                    endIndex, initialized, call, solo, taskId, stop, depth>>
    BY <1>4 DEF control, fields
  <1> QED
    BY <1>5, <1>6, <1>7, <1>8 DEF TypeOK

LEMMA PlacesKeepType ==
    ASSUME TypeOK,
           pc' \in [Threads -> MainPCs \cup WorkerPCs],
           pc'[Main] \in MainPCs,
           \A w \in Workers : pc'[w] \in WorkerPCs,
           UNCHANGED <<claim, myGen, pending, arrived, ready, done, fields, control>>
    PROVE  TypeOK'
  BY DEF TypeOK, fields, control

\* A step that only moves one thread to another of its places.
LEMMA GotoKeepsType ==
    ASSUME TypeOK, NEW t \in Threads, NEW label,
           t = Main => label \in MainPCs, t \in Workers => label \in WorkerPCs,
           Goto(t, label),
           UNCHANGED <<claim, myGen, pending, arrived, ready, done, fields, control>>
    PROVE  TypeOK'
  <1>1. /\ pc' \in [Threads -> MainPCs \cup WorkerPCs]
        /\ pc'[Main] \in MainPCs
        /\ \A w \in Workers : pc'[w] \in WorkerPCs
    BY GotoType DEF Goto
  <1> QED
    BY <1>1, PlacesKeepType

LEMMA CallKeepsType ==
    ASSUME TypeOK, NEW c \in Calls, Call(c)
    PROVE  TypeOK'
  <1>1. c \in CallType /\ c.s1 \in Nat /\ c.e1 \in Nat
    BY CallsAssumption, IndexAssumption DEF CallType, Indices
  <1>2. \E label \in MainPCs : pc' = [pc EXCEPT ![Main] = label]
    BY DEF Call, Goto, MainPCs
  <1>3. /\ pc' \in [Threads -> MainPCs \cup WorkerPCs]
        /\ pc'[Main] \in MainPCs
        /\ \A w \in Workers : pc'[w] \in WorkerPCs
    BY <1>2, GotoType, ThreadFacts
  <1>4. claim' \in [Threads -> [at : Nat, to : Nat]]
    BY <1>1 DEF Call, TypeOK
  <1>5. done' \in [Phases -> [Indices -> Nat]]
    BY DEF Call, NothingDone
  <1>6. solo' \in BOOLEAN /\ depth' \in {0, 1} /\ call' \in CallType
    BY <1>1 DEF Call, TypeOK, RunsSerially
  <1>7. UNCHANGED <<myGen, pending, arrived, ready, task, slab1, slab, nextIndex,
                    endIndex, initialized, taskId, stop>>
    BY DEF Call, fields
  <1> QED
    BY <1>3, <1>4, <1>5, <1>6, <1>7 DEF TypeOK

LEMMA SetupKeepsType ==
    ASSUME TypeOK, Protocol, Setup
    PROVE  TypeOK'
  <1>1. call \in CallType /\ call.s1 < call.e1
    BY DEF TypeOK, Protocol, Prepared, Preparing, Setup
  <1>2. /\ pc' \in [Threads -> MainPCs \cup WorkerPCs]
        /\ pc'[Main] \in MainPCs
        /\ \A w \in Workers : pc'[w] \in WorkerPCs
    <2>1. "publish" \in MainPCs
      BY DEF MainPCs
    <2> QED
      BY <2>1, GotoType, ThreadFacts DEF Setup, Goto
  <1>3. \A n \in Indices : NonZero(n) \in Indices
    BY IndexAssumption DEF NonZero, Indices
  <1>4. task' \in TaskType
    <2>1. task \in TaskType
      BY DEF TypeOK
    <2> QED
      BY <1>1, <1>3, <2>1
      DEF Setup, TaskType, CallType, SlabKind, StealKind, HasPhase2, TwoPhase
  <1>5. slab1' \in Ranges /\ slab' \in Ranges
    <2>1. Span(call.s1, call.e1) \in Ranges
      BY <1>1, IndexAssumption DEF Span, Ranges, CallType, Indices
    <2> QED
      BY <2>1 DEF Setup, TypeOK
  <1>6. nextIndex' \in Indices /\ endIndex' \in Indices
    BY <1>1 DEF Setup, TypeOK, CallType
  <1>7. pending' \in 0 .. NumWorkers /\ arrived' \in 0 .. NumWorkers /\ ready' \in BOOLEAN
    <2>1. /\ 0 \in 0 .. NumWorkers /\ NumWorkers \in 0 .. NumWorkers
          /\ arrived \in 0 .. NumWorkers /\ ready \in BOOLEAN
      BY ThreadFacts DEF TypeOK
    <2>2. /\ arrived' = 0 \/ arrived' = arrived
          /\ ready' = FALSE \/ ready' = ready
          /\ pending' = NumWorkers
      BY DEF Setup
    <2> QED
      BY <2>1, <2>2
  <1>8. UNCHANGED <<claim, myGen, done, initialized, call, solo, taskId, stop, depth>>
    BY DEF Setup, control
  <1> QED
    BY <1>2, <1>4, <1>5, <1>6, <1>7, <1>8 DEF TypeOK

LEMMA BetweenKeepsType ==
    ASSUME TypeOK, Between
    PROVE  TypeOK'
  <1>1. call \in CallType
    BY DEF TypeOK
  <1>2. \E label \in MainPCs : pc' = [pc EXCEPT ![Main] = label]
    BY DEF Between, Goto, MainPCs
  <1>3. /\ pc' \in [Threads -> MainPCs \cup WorkerPCs]
        /\ pc'[Main] \in MainPCs
        /\ \A w \in Workers : pc'[w] \in WorkerPCs
    BY <1>2, GotoType, ThreadFacts
  <1>4. claim' \in [Threads -> [at : Nat, to : Nat]]
    <2>1. call.s2 \in Nat /\ call.e2 \in Nat
      BY <1>1, IndexAssumption DEF CallType, Indices
    <2> QED
      BY <2>1 DEF Between, TypeOK
  <1>5. slab' \in Ranges
    <2>1. HasPhase2(call) => Span(call.s2, call.e2) \in Ranges
      BY <1>1, IndexAssumption DEF HasPhase2, Span, Ranges, CallType, Indices
    <2> QED
      BY <2>1 DEF Between, TypeOK, fields
  <1>6. nextIndex' \in Indices /\ endIndex' \in Indices
    BY <1>1 DEF Between, TypeOK, CallType, fields
  <1>7. UNCHANGED <<task, slab1, myGen, pending, arrived, ready, done,
                    initialized, call, solo, taskId, stop, depth>>
    BY DEF Between, control, fields
  <1> QED
    BY <1>3, <1>4, <1>5, <1>6, <1>7 DEF TypeOK

LEMMA TypeStep ==
    ASSUME IInv, [Next]_vars
    PROVE  TypeOK'
  <1> USE DEF IInv
  <1>1. CASE Initialize
    <2>1. /\ pc' \in [Threads -> MainPCs \cup WorkerPCs]
          /\ pc'[Main] \in MainPCs
          /\ \A w \in Workers : pc'[w] \in WorkerPCs
      BY <1>1, ThreadFacts DEF Initialize, MainPCs, WorkerPCs
    <2> QED
      BY <1>1, <2>1 DEF Initialize, TypeOK, fields
  <1>2. CASE \E c \in Calls : Call(c)
    BY <1>2, CallKeepsType
  <1>3. CASE Setup
    BY <1>3, SetupKeepsType
  <1>4. CASE Publish
    <2>1. taskId' \in 0 .. MaxTasks
      BY <1>4, TasksAssumption DEF Publish, Protocol, Preparing, TypeOK
    <2>2. /\ pc' \in [Threads -> MainPCs \cup WorkerPCs]
          /\ pc'[Main] \in MainPCs
          /\ \A w \in Workers : pc'[w] \in WorkerPCs
      <3>1. "fetch1" \in MainPCs
        BY DEF MainPCs
      <3> QED
        BY <1>4, <3>1, GotoType, NotifyAllType, ThreadFacts DEF Publish
    <2> QED
      BY <1>4, <2>1, <2>2 DEF Publish, TypeOK, fields
  <1>5. CASE PassBarrier
    BY <1>5, GotoKeepsType, ThreadFacts DEF PassBarrier, MainPCs
  <1>6. CASE Between
    BY <1>6, BetweenKeepsType
  <1>7. CASE Release
    <2>1. \E label \in MainPCs : pc' = [pc EXCEPT ![Main] = label]
      BY <1>7 DEF Release, Goto, MainPCs
    <2>2. /\ pc' \in [Threads -> MainPCs \cup WorkerPCs]
          /\ pc'[Main] \in MainPCs
          /\ \A w \in Workers : pc'[w] \in WorkerPCs
      BY <2>1, GotoType, ThreadFacts
    <2> QED
      BY <1>7, <2>2 DEF Release, TypeOK, fields, control
  <1>8. CASE SeeAllDone
    BY <1>8, GotoKeepsType, ThreadFacts DEF SeeAllDone, MainPCs
  <1>9. CASE Clear
    <2>1. "idle" \in MainPCs
      BY DEF MainPCs
    <2>2. /\ pc' \in [Threads -> MainPCs \cup WorkerPCs]
          /\ pc'[Main] \in MainPCs
          /\ \A w \in Workers : pc'[w] \in WorkerPCs
      BY <1>9, <2>1, GotoType, ThreadFacts DEF Clear, Goto
    <2>3. task' \in TaskType
      BY <1>9 DEF Clear, TypeOK, TaskType
    <2>4. ready' \in BOOLEAN /\ arrived' \in 0 .. NumWorkers
      <3>1. 0 \in 0 .. NumWorkers /\ arrived \in 0 .. NumWorkers /\ ready \in BOOLEAN
        BY ThreadFacts DEF TypeOK
      <3>2. /\ arrived' = 0 \/ arrived' = arrived
            /\ ready' = FALSE \/ ready' = ready
        BY <1>9 DEF Clear
      <3> QED
        BY <3>1, <3>2
    <2> QED
      BY <1>9, <2>2, <2>3, <2>4 DEF Clear, TypeOK
  <1>10. CASE ReturnSerial
    BY <1>10, GotoKeepsType, ThreadFacts DEF ReturnSerial, MainPCs
  <1>11. CASE Destroy
    <2>1. /\ pc' \in [Threads -> MainPCs \cup WorkerPCs]
          /\ pc'[Main] \in MainPCs
          /\ \A w \in Workers : pc'[w] \in WorkerPCs
      <3>1. "joining" \in MainPCs
        BY DEF MainPCs
      <3> QED
        BY <1>11, <3>1, GotoType, NotifyAllType, ThreadFacts DEF Destroy
    <2> QED
      BY <1>11, <2>1 DEF Destroy, TypeOK, fields
  <1>12. CASE Joined
    BY <1>12, GotoKeepsType, ThreadFacts DEF Joined, MainPCs
  <1>13. ASSUME NEW t \in Threads, Fetch(t) PROVE TypeOK'
    BY <1>13, FetchKeepsType
  <1>14. ASSUME NEW t \in Threads, Item(t) PROVE TypeOK'
    BY <1>14, ItemKeepsType
  <1>15. ASSUME NEW t \in Threads, SpinOut(t) PROVE TypeOK'
    BY <1>15, GotoKeepsType DEF SpinOut, MainPCs, WorkerPCs
  <1>16. ASSUME NEW t \in Threads, Lock(t) PROVE TypeOK'
    BY <1>16, GotoKeepsType, ThreadFacts DEF Lock, Proceeds, MainPCs, WorkerPCs
  <1>17. ASSUME NEW t \in Threads, Sleep(t) PROVE TypeOK'
    BY <1>17, GotoKeepsType DEF Sleep, MainPCs, WorkerPCs
  <1>18. ASSUME NEW t \in Threads, SpuriousWakeup(t) PROVE TypeOK'
    BY <1>18, GotoKeepsType DEF SpuriousWakeup, MainPCs, WorkerPCs
  <1>19. ASSUME NEW w \in Workers, SeeWork(w) PROVE TypeOK'
    BY <1>19, GotoKeepsType, ThreadFacts DEF SeeWork, WorkerPCs
  <1>20. ASSUME NEW w \in Workers, Check(w) PROVE TypeOK'
    <2>1. \E label \in WorkerPCs : pc' = [pc EXCEPT ![w] = label]
      BY <1>20 DEF Check, Goto, WorkerPCs
    <2>2. /\ pc' \in [Threads -> MainPCs \cup WorkerPCs]
          /\ pc'[Main] \in MainPCs
          /\ \A v \in Workers : pc'[v] \in WorkerPCs
      BY <2>1, GotoType, ThreadFacts
    <2>3. myGen' \in [Workers -> 0 .. MaxTasks]
      BY <1>20 DEF Check, TypeOK
    <2> QED
      BY <1>20, <2>2, <2>3 DEF Check, TypeOK, fields, control
  <1>21. ASSUME NEW w \in Workers, Arrive(w) PROVE TypeOK'
    <2>1. "await" \in WorkerPCs
      BY DEF WorkerPCs
    <2>2. /\ pc' \in [Threads -> MainPCs \cup WorkerPCs]
          /\ pc'[Main] \in MainPCs
          /\ \A v \in Workers : pc'[v] \in WorkerPCs
      BY <1>21, <2>1, GotoType, ThreadFacts DEF Arrive, Goto
    <2>3. pc[w] = "arrive" /\ w \in Owing
      BY <1>21 DEF Arrive, Owing, Working
    <2>4. Active /\ TwoPhaseTask
      BY <2>3 DEF Protocol, Phasing
    <2>5. w \notin Arrivals /\ Arrivals \in SUBSET Workers
      BY <2>3 DEF Arrivals, InPhase1
    <2>6. Cardinality(Arrivals) < NumWorkers
      BY <2>5, SubsetCount, ThreadFacts
    <2>7. arrived' \in 0 .. NumWorkers
      BY <1>21, <2>4, <2>6, ThreadFacts DEF Phasing, Arrive, TypeOK
    <2> QED
      BY <1>21, <2>2, <2>7 DEF Arrive, TypeOK, fields, control
  <1>22. ASSUME NEW w \in Workers, SeeReady(w) PROVE TypeOK'
    BY <1>22, GotoKeepsType, ThreadFacts DEF SeeReady, WorkerPCs
  <1>23. ASSUME NEW w \in Workers, Finish(w) PROVE TypeOK'
    <2>1. \E label \in WorkerPCs : pc' = [pc EXCEPT ![w] = label]
      BY <1>23 DEF Finish, Goto, WorkerPCs
    <2>2. /\ pc' \in [Threads -> MainPCs \cup WorkerPCs]
          /\ pc'[Main] \in MainPCs
          /\ \A v \in Workers : pc'[v] \in WorkerPCs
      BY <2>1, GotoType, ThreadFacts
    <2>3. w \in Owing /\ Owing \in SUBSET Workers
      BY <1>23 DEF Finish, Owing, Working
    <2>4. Active /\ Cardinality(Owing) \in 1 .. NumWorkers
      BY <2>3, SubsetCount, ThreadFacts DEF Protocol
    <2>5. pending' \in 0 .. NumWorkers
      BY <1>23, <2>4, ThreadFacts DEF Protocol, Finish
    <2> QED
      BY <1>23, <2>2, <2>5 DEF Finish, TypeOK, fields, control
  <1>24. ASSUME NEW w \in Workers, Notify(w) PROVE TypeOK'
    <2>1. "spin" \in WorkerPCs
      BY DEF WorkerPCs
    <2>2. /\ pc' \in [Threads -> MainPCs \cup WorkerPCs]
          /\ pc'[Main] \in MainPCs
          /\ \A v \in Workers : pc'[v] \in WorkerPCs
      BY <1>24, <2>1, GotoType, NotifyAllType, ThreadFacts DEF Notify
    <2> QED
      BY <1>24, <2>2, PlacesKeepType DEF Notify
  <1>25. CASE UNCHANGED vars
    BY <1>25 DEF vars, TypeOK, fields, control
  <1> QED
    BY <1>1, <1>2, <1>3, <1>4, <1>5, <1>6, <1>7, <1>8, <1>9, <1>10, <1>11, <1>12,
       <1>13, <1>14, <1>15, <1>16, <1>17, <1>18, <1>19, <1>20, <1>21, <1>22, <1>23,
       <1>24, <1>25, ThreadFacts
    DEF Next, MainStep, WorkerStep, Terminated

-----------------------------------------------------------------------------
(* Protocol is preserved.                                                  *)

\* A step of the main thread alone: no worker moves.
LEMMA MainMoves ==
    ASSUME TypeOK, NEW label, Goto(Main, label)
    PROVE  /\ pc'[Main] = label
           /\ \A w \in Workers : pc'[w] = pc[w]
           /\ UNCHANGED <<taskId, myGen>> => Owing' = Owing
           /\ UNCHANGED <<taskId, myGen>> => Arrivals' = Arrivals
  <1>1. pc'[Main] = label /\ \A w \in Workers : pc'[w] = pc[w]
    BY ThreadFacts DEF TypeOK, Goto
  <1>2. UNCHANGED <<taskId, myGen>> => Owing' = Owing
    BY <1>1 DEF Owing
  <1>3. UNCHANGED <<taskId, myGen>> => Arrivals' = Arrivals
    BY <1>1 DEF Arrivals
  <1> QED
    BY <1>1, <1>2, <1>3

\* A step of one worker alone.
LEMMA WorkerMoves ==
    ASSUME TypeOK, NEW w \in Workers, NEW label, Goto(w, label)
    PROVE  /\ pc'[w] = label
           /\ pc'[Main] = pc[Main]
           /\ \A v \in Workers \ {w} : pc'[v] = pc[v]
  BY ThreadFacts DEF TypeOK, Goto

\* A worker goes on inside its task, or outside it: what it owes is unchanged.
LEMMA WorkerKeepsProtocol ==
    ASSUME TypeOK, Protocol, NEW w \in Workers, NEW label, Goto(w, label),
           UNCHANGED <<taskId, myGen, pending, depth, stop, solo, call>>,
           pc[w] \in Working <=> label \in Working,
           pc[w] # "notify",
           label \in {"locked", "asleep"} => myGen[w] = taskId /\ ~stop,
           label = "check" => stop \/ myGen[w] # taskId
    PROVE  Protocol'
  <1>1. /\ pc'[w] = label /\ pc'[Main] = pc[Main]
        /\ \A v \in Workers \ {w} : pc'[v] = pc[v]
    BY WorkerMoves
  <1>2. Owing' = Owing
    BY <1>1 DEF Owing
  <1>3. NoLostWakeup'
    BY <1>1 DEF Protocol, NoLostWakeup
  <1>4. Active' = Active /\ Prepared' = Prepared
    BY <1>1 DEF Active, Prepared
  <1>5. /\ \A v \in Workers : pc'[v] \in Working => myGen'[v] = taskId'
        /\ \A v \in Workers : pc'[v] = "check" => stop' \/ myGen'[v] # taskId'
    BY <1>1 DEF Protocol
  <1> QED
    BY <1>1, <1>2, <1>3, <1>4, <1>5 DEF Protocol

\* The main thread goes on inside a dispatch.
LEMMA MainKeepsProtocol ==
    ASSUME TypeOK, Protocol, NEW label, Goto(Main, label), Active, label \in Dispatched,
           UNCHANGED <<taskId, myGen, pending, depth, stop, solo, call>>,
           label = "clear" => pending = 0,
           label \in {"locked", "asleep"} =>
               pending # 0 \/ \E w \in Workers : pc[w] = "notify"
    PROVE  Protocol'
  <1>1. /\ pc'[Main] = label /\ Owing' = Owing
        /\ \A v \in Workers : pc'[v] = pc[v]
    BY MainMoves
  <1>2. NoLostWakeup'
    BY <1>1 DEF Protocol, NoLostWakeup
  <1>3. Active' /\ Prepared' /\ Prepared
    BY <1>1 DEF Active, Prepared
  <1>4. label \notin Preparing \cup {"return", "publish", "joining", "gone"}
    BY DEF Dispatched, Preparing
  <1>5. /\ \A v \in Workers : pc'[v] \in Working => myGen'[v] = taskId'
        /\ \A v \in Workers : pc'[v] = "check" => stop' \/ myGen'[v] # taskId'
    BY <1>1 DEF Protocol
  <1>6. ~stop
    BY DEF Protocol, Active, Dispatched
  <1> QED
    BY <1>1, <1>2, <1>3, <1>4, <1>5, <1>6 DEF Protocol, Active

\* Outside a dispatch the main thread goes on serially, returns or ends.
LEMMA OutsideKeepsProtocol ==
    ASSUME TypeOK, Protocol, NEW label, Goto(Main, label), ~Active,
           UNCHANGED <<taskId, myGen, stop>>,
           label \in {"item1", "item2", "between", "return"} => solo' /\ ~stop,
           label \in {"item1", "item2", "between", "return", "idle", "joining", "gone"},
           label = "idle" => ~stop
    PROVE  Protocol'
  <1>1. /\ pc'[Main] = label /\ Owing' = Owing
        /\ \A v \in Workers : pc'[v] = pc[v]
    BY MainMoves
  <1>2. NoLostWakeup'
    BY <1>1 DEF Protocol, NoLostWakeup
  <1>3. ~Active' /\ ~Prepared' /\ label \notin Preparing
    BY <1>1 DEF Active, Prepared, Dispatched, Preparing
  <1>4. label \notin Dispatched \ {"item1", "item2", "between"}
    BY DEF Dispatched
  <1>5. /\ \A v \in Workers : pc'[v] \in Working => myGen'[v] = taskId'
        /\ \A v \in Workers : pc'[v] = "check" => stop' \/ myGen'[v] # taskId'
    BY <1>1 DEF Protocol
  <1>6. stop' => label \in {"joining", "gone"}
    OBVIOUS
  <1>7. Owing' = {}
    BY <1>1 DEF Protocol
  <1> QED
    BY <1>1, <1>2, <1>3, <1>4, <1>5, <1>6, <1>7 DEF Protocol

LEMMA CallKeepsProtocol ==
    ASSUME TypeOK, Protocol, NEW c \in Calls, Call(c)
    PROVE  Protocol'
  <1>1. ~Active /\ ~stop /\ UNCHANGED <<taskId, myGen, stop>>
    BY DEF Call, Active, Dispatched
  <1>2. CASE RunsSerially(c)
    <2>1. \E label \in {"item1", "between", "return"} : Goto(Main, label)
      BY <1>2 DEF Call
    <2>2. solo'
      BY <1>2 DEF Call
    <2> QED
      BY <1>1, <2>1, <2>2, OutsideKeepsProtocol
  <1>3. CASE ~RunsSerially(c)
    <2>1. /\ Goto(Main, "setup") /\ solo' = FALSE /\ depth' = 1 /\ call' = c
          /\ taskId < MaxTasks
      BY <1>3 DEF Call
    <2>2. NumThreads > 1 /\ c.s1 < c.e1
      <3>1. c.s1 \in Nat /\ c.e1 \in Nat
        BY CallsAssumption, IndexAssumption DEF CallType, Indices
      <3> QED
        BY <1>3, <3>1, ThreadsAssumption DEF RunsSerially
    <2>3. /\ pc'[Main] = "setup" /\ Owing' = Owing
          /\ \A v \in Workers : pc'[v] = pc[v]
      BY <1>1, <2>1, MainMoves
    <2>4. ~Active'
      BY <2>3 DEF Active, Dispatched
    <2>5. NoLostWakeup'
      BY <1>1, <2>3 DEF Protocol, NoLostWakeup
    <2>6. /\ \A v \in Workers : pc'[v] \in Working => myGen'[v] = taskId'
          /\ \A v \in Workers : pc'[v] = "check" => stop' \/ myGen'[v] # taskId'
      BY <1>1, <2>3 DEF Protocol
    <2> QED
      BY <1>1, <2>1, <2>2, <2>3, <2>4, <2>5, <2>6 DEF Protocol
  <1> QED
    BY <1>2, <1>3

\* Where a thread may go after a fetch or an item.
LEMMA FetchLabel ==
    ASSUME TypeOK, NEW t \in Threads, Fetch(t) \/ Item(t)
    PROVE  \E label :
             /\ Goto(t, label)
             /\ t \in Workers => label \in {"item1", "item2", "fetch1", "fetch2",
                                            "arrive", "finish"}
             /\ t = Main /\ ~solo => label \in {"item1", "item2", "fetch1", "fetch2",
                                                "barrier", "join"}
             /\ t = Main /\ solo /\ Item(t) => label \in {"item1", "item2", "between",
                                                        "return"}
  <1>1. /\ \A p \in Phases : /\ ItemPC(p) \in {"item1", "item2"}
                             /\ FetchPC(p) \in {"fetch1", "fetch2"}
        /\ PhaseAt(t) \in Phases
    BY PhaseType DEF ItemPC, FetchPC
  <1>2. \A p \in Phases :
           /\ t = Main /\ ~solo => AfterPhase(t, p) \in {"join", "barrier"}
           /\ t = Main /\ solo => AfterPhase(t, p) \in {"return", "between"}
           /\ t \in Workers => AfterPhase(t, p) \in {"arrive", "finish"}
    BY ThreadFacts DEF AfterPhase
  <1>3. CASE Fetch(t)
    <2>1. ~Item(t)
      BY <1>3 DEF Fetch, Item, AtFetch, AtItem
    <2> QED
      BY <1>1, <1>2, <1>3, <2>1 DEF Fetch
  <1>4. CASE Item(t)
    BY <1>1, <1>2, <1>4 DEF Item
  <1> QED
    BY <1>3, <1>4

\* The generation is bumped: every worker owes an acknowledgement, none sleeps.
LEMMA PublishKeepsProtocol ==
    ASSUME TypeOK, Protocol, Publish
    PROVE  Protocol'
  <1>1. /\ pc[Main] = "publish" /\ ~Active /\ ~solo /\ ~stop /\ Prepared
        /\ pending = NumWorkers /\ taskId \in Nat
    BY TasksAssumption
    DEF Publish, Protocol, Active, Prepared, Preparing, Dispatched, TypeOK
  <1>2. \A w \in Workers : myGen[w] = taskId /\ pc[w] \notin Working
    BY <1>1 DEF Protocol, Owing
  <1>3. /\ pc'[Main] = "fetch1"
        /\ \A w \in Workers : /\ pc'[w] \in {pc[w], "lock"}
                              /\ pc'[w] \notin {"locked", "asleep"}
    BY ThreadFacts DEF Publish, NotifyAll, MutexFree, TypeOK
  <1>4. \A w \in Workers : pc'[w] \notin Working /\ pc'[w] # "locked"
                            /\ myGen'[w] # taskId'
    <2>1. myGen' = myGen /\ taskId' # taskId
      BY <1>1 DEF Publish
    <2>2. \A w \in Workers : pc'[w] \notin Working
      BY <1>2, <1>3 DEF Working
    <2> QED
      BY <1>2, <1>3, <2>1, <2>2
  <1>5. Owing' = Workers
    BY <1>4 DEF Owing
  <1>6. Active' /\ Prepared'
    BY <1>1, <1>3 DEF Active, Prepared, Dispatched, Publish
  <1>7. NoLostWakeup'
    BY <1>3 DEF NoLostWakeup
  <1>8. pending' = Cardinality(Owing')
    BY <1>1, <1>5, WorkersCount DEF Publish
  <1>9. /\ UNCHANGED <<solo, depth, call, stop>>
        /\ depth = 1 /\ NumThreads > 1 /\ call.s1 < call.e1
    BY <1>1 DEF Publish, Protocol
  <1> QED
    BY <1>1, <1>3, <1>4, <1>6, <1>7, <1>8, <1>9 DEF Protocol, Preparing

\* The destructor finds nobody inside a task and leaves nobody asleep.
LEMMA DestroyKeepsProtocol ==
    ASSUME TypeOK, Protocol, Destroy
    PROVE  Protocol'
  <1>1. pc[Main] = "idle" /\ ~Active
    BY DEF Destroy, Active, Dispatched
  <1>2. \A w \in Workers : myGen[w] = taskId /\ pc[w] \notin Working
    BY <1>1 DEF Protocol, Owing
  <1>3. /\ pc'[Main] = "joining"
        /\ \A w \in Workers : /\ pc'[w] \in {pc[w], "lock"}
                              /\ pc'[w] \notin {"locked", "asleep"}
    BY ThreadFacts DEF Destroy, NotifyAll, MutexFree, TypeOK
  <1>4. Owing' = {}
    BY <1>2, <1>3 DEF Owing, Destroy, Working
  <1>5. ~Active' /\ ~Prepared'
    BY <1>3 DEF Active, Prepared, Dispatched, Preparing
  <1>6. NoLostWakeup'
    BY <1>3 DEF NoLostWakeup
  <1>7. stop' /\ \A w \in Workers : pc'[w] \notin Working
    BY <1>2, <1>3 DEF Destroy, Working
  <1> QED
    BY <1>3, <1>4, <1>5, <1>6, <1>7 DEF Protocol, Preparing, Dispatched

LEMMA InitializeKeepsProtocol ==
    ASSUME TypeOK, Protocol, Initialize
    PROVE  Protocol'
  <1>1. pc[Main] = "idle" /\ ~Active /\ ~stop
    BY DEF Initialize, Active, Dispatched, Protocol
  <1>2. pc'[Main] = "idle" /\ \A w \in Workers : pc'[w] = "spin"
    BY ThreadFacts DEF Initialize
  <1>3. Owing' = {} /\ ~Active' /\ ~Prepared'
    BY <1>1, <1>2
    DEF Protocol, Owing, Initialize, Working, Active, Prepared, Dispatched, Preparing
  <1> QED
    BY <1>1, <1>2, <1>3
    DEF Protocol, NoLostWakeup, Initialize, Working, Preparing, Dispatched

LEMMA SetupKeepsProtocol ==
    ASSUME TypeOK, Protocol, Setup
    PROVE  Protocol'
  <1>1. pc[Main] = "setup" /\ ~Active /\ Prepared /\ ~stop /\ taskId < MaxTasks /\ ~solo
    BY DEF Setup, Active, Prepared, Preparing, Dispatched, Protocol
  <1>2. /\ pc'[Main] = "publish" /\ Owing' = Owing
        /\ \A v \in Workers : pc'[v] = pc[v]
    BY MainMoves DEF Setup, control
  <1>3. ~Active'
    BY <1>2 DEF Active, Dispatched
  <1>4. NoLostWakeup'
    BY <1>1, <1>2 DEF Protocol, NoLostWakeup, Setup, control
  <1>5. /\ \A v \in Workers : pc'[v] \in Working => myGen'[v] = taskId'
        /\ \A v \in Workers : pc'[v] = "check" => stop' \/ myGen'[v] # taskId'
    BY <1>2 DEF Protocol, Setup, control
  <1>6. /\ pending' = NumWorkers
        /\ UNCHANGED <<depth, call, solo, stop, taskId>>
        /\ depth = 1 /\ NumThreads > 1 /\ call.s1 < call.e1 /\ Owing = {}
    BY <1>1 DEF Setup, Protocol, control
  <1> QED
    BY <1>1, <1>2, <1>3, <1>4, <1>5, <1>6 DEF Protocol

\* At the end of a dispatch nobody owes anything.
LEMMA ClearKeepsProtocol ==
    ASSUME TypeOK, Protocol, Clear
    PROVE  Protocol'
  <1>1. pc[Main] = "clear" /\ Active /\ ~stop
    BY DEF Clear, Active, Dispatched, Protocol
  <1>2. Owing = {}
    <2>1. Cardinality(Owing) = 0 /\ Owing \in SUBSET Workers
      BY <1>1 DEF Protocol, Owing
    <2> QED
      BY <2>1, SubsetCount
  <1>3. /\ pc'[Main] = "idle" /\ Owing' = Owing
        /\ \A v \in Workers : pc'[v] = pc[v]
    BY MainMoves DEF Clear
  <1>4. ~Active' /\ ~Prepared'
    BY <1>3 DEF Active, Prepared, Dispatched, Preparing
  <1>5. NoLostWakeup'
    BY <1>1, <1>3 DEF Protocol, NoLostWakeup, Clear
  <1>6. /\ \A v \in Workers : pc'[v] \in Working => myGen'[v] = taskId'
        /\ \A v \in Workers : pc'[v] = "check" => stop' \/ myGen'[v] # taskId'
    BY <1>3 DEF Protocol, Clear
  <1>7. UNCHANGED <<stop, taskId>>
    BY DEF Clear
  <1> QED
    BY <1>1, <1>2, <1>3, <1>4, <1>5, <1>6, <1>7 DEF Protocol, Preparing, Dispatched

\* A worker takes the task up, and keeps owing for it.
LEMMA CheckKeepsProtocol ==
    ASSUME TypeOK, Protocol, NEW w \in Workers, Check(w)
    PROVE  Protocol'
  <1>1. CASE stop
    <2>1. Goto(w, "exited") /\ pc[w] = "check"
          /\ UNCHANGED <<taskId, myGen, pending, depth, stop, solo, call>>
      BY <1>1 DEF Check, control
    <2> QED
      BY <2>1, WorkerKeepsProtocol DEF Working
  <1>2. CASE ~stop
    <2>1. /\ pc[w] = "check" /\ Goto(w, "fetch1")
          /\ myGen' = [myGen EXCEPT ![w] = taskId]
          /\ UNCHANGED <<taskId, pending, depth, stop, solo, call>>
      BY <1>2 DEF Check, control
    <2>2. /\ pc'[w] = "fetch1" /\ pc'[Main] = pc[Main]
          /\ \A v \in Workers \ {w} : pc'[v] = pc[v]
      BY <2>1, WorkerMoves
    <2>3. /\ myGen[w] # taskId /\ myGen'[w] = taskId
          /\ \A v \in Workers \ {w} : myGen'[v] = myGen[v]
      BY <1>2, <2>1 DEF Protocol, TypeOK
    <2>4. Owing' = Owing
      BY <2>1, <2>2, <2>3 DEF Owing, Working
    <2>5. NoLostWakeup'
      BY <2>1, <2>2, <2>3 DEF Protocol, NoLostWakeup
    <2>6. Active' = Active /\ Prepared' = Prepared
      BY <2>1, <2>2 DEF Active, Prepared
    <2>7. /\ \A v \in Workers : pc'[v] \in Working => myGen'[v] = taskId'
          /\ \A v \in Workers : pc'[v] = "check" => stop' \/ myGen'[v] # taskId'
      BY <2>1, <2>2, <2>3 DEF Protocol
    <2> QED
      BY <2>1, <2>2, <2>4, <2>5, <2>6, <2>7 DEF Protocol
  <1> QED
    BY <1>1, <1>2

\* An acknowledgement: one worker fewer owes, and the last one will notify.
LEMMA FinishKeepsProtocol ==
    ASSUME TypeOK, Protocol, NEW w \in Workers, Finish(w)
    PROVE  Protocol'
  <1> DEFINE label == IF pending = 1 THEN "notify" ELSE "spin"
  <1>1. /\ pc[w] = "finish" /\ pending' = pending - 1
        /\ UNCHANGED <<taskId, myGen, depth, stop, solo, call>>
        /\ Goto(w, label)
    BY DEF Finish, control
  <1>2. /\ pc'[w] = label /\ pc'[Main] = pc[Main]
        /\ \A v \in Workers \ {w} : pc'[v] = pc[v]
    BY <1>1, WorkerMoves
  <1>3. w \in Owing /\ myGen[w] = taskId /\ Owing \in SUBSET Workers
    BY <1>1 DEF Owing, Working, Protocol
  <1>4. Owing' = Owing \ {w}
    BY <1>1, <1>2, <1>3 DEF Owing, Working
  <1>5. Active /\ Active' /\ Prepared /\ Prepared'
    BY <1>1, <1>2, <1>3 DEF Protocol, Active, Prepared
  <1>6. /\ pending = Cardinality(Owing) /\ pending \in 1 .. NumWorkers
        /\ pending' = Cardinality(Owing')
    BY <1>1, <1>3, <1>4, <1>5, SubsetCount, ThreadFacts DEF Protocol
  <1>7. pc[Main] \notin {"clear", "publish"}
    BY <1>5, <1>6, ThreadFacts DEF Protocol, Active, Dispatched
  <1>8. NoLostWakeup'
    <2>1. pending' # 0 \/ pc'[w] = "notify"
      BY <1>1, <1>2, <1>6, ThreadFacts
    <2> QED
      BY <1>1, <1>2, <2>1 DEF Protocol, NoLostWakeup
  <1>9. /\ \A v \in Workers : pc'[v] \in Working => myGen'[v] = taskId'
        /\ \A v \in Workers : pc'[v] = "check" => stop' \/ myGen'[v] # taskId'
    BY <1>1, <1>2 DEF Protocol, Working
  <1> QED
    BY <1>1, <1>2, <1>5, <1>6, <1>7, <1>8, <1>9 DEF Protocol

LEMMA NotifyKeepsProtocol ==
    ASSUME TypeOK, Protocol, NEW w \in Workers, Notify(w)
    PROVE  Protocol'
  <1>1. /\ pc[w] = "notify"
        /\ UNCHANGED <<taskId, myGen, pending, depth, stop, solo, call>>
    BY DEF Notify, control
  <1>2. /\ pc'[Main] = IF pc[Main] = "asleep" THEN "lock" ELSE pc[Main]
        /\ \A v \in Workers : pc'[v] = IF v = w THEN "spin"
                              ELSE IF pc[v] = "asleep" THEN "lock" ELSE pc[v]
        /\ pc[Main] # "locked" /\ \A v \in Workers : pc[v] # "locked"
    BY ThreadFacts DEF Notify, NotifyAll, MutexFree, TypeOK
  <1>3. Owing' = Owing
    BY <1>1, <1>2 DEF Owing, Working
  <1>4. Active' = Active /\ Prepared' = Prepared
    BY <1>1, <1>2 DEF Active, Prepared, Dispatched, Preparing
  <1>5. NoLostWakeup'
    BY <1>2 DEF NoLostWakeup
  <1>6. /\ \A v \in Workers : pc'[v] \in Working => myGen'[v] = taskId'
        /\ \A v \in Workers : pc'[v] = "check" => stop' \/ myGen'[v] # taskId'
    BY <1>1, <1>2 DEF Protocol, Working
  <1>7. /\ pc'[Main] \in Preparing \cup (Dispatched \ {"item1", "item2", "between"})
             <=> pc[Main] \in Preparing \cup (Dispatched \ {"item1", "item2", "between"})
        /\ pc'[Main] \in Preparing <=> pc[Main] \in Preparing
    BY <1>2 DEF Preparing, Dispatched
  <1> QED
    BY <1>1, <1>2, <1>3, <1>4, <1>5, <1>6, <1>7 DEF Protocol

LEMMA ProtocolStep ==
    ASSUME IInv, [Next]_vars
    PROVE  Protocol'
  <1>0. TypeOK /\ Protocol
    BY DEF IInv
  <1>1. CASE Initialize
    BY <1>0, <1>1, InitializeKeepsProtocol
  <1>2. CASE \E c \in Calls : Call(c)
    BY <1>0, <1>2, CallKeepsProtocol
  <1>3. CASE Setup
    BY <1>0, <1>3, SetupKeepsProtocol
  <1>4. CASE Publish
    BY <1>0, <1>4, PublishKeepsProtocol
  <1>5. CASE PassBarrier
    <2>1. Active
      BY <1>0, <1>5 DEF PassBarrier, Active, Protocol, Dispatched
    <2> QED
      BY <1>0, <1>5, <2>1, MainKeepsProtocol DEF PassBarrier, Dispatched, control
  <1>6. CASE Between
    <2>1. pc[Main] = "between" /\ ~stop
          /\ UNCHANGED <<taskId, myGen, pending, depth, stop, solo, call>>
      BY <1>0, <1>6 DEF Between, Protocol, control
    <2>2. CASE solo
      <3>1. ~Active /\ solo' /\ \E label \in {"item2", "return"} : Goto(Main, label)
        BY <1>6, <2>1, <2>2 DEF Between, Active
      <3> QED
        BY <1>0, <2>1, <3>1, OutsideKeepsProtocol
    <2>3. CASE ~solo
      <3>1. Active /\ Goto(Main, "release")
        BY <1>6, <2>1, <2>3 DEF Between, Active, Dispatched
      <3> QED
        BY <1>0, <2>1, <3>1, MainKeepsProtocol DEF Dispatched
    <2> QED
      BY <2>2, <2>3
  <1>7. CASE Release
    <2>1. /\ Active /\ \E label \in {"fetch2", "join"} : Goto(Main, label)
          /\ UNCHANGED <<taskId, myGen, pending, depth, stop, solo, call>>
      BY <1>0, <1>7 DEF Release, Active, Protocol, Dispatched, control
    <2> QED
      BY <1>0, <2>1, MainKeepsProtocol DEF Dispatched
  <1>8. CASE SeeAllDone
    <2>1. Active
      BY <1>0, <1>8 DEF SeeAllDone, Active, Protocol, Dispatched
    <2> QED
      BY <1>0, <1>8, <2>1, MainKeepsProtocol DEF SeeAllDone, Dispatched, control
  <1>9. CASE Clear
    BY <1>0, <1>9, ClearKeepsProtocol
  <1>10. CASE ReturnSerial
    <2>1. ~Active /\ ~stop
      BY <1>0, <1>10 DEF ReturnSerial, Active, Protocol, Dispatched
    <2> QED
      BY <1>0, <1>10, <2>1, OutsideKeepsProtocol DEF ReturnSerial, control
  <1>11. CASE Destroy
    BY <1>0, <1>11, DestroyKeepsProtocol
  <1>12. CASE Joined
    <2>1. ~Active
      BY <1>12 DEF Joined, Active, Dispatched
    <2> QED
      BY <1>0, <1>12, <2>1, OutsideKeepsProtocol DEF Joined, control
  <1>13. CASE Fetch(Main) \/ Item(Main)
    <2>1. UNCHANGED <<taskId, myGen, pending, depth, stop, solo, call>>
      BY <1>13 DEF Fetch, Item, control
    <2>2. CASE solo
      <3>1. Item(Main) /\ ~Active /\ ~stop /\ solo'
        BY <1>0, <1>13, <2>1, <2>2
        DEF Active, Protocol, Fetch, Item, AtFetch, AtItem, Dispatched
      <3>2. \E label \in {"item1", "item2", "between", "return"} : Goto(Main, label)
        BY <1>0, <2>2, <3>1, FetchLabel, ThreadFacts
      <3> QED
        BY <1>0, <2>1, <3>1, <3>2, OutsideKeepsProtocol
    <2>3. CASE ~solo
      <3>1. Active
        BY <1>13, <2>3 DEF Active, Fetch, Item, AtFetch, AtItem, Dispatched
      <3>2. \E label \in {"item1", "item2", "fetch1", "fetch2", "barrier", "join"} :
               Goto(Main, label)
        BY <1>0, <1>13, <2>3, FetchLabel, ThreadFacts
      <3> QED
        BY <1>0, <2>1, <3>1, <3>2, MainKeepsProtocol DEF Dispatched
    <2> QED
      BY <2>2, <2>3
  <1>14. CASE SpinOut(Main)
    <2>1. Active
      BY <1>0, <1>14 DEF SpinOut, Active, Protocol, Dispatched
    <2> QED
      BY <1>0, <1>14, <2>1, MainKeepsProtocol DEF SpinOut, Dispatched, control
  <1>15. CASE Lock(Main)
    <2>1. Active
      BY <1>0, <1>15 DEF Lock, Active, Protocol, Dispatched
    <2> QED
      BY <1>0, <1>15, <2>1, MainKeepsProtocol
      DEF Lock, MayProceed, Proceeds, Dispatched, control
  <1>16. CASE Sleep(Main)
    <2>1. Active
      BY <1>0, <1>16 DEF Sleep, Active, Protocol, Dispatched
    <2>2. pending # 0 \/ \E w \in Workers : pc[w] = "notify"
      BY <1>0, <1>16 DEF Sleep, Protocol, NoLostWakeup
    <2> QED
      BY <1>0, <1>16, <2>1, <2>2, MainKeepsProtocol DEF Sleep, Dispatched, control
  <1>17. CASE SpuriousWakeup(Main)
    <2>1. Active
      BY <1>0, <1>17 DEF SpuriousWakeup, Active, Protocol, Dispatched
    <2> QED
      BY <1>0, <1>17, <2>1, MainKeepsProtocol DEF SpuriousWakeup, Dispatched, control
  <1>18. ASSUME NEW w \in Workers, Fetch(w) \/ Item(w) PROVE Protocol'
    <2>1. \E label \in {"item1", "item2", "fetch1", "fetch2", "arrive", "finish"} :
             Goto(w, label)
      BY <1>0, <1>18, FetchLabel, ThreadFacts
    <2>2. pc[w] \in Working
      BY <1>18 DEF Fetch, Item, AtFetch, AtItem, Working
    <2>3. UNCHANGED <<taskId, myGen, pending, depth, stop, solo, call>>
      BY <1>18 DEF Fetch, Item, control
    <2> QED
      BY <1>0, <2>1, <2>2, <2>3, WorkerKeepsProtocol DEF Working
  <1>19. ASSUME NEW w \in Workers, SpinOut(w) PROVE Protocol'
    BY <1>0, <1>19, WorkerKeepsProtocol, ThreadFacts DEF SpinOut, Working, control
  <1>20. ASSUME NEW w \in Workers, Lock(w) PROVE Protocol'
    BY <1>0, <1>20, WorkerKeepsProtocol, ThreadFacts
    DEF Lock, MayProceed, Proceeds, Working, control
  <1>21. ASSUME NEW w \in Workers, Sleep(w) PROVE Protocol'
    <2>1. myGen[w] = taskId /\ ~stop
      BY <1>0, <1>21 DEF Sleep, Protocol, NoLostWakeup
    <2> QED
      BY <1>0, <1>21, <2>1, WorkerKeepsProtocol DEF Sleep, Working, control
  <1>22. ASSUME NEW w \in Workers, SpuriousWakeup(w) PROVE Protocol'
    BY <1>0, <1>22, WorkerKeepsProtocol DEF SpuriousWakeup, Working, control
  <1>23. ASSUME NEW w \in Workers, SeeWork(w) PROVE Protocol'
    BY <1>0, <1>23, WorkerKeepsProtocol, ThreadFacts
    DEF SeeWork, MayProceed, Working, control
  <1>24. ASSUME NEW w \in Workers, Check(w) PROVE Protocol'
    BY <1>0, <1>24, CheckKeepsProtocol
  <1>25. ASSUME NEW w \in Workers, Arrive(w) PROVE Protocol'
    BY <1>0, <1>25, WorkerKeepsProtocol DEF Arrive, Working, control
  <1>26. ASSUME NEW w \in Workers, SeeReady(w) PROVE Protocol'
    BY <1>0, <1>26, WorkerKeepsProtocol DEF SeeReady, Working, control
  <1>27. ASSUME NEW w \in Workers, Finish(w) PROVE Protocol'
    BY <1>0, <1>27, FinishKeepsProtocol
  <1>28. ASSUME NEW w \in Workers, Notify(w) PROVE Protocol'
    BY <1>0, <1>28, NotifyKeepsProtocol
  <1>29. CASE UNCHANGED vars
    <2>1. UNCHANGED <<pc, taskId, myGen, pending, depth, stop, solo, call>>
      BY <1>29 DEF vars, control
    <2>2. Owing' = Owing /\ Active' = Active /\ Prepared' = Prepared
          /\ NoLostWakeup' = NoLostWakeup
      BY <2>1 DEF Owing, Active, Prepared, NoLostWakeup
    <2> QED
      BY <1>0, <2>1, <2>2 DEF Protocol
  <1> QED
    BY <1>1, <1>2, <1>3, <1>4, <1>5, <1>6, <1>7, <1>8, <1>9, <1>10, <1>11, <1>12,
       <1>13, <1>14, <1>15, <1>16, <1>17, <1>18, <1>19, <1>20, <1>21, <1>22, <1>23,
       <1>24, <1>25, <1>26, <1>27, <1>28, <1>29, ThreadFacts
    DEF Next, MainStep, WorkerStep, Terminated

-----------------------------------------------------------------------------
(* Phasing is preserved.                                                   *)

\* A worker moves without changing which workers are past phase 1.
LEMMA WorkerKeepsPhasing ==
    ASSUME TypeOK, Phasing, NEW w \in Workers, NEW label, Goto(w, label),
           UNCHANGED <<task, call, solo, taskId, myGen, arrived, ready>>,
           Active /\ TwoPhaseTask /\ myGen[w] = taskId =>
               (pc[w] \in InPhase1 <=> label \in InPhase1),
           label \in {"arrive", "await"} \cup InPhase2 => TwoPhaseTask,
           Active /\ TwoPhaseTask /\ ~ready /\ myGen[w] = taskId =>
               label \in InPhase1 \cup {"await"}
    PROVE  Phasing'
  <1>1. /\ pc'[w] = label /\ pc'[Main] = pc[Main]
        /\ \A v \in Workers \ {w} : pc'[v] = pc[v]
    BY WorkerMoves
  <1>2. Active' = Active /\ TwoPhaseTask' = TwoPhaseTask
    BY <1>1 DEF Active, TwoPhaseTask
  <1>3. Active /\ TwoPhaseTask => Arrivals' = Arrivals
    BY <1>1 DEF Arrivals
  <1>4. /\ \A v \in Workers : pc'[v] \in {"arrive", "await"} \cup InPhase2
                               => TwoPhaseTask'
        /\ Active' /\ TwoPhaseTask' /\ ~ready' =>
             \A v \in Workers : myGen'[v] = taskId' => pc'[v] \in InPhase1 \cup {"await"}
    BY <1>1, <1>2 DEF Phasing
  <1> QED
    BY <1>1, <1>2, <1>3, <1>4 DEF Phasing

\* The main thread moves inside a dispatch.
LEMMA MainKeepsPhasing ==
    ASSUME TypeOK, Phasing, NEW label, Goto(Main, label), Active, label \in Dispatched,
           UNCHANGED <<task, call, solo, taskId, myGen, arrived, ready>>,
           label \in {"barrier", "between", "release"} => TwoPhase(call),
           label \in {"between", "release"} => arrived >= NumWorkers,
           label \in {"fetch1", "item1", "barrier", "between", "release"}
               /\ TwoPhase(call) => ~ready
    PROVE  Phasing'
  <1>1. /\ pc'[Main] = label /\ Arrivals' = Arrivals
        /\ \A v \in Workers : pc'[v] = pc[v]
    BY MainMoves
  <1>2. Active' /\ TwoPhaseTask' = TwoPhaseTask /\ label # "publish"
    BY <1>1 DEF Active, TwoPhaseTask, Dispatched
  <1>3. /\ \A v \in Workers : pc'[v] \in {"arrive", "await"} \cup InPhase2
                               => TwoPhaseTask'
        /\ Active' /\ TwoPhaseTask' /\ ~ready' =>
             \A v \in Workers : myGen'[v] = taskId' => pc'[v] \in InPhase1 \cup {"await"}
    BY <1>1, <1>2 DEF Phasing
  <1> QED
    BY <1>1, <1>2, <1>3 DEF Phasing

\* Outside a dispatch nothing is promised but that no worker is in a task.
LEMMA OutsideKeepsPhasing ==
    ASSUME ~Active', pc'[Main] # "publish", \A w \in Workers : pc'[w] \notin Working
    PROVE  Phasing'
  BY DEF Phasing, Working, InPhase2

LEMMA NobodyWorks ==
    ASSUME Protocol, ~Active
    PROVE  \A w \in Workers : myGen[w] = taskId /\ pc[w] \notin Working
  BY DEF Protocol, Owing

LEMMA WorkingIsActive ==
    ASSUME Protocol, NEW w \in Workers, pc[w] \in Working
    PROVE  Active /\ myGen[w] = taskId /\ w \in Owing
  BY DEF Protocol, Owing

\* Where a fetch or an item leads, phase by phase.
LEMMA PhaseLabel ==
    ASSUME TypeOK, Protocol, Phasing, NEW t \in Threads, Fetch(t) \/ Item(t), Active
    PROVE  \E label :
             /\ Goto(t, label)
             /\ t \in Workers /\ pc[t] \in {"fetch1", "item1"} =>
                   label \in {"item1", "fetch1"}
                             \cup IF TwoPhaseTask THEN {"arrive"} ELSE {"finish"}
             /\ t \in Workers /\ pc[t] \notin {"fetch1", "item1"} =>
                   label \in {"item2", "fetch2", "finish"}
             /\ t = Main /\ pc[t] \in {"fetch1", "item1"} =>
                   label \in {"item1", "fetch1"}
                             \cup IF TwoPhase(call) THEN {"barrier"} ELSE {"join"}
             /\ t = Main /\ pc[t] \notin {"fetch1", "item1"} =>
                   label \in {"item2", "fetch2", "join"}
  <1>1. /\ ItemPC(1) = "item1" /\ ItemPC(2) = "item2"
        /\ FetchPC(1) = "fetch1" /\ FetchPC(2) = "fetch2"
        /\ pc[t] \in {"fetch1", "item1"} => PhaseAt(t) = 1
        /\ pc[t] \notin {"fetch1", "item1"} => PhaseAt(t) = 2
    BY DEF ItemPC, FetchPC, PhaseAt
  <1>2. /\ t = Main => /\ AfterPhase(t, 1) = IF TwoPhase(call) THEN "barrier" ELSE "join"
                       /\ AfterPhase(t, 2) = "join"
    BY DEF AfterPhase, Active
  <1>3. t \in Workers => /\ AfterPhase(t, 1) = IF TwoPhaseTask THEN "arrive" ELSE "finish"
                         /\ AfterPhase(t, 2) = "finish"
    <2>1. (IF task.slab THEN task.two ELSE task.two2) <=> TwoPhaseTask
      BY DEF Phasing, TwoPhaseTask, SlabKind
    <2> QED
      BY <2>1, ThreadFacts DEF AfterPhase
  <1>4. t = Main \/ t \in Workers
    BY ThreadFacts
  <1>5. ~(t = Main /\ solo)
    BY DEF Active
  <1>6. CASE Fetch(t)
    BY <1>1, <1>2, <1>3, <1>4, <1>6 DEF Fetch
  <1>7. CASE Item(t)
    BY <1>1, <1>2, <1>3, <1>4, <1>5, <1>7 DEF Item
  <1> QED
    BY <1>6, <1>7

LEMMA SetupKeepsPhasing ==
    ASSUME TypeOK, Protocol, Setup
    PROVE  Phasing'
  <1>1. ~Active
    BY DEF Setup, Active, Dispatched
  <1>2. /\ pc'[Main] = "publish"
        /\ \A v \in Workers : pc'[v] = pc[v] /\ pc[v] \notin Working
    BY <1>1, MainMoves, NobodyWorks DEF Setup
  <1>3. ~Active'
    BY <1>2 DEF Active, Dispatched
  <1>4. call' = call
    BY DEF Setup, control
  <1>5. /\ task'.slab = SlabKind(call)
        /\ task'.two = (call.kind = "slab2" /\ HasPhase2(call))
        /\ task'.two2 = (call.kind = "steal2" /\ HasPhase2(call))
    BY DEF Setup
  <1>6. TwoPhase(call) => arrived' = 0 /\ ~ready'
    BY DEF Setup
  <1>7. \A v \in Workers : pc'[v] \notin {"arrive", "await"} \cup InPhase2
    BY <1>2 DEF Working, InPhase2
  <1> QED
    BY <1>2, <1>3, <1>4, <1>5, <1>6, <1>7 DEF Phasing, SlabKind, HasPhase2, TwoPhase

LEMMA PublishKeepsPhasing ==
    ASSUME TypeOK, Protocol, Phasing, Publish
    PROVE  Phasing'
  <1>1. pc[Main] = "publish" /\ ~Active /\ taskId \in Nat
    BY TasksAssumption DEF Publish, Active, Dispatched, TypeOK
  <1>2. \A v \in Workers : myGen[v] = taskId /\ pc[v] \notin Working
    BY <1>1, NobodyWorks
  <1>3. myGen' = myGen /\ taskId' # taskId
    BY <1>1 DEF Publish
  <1>4. /\ pc'[Main] = "fetch1"
        /\ \A v \in Workers : pc'[v] \in {pc[v], "lock"}
    BY ThreadFacts DEF Publish, NotifyAll, TypeOK
  <1>5. \A v \in Workers : myGen'[v] # taskId'
    BY <1>2, <1>3
  <1>6. Arrivals' = {}
    BY <1>5 DEF Arrivals
  <1>7. Cardinality(Arrivals') = 0
    BY <1>6, FS_EmptySet
  <1>8. UNCHANGED <<task, call, arrived, ready>>
    BY DEF Publish, fields
  <1>9. \A v \in Workers : pc'[v] \notin {"arrive", "await"} \cup InPhase2
    BY <1>2, <1>4 DEF Working, InPhase2
  <1>10. TwoPhaseTask => TwoPhase(call)
    BY <1>1 DEF Phasing, TwoPhaseTask, HasPhase2
  <1>11. TwoPhaseTask' = TwoPhaseTask
    BY <1>8 DEF TwoPhaseTask
  <1>12. /\ task'.slab = SlabKind(call')
         /\ task'.two = (call'.kind = "slab2" /\ HasPhase2(call'))
         /\ task'.two2 = (call'.kind = "steal2" /\ HasPhase2(call'))
         /\ TwoPhase(call') => arrived' = 0 /\ ~ready'
    BY <1>1, <1>8 DEF Phasing
  <1> QED
    BY <1>4, <1>5, <1>7, <1>8, <1>9, <1>10, <1>11, <1>12 DEF Phasing

LEMMA ReleaseKeepsPhasing ==
    ASSUME TypeOK, Protocol, Phasing, Release
    PROVE  Phasing'
  <1>1. \E label \in {"fetch2", "join"} : Goto(Main, label)
    BY DEF Release
  <1>2. UNCHANGED <<taskId, myGen, task, call, solo, arrived>> /\ ready'
    BY DEF Release, fields, control
  <1>3. /\ pc'[Main] \in {"fetch2", "join"} /\ Arrivals' = Arrivals
        /\ \A v \in Workers : pc'[v] = pc[v]
    BY <1>1, <1>2, MainMoves
  <1>4. Active
    BY DEF Release, Active, Protocol, Dispatched
  <1>5. TwoPhaseTask' = TwoPhaseTask
    BY <1>2 DEF TwoPhaseTask
  <1> QED
    BY <1>2, <1>3, <1>4, <1>5 DEF Phasing

\* A worker that takes the task up is in phase 1, not past it.
LEMMA CheckKeepsPhasing ==
    ASSUME TypeOK, Protocol, Phasing, NEW w \in Workers, Check(w)
    PROVE  Phasing'
  <1>1. CASE stop
    <2>1. ~Active
      BY <1>1 DEF Protocol, Active, Dispatched
    <2>2. /\ Goto(w, "exited")
          /\ UNCHANGED <<task, call, solo, taskId, myGen, arrived, ready>>
      BY <1>1 DEF Check, fields, control
    <2> QED
      BY <2>1, <2>2, WorkerKeepsPhasing DEF InPhase2
  <1>2. CASE ~stop
    <2>1. /\ pc[w] = "check" /\ Goto(w, "fetch1") /\ myGen[w] # taskId
          /\ myGen' = [myGen EXCEPT ![w] = taskId]
          /\ UNCHANGED <<task, call, solo, taskId, arrived, ready>>
      BY <1>2 DEF Check, fields, control, Protocol
    <2>2. /\ pc'[w] = "fetch1" /\ pc'[Main] = pc[Main]
          /\ \A v \in Workers \ {w} : pc'[v] = pc[v] /\ myGen'[v] = myGen[v]
      BY <2>1, WorkerMoves DEF TypeOK
    <2>3. Arrivals' = Arrivals
      BY <2>1, <2>2 DEF Arrivals, InPhase1
    <2>4. Active' = Active /\ TwoPhaseTask' = TwoPhaseTask
      BY <2>1, <2>2 DEF Active, TwoPhaseTask
    <2>5. /\ \A v \in Workers : pc'[v] \in {"arrive", "await"} \cup InPhase2
                                 => TwoPhaseTask'
          /\ Active' /\ TwoPhaseTask' /\ ~ready' =>
               \A v \in Workers : myGen'[v] = taskId' => pc'[v] \in InPhase1 \cup {"await"}
      BY <2>1, <2>2, <2>4 DEF Phasing, InPhase1, InPhase2
    <2> QED
      BY <2>1, <2>2, <2>3, <2>4, <2>5 DEF Phasing
  <1> QED
    BY <1>1, <1>2

\* An arrival adds one worker to those past phase 1, and one to the count.
LEMMA ArriveKeepsPhasing ==
    ASSUME TypeOK, Protocol, Phasing, NEW w \in Workers, Arrive(w)
    PROVE  Phasing'
  <1>1. /\ pc[w] = "arrive" /\ Goto(w, "await") /\ arrived' = arrived + 1
        /\ UNCHANGED <<task, call, solo, taskId, myGen, ready>>
    BY DEF Arrive, fields, control
  <1>2. /\ pc'[w] = "await" /\ pc'[Main] = pc[Main]
        /\ \A v \in Workers \ {w} : pc'[v] = pc[v]
    BY <1>1, WorkerMoves
  <1>3. Active /\ myGen[w] = taskId /\ TwoPhaseTask
    BY <1>1, WorkingIsActive DEF Working, Phasing
  <1>4. Active' /\ TwoPhaseTask'
    BY <1>1, <1>2, <1>3 DEF Active, TwoPhaseTask
  <1>5. w \notin Arrivals /\ Arrivals' = Arrivals \cup {w} /\ Arrivals \in SUBSET Workers
    BY <1>1, <1>2, <1>3 DEF Arrivals, InPhase1
  <1>6. arrived' = Cardinality(Arrivals') /\ arrived \in Nat
    BY <1>1, <1>3, <1>5, SubsetCount DEF Phasing, TypeOK
  <1>7. /\ \A v \in Workers : pc'[v] \in {"arrive", "await"} \cup InPhase2
                               => TwoPhaseTask'
        /\ Active' /\ TwoPhaseTask' /\ ~ready' =>
             \A v \in Workers : myGen'[v] = taskId' => pc'[v] \in InPhase1 \cup {"await"}
    BY <1>1, <1>2, <1>3, <1>4 DEF Phasing
  <1>8. arrived >= NumWorkers => arrived' >= NumWorkers
    BY <1>1, <1>6, ThreadFacts
  <1>9. pc[Main] # "publish"
    BY <1>3 DEF Active, Dispatched
  <1> QED
    BY <1>1, <1>2, <1>3, <1>4, <1>6, <1>7, <1>8, <1>9 DEF Phasing

LEMMA NotifyKeepsPhasing ==
    ASSUME TypeOK, Protocol, Phasing, NEW w \in Workers, Notify(w)
    PROVE  Phasing'
  <1>1. /\ pc[w] = "notify"
        /\ UNCHANGED <<task, call, solo, taskId, myGen, arrived, ready>>
    BY DEF Notify, fields, control
  <1>2. /\ pc'[Main] = IF pc[Main] = "asleep" THEN "lock" ELSE pc[Main]
        /\ \A v \in Workers : pc'[v] = IF v = w THEN "spin"
                              ELSE IF pc[v] = "asleep" THEN "lock" ELSE pc[v]
    BY ThreadFacts DEF Notify, NotifyAll, TypeOK
  <1>3. Arrivals' = Arrivals
    BY <1>1, <1>2 DEF Arrivals, InPhase1
  <1>4. Active' = Active /\ TwoPhaseTask' = TwoPhaseTask
    BY <1>1, <1>2 DEF Active, TwoPhaseTask, Dispatched
  <1>5. /\ \A v \in Workers : pc'[v] \in {"arrive", "await"} \cup InPhase2
                               => TwoPhaseTask'
        /\ Active' /\ TwoPhaseTask' /\ ~ready' =>
             \A v \in Workers : myGen'[v] = taskId' => pc'[v] \in InPhase1 \cup {"await"}
    BY <1>1, <1>2, <1>4 DEF Phasing, InPhase1, InPhase2
  <1> QED
    BY <1>1, <1>2, <1>3, <1>4, <1>5 DEF Phasing

LEMMA PhasingStep ==
    ASSUME IInv, [Next]_vars
    PROVE  Phasing'
  <1>0. TypeOK /\ Protocol /\ Phasing
    BY DEF IInv
  <1>a. ASSUME NEW label, label \notin Preparing, Goto(Main, label), ~Active,
               solo' \/ label \notin Dispatched
        PROVE  Phasing'
    <2>1. /\ pc'[Main] = label
          /\ \A v \in Workers : pc'[v] = pc[v] /\ pc[v] \notin Working
      BY <1>0, <1>a, MainMoves, NobodyWorks
    <2>2. ~Active'
      BY <1>a, <2>1 DEF Active
    <2> QED
      BY <1>a, <2>1, <2>2, OutsideKeepsPhasing DEF Preparing
  <1>1. CASE Initialize
    <2>1. pc'[Main] = "idle" /\ \A w \in Workers : pc'[w] = "spin"
      BY <1>1, ThreadFacts DEF Initialize
    <2> QED
      BY <2>1, OutsideKeepsPhasing DEF Active, Dispatched, Working
  <1>2. CASE \E c \in Calls : Call(c)
    <2>1. PICK c \in Calls : Call(c)
      BY <1>2
    <2>2. ~Active
      BY <2>1 DEF Call, Active, Dispatched
    <2>3. \/ solo' /\ \E label \in {"item1", "between", "return"} : Goto(Main, label)
          \/ Goto(Main, "setup")
      BY <2>1 DEF Call
    <2>4. CASE solo' /\ \E label \in {"item1", "between", "return"} : Goto(Main, label)
      BY <1>a, <2>2, <2>4 DEF Preparing
    <2>5. CASE Goto(Main, "setup")
      <3>1. /\ pc'[Main] = "setup"
            /\ \A v \in Workers : pc'[v] = pc[v] /\ pc[v] \notin Working
        BY <1>0, <2>2, <2>5, MainMoves, NobodyWorks
      <3> QED
        BY <3>1, OutsideKeepsPhasing DEF Active, Dispatched
    <2> QED
      BY <2>3, <2>4, <2>5
  <1>3. CASE Setup
    BY <1>0, <1>3, SetupKeepsPhasing
  <1>4. CASE Publish
    BY <1>0, <1>4, PublishKeepsPhasing
  <1>5. CASE PassBarrier
    <2>1. /\ Active /\ pc[Main] = "barrier" /\ arrived >= NumWorkers
          /\ Goto(Main, "between")
          /\ UNCHANGED <<task, call, solo, taskId, myGen, arrived, ready>>
      BY <1>0, <1>5 DEF PassBarrier, Active, Protocol, Dispatched, fields, control
    <2>2. TwoPhase(call) /\ ~ready
      BY <1>0, <2>1 DEF Phasing
    <2> QED
      BY <1>0, <2>1, <2>2, MainKeepsPhasing DEF Dispatched
  <1>6. CASE Between
    <2>1. pc[Main] = "between"
          /\ UNCHANGED <<task, call, solo, taskId, myGen, arrived, ready>>
      BY <1>6 DEF Between, fields, control
    <2>2. CASE solo
      <3>1. ~Active /\ solo' /\ \E label \in {"item2", "return"} : Goto(Main, label)
        BY <1>6, <2>1, <2>2 DEF Between, Active
      <3> QED
        BY <1>a, <3>1 DEF Preparing
    <2>3. CASE ~solo
      <3>1. Active /\ Goto(Main, "release")
        BY <1>6, <2>1, <2>3 DEF Between, Active, Dispatched
      <3>2. TwoPhase(call) /\ ~ready /\ arrived >= NumWorkers
        BY <1>0, <2>1, <3>1 DEF Phasing
      <3> QED
        BY <1>0, <2>1, <3>1, <3>2, MainKeepsPhasing DEF Dispatched
    <2> QED
      BY <2>2, <2>3
  <1>7. CASE Release
    BY <1>0, <1>7, ReleaseKeepsPhasing
  <1>8. CASE SeeAllDone
    <2>1. /\ Active /\ Goto(Main, "clear")
          /\ UNCHANGED <<task, call, solo, taskId, myGen, arrived, ready>>
      BY <1>0, <1>8 DEF SeeAllDone, Active, Protocol, Dispatched, fields, control
    <2> QED
      BY <1>0, <2>1, MainKeepsPhasing DEF Dispatched
  <1>9. CASE Clear
    <2>1. /\ Cardinality(Owing) = 0 /\ Owing \in SUBSET Workers
      BY <1>0, <1>9 DEF Clear, Protocol, Active, Dispatched, Owing
    <2>2. Owing = {} /\ Goto(Main, "idle")
      BY <1>9, <2>1, SubsetCount DEF Clear
    <2>3. /\ pc'[Main] = "idle"
          /\ \A v \in Workers : pc'[v] = pc[v] /\ pc[v] \notin Working
      BY <1>0, <2>2, MainMoves DEF Owing
    <2> QED
      BY <2>3, OutsideKeepsPhasing DEF Active, Dispatched
  <1>10. CASE ReturnSerial
    <2>1. ~Active /\ Goto(Main, "idle")
      BY <1>10 DEF ReturnSerial, Active, Dispatched
    <2> QED
      BY <1>a, <2>1 DEF Preparing, Dispatched
  <1>11. CASE Destroy
    <2>1. ~Active
      BY <1>11 DEF Destroy, Active, Dispatched
    <2>2. /\ pc'[Main] = "joining"
          /\ \A v \in Workers : pc'[v] \in {pc[v], "lock"} /\ pc[v] \notin Working
      BY <1>0, <1>11, <2>1, NobodyWorks, ThreadFacts DEF Destroy, NotifyAll, TypeOK
    <2> QED
      BY <2>2, OutsideKeepsPhasing DEF Active, Dispatched, Working
  <1>12. CASE Joined
    <2>1. ~Active /\ Goto(Main, "gone")
      BY <1>12 DEF Joined, Active, Dispatched
    <2> QED
      BY <1>a, <2>1 DEF Preparing, Dispatched
  <1>13. CASE Fetch(Main) \/ Item(Main)
    <2>1. UNCHANGED <<task, call, solo, taskId, myGen, arrived, ready>>
      BY <1>13 DEF Fetch, Item, control, fields
    <2>2. CASE solo
      <3>1. Item(Main) /\ ~Active /\ solo'
        BY <1>0, <1>13, <2>1, <2>2
        DEF Active, Protocol, Fetch, Item, AtFetch, AtItem, Dispatched
      <3>2. \E label \in {"item1", "item2", "between", "return"} : Goto(Main, label)
        BY <1>0, <2>2, <3>1, FetchLabel, ThreadFacts
      <3> QED
        BY <1>a, <3>1, <3>2 DEF Preparing
    <2>3. CASE ~solo
      <3>1. Active
        BY <1>13, <2>3 DEF Active, Fetch, Item, AtFetch, AtItem, Dispatched
      <3>2. CASE pc[Main] \in {"fetch1", "item1"}
        <4>1. \E label \in {"item1", "fetch1"}
                    \cup IF TwoPhase(call) THEN {"barrier"} ELSE {"join"} :
                 Goto(Main, label)
          BY <1>0, <1>13, <3>1, <3>2, PhaseLabel, ThreadFacts
        <4>2. TwoPhase(call) => ~ready
          BY <1>0, <3>1, <3>2 DEF Phasing
        <4> QED
          BY <1>0, <2>1, <3>1, <4>1, <4>2, MainKeepsPhasing DEF Dispatched
      <3>3. CASE pc[Main] \notin {"fetch1", "item1"}
        <4>1. \E label \in {"item2", "fetch2", "join"} : Goto(Main, label)
          BY <1>0, <1>13, <3>1, <3>3, PhaseLabel, ThreadFacts
        <4> QED
          BY <1>0, <2>1, <3>1, <4>1, MainKeepsPhasing DEF Dispatched
      <3> QED
        BY <3>2, <3>3
    <2> QED
      BY <2>2, <2>3
  <1>14. CASE SpinOut(Main) \/ Lock(Main) \/ Sleep(Main) \/ SpuriousWakeup(Main)
    <2>1. /\ Active
          /\ \E label \in {"lock", "locked", "asleep", "clear"} : Goto(Main, label)
          /\ UNCHANGED <<task, call, solo, taskId, myGen, arrived, ready>>
      BY <1>0, <1>14
      DEF SpinOut, Lock, Sleep, SpuriousWakeup, Proceeds, Active, Protocol, Dispatched,
          fields, control
    <2> QED
      BY <1>0, <2>1, MainKeepsPhasing DEF Dispatched
  <1>15. ASSUME NEW w \in Workers, Fetch(w) \/ Item(w) PROVE Phasing'
    <2>1. pc[w] \in Working /\ pc[w] \in {"fetch1", "item1"} \cup InPhase2
          /\ UNCHANGED <<task, call, solo, taskId, myGen, arrived, ready>>
      BY <1>15 DEF Fetch, Item, AtFetch, AtItem, Working, control, fields, InPhase2
    <2>2. Active /\ myGen[w] = taskId
      BY <1>0, <2>1, WorkingIsActive
    <2>3. CASE pc[w] \in {"fetch1", "item1"}
      <3>1. \E label \in {"item1", "fetch1"}
                  \cup IF TwoPhaseTask THEN {"arrive"} ELSE {"finish"} : Goto(w, label)
        BY <1>0, <1>15, <2>2, <2>3, PhaseLabel, ThreadFacts
      <3> QED
        BY <1>0, <2>1, <2>3, <3>1, WorkerKeepsPhasing DEF InPhase1, InPhase2
    <2>4. CASE pc[w] \notin {"fetch1", "item1"}
      <3>1. \E label \in {"item2", "fetch2", "finish"} : Goto(w, label)
        BY <1>0, <1>15, <2>2, <2>4, PhaseLabel, ThreadFacts
      <3>2. TwoPhaseTask /\ ready
        BY <1>0, <2>1, <2>2, <2>4 DEF Phasing, InPhase1, InPhase2
      <3> QED
        BY <1>0, <2>1, <2>4, <3>1, <3>2, WorkerKeepsPhasing DEF InPhase1, InPhase2
    <2> QED
      BY <2>3, <2>4
  <1>16. ASSUME NEW w \in Workers,
                SpinOut(w) \/ Lock(w) \/ Sleep(w) \/ SpuriousWakeup(w) \/ SeeWork(w)
         PROVE  Phasing'
    <2>1. /\ pc[w] \in {"spin", "lock", "locked", "asleep"}
          /\ \E label \in {"lock", "locked", "asleep", "check"} : Goto(w, label)
          /\ UNCHANGED <<task, call, solo, taskId, myGen, arrived, ready>>
      BY <1>16, ThreadFacts
      DEF SpinOut, Lock, Sleep, SpuriousWakeup, SeeWork, Proceeds, fields, control
    <2>2. Active /\ TwoPhaseTask /\ myGen[w] = taskId => ready
      BY <1>0, <2>1 DEF Phasing, InPhase1
    <2> QED
      BY <1>0, <2>1, <2>2, WorkerKeepsPhasing DEF InPhase1, InPhase2
  <1>17. ASSUME NEW w \in Workers, Check(w) PROVE Phasing'
    BY <1>0, <1>17, CheckKeepsPhasing
  <1>18. ASSUME NEW w \in Workers, Arrive(w) PROVE Phasing'
    BY <1>0, <1>18, ArriveKeepsPhasing
  <1>19. ASSUME NEW w \in Workers, SeeReady(w) PROVE Phasing'
    <2>1. /\ pc[w] = "await" /\ ready /\ Goto(w, "fetch2")
          /\ UNCHANGED <<task, call, solo, taskId, myGen, arrived, ready>>
      BY <1>19 DEF SeeReady, fields, control
    <2>2. TwoPhaseTask
      BY <1>0, <2>1 DEF Phasing
    <2> QED
      BY <1>0, <2>1, <2>2, WorkerKeepsPhasing DEF InPhase1
  <1>20. ASSUME NEW w \in Workers, Finish(w) PROVE Phasing'
    <2>1. /\ pc[w] = "finish" /\ \E label \in {"notify", "spin"} : Goto(w, label)
          /\ UNCHANGED <<task, call, solo, taskId, myGen, arrived, ready>>
      BY <1>20 DEF Finish, fields, control
    <2>2. Active /\ TwoPhaseTask /\ myGen[w] = taskId => ready
      BY <1>0, <2>1 DEF Phasing, InPhase1
    <2> QED
      BY <1>0, <2>1, <2>2, WorkerKeepsPhasing DEF InPhase1, InPhase2
  <1>21. ASSUME NEW w \in Workers, Notify(w) PROVE Phasing'
    BY <1>0, <1>21, NotifyKeepsPhasing
  <1>22. CASE UNCHANGED vars
    <2>1. UNCHANGED <<pc, task, call, solo, taskId, myGen, arrived, ready>>
      BY <1>22 DEF vars, fields, control
    <2>2. Active' = Active /\ TwoPhaseTask' = TwoPhaseTask /\ Arrivals' = Arrivals
      BY <2>1 DEF Active, TwoPhaseTask, Arrivals
    <2> QED
      BY <1>0, <2>1, <2>2 DEF Phasing
  <1> QED
    BY <1>1, <1>2, <1>3, <1>4, <1>5, <1>6, <1>7, <1>8, <1>9, <1>10, <1>11, <1>12,
       <1>13, <1>14, <1>15, <1>16, <1>17, <1>18, <1>19, <1>20, <1>21, <1>22, ThreadFacts
    DEF Next, MainStep, WorkerStep, Terminated

-----------------------------------------------------------------------------
(* The theorems.                                                           *)

LEMMA InitIInv == Init => IInv
  <1> SUFFICES ASSUME Init PROVE IInv
    OBVIOUS
  <1>1. pc[Main] = "idle" /\ \A w \in Workers : pc[w] = "unborn"
    BY ThreadFacts DEF Init
  <1>2. TypeOK
    <2>1. /\ 0 \in Indices /\ 1 \in Indices /\ 0 \in 0 .. NumWorkers /\ 0 \in 0 .. MaxTasks
      BY IndexAssumption, TasksAssumption, ThreadFacts DEF Indices
    <2>2. NoCall \in CallType /\ NoTask \in TaskType /\ Span(0, 0) \in Ranges
      BY <2>1 DEF NoCall, CallType, Kinds, NoTask, TaskType, Span, Ranges
    <2>3. NothingDone \in [Phases -> [Indices -> Nat]]
      BY DEF NothingDone
    <2>4. pc \in [Threads -> MainPCs \cup WorkerPCs]
          /\ pc[Main] \in MainPCs /\ \A w \in Workers : pc[w] \in WorkerPCs
      BY <1>1 DEF Init, MainPCs, WorkerPCs
    <2> QED
      BY <2>1, <2>2, <2>3, <2>4 DEF Init, TypeOK
  <1>3. ~Active /\ ~Prepared /\ Owing = {}
    BY <1>1 DEF Init, Active, Prepared, Dispatched, Preparing, Owing, Working
  <1>4. Protocol
    BY <1>1, <1>3 DEF Init, Protocol, NoLostWakeup, Preparing, Dispatched, Working
  <1>5. Phasing
    BY <1>1, <1>3 DEF Phasing, InPhase2
  <1> QED
    BY <1>2, <1>4, <1>5 DEF IInv

\* The inductive invariant of the pool: in every reachable state the shared
\* counters agree with where the threads are.
THEOREM Inductive == Spec => []IInv
  <1>1. IInv /\ [Next]_vars => IInv'
    BY TypeStep, ProtocolStep, PhasingStep DEF IInv
  <1> QED
    BY InitIInv, <1>1, PTL DEF Spec

\* Every field keeps its type for any number of threads and any calls; the
\* unsigned counters pendingWorkers_ and phase1Arrived_ stay within
\* 0 .. numWorkers_, so no fetch_sub wraps.
THEOREM TypeCorrect == Spec => []TypeOK
  <1>1. IInv => TypeOK
    BY DEF IInv
  <1> QED
    BY Inductive, <1>1, PTL

\* pendingWorkers_ counts the workers that have not acknowledged the task, and
\* nobody owes anything outside a dispatch.
THEOREM CompletionCounted == Spec => []CompletionCount
  <1>1. IInv => CompletionCount
    <2> SUFFICES ASSUME IInv PROVE CompletionCount
      OBVIOUS
    <2>1. pc[Main] \in Dispatched /\ ~solo => pending = Cardinality(Owing)
      BY DEF IInv, Protocol, Active
    <2>2. pc[Main] \in Preparing \/ solo => Owing = {}
      <3>1. pc[Main] \in Preparing \/ solo => ~Active
        BY DEF Active, Preparing, Dispatched
      <3> QED
        BY <3>1 DEF IInv, Protocol
    <2>3. pc[Main] = "clear" => Owing = {}
      <3>1. Owing \in SUBSET Workers
        BY DEF Owing
      <3>2. pc[Main] = "clear" => Cardinality(Owing) = 0
        BY DEF IInv, Protocol, Active, Dispatched
      <3> QED
        BY <3>1, <3>2, SubsetCount
    <2> QED
      BY <2>1, <2>2, <2>3 DEF CompletionCount
  <1> QED
    BY Inductive, <1>1, PTL

\* No wakeup is lost, for any number of workers: a sleeper has either nothing
\* to do or a notification still to come.
THEOREM WakeupsKept == Spec => []NoLostWakeup
  <1>1. IInv => NoLostWakeup
    BY DEF IInv, Protocol
  <1> QED
    BY Inductive, <1>1, PTL

\* The re-entrancy guard is up whenever an item or the callback of a dispatch
\* can run, so a nested call never publishes.
THEOREM NestedSafe == Spec => []NestedCallsRunInline
  <1>1. IInv => NestedCallsRunInline
    <2> SUFFICES ASSUME IInv PROVE NestedCallsRunInline
      OBVIOUS
    <2>1. Protocol
      BY DEF IInv
    <2>2. ASSUME NEW w \in Workers, pc[w] \in Working PROVE depth = 1
      BY <2>1, <2>2, WorkingIsActive DEF Protocol, Prepared
    <2>3. pc[Main] \in Preparing \cup Dispatched /\ ~solo => depth = 1
      BY <2>1 DEF Protocol, Prepared, Active
    <2> QED
      BY <2>2, <2>3 DEF NestedCallsRunInline
  <1> QED
    BY Inductive, <1>1, PTL

\* The callback of a dispatch runs with every worker parked between the phases.
LEMMA ParkedAtBetween ==
    ASSUME IInv, pc[Main] \in {"between", "release"}, ~solo
    PROVE  \A w \in Workers : pc[w] = "await"
  <1>1. TypeOK /\ Protocol /\ Phasing /\ Active
    BY DEF IInv, Active, Dispatched
  <1>2. TwoPhase(call) /\ ~ready /\ arrived >= NumWorkers /\ NumThreads > 1
    BY <1>1 DEF Phasing, Protocol, Prepared
  <1>3. NumWorkers > 0
    BY <1>2, ThreadsAssumption DEF NumWorkers
  <1>4. TwoPhaseTask
    BY <1>1, <1>2, <1>3, ThreadFacts DEF Phasing
  <1>5. arrived = Cardinality(Arrivals) /\ Arrivals \in SUBSET Workers
    BY <1>1, <1>4 DEF Phasing, Arrivals
  <1>6. Arrivals = Workers
    BY <1>2, <1>5, SubsetCount, ThreadFacts
  <1>7. \A w \in Workers : myGen[w] = taskId /\ pc[w] \notin InPhase1
    BY <1>6 DEF Arrivals
  <1> QED
    BY <1>1, <1>2, <1>4, <1>7 DEF Phasing

\* The plain task fields are free of data races: they are written only while
\* no worker is at a point that reads them.
THEOREM TaskDataRaceFree == Spec => NoTaskDataRace
  <1> DEFINE Quiet == \A w \in Workers : pc[w] \notin Working
             Parked == \A w \in Workers : pc[w] \notin Working \ {"await"}
             Step == /\ (task' # task \/ slab1' # slab1) => Quiet
                     /\ (slab' # slab \/ endIndex' # endIndex) => Parked
  <1>1. IInv /\ [Next]_vars => [Step]_vars
    <2> SUFFICES ASSUME IInv, Next PROVE Step
      BY DEF vars, fields
    <2>0. TypeOK /\ Protocol /\ Phasing
      BY DEF IInv
    <2>1. Quiet => Parked
      OBVIOUS
    <2>2. CASE Setup
      <3>1. ~Active
        BY <2>2 DEF Setup, Active, Dispatched
      <3>2. Quiet
        BY <2>0, <3>1, NobodyWorks
      <3> QED
        BY <2>1, <3>2
    <2>3. CASE Clear
      <3>1. Cardinality(Owing) = 0 /\ Owing \in SUBSET Workers
        BY <2>0, <2>3 DEF Clear, Protocol, Active, Dispatched, Owing
      <3>2. Quiet
        BY <3>1, SubsetCount DEF Owing
      <3> QED
        BY <2>1, <3>2
    <2>4. CASE Between
      <3>1. task' = task /\ slab1' = slab1
        BY <2>4 DEF Between, fields
      <3>2. CASE solo
        BY <2>4, <3>1, <3>2 DEF Between, fields
      <3>3. CASE ~solo
        <4>1. Parked
          BY <2>4, <3>3, ParkedAtBetween DEF Between
        <4> QED
          BY <3>1, <4>1
      <3> QED
        BY <3>2, <3>3
    <2>5. ASSUME UNCHANGED <<task, slab1, slab, endIndex>> PROVE Step
      BY <2>5
    <2>6. CASE Initialize \/ (\E c \in Calls : Call(c)) \/ Publish \/ PassBarrier
               \/ Release \/ SeeAllDone \/ ReturnSerial \/ Destroy \/ Joined
      BY <2>5, <2>6
      DEF Initialize, Call, Publish, PassBarrier, Release, SeeAllDone, ReturnSerial,
          Destroy, Joined, fields
    <2>7. ASSUME NEW t \in Threads,
                 \/ Fetch(t) \/ Item(t) \/ SpinOut(t) \/ Lock(t) \/ Sleep(t)
                 \/ SpuriousWakeup(t)
          PROVE  Step
      BY <2>5, <2>7 DEF Fetch, Item, SpinOut, Lock, Sleep, SpuriousWakeup, fields
    <2>8. ASSUME NEW w \in Workers,
                 \/ SeeWork(w) \/ Check(w) \/ Arrive(w) \/ SeeReady(w) \/ Finish(w)
                 \/ Notify(w)
          PROVE  Step
      BY <2>5, <2>8 DEF SeeWork, Check, Arrive, SeeReady, Finish, Notify, fields
    <2>9. CASE Terminated
      BY <2>5, <2>9 DEF Terminated, vars, fields
    <2> HIDE DEF Step
    <2> QED
      BY <2>2, <2>3, <2>4, <2>6, <2>7, <2>8, <2>9, ThreadFacts
      DEF Next, MainStep, WorkerStep
  <1> QED
    BY Inductive, <1>1, PTL DEF Spec, NoTaskDataRace

-----------------------------------------------------------------------------
(* Every item once and in its phase, and the refinement.                   *)

\* The main thread is in a call; in one that the pool dispatches, the call has
\* work for every phase it announces (see Hangs).
InCall == pc[Main] \notin {"idle", "joining", "gone"}
Hangs == ~solo /\ TwoPhase(call) /\ ~HasPhase2(call)
Served == InCall /\ ~Hangs

From(p) == IF p = 1 THEN call.s1 ELSE call.s2
To(p) == IF p = 1 THEN call.e1 ELSE call.e2
Chunk(p) == IF call.kind = "index" THEN 1
            ELSE IF p = 1 THEN NonZero(call.c1) ELSE NonZero(call.c2)

\* The main thread has yet to leave phase 1, or phase 2.
MainFirst == {"setup", "publish", "fetch1", "item1"}
BeforeRelease == MainFirst \cup {"barrier", "between"}
MainAhead(p) == IF p = 1 THEN MainFirst
                ELSE BeforeRelease \cup {"release", "fetch2", "item2"}
WorkerAhead(p) == IF p = 1 THEN {"fetch1", "item1"}
                  ELSE {"fetch1", "item1", "arrive", "await", "fetch2", "item2"}

\* Thread t has not yet finished phase p of the current call.
Ahead(t, p) == IF t = Main THEN pc[Main] \in MainAhead(p)
               ELSE \/ pc[Main] \in Preparing
                    \/ myGen[t] # taskId
                    \/ pc[t] \in WorkerAhead(p)

\* Item i is t's from the start: by the slabs, or because t serves the call alone.
Mine(t, p, i) ==
    IF solo THEN t = Main
    ELSE /\ SlabKind(call)
         /\ SlabFrom(Span(From(p), To(p)), t) <= i
         /\ i < SlabFrom(Span(From(p), To(p)), t + 1)

\* Item i of phase p waits with thread t, or in the shared counter.
Holds(t, p, i) ==
    IF pc[t] = ItemPC(p) THEN claim[t].at <= i /\ i < claim[t].to
    ELSE Ahead(t, p) /\ Mine(t, p, i)
Future(p) == pc[Main] \in (IF p = 1 THEN {"setup"} ELSE BeforeRelease)
Pooled(p, i) ==
    /\ ~solo /\ ~SlabKind(call)
    /\ Future(p) \/ (nextIndex <= i /\ \E t \in Threads : Ahead(t, p))

\* The counter serves phase p.
Now(p) == IF p = 1 THEN pc[Main] # "setup" /\ (TwoPhase(call) => pc[Main] \in BeforeRelease)
          ELSE TwoPhase(call) /\ pc[Main] \notin BeforeRelease
Through(p) == {t \in Threads : ~Ahead(t, p)}

\* An item has run once when it is in no place any more, and never before.
ExactlyOnce(p) ==
    \A i \in Indices :
        done[p][i] = IF /\ i \in InRange(call, p) /\ ~Pooled(p, i)
                        /\ \A t \in Threads : ~Holds(t, p, i)
                     THEN 1 ELSE 0
\* No two threads have the same item, nor a thread and the counter.
OneHolder(p) ==
    \A i \in InRange(call, p), t \in Threads :
        Holds(t, p, i) => ~Pooled(p, i) /\ \A u \in Threads \ {t} : ~Holds(u, p, i)
ClaimsInRange(p) ==
    \A t \in Threads : pc[t] = ItemPC(p) =>
        /\ p = 2 => TwoPhase(call)
        /\ From(p) <= claim[t].at /\ claim[t].at < claim[t].to /\ claim[t].to <= To(p)
\* Until the last thread is through, the counter has passed the range by less
\* than a chunk for each thread that has seen the end, and one.
CounterBounded(p) ==
    ~solo /\ ~SlabKind(call) /\ Now(p) /\ Through(p) # Threads =>
        /\ From(p) <= nextIndex
        /\ nextIndex <= To(p) - 1 + Chunk(p) * (1 + Cardinality(Through(p)))
        /\ Through(p) # {} => To(p) <= nextIndex

\* The plain fields describe the call to the workers that read them.
Described ==
    ~solo /\ pc[Main] # "setup" =>
        /\ task.steal = StealKind(call)
        /\ StealKind(call) => task.chunk = NonZero(call.c1)
        /\ call.kind = "steal2" => task.chunk2 = NonZero(call.c2)
        /\ TwoPhase(call) => task.end2 = call.e2
        /\ call.kind = "slab2" => slab1 = Span(call.s1, call.e1)
        /\ call.kind = "slab" => slab = Span(call.s1, call.e1)
        /\ call.kind = "slab2" /\ pc[Main] \notin BeforeRelease =>
              slab = Span(call.s2, call.e2)
        /\ ~SlabKind(call) /\ Now(1) => endIndex = call.e1

\* The phases of a two-phase dispatch.
Barred ==
    /\ call \in Calls
    /\ Hangs => pc[Main] \in MainFirst \cup {"barrier"}
    /\ ~solo /\ TwoPhase(call) /\ pc[Main] \notin MainFirst \cup {"barrier"} =>
          \A w \in Workers : ~Ahead(w, 1)
    /\ pc[Main] \in {"barrier", "between", "release", "fetch2", "item2"} => TwoPhase(call)
    /\ pc[Main] \in BeforeRelease => Untouched(2)

\* Where the items of phase p are; and, in a call, of both phases.
PhaseWork(p) == ExactlyOnce(p) /\ OneHolder(p) /\ ClaimsInRange(p) /\ CounterBounded(p)
Work == /\ InCall => Barred
        /\ Served => Described /\ PhaseWork(1) /\ PhaseWork(2)

\* After the last chunk each thread adds one more to the counter before it sees
\* the end.  The ranges leave room for these overshoots below 2^32: with less,
\* the counter can come round to 0, and a thread run items a second time.
NoWrap ==
    \A c \in Calls :
        /\ ~SlabKind(c) =>
             c.e1 + NumThreads * (IF c.kind = "index" THEN 1 ELSE NonZero(c.c1))
                <= IndexModulus
        /\ c.kind = "steal2" => c.e2 + NumThreads * NonZero(c.c2) <= IndexModulus

-----------------------------------------------------------------------------
(* Slabs.                                                                  *)

LEMMA CallFacts ==
    ASSUME TypeOK
    PROVE  /\ call \in CallType /\ Indices \subseteq Nat
           /\ From(1) \in Indices /\ To(1) \in Indices
           /\ From(2) \in Indices /\ To(2) \in Indices
           /\ From(1) \in Nat /\ To(1) \in Nat /\ From(2) \in Nat /\ To(2) \in Nat
           /\ Chunk(1) \in Nat \ {0} /\ Chunk(2) \in Nat \ {0}
           /\ InRange(call, 1) \subseteq Indices /\ InRange(call, 2) \subseteq Indices
  <1>1. call \in CallType /\ Indices \subseteq Nat
    BY IndexAssumption DEF TypeOK, Indices
  <1>2. /\ call.s1 \in Indices /\ call.e1 \in Indices /\ call.c1 \in Indices
        /\ call.s2 \in Indices /\ call.e2 \in Indices /\ call.c2 \in Indices
    BY <1>1 DEF CallType
  <1>3. InRange(call, 1) \subseteq Indices /\ InRange(call, 2) \subseteq Indices
    BY <1>1, <1>2, IndexAssumption DEF InRange, Indices
  <1>4. /\ From(1) \in Indices /\ To(1) \in Indices
        /\ From(2) \in Indices /\ To(2) \in Indices
    BY <1>2 DEF From, To
  <1>5. \A n \in Nat : NonZero(n) \in Nat \ {0}
    BY DEF NonZero
  <1>6. Chunk(1) \in Nat \ {0} /\ Chunk(2) \in Nat \ {0}
    <2>1. NonZero(call.c1) \in Nat \ {0} /\ NonZero(call.c2) \in Nat \ {0}
      BY <1>1, <1>2, <1>5
    <2> QED
      BY <2>1 DEF Chunk
  <1> QED
    BY <1>1, <1>3, <1>4, <1>6

\* A product grows with its first factor.
LEMMA TimesMonotone ==
    ASSUME NEW a \in Nat, NEW b \in Nat, NEW q \in Nat, a <= b
    PROVE  a * q <= b * q
  <1>1. (b - a) * q >= 0 /\ (b - a) \in Nat
    OBVIOUS
  <1>2. (b - a) * q = b * q - a * q
    OBVIOUS
  <1>3. a * q \in Int /\ b * q \in Int
    OBVIOUS
  <1> QED
    BY <1>1, <1>2, <1>3

\* The slabs of a range start at its start, end at its end and do not go back.
LEMMA SlabEnds ==
    ASSUME NEW s \in Nat, NEW e \in Nat, s <= e
    PROVE  /\ SlabFrom(Span(s, e), 0) = s
           /\ SlabFrom(Span(s, e), NumThreads) = e
           /\ \A n \in Nat : SlabFrom(Span(s, e), n) \in Nat
           /\ \A n, m \in Nat :
                n <= m => SlabFrom(Span(s, e), n) <= SlabFrom(Span(s, e), m)
  <1> DEFINE total == e - s
             q == total \div NumThreads
             r == total % NumThreads
  <1>1. total \in Nat /\ NumThreads \in Nat \ {0}
    BY ThreadsAssumption
  <1>2. q \in Nat /\ r \in Nat /\ r < NumThreads /\ total = NumThreads * q + r
    BY <1>1
  <1>3. \A n : SlabFrom(Span(s, e), n) = s + n * q + Least(n, r)
    BY DEF SlabFrom, Span
  <1> HIDE DEF q, r
  <1>4. SlabFrom(Span(s, e), 0) = s
    <2>1. 0 * q = 0
      BY <1>2
    <2> QED
      BY <1>2, <1>3, <2>1 DEF Least
  <1>5. SlabFrom(Span(s, e), NumThreads) = e
    <2>1. NumThreads * q \in Nat
      BY <1>1, <1>2
    <2>2. Least(NumThreads, r) = r
      BY <1>1, <1>2 DEF Least
    <2> QED
      BY <1>1, <1>2, <1>3, <2>1, <2>2
  <1>6. ASSUME NEW n \in Nat
        PROVE  SlabFrom(Span(s, e), n) \in Nat
    <2>1. n * q \in Nat
      BY <1>2
    <2> QED
      BY <1>2, <1>3, <2>1 DEF Least
  <1>7. ASSUME NEW n \in Nat, NEW m \in Nat, n <= m
        PROVE  SlabFrom(Span(s, e), n) <= SlabFrom(Span(s, e), m)
    <2>1. n * q <= m * q /\ n * q \in Nat /\ m * q \in Nat
      BY <1>2, <1>7, TimesMonotone
    <2>2. Least(n, r) <= Least(m, r) /\ Least(n, r) \in Nat /\ Least(m, r) \in Nat
      BY <1>2, <1>7 DEF Least
    <2> QED
      BY <1>3, <2>1, <2>2
  <1> QED
    BY <1>4, <1>5, <1>6, <1>7

\* Each index of the range is in the slab of exactly one thread.
LEMMA SlabPartition ==
    ASSUME NEW s \in Nat, NEW e \in Nat, s <= e, NEW i \in s .. e - 1
    PROVE  /\ \E t \in Threads : /\ SlabFrom(Span(s, e), t) <= i
                                 /\ i < SlabFrom(Span(s, e), t + 1)
           /\ \A t, u \in Threads :
                /\ SlabFrom(Span(s, e), t) <= i /\ i < SlabFrom(Span(s, e), t + 1)
                /\ SlabFrom(Span(s, e), u) <= i /\ i < SlabFrom(Span(s, e), u + 1)
                => t = u
  <1> DEFINE at(n) == SlabFrom(Span(s, e), n)
             Past == {n \in Nat : at(n) > i}
  <1>1. /\ at(0) = s /\ at(NumThreads) = e
        /\ \A n \in Nat : at(n) \in Nat
        /\ \A n, m \in Nat : n <= m => at(n) <= at(m)
    BY SlabEnds
  <1> HIDE DEF at
  <1>2. NumThreads \in Past
    BY <1>1, ThreadsAssumption
  <1>3. PICK n \in Past : \A m \in Past : ~ (<<m, n>> \in OpToRel(<, Nat))
    <2> HIDE DEF Past
    <2>1. Past # {}
      BY <1>2
    <2>2. Past \subseteq Nat
      BY DEF Past
    <2> QED
      BY <2>1, <2>2, NatLessThanWellFounded, WFMin
  <1>4. n \in Nat /\ \A m \in Past : ~(m < n)
    BY <1>3 DEF OpToRel
  <1>5. n # 0 /\ n <= NumThreads
    BY <1>1, <1>2, <1>4, ThreadsAssumption
  <1>6. n - 1 \in Threads /\ n - 1 \in Nat /\ n - 1 \notin Past /\ n - 1 + 1 = n
    BY <1>4, <1>5, ThreadsAssumption DEF Threads, NumWorkers
  <1>7. at(n - 1) <= i /\ i < at(n - 1 + 1)
    BY <1>1, <1>4, <1>6
  <1>8. ASSUME NEW t \in Threads, NEW u \in Threads,
               at(t) <= i, i < at(t + 1), at(u) <= i, i < at(u + 1)
        PROVE  t = u
    <2>1. t \in Nat /\ u \in Nat /\ t + 1 \in Nat /\ u + 1 \in Nat
      BY ThreadFacts DEF Threads
    <2>2. /\ t < u => at(t + 1) <= at(u)
          /\ u < t => at(u + 1) <= at(t)
      BY <1>1, <2>1
    <2>3. at(t) \in Nat /\ at(u) \in Nat /\ at(t + 1) \in Nat /\ at(u + 1) \in Nat
      BY <1>1, <2>1
    <2> QED
      BY <1>8, <2>1, <2>2, <2>3
  <1> QED
    BY <1>6, <1>7, <1>8 DEF at

-----------------------------------------------------------------------------
(* Steps that move no item.                                                *)

\* The items of phase p stay where they are.
LEMMA PhaseStill ==
    ASSUME NEW p \in Phases, PhaseWork(p), call' = call, done'[p] = done[p],
           \A t \in Threads : \A i \in InRange(call, p) : Holds(t, p, i)' <=> Holds(t, p, i),
           \A i \in InRange(call, p) : Pooled(p, i)' <=> Pooled(p, i),
           ClaimsInRange(p)', CounterBounded(p)'
    PROVE  PhaseWork(p)'
  <1>1. InRange(call, p)' = InRange(call, p)
    BY DEF InRange
  <1>2. ExactlyOnce(p)'
    BY <1>1 DEF PhaseWork, ExactlyOnce
  <1>3. OneHolder(p)'
    BY <1>1 DEF PhaseWork, OneHolder
  <1> QED
    BY <1>2, <1>3 DEF PhaseWork

\* The main thread's position with respect to the phases.
SamePlace == /\ pc'[Main] \in BeforeRelease <=> pc[Main] \in BeforeRelease
             /\ pc'[Main] = "setup" <=> pc[Main] = "setup"

LEMMA PlaceFacts ==
    ASSUME SamePlace, call' = call, NEW p \in Phases
    PROVE  Future(p)' = Future(p) /\ Now(p)' = Now(p)
  BY DEF SamePlace, Future, Now, Phases

LEMMA ControlKeepsPhase ==
    ASSUME NEW p \in Phases, PhaseWork(p), SamePlace,
           UNCHANGED <<done, call, solo, claim, nextIndex>>,
           \A t \in Threads : Ahead(t, p)' <=> Ahead(t, p),
           \A t \in Threads : pc'[t] = ItemPC(p) <=> pc[t] = ItemPC(p)
    PROVE  PhaseWork(p)'
  <1>1. Future(p)' = Future(p) /\ Now(p)' = Now(p)
    BY PlaceFacts
  <1>2. \A t \in Threads : \A i \in InRange(call, p) : Mine(t, p, i)' = Mine(t, p, i)
    BY DEF Mine, From, To
  <1>3. \A t \in Threads : \A i \in InRange(call, p) : Holds(t, p, i)' <=> Holds(t, p, i)
    BY <1>2 DEF Holds
  <1>4. (\E t \in Threads : Ahead(t, p))' <=> (\E t \in Threads : Ahead(t, p))
    OBVIOUS
  <1>5. \A i \in InRange(call, p) : Pooled(p, i)' <=> Pooled(p, i)
    BY <1>1, <1>4 DEF Pooled
  <1>6. ClaimsInRange(p)'
    BY DEF PhaseWork, ClaimsInRange, From, To
  <1>7. Through(p)' = Through(p)
    BY DEF Through
  <1>8. CounterBounded(p)'
    BY <1>1, <1>7 DEF PhaseWork, CounterBounded, From, To, Chunk
  <1> QED
    BY <1>3, <1>5, <1>6, <1>8, PhaseStill

LEMMA ControlKeepsDescribed ==
    ASSUME Described, SamePlace, UNCHANGED <<call, solo, fields>>
    PROVE  Described'
  <1>1. Now(1)' = Now(1)
    BY PlaceFacts DEF Phases
  <1> QED
    BY <1>1 DEF Described, SamePlace, fields

LEMMA ControlKeepsWork ==
    ASSUME Work, InCall, SamePlace, Barred',
           UNCHANGED <<done, call, solo, claim, fields>>,
           \A t \in Threads, p \in Phases : Ahead(t, p)' <=> Ahead(t, p),
           \A t \in Threads, p \in Phases : pc'[t] = ItemPC(p) <=> pc[t] = ItemPC(p)
    PROVE  Work'
  <1>1. CASE ~Served'
    BY <1>1 DEF Work
  <1>2. CASE Served'
    <2>1. Served
      BY <1>2 DEF Served, Hangs
    <2>2. Described /\ PhaseWork(1) /\ PhaseWork(2)
      BY <2>1 DEF Work
    <2>3. nextIndex' = nextIndex /\ 1 \in Phases /\ 2 \in Phases
      BY DEF fields, Phases
    <2>4. Described'
      BY <2>2, ControlKeepsDescribed
    <2>5. PhaseWork(1)'
      BY <2>2, <2>3, ControlKeepsPhase
    <2>6. PhaseWork(2)'
      BY <2>2, <2>3, ControlKeepsPhase
    <2> QED
      BY <2>4, <2>5, <2>6 DEF Work
  <1> QED
    BY <1>1, <1>2

\* While the main thread stays where it is, so do the phases.
LEMMA MainStays ==
    ASSUME Barred, pc'[Main] = pc[Main], UNCHANGED <<done, call, solo>>,
           \A w \in Workers : Ahead(w, 1)' => Ahead(w, 1)
    PROVE  Barred' /\ SamePlace /\ InCall' = InCall
  <1>1. Barred'
    BY DEF Barred, Hangs, Untouched
  <1> QED
    BY <1>1 DEF SamePlace, InCall

\* A worker moves between places where it is as far from its items as before.
LEMMA WorkerControlKeepsWork ==
    ASSUME TypeOK, Work, NEW w \in Workers, NEW label, Goto(w, label),
           UNCHANGED <<done, call, solo, claim, fields, taskId>>,
           \A v \in Workers \ {w} : myGen'[v] = myGen[v],
           \A p \in Phases : Ahead(w, p)' <=> Ahead(w, p),
           pc[w] \notin AtItem, label \notin AtItem
    PROVE  Work'
  <1>1. /\ pc'[w] = label /\ pc'[Main] = pc[Main]
        /\ \A v \in Workers \ {w} : pc'[v] = pc[v]
    BY WorkerMoves
  <1>2. CASE ~InCall
    BY <1>1, <1>2 DEF Work, InCall, Served
  <1>3. CASE InCall
    <2>1. \A t \in Threads, p \in Phases : Ahead(t, p)' <=> Ahead(t, p)
      BY <1>1, ThreadFacts DEF Ahead
    <2>2. \A t \in Threads, p \in Phases : pc'[t] = ItemPC(p) <=> pc[t] = ItemPC(p)
      BY <1>1, ThreadFacts DEF AtItem, ItemPC
    <2>3. Barred' /\ SamePlace
      BY <1>1, <1>3, <2>1, MainStays, ThreadFacts DEF Work, Phases
    <2> QED
      BY <1>3, <2>1, <2>2, <2>3, ControlKeepsWork
  <1> QED
    BY <1>2, <1>3

\* The main thread moves inside a call where its items do not.
LEMMA MainControlKeepsWork ==
    ASSUME TypeOK, Work, InCall, NEW label, Goto(Main, label), SamePlace,
           UNCHANGED <<done, call, solo, claim, fields, taskId, myGen>>,
           pc[Main] \in Preparing <=> label \in Preparing,
           \A p \in Phases : pc[Main] \in MainAhead(p) <=> label \in MainAhead(p),
           pc[Main] \notin AtItem, label \notin AtItem,
           Barred'
    PROVE  Work'
  <1>1. pc'[Main] = label /\ \A v \in Workers : pc'[v] = pc[v]
    BY MainMoves
  <1>2. ASSUME NEW t \in Threads, NEW p \in Phases
        PROVE  Ahead(t, p)' <=> Ahead(t, p)
    <2>1. MainAhead(p)' = MainAhead(p) /\ WorkerAhead(p)' = WorkerAhead(p)
      BY DEF MainAhead, WorkerAhead
    <2>2. CASE t = Main
      BY <1>1, <2>1, <2>2 DEF Ahead
    <2>3. CASE t \in Workers
      BY <1>1, <2>1, <2>3, ThreadFacts DEF Ahead
    <2> QED
      BY <2>2, <2>3, ThreadFacts
  <1>3. \A t \in Threads, p \in Phases : pc'[t] = ItemPC(p) <=> pc[t] = ItemPC(p)
    BY <1>1, ThreadFacts DEF AtItem, ItemPC
  <1> QED
    BY <1>2, <1>3, ControlKeepsWork

-----------------------------------------------------------------------------
(* A call begins: every item has one place.                                *)

\* Call c puts each of its items in the slab of one thread, or leaves it to the
\* counter.
LEMMA Placed ==
    ASSUME IInv, NEW c \in CallType, call' = c, solo' = FALSE, pc'[Main] = "setup",
           c.s1 < c.e1, TwoPhase(c) => HasPhase2(c),
           \A w \in Workers : pc'[w] \notin Working,
           NEW p \in Phases, NEW i \in InRange(c, p)
    PROVE  /\ SlabKind(c) => /\ \E t \in Threads : Holds(t, p, i)'
                             /\ ~Pooled(p, i)'
           /\ ~SlabKind(c) => /\ \A t \in Threads : ~Holds(t, p, i)'
                              /\ Pooled(p, i)'
           /\ \A t, u \in Threads : Holds(t, p, i)' /\ Holds(u, p, i)' => t = u
  <1> DEFINE s == IF p = 1 THEN c.s1 ELSE c.s2
             e == IF p = 1 THEN c.e1 ELSE c.e2
  <1>1. s \in Nat /\ e \in Nat /\ s <= e /\ i \in s .. e - 1
    BY IndexAssumption DEF CallType, Indices, InRange, HasPhase2, Phases
  <1>2. From(p)' = s /\ To(p)' = e
    BY DEF From, To
  <1> HIDE DEF s, e
  <1>3. ASSUME NEW t \in Threads
        PROVE  Holds(t, p, i)' <=> /\ SlabKind(c)
                                  /\ SlabFrom(Span(s, e), t) <= i
                                  /\ i < SlabFrom(Span(s, e), t + 1)
    <2>1. pc'[t] # ItemPC(p)
      BY ThreadFacts DEF ItemPC, Working
    <2>2. Ahead(t, p)'
      BY DEF Ahead, Preparing, MainAhead, MainFirst, BeforeRelease
    <2> QED
      BY <1>2, <2>1, <2>2 DEF Holds, Mine
  <1>4. Pooled(p, i)' <=> ~SlabKind(c)
    BY DEF Pooled, Future, BeforeRelease, MainFirst
  <1>5. /\ \E t \in Threads : /\ SlabFrom(Span(s, e), t) <= i
                              /\ i < SlabFrom(Span(s, e), t + 1)
        /\ \A t, u \in Threads :
             /\ SlabFrom(Span(s, e), t) <= i /\ i < SlabFrom(Span(s, e), t + 1)
             /\ SlabFrom(Span(s, e), u) <= i /\ i < SlabFrom(Span(s, e), u + 1)
             => t = u
    BY <1>1, SlabPartition
  <1> QED
    BY <1>3, <1>4, <1>5

LEMMA CallKeepsWork ==
    ASSUME IInv, NEW c \in Calls, Call(c)
    PROVE  Work'
  <1>0. TypeOK /\ Protocol
    BY DEF IInv
  <1>1. /\ c \in CallType /\ call' = c /\ done' = NothingDone
        /\ solo' = RunsSerially(c)
        /\ pc[Main] = "idle" /\ ~Active
    BY CallsAssumption DEF Call, Active, Dispatched
  <1>2. \A p \in Phases, i \in Indices : done'[p][i] = 0
    BY <1>1 DEF NothingDone
  <1>3. \A p \in Phases : InRange(c, p) \subseteq Indices
    BY <1>1, IndexAssumption DEF InRange, Indices, CallType
  <1>4. \E label \in {"item1", "between", "return", "setup"} : Goto(Main, label)
    BY DEF Call
  <1>5. \A w \in Workers : pc'[w] = pc[w] /\ pc'[w] \notin Working
    BY <1>0, <1>1, <1>4, MainMoves, NobodyWorks
  <1>6. CASE solo'
    <2>1. /\ claim' = [claim EXCEPT ![Main] = [at |-> c.s1, to |-> c.e1]]
          /\ Goto(Main, IF c.s1 < c.e1 THEN "item1"
                        ELSE IF TwoPhase(c) THEN "between" ELSE "return")
      BY <1>1, <1>6 DEF Call
    <2>2. /\ pc'[Main] = IF c.s1 < c.e1 THEN "item1"
                         ELSE IF TwoPhase(c) THEN "between" ELSE "return"
          /\ claim'[Main] = [at |-> c.s1, to |-> c.e1]
      BY <1>0, <2>1, MainMoves, ThreadFacts DEF TypeOK
    <2>3. ASSUME NEW p \in Phases, NEW i \in InRange(c, p)
          PROVE  /\ Holds(Main, p, i)' /\ ~Pooled(p, i)'
                 /\ \A w \in Workers : ~Holds(w, p, i)'
      <3>1. ~Pooled(p, i)'
        BY <1>6 DEF Pooled
      <3>2. \A w \in Workers : ~Holds(w, p, i)'
        BY <1>5, <1>6, ThreadFacts DEF Holds, Mine, ItemPC, Working
      <3>3. Holds(Main, p, i)'
        <4>1. CASE p = 1
          <5>1. c.s1 <= i /\ i < c.e1 /\ c.s1 < c.e1
            BY <1>1, <4>1, IndexAssumption DEF InRange, CallType, Indices
          <5> QED
            BY <2>2, <4>1, <5>1 DEF Holds, ItemPC
        <4>2. CASE p = 2
          <5>1. TwoPhase(c)
            BY <4>2 DEF InRange
          <5> QED
            BY <1>6, <2>2, <4>2, <5>1
            DEF Holds, ItemPC, Ahead, MainAhead, BeforeRelease, MainFirst, Mine
        <4> QED
          BY <4>1, <4>2 DEF Phases
      <3> QED
        BY <3>1, <3>2, <3>3
    <2>4. ASSUME NEW p \in Phases PROVE PhaseWork(p)'
      <3>1. ExactlyOnce(p)'
        BY <1>1, <1>2, <2>3, ThreadFacts DEF ExactlyOnce
      <3>2. OneHolder(p)'
        BY <1>1, <2>3, ThreadFacts DEF OneHolder
      <3>3. ClaimsInRange(p)'
        <4> SUFFICES ASSUME NEW t \in Threads, pc'[t] = ItemPC(p)
                     PROVE  /\ p = 2 => TwoPhase(call')
                            /\ From(p)' <= claim'[t].at /\ claim'[t].at < claim'[t].to
                            /\ claim'[t].to <= To(p)'
          BY DEF ClaimsInRange
        <4>1. t = Main
          BY <1>5, ThreadFacts DEF ItemPC, Working
        <4>2. p = 1 /\ c.s1 < c.e1
          BY <2>2, <4>1 DEF ItemPC, Phases
        <4>3. c.s1 \in Nat /\ c.e1 \in Nat
          BY <1>1, IndexAssumption DEF CallType, Indices
        <4> QED
          BY <1>1, <2>2, <4>1, <4>2, <4>3 DEF From, To
      <3>4. CounterBounded(p)'
        BY <1>6 DEF CounterBounded
      <3> QED
        BY <3>1, <3>2, <3>3, <3>4 DEF PhaseWork
    <2>5. Barred'
      BY <1>1, <1>2, <1>6, <2>2 DEF Barred, Hangs, Untouched, Phases
    <2>6. Described'
      BY <1>6 DEF Described
    <2> QED
      BY <2>4, <2>5, <2>6 DEF Work, Phases
  <1>7. CASE ~solo'
    <2>1. pc'[Main] = "setup" /\ solo' = FALSE
      <3>1. Goto(Main, "setup") /\ ~RunsSerially(c)
        BY <1>1, <1>7 DEF Call
      <3> QED
        BY <1>0, <1>1, <3>1, MainMoves
    <2>2. c.s1 < c.e1
      BY <1>1, <1>7, IndexAssumption DEF RunsSerially, CallType, Indices
    <2>3. Barred'
      BY <1>1, <1>2, <2>1 DEF Barred, Hangs, Untouched, MainFirst, BeforeRelease, Phases
    <2>4. ASSUME Served' PROVE Described' /\ PhaseWork(1)' /\ PhaseWork(2)'
      <3>1. TwoPhase(c) => HasPhase2(c)
        BY <1>1, <1>7, <2>4 DEF Served, Hangs
      <3>2. ASSUME NEW p \in Phases PROVE PhaseWork(p)'
        <4>1. ASSUME NEW i \in InRange(c, p)
              PROVE  /\ SlabKind(c) => /\ \E t \in Threads : Holds(t, p, i)'
                                       /\ ~Pooled(p, i)'
                     /\ ~SlabKind(c) => /\ \A t \in Threads : ~Holds(t, p, i)'
                                        /\ Pooled(p, i)'
                     /\ \A t, u \in Threads : Holds(t, p, i)' /\ Holds(u, p, i)' => t = u
          BY <1>1, <1>5, <2>1, <2>2, <3>1, Placed
        <4>2. ExactlyOnce(p)'
          BY <1>1, <1>2, <4>1 DEF ExactlyOnce
        <4>3. OneHolder(p)'
          BY <1>1, <4>1 DEF OneHolder
        <4>4. ClaimsInRange(p)'
          BY <1>5, <2>1, ThreadFacts DEF ClaimsInRange, ItemPC, Working
        <4>5. CounterBounded(p)'
          BY <2>1 DEF CounterBounded, Now, BeforeRelease, MainFirst
        <4> QED
          BY <4>2, <4>3, <4>4, <4>5 DEF PhaseWork
      <3>3. Described'
        BY <2>1 DEF Described
      <3> QED
        BY <3>2, <3>3 DEF Phases
    <2> QED
      BY <2>3, <2>4 DEF Work
  <1> QED
    BY <1>6, <1>7

-----------------------------------------------------------------------------
(* The control steps of a call.                                            *)

LEMMA SetupKeepsWork ==
    ASSUME IInv, Work, Setup
    PROVE  Work'
  <1>0. TypeOK /\ Protocol
    BY DEF IInv
  <1>1. /\ pc[Main] = "setup" /\ pc'[Main] = "publish"
        /\ \A w \in Workers : pc'[w] = pc[w]
        /\ UNCHANGED <<claim, myGen, done, call, solo, taskId>>
    BY <1>0, MainMoves DEF Setup, control
  <1>2. ~solo /\ ~Active /\ call.s1 < call.e1
    BY <1>0, <1>1 DEF Protocol, Preparing, Active, Dispatched, Prepared
  <1>3. InCall /\ Barred
    BY <1>1 DEF InCall, Work
  <1>4. Barred'
    BY <1>1, <1>2, <1>3 DEF Barred, Hangs, MainFirst, BeforeRelease, Untouched
  <1>5. ASSUME Served' PROVE Described' /\ PhaseWork(1)' /\ PhaseWork(2)'
    <2>1. Described /\ PhaseWork(1) /\ PhaseWork(2)
      BY <1>1, <1>3, <1>5 DEF Work, Served, Hangs
    <2>2. \A t \in Threads, p \in Phases : Ahead(t, p) /\ Ahead(t, p)'
      BY <1>1, ThreadFacts DEF Ahead, Preparing, MainAhead, MainFirst, BeforeRelease
    <2>3. \A t \in Threads, p \in Phases : pc[t] # ItemPC(p) /\ pc'[t] # ItemPC(p)
      BY <1>0, <1>1, <1>2, NobodyWorks, ThreadFacts DEF ItemPC, Working
    <2>4. \A t \in Threads, p \in Phases :
            \A i \in InRange(call, p) : Holds(t, p, i)' <=> Holds(t, p, i)
      BY <1>1, <2>2, <2>3 DEF Holds, Mine, From, To
    <2>5. ~SlabKind(call) => nextIndex' = call.s1 /\ endIndex' = call.e1
      BY DEF Setup, SlabKind
    <2>6. \A p \in Phases : \A i \in InRange(call, p) : Pooled(p, i)' <=> Pooled(p, i)
      <3>1. \A p \in Phases : \A i \in InRange(call, p) : Pooled(p, i) <=> ~SlabKind(call)
        BY <1>1, <1>2 DEF Pooled, Future, BeforeRelease, MainFirst
      <3>2. \A i \in InRange(call, 2) : Pooled(2, i)' <=> ~SlabKind(call)
        BY <1>1, <1>2 DEF Pooled, Future, BeforeRelease, MainFirst
      <3>3. \A i \in InRange(call, 1) : call.s1 <= i
        BY <1>0, CallFacts DEF InRange, From, To
      <3>4. \A i \in InRange(call, 1) : Pooled(1, i)' <=> ~SlabKind(call)
        BY <1>1, <1>2, <2>2, <2>5, <3>3, ThreadFacts DEF Pooled, Phases
      <3> QED
        BY <3>1, <3>2, <3>4 DEF Phases, Pooled
    <2>7. \A p \in Phases : ClaimsInRange(p)'
      BY <2>3 DEF ClaimsInRange
    <2>8. CounterBounded(1)'
      <3>1. Through(1)' = {}
        BY <2>2 DEF Through, Phases
      <3>2. Cardinality(Through(1)') = 0
        BY <3>1, FS_EmptySet
      <3>3. From(1)' = call.s1 /\ To(1)' = call.e1 /\ Chunk(1)' = Chunk(1)
        BY <1>1 DEF From, To, Chunk
      <3>4. /\ call.s1 \in Nat /\ call.e1 \in Nat /\ Chunk(1) \in Nat
            /\ Chunk(1) * (1 + 0) = Chunk(1)
        BY <1>0, CallFacts DEF From, To
      <3>5. ~SlabKind(call) =>
              nextIndex' <= To(1)' - 1 + Chunk(1)' * (1 + Cardinality(Through(1)'))
        BY <1>2, <2>5, <3>2, <3>3, <3>4
      <3> QED
        BY <1>1, <2>5, <3>1, <3>3, <3>4, <3>5 DEF CounterBounded
    <2>9. CounterBounded(2)'
      BY <1>1 DEF CounterBounded, Now, BeforeRelease, MainFirst
    <2>10. Described'
      BY <1>1, <1>5, <2>5
      DEF Setup, Described, Served, Hangs, TwoPhase, SlabKind, StealKind, BeforeRelease,
          MainFirst
    <2>11. \A p \in Phases : PhaseWork(p)'
      BY <1>1, <2>1, <2>4, <2>6, <2>7, <2>8, <2>9, PhaseStill DEF Phases
    <2> QED
      BY <2>10, <2>11 DEF Phases
  <1> QED
    BY <1>4, <1>5 DEF Work

LEMMA PublishKeepsWork ==
    ASSUME IInv, Work, Publish
    PROVE  Work'
  <1>0. TypeOK /\ Protocol
    BY DEF IInv
  <1>1. /\ pc[Main] = "publish" /\ pc'[Main] = "fetch1"
        /\ \A w \in Workers : pc'[w] = IF pc[w] = "asleep" THEN "lock" ELSE pc[w]
        /\ UNCHANGED <<claim, myGen, done, call, solo, fields>>
        /\ taskId' = taskId + 1 /\ taskId \in Nat
    BY <1>0, ThreadFacts, TasksAssumption DEF Publish, NotifyAll, TypeOK
  <1>2. ~Active /\ \A w \in Workers : myGen'[w] # taskId'
    BY <1>0, <1>1, NobodyWorks DEF Active, Dispatched
  <1>3. InCall /\ Barred
    BY <1>1 DEF InCall, Work
  <1>4. Barred' /\ SamePlace
    BY <1>1, <1>3 DEF Barred, SamePlace, Hangs, MainFirst, BeforeRelease, Untouched
  <1>5. \A t \in Threads, p \in Phases : Ahead(t, p)' <=> Ahead(t, p)
    <2>1. \A p \in Phases : Ahead(Main, p) /\ Ahead(Main, p)'
      BY <1>1 DEF Ahead, MainAhead, MainFirst, BeforeRelease
    <2>2. \A w \in Workers, p \in Phases : Ahead(w, p) /\ Ahead(w, p)'
      BY <1>1, <1>2, ThreadFacts DEF Ahead, Preparing
    <2> QED
      BY <2>1, <2>2, ThreadFacts
  <1>6. \A t \in Threads, p \in Phases : pc'[t] = ItemPC(p) <=> pc[t] = ItemPC(p)
    BY <1>1, ThreadFacts DEF ItemPC
  <1> QED
    BY <1>1, <1>3, <1>4, <1>5, <1>6, ControlKeepsWork

LEMMA PassBarrierKeepsWork ==
    ASSUME IInv, Work, PassBarrier
    PROVE  Work'
  <1>0. TypeOK /\ Protocol /\ Phasing
    BY DEF IInv
  <1>1. /\ pc[Main] = "barrier" /\ arrived >= NumWorkers /\ Goto(Main, "between")
        /\ UNCHANGED <<claim, myGen, done, call, solo, fields, taskId>>
    BY DEF PassBarrier, control
  <1>2. Active /\ ~solo /\ TwoPhase(call) /\ NumThreads > 1
    BY <1>0, <1>1 DEF Protocol, Phasing, Active, Dispatched, Prepared
  <1>3. TwoPhaseTask
    BY <1>0, <1>1, <1>2, ThreadsAssumption DEF Phasing, NumWorkers
  <1>4. HasPhase2(call)
    BY <1>0, <1>2, <1>3 DEF Phasing, TwoPhaseTask
  <1>5. Arrivals = Workers
    <2>1. arrived = Cardinality(Arrivals) /\ Arrivals \in SUBSET Workers
      BY <1>0, <1>2, <1>3 DEF Phasing, Arrivals
    <2> QED
      BY <1>1, <2>1, SubsetCount, ThreadFacts
  <1>6. pc'[Main] = "between" /\ \A w \in Workers : pc'[w] = pc[w]
    BY <1>0, <1>1, MainMoves
  <1>7. \A w \in Workers : ~Ahead(w, 1)'
    BY <1>1, <1>5, <1>6, ThreadFacts DEF Ahead, Arrivals, InPhase1, WorkerAhead, Preparing
  <1>8. InCall /\ Barred
    BY <1>1 DEF InCall, Work
  <1>9. Barred' /\ SamePlace
    BY <1>1, <1>4, <1>6, <1>7, <1>8
    DEF Barred, SamePlace, Hangs, BeforeRelease, MainFirst, Untouched
  <1> QED
    BY <1>0, <1>1, <1>8, <1>9, MainControlKeepsWork
    DEF Preparing, MainAhead, BeforeRelease, MainFirst, AtItem

LEMMA ReleaseKeepsWork ==
    ASSUME IInv, Work, Release
    PROVE  Work'
  <1>0. TypeOK /\ Protocol /\ Phasing
    BY DEF IInv
  <1>1. /\ pc[Main] = "release"
        /\ Goto(Main, IF HasPhase2(call) THEN "fetch2" ELSE "join")
        /\ UNCHANGED <<claim, myGen, done, call, solo, fields, taskId>>
    BY DEF Release, control
  <1>2. Active /\ ~solo /\ TwoPhase(call)
    BY <1>0, <1>1 DEF Protocol, Phasing, Active, Dispatched
  <1>3. InCall /\ Barred
    BY <1>1 DEF InCall, Work
  <1>4. HasPhase2(call)
    BY <1>1, <1>2, <1>3 DEF Barred, Hangs, MainFirst
  <1>5. pc'[Main] = "fetch2" /\ \A w \in Workers : pc'[w] = pc[w]
    BY <1>0, <1>1, <1>4, MainMoves
  <1>6. \A w \in Workers : Ahead(w, 1)' <=> Ahead(w, 1)
    BY <1>1, <1>5, ThreadFacts DEF Ahead, Preparing
  <1>7. Barred' /\ SamePlace
    BY <1>1, <1>3, <1>4, <1>5, <1>6 DEF Barred, SamePlace, Hangs, BeforeRelease, MainFirst
  <1> QED
    BY <1>0, <1>1, <1>3, <1>4, <1>7, MainControlKeepsWork
    DEF Preparing, MainAhead, BeforeRelease, MainFirst, AtItem

\* The final wait: no thread is any nearer to its items.
LEMMA JoinKeepsWork ==
    ASSUME IInv, Work, NEW label, Goto(Main, label),
           pc[Main] \in {"join", "lock", "locked", "asleep"},
           label \in {"lock", "locked", "asleep", "clear"},
           UNCHANGED <<claim, myGen, done, call, solo, fields, taskId>>
    PROVE  Work'
  <1>0. TypeOK
    BY DEF IInv
  <1>1. InCall /\ Barred
    BY DEF InCall, Work
  <1>2. pc'[Main] = label /\ \A w \in Workers : pc'[w] = pc[w]
    BY <1>0, MainMoves
  <1>3. \A w \in Workers : Ahead(w, 1)' <=> Ahead(w, 1)
    BY <1>2, ThreadFacts DEF Ahead, Preparing
  <1>4. Barred' /\ SamePlace
    BY <1>1, <1>2, <1>3 DEF Barred, SamePlace, Hangs, BeforeRelease, MainFirst
  <1> QED
    BY <1>0, <1>1, <1>4, MainControlKeepsWork
    DEF Preparing, MainAhead, BeforeRelease, MainFirst, AtItem

\* The callback has run: the items of phase 2 come within reach.
LEMMA BetweenKeepsWork ==
    ASSUME IInv, Work, Between
    PROVE  Work'
  <1>0. TypeOK /\ Protocol /\ Phasing
    BY DEF IInv
  <1>1. /\ pc[Main] = "between"
        /\ UNCHANGED <<myGen, done, call, solo, taskId>>
    BY DEF Between, control
  <1>2. InCall /\ Barred
    BY <1>1 DEF InCall, Work
  <1>3. \E label \in {"item2", "return", "release"} : Goto(Main, label)
    BY DEF Between
  <1>4. \A w \in Workers : pc'[w] = pc[w]
    BY <1>0, <1>3, MainMoves
  <1>5. \A w \in Workers, p \in Phases : Ahead(w, p)' <=> Ahead(w, p)
    <2>1. pc'[Main] \notin Preparing /\ pc[Main] \notin Preparing
      BY <1>0, <1>1, <1>3, MainMoves DEF Preparing
    <2> QED
      BY <1>1, <1>4, <2>1, ThreadFacts DEF Ahead, WorkerAhead
  <1>6. CASE solo
    <2>1. /\ claim' = [claim EXCEPT ![Main] = [at |-> call.s2, to |-> call.e2]]
          /\ UNCHANGED fields
          /\ pc'[Main] = IF HasPhase2(call) THEN "item2" ELSE "return"
          /\ claim'[Main] = [at |-> call.s2, to |-> call.e2]
      <3>1. /\ claim' = [claim EXCEPT ![Main] = [at |-> call.s2, to |-> call.e2]]
            /\ Goto(Main, IF HasPhase2(call) THEN "item2" ELSE "return")
            /\ UNCHANGED fields
        BY <1>6 DEF Between
      <3> QED
        BY <1>0, <3>1, MainMoves, ThreadFacts DEF TypeOK
    <2>2. Served /\ Described /\ PhaseWork(1) /\ PhaseWork(2)
      BY <1>2, <1>6 DEF Work, Served, Hangs
    <2>3. Barred' /\ Described'
      BY <1>1, <1>2, <1>6, <2>1 DEF Barred, Described, Hangs, HasPhase2, BeforeRelease, MainFirst
    <2>4. \A p \in Phases : CounterBounded(p)'
      BY <1>1, <1>6 DEF CounterBounded
    <2>5. \A p \in Phases : \A i \in InRange(call, p) : Pooled(p, i)' <=> Pooled(p, i)
      BY <1>1, <1>6 DEF Pooled
    <2>6. ~Active
      BY <1>6 DEF Active
    <2>7. \A w \in Workers, p \in Phases : pc[w] # ItemPC(p) /\ pc'[w] # ItemPC(p)
      BY <1>0, <1>4, <2>6, NobodyWorks DEF ItemPC, Working
    <2>8. \A w \in Workers, p \in Phases :
             \A i \in InRange(call, p) : ~Holds(w, p, i) /\ ~Holds(w, p, i)'
      BY <1>1, <1>6, <2>7, ThreadFacts DEF Holds, Mine
    <2>9. \A i \in InRange(call, 1) : ~Holds(Main, 1, i) /\ ~Holds(Main, 1, i)'
      BY <1>1, <2>1 DEF Holds, ItemPC, Ahead, MainAhead, MainFirst
    <2>10. \A i \in InRange(call, 2) : Holds(Main, 2, i) /\ Holds(Main, 2, i)'
      <3>1. \A i \in InRange(call, 2) : HasPhase2(call) /\ call.s2 <= i /\ i < call.e2
        BY <1>0, CallFacts DEF InRange, From, To, HasPhase2
      <3> QED
        BY <1>1, <1>6, <2>1, <3>1
        DEF Holds, ItemPC, Ahead, MainAhead, BeforeRelease, Mine
    <2>11. \A p \in Phases : \A t \in Threads : \A i \in InRange(call, p) :
              Holds(t, p, i)' <=> Holds(t, p, i)
      BY <2>8, <2>9, <2>10, ThreadFacts DEF Phases, Holds
    <2>12. \A p \in Phases : ClaimsInRange(p)'
      <3>1. call.s2 \in Nat /\ call.e2 \in Nat
        BY <1>0, CallFacts DEF From, To
      <3>2. \A p \in Phases, t \in Threads : pc'[t] = ItemPC(p) =>
              t = Main /\ p = 2 /\ HasPhase2(call)
        BY <2>1, <2>7, ThreadFacts DEF Phases, ItemPC
      <3> QED
        BY <1>1, <2>1, <3>1, <3>2 DEF ClaimsInRange, From, To, HasPhase2
    <2>13. \A p \in Phases : PhaseWork(p)'
      BY <1>1, <2>2, <2>4, <2>5, <2>11, <2>12, PhaseStill DEF Phases
    <2> QED
      BY <2>3, <2>13 DEF Work, Phases
  <1>7. CASE ~solo
    <2>1. /\ pc'[Main] = "release" /\ UNCHANGED <<claim, task, slab1>>
          /\ slab' = IF HasPhase2(call) /\ SlabKind(call)
                     THEN Span(call.s2, call.e2) ELSE slab
          /\ HasPhase2(call) /\ StealKind(call) => nextIndex' = call.s2 /\ endIndex' = call.e2
      <3>1. Goto(Main, "release")
        BY <1>7 DEF Between
      <3> QED
        BY <1>0, <1>7, <3>1, MainMoves DEF Between
    <2>2. Active /\ TwoPhase(call)
      BY <1>0, <1>1, <1>7 DEF Active, Dispatched, Phasing
    <2>3. HasPhase2(call)
      BY <1>1, <1>2, <1>7, <2>2 DEF Barred, Hangs, MainFirst
    <2>4. Served /\ Described /\ PhaseWork(1) /\ PhaseWork(2)
      BY <1>2, <2>3 DEF Work, Served, Hangs
    <2>5. \A w \in Workers : ~Ahead(w, 1) /\ pc[w] = "await"
      BY <1>1, <1>2, <1>7, <2>2, ParkedAtBetween DEF Barred, MainFirst
    <2>6. Barred'
      BY <1>1, <1>2, <1>5, <2>1, <2>2, <2>3, <2>5
      DEF Barred, Hangs, BeforeRelease, MainFirst, Phases
    <2>7. Described'
      BY <1>1, <2>1, <2>2, <2>3, <2>4
      DEF Described, Now, BeforeRelease, MainFirst, TwoPhase, SlabKind, StealKind
    <2>8. /\ ~Ahead(Main, 1) /\ ~Ahead(Main, 1)'
          /\ Ahead(Main, 2) /\ Ahead(Main, 2)'
      BY <1>1, <2>1 DEF Ahead, MainAhead, BeforeRelease, MainFirst
    <2>9. \A t \in Threads, p \in Phases : Ahead(t, p)' <=> Ahead(t, p)
      <3>1. \A p \in Phases : Ahead(Main, p)' <=> Ahead(Main, p)
        BY <2>8 DEF Phases
      <3> QED
        BY <1>5, <3>1, ThreadFacts
    <2>10. \A t \in Threads, p \in Phases : pc[t] # ItemPC(p) /\ pc'[t] # ItemPC(p)
      BY <1>1, <1>4, <2>1, <2>5, ThreadFacts DEF ItemPC
    <2>11. \A p \in Phases : \A t \in Threads : \A i \in InRange(call, p) :
              Holds(t, p, i)' <=> Holds(t, p, i)
      BY <1>1, <2>9, <2>10 DEF Holds, Mine, From, To
    <2>12. \A i \in InRange(call, 1) : ~Pooled(1, i) /\ ~Pooled(1, i)'
      <3>1. \A t \in Threads : ~Ahead(t, 1) /\ ~Ahead(t, 1)'
        BY <2>5, <2>8, <2>9, ThreadFacts DEF Phases
      <3> QED
        BY <1>1, <2>1, <3>1 DEF Pooled, Future
    <2>13. ~SlabKind(call) => nextIndex' = call.s2
      BY <2>1, <2>2, <2>3 DEF SlabKind, StealKind, TwoPhase
    <2>14. \A i \in InRange(call, 2) : call.s2 <= i
      BY <1>0, CallFacts DEF InRange, From, To
    <2>15. \A i \in InRange(call, 2) :
              (Pooled(2, i) <=> ~SlabKind(call)) /\ (Pooled(2, i)' <=> ~SlabKind(call))
      BY <1>1, <1>7, <2>1, <2>8, <2>13, <2>14, ThreadFacts DEF Pooled, Future, BeforeRelease
    <2>16. \A p \in Phases : \A i \in InRange(call, p) : Pooled(p, i)' <=> Pooled(p, i)
      BY <2>12, <2>15 DEF Phases, Pooled
    <2>17. \A p \in Phases : ClaimsInRange(p)'
      BY <2>10 DEF ClaimsInRange
    <2>18. CounterBounded(1)'
      BY <1>1, <2>1, <2>2 DEF CounterBounded, Now, BeforeRelease, MainFirst
    <2>19. CounterBounded(2)'
      <3>1. \A w \in Workers : Ahead(w, 2)
        BY <2>5, ThreadFacts DEF Ahead, WorkerAhead
      <3>2. Through(2)' = {}
        BY <2>8, <2>9, <3>1, ThreadFacts DEF Through, Phases
      <3>3. Cardinality(Through(2)') = 0
        BY <3>2, FS_EmptySet
      <3>4. From(2)' = call.s2 /\ To(2)' = call.e2 /\ Chunk(2)' = Chunk(2)
        BY <1>1 DEF From, To, Chunk
      <3>5. /\ call.s2 \in Nat /\ call.e2 \in Nat /\ Chunk(2) \in Nat
            /\ Chunk(2) * (1 + 0) = Chunk(2) /\ call.s2 < call.e2
        BY <1>0, <2>3, CallFacts DEF From, To, HasPhase2
      <3>6. ~SlabKind(call) =>
              nextIndex' <= To(2)' - 1 + Chunk(2)' * (1 + Cardinality(Through(2)'))
        BY <2>13, <3>3, <3>4, <3>5
      <3> QED
        BY <1>1, <2>13, <3>2, <3>4, <3>5, <3>6 DEF CounterBounded
    <2>20. \A p \in Phases : PhaseWork(p)'
      BY <1>1, <2>1, <2>4, <2>11, <2>16, <2>17, <2>18, <2>19, PhaseStill DEF Phases
    <2> QED
      BY <2>6, <2>7, <2>20 DEF Work, Phases
  <1> QED
    BY <1>6, <1>7

-----------------------------------------------------------------------------
(* A thread fetches or runs an item.                                       *)

\* Where the thread goes when phase p has nothing more for it.
Done(t, p) ==
    IF t = Main
    THEN IF p = 1 /\ TwoPhase(call) THEN IF solo THEN "between" ELSE "barrier"
         ELSE IF solo THEN "return" ELSE "join"
    ELSE IF p = 1 /\ TwoPhase(call) THEN "arrive" ELSE "finish"

\* What a step of thread t inside phase p starts from, and which places it has.
Moves(t, p) ==
    /\ p \in Phases /\ p = PhaseAt(t) /\ pc[t] \in {FetchPC(p), ItemPC(p)}
    /\ p = 2 => TwoPhase(call)
    /\ p = 1 /\ TwoPhase(call) => pc[Main] \in BeforeRelease
    /\ p = 2 => pc[Main] \notin BeforeRelease
    /\ pc[Main] \notin Preparing
    /\ solo => t = Main /\ pc[t] = ItemPC(p)
    /\ t # Main => Active /\ myGen[t] = taskId /\ (TwoPhaseTask <=> TwoPhase(call))
    /\ UNCHANGED <<call, solo, taskId, myGen>>
    /\ AfterPhase(t, p) = Done(t, p)
    /\ pc'[t] \in {FetchPC(p), ItemPC(p), Done(t, p)}
    /\ solo => pc'[t] # FetchPC(p)
    /\ \A u \in Threads \ {t} : pc'[u] = pc[u] /\ claim'[u] = claim[u]
    /\ \A q \in Phases \ {p} : done'[q] = done[q]

LEMMA MovesFacts ==
    ASSUME IInv, Work, Served, NEW t \in Threads, Fetch(t) \/ Item(t)
    PROVE  Moves(t, PhaseAt(t))
  <1> DEFINE p == PhaseAt(t)
  <1>0. TypeOK /\ Protocol /\ Phasing /\ Barred /\ InCall
    BY DEF IInv, Work, Served
  <1>1. p \in Phases /\ pc[t] \in {FetchPC(p), ItemPC(p)}
    BY PhaseType DEF Fetch, Item, AtFetch, AtItem, PhaseAt, FetchPC, ItemPC
  <1>2. UNCHANGED <<call, solo, taskId, myGen, task>>
    BY DEF Fetch, Item, fields, control
  <1>3. t # Main => pc[t] \in Working /\ t \in Workers
    BY <1>1, ThreadFacts DEF FetchPC, ItemPC, Working
  <1>4. t # Main => Active /\ myGen[t] = taskId /\ ~solo
    BY <1>0, <1>3, WorkingIsActive DEF Active
  <1>5. t # Main => (TwoPhaseTask <=> TwoPhase(call))
    BY <1>0, <1>4 DEF Phasing, TwoPhaseTask, Served, Hangs, TwoPhase, HasPhase2
  <1>6. p = 2 => TwoPhase(call)
    <2>1. p = 2 => pc[t] \in {"fetch2", "item2"}
      BY <1>1 DEF FetchPC, ItemPC
    <2>2. CASE t = Main
      BY <1>0, <2>1, <2>2 DEF Barred
    <2>3. CASE t # Main
      BY <1>0, <1>3, <1>5, <2>1, <2>3 DEF Phasing, InPhase2
    <2> QED
      BY <2>2, <2>3
  <1>7. /\ p = 1 /\ TwoPhase(call) => pc[Main] \in BeforeRelease
        /\ p = 2 => pc[Main] \notin BeforeRelease
    <2>1. CASE t = Main
      BY <1>1, <2>1 DEF FetchPC, ItemPC, BeforeRelease, MainFirst, Phases
    <2>2. CASE t # Main /\ p = 1
      <3>1. Ahead(t, 1)
        BY <1>1, <2>2 DEF Ahead, WorkerAhead, FetchPC, ItemPC
      <3> QED
        BY <1>0, <1>3, <1>4, <2>2, <3>1 DEF Barred, BeforeRelease
    <2>3. CASE t # Main /\ p = 2
      <3>1. pc[t] \in InPhase2 /\ pc[t] \notin InPhase1 \cup {"await"}
        BY <1>1, <2>3 DEF FetchPC, ItemPC, InPhase2, InPhase1
      <3>2. TwoPhaseTask /\ TwoPhase(call) /\ ready
        BY <1>0, <1>3, <1>4, <1>5, <2>3, <3>1 DEF Phasing
      <3>3. pc[Main] \notin {"fetch1", "item1", "barrier", "between", "release"}
        BY <1>0, <1>4, <2>3, <3>2 DEF Phasing
      <3>4. pc[Main] \notin {"setup", "publish"}
        BY <1>4, <2>3 DEF Active, Dispatched
      <3> QED
        BY <2>3, <3>3, <3>4 DEF BeforeRelease, MainFirst
    <2> QED
      BY <1>1, <2>1, <2>2, <2>3 DEF Phases
  <1>8. pc[Main] \notin Preparing
    BY <1>1, <1>4 DEF Preparing, Active, Dispatched, FetchPC, ItemPC
  <1>9. solo => t = Main /\ pc[t] = ItemPC(p)
    <2>1. solo => t = Main
      BY <1>4
    <2>2. solo => pc[Main] \notin {"fetch1", "fetch2"}
      BY <1>0 DEF Protocol, Dispatched
    <2> QED
      BY <1>1, <2>1, <2>2 DEF FetchPC
  <1>10. AfterPhase(t, p) = Done(t, p)
    <2>1. t # Main => ((IF task.slab THEN task.two ELSE task.two2) <=> TwoPhase(call))
      BY <1>0, <1>4, <1>5 DEF Phasing, TwoPhaseTask, SlabKind
    <2> QED
      BY <1>1, <1>6, <2>1 DEF AfterPhase, Done, Phases
  <1>11. /\ pc'[t] \in {FetchPC(p), ItemPC(p), Done(t, p)}
         /\ solo => pc'[t] # FetchPC(p)
         /\ \A u \in Threads \ {t} : pc'[u] = pc[u] /\ claim'[u] = claim[u]
    <2>1. FetchPC(p) \notin {ItemPC(p), Done(t, p)}
      BY DEF FetchPC, ItemPC, Done
    <2>2. \E label \in {FetchPC(p), ItemPC(p), Done(t, p)} :
             Goto(t, label) /\ (solo => label # FetchPC(p))
      <3>1. CASE Fetch(t)
        <4>1. ~solo
          BY <1>9, <3>1 DEF Fetch, AtFetch, ItemPC
        <4> QED
          BY <1>10, <3>1, <4>1 DEF Fetch
      <3>2. CASE Item(t)
        BY <1>9, <1>10, <2>1, <3>2 DEF Item
      <3> QED
        BY <3>1, <3>2
    <2>3. \A u \in Threads \ {t} : claim'[u] = claim[u]
      BY <1>0 DEF Fetch, Item, TypeOK
    <2> HIDE DEF p
    <2> QED
      BY <1>0, <2>2, <2>3 DEF Goto, TypeOK
  <1>12. \A q \in Phases \ {p} : done'[q] = done[q]
    BY <1>0, <1>1 DEF Fetch, Item, TypeOK
  <1> QED
    BY <1>1, <1>2, <1>4, <1>5, <1>6, <1>7, <1>8, <1>9, <1>10, <1>11,
       <1>12 DEF Moves

\* The step leaves the other threads as far from their items as they were, and
\* thread t too, until it is done with the phase.
LEMMA MovesAhead ==
    ASSUME IInv, Work, Served, NEW t \in Threads, NEW p, Moves(t, p)
    PROVE  /\ \A u \in Threads \ {t}, q \in Phases : Ahead(u, q)' <=> Ahead(u, q)
           /\ Ahead(t, p) /\ (Ahead(t, p)' <=> pc'[t] # Done(t, p))
           /\ pc'[Main] \notin Preparing
           /\ p = 1 /\ TwoPhase(call) => pc'[Main] \in BeforeRelease
           /\ p = 2 => pc'[Main] \notin BeforeRelease
           /\ p = 1 /\ TwoPhase(call) => Ahead(t, 2) /\ Ahead(t, 2)'
           /\ p = 2 => ~Ahead(t, 1) /\ ~Ahead(t, 1)'
           /\ \A u \in Threads \ {t}, q \in Phases : pc'[u] = ItemPC(q) <=> pc[u] = ItemPC(q)
  <1>1. /\ pc'[Main] \notin Preparing
        /\ p = 1 /\ TwoPhase(call) => pc'[Main] \in BeforeRelease
        /\ p = 2 => pc'[Main] \notin BeforeRelease
    BY ThreadFacts
    DEF Moves, Preparing, BeforeRelease, MainFirst, FetchPC, ItemPC, Done
  <1>2. ASSUME NEW u \in Threads \ {t}, NEW q \in Phases
        PROVE  /\ Ahead(u, q)' <=> Ahead(u, q)
               /\ pc'[u] = ItemPC(q) <=> pc[u] = ItemPC(q)
    <2>1. pc'[u] = pc[u] /\ pc[Main] \notin Preparing /\ taskId' = taskId /\ myGen' = myGen
      BY DEF Moves
    <2> QED
      BY <1>1, <2>1 DEF Ahead, MainAhead, WorkerAhead
  <1>3. ASSUME t = Main
        PROVE  /\ Ahead(t, p) /\ (Ahead(t, p)' <=> pc'[t] # Done(t, p))
               /\ p = 1 /\ TwoPhase(call) => Ahead(t, 2) /\ Ahead(t, 2)'
               /\ p = 2 => ~Ahead(t, 1) /\ ~Ahead(t, 1)'
    <2>1. \A q \in Phases :
             /\ Ahead(t, q) <=> pc[t] \in MainAhead(q)
             /\ Ahead(t, q)' <=> pc'[t] \in MainAhead(q)
      BY <1>3 DEF Ahead, MainAhead
    <2>2. CASE p = 1
      BY <1>3, <2>1, <2>2
      DEF Moves, MainAhead, BeforeRelease, MainFirst, FetchPC, ItemPC, Done, Phases
    <2>3. CASE p = 2
      BY <1>3, <2>1, <2>3
      DEF Moves, MainAhead, BeforeRelease, MainFirst, FetchPC, ItemPC, Done, Phases
    <2>4. p = 1 \/ p = 2
      BY DEF Moves, Phases
    <2> QED
      BY <2>2, <2>3, <2>4
  <1>4. ASSUME t # Main
        PROVE  /\ Ahead(t, p) /\ (Ahead(t, p)' <=> pc'[t] # Done(t, p))
               /\ p = 1 /\ TwoPhase(call) => Ahead(t, 2) /\ Ahead(t, 2)'
               /\ p = 2 => ~Ahead(t, 1) /\ ~Ahead(t, 1)'
    <2>1. \A q \in Phases :
             /\ Ahead(t, q) <=> pc[t] \in WorkerAhead(q)
             /\ Ahead(t, q)' <=> pc'[t] \in WorkerAhead(q)
      BY <1>1, <1>4 DEF Moves, Ahead, WorkerAhead
    <2> QED
      BY <1>4, <2>1 DEF Moves, WorkerAhead, FetchPC, ItemPC, Done, Phases
  <1> QED
    BY <1>1, <1>2, <1>3, <1>4

\* The other phase is not concerned.
LEMMA MovesOther ==
    ASSUME IInv, Work, Served, NEW t \in Threads, NEW p, Moves(t, p),
           NEW q \in Phases, q # p
    PROVE  PhaseWork(q)'
  <1>1. PhaseWork(q) /\ call' = call /\ solo' = solo /\ done'[q] = done[q]
    BY DEF Moves, Work, Phases
  <1>2. /\ pc[t] # ItemPC(q) /\ pc'[t] # ItemPC(q)
        /\ \A u \in Threads \ {t} : pc'[u] = pc[u] /\ claim'[u] = claim[u]
    BY DEF Moves, FetchPC, ItemPC, Done, Phases
  <1>3. ClaimsInRange(q)'
    BY <1>1, <1>2 DEF PhaseWork, ClaimsInRange, From, To
  <1>4. (p = 1 /\ q = 2) \/ (p = 2 /\ q = 1)
    <2>1. p \in Phases
      BY DEF Moves
    <2> QED
      BY <2>1 DEF Phases
  <1>5. CASE p = 1 /\ ~TwoPhase(call)
    <2>1. q = 2 /\ InRange(call, q) = {}
      BY <1>4, <1>5 DEF InRange
    <2>2. CounterBounded(q)'
      BY <1>1, <1>5, <2>1 DEF CounterBounded, Now
    <2> QED
      BY <1>1, <1>3, <2>1, <2>2, PhaseStill
  <1>6. CASE p = 1 /\ TwoPhase(call)
    <2>1. q = 2 /\ pc[Main] \in BeforeRelease /\ pc'[Main] \in BeforeRelease
      BY <1>4, <1>6, MovesAhead DEF Moves
    <2>2. CounterBounded(q)'
      BY <1>1, <2>1 DEF CounterBounded, Now, BeforeRelease, MainFirst
    <2>3. \A u \in Threads : Ahead(u, q)' <=> Ahead(u, q)
      BY <1>6, <2>1, MovesAhead
    <2>4. \A u \in Threads : \A i \in InRange(call, q) : Holds(u, q, i)' <=> Holds(u, q, i)
      BY <1>1, <1>2, <2>3 DEF Holds, Mine, From, To
    <2>5. \A i \in InRange(call, q) : Pooled(q, i)' <=> Pooled(q, i)
      BY <1>1, <2>1 DEF Pooled, Future
    <2> QED
      BY <1>1, <1>3, <2>2, <2>4, <2>5, PhaseStill
  <1>7. CASE p = 2
    <2>1. /\ q = 1 /\ pc[Main] \notin BeforeRelease /\ pc'[Main] \notin BeforeRelease
          /\ TwoPhase(call)
      BY <1>4, <1>7, MovesAhead DEF Moves
    <2>2. CounterBounded(q)'
      BY <1>1, <2>1 DEF CounterBounded, Now
    <2>3. \A u \in Threads : ~Ahead(u, q) /\ ~Ahead(u, q)'
      <3>1. ~Ahead(Main, 1)
        BY <2>1 DEF Ahead, MainAhead, BeforeRelease
      <3>2. \A w \in Workers : ~Ahead(w, 1)
        <4>1. CASE ~solo
          BY <2>1, <4>1 DEF Work, Barred, Served, BeforeRelease, MainFirst
        <4>2. CASE solo
          <5>1. \A w \in Workers : myGen[w] = taskId /\ pc[w] \notin Working
            BY <4>2, NobodyWorks DEF Active, IInv
          <5> QED
            BY <5>1, ThreadFacts DEF Moves, Ahead, WorkerAhead, Working
        <4> QED
          BY <4>1, <4>2
      <3>3. \A u \in Threads : ~Ahead(u, 1)
        BY <3>1, <3>2, ThreadFacts
      <3> QED
        BY <1>7, <2>1, <3>3, MovesAhead
    <2>4. \A u \in Threads : pc[u] # ItemPC(q) /\ pc'[u] # ItemPC(q)
      BY <2>1, <2>3 DEF Ahead, MainAhead, MainFirst, WorkerAhead, ItemPC
    <2>5. \A u \in Threads : \A i \in InRange(call, q) : Holds(u, q, i)' <=> Holds(u, q, i)
      BY <2>3, <2>4 DEF Holds
    <2>6. \A i \in InRange(call, q) : Pooled(q, i)' <=> Pooled(q, i)
      BY <2>1, <2>3 DEF Pooled, Future, BeforeRelease, MainFirst
    <2> QED
      BY <1>1, <1>3, <2>2, <2>5, <2>6, PhaseStill
  <1> QED
    BY <1>4, <1>5, <1>6, <1>7

LEMMA MovesBarred ==
    ASSUME IInv, Work, InCall, NEW t \in Threads, Fetch(t) \/ Item(t)
    PROVE  Barred'
  <1>0. TypeOK /\ Protocol /\ Phasing /\ Barred
    BY DEF IInv, Work
  <1>1. UNCHANGED <<call, solo, taskId, myGen>>
    BY DEF Fetch, Item, control
  <1>2. CASE Served
    <2> DEFINE p == PhaseAt(t)
    <2>1. Moves(t, p)
      BY <1>2, MovesFacts
    <2> HIDE DEF p
    <2>2. p = 1 \/ p = 2
      BY <2>1 DEF Moves, Phases
    <2>3. ~Hangs'
      BY <1>1, <1>2 DEF Served, Hangs
    <2>4. CASE p = 1
      <3>1. done'[2] = done[2]
        BY <2>1, <2>4 DEF Moves, Phases
      <3>2. pc'[Main] \in BeforeRelease => pc[Main] \in BeforeRelease
        BY <2>1, <2>4, ThreadFacts
        DEF Moves, BeforeRelease, MainFirst, FetchPC, ItemPC
      <3>3. Untouched(2) => Untouched(2)'
        BY <3>1 DEF Untouched
      <3>4. ~solo /\ TwoPhase(call) => pc'[Main] \in MainFirst \cup {"barrier"}
        <4>1. CASE t = Main
          BY <2>1, <2>4, <4>1 DEF Moves, FetchPC, ItemPC, Done, MainFirst
        <4>2. CASE t # Main
          <5>1. Ahead(t, 1) /\ t \in Workers
            BY <1>2, <2>1, <2>4, <4>2, MovesAhead, ThreadFacts
          <5> QED
            BY <1>0, <2>1, <4>2, <5>1, ThreadFacts DEF Barred, Moves
        <4> QED
          BY <4>1, <4>2
      <3>5. pc'[Main] \in {"barrier", "between", "release", "fetch2", "item2"} => TwoPhase(call)
        BY <1>0, <2>1, <2>4, ThreadFacts DEF Moves, FetchPC, ItemPC, Done, Barred
      <3> QED
        BY <1>0, <1>1, <2>3, <3>2, <3>3, <3>4, <3>5 DEF Barred
    <2>5. CASE p = 2
      <3>1. pc[Main] \notin BeforeRelease /\ pc'[Main] \notin BeforeRelease
            /\ TwoPhase(call)
        BY <1>2, <2>1, <2>5, MovesAhead DEF Moves
      <3>2. ~solo => \A w \in Workers : ~Ahead(w, 1)
        BY <1>0, <3>1 DEF Barred, BeforeRelease
      <3>3. ~solo => \A w \in Workers : ~Ahead(w, 1)'
        BY <1>2, <2>1, <2>5, <3>2, MovesAhead, ThreadFacts DEF Phases
      <3> QED
        BY <1>0, <1>1, <2>3, <3>1, <3>3 DEF Barred
    <2> QED
      BY <2>2, <2>4, <2>5
  <1>3. CASE ~Served
    <2>1. Hangs /\ ~solo /\ TwoPhase(call) /\ ~HasPhase2(call)
      BY <1>3 DEF Served, Hangs
    <2>2. pc[Main] \in MainFirst \cup {"barrier"}
      BY <1>0, <2>1 DEF Barred
    <2>3. PhaseAt(t) = 1
      <3>1. CASE t = Main
        BY <2>2, <3>1 DEF Fetch, Item, AtFetch, AtItem, PhaseAt, MainFirst
      <3>2. CASE t # Main
        <4>1. pc[t] \in Working /\ t \in Workers
          BY <3>2, ThreadFacts DEF Fetch, Item, AtFetch, AtItem, Working
        <4>2. ~TwoPhaseTask
          BY <1>0, <2>1, <4>1, WorkingIsActive DEF Phasing, TwoPhaseTask
        <4> QED
          BY <1>0, <4>1, <4>2
          DEF Phasing, InPhase2, Fetch, Item, AtFetch, AtItem, PhaseAt
      <3> QED
        BY <3>1, <3>2
    <2>4. done'[2] = done[2]
      BY <1>0, <2>3 DEF Fetch, Item, TypeOK, Phases
    <2>5. pc'[Main] \in MainFirst \cup {"barrier"}
      <3>1. CASE t = Main
        <4>1. Active
          BY <2>1, <3>1 DEF Active, Fetch, Item, AtFetch, AtItem, Dispatched
        <4>2. pc[Main] \in {"fetch1", "item1"}
          BY <2>2, <3>1 DEF Fetch, Item, AtFetch, AtItem, MainFirst
        <4>3. \E label \in {"item1", "fetch1", "barrier"} : Goto(Main, label)
          BY <1>0, <2>1, <3>1, <4>1, <4>2, PhaseLabel
        <4> QED
          BY <1>0, <4>3, MainMoves DEF MainFirst
      <3>2. CASE t # Main
        <4>1. \E label : Goto(t, label)
          BY DEF Fetch, Item
        <4> QED
          BY <1>0, <2>2, <3>2, <4>1, WorkerMoves, ThreadFacts
      <3> QED
        BY <3>1, <3>2
    <2>6. Untouched(2)'
      BY <1>0, <2>2, <2>4 DEF Barred, Untouched, BeforeRelease
    <2> QED
      BY <1>0, <1>1, <2>1, <2>5, <2>6 DEF Barred, Hangs
  <1> QED
    BY <1>2, <1>3

\* What a thread reads when it fetches describes the call.
LEMMA FetchSees ==
    ASSUME IInv, Work, Served, NEW t \in Threads, NEW p, Moves(t, p), pc[t] = FetchPC(p)
    PROVE  /\ ~solo /\ From(p) < To(p) /\ Now(p)
           /\ UsesSlab(t) <=> SlabKind(call)
           /\ SlabKind(call) => MySlab(t, p) = SlabOf(Span(From(p), To(p)), t)
           /\ ~SlabKind(call) => Limit(t, p) = To(p) /\ Stride(t, p) = Chunk(p)
  <1>0. TypeOK /\ Protocol /\ Phasing /\ Described /\ call \in CallType
    BY CallFacts DEF IInv, Work
  <1>1. p = 1 \/ p = 2
    BY DEF Moves, Phases
  <1>2. ~solo
    BY DEF Moves, FetchPC, ItemPC
  <1>3. Active /\ call.s1 < call.e1
    <2>1. Active
      BY <1>2, ThreadFacts DEF Moves, Active, Dispatched, FetchPC
    <2> QED
      BY <1>0, <2>1 DEF Protocol, Prepared
  <1>4. TwoPhase(call) => call.s2 < call.e2
    BY <1>2 DEF Served, Hangs, HasPhase2
  <1>5. pc[Main] # "setup" /\ Now(p)
    BY <1>1, <1>3 DEF Moves, Now, Active, Dispatched
  <1>6. t # Main => t \in Workers
    BY ThreadFacts
  <1>7. UsesSlab(t) <=> SlabKind(call)
    BY <1>0, <1>3 DEF UsesSlab, Phasing
  <1>8. ASSUME SlabKind(call) PROVE MySlab(t, p) = SlabOf(Span(From(p), To(p)), t)
    <2>1. /\ t # Main => task.two = (call.kind = "slab2")
          /\ TwoPhase(call) <=> call.kind = "slab2"
      BY <1>0, <1>3, <1>8 DEF Phasing, SlabKind, TwoPhase, Served, Hangs, Active, HasPhase2
    <2>2. /\ call.kind = "slab2" => slab1 = Span(call.s1, call.e1)
          /\ call.kind = "slab" => slab = Span(call.s1, call.e1)
      BY <1>0, <1>2, <1>5 DEF Described
    <2>3. CASE p = 1
      BY <1>8, <2>1, <2>2, <2>3 DEF MySlab, From, To, SlabKind
    <2>4. CASE p = 2
      <3>1. pc[Main] \notin BeforeRelease /\ call.kind = "slab2"
        BY <2>1, <2>4 DEF Moves
      <3>2. slab = Span(call.s2, call.e2)
        BY <1>0, <1>2, <1>5, <3>1 DEF Described
      <3> QED
        BY <2>4, <3>2 DEF MySlab, From, To
    <2> QED
      BY <1>1, <2>3, <2>4
  <1>9. ASSUME ~SlabKind(call) PROVE Limit(t, p) = To(p) /\ Stride(t, p) = Chunk(p)
    <2>1. /\ task.steal = StealKind(call)
          /\ StealKind(call) => task.chunk = NonZero(call.c1)
          /\ call.kind = "steal2" => task.chunk2 = NonZero(call.c2)
          /\ TwoPhase(call) => task.end2 = call.e2
          /\ Now(1) => endIndex = call.e1
      BY <1>0, <1>2, <1>5, <1>9 DEF Described
    <2>2. /\ StealKind(call) <=> call.kind # "index"
          /\ TwoPhase(call) <=> call.kind = "steal2"
      BY <1>0, <1>9 DEF CallType, Kinds, SlabKind, StealKind, TwoPhase
    <2>3. p = 2 => TwoPhase(call)
      BY DEF Moves
    <2>4. Limit(t, p) = To(p)
      BY <1>1, <1>5, <2>1, <2>3 DEF Limit, To
    <2>5. Stride(t, p) = Chunk(p)
      BY <1>1, <2>1, <2>2, <2>3 DEF Stride, Chunk
    <2> QED
      BY <2>4, <2>5
  <1>10. From(p) < To(p)
    BY <1>1, <1>3, <1>4 DEF Moves, From, To
  <1> QED
    BY <1>2, <1>5, <1>7, <1>8, <1>9, <1>10

\* A slab is taken: its items pass from the slab to the claim.
LEMMA FetchSlabKeepsPhase ==
    ASSUME IInv, Work, Served, NEW t \in Threads, NEW p, Moves(t, p), Fetch(t),
           SlabKind(call)
    PROVE  PhaseWork(p)'
  <1> DEFINE at(n) == SlabFrom(Span(From(p), To(p)), n)
  <1>0. TypeOK /\ PhaseWork(p) /\ p \in Phases
    BY DEF IInv, Work, Moves, Phases
  <1>1. p = PhaseAt(t) /\ pc[t] = FetchPC(p) /\ AfterPhase(t, p) = Done(t, p)
    BY DEF Moves, Fetch, AtFetch, FetchPC, ItemPC
  <1>2. /\ ~solo /\ From(p) < To(p) /\ UsesSlab(t)
        /\ MySlab(t, p) = SlabOf(Span(From(p), To(p)), t)
    BY <1>1, FetchSees
  <1>3. From(p) \in Nat /\ To(p) \in Nat /\ t \in Nat /\ t + 1 \in Nat /\ t + 1 <= NumThreads
    BY <1>0, CallFacts, ThreadsAssumption DEF Phases, Threads, NumWorkers
  <1>4. /\ at(0) = From(p) /\ at(NumThreads) = To(p)
        /\ \A n \in Nat : at(n) \in Nat
        /\ \A n, m \in Nat : n <= m => at(n) <= at(m)
    <2>1. From(p) <= To(p)
      BY <1>2, <1>3
    <2> QED
      BY <1>3, <2>1, SlabEnds
  <1>5. SlabOf(Span(From(p), To(p)), t) = [at |-> at(t), to |-> at(t + 1)]
    BY DEF SlabOf
  <1>6. \A i : Mine(t, p, i) <=> at(t) <= i /\ i < at(t + 1)
    BY <1>2 DEF Mine
  <1> HIDE DEF at
  <1>7. claim'[t] = [at |-> at(t), to |-> at(t + 1)]
    BY <1>0, <1>1, <1>2, <1>5 DEF Fetch, TypeOK
  <1>8. pc'[t] = IF at(t) < at(t + 1) THEN ItemPC(p) ELSE Done(t, p)
    <2>1. ~Empty([at |-> at(t), to |-> at(t + 1)]) <=> at(t) < at(t + 1)
      BY <1>3, <1>4 DEF Empty
    <2>2. Goto(t, IF at(t) < at(t + 1) THEN ItemPC(p) ELSE Done(t, p))
      BY <1>1, <1>2, <1>5, <2>1 DEF Fetch
    <2> QED
      BY <1>0, <2>2 DEF Goto, TypeOK
  <1>9. UNCHANGED <<call, solo, done>>
    BY DEF Moves, Fetch
  <1>10. ItemPC(p) # Done(t, p) /\ FetchPC(p) # ItemPC(p)
    BY DEF ItemPC, Done, FetchPC
  <1>11. \A u \in Threads \ {t} : /\ claim'[u] = claim[u]
                                  /\ Ahead(u, p)' <=> Ahead(u, p)
                                  /\ pc'[u] = ItemPC(p) <=> pc[u] = ItemPC(p)
    BY <1>0, MovesAhead DEF Moves
  <1>12. Ahead(t, p) /\ (Ahead(t, p)' <=> pc'[t] # Done(t, p))
    BY MovesAhead
  <1>13. \A u \in Threads, i \in InRange(call, p) : Mine(u, p, i)' <=> Mine(u, p, i)
    BY <1>9 DEF Mine, From, To
  <1>14. \A i \in InRange(call, p) : Holds(t, p, i)' <=> Holds(t, p, i)
    <2>1. \A i \in InRange(call, p) : Holds(t, p, i) <=> at(t) <= i /\ i < at(t + 1)
      BY <1>1, <1>6, <1>10, <1>12 DEF Holds
    <2>2. CASE at(t) < at(t + 1)
      BY <1>7, <1>8, <2>1, <2>2 DEF Holds
    <2>3. CASE ~(at(t) < at(t + 1))
      <3>1. \A i \in InRange(call, p) : ~(at(t) <= i /\ i < at(t + 1))
        <4>1. InRange(call, p) \subseteq Nat
          BY <1>0, CallFacts DEF Phases
        <4>2. at(t) \in Nat /\ at(t + 1) \in Nat
          BY <1>3, <1>4
        <4> QED
          BY <2>3, <4>1, <4>2
      <3> QED
        BY <1>8, <1>10, <1>12, <2>1, <2>3, <3>1 DEF Holds
    <2> QED
      BY <2>2, <2>3
  <1>15. \A u \in Threads : \A i \in InRange(call, p) : Holds(u, p, i)' <=> Holds(u, p, i)
    <2>1. \A u \in Threads \ {t} : \A i \in InRange(call, p) :
             Holds(u, p, i)' <=> Holds(u, p, i)
      BY <1>11, <1>13 DEF Holds
    <2> QED
      BY <1>14, <2>1
  <1>16. \A i \in InRange(call, p) : Pooled(p, i)' <=> Pooled(p, i)
    BY <1>9 DEF Pooled
  <1>17. ClaimsInRange(p)'
    <2>1. \A u \in Threads \ {t} : pc'[u] = ItemPC(p) =>
            /\ p = 2 => TwoPhase(call)
            /\ From(p) <= claim'[u].at /\ claim'[u].at < claim'[u].to
            /\ claim'[u].to <= To(p)
      BY <1>0, <1>11 DEF PhaseWork, ClaimsInRange
    <2>2. pc'[t] = ItemPC(p) => at(t) < at(t + 1)
      BY <1>8, <1>10
    <2>3. From(p) <= at(t) /\ at(t + 1) <= To(p)
      <3>1. 0 <= t /\ 0 \in Nat /\ NumThreads \in Nat
        BY <1>3, ThreadsAssumption
      <3> QED
        BY <1>3, <1>4, <3>1
    <2>4. From(p)' = From(p) /\ To(p)' = To(p)
      BY <1>9 DEF From, To
    <2>5. p = 2 => TwoPhase(call)
      BY DEF Moves
    <2> QED
      BY <1>7, <1>9, <2>1, <2>2, <2>3, <2>4, <2>5 DEF ClaimsInRange
  <1>18. CounterBounded(p)'
    BY <1>9 DEF CounterBounded
  <1> QED
    BY <1>0, <1>9, <1>15, <1>16, <1>17, <1>18, PhaseStill

-----------------------------------------------------------------------------
(* The shared counter.                                                     *)

LEMMA ThreadsCount ==
    ASSUME NEW S \in SUBSET Threads
    PROVE  /\ Cardinality(S) \in 0 .. NumThreads
           /\ S # Threads => Cardinality(S) < NumThreads
           /\ S = {} <=> Cardinality(S) = 0
           /\ \A t \in Threads \ S : Cardinality(S \cup {t}) = Cardinality(S) + 1
  <1>1. NumWorkers \in Nat /\ NumThreads = NumWorkers + 1
    BY ThreadsAssumption DEF NumWorkers
  <1>2. IsFiniteSet(Threads) /\ Cardinality(Threads) = NumThreads
    BY <1>1, FS_Interval DEF Threads
  <1>3. /\ IsFiniteSet(S) /\ Cardinality(S) <= NumThreads
        /\ (Cardinality(S) = NumThreads => S = Threads)
    BY <1>2, FS_Subset
  <1>4. Cardinality(S) \in Nat /\ (Cardinality(S) = 0 <=> S = {})
    BY <1>3, FS_CardinalityType, FS_EmptySet
  <1>5. \A t \in Threads \ S : Cardinality(S \cup {t}) = Cardinality(S) + 1
    BY <1>3, FS_AddElement
  <1> QED
    BY <1>1, <1>3, <1>4, <1>5

\* The call's chunks leave the counter room for one overshoot of each thread.
LEMMA Room ==
    ASSUME IInv, Work, Served, NoWrap, ~SlabKind(call), NEW p \in Phases,
           p = 2 => TwoPhase(call)
    PROVE  To(p) + NumThreads * Chunk(p) <= IndexModulus
  <1>1. call \in Calls /\ call \in CallType
    BY DEF Work, Served, Barred, IInv, TypeOK
  <1>2. /\ call.kind \in {"index", "steal", "steal2"}
        /\ TwoPhase(call) => call.kind = "steal2"
    BY <1>1 DEF CallType, Kinds, SlabKind, TwoPhase
  <1>3. call.e1 + NumThreads * Chunk(1) <= IndexModulus
    <2>1. Chunk(1) = IF call.kind = "index" THEN 1 ELSE NonZero(call.c1)
      BY DEF Chunk
    <2> QED
      BY <1>1, <2>1 DEF NoWrap
  <1>4. call.kind = "steal2" => call.e2 + NumThreads * Chunk(2) <= IndexModulus
    <2>1. call.kind = "steal2" => Chunk(2) = NonZero(call.c2)
      BY DEF Chunk
    <2> QED
      BY <1>1, <2>1 DEF NoWrap
  <1> QED
    BY <1>2, <1>3, <1>4 DEF To, Phases

\* The arithmetic of the counter: x after k threads have overshot the end e, in
\* chunks of c.
LEMMA Overshoot ==
    ASSUME NEW x \in Nat, NEW e \in Nat, NEW c \in Nat \ {0}, NEW k \in Nat,
           e + NumThreads * c <= IndexModulus,
           x <= e - 1 + c * (1 + k)
    PROVE  /\ x < e => (x + c) % IndexModulus = x + c
           /\ k + 1 < NumThreads => (x + c) % IndexModulus = x + c
           /\ x < e => x + c <= e - 1 + c * (1 + 0)
           /\ x + c <= e - 1 + c * (1 + (k + 1))
  <1>1. NumThreads \in Nat \ {0} /\ IndexModulus \in Nat \ {0}
    BY ThreadsAssumption, IndexAssumption
  <1>2. \A a \in Nat : c * a = a * c /\ c * a \in Nat
    OBVIOUS
  <1>3. 1 * c <= NumThreads * c /\ NumThreads * c \in Nat /\ 1 * c = c
    BY <1>1, TimesMonotone
  <1>4. c * (1 + (k + 1)) = c * (1 + k) + c /\ c * (1 + 0) = c
    OBVIOUS
  <1>5. c * (1 + k) \in Nat
    BY <1>2
  <1>6. x + c <= e - 1 + c * (1 + (k + 1))
    BY <1>4, <1>5
  <1>7. x < e => x + c < IndexModulus
    BY <1>1, <1>3
  <1>8. ASSUME k + 1 < NumThreads PROVE x + c < IndexModulus
    <2>1. 1 + (k + 1) <= NumThreads /\ 1 + (k + 1) \in Nat
      BY <1>1, <1>8
    <2>2. (1 + (k + 1)) * c <= NumThreads * c
      BY <1>1, <2>1, TimesMonotone
    <2>3. c * (1 + (k + 1)) <= NumThreads * c /\ c * (1 + (k + 1)) \in Nat
      BY <1>2, <2>1, <2>2
    <2> QED
      BY <1>1, <1>3, <1>6, <2>3
  <1>9. x + c < IndexModulus => (x + c) % IndexModulus = x + c
    BY <1>1
  <1> QED
    BY <1>4, <1>6, <1>7, <1>8, <1>9

\* A chunk is taken, or the thread finds the range exhausted.
LEMMA FetchCounterKeepsPhase ==
    ASSUME IInv, Work, Served, NoWrap, NEW t \in Threads, NEW p, Moves(t, p), Fetch(t),
           ~SlabKind(call)
    PROVE  PhaseWork(p)'
  <1> DEFINE x == nextIndex
             e == To(p)
             c == Chunk(p)
             k == Cardinality(Through(p))
  <1>0. TypeOK /\ PhaseWork(p) /\ p \in Phases
    BY DEF IInv, Work, Moves, Phases
  <1>1. p = PhaseAt(t) /\ pc[t] = FetchPC(p) /\ AfterPhase(t, p) = Done(t, p)
    BY DEF Moves, Fetch, AtFetch, FetchPC, ItemPC
  <1>2. /\ ~solo /\ From(p) < e /\ Now(p) /\ ~UsesSlab(t)
        /\ Limit(t, p) = e /\ Stride(t, p) = c
    BY <1>1, FetchSees
  <1>3. /\ From(p) \in Nat /\ e \in Nat /\ c \in Nat \ {0} /\ x \in Nat
        /\ InRange(call, p) \subseteq Nat
        /\ \A i \in InRange(call, p) : From(p) <= i /\ i < e
    <2>1. \A i \in InRange(call, p) : From(p) <= i /\ i < e
      BY <1>0, CallFacts DEF Phases, InRange, From, To
    <2> QED
      BY <1>0, <2>1, CallFacts DEF Phases, TypeOK
  <1>4. /\ Through(p) \in SUBSET Threads /\ t \in Threads \ Through(p)
        /\ k \in Nat /\ (Through(p) = {} <=> k = 0)
    <2>1. Ahead(t, p)
      BY MovesAhead
    <2> QED
      BY <2>1, ThreadsCount DEF Through
  <1>5. From(p) <= x /\ x <= e - 1 + c * (1 + k) /\ (Through(p) # {} => e <= x)
    BY <1>0, <1>2, <1>4 DEF PhaseWork, CounterBounded
  <1>6. e + NumThreads * c <= IndexModulus
    BY <1>0, Room DEF Moves
  <1>7. /\ x < e => (x + c) % IndexModulus = x + c
        /\ k + 1 < NumThreads => (x + c) % IndexModulus = x + c
        /\ x < e => x + c <= e - 1 + c * (1 + 0)
        /\ x + c <= e - 1 + c * (1 + (k + 1))
    BY <1>3, <1>4, <1>5, <1>6, Overshoot
  <1>8. UNCHANGED <<call, solo, done>>
    BY DEF Moves, Fetch
  <1>9. From(p)' = From(p) /\ To(p)' = e /\ Chunk(p)' = c /\ InRange(call, p)' = InRange(call, p)
    BY <1>8 DEF From, To, Chunk, InRange
  <1>10. ItemPC(p) # Done(t, p) /\ FetchPC(p) # ItemPC(p)
    BY DEF ItemPC, Done, FetchPC
  <1>11. \A u \in Threads \ {t} : /\ claim'[u] = claim[u]
                                  /\ Ahead(u, p)' <=> Ahead(u, p)
                                  /\ pc'[u] = ItemPC(p) <=> pc[u] = ItemPC(p)
    BY <1>0, MovesAhead DEF Moves
  <1>12. Ahead(t, p) /\ (Ahead(t, p)' <=> pc'[t] # Done(t, p))
    BY MovesAhead
  <1>13. \A u \in Threads, i \in InRange(call, p) : ~Mine(u, p, i) /\ ~Mine(u, p, i)'
    BY <1>2, <1>8 DEF Mine
  <1>14. \A u \in Threads \ {t} : \A i \in InRange(call, p) : Holds(u, p, i)' <=> Holds(u, p, i)
    BY <1>11, <1>13 DEF Holds
  <1>15. \A i \in InRange(call, p) : ~Holds(t, p, i)
    BY <1>1, <1>10, <1>13 DEF Holds
  <1>16. ~Future(p) /\ ~Future(p)'
    <2>1. p = 1 \/ p = 2
      BY <1>0 DEF Phases
    <2>2. p = 1 => pc'[Main] # "setup"
      BY MovesAhead DEF Preparing
    <2>3. p = 2 => pc'[Main] \notin BeforeRelease
      BY MovesAhead
    <2> QED
      BY <1>2, <2>1, <2>2, <2>3 DEF Future, Now
  <1>17. nextIndex' = (x + c) % IndexModulus
    BY <1>1, <1>2 DEF Fetch
  <1>18. \A i \in InRange(call, p) : Pooled(p, i) <=> x <= i
    BY <1>2, <1>12, <1>16 DEF Pooled
  <1>19. \A i \in InRange(call, p) :
            Pooled(p, i)' <=> nextIndex' <= i /\ \E u \in Threads : Ahead(u, p)'
    BY <1>2, <1>8, <1>16 DEF Pooled
  <1> HIDE DEF x, e, c, k
  <1>20. CASE x < e
    <2> DEFINE to == Least((x + c) % IndexModulus, e)
    <2>1. (x + c) % IndexModulus = x + c /\ nextIndex' = x + c
      BY <1>7, <1>17, <1>20
    <2>2. x < to /\ to <= e /\ to \in Nat /\ (to = x + c \/ (to = e /\ e <= x + c))
      BY <1>3, <1>20, <2>1 DEF Least
    <2>3. ChunkAt(x, c, e) = [at |-> x, to |-> to]
      BY DEF ChunkAt
    <2>4. ~(x >= e)
      BY <1>3, <1>20
    <2> HIDE DEF to
    <2>5. ~Empty([at |-> x, to |-> to])
      BY <1>3, <2>2 DEF Empty
    <2>6. Goto(t, ItemPC(p)) /\ claim' = [claim EXCEPT ![t] = [at |-> x, to |-> to]]
      BY <1>1, <1>2, <2>3, <2>4, <2>5 DEF Fetch, x
    <2>7. pc'[t] = ItemPC(p) /\ claim'[t] = [at |-> x, to |-> to]
      BY <1>0, <2>6 DEF Goto, TypeOK
    <2>8. Ahead(t, p)'
      BY <1>10, <1>12, <2>7
    <2>9. \A i \in InRange(call, p) : Holds(t, p, i)' <=> x <= i /\ i < to
      BY <2>7 DEF Holds
    <2>10. \A i \in InRange(call, p) : Pooled(p, i)' <=> x + c <= i
      BY <1>19, <2>1, <2>8
    <2>11. \A i \in InRange(call, p) :
              /\ Pooled(p, i) <=> Pooled(p, i)' \/ Holds(t, p, i)'
              /\ ~(Pooled(p, i)' /\ Holds(t, p, i)')
      BY <1>3, <1>18, <2>2, <2>9, <2>10
    <2>12. ExactlyOnce(p)'
      <3>1. \A i \in Indices :
              done[p][i] = IF /\ i \in InRange(call, p) /\ ~Pooled(p, i)
                              /\ \A u \in Threads : ~Holds(u, p, i)
                           THEN 1 ELSE 0
        BY <1>0 DEF PhaseWork, ExactlyOnce
      <3>2. \A i \in InRange(call, p) :
              /\ ~Pooled(p, i)
              /\ \A u \in Threads : ~Holds(u, p, i)
              <=> /\ ~Pooled(p, i)'
                  /\ \A u \in Threads : ~Holds(u, p, i)'
        BY <1>14, <1>15, <2>11
      <3> QED
        BY <1>8, <1>9, <3>1, <3>2 DEF ExactlyOnce
    <2>13. OneHolder(p)'
      <3>1. \A i \in InRange(call, p), u \in Threads :
               Holds(u, p, i) => ~Pooled(p, i) /\ \A v \in Threads \ {u} : ~Holds(v, p, i)
        BY <1>0 DEF PhaseWork, OneHolder
      <3>2. \A i \in InRange(call, p), u \in Threads :
               Holds(u, p, i)' => ~Pooled(p, i)' /\ \A v \in Threads \ {u} : ~Holds(v, p, i)'
        BY <1>14, <1>15, <2>11, <3>1
      <3> QED
        BY <1>9, <3>2 DEF OneHolder
    <2>14. ClaimsInRange(p)'
      <3>1. \A u \in Threads \ {t} : pc'[u] = ItemPC(p) =>
              /\ p = 2 => TwoPhase(call)
              /\ From(p) <= claim'[u].at /\ claim'[u].at < claim'[u].to
              /\ claim'[u].to <= To(p)
        BY <1>0, <1>11 DEF PhaseWork, ClaimsInRange
      <3>2. p = 2 => TwoPhase(call)
        BY DEF Moves
      <3> QED
        BY <1>5, <1>8, <1>9, <2>2, <2>7, <3>1, <3>2 DEF ClaimsInRange, e
    <2>15. CounterBounded(p)'
      <3>1. Through(p) = {} /\ k = 0
        BY <1>3, <1>4, <1>5, <1>20
      <3>2. Through(p)' = {}
        BY <1>11, <2>8, <3>1 DEF Through
      <3>3. Cardinality(Through(p)') = 0
        BY <3>2, FS_EmptySet
      <3>4. From(p) <= x + c /\ x + c <= e - 1 + c * (1 + 0)
        BY <1>3, <1>5, <1>7, <1>20
      <3> QED
        BY <1>9, <2>1, <3>2, <3>3, <3>4 DEF CounterBounded
    <2> QED
      BY <2>12, <2>13, <2>14, <2>15 DEF PhaseWork
  <1>21. CASE ~(x < e)
    <2>1. x >= e
      BY <1>3, <1>21
    <2>2. Empty([at |-> x, to |-> x])
      BY <1>3 DEF Empty
    <2>3. Goto(t, Done(t, p))
      BY <1>1, <1>2, <2>1, <2>2 DEF Fetch, x
    <2>4. pc'[t] = Done(t, p) /\ ~Ahead(t, p)'
      BY <1>0, <1>12, <2>3 DEF Goto, TypeOK
    <2>5. \A i \in InRange(call, p) : ~Holds(t, p, i)'
      BY <1>10, <2>4 DEF Holds
    <2>6. Through(p)' = Through(p) \cup {t}
      BY <1>4, <1>11, <2>4 DEF Through
    <2>7. Cardinality(Through(p)') = k + 1 /\ Through(p)' \in SUBSET Threads
      BY <1>4, <2>6, ThreadsCount DEF k
    <2>8. Through(p)' # Threads => nextIndex' = x + c
      <3>1. Through(p)' # Threads => k + 1 < NumThreads
        BY <2>7, ThreadsCount
      <3> QED
        BY <1>7, <1>17, <3>1
    <2>9. (\E u \in Threads : Ahead(u, p)') => Through(p)' # Threads
      BY DEF Through
    <2>10. \A i \in InRange(call, p) : ~Pooled(p, i) /\ ~Pooled(p, i)'
      <3>1. \A i \in InRange(call, p) : ~(x <= i) /\ ~(x + c <= i)
        BY <1>3, <2>1
      <3> QED
        BY <1>18, <1>19, <2>8, <2>9, <3>1
    <2>11. \A u \in Threads : \A i \in InRange(call, p) : Holds(u, p, i)' <=> Holds(u, p, i)
      BY <1>14, <1>15, <2>5
    <2>12. ClaimsInRange(p)'
      BY <1>0, <1>8, <1>9, <1>10, <1>11, <2>4 DEF PhaseWork, ClaimsInRange, e
    <2>13. CounterBounded(p)'
      <3>1. From(p) <= x + c /\ x + c <= e - 1 + c * (1 + (k + 1)) /\ e <= x + c
        BY <1>3, <1>5, <1>7, <2>1
      <3> QED
        BY <1>9, <2>7, <2>8, <3>1 DEF CounterBounded
    <2> QED
      BY <1>0, <1>8, <2>10, <2>11, <2>12, <2>13, PhaseStill
  <1> QED
    BY <1>20, <1>21

-----------------------------------------------------------------------------
(* An item runs.                                                           *)

\* What the step does to thread t, and to what has run.
LEMMA ItemSees ==
    ASSUME IInv, Work, Served, NEW t \in Threads, NEW p, Moves(t, p), Item(t)
    PROVE  /\ pc[t] = ItemPC(p) /\ UNCHANGED fields
           /\ claim[t].at \in InRange(call, p) /\ claim[t].at < claim[t].to
           /\ claim[t].at \in Nat /\ claim[t].to \in Nat
           /\ claim'[t].at = claim[t].at + 1 /\ claim'[t].to = claim[t].to
           /\ done' = [done EXCEPT ![p][claim[t].at] = @ + 1]
           /\ done'[p] = [done[p] EXCEPT ![claim[t].at] = @ + 1]
           /\ pc'[t] = IF claim[t].at + 1 < claim[t].to THEN ItemPC(p)
                       ELSE IF solo \/ SlabKind(call) THEN Done(t, p)
                       ELSE FetchPC(p)
  <1>0. TypeOK /\ Phasing /\ PhaseWork(p) /\ p \in Phases
    BY DEF IInv, Work, Moves, Phases
  <1>1. p = PhaseAt(t) /\ pc[t] = ItemPC(p) /\ AfterPhase(t, p) = Done(t, p)
    BY DEF Moves, Item, AtItem, FetchPC, ItemPC
  <1>2. /\ claim[t].at \in Nat /\ claim[t].to \in Nat
        /\ claim'[t].at = claim[t].at + 1 /\ claim'[t].to = claim[t].to
    <2>1. claim[t] \in [at : Nat, to : Nat] /\ claim' = [claim EXCEPT ![t].at = claim[t].at + 1]
      BY <1>0 DEF TypeOK, Item
    <2> QED
      BY <1>0, <2>1 DEF TypeOK
  <1>3. claim[t].at \in InRange(call, p) /\ claim[t].at < claim[t].to
    <2>1. /\ p = 2 => TwoPhase(call)
          /\ From(p) <= claim[t].at /\ claim[t].at < claim[t].to /\ claim[t].to <= To(p)
      BY <1>0, <1>1 DEF PhaseWork, ClaimsInRange
    <2>2. From(p) \in Nat /\ To(p) \in Nat
      BY <1>0, CallFacts DEF Phases
    <2>3. InRange(call, p) = From(p) .. To(p) - 1
      BY <1>0, <2>1 DEF InRange, From, To, Phases
    <2> QED
      BY <1>2, <2>1, <2>2, <2>3
  <1>4. (t = Main /\ solo) \/ UsesSlab(t) <=> solo \/ SlabKind(call)
    <2>1. CASE t = Main
      BY <2>1 DEF UsesSlab
    <2>2. CASE t # Main
      BY <1>0, <2>2 DEF Moves, UsesSlab, Phasing, Active
    <2> QED
      BY <2>1, <2>2
  <1>5. pc'[t] = IF claim[t].at + 1 < claim[t].to THEN ItemPC(p)
                 ELSE IF solo \/ SlabKind(call) THEN Done(t, p)
                 ELSE FetchPC(p)
    <2>1. Goto(t, IF claim[t].at + 1 < claim[t].to THEN ItemPC(p)
                  ELSE IF (t = Main /\ solo) \/ UsesSlab(t) THEN Done(t, p)
                  ELSE FetchPC(p))
      BY <1>1 DEF Item
    <2> QED
      BY <1>0, <1>4, <2>1 DEF Goto, TypeOK
  <1>6. done' = [done EXCEPT ![p][claim[t].at] = @ + 1] /\ UNCHANGED fields
    BY <1>1 DEF Item
  <1>7. done'[p] = [done[p] EXCEPT ![claim[t].at] = @ + 1]
    BY <1>0, <1>6 DEF TypeOK
  <1> QED
    BY <1>1, <1>2, <1>3, <1>5, <1>6, <1>7

LEMMA ItemKeepsPhase ==
    ASSUME IInv, Work, Served, NEW t \in Threads, NEW p, Moves(t, p), Item(t)
    PROVE  PhaseWork(p)'
  <1>i. PICK i, to : i = claim[t].at /\ to = claim[t].to
    OBVIOUS
  <1>0. TypeOK /\ PhaseWork(p) /\ p \in Phases
    BY DEF IInv, Work, Moves, Phases
  <1>1. /\ pc[t] = ItemPC(p) /\ UNCHANGED fields
        /\ i \in InRange(call, p) /\ i < to /\ i \in Nat /\ to \in Nat
        /\ claim'[t].at = i + 1 /\ claim'[t].to = to
        /\ done'[p] = [done[p] EXCEPT ![i] = @ + 1]
        /\ pc'[t] = IF i + 1 < to THEN ItemPC(p)
                    ELSE IF solo \/ SlabKind(call) THEN Done(t, p)
                    ELSE FetchPC(p)
    BY <1>i, ItemSees
  <1>2. UNCHANGED <<call, solo>> /\ nextIndex' = nextIndex
    BY <1>1 DEF Moves, fields
  <1>3. /\ From(p)' = From(p) /\ To(p)' = To(p) /\ Chunk(p)' = Chunk(p)
        /\ InRange(call, p)' = InRange(call, p)
        /\ InRange(call, p) \subseteq Indices /\ Indices \subseteq Nat
    BY <1>0, <1>2, CallFacts DEF From, To, Chunk, InRange, Phases
  <1>4. ItemPC(p) # Done(t, p) /\ FetchPC(p) # ItemPC(p) /\ FetchPC(p) # Done(t, p)
    BY DEF ItemPC, Done, FetchPC
  <1>5. \A u \in Threads \ {t} : /\ claim'[u] = claim[u]
                                 /\ Ahead(u, p)' <=> Ahead(u, p)
                                 /\ pc'[u] = ItemPC(p) <=> pc[u] = ItemPC(p)
    BY <1>0, MovesAhead DEF Moves
  <1>6. Ahead(t, p) /\ (Ahead(t, p)' <=> pc'[t] # Done(t, p))
    BY MovesAhead
  <1>7. \A u \in Threads, j \in InRange(call, p) : Mine(u, p, j)' <=> Mine(u, p, j)
    BY <1>2, <1>3 DEF Mine
  <1>8. \A u \in Threads \ {t} : \A j \in InRange(call, p) : Holds(u, p, j)' <=> Holds(u, p, j)
    BY <1>5, <1>7 DEF Holds
  <1>9. \A j \in InRange(call, p) : Holds(t, p, j) <=> i <= j /\ j < to
    BY <1>1, <1>i DEF Holds
  <1>10. \A j \in InRange(call, p) : Holds(t, p, j)' <=> Holds(t, p, j) /\ j # i
    <2>1. InRange(call, p) \subseteq Nat
      BY <1>3
    <2>2. CASE i + 1 < to
      <3>1. \A j \in InRange(call, p) : Holds(t, p, j)' <=> i + 1 <= j /\ j < to
        BY <1>1, <2>2 DEF Holds
      <3> QED
        BY <1>1, <1>9, <2>1, <3>1
    <2>3. CASE ~(i + 1 < to)
      <3>1. \A j \in InRange(call, p) : ~(Holds(t, p, j) /\ j # i)
        BY <1>1, <1>9, <2>1, <2>3
      <3>2. CASE solo \/ SlabKind(call)
        <4>1. pc'[t] = Done(t, p) /\ ~Ahead(t, p)'
          BY <1>1, <1>6, <2>3, <3>2
        <4> QED
          BY <1>4, <3>1, <4>1 DEF Holds
      <3>3. CASE ~solo /\ ~SlabKind(call)
        <4>1. pc'[t] # ItemPC(p)
          BY <1>1, <1>4, <2>3, <3>3
        <4>2. \A j \in InRange(call, p) : ~Mine(t, p, j)'
          BY <1>2, <3>3 DEF Mine
        <4> QED
          BY <3>1, <4>1, <4>2 DEF Holds
      <3> QED
        BY <3>2, <3>3
    <2> QED
      BY <2>2, <2>3
  <1>11. ~Future(p) /\ ~Future(p)' /\ Now(p)
    <2>1. p = 1 \/ p = 2
      BY <1>0 DEF Phases
    <2>2. p = 1 => pc[Main] # "setup" /\ pc'[Main] # "setup"
      BY MovesAhead DEF Moves, Preparing
    <2>3. p = 2 => pc[Main] \notin BeforeRelease /\ pc'[Main] \notin BeforeRelease
      BY MovesAhead DEF Moves
    <2> QED
      BY <2>1, <2>2, <2>3 DEF Moves, Future, Now
  <1>12. ~solo /\ ~SlabKind(call) => \A u \in Threads : Ahead(u, p)' <=> Ahead(u, p)
    <2>1. ~solo /\ ~SlabKind(call) => pc'[t] # Done(t, p)
      BY <1>1, <1>4
    <2> QED
      BY <1>5, <1>6, <2>1
  <1>13. \A j \in InRange(call, p) : Pooled(p, j)' <=> Pooled(p, j)
    BY <1>2, <1>11, <1>12 DEF Pooled
  <1>14. \A j \in InRange(call, p), u \in Threads :
            Holds(u, p, j) => ~Pooled(p, j) /\ \A v \in Threads \ {u} : ~Holds(v, p, j)
    BY <1>0 DEF PhaseWork, OneHolder
  <1>15. Holds(t, p, i)
    BY <1>1, <1>9
  <1>16. ExactlyOnce(p)'
    <2>1. \A j \in Indices :
            done[p][j] = IF /\ j \in InRange(call, p) /\ ~Pooled(p, j)
                            /\ \A u \in Threads : ~Holds(u, p, j)
                         THEN 1 ELSE 0
      BY <1>0 DEF PhaseWork, ExactlyOnce
    <2>2. i \in Indices /\ done[p] \in [Indices -> Nat]
      BY <1>0, <1>1, <1>3 DEF TypeOK
    <2>3. \A j \in Indices : done'[p][j] = IF j = i THEN done[p][j] + 1 ELSE done[p][j]
      BY <1>1, <2>2
    <2>4. done[p][i] = 0
      BY <1>15, <2>1, <2>2
    <2>5. /\ ~Pooled(p, i)' /\ \A u \in Threads : ~Holds(u, p, i)'
      <3>1. ~Pooled(p, i) /\ \A v \in Threads \ {t} : ~Holds(v, p, i)
        BY <1>1, <1>14, <1>15
      <3>2. ~Pooled(p, i)'
        BY <1>1, <1>13, <3>1
      <3>3. \A v \in Threads \ {t} : ~Holds(v, p, i)'
        BY <1>1, <1>8, <3>1
      <3>4. ~Holds(t, p, i)'
        BY <1>1, <1>10
      <3> QED
        BY <3>2, <3>3, <3>4
    <2>6. \A j \in InRange(call, p) \ {i} :
            /\ Pooled(p, j)' <=> Pooled(p, j)
            /\ \A u \in Threads : Holds(u, p, j)' <=> Holds(u, p, j)
      BY <1>8, <1>10, <1>13
    <2>7. ASSUME NEW j \in Indices
          PROVE  done'[p][j] = IF /\ j \in InRange(call, p) /\ ~Pooled(p, j)'
                                  /\ \A u \in Threads : ~Holds(u, p, j)'
                               THEN 1 ELSE 0
      <3>1. CASE j = i
        <4>1. done'[p][i] = 1
          BY <2>2, <2>3, <2>4
        <4> QED
          BY <1>1, <2>5, <3>1, <4>1
      <3>2. CASE j # i
        BY <2>1, <2>3, <2>6, <3>2
      <3> QED
        BY <3>1, <3>2
    <2> QED
      BY <1>3, <2>7 DEF ExactlyOnce
  <1>17. OneHolder(p)'
    <2>1. \A j \in InRange(call, p), u \in Threads :
            Holds(u, p, j)' => ~Pooled(p, j)' /\ \A v \in Threads \ {u} : ~Holds(v, p, j)'
      BY <1>8, <1>10, <1>13, <1>14
    <2> QED
      BY <1>3, <2>1 DEF OneHolder
  <1>18. ClaimsInRange(p)'
    <2>1. \A u \in Threads : pc[u] = ItemPC(p) =>
            /\ p = 2 => TwoPhase(call)
            /\ From(p) <= claim[u].at /\ claim[u].at < claim[u].to
            /\ claim[u].to <= To(p)
      BY <1>0 DEF PhaseWork, ClaimsInRange
    <2>2. pc'[t] = ItemPC(p) => i + 1 < to
      BY <1>1, <1>4
    <2>3. From(p) <= i + 1 /\ to <= To(p) /\ (p = 2 => TwoPhase(call))
      <3>1. From(p) <= i /\ to <= To(p) /\ (p = 2 => TwoPhase(call))
        BY <1>1, <1>i, <2>1
      <3>2. From(p) \in Nat
        BY <1>0, CallFacts DEF Phases
      <3> QED
        BY <1>1, <3>1, <3>2
    <2> QED
      BY <1>1, <1>2, <1>3, <1>5, <2>1, <2>2, <2>3 DEF ClaimsInRange
  <1>19. CounterBounded(p)'
    <2>1. ~solo /\ ~SlabKind(call) => Through(p)' = Through(p)
      BY <1>12 DEF Through
    <2> QED
      BY <1>0, <1>2, <1>3, <1>11, <2>1 DEF PhaseWork, CounterBounded
  <1> QED
    BY <1>16, <1>17, <1>18, <1>19 DEF PhaseWork

\* Fetching and running items leave the description of the call alone.
LEMMA MovesDescribed ==
    ASSUME IInv, Work, Served, NEW t \in Threads, NEW p, Moves(t, p),
           UNCHANGED <<task, slab1, slab, endIndex>>
    PROVE  Described'
  <1>1. Described /\ UNCHANGED <<call, solo>> /\ pc[Main] # "setup" /\ (p = 1 \/ p = 2)
    BY DEF Work, Moves, Preparing, Phases
  <1>2. TwoPhase(call) => (pc'[Main] \in BeforeRelease <=> pc[Main] \in BeforeRelease)
    BY <1>1, MovesAhead DEF Moves
  <1>3. Now(1)' => Now(1)
    BY <1>1, <1>2 DEF Now
  <1> QED
    BY <1>1, <1>2, <1>3 DEF Described, TwoPhase

\* Items are fetched and run inside a call.
LEMMA MoveInCall ==
    ASSUME IInv, NEW t \in Threads, Fetch(t) \/ Item(t)
    PROVE  InCall
  <1>1. CASE t = Main
    BY <1>1 DEF InCall, Fetch, Item, AtFetch, AtItem
  <1>2. CASE t # Main
    <2>1. pc[t] \in Working /\ t \in Workers
      BY <1>2, ThreadFacts DEF Fetch, Item, AtFetch, AtItem, Working
    <2>2. Active
      BY <2>1, WorkingIsActive DEF IInv
    <2> QED
      BY <2>2 DEF InCall, Active, Dispatched
  <1> QED
    BY <1>1, <1>2

LEMMA MoveKeepsWork ==
    ASSUME IInv, Work, NoWrap, NEW t \in Threads, Fetch(t) \/ Item(t)
    PROVE  Work'
  <1>1. InCall
    BY MoveInCall
  <1>2. Barred'
    BY <1>1, MovesBarred
  <1>3. ASSUME Served' PROVE Described' /\ PhaseWork(1)' /\ PhaseWork(2)'
    <2>p. PICK p : p = PhaseAt(t)
      OBVIOUS
    <2>1. UNCHANGED <<call, solo>>
      BY DEF Fetch, Item, control
    <2>2. Served
      BY <1>1, <1>3, <2>1 DEF Served, Hangs
    <2>3. Moves(t, p)
      BY <2>2, <2>p, MovesFacts
    <2>4. UNCHANGED <<task, slab1, slab, endIndex>>
      BY DEF Fetch, Item, fields
    <2>5. PhaseWork(p)'
      <3>1. CASE Item(t)
        BY <2>2, <2>3, <3>1, ItemKeepsPhase
      <3>2. CASE Fetch(t) /\ SlabKind(call)
        BY <2>2, <2>3, <3>2, FetchSlabKeepsPhase
      <3>3. CASE Fetch(t) /\ ~SlabKind(call)
        BY <2>2, <2>3, <3>3, FetchCounterKeepsPhase
      <3> QED
        BY <3>1, <3>2, <3>3
    <2>6. \A q \in Phases : q # p => PhaseWork(q)'
      BY <2>2, <2>3, MovesOther
    <2>7. Described'
      BY <2>2, <2>3, <2>4, MovesDescribed
    <2> QED
      BY <2>3, <2>5, <2>6, <2>7 DEF Phases, Moves
  <1> QED
    BY <1>2, <1>3 DEF Work

-----------------------------------------------------------------------------
(* Work is inductive.                                                      *)

\* The notification reaches the sleepers; nobody is nearer to the items.
LEMMA NotifyKeepsWork ==
    ASSUME IInv, Work, NEW w \in Workers, Notify(w)
    PROVE  Work'
  <1>0. TypeOK
    BY DEF IInv
  <1>1. /\ pc[w] = "notify"
        /\ UNCHANGED <<claim, myGen, done, call, solo, fields, taskId>>
    BY DEF Notify, control
  <1>2. /\ pc'[Main] = IF pc[Main] = "asleep" THEN "lock" ELSE pc[Main]
        /\ \A v \in Workers : pc'[v] = IF v = w THEN "spin"
                              ELSE IF pc[v] = "asleep" THEN "lock" ELSE pc[v]
    BY <1>0, <1>1, ThreadFacts DEF Notify, NotifyAll, TypeOK
  <1>3. CASE ~InCall
    BY <1>2, <1>3 DEF Work, InCall, Served
  <1>4. CASE InCall
    <2>1. \A v \in Workers, p \in Phases : Ahead(v, p)' <=> Ahead(v, p)
      BY <1>1, <1>2, ThreadFacts DEF Ahead, Preparing, WorkerAhead
    <2>2. \A p \in Phases : Ahead(Main, p)' <=> Ahead(Main, p)
      BY <1>2 DEF Ahead, MainAhead, BeforeRelease, MainFirst
    <2>3. \A t \in Threads, p \in Phases : Ahead(t, p)' <=> Ahead(t, p)
      BY <2>1, <2>2, ThreadFacts
    <2>4. \A t \in Threads, p \in Phases : pc'[t] = ItemPC(p) <=> pc[t] = ItemPC(p)
      BY <1>1, <1>2, ThreadFacts DEF ItemPC
    <2>5. Barred
      BY <1>4 DEF Work
    <2>6. Barred' /\ SamePlace
      BY <1>1, <1>2, <2>1, <2>5
      DEF Barred, SamePlace, Hangs, BeforeRelease, MainFirst, Untouched, Phases
    <2> QED
      BY <1>1, <1>4, <2>3, <2>4, <2>6, ControlKeepsWork
  <1> QED
    BY <1>3, <1>4

\* A worker that takes up the task has all its items before it, as it had; one
\* that exits finds no call.
LEMMA CheckKeepsWork ==
    ASSUME IInv, Work, NEW w \in Workers, Check(w)
    PROVE  Work'
  <1>0. TypeOK /\ Protocol
    BY DEF IInv
  <1>1. pc[w] = "check" /\ UNCHANGED <<claim, done, call, solo, fields, taskId, stop>>
    BY DEF Check, control
  <1>2. CASE stop
    <2>1. Goto(w, "exited") /\ pc[Main] \in {"joining", "gone"}
      BY <1>0, <1>2 DEF Check, Protocol
    <2>2. pc'[Main] = pc[Main]
      BY <1>0, <2>1, WorkerMoves
    <2> QED
      BY <2>1, <2>2 DEF Work, InCall, Served
  <1>3. CASE ~stop
    <2>1. Goto(w, "fetch1") /\ myGen' = [myGen EXCEPT ![w] = taskId]
      BY <1>3 DEF Check
    <2>2. \A v \in Workers \ {w} : myGen'[v] = myGen[v]
      BY <1>0, <2>1 DEF TypeOK
    <2>3. pc'[w] = "fetch1" /\ myGen[w] # taskId
      BY <1>0, <1>1, <1>3, <2>1, WorkerMoves DEF Protocol
    <2>4. \A p \in Phases : Ahead(w, p)' <=> Ahead(w, p)
      BY <2>3, ThreadFacts DEF Ahead, WorkerAhead
    <2> QED
      BY <1>0, <1>1, <2>1, <2>2, <2>4, WorkerControlKeepsWork DEF AtItem
  <1> QED
    BY <1>2, <1>3

\* The other steps of a worker outside its items.
LEMMA WorkerPlacesKeepWork ==
    ASSUME IInv, Work, NEW w \in Workers, NEW label, Goto(w, label),
           UNCHANGED <<done, call, solo, claim, fields, taskId, myGen>>,
           \/ /\ pc[w] \in {"spin", "lock", "locked", "asleep", "finish"}
              /\ label \in {"spin", "lock", "locked", "asleep", "check", "notify"}
           \/ pc[w] = "arrive" /\ label = "await"
           \/ pc[w] = "await" /\ label = "fetch2"
    PROVE  Work'
  <1>0. TypeOK
    BY DEF IInv
  <1>1. pc'[w] = label /\ pc'[Main] = pc[Main]
    BY <1>0, WorkerMoves
  <1>2. CASE /\ pc[w] \in {"spin", "lock", "locked", "asleep", "finish"}
             /\ label \in {"spin", "lock", "locked", "asleep", "check", "notify"}
    <2>1. \A p \in Phases : Ahead(w, p)' <=> Ahead(w, p)
      BY <1>1, <1>2, ThreadFacts DEF Ahead, WorkerAhead, Phases
    <2> QED
      BY <1>0, <1>2, <2>1, WorkerControlKeepsWork DEF AtItem
  <1>3. CASE pc[w] = "await" /\ label = "fetch2"
    <2>1. \A p \in Phases : Ahead(w, p)' <=> Ahead(w, p)
      BY <1>1, <1>3, ThreadFacts DEF Ahead, WorkerAhead, Phases
    <2> QED
      BY <1>0, <1>3, <2>1, WorkerControlKeepsWork DEF AtItem
  <1>4. CASE pc[w] = "arrive" /\ label = "await"
    <2>1. \A p \in Phases : Ahead(w, p)' <=> Ahead(w, p)
      BY <1>1, <1>4, ThreadFacts DEF Ahead, WorkerAhead, Phases
    <2> QED
      BY <1>0, <1>4, <2>1, WorkerControlKeepsWork DEF AtItem
  <1> QED
    BY <1>2, <1>3, <1>4

\* Before the first call, and after the last, there is nothing to say.
LEMMA OutsideCall ==
    ASSUME pc'[Main] \in {"idle", "joining", "gone"}
    PROVE  Work'
  BY DEF Work, InCall, Served

LEMMA WorkStep ==
    ASSUME IInv, Work, NoWrap, [Next]_vars
    PROVE  Work'
  <1>0. TypeOK
    BY DEF IInv
  <1>1. CASE Initialize
    <2>1. pc'[Main] = "idle"
      BY <1>1, ThreadFacts DEF Initialize
    <2> QED
      BY <2>1, OutsideCall
  <1>2. CASE \E c \in Calls : Call(c)
    BY <1>2, CallKeepsWork
  <1>3. CASE Setup
    BY <1>3, SetupKeepsWork
  <1>4. CASE Publish
    BY <1>4, PublishKeepsWork
  <1>5. CASE PassBarrier
    BY <1>5, PassBarrierKeepsWork
  <1>6. CASE Between
    BY <1>6, BetweenKeepsWork
  <1>7. CASE Release
    BY <1>7, ReleaseKeepsWork
  <1>8. CASE Clear \/ ReturnSerial \/ Joined
    <2>1. \E label \in {"idle", "joining", "gone"} : Goto(Main, label)
      BY <1>8 DEF Clear, ReturnSerial, Joined
    <2> QED
      BY <1>0, <2>1, MainMoves, OutsideCall
  <1>9. CASE Destroy
    <2>1. pc'[Main] = "joining"
      BY <1>0, <1>9, ThreadFacts DEF Destroy, NotifyAll, TypeOK
    <2> QED
      BY <2>1, OutsideCall
  <1>10. CASE SeeAllDone \/ SpinOut(Main) \/ Lock(Main) \/ Sleep(Main) \/ SpuriousWakeup(Main)
    <2>1. /\ pc[Main] \in {"join", "lock", "locked", "asleep"}
          /\ \E label \in {"lock", "locked", "asleep", "clear"} : Goto(Main, label)
      BY <1>10 DEF SeeAllDone, SpinOut, Lock, Sleep, SpuriousWakeup, Proceeds
    <2>2. UNCHANGED <<claim, myGen, done, call, solo, fields, taskId>>
      BY <1>10 DEF SeeAllDone, SpinOut, Lock, Sleep, SpuriousWakeup, control
    <2> QED
      BY <2>1, <2>2, JoinKeepsWork
  <1>11. ASSUME NEW t \in Threads, Fetch(t) \/ Item(t) PROVE Work'
    BY <1>11, MoveKeepsWork
  <1>12. ASSUME NEW w \in Workers, Notify(w) PROVE Work'
    BY <1>12, NotifyKeepsWork
  <1>13. ASSUME NEW w \in Workers, Check(w) PROVE Work'
    BY <1>13, CheckKeepsWork
  <1>14. ASSUME NEW w \in Workers,
                SpinOut(w) \/ Lock(w) \/ Sleep(w) \/ SpuriousWakeup(w) \/ SeeWork(w)
         PROVE  Work'
    <2>1. /\ pc[w] \in {"spin", "lock", "locked", "asleep", "finish"}
          /\ \E label \in {"spin", "lock", "locked", "asleep", "check", "notify"} :
                Goto(w, label)
      BY <1>14, ThreadFacts DEF SpinOut, Lock, Sleep, SpuriousWakeup, SeeWork, Proceeds
    <2>2. UNCHANGED <<claim, myGen, done, call, solo, fields, taskId>>
      BY <1>14 DEF SpinOut, Lock, Sleep, SpuriousWakeup, SeeWork, control
    <2> QED
      BY <2>1, <2>2, WorkerPlacesKeepWork
  <1>15. ASSUME NEW w \in Workers, Arrive(w) \/ SeeReady(w) \/ Finish(w) PROVE Work'
    <2>1. UNCHANGED <<claim, myGen, done, call, solo, fields, taskId>>
      BY <1>15 DEF Arrive, SeeReady, Finish, control
    <2>2. CASE Arrive(w)
      BY <2>1, <2>2, WorkerPlacesKeepWork DEF Arrive
    <2>3. CASE SeeReady(w)
      BY <2>1, <2>3, WorkerPlacesKeepWork DEF SeeReady
    <2>4. CASE Finish(w)
      <3>1. pc[w] = "finish" /\ \E label \in {"spin", "notify"} : Goto(w, label)
        BY <2>4 DEF Finish
      <3> QED
        BY <2>1, <3>1, WorkerPlacesKeepWork
    <2> QED
      BY <1>15, <2>2, <2>3, <2>4
  <1>16. CASE UNCHANGED vars
    <2>1. /\ UNCHANGED <<pc, claim, myGen, done, call, solo, fields, taskId>>
      BY <1>16 DEF vars, control
    <2>2. CASE ~InCall
      BY <2>1, <2>2 DEF Work, InCall, Served
    <2>3. CASE InCall
      <3>1. \A t \in Threads, p \in Phases : Ahead(t, p)' <=> Ahead(t, p)
        BY <2>1 DEF Ahead
      <3>2. \A w \in Workers : Ahead(w, 1)' => Ahead(w, 1)
        BY <3>1, ThreadFacts DEF Phases
      <3>3. Barred' /\ SamePlace
        BY <2>1, <2>3, <3>2, MainStays DEF Work
      <3> QED
        BY <2>1, <2>3, <3>1, <3>3, ControlKeepsWork
    <2> QED
      BY <2>2, <2>3
  <1> QED
    BY <1>1, <1>2, <1>3, <1>4, <1>5, <1>6, <1>7, <1>8, <1>9, <1>10, <1>11, <1>12,
       <1>13, <1>14, <1>15, <1>16, ThreadFacts
    DEF Next, MainStep, WorkerStep, Terminated

\* Where every item is, in every reachable state: the inductive invariant of
\* the pool's work, for any number of threads.
THEOREM WorkKept == NoWrap => (Spec => [](IInv /\ Work))
  <1>1. Init => Work
    <2>1. Init => pc[Main] = "idle"
      BY ThreadFacts DEF Init
    <2> QED
      BY <2>1 DEF Work, InCall, Served
  <1>2. NoWrap /\ Work /\ IInv /\ [Next]_vars => Work'
    BY WorkStep
  <1>3. NoWrap => (NoWrap)'
    BY DEF NoWrap, NonZero
  <1> QED
    BY Inductive, <1>1, <1>2, <1>3, PTL DEF Spec

-----------------------------------------------------------------------------
(* What the callers see.                                                   *)

\* When every thread is through with a phase, the phase is complete.
LEMMA PhaseDone ==
    ASSUME Work, Served, NEW p \in Phases, \A t \in Threads : ~Ahead(t, p)
    PROVE  Complete(p)
  <1>1. ExactlyOnce(p)
    BY DEF Work, PhaseWork, Phases
  <1>2. ~Future(p)
    <2>1. ~Ahead(Main, p)
      BY ThreadFacts
    <2> QED
      BY <2>1 DEF Ahead, Future, MainAhead, MainFirst, Phases
  <1>3. \A i \in InRange(call, p) : ~Pooled(p, i)
    BY <1>2 DEF Pooled
  <1>4. \A t \in Threads : pc[t] # ItemPC(p)
    <2>1. \A t \in Threads : pc[t] = ItemPC(p) => Ahead(t, p)
      BY DEF Ahead, MainAhead, MainFirst, WorkerAhead, ItemPC, Phases
    <2> QED
      BY <2>1
  <1>5. \A t \in Threads : \A i \in InRange(call, p) : ~Holds(t, p, i)
    BY <1>4 DEF Holds
  <1> QED
    BY <1>1, <1>3, <1>5 DEF ExactlyOnce, Complete

\* A worker outside the task has nothing before it.
LEMMA IdleWorkers ==
    ASSUME Owing = {}, pc[Main] \notin Preparing
    PROVE  \A w \in Workers, p \in Phases : ~Ahead(w, p)
  BY ThreadFacts DEF Owing, Ahead, WorkerAhead, Working, Phases

LEMMA SeparationHolds ==
    ASSUME IInv, Work
    PROVE  PhaseSeparation
  <1> SUFFICES ASSUME pc[Main] = "between"
               PROVE  /\ Complete(1) /\ Untouched(2)
                      /\ ~solo => \A w \in Workers : pc[w] = "await"
    BY DEF PhaseSeparation
  <1>1. Barred /\ TwoPhase(call) /\ Untouched(2) /\ Served
    BY DEF Work, InCall, Barred, Served, MainFirst, BeforeRelease
  <1>2. ~Ahead(Main, 1)
    BY DEF Ahead, MainAhead, MainFirst
  <1>3. \A w \in Workers : ~Ahead(w, 1)
    <2>1. CASE solo
      <3>1. Owing = {}
        BY <2>1 DEF IInv, Protocol, Active
      <3> QED
        BY <3>1, IdleWorkers DEF Preparing, Phases
    <2>2. CASE ~solo
      BY <1>1, <2>2 DEF Barred, MainFirst
    <2> QED
      BY <2>1, <2>2
  <1>4. Complete(1)
    <2>1. \A t \in Threads : ~Ahead(t, 1)
      BY <1>2, <1>3, ThreadFacts
    <2> QED
      BY <1>1, <2>1, PhaseDone DEF Phases
  <1> QED
    BY <1>1, <1>4, ParkedAtBetween

LEMMA CompletionHolds ==
    ASSUME IInv, Work
    PROVE  ReturnsComplete
  <1> SUFFICES ASSUME pc[Main] \in {"clear", "return"}
               PROVE  Complete(1) /\ Complete(2)
    BY DEF ReturnsComplete
  <1>1. Served
    BY DEF Work, InCall, Barred, Served, MainFirst
  <1>2. Owing = {}
    <2>1. CASE pc[Main] = "clear"
      <3>1. Owing \in SUBSET Workers
        BY DEF Owing
      <3>2. Active => Cardinality(Owing) = 0
        BY <2>1 DEF IInv, Protocol
      <3> QED
        BY <3>1, <3>2, SubsetCount DEF IInv, Protocol
    <2>2. CASE pc[Main] = "return"
      BY <2>2 DEF IInv, Protocol, Active
    <2> QED
      BY <2>1, <2>2
  <1>3. \A p \in Phases : ~Ahead(Main, p)
    BY DEF Ahead, MainAhead, MainFirst, BeforeRelease
  <1>4. \A t \in Threads, p \in Phases : ~Ahead(t, p)
    BY <1>2, <1>3, IdleWorkers, ThreadFacts DEF Preparing
  <1> QED
    BY <1>1, <1>4, PhaseDone DEF Phases

\* When the callback runs, all of phase 1 has run once and nothing of phase 2,
\* and the workers are parked at the flag: for any number of threads, any ranges
\* and any chunks that leave the counter room.
THEOREM PhasesSeparated == NoWrap => (Spec => []PhaseSeparation)
  <1>1. IInv /\ Work => PhaseSeparation
    BY SeparationHolds
  <1> QED
    BY WorkKept, <1>1, PTL

\* A call returns only when each index of its ranges has run exactly once, and
\* no other index.
THEOREM CallsComplete == NoWrap => (Spec => []ReturnsComplete)
  <1>1. IInv /\ Work => ReturnsComplete
    BY CompletionHolds
  <1> QED
    BY WorkKept, <1>1, PTL

-----------------------------------------------------------------------------
(* The refinement of ForkJoin.                                             *)

\* No two-phase call that the pool dispatches has an empty second range: one
\* that has waits for ever at the first barrier.
SecondRanges == \A c \in Calls : TwoPhase(c) /\ c.s1 < c.e1 => HasPhase2(c)

LEMMA AlwaysServed ==
    ASSUME IInv, Work, SecondRanges, InCall
    PROVE  Served
  <1>1. call \in Calls
    BY DEF Work, Barred
  <1>2. ~solo => call.s1 < call.e1
    <2>1. ~solo => Prepared
      BY DEF IInv, TypeOK, Protocol, Prepared, Active, InCall, MainPCs, Dispatched, Preparing
    <2> QED
      BY <2>1 DEF IInv, Protocol
  <1> QED
    BY <1>1, <1>2 DEF SecondRanges, Served, Hangs

\* The stage of the call, from the release of the second phase.
LEMMA StageIs ==
    /\ ~InCall => Stage = "idle"
    /\ InCall /\ Barred =>
          Stage = IF TwoPhase(call) /\ pc[Main] \notin BeforeRelease
                  THEN "second" ELSE "first"
  BY DEF Stage, InCall, Barred, BeforeRelease, MainFirst

LEMMA StageIsNext ==
    /\ ~InCall' => Stage' = "idle"
    /\ InCall' /\ Barred' =>
          Stage' = IF TwoPhase(call') /\ pc'[Main] \notin BeforeRelease
                   THEN "second" ELSE "first"
  BY DEF Stage, InCall, Barred, BeforeRelease, MainFirst

LEMMA Ranges12 ==
    ASSUME NEW c \in CallType
    PROVE  FJ!First(c) = InRange(c, 1) /\ FJ!Second(c) = InRange(c, 2)
  <1>1. /\ c.s1 \in Indices /\ c.e1 \in Indices /\ c.s2 \in Indices /\ c.e2 \in Indices
    BY DEF CallType
  <1>2. \A s, e \in Indices : {i \in Indices : s <= i /\ i < e} = s .. e - 1
    BY IndexAssumption DEF Indices
  <1>3. FJ!First(c) = InRange(c, 1)
    BY <1>1, <1>2 DEF FJ!First, InRange
  <1>4. FJ!Second(c) = InRange(c, 2)
    <2>1. {i \in Indices : c.s2 <= i /\ i < c.e2} = c.s2 .. c.e2 - 1
      BY <1>1, <1>2
    <2>2. CASE TwoPhase(c)
      <3>1. FJ!Second(c) = {i \in Indices : c.s2 <= i /\ i < c.e2}
        BY <2>2 DEF FJ!Second, FJ!TwoPhase, TwoPhase
      <3> QED
        BY <2>1, <2>2, <3>1 DEF InRange
    <2>3. CASE ~TwoPhase(c)
      BY <2>3 DEF FJ!Second, FJ!TwoPhase, TwoPhase, InRange
    <2> QED
      BY <2>2, <2>3
  <1> QED
    BY <1>3, <1>4

\* A thread fetches: nothing the caller sees.  It runs an item: one Run.
LEMMA MoveRefines ==
    ASSUME IInv, Work, NoWrap, SecondRanges, NEW t \in Threads, Fetch(t) \/ Item(t)
    PROVE  FJ!Next \/ UNCHANGED FJ!vars
  <1>0. TypeOK /\ call \in CallType
    BY DEF IInv, TypeOK
  <1>1. InCall
    BY MoveInCall
  <1>2. Served /\ Barred
    BY <1>1, AlwaysServed DEF Work
  <1>3. PICK p : p = PhaseAt(t)
    OBVIOUS
  <1>4. Moves(t, p) /\ (p = 1 \/ p = 2)
    BY <1>2, <1>3, MovesFacts DEF Moves, Phases
  <1>5. Barred' /\ InCall'
    BY <1>1, <1>4, MovesBarred, ThreadFacts DEF InCall, Moves, FetchPC, ItemPC, Done
  <1>6. call' = call
    BY <1>4 DEF Moves
  <1>7. Stage = (IF p = 1 THEN "first" ELSE "second") /\ Stage' = Stage
    BY <1>1, <1>2, <1>4, <1>5, <1>6, StageIs, StageIsNext, MovesAhead DEF Moves, TwoPhase
  <1>8. CASE Fetch(t)
    BY <1>6, <1>7, <1>8 DEF FJ!vars, Fetch
  <1>9. CASE Item(t)
    <2>1. PICK i : i = claim[t].at
      OBVIOUS
    <2>2. /\ pc[t] = ItemPC(p) /\ i \in InRange(call, p) /\ i < claim[t].to /\ i \in Nat
          /\ done' = [done EXCEPT ![p][i] = @ + 1]
      BY <1>2, <1>4, <1>9, <2>1, ItemSees
    <2>3. Holds(t, p, i) /\ i \in Indices /\ PhaseWork(p)
      BY <1>0, <1>2, <1>4, <2>1, <2>2, CallFacts DEF Holds, Work
    <2>4. done[p][i] = 0
      BY <2>3 DEF PhaseWork, ExactlyOnce
    <2>5. done' = [done EXCEPT ![p][i] = 1]
      BY <2>2, <2>4
    <2>6. FJ!Run(p, i)
      BY <1>6, <1>7, <2>4, <2>5 DEF FJ!Run
    <2>7. i \in (IF p = 1 THEN FJ!First(call) ELSE FJ!Second(call))
      BY <1>0, <1>4, <2>2, Ranges12
    <2> QED
      BY <1>4, <2>6, <2>7 DEF FJ!Next
  <1> QED
    BY <1>8, <1>9

LEMMA CallRefines ==
    ASSUME IInv, NEW c \in Calls, Call(c)
    PROVE  FJ!Next
  <1>1. pc[Main] = "idle" /\ call' = c /\ done' = NothingDone /\ TypeOK
    BY DEF Call, IInv
  <1>2. Stage = "idle"
    BY <1>1 DEF Stage
  <1>3. pc'[Main] \in {"item1", "between", "setup"}
        \/ (pc'[Main] = "return" /\ ~TwoPhase(c))
    <2>1. \/ Goto(Main, "item1") \/ Goto(Main, "between") \/ Goto(Main, "setup")
          \/ Goto(Main, "return") /\ ~TwoPhase(c)
      BY DEF Call
    <2> QED
      BY <1>1, <2>1, MainMoves
  <1>4. Stage' = "first"
    BY <1>1, <1>3 DEF Stage
  <1>5. done' = FJ!NoRuns
    BY <1>1 DEF NothingDone, FJ!NoRuns, Phases
  <1>6. FJ!Begin(c)
    BY <1>1, <1>2, <1>4, <1>5 DEF FJ!Begin
  <1> QED
    BY <1>6 DEF FJ!Next

LEMMA BetweenRefines ==
    ASSUME IInv, Work, Between
    PROVE  FJ!Next
  <1>1. pc[Main] = "between" /\ UNCHANGED <<call, done>> /\ TypeOK /\ call \in CallType
    BY DEF Between, control, IInv, TypeOK
  <1>2. TwoPhase(call)
    BY <1>1 DEF Work, InCall, Barred
  <1>3. Stage = "first"
    BY <1>1 DEF Stage
  <1>4. \E label \in {"item2", "return", "release"} : Goto(Main, label)
    BY DEF Between
  <1>5. pc'[Main] \in {"item2", "return", "release"}
    BY <1>1, <1>4, MainMoves
  <1>6. Stage' = "second"
    BY <1>1, <1>2, <1>5 DEF Stage, TwoPhase
  <1>7. \A i \in FJ!First(call) : done[1][i] = 1
    <2>1. Complete(1)
      BY <1>1, SeparationHolds DEF PhaseSeparation
    <2> QED
      BY <1>1, <2>1, Ranges12, CallFacts DEF Complete
  <1>8. FJ!Between
    BY <1>1, <1>2, <1>3, <1>6, <1>7 DEF FJ!Between, FJ!TwoPhase, TwoPhase
  <1> QED
    BY <1>8 DEF FJ!Next

LEMMA ReturnRefines ==
    ASSUME IInv, Work, Clear \/ ReturnSerial
    PROVE  FJ!Next
  <1>1. /\ pc[Main] \in {"clear", "return"} /\ UNCHANGED <<call, done>>
        /\ TypeOK /\ call \in CallType /\ Goto(Main, "idle")
    BY DEF Clear, ReturnSerial, control, IInv, TypeOK
  <1>2. Stage = IF TwoPhase(call) THEN "second" ELSE "first"
    BY <1>1 DEF Stage
  <1>3. Stage' = "idle"
    BY <1>1, MainMoves DEF Stage
  <1>4. Complete(1) /\ Complete(2)
    BY <1>1, CompletionHolds DEF ReturnsComplete
  <1>5. /\ \A i \in FJ!First(call) : done[1][i] = 1
        /\ \A i \in FJ!Second(call) : done[2][i] = 1
    BY <1>1, <1>4, Ranges12, CallFacts DEF Complete
  <1>6. FJ!Return
    BY <1>1, <1>2, <1>3, <1>5 DEF FJ!Return, FJ!TwoPhase, TwoPhase
  <1> QED
    BY <1>6 DEF FJ!Next

\* Everything else is a stutter: the main thread stays in its stage.
LEMMA ControlRefines ==
    ASSUME IInv, Work, UNCHANGED <<call, done>>,
           \/ pc'[Main] = pc[Main]
           \/ pc[Main] \in {"idle", "joining", "gone"} /\ pc'[Main] \in {"idle", "joining", "gone"}
           \/ pc[Main] = "setup" /\ pc'[Main] = "publish"
           \/ pc[Main] = "publish" /\ pc'[Main] = "fetch1"
           \/ pc[Main] = "barrier" /\ pc'[Main] = "between"
           \/ pc[Main] = "release" /\ pc'[Main] \in {"fetch2", "join"}
           \/ /\ pc[Main] \in {"join", "lock", "locked", "asleep"}
              /\ pc'[Main] \in {"lock", "locked", "asleep", "clear"}
    PROVE  UNCHANGED FJ!vars
  <1>1. pc[Main] = "release" => TwoPhase(call)
    BY DEF Work, InCall, Barred
  <1>2. Stage' = Stage
    BY <1>1 DEF Stage, TwoPhase
  <1> QED
    BY <1>2 DEF FJ!vars

LEMMA StepRefines ==
    ASSUME IInv, Work, NoWrap, SecondRanges, [Next]_vars
    PROVE  [FJ!Next]_FJ!vars
  <1>0. TypeOK
    BY DEF IInv
  <1>1. CASE Initialize
    <2>1. pc[Main] = "idle" /\ pc'[Main] = "idle" /\ UNCHANGED <<call, done>>
      BY <1>1, ThreadFacts DEF Initialize
    <2> QED
      BY <2>1, ControlRefines
  <1>2. CASE \E c \in Calls : Call(c)
    BY <1>2, CallRefines
  <1>3. CASE Setup \/ PassBarrier \/ Release \/ Joined
    <2>1. UNCHANGED <<call, done>>
      BY <1>3 DEF Setup, PassBarrier, Release, Joined, control
    <2>2. \/ pc[Main] = "joining" /\ Goto(Main, "gone")
          \/ pc[Main] = "setup" /\ Goto(Main, "publish")
          \/ pc[Main] = "barrier" /\ Goto(Main, "between")
          \/ pc[Main] = "release" /\ \E label \in {"fetch2", "join"} : Goto(Main, label)
      BY <1>3 DEF Setup, PassBarrier, Release, Joined
    <2>3. \/ pc[Main] = "joining" /\ pc'[Main] = "gone"
          \/ pc[Main] = "setup" /\ pc'[Main] = "publish"
          \/ pc[Main] = "barrier" /\ pc'[Main] = "between"
          \/ pc[Main] = "release" /\ pc'[Main] \in {"fetch2", "join"}
      BY <1>0, <2>2, MainMoves
    <2> QED
      BY <2>1, <2>3, ControlRefines
  <1>4. CASE Publish \/ Destroy
    <2>1. /\ UNCHANGED <<call, done>>
          /\ \/ pc[Main] = "publish" /\ pc'[Main] = "fetch1"
             \/ pc[Main] = "idle" /\ pc'[Main] = "joining"
      BY <1>0, <1>4, ThreadFacts DEF Publish, Destroy, NotifyAll, TypeOK
    <2> QED
      BY <2>1, ControlRefines
  <1>5. CASE Between
    BY <1>5, BetweenRefines
  <1>6. CASE Clear \/ ReturnSerial
    BY <1>6, ReturnRefines
  <1>7. CASE SeeAllDone \/ SpinOut(Main) \/ Lock(Main) \/ Sleep(Main) \/ SpuriousWakeup(Main)
    <2>1. /\ pc[Main] \in {"join", "lock", "locked", "asleep"}
          /\ \E label \in {"lock", "locked", "asleep", "clear"} : Goto(Main, label)
      BY <1>7 DEF SeeAllDone, SpinOut, Lock, Sleep, SpuriousWakeup, Proceeds
    <2>2. UNCHANGED <<call, done>>
      BY <1>7 DEF SeeAllDone, SpinOut, Lock, Sleep, SpuriousWakeup, control
    <2>3. pc'[Main] \in {"lock", "locked", "asleep", "clear"}
      BY <1>0, <2>1, MainMoves
    <2> QED
      BY <2>1, <2>2, <2>3, ControlRefines
  <1>8. ASSUME NEW t \in Threads, Fetch(t) \/ Item(t) PROVE [FJ!Next]_FJ!vars
    BY <1>8, MoveRefines
  <1>9. ASSUME NEW w \in Workers, Notify(w) PROVE [FJ!Next]_FJ!vars
    <2>1. /\ UNCHANGED <<call, done>>
          /\ pc'[Main] = pc[Main] \/ (pc[Main] = "asleep" /\ pc'[Main] = "lock")
      BY <1>0, <1>9, ThreadFacts DEF Notify, NotifyAll, TypeOK, control
    <2> QED
      BY <2>1, ControlRefines
  <1>10. ASSUME NEW w \in Workers,
                \/ SpinOut(w) \/ Lock(w) \/ Sleep(w) \/ SpuriousWakeup(w) \/ SeeWork(w)
                \/ Check(w) \/ Arrive(w) \/ SeeReady(w) \/ Finish(w)
         PROVE  [FJ!Next]_FJ!vars
    <2>1. UNCHANGED <<call, done>> /\ \E label : Goto(w, label)
      BY <1>10 DEF SpinOut, Lock, Sleep, SpuriousWakeup, SeeWork, Check, Arrive, SeeReady,
                   Finish, control
    <2>2. pc'[Main] = pc[Main]
      BY <1>0, <2>1, WorkerMoves
    <2> QED
      BY <2>1, <2>2, ControlRefines
  <1>11. CASE UNCHANGED vars
    BY <1>11, ControlRefines DEF vars, control
  <1> QED
    BY <1>1, <1>2, <1>3, <1>4, <1>5, <1>6, <1>7, <1>8, <1>9, <1>10, <1>11, ThreadFacts
    DEF Next, MainStep, WorkerStep, Terminated

\* The pool implements ForkJoin: whatever the number of threads and the calls, each
\* call is a fork-join of its ranges.
THEOREM PoolIsForkJoin == NoWrap /\ SecondRanges => (Spec => ImplementsForkJoin)
  <1>1. Init => FJ!Init
    <2>1. Init => pc[Main] = "idle" /\ done = NothingDone
      BY ThreadFacts DEF Init
    <2>2. NothingDone = FJ!NoRuns
      BY DEF NothingDone, FJ!NoRuns, Phases
    <2> QED
      BY <2>1, <2>2 DEF FJ!Init, Stage
  <1>2. NoWrap /\ SecondRanges /\ IInv /\ Work /\ [Next]_vars => [FJ!Next]_FJ!vars
    BY StepRefines
  <1>3. NoWrap /\ SecondRanges => (NoWrap /\ SecondRanges)'
    BY DEF NoWrap, NonZero, SecondRanges, HasPhase2
  <1> QED
    BY WorkKept, <1>1, <1>2, <1>3, PTL DEF Spec, ImplementsForkJoin, FJ!Spec
=============================================================================
