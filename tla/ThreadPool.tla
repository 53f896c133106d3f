----------------------------- MODULE ThreadPool -----------------------------
(***************************************************************************)
(* The persistent-worker thread pool (ThreadPool.hpp, ThreadPool.cpp).     *)
(*                                                                         *)
(* numThreads_ - 1 workers live for the whole program; the main thread     *)
(* publishes a task by writing plain fields and then bumping the           *)
(* generation taskId_, takes part in the work, and waits until every       *)
(* worker has acknowledged the task by decrementing pendingWorkers_.       *)
(* Five operations share this protocol: parallelFor (one index per         *)
(* fetch_add), parallelForSlab (static slabs), parallelForSteal (chunks),  *)
(* and the two-phase parallelForSlab2 and parallelForSteal2, which put a   *)
(* spin barrier and a callback of the main thread between two ranges.      *)
(*                                                                         *)
(* One step is one access to shared state, or one item, or a run of plain  *)
(* accesses that the protocol promises nobody else touches meanwhile (the  *)
(* promise is NoTaskDataRace below).  The atomics are sequentially         *)
(* consistent here: every plain field is published by a release the        *)
(* reader acquires.  The mutex is held exactly by the thread at "locked",  *)
(* between the test of its wait predicate and its sleep; the other         *)
(* critical sections are single steps.                                     *)
(*                                                                         *)
(* Not modelled: hasWork_ and blockedWorkers_ (written, never read),       *)
(* CPU pinning, the time spent spinning, items that throw.                 *)
(***************************************************************************)
EXTENDS Naturals, FiniteSets

CONSTANTS
    NumThreads,    \* numThreads_: the workers and the main thread
    IndexModulus,  \* 2^32 in the code: the range of the uint32_t indices
    MaxTasks,      \* bound: published tasks, the limit of taskId_ here
    Calls          \* the calls the main thread makes, see CallType

Kinds == {"index", "slab", "steal", "slab2", "steal2"}
Indices == 0 .. IndexModulus - 1
CallType == [kind : Kinds, s1 : Indices, e1 : Indices, c1 : Indices,
             s2 : Indices, e2 : Indices, c2 : Indices]

ASSUME ThreadsAssumption == NumThreads \in Nat \ {0}
ASSUME IndexAssumption == IndexModulus \in Nat \ {0, 1}
ASSUME TasksAssumption == MaxTasks \in Nat
ASSUME CallsAssumption == Calls \subseteq CallType

NumWorkers == NumThreads - 1
Main == NumWorkers               \* the main thread owns the last slab
Threads == 0 .. NumWorkers
Workers == Threads \ {Main}
Phases == {1, 2}

VARIABLES
    pc,         \* where each thread is
    initialized,\* initialized_
    call,       \* the arguments of the call the main thread is in
    solo,       \* that call took one of the serial early returns
    claim,      \* per thread, the rest of its slab or chunk: [at, to)
    task,       \* task_, the schedule flags, the chunk sizes, phase2End_
    slab1,      \* the range partitioned into slabStart1_ / slabEnd1_
    slab,       \* the range partitioned into slabStart_ / slabEnd_
    nextIndex,  \* nextIndex_
    endIndex,   \* endIndex_
    taskId,     \* taskId_, the generation
    myGen,      \* per worker, the generation it last took up
    pending,    \* pendingWorkers_
    arrived,    \* phase1Arrived_
    ready,      \* phase2Ready_
    depth,      \* reentrantDepth_
    stop,       \* stop_
    done        \* how often each item of the current call has run

fields == <<task, slab1, slab, nextIndex, endIndex>>
control == <<initialized, call, solo, taskId, stop, depth>>
vars == <<pc, claim, myGen, pending, arrived, ready, done, fields, control>>

-----------------------------------------------------------------------------
(* Arithmetic of the ranges.                                               *)

Least(a, b) == IF a <= b THEN a ELSE b

\* Slips of the two operators below, for the runs that must notice them.
SlabFromNoRemainder(r, t) == r.s + t * ((r.e - r.s) \div NumThreads)
ChunkAtUnclamped(idx, chunk, limit) ==
    [at |-> idx, to |-> (idx + chunk) % IndexModulus]

\* partitionSlabs, in closed form: thread t of range r; the first
\* (total % nT) threads get one item more.
SlabFrom(r, t) == LET total == r.e - r.s
                  IN r.s + t * (total \div NumThreads)
                         + Least(t, total % NumThreads)
SlabOf(r, t) == [at |-> SlabFrom(r, t), to |-> SlabFrom(r, t + 1)]

\* The chunk that fetch_add(chunk) returned, clamped to the limit; the sum
\* idx + chunk is a uint32_t.
ChunkAt(idx, chunk, limit) ==
    [at |-> idx, to |-> Least((idx + chunk) % IndexModulus, limit)]

NonZero(chunk) == IF chunk = 0 THEN 1 ELSE chunk
Span(s, e) == [s |-> s, e |-> e]
Empty(c) == c.at >= c.to

TwoPhase(c) == c.kind \in {"slab2", "steal2"}
HasPhase2(c) == TwoPhase(c) /\ c.s2 < c.e2
SlabKind(c) == c.kind \in {"slab", "slab2"}
StealKind(c) == c.kind \in {"steal", "steal2"}

\* The serial early returns, in particular the re-entrancy guard: with the
\* main thread inside a dispatch, a call of any thread runs inline.
RunsSerially(c) == \/ ~initialized
                   \/ NumThreads <= 1
                   \/ c.s1 >= c.e1
                   \/ ~TwoPhase(c) /\ c.e1 - c.s1 <= NumThreads
                   \/ depth > 0

-----------------------------------------------------------------------------
(* What a thread reads when it fetches work: a worker the shared fields,   *)
(* the main thread its own arguments and slabs.                            *)

UsesSlab(t) == IF t = Main THEN SlabKind(call) ELSE task.slab
MySlab(t, p) == LET first == IF t = Main THEN TwoPhase(call) ELSE task.two
                IN SlabOf(IF p = 1 /\ first THEN slab1 ELSE slab, t)
Limit(t, p) == IF t = Main THEN (IF p = 1 THEN call.e1 ELSE call.e2)
               ELSE IF p = 1 THEN endIndex ELSE task.end2
Stride(t, p) ==
    IF t = Main
    THEN IF call.kind = "index" THEN 1
         ELSE NonZero(IF p = 1 THEN call.c1 ELSE call.c2)
    ELSE IF ~task.steal THEN 1
         ELSE IF p = 1 THEN task.chunk ELSE task.chunk2

\* Where a thread goes when phase p has no more items for it.  A worker
\* looks at the published flags, the main thread runs its own function.
AfterPhase(t, p) ==
    IF t = Main
    THEN IF p = 2 \/ ~TwoPhase(call)
         THEN IF solo THEN "return" ELSE "join"
         ELSE IF solo THEN "between" ELSE "barrier"
    ELSE IF p = 1 /\ (IF task.slab THEN task.two ELSE task.two2)
         THEN "arrive" ELSE "finish"

AtFetch == {"fetch1", "fetch2"}
AtItem == {"item1", "item2"}
PhaseAt(t) == IF pc[t] \in {"fetch1", "item1"} THEN 1 ELSE 2
FetchPC(p) == IF p = 1 THEN "fetch1" ELSE "fetch2"
ItemPC(p) == IF p = 1 THEN "item1" ELSE "item2"

MutexFree == \A t \in Threads : pc[t] # "locked"
NotifyAll(f) == [t \in Threads |-> IF f[t] = "asleep" THEN "lock" ELSE f[t]]
Goto(t, label) == pc' = [pc EXCEPT ![t] = label]

-----------------------------------------------------------------------------
NoTask == [slab |-> FALSE, two |-> FALSE, steal |-> FALSE, two2 |-> FALSE,
           chunk |-> 1, chunk2 |-> 1, end2 |-> 0]
NoCall == [kind |-> "index", s1 |-> 0, e1 |-> 0, c1 |-> 0,
           s2 |-> 0, e2 |-> 0, c2 |-> 0]
NothingDone == [p \in Phases |-> [i \in Indices |-> 0]]

Init ==
    /\ pc = [t \in Threads |-> IF t = Main THEN "idle" ELSE "unborn"]
    /\ initialized = FALSE
    /\ call = NoCall
    /\ solo = TRUE
    /\ claim = [t \in Threads |-> [at |-> 0, to |-> 0]]
    /\ task = NoTask
    /\ slab1 = Span(0, 0) /\ slab = Span(0, 0)
    /\ nextIndex = 0 /\ endIndex = 0
    /\ taskId = 0 /\ myGen = [w \in Workers |-> 0]
    /\ pending = 0 /\ arrived = 0 /\ ready = FALSE
    /\ depth = 0 /\ stop = FALSE
    /\ done = NothingDone

\* initialize(): the workers start, each at generation 0.
Initialize ==
    /\ pc[Main] = "idle" /\ ~initialized
    /\ initialized' = TRUE
    /\ pc' = [t \in Threads |-> IF t = Main THEN "idle" ELSE "spin"]
    /\ UNCHANGED <<claim, myGen, pending, arrived, ready, done, fields,
                   call, solo, taskId, stop, depth>>

-----------------------------------------------------------------------------
(* Plausible slips of the actions below.  No run of the program takes one; *)
(* each replaces its action to see that a property notices.                *)

\* The worker takes up the task but does not record its generation.
CheckForgetsGeneration(w) ==
    /\ pc[w] = "check" /\ Goto(w, IF stop THEN "exited" ELSE "fetch1")
    /\ UNCHANGED <<claim, myGen, pending, arrived, ready, done, fields, control>>

\* The final wait ends one acknowledgement too early.
SeeAllDoneEarly ==
    /\ pc[Main] = "join" /\ pending <= 1 /\ Goto(Main, "clear")
    /\ UNCHANGED <<claim, myGen, pending, arrived, ready, done, fields, control>>

\* The generation is bumped without the mutex.
PublishUnlocked ==
    /\ pc[Main] = "publish" /\ taskId' = taskId + 1
    /\ pc' = NotifyAll([pc EXCEPT ![Main] = "fetch1"])
    /\ UNCHANGED <<claim, myGen, pending, arrived, ready, done, fields,
                   initialized, call, solo, stop, depth>>

\* The sleepers are not notified of a task, or of the destruction.
PublishSilent ==
    /\ pc[Main] = "publish" /\ MutexFree
    /\ taskId' = taskId + 1 /\ Goto(Main, "fetch1")
    /\ UNCHANGED <<claim, myGen, pending, arrived, ready, done, fields,
                   initialized, call, solo, stop, depth>>
DestroySilent ==
    /\ pc[Main] = "idle" /\ initialized /\ ~stop /\ MutexFree
    /\ stop' = TRUE /\ Goto(Main, "joining")
    /\ UNCHANGED <<claim, myGen, pending, arrived, ready, done, fields,
                   initialized, call, solo, taskId, depth>>

\* Barrier 1 does not wait for the last worker.
PassBarrierEarly ==
    /\ pc[Main] = "barrier" /\ arrived >= NumWorkers - 1
    /\ Goto(Main, "between")
    /\ UNCHANGED <<claim, myGen, pending, arrived, ready, done, fields, control>>

\* A worker runs into phase 2 without waiting for phase2Ready_.
SeeReadyAtOnce(w) ==
    /\ pc[w] = "await" /\ Goto(w, "fetch2")
    /\ UNCHANGED <<claim, myGen, pending, arrived, ready, done, fields, control>>

-----------------------------------------------------------------------------
(* The main thread.                                                        *)

\* Entry of the five operations: the serial early returns, or the
\* re-entrancy guard is taken and the dispatch begins.
Call(c) ==
    /\ pc[Main] = "idle"
    /\ ~stop
    /\ call' = c
    /\ solo' = RunsSerially(c)
    /\ done' = NothingDone
    /\ IF RunsSerially(c)
       THEN /\ claim' = [claim EXCEPT ![Main] = [at |-> c.s1, to |-> c.e1]]
            /\ depth' = depth
            /\ Goto(Main, IF c.s1 < c.e1 THEN "item1"
                          ELSE IF TwoPhase(c) THEN "between" ELSE "return")
       ELSE /\ taskId < MaxTasks
            /\ claim' = claim
            /\ depth' = 1
            /\ Goto(Main, "setup")
    /\ UNCHANGED <<myGen, pending, arrived, ready, fields, initialized,
                   taskId, stop>>

\* The plain stores that describe the task, made before it is published.
Setup ==
    /\ pc[Main] = "setup"
    /\ task' = [slab |-> SlabKind(call),
                two |-> call.kind = "slab2" /\ HasPhase2(call),
                steal |-> StealKind(call),
                two2 |-> call.kind = "steal2" /\ HasPhase2(call),
                chunk |-> IF StealKind(call) THEN NonZero(call.c1)
                          ELSE task.chunk,
                chunk2 |-> IF call.kind = "steal2" THEN NonZero(call.c2)
                           ELSE task.chunk2,
                end2 |-> IF TwoPhase(call) THEN call.e2 ELSE task.end2]
    /\ slab1' = IF call.kind = "slab2" THEN Span(call.s1, call.e1) ELSE slab1
    /\ slab' = IF call.kind = "slab" THEN Span(call.s1, call.e1) ELSE slab
    /\ IF call.kind = "slab2"
       THEN UNCHANGED <<nextIndex, endIndex>>
       ELSE nextIndex' = call.s1 /\ endIndex' = call.e1
    /\ IF TwoPhase(call)
       THEN ready' = FALSE /\ arrived' = 0
       ELSE UNCHANGED <<ready, arrived>>
    /\ pending' = NumWorkers
    /\ Goto(Main, "publish")
    /\ UNCHANGED <<claim, myGen, done, control>>

\* Under the mutex: the generation is bumped, the sleepers are notified.
Publish ==
    /\ pc[Main] = "publish" /\ MutexFree
    /\ taskId' = taskId + 1
    /\ pc' = NotifyAll([pc EXCEPT ![Main] = "fetch1"])
    /\ UNCHANGED <<claim, myGen, pending, arrived, ready, done, fields,
                   initialized, call, solo, stop, depth>>

\* Barrier 1 of the two-phase calls, a pure spin on phase1Arrived_.
PassBarrier ==
    /\ pc[Main] = "barrier" /\ arrived >= NumWorkers
    /\ Goto(Main, "between")
    /\ UNCHANGED <<claim, myGen, pending, arrived, ready, done, fields, control>>

\* The callback has run; in a dispatch the main thread now points the shared
\* bounds at phase 2, before it releases the flag.
Between ==
    /\ pc[Main] = "between"
    /\ IF solo
       THEN /\ claim' = [claim EXCEPT ![Main] = [at |-> call.s2, to |-> call.e2]]
            /\ Goto(Main, IF HasPhase2(call) THEN "item2" ELSE "return")
            /\ UNCHANGED fields
       ELSE /\ Goto(Main, "release")
            /\ slab' = IF HasPhase2(call) /\ SlabKind(call)
                       THEN Span(call.s2, call.e2) ELSE slab
            /\ IF HasPhase2(call) /\ StealKind(call)
               THEN nextIndex' = call.s2 /\ endIndex' = call.e2
               ELSE UNCHANGED <<nextIndex, endIndex>>
            /\ UNCHANGED <<claim, task, slab1>>
    /\ UNCHANGED <<myGen, pending, arrived, ready, done, control>>

\* phase2Ready_.store(true, release)
Release ==
    /\ pc[Main] = "release"
    /\ ready' = TRUE
    /\ Goto(Main, IF HasPhase2(call) THEN "fetch2" ELSE "join")
    /\ UNCHANGED <<claim, myGen, pending, arrived, done, fields, control>>

\* The spin of the final wait sees pendingWorkers_ = 0.
SeeAllDone ==
    /\ pc[Main] = "join" /\ pending = 0
    /\ Goto(Main, "clear")
    /\ UNCHANGED <<claim, myGen, pending, arrived, ready, done, fields, control>>

\* The flags the next call must not inherit are cleared, the guard dropped.
Clear ==
    /\ pc[Main] = "clear"
    /\ task' = [task EXCEPT
                  !.slab = @ /\ ~SlabKind(call) /\ ~TwoPhase(call),
                  !.two = @ /\ ~TwoPhase(call),
                  !.steal = @ /\ ~StealKind(call),
                  !.two2 = @ /\ ~StealKind(call)]
    /\ IF TwoPhase(call)
       THEN ready' = FALSE /\ arrived' = 0
       ELSE UNCHANGED <<ready, arrived>>
    /\ depth' = 0
    /\ Goto(Main, "idle")
    /\ UNCHANGED <<claim, myGen, pending, done, slab1, slab, nextIndex, endIndex,
                   initialized, call, solo, taskId, stop>>

\* A call that ran serially returns without touching the pool's state.
ReturnSerial ==
    /\ pc[Main] = "return"
    /\ Goto(Main, "idle")
    /\ UNCHANGED <<claim, myGen, pending, arrived, ready, done, fields, control>>

\* ~ThreadPool(): under the mutex stop_ is set; everybody asleep is notified.
Destroy ==
    /\ pc[Main] = "idle" /\ initialized /\ ~stop /\ MutexFree
    /\ stop' = TRUE
    /\ pc' = NotifyAll([pc EXCEPT ![Main] = "joining"])
    /\ UNCHANGED <<claim, myGen, pending, arrived, ready, done, fields,
                   initialized, call, solo, taskId, depth>>

\* Every worker has been joined.
Joined ==
    /\ pc[Main] = "joining" /\ \A w \in Workers : pc[w] = "exited"
    /\ Goto(Main, "gone")
    /\ UNCHANGED <<claim, myGen, pending, arrived, ready, done, fields, control>>

-----------------------------------------------------------------------------
(* Both: fetching and running items, and the two condition-variable waits. *)

\* A slab is taken once; a chunk by fetch_add, until it returns an index at
\* or past the limit.
Fetch(t) ==
    LET p == PhaseAt(t)
        idx == nextIndex
        stride == Stride(t, p)
        got == IF UsesSlab(t) THEN MySlab(t, p)
               ELSE IF idx >= Limit(t, p) THEN [at |-> idx, to |-> idx]
               ELSE ChunkAt(idx, stride, Limit(t, p))
    IN  /\ pc[t] \in AtFetch
        /\ nextIndex' = IF UsesSlab(t) THEN idx
                        ELSE (idx + stride) % IndexModulus
        /\ claim' = [claim EXCEPT ![t] = got]
        /\ Goto(t, IF ~Empty(got) THEN ItemPC(p)
                   ELSE IF UsesSlab(t) \/ idx >= Limit(t, p) THEN AfterPhase(t, p)
                   ELSE FetchPC(p))
        /\ UNCHANGED <<myGen, pending, arrived, ready, done,
                       task, slab1, slab, endIndex, control>>

\* One item of the claimed slab or chunk (or of a serial loop) runs.
Item(t) ==
    LET p == PhaseAt(t)
        i == claim[t].at
    IN  /\ pc[t] \in AtItem
        /\ done' = [done EXCEPT ![p][i] = @ + 1]
        /\ claim' = [claim EXCEPT ![t].at = i + 1]
        /\ Goto(t, IF i + 1 < claim[t].to THEN ItemPC(p)
                   ELSE IF (t = Main /\ solo) \/ UsesSlab(t) THEN AfterPhase(t, p)
                   ELSE FetchPC(p))
        /\ UNCHANGED <<myGen, pending, arrived, ready, fields, control>>

\* The predicates of the two waits.
MayProceed(t) == IF t = Main THEN pending = 0 ELSE stop \/ taskId # myGen[t]
Proceeds(t) == IF t = Main THEN "clear" ELSE "check"

\* spinWait gives up: 4096 polls saw nothing.  The two-phase calls spin on.
SpinOut(t) ==
    /\ IF t = Main THEN pc[t] = "join" /\ ~TwoPhase(call) ELSE pc[t] = "spin"
    /\ ~MayProceed(t)
    /\ Goto(t, "lock")
    /\ UNCHANGED <<claim, myGen, pending, arrived, ready, done, fields, control>>

\* The mutex is taken, on entry or on waking, and the predicate tested.
Lock(t) ==
    /\ pc[t] = "lock" /\ MutexFree
    /\ Goto(t, IF MayProceed(t) THEN Proceeds(t) ELSE "locked")
    /\ UNCHANGED <<claim, myGen, pending, arrived, ready, done, fields, control>>

\* cv_.wait: the mutex is given up as the thread falls asleep.
Sleep(t) ==
    /\ pc[t] = "locked"
    /\ Goto(t, "asleep")
    /\ UNCHANGED <<claim, myGen, pending, arrived, ready, done, fields, control>>

\* A wakeup nobody sent, which std::condition_variable permits.
SpuriousWakeup(t) ==
    /\ pc[t] = "asleep"
    /\ Goto(t, "lock")
    /\ UNCHANGED <<claim, myGen, pending, arrived, ready, done, fields, control>>

-----------------------------------------------------------------------------
(* workerMain.                                                             *)

\* The spin sees stop_ or a new generation.
SeeWork(w) ==
    /\ pc[w] = "spin" /\ MayProceed(w)
    /\ Goto(w, "check")
    /\ UNCHANGED <<claim, myGen, pending, arrived, ready, done, fields, control>>

\* stop_ is looked at first; then the generation is acknowledged.
Check(w) ==
    /\ pc[w] = "check"
    /\ IF stop
       THEN Goto(w, "exited") /\ UNCHANGED myGen
       ELSE Goto(w, "fetch1") /\ myGen' = [myGen EXCEPT ![w] = taskId]
    /\ UNCHANGED <<claim, pending, arrived, ready, done, fields, control>>

\* End of phase 1 of a two-phase task: phase1Arrived_ counts the worker.
Arrive(w) ==
    /\ pc[w] = "arrive"
    /\ arrived' = arrived + 1
    /\ Goto(w, "await")
    /\ UNCHANGED <<claim, myGen, pending, ready, done, fields, control>>

\* The pure spin on phase2Ready_ ends.
SeeReady(w) ==
    /\ pc[w] = "await" /\ ready
    /\ Goto(w, "fetch2")
    /\ UNCHANGED <<claim, myGen, pending, arrived, ready, done, fields, control>>

\* pendingWorkers_.fetch_sub(1); the last one has the main thread to notify.
Finish(w) ==
    /\ pc[w] = "finish"
    /\ pending' = pending - 1
    /\ Goto(w, IF pending = 1 THEN "notify" ELSE "spin")
    /\ UNCHANGED <<claim, myGen, arrived, ready, done, fields, control>>

\* notify_all under the mutex: idle workers are woken along with main.
Notify(w) ==
    /\ pc[w] = "notify" /\ MutexFree
    /\ pc' = NotifyAll([pc EXCEPT ![w] = "spin"])
    /\ UNCHANGED <<claim, myGen, pending, arrived, ready, done, fields, control>>

\* The pool is destroyed (or was never started) and the program ends.
Terminated == pc[Main] = "gone" /\ UNCHANGED vars

MainStep == \/ Setup \/ Publish \/ PassBarrier \/ Between \/ Release
            \/ SeeAllDone \/ Clear \/ ReturnSerial \/ Joined
            \/ Fetch(Main) \/ Item(Main) \/ SpinOut(Main) \/ Sleep(Main)
WorkerStep(w) == \/ SeeWork(w) \/ Check(w) \/ Arrive(w) \/ SeeReady(w)
                 \/ Finish(w) \/ Notify(w)
                 \/ Fetch(w) \/ Item(w) \/ SpinOut(w) \/ Sleep(w)

Next == \/ Initialize
        \/ \E c \in Calls : Call(c)
        \/ MainStep \/ Destroy
        \/ \E w \in Workers : WorkerStep(w)
        \/ \E t \in Threads : Lock(t) \/ SpuriousWakeup(t)
        \/ Terminated

Spec == Init /\ [][Next]_vars

\* The scheduler runs every thread; a thread that asks for the mutex again
\* and again gets it (no critical section here blocks).  Nothing obliges the
\* program to make a call, or to end.
Fairness == /\ WF_vars(MainStep) /\ SF_vars(Publish) /\ SF_vars(Lock(Main))
            /\ \A w \in Workers : /\ WF_vars(WorkerStep(w))
                                  /\ SF_vars(Notify(w))
                                  /\ SF_vars(Lock(w))
FairSpec == Spec /\ Fairness

-----------------------------------------------------------------------------
MainPCs == {"idle", "setup", "publish", "fetch1", "item1", "barrier", "between",
            "release", "fetch2", "item2", "join", "lock", "locked", "asleep",
            "clear", "return", "joining", "gone"}
WorkerPCs == {"unborn", "spin", "lock", "locked", "asleep", "check", "fetch1",
              "item1", "arrive", "await", "fetch2", "item2", "finish", "notify",
              "exited"}
Ranges == {r \in [s : Indices, e : Indices] : r.s <= r.e}
TaskType == [slab : BOOLEAN, two : BOOLEAN, steal : BOOLEAN, two2 : BOOLEAN,
             chunk : Indices, chunk2 : Indices, end2 : Indices]

\* The worker has taken up a task and not yet acknowledged it: it reads the
\* plain task fields.
Working == {"fetch1", "item1", "arrive", "await", "fetch2", "item2", "finish"}

\* The stretches of a dispatch: before and after the generation is bumped.
Preparing == {"setup", "publish"}
Dispatched == {"fetch1", "item1", "barrier", "between", "release", "fetch2",
               "item2", "join", "lock", "locked", "asleep", "clear"}

\* The workers that still owe the current task an acknowledgement.
Owing == {w \in Workers : myGen[w] # taskId \/ pc[w] \in Working}

InRange(c, p) == IF p = 1 THEN c.s1 .. c.e1 - 1
                 ELSE IF TwoPhase(c) THEN c.s2 .. c.e2 - 1 ELSE {}
Complete(p) == \A i \in Indices :
                 done[p][i] = IF i \in InRange(call, p) THEN 1 ELSE 0
Untouched(p) == \A i \in Indices : done[p][i] = 0

\* Every variable has the type of the field it stands for; in particular
\* pendingWorkers_ and phase1Arrived_ never leave 0 .. numWorkers_, so the
\* unsigned fetch_sub of the workers never wraps.
TypeOK ==
    /\ pc \in [Threads -> MainPCs \cup WorkerPCs]
    /\ pc[Main] \in MainPCs
    /\ \A w \in Workers : pc[w] \in WorkerPCs
    /\ initialized \in BOOLEAN /\ solo \in BOOLEAN /\ stop \in BOOLEAN
    /\ call \in CallType
    /\ claim \in [Threads -> [at : Nat, to : Nat]]
    /\ task \in TaskType
    /\ slab1 \in Ranges /\ slab \in Ranges
    /\ nextIndex \in Indices /\ endIndex \in Indices
    /\ taskId \in 0 .. MaxTasks
    /\ myGen \in [Workers -> 0 .. MaxTasks]
    /\ pending \in 0 .. NumWorkers
    /\ arrived \in 0 .. NumWorkers
    /\ ready \in BOOLEAN
    /\ depth \in {0, 1}
    /\ done \in [Phases -> [Indices -> Nat]]

\* pendingWorkers_ counts exactly the workers that have yet to acknowledge
\* the published task, whether they have seen it or still sleep; when the
\* main thread is outside a dispatch no worker is inside one.
CompletionCount ==
    /\ pc[Main] \in Dispatched /\ ~solo => pending = Cardinality(Owing)
    /\ (pc[Main] \in Preparing \cup {"clear"}) \/ solo => Owing = {}

\* The plain fields of the task (task_, the schedule flags, the slab bounds,
\* endIndex_) are written only while no worker is at a point that reads them:
\* phase 2 may be described while the workers wait for phase2Ready_, all else
\* only when none of them is inside a task.
NoTaskDataRace ==
    [][ /\ (task' # task \/ slab1' # slab1) =>
             \A w \in Workers : pc[w] \notin Working
        /\ (slab' # slab \/ endIndex' # endIndex) =>
             \A w \in Workers : pc[w] \notin Working \ {"await"}
      ]_vars

\* No wakeup is lost.  A worker asleep has nothing to do (its generation is
\* the current one and the pool is not stopping); the main thread asleep still
\* has an acknowledgement coming, or a worker about to notify it.
NoLostWakeup ==
    /\ \A w \in Workers : pc[w] \in {"locked", "asleep"} =>
          myGen[w] = taskId /\ ~stop
    /\ pc[Main] \in {"locked", "asleep"} =>
          pending # 0 \/ \E w \in Workers : pc[w] = "notify"

\* While any thread can run an item of a dispatch, or the callback between
\* its phases, reentrantDepth_ is up: a nested call from there runs inline
\* instead of overwriting the task being worked on.
NestedCallsRunInline ==
    /\ \A w \in Workers : pc[w] \in Working => depth = 1
    /\ pc[Main] \in Preparing \cup Dispatched /\ ~solo => depth = 1

\* When `between` runs, every index of phase 1 has run exactly once and none
\* of phase 2 has; a dispatch has all its workers parked at phase2Ready_.
PhaseSeparation ==
    pc[Main] = "between" =>
        /\ Complete(1) /\ Untouched(2)
        /\ ~solo => \A w \in Workers : pc[w] = "await"

\* When a call returns to its caller every index of its ranges has run exactly
\* once, and no other index at all.
ReturnsComplete ==
    pc[Main] \in {"clear", "return"} => Complete(1) /\ Complete(2)

\* Every call returns, whatever sleeps, spins and wakes it meets.
CallReturns == pc[Main] \in Preparing \cup Dispatched \cup {"return"}
                 ~> pc[Main] = "idle"

\* The destructor joins every worker, spinning or asleep.
ShutdownCompletes == pc[Main] = "joining" ~> pc[Main] = "gone"
=============================================================================
