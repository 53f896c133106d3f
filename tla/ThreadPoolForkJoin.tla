------------------------- MODULE ThreadPoolForkJoin -------------------------
(***************************************************************************)
(* The pool implements ForkJoin: the refinement mapping reads the stage of *)
(* the call off the main thread's position.                                *)
(***************************************************************************)
EXTENDS ThreadPool

Stage ==
    CASE pc[Main] \in {"idle", "joining", "gone"} -> "idle"
      [] pc[Main] \in {"setup", "publish", "fetch1", "item1", "barrier", "between"} ->
             "first"
      [] pc[Main] \in {"release", "fetch2", "item2"} -> "second"
      [] OTHER -> IF TwoPhase(call) THEN "second" ELSE "first"

FJ == INSTANCE ForkJoin WITH stage <- Stage, runs <- done

\* Each call of the pool is a fork-join of its ranges: no item runs twice, none
\* is left out, no item of phase 2 runs before the callback and none of phase 1
\* after it, and the call returns only when all have run.
ImplementsForkJoin == FJ!Spec
=============================================================================
