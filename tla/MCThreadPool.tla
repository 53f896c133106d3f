---------------------------- MODULE MCThreadPool ----------------------------
(* Small instances of ThreadPool for TLC.                                  *)
EXTENDS ThreadPoolForkJoin

MCCall(k, s1, e1, c1, s2, e2, c2) ==
    [kind |-> k, s1 |-> s1, e1 |-> e1, c1 |-> c1, s2 |-> s2, e2 |-> e2, c2 |-> c2]

\* Each kind once, with ranges a pool of two or three threads cannot split
\* evenly, start offsets, and chunks that overshoot; and one call small enough
\* to run serially.
MCMixedCalls ==
    { MCCall("index",  0, 3, 0, 0, 0, 0),
      MCCall("slab",   1, 4, 0, 0, 0, 0),
      MCCall("steal",  0, 4, 3, 0, 0, 0),
      MCCall("slab2",  0, 2, 0, 1, 3, 0),
      MCCall("steal2", 0, 2, 1, 0, 1, 0),
      MCCall("index",  2, 4, 0, 0, 0, 0) }
=============================================================================
