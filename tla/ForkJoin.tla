------------------------------ MODULE ForkJoin ------------------------------
(***************************************************************************)
(* What a call of the thread pool promises its caller: the items of the    *)
(* first range run once each, in any order; then, for the two-phase calls, *)
(* the callback; then the items of the second range; then the call         *)
(* returns.  No threads, no scheduling.                                    *)
(***************************************************************************)
EXTENDS Naturals

CONSTANTS Indices, Calls
VARIABLES
    stage,   \* "idle", "first" or "second"
    call,    \* the call being served
    runs     \* how often each item of it has run

vars == <<stage, call, runs>>

TwoPhase(c) == c.kind \in {"slab2", "steal2"}
First(c) == {i \in Indices : c.s1 <= i /\ i < c.e1}
Second(c) == {i \in Indices : TwoPhase(c) /\ c.s2 <= i /\ i < c.e2}
NoRuns == [p \in {1, 2} |-> [i \in Indices |-> 0]]

Init == stage = "idle" /\ runs = NoRuns

Begin(c) == /\ stage = "idle"
            /\ stage' = "first" /\ call' = c /\ runs' = NoRuns

Run(p, i) == /\ stage = (IF p = 1 THEN "first" ELSE "second")
             /\ runs[p][i] = 0
             /\ runs' = [runs EXCEPT ![p][i] = 1]
             /\ UNCHANGED <<stage, call>>

Between == /\ stage = "first" /\ TwoPhase(call)
           /\ \A i \in First(call) : runs[1][i] = 1
           /\ stage' = "second"
           /\ UNCHANGED <<call, runs>>

Return == /\ stage = (IF TwoPhase(call) THEN "second" ELSE "first")
          /\ \A i \in First(call) : runs[1][i] = 1
          /\ \A i \in Second(call) : runs[2][i] = 1
          /\ stage' = "idle"
          /\ UNCHANGED <<call, runs>>

Next == \/ \E c \in Calls : Begin(c)
        \/ \E i \in First(call) : Run(1, i)
        \/ \E i \in Second(call) : Run(2, i)
        \/ Between
        \/ Return

Spec == Init /\ [][Next]_vars
=============================================================================
