------------------------------ MODULE MoEBlock ------------------------------
(***************************************************************************)
(* What the routed experts of a layer compute: to the output of each token *)
(* the contributions of the experts the router chose for it are added,     *)
(* each once and in rank order (floating-point sums depend on the order).  *)
(* No cache, no streams.                                                   *)
(***************************************************************************)
EXTENDS Naturals, SequencesExt

CONSTANTS Routes
VARIABLES
    route,  \* per token, the experts chosen for it in rank order
    out     \* per token, the experts whose contribution has been added

vars == <<route, out>>

Init == route = <<>> /\ out = <<>>

Begin(r) == /\ out = route
            /\ route' = r
            /\ out' = [t \in 1 .. Len(r) |-> <<>>]

\* Some tokens have the contributions of their next ranks added.
Accumulate == /\ UNCHANGED route
              /\ DOMAIN out' = DOMAIN route
              /\ \A t \in DOMAIN route :
                    IsPrefix(out[t], out'[t]) /\ IsPrefix(out'[t], route[t])

Next == (\E r \in Routes : Begin(r)) \/ Accumulate
Spec == Init /\ [][Next]_vars
=============================================================================
