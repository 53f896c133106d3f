---------------------------- MODULE MCExpertCache ---------------------------
(* Small instances of ExpertCache for TLC.                                 *)
EXTENDS ExpertCache

CONSTANTS e1, e2, e3

\* Three experts compete for the two ways of one set.
MCThree == {e1, e2, e3}
MCOneSet == [e \in MCThree |-> 0]
MCFast == {1}
=============================================================================
