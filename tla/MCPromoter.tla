----------------------------- MODULE MCPromoter -----------------------------
(***************************************************************************)
(* Small instances of the promotion engine.                                *)
(***************************************************************************)
EXTENDS PromoterProperties, TLC

CONSTANTS v1, v2

\* An application in service: the first ring runs v1 and has v2 behind it, the
\* second runs v2, the others nothing.
InServiceInit ==
  Init /\ state = [r \in Ring |->
    CASE r = 1 -> [cur |-> v1, prev |-> v2, healthy |-> TRUE]
      [] r = 2 -> [cur |-> v2, prev |-> NoVersion, healthy |-> TRUE]
      [] OTHER -> [cur |-> NoVersion, prev |-> NoVersion, healthy |-> FALSE]]

InServiceSpec == InServiceInit /\ [][Next]_vars
FairInServiceSpec == InServiceSpec /\ Fairness

ProcSymmetry == Permutations(Procs)
=============================================================================
