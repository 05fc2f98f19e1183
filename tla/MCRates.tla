------------------------------ MODULE MCRates ------------------------------
(***************************************************************************)
(* One device, polled through two targets of the inventory (or by two      *)
(* collectors).                                                            *)
(***************************************************************************)
EXTENDS Rates, TLC

Permuted == Permutations(Targets)

(* Once all samples are stored the view answers the same for ever.         *)
Unfinished == Cardinality(samples) < MaxSamples

============================================================================
