---------------------------- MODULE MCAllocation ----------------------------
(* Allocation on small instances.                                          *)
EXTENDS Allocation, TLC

(* The ids callers name are told apart from the others.                    *)
MCSymmetry ==
  UNION {Permutations(S) : S \in {Index, Slot, Credential, List \ Chosen}}
=============================================================================
