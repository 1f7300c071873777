-------------------------- MODULE MCStatusService --------------------------
(* StatusService on a small instance.                                      *)
EXTENDS StatusService, TLC

MCSymmetry ==
  UNION {Permutations(S) :
           S \in {Tenant, Purpose, Credential, List, Index, Slot, Verifier}}
=============================================================================
