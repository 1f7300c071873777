-------------------------- MODULE MCMemoryStorage --------------------------
(* MemoryStorage on a small instance, without symmetry, since the run has  *)
(* a liveness property.                                                    *)
EXTENDS MemoryStorage, TLC
=============================================================================
