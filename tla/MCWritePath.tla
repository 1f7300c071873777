---------------------------- MODULE MCWritePath ----------------------------
(* WritePath on a small instance: two lists of two tenants, whose issuer   *)
(* instances have one name and two keys.                                   *)
EXTENDS WritePath, TLC

CONSTANTS l1, d1, d2, k1, k2, default

MCIdOf == [d \in Instance |-> default]

MCKeyOf == [d \in Instance |-> IF d = d1 THEN k1 ELSE k2]

MCInstanceOf == [l \in List |-> IF l = l1 THEN d1 ELSE d2]
=============================================================================
