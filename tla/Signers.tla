------------------------------ MODULE Signers ------------------------------
(***************************************************************************)
(* The two signing services: LocalSigningService of                        *)
(* services/signing-local.ts, which derives a signer from the key of an    *)
(* issuer instance and keeps it, and HttpSigningService of                 *)
(* services/signing-http.ts, which asks a remote one and gives up after a  *)
(* time.  Which one there is is configuration and does not change.         *)
(*                                                                         *)
(* This module has the state of the signers and what they do by themselves;*)
(* WritePath has the requests that call them.                              *)
(***************************************************************************)
CONSTANTS
  Instance,  \* issuer instances
  Id,        \* the names tenants give them, unique only within a tenant
  Key,       \* key material
  IdOf,      \* the name of each instance
  KeyOf,     \* the key of each instance
  Nobody     \* no signer under a cache key

ASSUME InstanceAssumption ==
  IdOf \in [Instance -> Id] /\ KeyOf \in [Instance -> Key]

VARIABLES
  mode,    \* "local" or "http"
  signers  \* #signers: the promise kept under each cache key, or Nobody

signerVars == <<mode, signers>>

(* #cacheKey hashes what the signer is made of.                            *)
(* Mutant: the instance's id.                                              *)
CacheKeyById(instance) == IdOf[instance]

CacheKey(instance) == KeyOf[instance]

CacheKeys == Key \cup Id

(* A promise of a signer for a key, pending or fulfilled.                  *)
Derivation == [key : Key, ready : BOOLEAN]

ASSUME NobodyAssumption == Nobody \notin Derivation

SignersInit ==
  /\ mode \in {"local", "http"}
  /\ signers = [k \in CacheKeys |-> Nobody]

Pending(k) == signers[k] # Nobody /\ ~signers[k].ready

Ready(k) == signers[k] # Nobody /\ signers[k].ready

(* #signerFor: the promise kept under the instance's cache key, or a new   *)
(* one, which is kept before it settles.                                   *)
SignerFor(instance) ==
  LET k == CacheKey(instance) IN
  IF signers[k] # Nobody THEN UNCHANGED signers
  ELSE signers' = [signers EXCEPT ![k] =
                     [key |-> KeyOf[instance], ready |-> FALSE]]

Derived(k) ==
  /\ Pending(k)
  /\ signers' = [signers EXCEPT ![k].ready = TRUE]

(* createSigner rejects: the entry goes before anybody hears of it.        *)
(* Mutant: the rejected promise is kept.                                   *)
DerivationFailedKept(k) == Pending(k) /\ UNCHANGED signers

DerivationFailed(k) ==
  /\ Pending(k)
  /\ signers' = [signers EXCEPT ![k] = Nobody]
=============================================================================
