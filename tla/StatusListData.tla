--------------------------- MODULE StatusListData ---------------------------
(***************************************************************************)
(* The data a status list is made of, shared by the abstract and the       *)
(* detailed specification of its updates: the stored row, the credential   *)
(* that publishes its bits, and the requests that create and change it.    *)
(*                                                                         *)
(* A list is the set of indexes whose bit is 1; the GZIP and base64url     *)
(* encoding of service/src/status-lists/bitstring.ts is lossless and is    *)
(* left out.  A signed credential is the record of what was signed.        *)
(*                                                                         *)
(* Definitions whose comment starts with "Mutant:", here and in the other  *)
(* modules, are wrong versions of the definition that follows them, which  *)
(* the properties must reject; no specification uses them.                 *)
(***************************************************************************)
EXTENDS Naturals

CONSTANTS
  List,       \* list ids
  Index,      \* the indexes inside a list
  BeyondEnd,  \* an index outside every list
  Instance,   \* issuer instances, each the DID and the key that sign
  Url,        \* the URLs a list can be created under
  Server,     \* the service's processes, all over one database
  Request,    \* the calls the clients make, each made once
  None        \* no row, no holder, no operation

ASSUME IndexAssumption == BeyondEnd \notin Index

(* What is signed: StatusListCredentialInput of credential.ts, without the *)
(* fields that never differ between two versions of one list.              *)
Credential == [url : Url, issuer : Instance, bits : SUBSET Index]

(* StatusListRecord of services/storage.ts.                                *)
Row ==
  [issuerInstance : Instance, bits : SUBSET Index,
   credential : Credential, version : Nat]

(* StatusListMaterialization of services/storage.ts: the bits and the      *)
(* credential that publishes them, always produced together.               *)
Materialization == [bits : SUBSET Index, credential : Credential]

-----------------------------------------------------------------------------
(* #materialize of manager.ts over buildStatusListCredential: one list,    *)
(* encoded once, both stored and signed.                                   *)
(* Mutant: the credential is built over a new list.                        *)
MaterializeBlank(instance, url, bits) ==
  [bits |-> bits,
   credential |-> [url |-> url, issuer |-> instance, bits |-> {}]]

Materialize(instance, url, bits) ==
  [bits |-> bits,
   credential |-> [url |-> url, issuer |-> instance, bits |-> bits]]

(* setStatus of the bitstring: write one bit.                              *)
SetBit(bits, index, status) ==
  IF status THEN bits \cup {index} ELSE bits \ {index}

(* createStatusList of the storage: a list's first row.                    *)
NewRow(instance, made) ==
  [issuerInstance |-> instance, bits |-> made.bits,
   credential |-> made.credential, version |-> 1]

(* The columns updateStatusList writes over a row; the rest are immutable. *)
(* Mutant: the version is not bumped.                                      *)
UpdatedRowSameVersion(old, made) ==
  [issuerInstance |-> old.issuerInstance, bits |-> made.bits,
   credential |-> made.credential, version |-> old.version]

UpdatedRow(old, made) ==
  [issuerInstance |-> old.issuerInstance, bits |-> made.bits,
   credential |-> made.credential, version |-> old.version + 1]

(* The row the flip of one bit leaves.                                     *)
Flip(old, index, status) ==
  UpdatedRow(old, Materialize(old.issuerInstance, old.credential.url,
                              SetBit(old.bits, index, status)))

-----------------------------------------------------------------------------
CreateOp == [kind : {"create"}, list : List, instance : Instance, url : Url]

SetOp == [kind : {"set"}, list : List, index : Index \cup {BeyondEnd},
          status : BOOLEAN]

Operation == CreateOp \cup SetOp

(* What a request came to, as the route answers it, with the version the   *)
(* list had after it: 0 when the request left no version behind.           *)
Code ==
  {"created", "duplicate-list", "changed", "unchanged", "list-not-found",
   "issuer-instance-unavailable", "index-out-of-range", "signing-failed",
   "storage-failed"}

Outcome == [code : Code, version : Nat]

ASSUME NoneAssumption ==
  None \notin Request \cup Row \cup Operation \cup Outcome
=============================================================================
