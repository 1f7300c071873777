------------------------- MODULE AtomicStatusLists -------------------------
(***************************************************************************)
(* What the service promises about its lists, whatever happens inside a    *)
(* request: each request takes effect at one instant or not at all, an     *)
(* effect is one flipped bit together with its new credential and the next *)
(* version, and the recorded outcome is the outcome at that instant.       *)
(*                                                                         *)
(* The promise is the doc comment of updateStatusList in                   *)
(* service/src/services/storage.ts and the class comment of SqlStorage:    *)
(* bits and credential "change together, or not at all".                   *)
(***************************************************************************)
EXTENDS StatusListData

VARIABLES
  lists,      \* the row of each list, None while it does not exist
  submitted,  \* the operation of each request, None before it is made
  result      \* the outcome of each request, None until it is decided

abstractVars == <<lists, submitted, result>>

(* The database at the start holds lists nobody has written to yet.        *)
FreshRow ==
  {NewRow(i, Materialize(i, u, {})) : i \in Instance, u \in Url}

Init ==
  /\ lists \in [List -> FreshRow \cup {None}]
  /\ submitted = [r \in Request |-> None]
  /\ result = [r \in Request |-> None]

Submit(r) ==
  /\ submitted[r] = None
  /\ \E o \in Operation : submitted' = [submitted EXCEPT ![r] = o]
  /\ UNCHANGED <<lists, result>>

Open(r) == submitted[r] # None /\ result[r] = None

Decide(r, code, version) ==
  result' = [result EXCEPT ![r] = [code |-> code, version |-> version]]

(* The list comes to exist; the client may still be told otherwise, when   *)
(* the database's acknowledgement of the insert is lost.                   *)
Create(r) ==
  LET o == submitted[r] IN
  /\ Open(r) /\ o.kind = "create"
  /\ lists[o.list] = None
  /\ lists' = [lists EXCEPT ![o.list] =
                 NewRow(o.instance, Materialize(o.instance, o.url, {}))]
  /\ \E code \in {"created", "duplicate-list", "storage-failed"} :
        Decide(r, code, 1)
  /\ UNCHANGED submitted

(* One bit changes; "storage-failed" when the commit's acknowledgement is  *)
(* lost and the client is told of a failure that did not happen.           *)
FlipBit(r) ==
  LET o == submitted[r] IN
  /\ Open(r) /\ o.kind = "set" /\ o.index \in Index
  /\ lists[o.list] # None
  /\ (o.index \in lists[o.list].bits) # o.status
  /\ lists' = [lists EXCEPT ![o.list] = Flip(@, o.index, o.status)]
  /\ \E code \in {"changed", "storage-failed"} :
        Decide(r, code, lists[o.list].version + 1)
  /\ UNCHANGED submitted

(* The bit already has the requested value.                                *)
KeepBit(r) ==
  LET o == submitted[r] IN
  /\ Open(r) /\ o.kind = "set" /\ o.index \in Index
  /\ lists[o.list] # None
  /\ (o.index \in lists[o.list].bits) = o.status
  /\ Decide(r, "unchanged", lists[o.list].version)
  /\ UNCHANGED <<lists, submitted>>

(* A refusal changes no list and is made only for its own reason.          *)
Refusal(kind) ==
  {"issuer-instance-unavailable", "signing-failed", "storage-failed"}
    \cup IF kind = "create" THEN {"duplicate-list"}
         ELSE {"list-not-found", "index-out-of-range"}

RefusalHolds(code, o) ==
  /\ code = "list-not-found" => lists[o.list] = None
  /\ code = "duplicate-list" => lists[o.list] # None
  /\ code = "index-out-of-range" => o.index = BeyondEnd

Refuse(r) ==
  /\ Open(r)
  /\ \E code \in Refusal(submitted[r].kind) :
        RefusalHolds(code, submitted[r]) /\ Decide(r, code, 0)
  /\ UNCHANGED <<lists, submitted>>

Next ==
  \E r \in Request :
     Submit(r) \/ Create(r) \/ FlipBit(r) \/ KeepBit(r) \/ Refuse(r)

Spec == Init /\ [][Next]_abstractVars
=============================================================================
