--------------------------- MODULE EntryRegistry ---------------------------
(***************************************************************************)
(* What allocation promises: a claim (a tenant's credential and a purpose) *)
(* is bound at one instant to an entry nobody else has, at most once and   *)
(* for good; "allocated" is answered with the entry bound for this very    *)
(* request; and a request is answered at most once.                        *)
(*                                                                         *)
(* The promise is the pair of unique constraints of                        *)
(* service/src/services/storage-sql-migrations.ts and the error codes of   *)
(* service/src/services/storage.ts.                                        *)
(***************************************************************************)
CONSTANTS Claim, List, Index, Slot, Refusal, None

VARIABLES
  bindings,  \* the rows [list, index, claim] made so far
  asked,     \* the claim each slot serves, or served last
  told       \* the answer to it, None until there is one

registryVars == <<bindings, asked, told>>

Binding == [list : List, index : Index, claim : Claim]

Bound(c) == \E b \in bindings : b.claim = c

Taken(l, i) == \E b \in bindings : b.list = l /\ b.index = i

Init ==
  /\ bindings = {}
  /\ asked = [s \in Slot |-> None]
  /\ told = [s \in Slot |-> None]

(* A request arrives; one the slot was serving before is given up.         *)
Ask(s) ==
  /\ \E c \in Claim : asked' = [asked EXCEPT ![s] = c]
  /\ told' = [told EXCEPT ![s] = None]
  /\ UNCHANGED bindings

(* The claim is bound.  The answer says so, or is lost with the database's *)
(* acknowledgement and the request goes on without knowing.                *)
Bind(s) ==
  /\ told[s] = None /\ asked[s] # None
  /\ ~Bound(asked[s])
  /\ \E b \in Binding :
        /\ b.claim = asked[s] /\ ~Taken(b.list, b.index)
        /\ bindings' = bindings \cup {b}
        /\ \/ told' = [told EXCEPT ![s] = [code |-> "allocated", entry |-> b]]
           \/ UNCHANGED told
  /\ UNCHANGED asked

(* A refusal binds nothing, and "already allocated" is said only of a      *)
(* claim that is bound.                                                    *)
Refuse(s) ==
  /\ told[s] = None /\ asked[s] # None
  /\ \E code \in Refusal :
        /\ code = "credential-already-allocated" => Bound(asked[s])
        /\ told' = [told EXCEPT ![s] = [code |-> code, entry |-> None]]
  /\ UNCHANGED <<bindings, asked>>

Next == \E s \in Slot : Ask(s) \/ Bind(s) \/ Refuse(s)

Spec == Init /\ [][Next]_registryVars
=============================================================================
