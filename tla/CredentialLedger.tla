-------------------------- MODULE CredentialLedger --------------------------
(***************************************************************************)
(* What the service promises an issuer about its credentials, with the     *)
(* lists, the indexes and the storage left out.  Each claim (a tenant's    *)
(* credential and a purpose) is unbound, clear or set.  A request about    *)
(* one claim changes that claim or nothing; a request by explicit selector *)
(* changes at most one claim, of its own tenant and purpose; and the HTTP  *)
(* status tells the caller what happened:                                  *)
(*   200      it was done;                                                 *)
(*   400/404  nothing was done;                                            *)
(*   409      an allocation was not done, or was done by somebody before,  *)
(*            this very request included when its acknowledgement is lost; *)
(*   5xx      it was done or it was not.                                   *)
(*                                                                         *)
(* A claim is born set only if an explicit selector set a bit of its       *)
(* tenant and purpose that no claim held.                                  *)
(***************************************************************************)
EXTENDS Naturals

CONSTANTS
  Claim,   \* records with fields tenant, credential and purpose
  Slot,    \* the requests the service works on at once
  None

VARIABLES
  standing,    \* "unbound", "clear" or "set", for each claim
  overridden,  \* the scopes in which a selector has set an unbound bit
  asked,       \* the request each slot serves, or None
  told         \* the status it was answered with, None until then

ledgerVars == <<standing, overridden, asked, told>>

ScopeOf(c) == [tenant |-> c.tenant, purpose |-> c.purpose]

Scope == {ScopeOf(c) : c \in Claim}

Ask ==
  [kind : {"allocate"}, claim : Claim]
    \cup [kind : {"status"}, claim : Claim, status : BOOLEAN]
    \cup [kind : {"selector"}, scope : Scope, status : BOOLEAN]

Init ==
  /\ standing = [c \in Claim |-> "unbound"]
  /\ overridden = {}
  /\ asked = [s \in Slot |-> None]
  /\ told = [s \in Slot |-> None]

Submit(s) ==
  /\ asked[s] = None
  /\ \E a \in Ask : asked' = [asked EXCEPT ![s] = a]
  /\ UNCHANGED <<standing, overridden, told>>

(* The answer has left, or was lost.                                       *)
Close(s) ==
  /\ told[s] # None
  /\ asked' = [asked EXCEPT ![s] = None]
  /\ told' = [told EXCEPT ![s] = None]
  /\ UNCHANGED <<standing, overridden>>

Open(s) == asked[s] # None /\ told[s] = None

Tell(s, statuses) ==
  \E status \in statuses : told' = [told EXCEPT ![s] = status]

Named(status) == IF status THEN "set" ELSE "clear"

Bind(s) ==
  LET c == asked[s].claim IN
  /\ Open(s) /\ asked[s].kind = "allocate"
  /\ standing[c] = "unbound"
  /\ \E born \in {"clear", "set"} :
        /\ born = "set" => ScopeOf(c) \in overridden
        /\ standing' = [standing EXCEPT ![c] = born]
  /\ Tell(s, {200, 409, 500})
  /\ UNCHANGED <<overridden, asked>>

SetStanding(s) ==
  LET c == asked[s].claim IN
  /\ Open(s) /\ asked[s].kind = "status"
  /\ standing[c] # "unbound"
  /\ standing' = [standing EXCEPT ![c] = Named(asked[s].status)]
  /\ Tell(s, {200, 500})
  /\ UNCHANGED <<overridden, asked>>

(* The bit belongs to one claim of the scope, or to none.                  *)
Override(s) ==
  LET k == asked[s].scope IN
  /\ Open(s) /\ asked[s].kind = "selector"
  /\ \/ \E c \in Claim :
          /\ ScopeOf(c) = k /\ standing[c] # "unbound"
          /\ standing' = [standing EXCEPT ![c] = Named(asked[s].status)]
          /\ UNCHANGED overridden
     \/ /\ overridden' = IF asked[s].status THEN overridden \cup {k}
                         ELSE overridden
        /\ UNCHANGED standing
  /\ Tell(s, {200, 500})
  /\ UNCHANGED asked

Refuse(s) ==
  /\ Open(s)
  /\ \/ Tell(s, {500, 502, 503})
     \/ asked[s].kind = "allocate" /\ Tell(s, {400, 404, 409})
     \/ asked[s].kind = "selector" /\ Tell(s, {400, 404})
     \/ /\ asked[s].kind = "status" /\ standing[asked[s].claim] = "unbound"
        /\ Tell(s, {404})
  /\ UNCHANGED <<standing, overridden, asked>>

Next ==
  \E s \in Slot :
     \/ Submit(s) \/ Bind(s) \/ SetStanding(s) \/ Override(s)
     \/ Refuse(s) \/ Close(s)

Spec == Init /\ [][Next]_ledgerVars
=============================================================================
