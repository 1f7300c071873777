--------------------------- MODULE StatusService ---------------------------
(***************************************************************************)
(* The service end to end, as its callers see it: issuers that allocate    *)
(* entries and set statuses, over the routes allocate.ts,                  *)
(* credentials-status.ts and status-lists.ts of service/src/routes, and    *)
(* verifiers that fetch lists through an HTTP cache.                       *)
(*                                                                         *)
(* Binding an entry, and changing a list, are one step each here: that     *)
(* they behave so, whatever happens inside, is what AllocationProofs and   *)
(* SignOnUpdateProofs prove.  What is left is everything between such      *)
(* steps: lookups that are used later, answers that are lost, caches that  *)
(* answer in the service's place.  An index outside the list is refused as *)
(* in SignOnUpdate and left out.                                           *)
(***************************************************************************)
EXTENDS ProblemDetails, FiniteSets

CONSTANTS
  Tenant, Purpose, Credential,
  List,        \* list ids
  Index,       \* the indexes inside a list
  Slot,        \* the requests the service works on at once
  Verifier,    \* those who fetch lists, through one HTTP cache
  MaxVersion,  \* how often a list may change
  None

ASSUME MaxVersionAssumption == MaxVersion \in Nat \ {0}

ASSUME CredentialAssumption == Credential # {}

Claim == [tenant : Tenant, credential : Credential, purpose : Purpose]

Scope == [tenant : Tenant, purpose : Purpose]

(* What a list is for, and whether it was created with a ttl.              *)
Owner == [scope : Scope, timed : BOOLEAN]

ScopeOf(c) == [tenant |-> c.tenant, purpose |-> c.purpose]

Entry == [list : List, index : Index]

(* The requests: POST /credentials/status/allocate, and the two forms of   *)
(* POST /credentials/status.                                               *)
AllocateRequest == [kind : {"allocate"}, claim : Claim]

StatusRequest == [kind : {"status"}, claim : Claim, status : BOOLEAN]

SelectorRequest ==
  [kind : {"selector"}, scope : Scope, entry : Entry, status : BOOLEAN]

Request == AllocateRequest \cup StatusRequest \cup SelectorRequest

VARIABLES
  owner,       \* of each list, None while it does not exist
  bits,        \* the indexes of each list whose bit is 1
  version,     \* of each list, 0 while it does not exist
  entry,       \* the entry bound to each claim, or None
  asked,       \* the request each slot serves, or None
  phase,       \* where its handler stands
  target,      \* the entry it is about to set, once it is looked up
  told,        \* the HTTP status it was answered with, None until then
  made,        \* the version of the list the answer speaks of, or 0
  overridden,  \* the scopes in which a selector has set an unbound bit
  accounted,   \* the claims whose entry reached an issuer, or was lost
               \* with an answer or an acknowledgement
  acked,       \* the latest version of each list without ttl a caller knows
  cached,      \* the version of each list the cache may answer with, or 0
  check,       \* what each verifier is fetching, or None
  misled       \* the verifiers given an older version than callers knew of

store == <<owner, bits, version, entry>>
handlers == <<asked, phase, target, told, made>>
issuers == <<overridden, accounted, acked>>
readers == <<cached, check, misled>>
vars == <<store, handlers, issuers, readers>>

Version == 0 .. MaxVersion

(* floor is the version of the list callers knew of when the verifier      *)
(* began, got the one in the answer, 0 until the service has read it.      *)
Check == [list : List, floor : Version, got : Version]

ASSUME NoneAssumption ==
  None \notin Owner \cup Entry \cup Request \cup Check \cup Statuses

TypeOK ==
  /\ owner \in [List -> Owner \cup {None}]
  /\ bits \in [List -> SUBSET Index]
  /\ version \in [List -> Version]
  /\ entry \in [Claim -> Entry \cup {None}]
  /\ asked \in [Slot -> Request \cup {None}]
  /\ phase \in [Slot -> {"free", "looking", "setting", "answering"}]
  /\ target \in [Slot -> Entry \cup {None}]
  /\ \A s \in Slot : phase[s] = "setting" => target[s] # None
  /\ told \in [Slot -> Statuses \cup {None}]
  /\ made \in [Slot -> Version]
  /\ overridden \subseteq Scope
  /\ accounted \subseteq Claim
  /\ acked \in [List -> Version]
  /\ cached \in [List -> Version]
  /\ check \in [Verifier -> Check \cup {None}]
  /\ misled \subseteq Verifier

Init ==
  /\ owner = [l \in List |-> None]
  /\ bits = [l \in List |-> {}]
  /\ version = [l \in List |-> 0]
  /\ entry = [c \in Claim |-> None]
  /\ asked = [s \in Slot |-> None]
  /\ phase = [s \in Slot |-> "free"]
  /\ target = [s \in Slot |-> None]
  /\ told = [s \in Slot |-> None]
  /\ made = [s \in Slot |-> 0]
  /\ overridden = {} /\ accounted = {}
  /\ acked = [l \in List |-> 0]
  /\ cached = [l \in List |-> 0]
  /\ check = [v \in Verifier |-> None]
  /\ misled = {}

-----------------------------------------------------------------------------
(* A list comes to exist: a caller posts it, or allocation mints one.      *)
CreateList(l) ==
  /\ owner[l] = None
  /\ \E o \in Owner : owner' = [owner EXCEPT ![l] = o]
  /\ version' = [version EXCEPT ![l] = 1]
  /\ UNCHANGED <<bits, entry, handlers, issuers, readers>>

(* A request arrives.                                                      *)
Submit(s) ==
  /\ phase[s] = "free"
  /\ \E a \in Request : asked' = [asked EXCEPT ![s] = a]
  /\ phase' = [phase EXCEPT ![s] = "looking"]
  /\ UNCHANGED <<store, target, told, made, issuers, readers>>

(* The handler's result, on its way to the caller.                         *)
Respond(s, code, v) ==
  /\ phase' = [phase EXCEPT ![s] = "answering"]
  /\ told' = [told EXCEPT ![s] = HttpStatus(code)]
  /\ made' = [made EXCEPT ![s] = v]

-----------------------------------------------------------------------------
(* allocateHandler: allocateForCredential binds the claim to a free index  *)
(* of a list of its tenant and purpose.  When the database's               *)
(* acknowledgement is lost the caller is told of a conflict with the very  *)
(* entry the request made, or of an error.                                 *)
Free(l, i) ==
  ~\E c \in Claim : entry[c] # None /\ entry[c] = [list |-> l, index |-> i]

(* Mutant: what failed after the insert is answered as a failure without   *)
(* anything having been lost.                                              *)
AllocateThenFail(s) ==
  LET c == asked[s].claim IN
  /\ phase[s] = "looking" /\ asked[s].kind = "allocate"
  /\ entry[c] = None
  /\ \E l \in List, i \in Index :
        /\ owner[l] # None /\ owner[l].scope = ScopeOf(c) /\ Free(l, i)
        /\ entry' = [entry EXCEPT ![c] = [list |-> l, index |-> i]]
  /\ \E code \in {"allocated", "unknown"} : Respond(s, code, 0)
  /\ UNCHANGED <<owner, bits, version, asked, target, issuers, readers>>

Allocate(s) ==
  LET c == asked[s].claim IN
  /\ phase[s] = "looking" /\ asked[s].kind = "allocate"
  /\ entry[c] = None
  /\ \E l \in List, i \in Index :
        /\ owner[l] # None /\ owner[l].scope = ScopeOf(c) /\ Free(l, i)
        /\ entry' = [entry EXCEPT ![c] = [list |-> l, index |-> i]]
  /\ \/ Respond(s, "allocated", 0) /\ UNCHANGED accounted
     \/ /\ \E code \in {"credential-already-allocated", "unknown"} :
             Respond(s, code, 0)
        /\ accounted' = accounted \cup {c}
  /\ UNCHANGED <<owner, bits, version, asked, target, overridden, acked,
                 readers>>

(* The claim is bound already, its list is not there or not its own, or a  *)
(* dependency fails before the insert.                                     *)
RefuseAllocation(s) ==
  /\ phase[s] = "looking" /\ asked[s].kind = "allocate"
  /\ \/ /\ entry[asked[s].claim] # None
        /\ Respond(s, "credential-already-allocated", 0)
     \/ \E code \in {"list-not-found", "list-purpose-mismatch",
                     "list-exhausted", "issuer-instance-unavailable",
                     "signing-unavailable", "signing-rejected", "unknown"} :
          Respond(s, code, 0)
  /\ UNCHANGED <<store, asked, target, issuers, readers>>

-----------------------------------------------------------------------------
(* updateCredentialStatusHandler                                           *)

(* setCredentialStatus looks the entry up by tenant, credential and        *)
(* purpose.                                                                *)
(* Mutant: what is not found is used all the same.                         *)
LookupUnchecked(s) ==
  /\ phase[s] = "looking" /\ asked[s].kind = "status"
  /\ target' = [target EXCEPT ![s] = entry[asked[s].claim]]
  /\ phase' = [phase EXCEPT ![s] = "setting"]
  /\ UNCHANGED <<store, asked, told, made, issuers, readers>>

LookupEntry(s) ==
  LET found == entry[asked[s].claim] IN
  /\ phase[s] = "looking" /\ asked[s].kind = "status"
  /\ \/ /\ found = None
        /\ Respond(s, "credential-not-allocated", 0)
        /\ UNCHANGED target
     \/ /\ found # None
        /\ target' = [target EXCEPT ![s] = found]
        /\ phase' = [phase EXCEPT ![s] = "setting"]
        /\ UNCHANGED <<told, made>>
  /\ UNCHANGED <<store, asked, issuers, readers>>

(* setByExplicitSelector: the list at the URL, which must be the caller's  *)
(* and of the purpose named.                                               *)
(* Mutant: the tenant is not asked for.                                    *)
SelectAnyTenant(s) ==
  LET a == asked[s]
      o == owner[a.entry.list]
  IN
  /\ phase[s] = "looking" /\ a.kind = "selector"
  /\ o # None /\ o.scope.purpose = a.scope.purpose
  /\ target' = [target EXCEPT ![s] = a.entry]
  /\ phase' = [phase EXCEPT ![s] = "setting"]
  /\ UNCHANGED <<store, asked, told, made, issuers, readers>>

SelectEntry(s) ==
  LET a == asked[s]
      o == owner[a.entry.list]
  IN
  /\ phase[s] = "looking" /\ a.kind = "selector"
  /\ \/ /\ o # None => o.scope.tenant # a.scope.tenant
        /\ Respond(s, "list-not-found", 0)
        /\ UNCHANGED target
     \/ /\ o # None
        /\ o.scope.tenant = a.scope.tenant /\ o.scope.purpose # a.scope.purpose
        /\ Respond(s, "bad-request", 0)
        /\ UNCHANGED target
     \/ /\ o # None /\ o.scope = a.scope
        /\ target' = [target EXCEPT ![s] = a.entry]
        /\ phase' = [phase EXCEPT ![s] = "setting"]
        /\ UNCHANGED <<told, made>>
  /\ UNCHANGED <<store, asked, issuers, readers>>

(* setStatus.  The commit's acknowledgement may be lost, and the request   *)
(* answered as an error.                                                   *)
Flipped(l, i, status) == IF status THEN bits[l] \cup {i} ELSE bits[l] \ {i}

OverrideBy(s) ==
  IF /\ asked[s].kind = "selector" /\ asked[s].status
     /\ Free(target[s].list, target[s].index)
  THEN overridden \cup {asked[s].scope} ELSE overridden

SetStatus(s) ==
  LET l == target[s].list
      i == target[s].index
  IN
  /\ phase[s] = "setting"
  /\ (i \in bits[l]) # asked[s].status
  /\ version[l] < MaxVersion
  /\ bits' = [bits EXCEPT ![l] = Flipped(l, i, asked[s].status)]
  /\ version' = [version EXCEPT ![l] = @ + 1]
  /\ overridden' = OverrideBy(s)
  /\ \/ Respond(s, "changed", version[l] + 1)
     \/ Respond(s, "unknown", 0)
  /\ UNCHANGED <<owner, entry, asked, target, accounted, acked, readers>>

(* The bit has the value already: nothing is written, and the version in   *)
(* the answer is the one that was read.                                    *)
KeepStatus(s) ==
  LET l == target[s].list
      i == target[s].index
  IN
  /\ phase[s] = "setting"
  /\ (i \in bits[l]) = asked[s].status
  /\ Respond(s, "unchanged", version[l])
  /\ UNCHANGED <<store, asked, target, issuers, readers>>

(* A dependency fails: the database in either phase, the registry of       *)
(* tenants or the signer once the list is known.                           *)
RefuseStatus(s) ==
  /\ \/ /\ phase[s] = "looking" /\ asked[s].kind # "allocate"
        /\ Respond(s, "unknown", 0)
     \/ /\ phase[s] = "setting"
        /\ \E code \in {"issuer-instance-unavailable", "signing-unavailable",
                       "signing-rejected", "unknown"} : Respond(s, code, 0)
  /\ UNCHANGED <<store, asked, target, issuers, readers>>

-----------------------------------------------------------------------------
(* The answer reaches the caller.  An issuer puts the entry it is given    *)
(* into the credential it signs; a caller knows of the version it is told. *)
Close(s) ==
  /\ phase[s] = "answering"
  /\ phase' = [phase EXCEPT ![s] = "free"]
  /\ asked' = [asked EXCEPT ![s] = None]
  /\ target' = [target EXCEPT ![s] = None]
  /\ told' = [told EXCEPT ![s] = None]
  /\ made' = [made EXCEPT ![s] = 0]

Account(s) ==
  accounted' = IF asked[s].kind = "allocate" /\ told[s] = 200
               THEN accounted \cup {asked[s].claim} ELSE accounted

Answer(s) ==
  LET l == target[s].list IN
  /\ Close(s) /\ Account(s)
  /\ acked' = IF made[s] > 0 /\ ~owner[l].timed /\ made[s] > acked[l]
              THEN [acked EXCEPT ![l] = made[s]] ELSE acked
  /\ UNCHANGED <<store, overridden, readers>>

(* It does not: the connection to the caller is gone.                      *)
LoseAnswer(s) ==
  /\ Close(s) /\ Account(s)
  /\ UNCHANGED <<store, overridden, acked, readers>>

-----------------------------------------------------------------------------
(* Verifiers.  cacheControlFor: a list created without a ttl says          *)
(* no-cache, so the cache asks the service each time; one with a ttl may   *)
(* be answered from the cache as long as it is fresh.                      *)

(* Mutant: every list is given a max-age.                                  *)
MayServeAll(l) == TRUE

MayServe(l) == owner[l].timed

BeginCheck(v, l) ==
  /\ check[v] = None /\ owner[l] # None
  /\ \/ /\ cached[l] # 0
        /\ misled' = IF cached[l] < acked[l] THEN misled \cup {v} ELSE misled
        /\ UNCHANGED check
     \/ /\ cached[l] = 0
        /\ check' = [check EXCEPT ![v] =
                       [list |-> l, floor |-> acked[l], got |-> 0]]
        /\ UNCHANGED misled
  /\ UNCHANGED <<store, handlers, issuers, cached>>

(* getStatusListHandler reads the row.  Whether it answers the list or,    *)
(* to an If-None-Match of that version, a 304, it names the version.       *)
ReadOrigin(v) ==
  /\ check[v] # None /\ check[v].got = 0
  /\ check' = [check EXCEPT ![v].got = version[check[v].list]]
  /\ UNCHANGED <<store, handlers, issuers, cached, misled>>

(* The answer passes the cache, possibly after a later one.  A copy that   *)
(* must be revalidated each time makes no difference to what is seen.      *)
Deliver(v) ==
  LET l == check[v].list IN
  /\ check[v] # None /\ check[v].got # 0
  /\ check' = [check EXCEPT ![v] = None]
  /\ cached' = [cached EXCEPT ![l] = IF MayServe(l) THEN check[v].got ELSE 0]
  /\ misled' = IF check[v].got < check[v].floor THEN misled \cup {v}
               ELSE misled
  /\ UNCHANGED <<store, handlers, issuers>>

(* A copy outlives its max-age.                                            *)
Expire(l) ==
  /\ cached[l] # 0
  /\ cached' = [cached EXCEPT ![l] = 0]
  /\ UNCHANGED <<store, handlers, issuers, check, misled>>

-----------------------------------------------------------------------------
Handle(s) ==
  \/ Submit(s) \/ Allocate(s) \/ RefuseAllocation(s)
  \/ LookupEntry(s) \/ SelectEntry(s)
  \/ SetStatus(s) \/ KeepStatus(s) \/ RefuseStatus(s)
  \/ Answer(s) \/ LoseAnswer(s)

Next ==
  \/ \E s \in Slot : Handle(s)
  \/ \E l \in List : CreateList(l) \/ Expire(l)
  \/ \E v \in Verifier : ReadOrigin(v) \/ Deliver(v)
  \/ \E v \in Verifier, l \in List : BeginCheck(v, l)

Spec == Init /\ [][Next]_vars

-----------------------------------------------------------------------------
(* Properties                                                              *)

(* A flip is visible the instant its request returns: a verifier that      *)
(* fetches a list without a ttl after a caller was answered sees that      *)
(* flip or a later one, through whatever cache stands between (getStatus-  *)
(* ListHandler and cacheControlFor of routes/status-lists.ts, "a bit flip  *)
(* is never masked by one").                                               *)
FreshAfterAnswer == misled = {}

(* A bound claim whose entry no issuer has is one whose answer was lost or *)
(* is on its way: a caller that is refused has bound nothing, except when  *)
(* an acknowledgement was lost (allocateHandler of routes/allocate.ts).    *)
StrandedOnlyByLoss ==
  \A c \in Claim :
     entry[c] # None =>
       \/ c \in accounted
       \/ \E s \in Slot :
            /\ phase[s] = "answering" /\ told[s] = 200
            /\ asked[s] = [kind |-> "allocate", claim |-> c]

(* Each request changes the standing of at most one claim, of the caller's *)
(* own tenant and of the purpose named, and the HTTP status says whether   *)
(* it did: the routes implement CredentialLedger.                          *)
Standing(c) ==
  IF entry[c] = None THEN "unbound"
  ELSE IF entry[c].index \in bits[entry[c].list] THEN "set" ELSE "clear"

LedgerAsk(a) ==
  IF a = None THEN None
  ELSE IF a.kind = "selector"
       THEN [kind |-> "selector", scope |-> a.scope, status |-> a.status]
       ELSE a

ASSUME LedgerAskAssumption == \A a \in Request : LedgerAsk(a) # None

Ledger ==
  INSTANCE CredentialLedger
    WITH standing <- [c \in Claim |-> Standing(c)],
         asked <- [s \in Slot |-> LedgerAsk(asked[s])]

KeepsTheLedger == Ledger!Spec
=============================================================================
