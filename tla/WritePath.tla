----------------------------- MODULE WritePath -----------------------------
(***************************************************************************)
(* What the requests of one server wait for.  A flip reads its list, opens *)
(* a transaction, which takes a connection, locks the row with it, and     *)
(* signs while it holds both (setStatus and #applyStatus of                *)
(* status-lists/manager.ts over updateStatusList of                        *)
(* services/storage-sql.ts); a create signs first and then inserts; a GET  *)
(* and the health check take a connection for one query.  Signing is by    *)
(* either service of Signers.                                              *)
(*                                                                         *)
(* The rows' contents are in SignOnUpdate; here a row is the key that      *)
(* signed its credential.                                                  *)
(***************************************************************************)
EXTENDS ConnectionPool, Signers, ProblemDetails

CONSTANT InstanceOf   \* the issuer instance each list is bound to

ASSUME InstanceOfAssumption == InstanceOf \in [List -> Instance]

ASSUME StatusAssumption == None \notin Statuses

VARIABLES
  op,       \* the latest request of each slot and its list, or None
  phase,    \* where its handler stands
  joined,   \* the requests that hold the promise of a signer
  signedBy, \* the key of the signature a request got, None before that
  signature,\* the key that signed the stored credential of each list, or None
  status    \* the HTTP status each request was answered with, or None

requestVars == <<op, phase, joined, signedBy, status>>
vars == <<poolVars, signerVars, requestVars, signature>>

Kind == {"set", "create", "get", "health"}

(* Waiting for a connection, for a statement or for a transaction.         *)
Wanting == {"wants-read", "wants-transaction", "wants-insert"}

(* Holding one: running a statement, or inside a transaction.  A signature *)
(* is asked for in the phases of Signing, by a flip inside its             *)
(* transaction and by a create outside any.                                *)
Signing == {"naming", "signing", "calling", "receiving"}

Holding == {"reading", "locking", "applying", "writing", "inserting"}

Phase == {"idle", "done"} \cup Wanting \cup Signing \cup Holding

HoldsConnection(r) ==
  \/ phase[r] \in Holding
  \/ phase[r] \in Signing /\ op[r].kind = "set"

(* The types; a signer is kept under the key material it was made of, and  *)
(* a request is answered exactly when its handler is done.                 *)
TypeOK ==
  /\ poolSize \in PoolSizes
  /\ held \subseteq Request
  /\ rowOwner \in [List -> Request \cup {None}]
  /\ mode \in {"local", "http"}
  /\ signers \in [CacheKeys -> Derivation \cup {Nobody}]
  /\ \A k \in CacheKeys : signers[k] # Nobody => signers[k].key = k
  /\ op \in [Request -> [kind : Kind, list : List] \cup {None}]
  /\ phase \in [Request -> Phase]
  /\ joined \subseteq Request
  /\ signedBy \in [Request -> Key \cup {None}]
  /\ signature \in [List -> Key \cup {None}]
  /\ status \in [Request -> Statuses \cup {None}]
  /\ \A r \in Request : (status[r] = None) <=> (phase[r] # "done")

Init ==
  /\ PoolInit /\ SignersInit
  /\ op = [r \in Request |-> None]
  /\ phase = [r \in Request |-> "idle"]
  /\ joined = {}
  /\ signedBy = [r \in Request |-> None]
  /\ signature = [l \in List |-> None]
  /\ status = [r \in Request |-> None]

-----------------------------------------------------------------------------
Goto(r, from, to) ==
  phase[r] = from /\ phase' = [phase EXCEPT ![r] = to]

(* The handlers of the requests R end with one code, and whatever they     *)
(* hold goes back.                                                         *)
AnswerAll(R, code) ==
  /\ phase' = [r \in Request |-> IF r \in R THEN "done" ELSE phase[r]]
  /\ status' = [r \in Request |-> IF r \in R THEN HttpStatus(code)
                                  ELSE status[r]]
  /\ joined' = joined \ R
  /\ signedBy' = [r \in Request |-> IF r \in R THEN None ELSE signedBy[r]]
  /\ GiveBack(R)
  /\ UNCHANGED op

Answer(r, code) == AnswerAll({r}, code)

InstanceFor(r) == InstanceOf[op[r].list]

(* A request arrives; r is a slot, free again once its request is          *)
(* answered.  A create asks for a signature before it touches the          *)
(* database; the others begin with a read.                                 *)
Submit(r) ==
  /\ phase[r] \in {"idle", "done"}
  /\ \E o \in [kind : Kind, list : List] :
        /\ op' = [op EXCEPT ![r] = o]
        /\ phase' = [phase EXCEPT ![r] =
                       IF o.kind = "create" THEN "naming" ELSE "wants-read"]
  /\ status' = [status EXCEPT ![r] = None]
  /\ UNCHANGED <<poolVars, signerVars, joined, signedBy, signature>>

-----------------------------------------------------------------------------
(* The database                                                            *)

GetsConnection(r) ==
  /\ \/ Goto(r, "wants-read", "reading")
     \/ Goto(r, "wants-transaction", "locking")
     \/ Goto(r, "wants-insert", "inserting")
  /\ Take(r)
  /\ UNCHANGED <<signerVars, op, joined, signedBy, signature, status>>

(* The query of a GET or of the health check, or the read of setStatus,    *)
(* which gives its connection back before the transaction takes one.       *)
(* Mutant: the read keeps it.                                              *)
ReadKeepsConnection(r) ==
  /\ phase[r] = "reading"
  /\ \/ /\ op[r].kind = "set" /\ signature[op[r].list] # None
        /\ Goto(r, "reading", "wants-transaction")
        /\ UNCHANGED <<poolVars, op, joined, signedBy, status>>
     \/ /\ op[r].kind # "health" /\ signature[op[r].list] = None
        /\ Answer(r, "list-not-found")
     \/ /\ op[r].kind = "get" /\ signature[op[r].list] # None
        /\ Answer(r, "unchanged")
     \/ op[r].kind = "health" /\ Answer(r, "unchanged")
  /\ UNCHANGED <<signerVars, signature>>

Read(r) ==
  /\ phase[r] = "reading"
  /\ \/ /\ op[r].kind = "set" /\ signature[op[r].list] # None
        /\ Goto(r, "reading", "wants-transaction")
        /\ GiveBack({r})
        /\ UNCHANGED <<op, joined, signedBy, status>>
     \/ /\ op[r].kind # "health" /\ signature[op[r].list] = None
        /\ Answer(r, "list-not-found")
     \/ /\ op[r].kind = "get" /\ signature[op[r].list] # None
        /\ Answer(r, "unchanged")
     \/ op[r].kind = "health" /\ Answer(r, "unchanged")
  /\ UNCHANGED <<signerVars, signature>>

(* #lockStatusList: the transaction waits for the row with its connection. *)
Lock(r) ==
  /\ Goto(r, "locking", "applying")
  /\ LockRow(r, op[r].list)
  /\ UNCHANGED <<signerVars, op, joined, signedBy, signature, status>>

(* #applyStatus: refused or redundant, the transaction ends; otherwise it  *)
(* asks for a signature.                                                   *)
Apply(r) ==
  /\ phase[r] = "applying"
  /\ \/ \E code \in {"index-out-of-range", "unchanged"} : Answer(r, code)
     \/ /\ Goto(r, "applying", "naming")
        /\ UNCHANGED <<poolVars, op, joined, signedBy, status>>
  /\ UNCHANGED <<signerVars, signature>>

Write(r) ==
  /\ phase[r] = "writing"
  /\ signature' = [signature EXCEPT ![op[r].list] = signedBy[r]]
  /\ Answer(r, "changed")
  /\ UNCHANGED signerVars

Insert(r) ==
  /\ phase[r] = "inserting"
  /\ \/ /\ signature[op[r].list] = None
        /\ signature' = [signature EXCEPT ![op[r].list] = signedBy[r]]
        /\ Answer(r, "created")
     \/ /\ signature[op[r].list] # None
        /\ Answer(r, "duplicate-list")
        /\ UNCHANGED signature
  /\ UNCHANGED signerVars

(* A statement fails: 503 from the health check, 500 from everything else. *)
StatementFails(r) ==
  /\ phase[r] \in Holding
  /\ Answer(r, IF op[r].kind = "health" THEN "storage-unreachable"
               ELSE "unknown")
  /\ UNCHANGED <<signerVars, signature>>

-----------------------------------------------------------------------------
(* Signing: #materialize asks for the issuer's DID and then for the        *)
(* signature.                                                              *)

(* The request has its signature: a flip writes in the transaction it has  *)
(* open, a create needs a connection first.                                *)
Signed(r, key) ==
  /\ phase' = [phase EXCEPT ![r] =
                 IF op[r].kind = "set" THEN "writing" ELSE "wants-insert"]
  /\ signedBy' = [signedBy EXCEPT ![r] = key]
  /\ joined' = joined \ {r}
  /\ UNCHANGED <<poolVars, op, status>>

(* issuerDid and sign of the local service each look the signer up.        *)
CallLocal(r) ==
  /\ mode = "local" /\ phase[r] \in {"naming", "signing"} /\ r \notin joined
  /\ SignerFor(InstanceFor(r))
  /\ joined' = joined \cup {r}
  /\ UNCHANGED <<poolVars, mode, op, phase, signedBy, signature, status>>

(* The promise it holds is fulfilled.  Signing itself may still fail.      *)
UseSigner(r) ==
  LET k == CacheKey(InstanceFor(r)) IN
  /\ r \in joined /\ Ready(k)
  /\ \/ /\ Goto(r, "naming", "signing")
        /\ joined' = joined \ {r}
        /\ UNCHANGED <<poolVars, op, signedBy, status>>
     \/ phase[r] = "signing" /\ Signed(r, signers[k].key)
     \/ phase[r] = "signing" /\ Answer(r, "signing-error")
  /\ UNCHANGED <<signerVars, signature>>

Derive(k) ==
  /\ Derived(k)
  /\ UNCHANGED <<poolVars, mode, requestVars, signature>>

(* Everybody who holds the promise fails with it.                          *)
JoinedTo(k) == {r \in joined : CacheKey(InstanceFor(r)) = k}

DeriveFails(k) ==
  /\ DerivationFailed(k)
  /\ AnswerAll(JoinedTo(k), "signing-error")
  /\ UNCHANGED <<mode, signature>>

(* The remote service: the DID and the token are configuration, and may be *)
(* missing.                                                                *)
CallRemote(r) ==
  /\ mode = "http"
  /\ \/ /\ Goto(r, "naming", "signing")
        /\ UNCHANGED <<poolVars, op, joined, signedBy, status>>
     \/ /\ Goto(r, "signing", "calling")
        /\ UNCHANGED <<poolVars, op, joined, signedBy, status>>
     \/ /\ phase[r] \in {"naming", "signing"}
        /\ Answer(r, "signing-misconfigured")
  /\ UNCHANGED <<signerVars, signature>>

(* It answers with a status: an error of either kind, or a success whose   *)
(* body is still to come.                                                  *)
RemoteAnswers(r) ==
  /\ phase[r] = "calling"
  /\ \/ \E code \in {"signing-unavailable", "signing-rejected"} :
          Answer(r, code)
     \/ /\ Goto(r, "calling", "receiving")
        /\ UNCHANGED <<poolVars, op, joined, signedBy, status>>
  /\ UNCHANGED <<signerVars, signature>>

(* The body: a credential with a proof, one without, or no JSON at all.    *)
(* The token names the remote's key, so the signature is the instance's.   *)
RemoteSends(r) ==
  /\ phase[r] = "receiving"
  /\ \/ Signed(r, KeyOf[InstanceFor(r)])
     \/ \E code \in {"signing-rejected", "unknown"} : Answer(r, code)
  /\ UNCHANGED <<signerVars, signature>>

(* AbortSignal.timeout.  Before the headers it is a signer that does not   *)
(* answer; in the body it is an error no code is given to.                 *)
(* Mutant: no deadline on the body.                                        *)
TimeoutHeadersOnly(r) ==
  /\ phase[r] = "calling" /\ Answer(r, "signing-unavailable")
  /\ UNCHANGED <<signerVars, signature>>

Timeout(r) ==
  /\ \/ phase[r] = "calling" /\ Answer(r, "signing-unavailable")
     \/ phase[r] = "receiving" /\ Answer(r, "unknown")
  /\ UNCHANGED <<signerVars, signature>>

-----------------------------------------------------------------------------
(* What the server, its database and its signer are sure to do.            *)
Progress(r) ==
  \/ Read(r) \/ Apply(r) \/ Write(r) \/ Insert(r)
  \/ CallLocal(r) \/ UseSigner(r) \/ CallRemote(r)

Next ==
  \/ \E r \in Request :
       \/ Submit(r) \/ Progress(r) \/ Timeout(r)
       \/ GetsConnection(r) \/ Lock(r) \/ StatementFails(r)
       \/ RemoteAnswers(r) \/ RemoteSends(r)
  \/ \E k \in CacheKeys : Derive(k) \/ DeriveFails(k)

(* The event loop runs what is due, a derivation settles, the timer fires, *)
(* and neither the pool nor the row lock passes a waiter over for ever.    *)
(* Nothing is assumed of the remote signer: it may never answer.           *)
Fairness ==
  /\ \A r \in Request :
       /\ WF_vars(Progress(r)) /\ WF_vars(Timeout(r))
       /\ SF_vars(GetsConnection(r)) /\ SF_vars(Lock(r))
  /\ \A k \in CacheKeys : WF_vars(Derive(k))

Safety == Init /\ [][Next]_vars

Spec == Safety /\ Fairness

-----------------------------------------------------------------------------
(* Properties                                                              *)

(* Connections and row locks are held by those who should and by nobody    *)
(* else: none leaks with a failure, none is counted twice, and whoever     *)
(* holds a row holds the connection of its transaction (updateStatusList   *)
(* of storage-sql.ts).                                                     *)
NothingLeaks ==
  /\ held = {r \in Request : HoldsConnection(r)}
  /\ Cardinality(held) <= poolSize
  /\ \A l \in List :
       rowOwner[l] # None =>
         /\ rowOwner[l] \in held
         /\ op[rowOwner[l]] = [kind |-> "set", list |-> l]
         /\ phase[rowOwner[l]] \notin {"reading", "locking", "inserting"}

(* What r waits for: a connection while the pool is full, so that one of   *)
(* those who hold them goes on; or a row, so that its owner does.          *)
Waits(r) ==
  \/ phase[r] \in Wanting /\ Cardinality(held) >= poolSize
  \/ phase[r] = "locking" /\ rowOwner[op[r].list] # None

WaitsFor(r) ==
  IF phase[r] \in Wanting THEN held ELSE {rowOwner[op[r].list]}

GoesOn(r) == r \in Request /\ phase[r] \notin {"idle", "done"} /\ ~Waits(r)

(* Every wait ends: there is somebody to wait for, and each of them goes   *)
(* on or waits for a row whose owner goes on.  So waits form no circle and *)
(* none is for a request that is gone; a transaction that took its         *)
(* connection while it held another, or a row, would make one as soon as   *)
(* the pool is full (createDialect and updateStatusList of storage-sql.ts; *)
(* the queries of #classifyAllocationFailure run "on their own             *)
(* connection").                                                           *)
WaitsEnd ==
  \A r \in Request :
     Waits(r) =>
       /\ WaitsFor(r) # {}
       /\ \A q \in WaitsFor(r) :
            \/ GoesOn(q)
            \/ phase[q] = "locking" /\ \A s \in WaitsFor(q) : GoesOn(s)

(* A list is signed with the key of the instance it is bound to, though    *)
(* another tenant's instance has the same id (#cacheKey of                 *)
(* signing-local.ts, "keying on one would let a second tenant's `default`  *)
(* instance be signed by the first tenant's key").                         *)
SignedByOwnKey ==
  \A l \in List :
     signature[l] # None => signature[l] = KeyOf[InstanceOf[l]]

(* A derivation that fails is forgotten, fails everybody who shares it,    *)
(* and rolls their transactions back: the next caller derives again        *)
(* (#signerFor of signing-local.ts, "A failed derivation is not cached").  *)
FailedDerivation(k) ==
  Pending(k) /\ \E r \in JoinedTo(k) : status'[r] # None

FailureIsShared ==
  [][\A k \in CacheKeys :
       FailedDerivation(k) =>
         /\ signers'[k] = Nobody
         /\ \A r \in JoinedTo(k) :
              /\ status'[r] = 500 /\ r \notin held'
              /\ \A l \in List : rowOwner'[l] # r]_vars

(* Every request is answered, the GETs and the health check behind slow    *)
(* signatures included, whatever the remote signer does.                   *)
EveryRequestAnswered ==
  \A r \in Request : phase[r] \notin {"idle", "done"} ~> phase[r] = "done"
=============================================================================
