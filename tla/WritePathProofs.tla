--------------------------- MODULE WritePathProofs ---------------------------
(***************************************************************************)
(* What WritePath guarantees for any requests, lists, pool sizes, issuer   *)
(* instances and keys, with either signing service.                        *)
(*                                                                         *)
(* IInv is TypeOK, what a request has in each phase (RequestState), who    *)
(* holds connections and rows (PoolState) and SignedByOwnKey.  It carries  *)
(* the kind of each request through its phases, because whether a request  *)
(* that waits for a signature holds a connection depends on its kind.      *)
(***************************************************************************)
EXTENDS WritePath, FiniteSetTheorems, TLAPS

Operation == [kind : Kind, list : List]

RequestFacts(r) ==
  /\ phase[r] \notin {"idle", "done"} => op[r] \in Operation
  /\ phase[r] \in {"wants-transaction", "locking", "applying", "writing"} =>
       op[r].kind = "set"
  /\ phase[r] \in {"wants-insert", "inserting"} => op[r].kind = "create"
  /\ phase[r] \in Signing => op[r].kind \in {"set", "create"}
  /\ phase[r] \in {"wants-insert", "inserting", "writing"} =>
       signedBy[r] = KeyOf[InstanceFor(r)]
  /\ r \in joined =>
       /\ mode = "local" /\ phase[r] \in {"naming", "signing"}
       /\ signers[CacheKey(InstanceFor(r))] # Nobody

RequestState == \A r \in Request : RequestFacts(r)

PoolState ==
  /\ IsFiniteSet(held) /\ Cardinality(held) <= poolSize
  /\ \A r \in Request : r \in held <=> HoldsConnection(r)
  /\ \A l \in List :
       rowOwner[l] # None =>
         /\ phase[rowOwner[l]] \in {"applying", "writing"} \cup Signing
         /\ op[rowOwner[l]] = [kind |-> "set", list |-> l]

IInv == TypeOK /\ RequestState /\ PoolState /\ SignedByOwnKey

-----------------------------------------------------------------------------
(* Data.                                                                   *)
LEMMA CacheKeyFacts ==
  ASSUME NEW r \in Request, op[r] \in Operation
  PROVE  /\ op[r].list \in List /\ op[r].kind \in Kind
         /\ InstanceFor(r) \in Instance
         /\ InstanceFor(r) = InstanceOf[op[r].list]
         /\ CacheKey(InstanceFor(r)) = KeyOf[InstanceFor(r)]
         /\ CacheKey(InstanceFor(r)) \in Key
         /\ CacheKey(InstanceFor(r)) \in CacheKeys
  BY InstanceAssumption, InstanceOfAssumption
     DEF Operation, InstanceFor, CacheKey, CacheKeys

LEMMA StatusType ==
  ASSUME NEW code \in Codes
  PROVE  HttpStatus(code) \in Statuses /\ HttpStatus(code) # None
  BY StatusAssumption DEF Statuses

(* Whatever is given back, the pool stays within its size.                 *)
LEMMA GiveBackCount ==
  ASSUME NEW R, IsFiniteSet(held), poolSize \in Nat, Cardinality(held) <= poolSize
  PROVE  IsFiniteSet(held \ R) /\ Cardinality(held \ R) <= poolSize
  <1>1. held \ R \subseteq held
    OBVIOUS
  <1>2. /\ IsFiniteSet(held \ R) /\ Cardinality(held \ R) \in Nat
        /\ Cardinality(held) \in Nat
        /\ Cardinality(held \ R) <= Cardinality(held)
    BY <1>1, FS_Subset, FS_CardinalityType
  <1> QED
    BY <1>2

LEMMA TakeCount ==
  ASSUME NEW r, IsFiniteSet(held), poolSize \in Nat, Cardinality(held) < poolSize
  PROVE  IsFiniteSet(held \cup {r}) /\ Cardinality(held \cup {r}) <= poolSize
  <1>1. /\ IsFiniteSet(held \cup {r}) /\ Cardinality(held) \in Nat
        /\ Cardinality(held \cup {r}) = IF r \in held THEN Cardinality(held)
                                        ELSE Cardinality(held) + 1
    BY FS_AddElement, FS_CardinalityType
  <1> QED
    BY <1>1

LEMMA PoolSizeType == TypeOK => poolSize \in Nat
  BY PoolSizesAssumption DEF TypeOK

-----------------------------------------------------------------------------
LEMMA InitInv == Init => IInv
  <1> SUFFICES ASSUME Init PROVE IInv
    OBVIOUS
  <1> USE DEF Init, PoolInit, SignersInit
  <1>1. TypeOK
    BY DEF TypeOK, Phase
  <1>2. RequestState
    BY DEF RequestState, RequestFacts, Signing
  <1>3. PoolState
    BY FS_EmptySet, PoolSizesAssumption
       DEF PoolState, HoldsConnection, Holding, Signing
  <1>4. SignedByOwnKey
    BY DEF SignedByOwnKey
  <1> QED
    BY <1>1, <1>2, <1>3, <1>4 DEF IInv

(* Handlers end, and what they hold goes back.                             *)
LEMMA AnswerAllInv ==
  ASSUME IInv, NEW R \in SUBSET Request, NEW code \in Codes,
         AnswerAll(R, code),
         signers' \in [CacheKeys -> Derivation \cup {Nobody}],
         \A k \in CacheKeys : signers'[k] # Nobody => signers'[k].key = k,
         \A q \in joined \ R : signers'[CacheKey(InstanceFor(q))] # Nobody,
         signature' \in [List -> Key \cup {None}], SignedByOwnKey',
         UNCHANGED mode
  PROVE  IInv'
  <1> USE DEF AnswerAll, GiveBack
  <1>1. HttpStatus(code) \in Statuses /\ HttpStatus(code) # None
    BY StatusType
  <1>2. TypeOK'
    BY <1>1 DEF IInv, TypeOK, Phase
  <1>3. /\ \A q \in R : phase'[q] = "done"
        /\ \A q \in Request \ R : phase'[q] = phase[q] /\ signedBy'[q] = signedBy[q]
    BY DEF IInv, TypeOK
  <1>4. RequestState'
    <2> SUFFICES ASSUME NEW q \in Request PROVE RequestFacts(q)'
      BY DEF RequestState
    <2>1. InstanceFor(q)' = InstanceFor(q)
      BY DEF InstanceFor
    <2>2. CASE q \in R
      BY <1>3, <2>2 DEF RequestFacts, Signing
    <2>3. CASE q \notin R
      BY <1>3, <2>1, <2>3 DEF IInv, RequestState, RequestFacts, Signing, CacheKey
    <2> QED
      BY <2>2, <2>3
  <1>5. PoolState'
    <2>1. IsFiniteSet(held') /\ Cardinality(held') <= poolSize'
      BY GiveBackCount, PoolSizeType DEF IInv, PoolState
    <2>2. ASSUME NEW q \in Request PROVE q \in held' <=> HoldsConnection(q)'
      BY <1>3 DEF IInv, PoolState, HoldsConnection, Holding, Signing
    <2>3. ASSUME NEW l \in List, rowOwner'[l] # None
          PROVE  /\ phase'[rowOwner'[l]] \in {"applying", "writing"} \cup Signing
                 /\ op'[rowOwner'[l]] = [kind |-> "set", list |-> l]
      <3>1. rowOwner'[l] = rowOwner[l] /\ rowOwner[l] \in Request \ R
        BY <2>3 DEF IInv, TypeOK
      <3> QED
        BY <1>3, <2>3, <3>1 DEF IInv, PoolState
    <2> QED
      BY <2>1, <2>2, <2>3 DEF PoolState, Signing
  <1> QED
    BY <1>2, <1>4, <1>5 DEF IInv

(* One request ends and the signers are as they were.                      *)
LEMMA AnswerInv ==
  ASSUME IInv, NEW r \in Request, NEW code \in Codes, Answer(r, code),
         signature' \in [List -> Key \cup {None}], SignedByOwnKey',
         UNCHANGED signerVars
  PROVE  IInv'
  <1>1. \A q \in joined \ {r} : q \in Request /\ signers[CacheKey(InstanceFor(q))] # Nobody
    BY DEF IInv, TypeOK, RequestState, RequestFacts, Signing
  <1> QED
    BY <1>1, AnswerAllInv DEF Answer, signerVars, IInv, TypeOK

(* The same when the credentials are as they were too.                     *)
LEMMA PlainAnswerInv ==
  ASSUME IInv, NEW r \in Request, NEW code \in Codes, Answer(r, code),
         UNCHANGED <<signerVars, signature>>
  PROVE  IInv'
  BY AnswerInv DEF IInv, TypeOK, SignedByOwnKey

(* A request goes on to another phase.                                     *)
LEMMA StepInv ==
  ASSUME IInv, NEW r \in Request, NEW to \in Phase \ {"idle", "done"},
         phase[r] \notin {"idle", "done"},
         phase' = [phase EXCEPT ![r] = to],
         signedBy' \in [Request -> Key \cup {None}],
         \A q \in Request \ {r} : signedBy'[q] = signedBy[q],
         joined' \subseteq Request, joined' \ {r} = joined \ {r},
         RequestFacts(r)', PoolState',
         poolSize' = poolSize, held' \subseteq Request,
         rowOwner' \in [List -> Request \cup {None}],
         UNCHANGED <<signerVars, op, signature, status>>
  PROVE  IInv'
  <1>1. TypeOK'
    BY DEF signerVars, IInv, TypeOK
  <1>2. RequestState'
    <2> SUFFICES ASSUME NEW q \in Request \ {r} PROVE RequestFacts(q)'
      BY DEF RequestState
    <2>1. InstanceFor(q)' = InstanceFor(q) /\ phase'[q] = phase[q]
      BY DEF InstanceFor, IInv, TypeOK
    <2> QED
      BY <2>1 DEF signerVars, IInv, RequestState, RequestFacts, Signing, CacheKey
  <1>3. SignedByOwnKey'
    BY DEF IInv, SignedByOwnKey
  <1> QED
    BY <1>1, <1>2, <1>3 DEF IInv

(* It does so with the connection, or without one, that it had.            *)
LEMMA SamePool ==
  ASSUME IInv, NEW r \in Request, NEW to,
         phase' = [phase EXCEPT ![r] = to],
         HoldsConnection(r)' <=> HoldsConnection(r),
         phase[r] \in {"applying", "writing"} \cup Signing =>
           to \in {"applying", "writing"} \cup Signing \/ op[r].kind # "set",
         UNCHANGED <<poolVars, op>>
  PROVE  PoolState'
  <1>1. \A q \in Request \ {r} : phase'[q] = phase[q]
    BY DEF IInv, TypeOK
  <1>2. phase'[r] = to
    BY DEF IInv, TypeOK
  <1>3. ASSUME NEW q \in Request PROVE q \in held' <=> HoldsConnection(q)'
    BY <1>1 DEF poolVars, IInv, PoolState, HoldsConnection, Holding, Signing
  <1>4. ASSUME NEW l \in List, rowOwner'[l] # None
        PROVE  /\ phase'[rowOwner'[l]] \in {"applying", "writing"} \cup Signing
               /\ op'[rowOwner'[l]] = [kind |-> "set", list |-> l]
    <2>1. rowOwner[l] \in Request
      BY <1>4 DEF poolVars, IInv, TypeOK
    <2> QED
      BY <1>1, <1>2, <1>4, <2>1 DEF poolVars, IInv, PoolState
  <1> QED
    BY <1>3, <1>4 DEF PoolState, poolVars, IInv, Signing

-----------------------------------------------------------------------------
(* One lemma per action.                                                   *)
LEMMA SubmitInv ==
  ASSUME IInv, NEW r \in Request, Submit(r)
  PROVE  IInv'
  <1> PICK o \in Operation :
        /\ op' = [op EXCEPT ![r] = o]
        /\ phase' = [phase EXCEPT ![r] =
                       IF o.kind = "create" THEN "naming" ELSE "wants-read"]
    BY DEF Submit, Operation
  <1>1. /\ phase[r] \in {"idle", "done"} /\ op'[r] = o
        /\ phase'[r] \in {"naming", "wants-read"}
        /\ phase'[r] = "naming" => o.kind = "create"
        /\ \A q \in Request \ {r} : op'[q] = op[q] /\ phase'[q] = phase[q]
    BY DEF Submit, IInv, TypeOK
  <1>2. TypeOK'
    BY <1>1, StatusAssumption
       DEF Submit, Operation, poolVars, signerVars, IInv, TypeOK, Phase, Wanting, Signing
  <1>3. ASSUME NEW q \in Request PROVE RequestFacts(q)'
    <2>1. CASE q = r
      BY <1>1, <2>1 DEF Submit, signerVars, IInv, RequestState, RequestFacts, Signing
    <2>2. CASE q # r
      BY <1>1, <2>2
         DEF Submit, signerVars, IInv, RequestState, RequestFacts, Signing, InstanceFor,
             CacheKey
    <2> QED
      BY <2>1, <2>2
  <1>4. PoolState'
    <2>1. ASSUME NEW q \in Request PROVE q \in held' <=> HoldsConnection(q)'
      BY <1>1 DEF Submit, poolVars, IInv, PoolState, HoldsConnection, Holding, Signing
    <2>2. ASSUME NEW l \in List, rowOwner'[l] # None
          PROVE  /\ phase'[rowOwner'[l]] \in {"applying", "writing"} \cup Signing
                 /\ op'[rowOwner'[l]] = [kind |-> "set", list |-> l]
      <3>1. rowOwner'[l] = rowOwner[l] /\ rowOwner[l] \in Request
        BY <2>2 DEF Submit, poolVars, IInv, TypeOK
      <3> QED
        BY <1>1, <2>2, <3>1 DEF IInv, PoolState, Signing
    <2> QED
      BY <2>1, <2>2 DEF Submit, poolVars, PoolState, IInv, Signing
  <1>5. SignedByOwnKey'
    BY DEF Submit, IInv, SignedByOwnKey
  <1> QED
    BY <1>2, <1>3, <1>4, <1>5 DEF IInv, RequestState

LEMMA GetsConnectionInv ==
  ASSUME IInv, NEW r \in Request, GetsConnection(r)
  PROVE  IInv'
  <1> PICK to \in {"reading", "locking", "inserting"} :
        /\ phase' = [phase EXCEPT ![r] = to]
        /\ to = "reading" => phase[r] = "wants-read"
        /\ to = "locking" => phase[r] = "wants-transaction"
        /\ to = "inserting" => phase[r] = "wants-insert"
    BY DEF GetsConnection, Goto
  <1>1. /\ phase'[r] = to /\ phase[r] \in Wanting
        /\ \A q \in Request \ {r} : phase'[q] = phase[q]
        /\ to \in Phase \ {"idle", "done"}
    BY DEF IInv, TypeOK, Phase, Holding, Wanting
  <1>2. /\ held' = held \cup {r} /\ rowOwner' = rowOwner /\ poolSize' = poolSize
        /\ Cardinality(held) < poolSize /\ op' = op
    BY DEF GetsConnection, Take
  <1>3. PoolState'
    <2>1. IsFiniteSet(held') /\ Cardinality(held') <= poolSize'
      BY <1>2, TakeCount, PoolSizeType DEF IInv, PoolState
    <2>2. ASSUME NEW q \in Request PROVE q \in held' <=> HoldsConnection(q)'
      BY <1>1, <1>2 DEF IInv, PoolState, HoldsConnection, Holding, Signing
    <2>3. ASSUME NEW l \in List, rowOwner'[l] # None
          PROVE  /\ phase'[rowOwner'[l]] \in {"applying", "writing"} \cup Signing
                 /\ op'[rowOwner'[l]] = [kind |-> "set", list |-> l]
      <3>1. rowOwner[l] \in Request \ {r}
        <4>1. rowOwner[l] \in Request /\ rowOwner[l] # None
          BY <1>2, <2>3 DEF IInv, TypeOK
        <4>2. phase[rowOwner[l]] \in {"applying", "writing"} \cup Signing
          BY <4>1 DEF IInv, PoolState
        <4>3. phase[r] \notin {"applying", "writing"} \cup Signing
          BY <1>1 DEF Wanting, Signing
        <4> QED
          BY <4>1, <4>2, <4>3
      <3> QED
        BY <1>1, <1>2, <2>3, <3>1 DEF IInv, PoolState
    <2> QED
      BY <2>1, <2>2, <2>3 DEF PoolState, Signing
  <1>4. RequestFacts(r)'
    BY <1>1
       DEF GetsConnection, signerVars, IInv, RequestState, RequestFacts, Signing,
           InstanceFor, Wanting
  <1>5. phase[r] \notin {"idle", "done"}
    BY <1>1 DEF Wanting
  <1>6. held' \subseteq Request
    BY <1>2 DEF IInv, TypeOK
  <1> QED
    BY <1>1, <1>2, <1>3, <1>4, <1>5, <1>6, StepInv DEF GetsConnection, IInv, TypeOK

LEMMA ReadInv ==
  ASSUME IInv, NEW r \in Request, Read(r)
  PROVE  IInv'
  <1>1. ASSUME NEW code \in Codes, Answer(r, code) PROVE IInv'
    BY <1>1, PlainAnswerInv DEF Read
  <1>2. CASE /\ op[r].kind = "set"
             /\ Goto(r, "reading", "wants-transaction")
             /\ GiveBack({r})
             /\ UNCHANGED <<op, joined, signedBy, status>>
    <2>1. /\ phase'[r] = "wants-transaction" /\ phase[r] = "reading"
          /\ \A q \in Request \ {r} : phase'[q] = phase[q]
          /\ phase' = [phase EXCEPT ![r] = "wants-transaction"]
      BY <1>2 DEF Goto, IInv, TypeOK
    <2>2. PoolState'
      <3>1. IsFiniteSet(held') /\ Cardinality(held') <= poolSize'
        BY <1>2, GiveBackCount, PoolSizeType DEF GiveBack, IInv, PoolState
      <3>2. ASSUME NEW q \in Request PROVE q \in held' <=> HoldsConnection(q)'
        BY <1>2, <2>1 DEF GiveBack, IInv, PoolState, HoldsConnection, Holding, Signing
      <3>3. ASSUME NEW l \in List, rowOwner'[l] # None
            PROVE  /\ phase'[rowOwner'[l]] \in {"applying", "writing"} \cup Signing
                   /\ op'[rowOwner'[l]] = [kind |-> "set", list |-> l]
        <4>1. rowOwner'[l] = rowOwner[l] /\ rowOwner[l] \in Request \ {r}
          BY <1>2, <3>3 DEF GiveBack, IInv, TypeOK
        <4> QED
          BY <1>2, <2>1, <3>3, <4>1 DEF IInv, PoolState
      <3> QED
        BY <3>1, <3>2, <3>3 DEF PoolState, Signing
    <2>3. RequestFacts(r)'
      BY <1>2, <2>1
         DEF Read, signerVars, IInv, RequestState, RequestFacts, Signing, InstanceFor
    <2>4. "wants-transaction" \in Phase \ {"idle", "done"}
      BY DEF Phase, Wanting
    <2>5. /\ held' \subseteq Request /\ poolSize' = poolSize
          /\ rowOwner' \in [List -> Request \cup {None}]
      BY <1>2 DEF GiveBack, IInv, TypeOK
    <2>6. UNCHANGED <<signerVars, signature>>
      BY DEF Read
    <2> QED
      BY <1>2, <2>1, <2>2, <2>3, <2>4, <2>5, <2>6, StepInv DEF IInv, TypeOK
  <1> QED
    BY <1>1, <1>2 DEF Read, Codes, NotFound, Success

LEMMA LockInv ==
  ASSUME IInv, NEW r \in Request, Lock(r)
  PROVE  IInv'
  <1>1. /\ phase'[r] = "applying" /\ phase[r] = "locking"
        /\ \A q \in Request \ {r} : phase'[q] = phase[q]
        /\ phase' = [phase EXCEPT ![r] = "applying"]
    BY DEF Lock, Goto, IInv, TypeOK
  <1>2. /\ op[r] \in Operation /\ op[r].kind = "set" /\ op[r].list \in List
        /\ op[r] = [kind |-> "set", list |-> op[r].list]
    BY <1>1 DEF IInv, RequestState, RequestFacts, Signing, Operation
  <1>3. /\ rowOwner' = [rowOwner EXCEPT ![op[r].list] = r]
        /\ held' = held /\ poolSize' = poolSize /\ op' = op
    BY DEF Lock, LockRow
  <1>4. PoolState'
    <2>1. ASSUME NEW q \in Request PROVE q \in held' <=> HoldsConnection(q)'
      BY <1>1, <1>3 DEF IInv, PoolState, HoldsConnection, Holding, Signing
    <2>2. ASSUME NEW l \in List, rowOwner'[l] # None
          PROVE  /\ phase'[rowOwner'[l]] \in {"applying", "writing"} \cup Signing
                 /\ op'[rowOwner'[l]] = [kind |-> "set", list |-> l]
      <3>1. CASE l = op[r].list
        BY <1>1, <1>2, <1>3, <3>1 DEF IInv, TypeOK
      <3>2. CASE l # op[r].list
        <4>1. rowOwner'[l] = rowOwner[l] /\ rowOwner[l] \in Request
          BY <1>3, <2>2, <3>2 DEF IInv, TypeOK
        <4> QED
          BY <1>1, <1>3, <2>2, <4>1 DEF IInv, PoolState
      <3> QED
        BY <3>1, <3>2
    <2> QED
      BY <1>3, <2>1, <2>2 DEF PoolState, IInv, Signing
  <1>5. RequestFacts(r)'
    BY <1>1, <1>2, <1>3
       DEF Lock, signerVars, IInv, RequestState, RequestFacts, Signing
  <1>6. "applying" \in Phase \ {"idle", "done"}
    BY DEF Phase, Holding
  <1>7. rowOwner' \in [List -> Request \cup {None}]
    BY <1>3 DEF IInv, TypeOK
  <1> QED
    BY <1>1, <1>3, <1>4, <1>5, <1>6, <1>7, StepInv DEF Lock, IInv, TypeOK

LEMMA ApplyInv ==
  ASSUME IInv, NEW r \in Request, Apply(r)
  PROVE  IInv'
  <1>1. ASSUME NEW code \in Codes, Answer(r, code) PROVE IInv'
    BY <1>1, PlainAnswerInv DEF Apply
  <1>2. CASE /\ Goto(r, "applying", "naming")
             /\ UNCHANGED <<poolVars, op, joined, signedBy, status>>
    <2>1. /\ phase'[r] = "naming" /\ phase[r] = "applying"
          /\ phase' = [phase EXCEPT ![r] = "naming"]
      BY <1>2 DEF Goto, IInv, TypeOK
    <2>2. op[r] \in Operation /\ op[r].kind = "set"
      BY <2>1 DEF IInv, RequestState, RequestFacts, Signing
    <2>3. HoldsConnection(r)' <=> HoldsConnection(r)
      BY <1>2, <2>1, <2>2 DEF HoldsConnection, Holding, Signing
    <2>4. PoolState'
      BY <1>2, <2>1, <2>3, SamePool DEF Signing
    <2>5. RequestFacts(r)'
      BY <1>2, <2>1, <2>2
         DEF Apply, signerVars, IInv, RequestState, RequestFacts, Signing
    <2>6. "naming" \in Phase \ {"idle", "done"}
      BY DEF Phase, Signing
    <2> QED
      BY <1>2, <2>1, <2>4, <2>5, <2>6, StepInv DEF Apply, poolVars, IInv, TypeOK
  <1> QED
    BY <1>1, <1>2 DEF Apply, Codes, BadRequest, Success

LEMMA WriteInv ==
  ASSUME IInv, NEW r \in Request, Write(r)
  PROVE  IInv'
  <1>1. phase[r] = "writing"
    BY DEF Write
  <1>2. /\ op[r] \in Operation
        /\ signedBy[r] = KeyOf[InstanceOf[op[r].list]]
        /\ op[r].list \in List /\ signedBy[r] \in Key
    BY <1>1, InstanceAssumption, InstanceOfAssumption
       DEF IInv, RequestState, RequestFacts, Signing, Operation, InstanceFor
  <1>3. signature' = [signature EXCEPT ![op[r].list] = signedBy[r]]
          /\ Answer(r, "changed") /\ UNCHANGED signerVars
    BY DEF Write
  <1>4. /\ signature' \in [List -> Key \cup {None}]
        /\ SignedByOwnKey'
    BY <1>2, <1>3 DEF IInv, TypeOK, SignedByOwnKey
  <1>5. "changed" \in Codes
    BY DEF Codes, Success
  <1> QED
    BY <1>3, <1>4, <1>5, AnswerInv

LEMMA InsertInv ==
  ASSUME IInv, NEW r \in Request, Insert(r)
  PROVE  IInv'
  <1>1. phase[r] = "inserting" /\ UNCHANGED signerVars
    BY DEF Insert
  <1>2. /\ op[r] \in Operation
        /\ signedBy[r] = KeyOf[InstanceOf[op[r].list]]
        /\ op[r].list \in List /\ signedBy[r] \in Key
    BY <1>1, InstanceAssumption, InstanceOfAssumption
       DEF IInv, RequestState, RequestFacts, Signing, Operation, InstanceFor
  <1>3. "created" \in Codes /\ "duplicate-list" \in Codes
    BY DEF Codes, Conflict
  <1>4. CASE signature' = [signature EXCEPT ![op[r].list] = signedBy[r]]
               /\ Answer(r, "created")
    <2>1. /\ signature' \in [List -> Key \cup {None}]
          /\ SignedByOwnKey'
      BY <1>2, <1>4 DEF IInv, TypeOK, SignedByOwnKey
    <2> QED
      BY <1>1, <1>3, <1>4, <2>1, AnswerInv
  <1>5. CASE Answer(r, "duplicate-list") /\ UNCHANGED signature
    BY <1>1, <1>3, <1>5, PlainAnswerInv
  <1> QED
    BY <1>4, <1>5 DEF Insert

LEMMA StatementFailsInv ==
  ASSUME IInv, NEW r \in Request, StatementFails(r)
  PROVE  IInv'
  BY PlainAnswerInv DEF StatementFails, Codes, ServerError, Unavailable

(* A request that has its signature goes on with it.                       *)
LEMMA SignedInv ==
  ASSUME IInv, NEW r \in Request, Signed(r, KeyOf[InstanceFor(r)]),
         phase[r] \in {"signing", "receiving"},
         UNCHANGED <<signerVars, signature>>
  PROVE  IInv'
  <1> DEFINE to == IF op[r].kind = "set" THEN "writing" ELSE "wants-insert"
  <1>1. phase' = [phase EXCEPT ![r] = to] /\ phase'[r] = to /\ op' = op
    BY DEF Signed, IInv, TypeOK
  <1>2. op[r] \in Operation
    BY DEF IInv, RequestState, RequestFacts, Signing
  <1>3. KeyOf[InstanceFor(r)] \in Key
    BY <1>2, CacheKeyFacts
  <1>4. /\ signedBy' \in [Request -> Key \cup {None}]
        /\ signedBy'[r] = KeyOf[InstanceFor(r)]
        /\ \A q \in Request \ {r} : signedBy'[q] = signedBy[q]
    BY <1>3 DEF Signed, IInv, TypeOK
  <1>5. HoldsConnection(r)' <=> HoldsConnection(r)
    BY <1>1 DEF HoldsConnection, Holding, Signing
  <1>6. PoolState'
    BY <1>1, <1>5, SamePool DEF Signed, Signing
  <1>7. to \in Phase \ {"idle", "done"}
    BY DEF Phase, Holding, Wanting
  <1>8. joined' \subseteq Request /\ joined' \ {r} = joined \ {r} /\ r \notin joined'
    BY DEF Signed, IInv, TypeOK
  <1>9. op[r].kind = "set" \/ op[r].kind = "create"
    BY DEF IInv, RequestState, RequestFacts, Signing
  <1>10. InstanceFor(r)' = InstanceFor(r)
    BY <1>1 DEF InstanceFor
  <1>11. RequestFacts(r)'
    BY <1>1, <1>2, <1>4, <1>8, <1>9, <1>10 DEF RequestFacts, Signing
  <1> QED
    BY <1>1, <1>4, <1>6, <1>7, <1>8, <1>11, StepInv
       DEF Signed, poolVars, IInv, TypeOK

LEMMA CallLocalInv ==
  ASSUME IInv, NEW r \in Request, CallLocal(r)
  PROVE  IInv'
  <1> DEFINE i == InstanceFor(r)
             k == CacheKey(i)
  <1>1. op[r] \in Operation /\ phase[r] \in {"naming", "signing"} /\ mode = "local"
    BY DEF CallLocal, IInv, RequestState, RequestFacts, Signing
  <1>2. /\ k \in CacheKeys /\ k = KeyOf[i] /\ KeyOf[i] \in Key
    BY <1>1, CacheKeyFacts
  <1>3. \/ signers[k] # Nobody /\ signers' = signers
        \/ /\ signers[k] = Nobody
           /\ signers' = [signers EXCEPT ![k] = [key |-> KeyOf[i], ready |-> FALSE]]
    BY DEF CallLocal, SignerFor
  <1>4. [key |-> KeyOf[i], ready |-> FALSE] \in Derivation
    BY <1>2 DEF Derivation
  <1>5. /\ signers' \in [CacheKeys -> Derivation \cup {Nobody}]
        /\ \A j \in CacheKeys : signers'[j] # Nobody => signers'[j].key = j
        /\ \A j \in CacheKeys : signers[j] # Nobody => signers'[j] # Nobody
        /\ signers'[k] # Nobody
    BY <1>2, <1>3, <1>4, NobodyAssumption DEF IInv, TypeOK
  <1>6. TypeOK'
    BY <1>5 DEF CallLocal, poolVars, IInv, TypeOK
  <1>7. ASSUME NEW q \in Request PROVE RequestFacts(q)'
    <2>1. InstanceFor(q)' = InstanceFor(q)
      BY DEF CallLocal, InstanceFor
    <2>2. CASE q = r
      BY <1>1, <1>5, <2>1, <2>2
         DEF CallLocal, IInv, RequestState, RequestFacts, Signing, CacheKey
    <2>3. CASE q # r
      <3>1. q \in joined => CacheKey(InstanceFor(q)) \in CacheKeys
        BY CacheKeyFacts DEF IInv, RequestState, RequestFacts, Signing
      <3>2. q \in joined' <=> q \in joined
        BY <2>3 DEF CallLocal
      <3> QED
        BY <1>5, <2>1, <2>3, <3>1, <3>2
           DEF CallLocal, IInv, RequestState, RequestFacts, Signing, CacheKey
    <2> QED
      BY <2>2, <2>3
  <1>8. PoolState'
    BY DEF CallLocal, poolVars, IInv, PoolState, HoldsConnection, Signing
  <1>9. SignedByOwnKey'
    BY DEF CallLocal, IInv, SignedByOwnKey
  <1> QED
    BY <1>6, <1>7, <1>8, <1>9 DEF IInv, RequestState

LEMMA UseSignerInv ==
  ASSUME IInv, NEW r \in Request, UseSigner(r)
  PROVE  IInv'
  <1> DEFINE k == CacheKey(InstanceFor(r))
  <1>0. UNCHANGED <<signerVars, signature>> /\ r \in joined /\ Ready(k)
    BY DEF UseSigner
  <1>1. /\ op[r] \in Operation /\ phase[r] \in {"naming", "signing"}
        /\ op[r].kind \in {"set", "create"}
    BY <1>0 DEF IInv, RequestState, RequestFacts, Signing
  <1>2. signers[k].key = KeyOf[InstanceFor(r)]
    BY <1>0, <1>1, CacheKeyFacts DEF Ready, IInv, TypeOK
  <1>3. CASE /\ Goto(r, "naming", "signing")
             /\ joined' = joined \ {r}
             /\ UNCHANGED <<poolVars, op, signedBy, status>>
    <2>1. /\ phase'[r] = "signing" /\ phase[r] = "naming"
          /\ phase' = [phase EXCEPT ![r] = "signing"]
      BY <1>3 DEF Goto, IInv, TypeOK
    <2>2. HoldsConnection(r)' <=> HoldsConnection(r)
      BY <1>3, <2>1 DEF HoldsConnection, Holding, Signing
    <2>3. PoolState'
      BY <1>3, <2>1, <2>2, SamePool DEF Signing
    <2>4. RequestFacts(r)'
      BY <1>1, <1>3, <2>1 DEF RequestFacts, Signing
    <2>5. "signing" \in Phase \ {"idle", "done"}
      BY DEF Phase, Signing
    <2> QED
      BY <1>0, <1>3, <2>1, <2>3, <2>4, <2>5, StepInv DEF poolVars, IInv, TypeOK
  <1>4. CASE phase[r] = "signing" /\ Signed(r, signers[k].key)
    BY <1>0, <1>2, <1>4, SignedInv
  <1>5. CASE Answer(r, "signing-error")
    BY <1>0, <1>5, PlainAnswerInv DEF Codes, ServerError
  <1> QED
    BY <1>3, <1>4, <1>5 DEF UseSigner

LEMMA DeriveInv ==
  ASSUME IInv, NEW k \in CacheKeys, Derive(k)
  PROVE  IInv'
  <1>1. /\ signers[k] # Nobody /\ signers[k] \in Derivation
        /\ signers' = [signers EXCEPT ![k].ready = TRUE]
    BY DEF Derive, Derived, Pending, IInv, TypeOK
  <1> DEFINE new == [signers[k] EXCEPT !.ready = TRUE]
  <1>2. new \in Derivation /\ new.key = signers[k].key
    BY <1>1 DEF Derivation
  <1>3. /\ signers' \in [CacheKeys -> Derivation \cup {Nobody}]
        /\ \A j \in CacheKeys : signers'[j] # Nobody => signers'[j].key = j
        /\ \A j \in CacheKeys : signers[j] # Nobody => signers'[j] # Nobody
    BY <1>1, <1>2, NobodyAssumption DEF IInv, TypeOK
  <1>4. TypeOK'
    BY <1>3 DEF Derive, poolVars, requestVars, IInv, TypeOK
  <1>5. ASSUME NEW q \in Request PROVE RequestFacts(q)'
    <2>1. InstanceFor(q)' = InstanceFor(q)
      BY DEF Derive, requestVars, InstanceFor
    <2>2. q \in joined => CacheKey(InstanceFor(q)) \in CacheKeys
      BY CacheKeyFacts DEF IInv, RequestState, RequestFacts, Signing
    <2> QED
      BY <1>3, <2>1, <2>2
         DEF Derive, requestVars, IInv, RequestState, RequestFacts, Signing, CacheKey
  <1>6. PoolState'
    BY DEF Derive, poolVars, requestVars, IInv, PoolState, HoldsConnection, Signing
  <1>7. SignedByOwnKey'
    BY DEF Derive, IInv, SignedByOwnKey
  <1> QED
    BY <1>4, <1>5, <1>6, <1>7 DEF IInv, RequestState

LEMMA DeriveFailsInv ==
  ASSUME IInv, NEW k \in CacheKeys, DeriveFails(k)
  PROVE  IInv'
  <1>1. /\ signers' = [signers EXCEPT ![k] = Nobody]
        /\ AnswerAll(JoinedTo(k), "signing-error")
        /\ UNCHANGED <<mode, signature>>
    BY DEF DeriveFails, DerivationFailed
  <1>2. JoinedTo(k) \in SUBSET Request
    BY DEF JoinedTo, IInv, TypeOK
  <1>3. /\ signers' \in [CacheKeys -> Derivation \cup {Nobody}]
        /\ \A j \in CacheKeys : signers'[j] # Nobody => signers'[j].key = j
    BY <1>1 DEF IInv, TypeOK
  <1>4. ASSUME NEW q \in joined \ JoinedTo(k)
        PROVE  signers'[CacheKey(InstanceFor(q))] # Nobody
    <2>1. q \in Request /\ CacheKey(InstanceFor(q)) # k
      BY DEF JoinedTo, IInv, TypeOK
    <2>2. /\ signers[CacheKey(InstanceFor(q))] # Nobody
          /\ CacheKey(InstanceFor(q)) \in CacheKeys
      BY <2>1, CacheKeyFacts DEF IInv, RequestState, RequestFacts, Signing
    <2> QED
      BY <1>1, <2>1, <2>2 DEF IInv, TypeOK
  <1>5. signature' \in [List -> Key \cup {None}] /\ SignedByOwnKey'
    BY <1>1 DEF IInv, TypeOK, SignedByOwnKey
  <1>6. "signing-error" \in Codes
    BY DEF Codes, ServerError
  <1> QED
    BY <1>1, <1>2, <1>3, <1>4, <1>5, <1>6, AnswerAllInv

LEMMA CallRemoteInv ==
  ASSUME IInv, NEW r \in Request, CallRemote(r)
  PROVE  IInv'
  <1>0. UNCHANGED <<signerVars, signature>> /\ mode = "http"
    BY DEF CallRemote
  <1>1. ASSUME NEW to \in {"signing", "calling"},
               phase[r] \in {"naming", "signing"},
               phase' = [phase EXCEPT ![r] = to],
               UNCHANGED <<poolVars, op, joined, signedBy, status>>
        PROVE  IInv'
    <2>1. phase'[r] = to
      BY <1>1 DEF IInv, TypeOK
    <2>2. /\ op[r] \in Operation /\ op[r].kind \in {"set", "create"}
          /\ r \notin joined
      BY <1>0, <1>1 DEF IInv, RequestState, RequestFacts, Signing
    <2>3. HoldsConnection(r)' <=> HoldsConnection(r)
      BY <1>1, <2>1 DEF HoldsConnection, Holding, Signing
    <2>4. PoolState'
      BY <1>1, <2>1, <2>3, SamePool DEF Signing
    <2>5. RequestFacts(r)'
      BY <1>1, <2>1, <2>2 DEF RequestFacts, Signing
    <2>6. to \in Phase \ {"idle", "done"}
      BY DEF Phase, Signing
    <2> QED
      BY <1>0, <1>1, <2>4, <2>5, <2>6, StepInv DEF poolVars, IInv, TypeOK
  <1>2. CASE Answer(r, "signing-misconfigured")
    BY <1>0, <1>2, PlainAnswerInv DEF Codes, ServerError
  <1> QED
    BY <1>1, <1>2 DEF CallRemote, Goto

LEMMA RemoteAnswersInv ==
  ASSUME IInv, NEW r \in Request, RemoteAnswers(r)
  PROVE  IInv'
  <1>0. UNCHANGED <<signerVars, signature>> /\ phase[r] = "calling"
    BY DEF RemoteAnswers
  <1>1. ASSUME NEW code \in {"signing-unavailable", "signing-rejected"}, Answer(r, code)
        PROVE  IInv'
    BY <1>0, <1>1, PlainAnswerInv DEF Codes, Unavailable
  <1>2. CASE /\ Goto(r, "calling", "receiving")
             /\ UNCHANGED <<poolVars, op, joined, signedBy, status>>
    <2>1. phase'[r] = "receiving" /\ phase' = [phase EXCEPT ![r] = "receiving"]
      BY <1>2 DEF Goto, IInv, TypeOK
    <2>2. /\ op[r] \in Operation /\ op[r].kind \in {"set", "create"}
          /\ r \notin joined
      BY <1>0 DEF IInv, RequestState, RequestFacts, Signing
    <2>3. HoldsConnection(r)' <=> HoldsConnection(r)
      BY <1>0, <1>2, <2>1 DEF HoldsConnection, Holding, Signing
    <2>4. PoolState'
      BY <1>2, <2>1, <2>3, SamePool DEF Signing
    <2>5. RequestFacts(r)'
      BY <1>2, <2>1, <2>2 DEF RequestFacts, Signing
    <2>6. "receiving" \in Phase \ {"idle", "done"}
      BY DEF Phase, Signing
    <2> QED
      BY <1>0, <1>2, <2>1, <2>4, <2>5, <2>6, StepInv DEF poolVars, IInv, TypeOK
  <1> QED
    BY <1>1, <1>2 DEF RemoteAnswers

LEMMA RemoteSendsInv ==
  ASSUME IInv, NEW r \in Request, RemoteSends(r)
  PROVE  IInv'
  <1>1. CASE Signed(r, KeyOf[InstanceFor(r)])
    BY <1>1, SignedInv DEF RemoteSends
  <1>2. ASSUME NEW code \in {"signing-rejected", "unknown"}, Answer(r, code)
        PROVE  IInv'
    BY <1>2, PlainAnswerInv DEF RemoteSends, Codes, ServerError
  <1> QED
    BY <1>1, <1>2 DEF RemoteSends

LEMMA TimeoutInv ==
  ASSUME IInv, NEW r \in Request, Timeout(r)
  PROVE  IInv'
  BY PlainAnswerInv DEF Timeout, Codes, Unavailable, ServerError

LEMMA NextInv == IInv /\ [Next]_vars => IInv'
  <1> SUFFICES ASSUME IInv, [Next]_vars PROVE IInv'
    OBVIOUS
  <1>1. ASSUME NEW r \in Request, Progress(r) PROVE IInv'
    BY <1>1, ReadInv, ApplyInv, WriteInv, InsertInv, CallLocalInv,
       UseSignerInv, CallRemoteInv DEF Progress
  <1>2. ASSUME UNCHANGED vars PROVE IInv'
    BY <1>2 DEF vars, poolVars, signerVars, requestVars, IInv, TypeOK,
                RequestState, RequestFacts, PoolState, SignedByOwnKey,
                HoldsConnection, InstanceFor, CacheKey, Signing
  <1> QED
    BY <1>1, <1>2, SubmitInv, GetsConnectionInv, LockInv, StatementFailsInv,
       RemoteAnswersInv, RemoteSendsInv, TimeoutInv, DeriveInv, DeriveFailsInv
       DEF Next

(* The invariant holds in every reachable state.                           *)
THEOREM Invariance == Spec => []IInv
  <1> QED
    BY InitInv, NextInv, PTL DEF Spec, Safety

-----------------------------------------------------------------------------
(* Every variable keeps its type, a cached signer stays under its own key  *)
(* and a request has an HTTP status exactly when it is done.               *)
THEOREM TypesAreKept == Spec => []TypeOK
  <1> QED
    BY Invariance, PTL DEF IInv

(* Connections and rows are held by those who should, and never by more    *)
(* than the pool has connections for, whatever fails.                      *)
THEOREM PoolIsKept == Spec => []NothingLeaks
  <1>1. IInv => NothingLeaks
    <2> SUFFICES ASSUME IInv PROVE NothingLeaks
      OBVIOUS
    <2>1. held = {r \in Request : HoldsConnection(r)}
      BY DEF IInv, TypeOK, PoolState
    <2>2. ASSUME NEW l \in List, rowOwner[l] # None
          PROVE  /\ rowOwner[l] \in held
                 /\ op[rowOwner[l]] = [kind |-> "set", list |-> l]
                 /\ phase[rowOwner[l]] \notin {"reading", "locking", "inserting"}
      <3>1. rowOwner[l] \in Request
        BY <2>2 DEF IInv, TypeOK
      <3>2. /\ phase[rowOwner[l]] \in {"applying", "writing"} \cup Signing
            /\ op[rowOwner[l]] = [kind |-> "set", list |-> l]
        BY <2>2 DEF IInv, PoolState
      <3>3. HoldsConnection(rowOwner[l])
        BY <3>2 DEF HoldsConnection, Holding
      <3> QED
        BY <2>1, <3>1, <3>2, <3>3 DEF Signing
    <2> QED
      BY <2>1, <2>2 DEF NothingLeaks, IInv, PoolState
  <1> QED
    BY <1>1, Invariance, PTL

(* Nobody waits for a connection while it holds one, or a row.             *)
LEMMA WaitersHoldNothing ==
  ASSUME IInv, NEW r \in Request, phase[r] \in Wanting
  PROVE  r \notin held /\ \A l \in List : rowOwner[l] # r
  <1>1. phase[r] \notin Holding \cup Signing
    BY DEF Wanting, Holding, Signing
  <1>2. r \notin held
    BY <1>1 DEF IInv, PoolState, HoldsConnection
  <1>3. ASSUME NEW l \in List, rowOwner[l] = r PROVE FALSE
    <2>1. phase[r] \in {"applying", "writing"} \cup Signing
      BY <1>3, NoneAssumption DEF IInv, PoolState
    <2> QED
      BY <1>1, <2>1 DEF Holding
  <1> QED
    BY <1>2, <1>3

(* Whoever owns a row is in its transaction and waits for nothing.         *)
LEMMA OwnersGoOn ==
  ASSUME IInv, NEW l \in List, rowOwner[l] # None
  PROVE  GoesOn(rowOwner[l])
  <1>1. rowOwner[l] \in Request
    BY DEF IInv, TypeOK
  <1>2. phase[rowOwner[l]] \in {"applying", "writing"} \cup Signing
    BY DEF IInv, PoolState
  <1> QED
    BY <1>1, <1>2 DEF GoesOn, Waits, Wanting, Signing

(* So does whoever holds a connection, unless it waits for a row.          *)
LEMMA HoldersGoOn ==
  ASSUME IInv, NEW q \in held
  PROVE  \/ GoesOn(q)
         \/ phase[q] = "locking" /\ \A s \in WaitsFor(q) : GoesOn(s)
  <1>1. q \in Request /\ HoldsConnection(q)
    BY DEF IInv, TypeOK, PoolState
  <1>2. phase[q] \in Holding \cup Signing
    BY <1>1 DEF HoldsConnection
  <1>3. phase[q] \notin {"idle", "done"} \cup Wanting
    BY <1>2 DEF Holding, Signing, Wanting
  <1>4. CASE Waits(q)
    <2>1. phase[q] = "locking" /\ rowOwner[op[q].list] # None
      BY <1>3, <1>4 DEF Waits
    <2>2. op[q].list \in List
      BY <1>1, <1>3, CacheKeyFacts DEF IInv, RequestState, RequestFacts
    <2>3. WaitsFor(q) = {rowOwner[op[q].list]}
      BY <1>3 DEF WaitsFor
    <2> QED
      BY <2>1, <2>2, <2>3, OwnersGoOn
  <1> QED
    BY <1>1, <1>3, <1>4 DEF GoesOn

(* Every wait of any number of requests on a pool of any size ends, at     *)
(* most two waits away, with a request that waits for nothing.             *)
THEOREM NoCircularWait == Spec => []WaitsEnd
  <1>1. IInv => WaitsEnd
    <2> SUFFICES ASSUME IInv, NEW r \in Request, Waits(r)
                 PROVE  /\ WaitsFor(r) # {}
                        /\ \A q \in WaitsFor(r) :
                             \/ GoesOn(q)
                             \/ /\ phase[q] = "locking"
                                /\ \A s \in WaitsFor(q) : GoesOn(s)
      BY DEF WaitsEnd
    <2>1. CASE phase[r] \in Wanting /\ Cardinality(held) >= poolSize
      <3>1. WaitsFor(r) = held
        BY <2>1 DEF WaitsFor
      <3>2. poolSize \in Nat \ {0}
        BY PoolSizesAssumption DEF IInv, TypeOK
      <3>3. held # {}
        BY <2>1, <3>2, FS_EmptySet
      <3> QED
        BY <3>1, <3>3, HoldersGoOn
    <2>2. CASE phase[r] = "locking" /\ rowOwner[op[r].list] # None
      <3>1. op[r].list \in List
        BY <2>2, CacheKeyFacts DEF IInv, RequestState, RequestFacts
      <3>2. WaitsFor(r) = {rowOwner[op[r].list]}
        BY <2>2 DEF WaitsFor, Wanting
      <3> QED
        BY <2>2, <3>1, <3>2, OwnersGoOn
    <2> QED
      BY <2>1, <2>2 DEF Waits
  <1> QED
    BY <1>1, Invariance, PTL

(* A list is signed with its own instance's key, whatever the instances    *)
(* are called and whoever shares the cache of signers.                     *)
THEOREM ListsKeepTheirKey == Spec => []SignedByOwnKey
  <1> QED
    BY Invariance, PTL DEF IInv

-----------------------------------------------------------------------------
(* While a derivation is pending, a request that waits for it is answered  *)
(* only when it fails.                                                     *)
LEMMA FailureStep ==
  ASSUME IInv, [Next]_vars, NEW k \in CacheKeys, FailedDerivation(k)
  PROVE  /\ signers'[k] = Nobody
         /\ \A r \in JoinedTo(k) :
              /\ status'[r] = 500 /\ r \notin held'
              /\ \A l \in List : rowOwner'[l] # r
  <1> PICK r \in JoinedTo(k) : status'[r] # None
    BY DEF FailedDerivation
  <1>1. /\ r \in Request /\ r \in joined /\ CacheKey(InstanceFor(r)) = k
        /\ phase[r] \in {"naming", "signing"} /\ mode = "local"
        /\ status[r] = None /\ ~Ready(k)
    BY DEF FailedDerivation, Pending, Ready, JoinedTo, IInv, TypeOK,
           RequestState, RequestFacts, Signing
  (* An answer to somebody else is none to r.                              *)
  <1>2. ASSUME NEW q \in Request, NEW code, Answer(q, code) PROVE q = r
    BY <1>1, <1>2 DEF Answer, AnswerAll, IInv, TypeOK
  <1>3. status' # status
    BY <1>1
  <1>4. ASSUME NEW q \in Request, Progress(q) PROVE FALSE
    <2>1. CASE Read(q) \/ Apply(q) \/ Write(q) \/ Insert(q) \/ CallRemote(q)
      BY <1>1, <1>2, <1>3, <2>1 DEF Read, Apply, Write, Insert, CallRemote
    <2>2. CASE CallLocal(q)
      BY <1>3, <2>2 DEF CallLocal
    <2>3. CASE UseSigner(q)
      BY <1>1, <1>2, <1>3, <2>3 DEF UseSigner, Signed
    <2> QED
      BY <1>4, <2>1, <2>2, <2>3 DEF Progress
  <1>5. ASSUME NEW q \in Request, Submit(q) PROVE FALSE
    BY <1>1, <1>5 DEF Submit, IInv, TypeOK
  <1>6. ASSUME NEW q \in Request,
               \/ Timeout(q) \/ GetsConnection(q) \/ Lock(q)
               \/ StatementFails(q) \/ RemoteAnswers(q) \/ RemoteSends(q)
        PROVE  FALSE
    BY <1>1, <1>2, <1>3, <1>6
       DEF Timeout, GetsConnection, Lock, StatementFails, RemoteAnswers,
           RemoteSends, Signed, Holding
  <1>7. \A j \in CacheKeys : ~Derive(j)
    BY <1>3 DEF Derive, requestVars
  <1>8. status' = status \/ \E j \in CacheKeys : DeriveFails(j)
    BY <1>4, <1>5, <1>6, <1>7 DEF Next, vars, requestVars
  <1> PICK j \in CacheKeys : DeriveFails(j)
    BY <1>3, <1>8
  <1>9. j = k
    BY <1>1 DEF DeriveFails, AnswerAll, JoinedTo, IInv, TypeOK
  <1>10. HttpStatus("signing-error") = 500
    BY DEF HttpStatus, Success, BadRequest, NotFound, Conflict, Unavailable
  <1>11. signers'[k] = Nobody
    BY <1>9 DEF DeriveFails, DerivationFailed, IInv, TypeOK
  <1>12. ASSUME NEW q \in JoinedTo(k)
         PROVE  /\ status'[q] = 500 /\ q \notin held'
                /\ \A l \in List : rowOwner'[l] # q
    <2>1. q \in Request /\ q # None
      BY NoneAssumption DEF JoinedTo, IInv, TypeOK
    <2> QED
      BY <1>9, <1>10, <2>1 DEF DeriveFails, AnswerAll, GiveBack, IInv, TypeOK
  <1> QED
    BY <1>11, <1>12

(* A derivation that fails leaves nothing: not the promise, not the        *)
(* transactions of those who waited for it, and no request unanswered.     *)
THEOREM FailuresAreForgotten == Spec => FailureIsShared
  <1>1. IInv /\ [Next]_vars =>
          [\A k \in CacheKeys :
             FailedDerivation(k) =>
               /\ signers'[k] = Nobody
               /\ \A r \in JoinedTo(k) :
                    /\ status'[r] = 500 /\ r \notin held'
                    /\ \A l \in List : rowOwner'[l] # r]_vars
    BY FailureStep
  <1> QED
    BY <1>1, Invariance, PTL DEF Spec, Safety, FailureIsShared

-----------------------------------------------------------------------------
(* Every request is over after a few steps.                                *)

(* At most so many steps of its own a request has left.                    *)
StepsLeft(r) ==
  LET joining == IF r \in joined THEN 0 ELSE 1
  IN  IF phase[r] \in {"writing", "inserting"} THEN 1
      ELSE IF phase[r] = "wants-insert" THEN 2
      ELSE IF phase[r] = "receiving" THEN 3
      ELSE IF phase[r] = "calling" THEN 4
      ELSE IF phase[r] = "signing" THEN 5 + joining
      ELSE IF phase[r] = "naming" THEN 7 + joining
      ELSE IF phase[r] = "applying" THEN 9
      ELSE IF phase[r] = "locking" THEN 10
      ELSE IF phase[r] = "wants-transaction" THEN 11
      ELSE IF phase[r] = "reading" THEN 12
      ELSE IF phase[r] = "wants-read" THEN 13
      ELSE 0

Works(r) ==
  \/ Progress(r) \/ GetsConnection(r) \/ Lock(r) \/ StatementFails(r)
  \/ RemoteAnswers(r) \/ RemoteSends(r) \/ Timeout(r)

(* Each step of a request, its failures included, leaves it fewer, and no  *)
(* step of another gives it more: no handler of the routes comes back to   *)
(* where it was, whoever shares its signer, its row or its pool.           *)
StepsRunOut ==
  [][\A r \in Request :
       /\ Works(r) => StepsLeft(r)' < StepsLeft(r)
       /\ phase[r] \notin {"idle", "done"} => StepsLeft(r)' <= StepsLeft(r)]_vars

(* A request that holds the promise of a signer holds one that is kept,    *)
(* derived or about to be: a failure forgets it only together with all who *)
(* wait (#signerFor of signing-local.ts).  One that waits for the remote   *)
(* signer holds none, and has a deadline.                                  *)
SignersCome ==
  \A r \in Request :
     phase[r] \in Signing =>
       IF mode = "http" THEN r \notin joined
       ELSE /\ phase[r] \in {"naming", "signing"}
            /\ r \in joined => signers[CacheKey(InstanceFor(r))] # Nobody

LEMMA StepsType ==
  ASSUME IInv, NEW r \in Request
  PROVE  /\ StepsLeft(r) \in 0 .. 13
         /\ StepsLeft(r) = 0 <=> phase[r] \in {"idle", "done"}
  <1>1. phase[r] \in Phase
    BY DEF IInv, TypeOK
  <1> QED
    BY <1>1 DEF StepsLeft, Phase, Wanting, Signing, Holding

LEMMA AnswerSteps ==
  ASSUME IInv, NEW R \in SUBSET Request, NEW code, AnswerAll(R, code),
         NEW q \in Request
  PROVE  /\ q \in R => StepsLeft(q)' = 0
         /\ q \notin R => StepsLeft(q)' = StepsLeft(q)
  <1>1. /\ phase'[q] = IF q \in R THEN "done" ELSE phase[q]
        /\ joined' = joined \ R
    BY DEF AnswerAll
  <1> QED
    BY <1>1 DEF StepsLeft

(* A request that goes from one phase to another, and the others.          *)
LEMMA GotoSteps ==
  ASSUME IInv, NEW r \in Request, NEW q \in Request, NEW from, NEW to,
         Goto(r, from, to)
  PROVE  phase[r] = from /\ phase'[q] = IF q = r THEN to ELSE phase[q]
  BY DEF Goto, IInv, TypeOK

LEMMA AnsweredSteps ==
  ASSUME IInv, NEW r \in Request, NEW q \in Request, NEW code,
         Answer(r, code), phase[r] \notin {"idle", "done"}
  PROVE  /\ StepsLeft(r)' < StepsLeft(r)
         /\ q # r => StepsLeft(q)' = StepsLeft(q)
  <1>1. AnswerAll({r}, code) /\ {r} \in SUBSET Request
    BY DEF Answer
  <1>2. StepsLeft(r)' = 0
    BY <1>1, AnswerSteps
  <1> QED
    BY <1>1, <1>2, StepsType, AnswerSteps

LEMMA SignedSteps ==
  ASSUME IInv, NEW r \in Request, NEW q \in Request, NEW key,
         Signed(r, key), phase[r] \in {"signing", "receiving"}
  PROVE  /\ StepsLeft(r)' < StepsLeft(r)
         /\ q # r => StepsLeft(q)' = StepsLeft(q)
  <1>1. /\ phase'[r] \in {"writing", "wants-insert"}
        /\ q # r => phase'[q] = phase[q]
        /\ joined' = joined \ {r}
    BY DEF Signed, IInv, TypeOK
  <1> QED
    BY <1>1 DEF StepsLeft

LEMMA WorkSteps ==
  ASSUME IInv, NEW r \in Request, NEW q \in Request, Works(r)
  PROVE  /\ StepsLeft(r)' < StepsLeft(r)
         /\ q # r => StepsLeft(q)' = StepsLeft(q)
  <1> DEFINE Fewer == /\ StepsLeft(r)' < StepsLeft(r)
                      /\ q # r => StepsLeft(q)' = StepsLeft(q)
  <1>1. ASSUME NEW from, NEW to, Goto(r, from, to), UNCHANGED joined,
               <<from, to>> \in
                 {<<"wants-read", "reading">>, <<"reading", "wants-transaction">>,
                  <<"wants-transaction", "locking">>, <<"locking", "applying">>,
                  <<"applying", "naming">>, <<"naming", "signing">>,
                  <<"signing", "calling">>, <<"calling", "receiving">>,
                  <<"wants-insert", "inserting">>}
        PROVE  Fewer
    <2>1. /\ phase[r] = from /\ phase'[r] = to
          /\ q # r => phase'[q] = phase[q]
      BY <1>1, GotoSteps
    <2> QED
      BY <1>1, <2>1 DEF StepsLeft
  <1>2. ASSUME NEW code, Answer(r, code), phase[r] \notin {"idle", "done"}
        PROVE  Fewer
    BY <1>2, AnsweredSteps
  <1> HIDE DEF Fewer
  <1>3. ASSUME Read(r) PROVE Fewer
    BY <1>1, <1>2, <1>3 DEF Read
  <1>4. ASSUME Apply(r) PROVE Fewer
    BY <1>1, <1>2, <1>4 DEF Apply
  <1>5. ASSUME Write(r) \/ Insert(r) PROVE Fewer
    BY <1>2, <1>5 DEF Write, Insert
  <1>6. ASSUME CallLocal(r) PROVE Fewer
    <2>1. /\ phase[r] \in {"naming", "signing"} /\ phase' = phase
          /\ r \notin joined /\ joined' = joined \cup {r}
      BY <1>6 DEF CallLocal
    <2> QED
      BY <2>1 DEF StepsLeft, Fewer
  <1>7. ASSUME UseSigner(r) PROVE Fewer
    <2>1. r \in joined
      BY <1>7 DEF UseSigner
    <2>2. ASSUME Goto(r, "naming", "signing") /\ joined' = joined \ {r}
          PROVE  Fewer
      <3>1. /\ phase[r] = "naming" /\ phase'[r] = "signing"
            /\ q # r => phase'[q] = phase[q]
        BY <2>2, GotoSteps
      <3> QED
        BY <2>1, <2>2, <3>1 DEF StepsLeft, Fewer
    <2>3. ASSUME NEW key, phase[r] = "signing", Signed(r, key) PROVE Fewer
      BY <2>3, SignedSteps DEF Fewer
    <2> QED
      BY <1>2, <1>7, <2>2, <2>3 DEF UseSigner
  <1>8. ASSUME CallRemote(r) PROVE Fewer
    BY <1>1, <1>2, <1>8 DEF CallRemote
  <1>9. ASSUME GetsConnection(r) PROVE Fewer
    BY <1>1, <1>9 DEF GetsConnection
  <1>10. ASSUME Lock(r) PROVE Fewer
    BY <1>1, <1>10 DEF Lock
  <1>11. ASSUME StatementFails(r) PROVE Fewer
    BY <1>2, <1>11 DEF StatementFails, Holding
  <1>12. ASSUME RemoteAnswers(r) PROVE Fewer
    BY <1>1, <1>2, <1>12 DEF RemoteAnswers
  <1>13. ASSUME RemoteSends(r) PROVE Fewer
    <2>1. ASSUME Signed(r, KeyOf[InstanceFor(r)]), phase[r] = "receiving"
          PROVE  Fewer
      BY <2>1, SignedSteps DEF Fewer
    <2> QED
      BY <1>2, <1>13, <2>1 DEF RemoteSends
  <1>14. ASSUME Timeout(r) PROVE Fewer
    BY <1>2, <1>14 DEF Timeout
  <1>15. Fewer
    BY <1>3, <1>4, <1>5, <1>6, <1>7, <1>8, <1>9, <1>10, <1>11, <1>12, <1>13,
       <1>14 DEF Works, Progress
  <1> QED
    BY <1>15 DEF Fewer

LEMMA StepsStep ==
  ASSUME IInv, [Next]_vars, NEW r \in Request
  PROVE  /\ Works(r) => StepsLeft(r)' < StepsLeft(r)
         /\ phase[r] \notin {"idle", "done"} => StepsLeft(r)' <= StepsLeft(r)
  <1>1. StepsLeft(r) \in 0 .. 13
    BY StepsType
  <1>2. CASE UNCHANGED vars \/ \E k \in CacheKeys : Derive(k)
    <2>1. UNCHANGED <<phase, joined>>
      BY <1>2 DEF vars, requestVars, Derive
    <2>2. StepsLeft(r)' = StepsLeft(r)
      BY <2>1 DEF StepsLeft
    <2> QED
      BY <1>1, <2>2, WorkSteps
  <1>3. CASE \E k \in CacheKeys : DeriveFails(k)
    <2>1. PICK k \in CacheKeys : AnswerAll(JoinedTo(k), "signing-error")
      BY <1>3 DEF DeriveFails
    <2>2. JoinedTo(k) \in SUBSET Request
      BY DEF JoinedTo, IInv, TypeOK
    <2>3. StepsLeft(r)' = 0 \/ StepsLeft(r)' = StepsLeft(r)
      BY <2>1, <2>2, AnswerSteps
    <2> QED
      BY <1>1, <2>3, WorkSteps
  <1>4. CASE Works(r)
    <2>1. StepsLeft(r)' < StepsLeft(r)
      BY <1>4, WorkSteps
    <2>2. StepsLeft(r)' \in 0 .. 13
      BY DEF StepsLeft
    <2> QED
      BY <1>1, <2>1, <2>2
  <1>5. CASE \E q \in Request \ {r} : Works(q)
    BY <1>1, <1>5, WorkSteps
  <1>6. CASE \E q \in Request : Submit(q)
    <2>1. PICK q \in Request : Submit(q)
      BY <1>6
    <2>2. CASE q = r
      BY <2>1, <2>2, WorkSteps DEF Submit
    <2>3. CASE q # r
      <3>1. phase'[r] = phase[r] /\ joined' = joined
        BY <2>1, <2>3 DEF Submit, IInv, TypeOK
      <3>2. StepsLeft(r)' = StepsLeft(r)
        BY <3>1 DEF StepsLeft
      <3> QED
        BY <1>1, <3>2, WorkSteps
    <2> QED
      BY <2>2, <2>3
  <1> QED
    BY <1>2, <1>3, <1>4, <1>5, <1>6 DEF Next, Works

(* Every request of either signing service is answered after at most 13    *)
(* steps of its own.                                                       *)
THEOREM RequestsRunOut == Spec => StepsRunOut
  <1>1. IInv /\ [Next]_vars =>
          [\A r \in Request :
             /\ Works(r) => StepsLeft(r)' < StepsLeft(r)
             /\ phase[r] \notin {"idle", "done"} =>
                  StepsLeft(r)' <= StepsLeft(r)]_vars
    BY StepsStep
  <1> QED
    BY <1>1, Invariance, PTL DEF Spec, Safety, StepsRunOut

RemoteOnly ==
  \A r \in Request : phase[r] \in {"calling", "receiving"} => mode = "http"

LEMMA RemoteOnlyKept ==
  ASSUME IInv, RemoteOnly, [Next]_vars
  PROVE  RemoteOnly'
  <1>1. mode' = mode
    BY DEF Next, vars, signerVars, Submit, Progress, Read, Apply, Write, Insert,
           CallLocal, UseSigner, CallRemote, Timeout, GetsConnection, Lock,
           StatementFails, RemoteAnswers, RemoteSends, Derive, DeriveFails
  <1>2. ASSUME NEW q \in Request, phase'[q] \in {"calling", "receiving"}
        PROVE  mode = "http" \/ phase[q] \in {"calling", "receiving"}
    <2>1. phase \in [Request -> Phase]
      BY DEF IInv, TypeOK
    <2>2. ASSUME NEW R, NEW code, AnswerAll(R, code)
          PROVE  phase[q] \in {"calling", "receiving"}
      BY <1>2, <2>2 DEF AnswerAll
    <2>3. ASSUME NEW r \in Request, NEW code, Answer(r, code)
          PROVE  phase[q] \in {"calling", "receiving"}
      BY <2>2, <2>3 DEF Answer
    <2>4. ASSUME NEW r \in Request, NEW from, NEW to, Goto(r, from, to),
                 \/ from \in {"calling", "receiving"}
                 \/ to \notin {"calling", "receiving"}
          PROVE  phase[q] \in {"calling", "receiving"}
      BY <1>2, <2>1, <2>4 DEF Goto
    <2>5. ASSUME NEW r \in Request, Submit(r)
          PROVE  phase[q] \in {"calling", "receiving"}
      <3>1. PICK to \in {"naming", "wants-read"} :
              phase' = [phase EXCEPT ![r] = to]
        BY <2>5 DEF Submit
      <3> QED
        BY <1>2, <2>1, <3>1
    <2>6. ASSUME NEW r \in Request, NEW key, Signed(r, key)
          PROVE  phase[q] \in {"calling", "receiving"}
      BY <1>2, <2>1, <2>6 DEF Signed
    <2>7. CASE UNCHANGED phase
      BY <1>2, <2>7
    <2>8. ASSUME NEW r \in Request, CallRemote(r) PROVE mode = "http"
      BY <2>8 DEF CallRemote
    <2>9. ASSUME NEW r \in Request,
                 \/ Read(r) \/ Apply(r) \/ Write(r) \/ Insert(r)
                 \/ UseSigner(r) \/ RemoteAnswers(r) \/ RemoteSends(r)
          PROVE  phase[q] \in {"calling", "receiving"}
      BY <2>3, <2>4, <2>6, <2>9
         DEF Read, Apply, Write, Insert, UseSigner, RemoteAnswers, RemoteSends
    <2>10. ASSUME NEW r \in Request,
                  \/ GetsConnection(r) \/ Lock(r) \/ StatementFails(r)
                  \/ Timeout(r)
           PROVE  phase[q] \in {"calling", "receiving"}
      BY <2>3, <2>4, <2>10 DEF GetsConnection, Lock, StatementFails, Timeout
    <2>11. ASSUME \/ \E k \in CacheKeys : Derive(k)
                  \/ \E r \in Request : CallLocal(r)
                  \/ UNCHANGED vars
           PROVE  UNCHANGED phase
      BY <2>11 DEF Derive, CallLocal, vars, requestVars
    <2>12. ASSUME NEW k \in CacheKeys, DeriveFails(k)
           PROVE  phase[q] \in {"calling", "receiving"}
      BY <2>2, <2>12 DEF DeriveFails
    <2> QED
      BY <2>5, <2>7, <2>8, <2>9, <2>10, <2>11, <2>12 DEF Next, Progress
  <1> QED
    BY <1>1, <1>2 DEF RemoteOnly

(* Nobody waits for a signer that is not coming.                           *)
THEOREM NoSignerIsForgotten == Spec => []SignersCome
  <1>1. Init => RemoteOnly
    BY DEF Init, RemoteOnly
  <1>2. IInv /\ RemoteOnly => SignersCome
    BY DEF IInv, TypeOK, RequestState, RequestFacts, RemoteOnly, SignersCome,
           Signing
  <1> QED
    BY <1>1, <1>2, RemoteOnlyKept, Invariance, PTL DEF Spec, Safety
=============================================================================
