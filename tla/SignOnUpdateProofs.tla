------------------------- MODULE SignOnUpdateProofs -------------------------
(***************************************************************************)
(* What SignOnUpdate guarantees for any lists, indexes, issuer instances,  *)
(* servers, requests and clients.                                          *)
(*                                                                         *)
(* The inductive invariant IInv is the conjunction of the type invariant,  *)
(* of what a request holds in each phase (HandlerState), of the exclusion  *)
(* the row lock gives (RowLockHolds), and of the agreement between bits    *)
(* and credential.  One lemma per action shows that the action keeps it.   *)
(***************************************************************************)
EXTENDS SignOnUpdate, FiniteSetTheorems, TLAPS

IInv == TypeOK /\ HandlerState /\ RowLockHolds /\ CredentialPublishesBits

-----------------------------------------------------------------------------
(* The data operators stay inside their types.                             *)
LEMMA MaterializeType ==
  ASSUME NEW i \in Instance, NEW u \in Url, NEW bits \in SUBSET Index
  PROVE  Materialize(i, u, bits) \in Materialization
  BY DEF Materialize, Materialization, Credential

LEMMA NewRowType ==
  ASSUME NEW i \in Instance, NEW made \in Materialization
  PROVE  NewRow(i, made) \in Row
  BY DEF NewRow, Row, Materialization

LEMMA UpdatedRowType ==
  ASSUME NEW x \in Row, NEW made \in Materialization
  PROVE  UpdatedRow(x, made) \in Row
  BY DEF UpdatedRow, Row, Materialization

LEMMA SetBitType ==
  ASSUME NEW bits \in SUBSET Index, NEW i \in Index, NEW s \in BOOLEAN
  PROVE  SetBit(bits, i, s) \in SUBSET Index
  BY DEF SetBit

-----------------------------------------------------------------------------
(* The initial states satisfy the invariant.                               *)
LEMMA InitInv == Init => IInv
  <1> SUFFICES ASSUME Init PROVE IInv
    OBVIOUS
  <1>1. FreshRow \subseteq Row
    BY MaterializeType, NewRowType DEF FreshRow
  <1>2. TypeOK
    BY <1>1 DEF Init, TypeOK, Phase
  <1>3. HandlerState
    BY DEF Init, HandlerState, SetPhase, Holding
  <1>4. RowLockHolds
    BY DEF Init, RowLockHolds, Holding
  <1>5. ASSUME NEW x \in FreshRow
        PROVE  x.credential.bits = x.bits /\ x.credential.issuer = x.issuerInstance
    BY DEF FreshRow, NewRow, Materialize
  <1>6. CredentialPublishesBits
    BY <1>5 DEF Init, CredentialPublishesBits
  <1> QED
    BY <1>2, <1>3, <1>4, <1>6 DEF IInv

(* A client's request.                                                     *)
LEMMA SubmitInv ==
  ASSUME IInv, NEW r \in Request, Submit(r)
  PROVE  IInv'
  <1> USE DEF IInv, Submit
  <1> PICK o \in Operation :
        /\ op' = [op EXCEPT ![r] = o]
        /\ phase' = [phase EXCEPT ![r] =
                       IF o.kind = "create" THEN "creating" ELSE "reading"]
    OBVIOUS
  <1>1. o # None /\ (o.kind = "create" => o \in CreateOp)
          /\ (o.kind # "create" => o \in SetOp)
    BY NoneAssumption DEF Operation, CreateOp, SetOp
  <1>2. TypeOK'
    BY DEF TypeOK, Phase
  <1>3. HandlerState'
    BY <1>1 DEF TypeOK, HandlerState, SetPhase, Holding
  <1>4. RowLockHolds'
    BY DEF TypeOK, RowLockHolds, Holding
  <1>5. CredentialPublishesBits'
    BY DEF CredentialPublishesBits
  <1> QED
    BY <1>2, <1>3, <1>4, <1>5

(* A handler that ends without writing: it answers, and lets go of the row *)
(* if its transaction held it.                                             *)
LEMMA RefusalInv ==
  ASSUME IInv, NEW r \in Request, phase[r] \in Busy,
         NEW code \in Code, NEW v \in Nat, Answer(r, code, v),
         Release(r) \/ (lock' = lock /\ phase[r] \notin Holding),
         UNCHANGED <<row, registry, op, copy>>
  PROVE  IInv'
  <1> USE DEF IInv, Answer, Busy
  <1>1. [code |-> code, version |-> v] \in Outcome
    BY DEF Outcome
  <1>2. TypeOK'
    BY <1>1 DEF TypeOK, Phase, Release
  <1>3. HandlerState'
    BY <1>1, NoneAssumption DEF TypeOK, HandlerState, SetPhase, Holding
  <1>4. RowLockHolds'
    <2>1. ASSUME NEW q \in Request, phase'[q] \in Holding
          PROVE  lock'[op'[q].list] = q /\ seen'[q] = row'[op'[q].list]
      <3>1. q # r /\ phase[q] \in Holding /\ seen'[q] = seen[q]
        BY <2>1 DEF TypeOK, Holding
      <3>2. op[q].list \in List
        BY <3>1 DEF HandlerState, SetPhase, SetOp
      <3> QED
        BY <3>1, <3>2 DEF RowLockHolds, Release
    <2>2. ASSUME NEW l \in List, lock'[l] # None
          PROVE  phase'[lock'[l]] \in Holding /\ op'[lock'[l]].list = l
      <3>1. lock'[l] = lock[l] /\ lock[l] # r
        BY <2>2 DEF RowLockHolds, Release
      <3> QED
        BY <2>2, <3>1 DEF TypeOK, RowLockHolds
    <2> QED
      BY <2>1, <2>2 DEF RowLockHolds
  <1>5. CredentialPublishesBits'
    BY DEF CredentialPublishesBits
  <1> QED
    BY <1>2, <1>3, <1>4, <1>5

(* A handler that goes on to its next step outside any transaction.        *)
LEMMA ResolveForCreateInv ==
  ASSUME IInv, NEW r \in Request, ResolveForCreate(r)
  PROVE  IInv'
  <1>1. CASE KnownTo(r, op[r].instance)
    <2> USE <1>1 DEF IInv, ResolveForCreate, Goto
    <2>1. phase[r] = "creating" /\ phase' = [phase EXCEPT ![r] = "minting"]
            /\ UNCHANGED <<row, lock, registry, op, seen, built, outcome, copy>>
      BY DEF ResolveForCreate, Goto
    <2>2. TypeOK'
      BY <2>1 DEF TypeOK, Phase
    <2>3. HandlerState'
      BY <2>1 DEF TypeOK, HandlerState, SetPhase, Holding
    <2>4. RowLockHolds'
      BY <2>1 DEF TypeOK, RowLockHolds, Holding
    <2>5. CredentialPublishesBits'
      BY <2>1 DEF CredentialPublishesBits
    <2> QED
      BY <2>2, <2>3, <2>4, <2>5
  <1>2. CASE ~KnownTo(r, op[r].instance)
    BY <1>2, RefusalInv DEF ResolveForCreate, Busy, Phase, Holding, Code
  <1> QED
    BY <1>1, <1>2

LEMMA MintListInv ==
  ASSUME IInv, NEW r \in Request, MintList(r)
  PROVE  IInv'
  <1> USE DEF IInv, MintList, Goto
  <1>1. op[r] \in CreateOp
    BY DEF HandlerState
  <1>2. Materialize(op[r].instance, op[r].url, {}) \in Materialization
    BY <1>1, MaterializeType DEF CreateOp
  <1>3. TypeOK'
    BY <1>2 DEF TypeOK, Phase
  <1>4. HandlerState'
    BY DEF TypeOK, HandlerState, SetPhase, Holding
  <1>5. RowLockHolds'
    BY DEF TypeOK, RowLockHolds, Holding
  <1>6. CredentialPublishesBits'
    BY DEF CredentialPublishesBits
  <1> QED
    BY <1>3, <1>4, <1>5, <1>6

(* The new row appears, whatever the client is told.                       *)
LEMMA InsertedInv ==
  ASSUME IInv, NEW r \in Request, phase[r] = "inserting",
         row[op[r].list] = None,
         row' = [row EXCEPT ![op[r].list] = NewRow(op[r].instance, built[r])],
         NEW code \in Code, Answer(r, code, 1),
         UNCHANGED <<lock, registry, op, copy>>
  PROVE  IInv'
  <1> USE DEF IInv, Answer
  <1> DEFINE l == op[r].list
             new == NewRow(op[r].instance, built[r])
  <1>1. op[r] \in CreateOp /\ l \in List /\ op[r].instance \in Instance
          /\ built[r] = Materialize(op[r].instance, op[r].url, {})
    BY DEF HandlerState, CreateOp
  <1>2. new \in Row /\ new # None
    BY <1>1, MaterializeType, NewRowType, NoneAssumption DEF CreateOp
  <1>3. [code |-> code, version |-> 1] \in Outcome
    BY DEF Outcome
  <1>4. TypeOK'
    BY <1>1, <1>2, <1>3 DEF TypeOK, Phase
  <1>5. HandlerState'
    BY <1>1, <1>2, <1>3, NoneAssumption
       DEF TypeOK, HandlerState, SetPhase, Holding
  <1>6. RowLockHolds'
    <2>1. ASSUME NEW q \in Request, phase'[q] \in Holding
          PROVE  lock'[op'[q].list] = q /\ seen'[q] = row'[op'[q].list]
      <3>1. q # r /\ phase[q] \in Holding /\ row[op[q].list] # None
        BY <2>1 DEF TypeOK, HandlerState, SetPhase, Holding
      <3>2. op[q].list # l
        BY <3>1
      <3> QED
        BY <3>1, <3>2, <1>1 DEF TypeOK, RowLockHolds
    <2>2. ASSUME NEW m \in List, lock'[m] # None
          PROVE  phase'[lock'[m]] \in Holding /\ op'[lock'[m]].list = m
      BY <2>2 DEF TypeOK, RowLockHolds, Holding
    <2> QED
      BY <2>1, <2>2 DEF RowLockHolds
  <1>7. CredentialPublishesBits'
    BY <1>1 DEF TypeOK, CredentialPublishesBits, NewRow, Materialize
  <1> QED
    BY <1>4, <1>5, <1>6, <1>7

LEMMA InsertListInv ==
  ASSUME IInv, NEW r \in Request, InsertList(r) \/ InsertUnacknowledged(r)
  PROVE  IInv'
  <1>1. phase[r] = "inserting" /\ UNCHANGED <<lock, registry, op, copy>>
    BY DEF InsertList, InsertUnacknowledged
  <1>2. CASE row[op[r].list] = None
    BY <1>1, <1>2, InsertedInv DEF InsertList, InsertUnacknowledged, Code
  <1>3. CASE row[op[r].list] # None
    BY <1>1, <1>3, RefusalInv
       DEF InsertList, InsertUnacknowledged, Busy, Phase, Holding, Code
  <1> QED
    BY <1>2, <1>3

LEMMA ReadListInv ==
  ASSUME IInv, NEW r \in Request, ReadList(r)
  PROVE  IInv'
  <1>1. CASE row[op[r].list] = None
    BY <1>1, RefusalInv DEF ReadList, Busy, Phase, Holding, Code
  <1>2. CASE row[op[r].list] # None
    <2> USE DEF IInv
    <2>1. /\ phase[r] = "reading" /\ phase' = [phase EXCEPT ![r] = "resolving"]
          /\ seen' = [seen EXCEPT ![r] = row[op[r].list]]
          /\ UNCHANGED <<row, lock, registry, op, built, outcome, copy>>
      BY <1>2 DEF ReadList, Goto
    <2>2. op[r] \in SetOp /\ op[r].list \in List
      BY <2>1 DEF HandlerState, SetPhase, SetOp
    <2>3. TypeOK'
      BY <2>1, <2>2 DEF TypeOK, Phase
    <2>4. HandlerState'
      BY <1>2, <2>1, <2>2 DEF TypeOK, HandlerState, SetPhase, Holding
    <2>5. RowLockHolds'
      BY <2>1 DEF TypeOK, RowLockHolds, Holding
    <2>6. CredentialPublishesBits'
      BY <2>1 DEF CredentialPublishesBits
    <2> QED
      BY <2>3, <2>4, <2>5, <2>6
  <1> QED
    BY <1>1, <1>2

LEMMA ResolveInstanceInv ==
  ASSUME IInv, NEW r \in Request, ResolveInstance(r)
  PROVE  IInv'
  <1>1. CASE KnownTo(r, seen[r].issuerInstance)
    <2> USE DEF IInv
    <2>1. /\ phase[r] = "resolving" /\ phase' = [phase EXCEPT ![r] = "waiting"]
          /\ UNCHANGED <<row, lock, registry, op, seen, built, outcome, copy>>
      BY <1>1 DEF ResolveInstance, Goto
    <2>2. TypeOK'
      BY <2>1 DEF TypeOK, Phase
    <2>3. HandlerState'
      BY <2>1 DEF TypeOK, HandlerState, SetPhase, Holding
    <2>4. RowLockHolds'
      BY <2>1 DEF TypeOK, RowLockHolds, Holding
    <2>5. CredentialPublishesBits'
      BY <2>1 DEF CredentialPublishesBits
    <2> QED
      BY <2>2, <2>3, <2>4, <2>5
  <1>2. CASE ~KnownTo(r, seen[r].issuerInstance)
    BY <1>2, RefusalInv DEF ResolveInstance, Busy, Phase, Holding, Code
  <1> QED
    BY <1>1, <1>2

LEMMA LockRowInv ==
  ASSUME IInv, NEW r \in Request, LockRow(r)
  PROVE  IInv'
  <1> USE DEF IInv, LockRow, Goto
  <1>1. op[r] \in SetOp /\ op[r].list \in List /\ row[op[r].list] # None
    BY DEF HandlerState, SetPhase, SetOp
  <1>2. row[op[r].list] \in Row
    BY <1>1 DEF TypeOK
  <1>3. TypeOK'
    BY <1>1, <1>2 DEF TypeOK, Phase
  <1>4. HandlerState'
    BY <1>1, <1>2 DEF TypeOK, HandlerState, SetPhase, Holding
  <1>5. RowLockHolds'
    <2>1. ASSUME NEW q \in Request, phase'[q] \in Holding, q # r
          PROVE  lock'[op'[q].list] = q /\ seen'[q] = row'[op'[q].list]
      <3>1. phase[q] \in Holding /\ lock[op[q].list] = q
        BY <2>1 DEF TypeOK, RowLockHolds
      <3>2. op[q].list # op[r].list
        BY <3>1, NoneAssumption
      <3> QED
        BY <2>1, <3>1, <3>2 DEF TypeOK, RowLockHolds
    <2>2. lock'[op'[r].list] = r /\ seen'[r] = row'[op'[r].list]
      BY <1>1 DEF TypeOK
    <2>3. ASSUME NEW l \in List, lock'[l] # None
          PROVE  phase'[lock'[l]] \in Holding /\ op'[lock'[l]].list = l
      <3>1. CASE l = op[r].list
        BY <3>1, <1>1 DEF TypeOK, Holding
      <3>2. CASE l # op[r].list
        BY <2>3, <3>2 DEF TypeOK, RowLockHolds, Holding
      <3> QED
        BY <3>1, <3>2
    <2> QED
      BY <2>1, <2>2, <2>3 DEF RowLockHolds
  <1>6. CredentialPublishesBits'
    BY DEF CredentialPublishesBits
  <1> QED
    BY <1>3, <1>4, <1>5, <1>6

LEMMA ApplyStatusInv ==
  ASSUME IInv, NEW r \in Request, ApplyStatus(r)
  PROVE  IInv'
  <1>1. op[r] \in SetOp /\ seen[r] \in Row /\ phase[r] = "applying"
    BY DEF IInv, TypeOK, HandlerState, SetPhase, Holding, ApplyStatus
  <1>2. CASE op[r].index = BeyondEnd
    BY <1>1, <1>2, RefusalInv DEF ApplyStatus, Busy, Phase, Code
  <1>3. CASE op[r].index # BeyondEnd /\ (op[r].index \in seen[r].bits) = op[r].status
    <2>1. seen[r].version \in Nat
      BY <1>1 DEF Row
    <2> QED
      BY <1>1, <1>3, <2>1, RefusalInv DEF ApplyStatus, Busy, Phase, Code
  <1>4. CASE op[r].index # BeyondEnd /\ (op[r].index \in seen[r].bits) # op[r].status
    <2> USE DEF IInv
    <2>1. /\ phase' = [phase EXCEPT ![r] = "signing"]
          /\ UNCHANGED <<row, lock, registry, op, seen, built, outcome, copy>>
      BY <1>4 DEF ApplyStatus, Goto
    <2>2. op[r].index \in Index
      BY <1>1, <1>4 DEF SetOp
    <2>3. TypeOK'
      BY <2>1 DEF TypeOK, Phase
    <2>4. HandlerState'
      BY <1>1, <1>4, <2>1, <2>2 DEF TypeOK, HandlerState, SetPhase, Holding
    <2>5. RowLockHolds'
      BY <1>1, <2>1 DEF TypeOK, RowLockHolds, Holding
    <2>6. CredentialPublishesBits'
      BY <2>1 DEF CredentialPublishesBits
    <2> QED
      BY <2>3, <2>4, <2>5, <2>6
  <1> QED
    BY <1>2, <1>3, <1>4

LEMMA SignUpdateInv ==
  ASSUME IInv, NEW r \in Request, SignUpdate(r)
  PROVE  IInv'
  <1> USE DEF IInv, SignUpdate, Goto
  <1> DEFINE made == Materialize(seen[r].issuerInstance, seen[r].credential.url,
                                 SetBit(seen[r].bits, op[r].index, op[r].status))
  <1>1. op[r] \in SetOp /\ seen[r] \in Row /\ op[r].index \in Index
    BY DEF TypeOK, HandlerState, SetPhase, Holding
  <1>2. made \in Materialization
    BY <1>1, SetBitType, MaterializeType DEF Row, Credential, SetOp
  <1>3. TypeOK'
    BY <1>2 DEF TypeOK, Phase
  <1>4. HandlerState'
    BY <1>1 DEF TypeOK, HandlerState, SetPhase, Holding
  <1>5. RowLockHolds'
    BY DEF TypeOK, RowLockHolds, Holding
  <1>6. CredentialPublishesBits'
    BY DEF CredentialPublishesBits
  <1> QED
    BY <1>3, <1>4, <1>5, <1>6

(* The one step that overwrites a row: the row it overwrites is the one    *)
(* the transaction locked and read, so nothing is overwritten unseen.      *)
LEMMA CommitFacts ==
  ASSUME IInv, NEW r \in Request, NEW code \in Code, CommitWith(r, code)
  PROVE  /\ op[r] \in SetOp /\ op[r].list \in List /\ op[r].index \in Index
         /\ row[op[r].list] \in Row /\ row[op[r].list] # None
         /\ seen[r] = row[op[r].list] /\ lock[op[r].list] = r
         /\ (op[r].index \in row[op[r].list].bits) # op[r].status
         /\ built[r] \in Materialization
         /\ UpdatedRow(seen[r], built[r])
              = Flip(row[op[r].list], op[r].index, op[r].status)
  <1>1. phase[r] = "writing" /\ phase[r] \in Holding /\ phase[r] \in SetPhase
    BY DEF CommitWith, Holding, SetPhase
  <1>2. /\ op[r] \in SetOp /\ seen[r] # None /\ op[r].index \in Index
        /\ row[op[r].list] # None
        /\ (op[r].index \in seen[r].bits) # op[r].status
        /\ built[r] = Materialize(seen[r].issuerInstance,
                                 seen[r].credential.url,
                                 SetBit(seen[r].bits, op[r].index, op[r].status))
    BY <1>1 DEF IInv, HandlerState
  <1>3. seen[r] = row[op[r].list] /\ lock[op[r].list] = r
    BY <1>1 DEF IInv, RowLockHolds
  <1>4. op[r].list \in List /\ row[op[r].list] \in Row
    BY <1>2 DEF IInv, TypeOK, SetOp
  <1>5. built[r] \in Materialization
    BY <1>2, <1>3, <1>4, SetBitType, MaterializeType DEF Row, Credential, SetOp
  <1> QED
    BY <1>2, <1>3, <1>4, <1>5 DEF Flip

LEMMA CommitInv ==
  ASSUME IInv, NEW r \in Request, NEW code \in Code, CommitWith(r, code)
  PROVE  IInv'
  <1> DEFINE l == op[r].list
             new == UpdatedRow(seen[r], built[r])
  <1>0. /\ op[r] \in SetOp /\ l \in List /\ row[l] \in Row
        /\ seen[r] = row[l] /\ lock[l] = r /\ built[r] \in Materialization
        /\ new = Flip(row[l], op[r].index, op[r].status)
    BY CommitFacts
  <1> USE DEF CommitWith, Answer
  <1>1. l \in List /\ new \in Row /\ row[l] \in Row /\ new # None
          /\ new.issuerInstance = row[l].issuerInstance
    BY <1>0, UpdatedRowType, NoneAssumption DEF UpdatedRow
  <1>2. [code |-> code, version |-> seen[r].version + 1] \in Outcome
    BY <1>0 DEF Outcome, Row
  <1>3. TypeOK'
    BY <1>1, <1>2 DEF IInv, TypeOK, Phase, Release
  <1>4. ASSUME NEW m \in List
        PROVE  /\ row[m] # None => row'[m] # None
               /\ row[m] # None => row'[m].issuerInstance = row[m].issuerInstance
    BY <1>1 DEF IInv, TypeOK
  <1>5. HandlerState'
    <2>1. ASSUME NEW q \in Request, q # r
          PROVE  /\ phase'[q] = phase[q] /\ seen'[q] = seen[q]
                 /\ built'[q] = built[q] /\ outcome'[q] = outcome[q]
                 /\ op'[q] = op[q]
      BY <2>1 DEF IInv, TypeOK
    <2>2. phase'[r] = "done" /\ outcome'[r] # None /\ op'[r] # None
      BY <1>2, NoneAssumption DEF IInv, TypeOK, HandlerState
    <2>3. ASSUME NEW q \in Request, phase[q] \in SetPhase
          PROVE  op[q].list \in List
      BY <2>3 DEF IInv, HandlerState, SetOp
    <2> QED
      BY <1>4, <2>1, <2>2, <2>3 DEF IInv, HandlerState, SetPhase, Holding
  <1>6. RowLockHolds'
    <2>1. ASSUME NEW q \in Request, phase'[q] \in Holding
          PROVE  lock'[op'[q].list] = q /\ seen'[q] = row'[op'[q].list]
      <3>1. q # r /\ phase[q] \in Holding /\ seen'[q] = seen[q]
        BY <2>1 DEF IInv, TypeOK, Holding
      <3>2. op[q].list \in List /\ lock[op[q].list] = q
        BY <3>1 DEF IInv, HandlerState, RowLockHolds, SetPhase, SetOp
      <3>3. op[q].list # l
        BY <3>1, <3>2, <1>0
      <3> QED
        BY <1>1, <3>1, <3>2, <3>3 DEF IInv, TypeOK, RowLockHolds, Release
    <2>2. ASSUME NEW m \in List, lock'[m] # None
          PROVE  phase'[lock'[m]] \in Holding /\ op'[lock'[m]].list = m
      <3>1. lock'[m] = lock[m] /\ lock[m] # r /\ lock[m] \in Request
        BY <2>2 DEF IInv, TypeOK, Release
      <3> QED
        BY <2>2, <3>1 DEF IInv, TypeOK, RowLockHolds
    <2> QED
      BY <2>1, <2>2 DEF RowLockHolds
  <1>7. CredentialPublishesBits'
    <2> PICK u, f : u = row[l] /\ f = Flip(u, op[r].index, op[r].status)
      OBVIOUS
    <2>1. f.credential.bits = f.bits /\ f.credential.issuer = f.issuerInstance
      BY DEF Flip, UpdatedRow, Materialize
    <2>2. row'[l] = new /\ \A m \in List : m # l => row'[m] = row[m]
      BY <1>1 DEF IInv, TypeOK
    <2>3. new = f
      BY <1>0
    <2> HIDE DEF l, new
    <2> QED
      BY <1>1, <2>1, <2>2, <2>3 DEF IInv, CredentialPublishesBits
  <1> QED
    BY <1>3, <1>5, <1>6, <1>7 DEF IInv

LEMMA FailureInv ==
  ASSUME IInv, NEW r \in Request, SigningFails(r) \/ StorageFails(r)
  PROVE  IInv'
  BY RefusalInv DEF SigningFails, StorageFails, Busy, Phase, Code

LEMMA CrashInv ==
  ASSUME IInv, NEW s \in Server, Crash(s)
  PROVE  IInv'
  <1> DEFINE dead(r) == Home[r] = s /\ phase[r] \in Busy
  <1> USE DEF IInv, Crash
  <1>1. TypeOK'
    BY DEF TypeOK, Phase
  <1>2. ASSUME NEW q \in Request
        PROVE  \/ phase'[q] = "lost" /\ dead(q)
               \/ /\ phase'[q] = phase[q] /\ seen'[q] = seen[q]
                  /\ built'[q] = built[q] /\ ~dead(q)
    OBVIOUS
  <1>3. HandlerState'
    BY <1>2 DEF HandlerState, SetPhase, Holding, Busy
  <1>4. RowLockHolds'
    <2>1. ASSUME NEW q \in Request, phase'[q] \in Holding
          PROVE  lock'[op'[q].list] = q /\ seen'[q] = row'[op'[q].list]
      <3>1. phase[q] \in Holding /\ seen'[q] = seen[q] /\ ~dead(q)
        BY <2>1, <1>2 DEF Holding
      <3>2. op[q].list \in List
        BY <3>1 DEF HandlerState, SetPhase, SetOp
      <3> QED
        BY <3>1, <3>2 DEF RowLockHolds
    <2>2. ASSUME NEW l \in List, lock'[l] # None
          PROVE  phase'[lock'[l]] \in Holding /\ op'[lock'[l]].list = l
      <3>1. lock'[l] = lock[l] /\ lock[l] \in Request /\ ~dead(lock[l])
        BY <2>2 DEF TypeOK
      <3> QED
        BY <2>2, <3>1, <1>2 DEF RowLockHolds
    <2> QED
      BY <2>1, <2>2 DEF RowLockHolds
  <1>5. CredentialPublishesBits'
    BY DEF CredentialPublishesBits
  <1> QED
    BY <1>1, <1>3, <1>4, <1>5

LEMMA GetListInv ==
  ASSUME IInv, NEW c \in Client, NEW l \in List, GetList(c, l)
  PROVE  IInv'
  <1> USE DEF IInv, GetList
  <1>1. row[l] \in Row
    BY DEF TypeOK
  <1>2. [version |-> row[l].version, credential |-> row[l].credential] \in Copy
    BY <1>1 DEF Copy, Row
  <1>3. TypeOK'
    BY <1>2 DEF TypeOK
  <1>4. HandlerState' /\ RowLockHolds' /\ CredentialPublishesBits'
    BY DEF HandlerState, RowLockHolds, CredentialPublishesBits
  <1> QED
    BY <1>3, <1>4

-----------------------------------------------------------------------------
LEMMA NextInv == IInv /\ [Next]_vars => IInv'
  <1> SUFFICES ASSUME IInv, [Next]_vars PROVE IInv'
    OBVIOUS
  <1>1. ASSUME NEW r \in Request, Progress(r) PROVE IInv'
    BY <1>1, ResolveForCreateInv, MintListInv, InsertListInv, ReadListInv,
       ResolveInstanceInv, ApplyStatusInv, SignUpdateInv, CommitInv, FailureInv
       DEF Progress, CommitUpdate, Code
  <1>2. ASSUME NEW r \in Request, Fault(r) PROVE IInv'
    BY <1>2, InsertListInv, CommitInv, FailureInv
       DEF Fault, CommitUnacknowledged, Code
  <1>3. ASSUME UNCHANGED vars PROVE IInv'
    BY <1>3 DEF vars, IInv, TypeOK, HandlerState, RowLockHolds,
                CredentialPublishesBits
  <1> QED
    BY <1>1, <1>2, <1>3, SubmitInv, LockRowInv, CrashInv, GetListInv DEF Next

(* The service's lists, locks and handlers stay well formed.               *)
THEOREM Invariance == Safety => []IInv
  BY InitInv, NextInv, PTL DEF Safety

(* Every variable keeps its type, whatever requests, failures and crashes. *)
THEOREM TypeCorrect == Safety => []TypeOK
  BY Invariance, PTL DEF IInv

(* One request at a time writes a list, over the row it read under the     *)
(* lock.                                                                   *)
THEOREM RowsAreExclusive == Safety => []RowLockHolds
  BY Invariance, PTL DEF IInv

(* The stored credential always publishes the stored bits.                 *)
THEOREM CredentialsAreCurrent == Safety => []CredentialPublishesBits
  BY Invariance, PTL DEF IInv

-----------------------------------------------------------------------------
(* The handlers implement AtomicStatusLists: the instant a request takes   *)
(* effect is the commit, the insert, or the step that refuses it.          *)

(* The data operators AtomicStatusLists sees are the ones used here.       *)
LEMMA SameData ==
  /\ Atomic!Operation = Operation
  /\ Atomic!FreshRow = FreshRow
  /\ \A i, m : Atomic!NewRow(i, m) = NewRow(i, m)
  /\ \A i, u, b : Atomic!Materialize(i, u, b) = Materialize(i, u, b)
  /\ \A x, i, s : Atomic!Flip(x, i, s) = Flip(x, i, s)
  <1>1. Atomic!Operation = Operation
    BY DEF Operation, CreateOp, SetOp,
           Atomic!Operation, Atomic!CreateOp, Atomic!SetOp
  <1>2. \A i, m : Atomic!NewRow(i, m) = NewRow(i, m)
    BY DEF NewRow, Atomic!NewRow
  <1>3. \A i, u, b : Atomic!Materialize(i, u, b) = Materialize(i, u, b)
    BY DEF Materialize, Atomic!Materialize
  <1>4. Atomic!FreshRow = FreshRow
    <2>1. \A i, u : Atomic!NewRow(i, Atomic!Materialize(i, u, {}))
                      = NewRow(i, Materialize(i, u, {}))
      BY <1>2, <1>3
    <2> QED
      BY <2>1 DEF FreshRow, Atomic!FreshRow
  <1>5. \A x, i, s : Atomic!Flip(x, i, s) = Flip(x, i, s)
    BY Zenon DEF Flip, UpdatedRow, Materialize, SetBit,
           Atomic!Flip, Atomic!UpdatedRow, Atomic!Materialize, Atomic!SetBit
  <1> QED
    BY <1>1, <1>2, <1>3, <1>4, <1>5

LEMMA RefusalStep ==
  ASSUME IInv, NEW r \in Request, phase[r] \in Busy, op[r] # None,
         NEW code \in Atomic!Refusal(op[r].kind),
         Atomic!RefusalHolds(code, op[r]),
         Answer(r, code, 0), UNCHANGED <<row, op>>
  PROVE  Atomic!Refuse(r)
  <1>1. outcome[r] = None
    BY DEF IInv, HandlerState, Busy
  <1> QED
    BY <1>1 DEF Answer, Atomic!Refuse, Atomic!Open, Atomic!Decide

LEMMA CreateStep ==
  ASSUME IInv, NEW r \in Request, phase[r] = "inserting",
         row[op[r].list] = None,
         row' = [row EXCEPT ![op[r].list] = NewRow(op[r].instance, built[r])],
         NEW code \in {"created", "duplicate-list", "storage-failed"},
         Answer(r, code, 1), UNCHANGED op
  PROVE  Atomic!Create(r)
  <1>1. op[r] \in CreateOp /\ op[r] # None /\ outcome[r] = None
          /\ built[r] = Materialize(op[r].instance, op[r].url, {})
    BY DEF IInv, HandlerState
  <1> QED
    BY <1>1, SameData DEF Answer, CreateOp, Atomic!Create, Atomic!Open, Atomic!Decide

LEMMA FlipStep ==
  ASSUME IInv, NEW r \in Request, NEW code \in {"changed", "storage-failed"},
         CommitWith(r, code)
  PROVE  Atomic!FlipBit(r)
  <1>1. code \in Code
    BY DEF Code
  <1>2. /\ op[r] \in SetOp /\ op[r].index \in Index /\ row[op[r].list] # None
        /\ seen[r] = row[op[r].list]
        /\ (op[r].index \in row[op[r].list].bits) # op[r].status
        /\ UpdatedRow(seen[r], built[r])
             = Flip(row[op[r].list], op[r].index, op[r].status)
    BY <1>1, CommitFacts
  <1>3. op[r] # None /\ outcome[r] = None
    BY DEF IInv, HandlerState, CommitWith
  <1> QED
    BY <1>2, <1>3, SameData
       DEF CommitWith, Answer, SetOp, Atomic!FlipBit, Atomic!Open, Atomic!Decide

LEMMA ApplyStep ==
  ASSUME IInv, NEW r \in Request, ApplyStatus(r)
  PROVE  Atomic!KeepBit(r) \/ Atomic!Refuse(r) \/ UNCHANGED <<row, op, outcome>>
  <1>1. /\ phase[r] = "applying" /\ op[r] \in SetOp /\ op[r] # None
        /\ outcome[r] = None
        /\ seen[r] = row[op[r].list] /\ row[op[r].list] # None
    BY DEF IInv, HandlerState, RowLockHolds, SetPhase, Holding, ApplyStatus
  <1>2. CASE op[r].index = BeyondEnd
    BY <1>1, <1>2, RefusalStep
       DEF ApplyStatus, Busy, Phase, SetOp, Atomic!Refusal, Atomic!RefusalHolds
  <1>3. CASE op[r].index # BeyondEnd /\ (op[r].index \in seen[r].bits) = op[r].status
    BY <1>1, <1>3
       DEF ApplyStatus, Answer, SetOp, Atomic!KeepBit, Atomic!Open, Atomic!Decide
  <1>4. CASE op[r].index # BeyondEnd /\ (op[r].index \in seen[r].bits) # op[r].status
    BY <1>4 DEF ApplyStatus
  <1> QED
    BY <1>2, <1>3, <1>4

LEMMA NextStep == IInv /\ [Next]_vars => [Atomic!Next]_<<row, op, outcome>>
  <1> SUFFICES ASSUME IInv, [Next]_vars
               PROVE  [Atomic!Next]_<<row, op, outcome>>
    OBVIOUS
  <1> USE DEF Atomic!Next
  <1>1. ASSUME NEW r \in Request, Submit(r) PROVE Atomic!Next
    <2>1. op[r] = None
      BY <1>1 DEF IInv, HandlerState, Submit
    <2> QED
      BY <1>1, <2>1, SameData DEF Submit, Atomic!Submit
  <1>2. ASSUME NEW r \in Request, Progress(r) \/ Fault(r)
        PROVE  Atomic!Next \/ UNCHANGED <<row, op, outcome>>
    <2>1. ASSUME phase[r] \in Busy
          PROVE  /\ op[r] # None
                 /\ phase[r] \in {"creating", "minting", "inserting"}
                      => op[r].kind = "create"
                 /\ phase[r] \in SetPhase => op[r].kind = "set"
      BY <2>1 DEF IInv, HandlerState, Busy, Phase, SetPhase, Holding,
                  CreateOp, SetOp
    <2> USE DEF Busy, Phase, SetPhase, Holding, Atomic!Refusal,
                Atomic!RefusalHolds
    <2>2. CASE ResolveForCreate(r)
      BY <2>1, <2>2, RefusalStep DEF ResolveForCreate
    <2>3. CASE InsertList(r) \/ InsertUnacknowledged(r)
      BY <2>1, <2>3, RefusalStep, CreateStep DEF InsertList, InsertUnacknowledged
    <2>4. CASE ReadList(r)
      BY <2>1, <2>4, RefusalStep DEF ReadList
    <2>5. CASE ResolveInstance(r)
      BY <2>1, <2>5, RefusalStep DEF ResolveInstance
    <2>6. CASE ApplyStatus(r)
      BY <2>6, ApplyStep
    <2>7. CASE MintList(r) \/ SignUpdate(r)
      BY <2>7 DEF MintList, SignUpdate
    <2>8. CASE CommitUpdate(r) \/ CommitUnacknowledged(r)
      BY <2>8, FlipStep DEF CommitUpdate, CommitUnacknowledged
    <2>9. CASE SigningFails(r) \/ StorageFails(r)
      BY <2>1, <2>9, RefusalStep DEF SigningFails, StorageFails
    <2> QED
      BY <1>2, <2>2, <2>3, <2>4, <2>5, <2>6, <2>7, <2>8, <2>9
         DEF Progress, Fault
  <1>3. ASSUME \/ \E r \in Request : LockRow(r)
               \/ \E s \in Server : Crash(s)
               \/ \E c \in Client, l \in List : GetList(c, l)
               \/ UNCHANGED vars
        PROVE  UNCHANGED <<row, op, outcome>>
    BY <1>3 DEF LockRow, Crash, GetList, vars
  <1> QED
    BY <1>1, <1>2, <1>3 DEF Next

(* Every behaviour of the handlers, with any failures and crashes, is one  *)
(* of the atomic specification: requests are linearizable.                 *)
THEOREM Linearizable == Safety => RequestsAreAtomic
  <1>1. Init => Atomic!Init
    BY SameData DEF Init, Atomic!Init
  <1> QED
    BY <1>1, NextStep, Invariance, PTL
       DEF Safety, RequestsAreAtomic, Atomic!Spec, Atomic!abstractVars

-----------------------------------------------------------------------------
(* What one step of the atomic specification does to the writes in the     *)
(* database, for the properties that count them.                           *)

(* Steps other than a flip commit nothing, and touch a row only to create  *)
(* it.                                                                     *)
LEMMA QuietStep ==
  ASSUME IInv, NEW r \in Request,
         Atomic!Submit(r) \/ Atomic!Create(r) \/ Atomic!KeepBit(r)
           \/ Atomic!Refuse(r)
  PROVE  /\ \A q \in Request, l \in List : Committed(q, l)' <=> Committed(q, l)
         /\ \A q \in Request :
              outcome[q] # None => op'[q] = op[q] /\ outcome'[q] = outcome[q]
         /\ \A l \in List :
              \/ row'[l] = row[l]
              \/ row[l] = None /\ row'[l].version = 1 /\ row'[l].bits = {}
  <1> USE DEF Committed, Atomic!Open, Atomic!Decide, IInv, TypeOK
  <1>1. CASE Atomic!Submit(r)
    <2>1. op[r] = None /\ outcome[r] = None
      BY <1>1 DEF Atomic!Submit, HandlerState
    <2> QED
      BY <1>1, <2>1 DEF Atomic!Submit
  <1>2. CASE Atomic!Create(r)
    BY <1>2, SameData DEF Atomic!Create, NewRow, Materialize
  <1>3. CASE Atomic!KeepBit(r)
    BY <1>3 DEF Atomic!KeepBit
  <1>4. CASE Atomic!Refuse(r)
    BY <1>4 DEF Atomic!Refuse, Atomic!Refusal
  <1> QED
    BY <1>1, <1>2, <1>3, <1>4

(* A flip adds one write, at the next version of its list.                 *)
LEMMA WriteStep ==
  ASSUME IInv, NEW r \in Request, Atomic!FlipBit(r)
  PROVE  LET l == op[r].list IN
         /\ l \in List /\ row[l] # None /\ row[l].version \in Nat
         /\ op[r].index \in Index /\ op[r].status \in BOOLEAN
         /\ row' = [row EXCEPT ![l] = Flip(row[l], op[r].index, op[r].status)]
         /\ row'[l].version = row[l].version + 1 /\ row'[l] # None
         /\ row'[l].bits = SetBit(row[l].bits, op[r].index, op[r].status)
         /\ op' = op /\ outcome[r] = None /\ ~Committed(r, l)
         /\ outcome'[r].version = row[l].version + 1
         /\ \A q \in Request, m \in List :
              Committed(q, m)' <=> Committed(q, m) \/ (q = r /\ m = l)
         /\ \A q \in Request : q # r => outcome'[q] = outcome[q]
  <1> DEFINE l == op[r].list
  <1>1. /\ op[r].kind = "set" /\ op[r] # None /\ op[r] \in Operation
        /\ outcome[r] = None /\ op' = op
        /\ op[r].index \in Index /\ row[l] # None
        /\ row' = [row EXCEPT ![l] = Flip(row[l], op[r].index, op[r].status)]
        /\ \E code \in {"changed", "storage-failed"} :
             outcome' = [outcome EXCEPT ![r] =
                           [code |-> code, version |-> row[l].version + 1]]
    BY SameData DEF IInv, TypeOK, Atomic!FlipBit, Atomic!Open, Atomic!Decide
  <1>2. op[r] \in SetOp /\ l \in List /\ op[r].status \in BOOLEAN
    BY <1>1 DEF Operation, CreateOp, SetOp
  <1>3. row[l] \in Row /\ row[l].version \in Nat
    BY <1>1, <1>2 DEF IInv, TypeOK, Row
  <1>4. /\ Flip(row[l], op[r].index, op[r].status).version = row[l].version + 1
        /\ Flip(row[l], op[r].index, op[r].status).bits
             = SetBit(row[l].bits, op[r].index, op[r].status)
    BY DEF Flip, UpdatedRow, Materialize
  <1>5. Flip(row[l], op[r].index, op[r].status) \in Row
    BY <1>1, <1>2, <1>3, SetBitType, MaterializeType, UpdatedRowType
       DEF Flip, Row, Credential
  <1>6. \A q \in Request : q # r => outcome'[q] = outcome[q]
    BY <1>1 DEF IInv, TypeOK
  <1>7. /\ outcome'[r].code \in {"changed", "storage-failed"}
        /\ outcome'[r].version = row[l].version + 1 /\ outcome'[r] # None
    <2>1. ASSUME NEW code \in {"changed", "storage-failed"}
          PROVE  [code |-> code, version |-> row[l].version + 1] \in Outcome
      BY <1>3 DEF Outcome, Code
    <2> QED
      BY <1>1, <2>1, NoneAssumption DEF IInv, TypeOK
  <1>8. \A q \in Request, m \in List :
          Committed(q, m)' <=> Committed(q, m) \/ (q = r /\ m = l)
    BY <1>1, <1>2, <1>3, <1>6, <1>7 DEF Committed
  <1>9. row'[l] = Flip(row[l], op[r].index, op[r].status) /\ row'[l] # None
    BY <1>1, <1>2, <1>5, NoneAssumption DEF IInv, TypeOK
  <1>10. ~Committed(r, l)
    BY <1>1 DEF Committed
  <1> QED
    BY <1>1, <1>2, <1>3, <1>4, <1>6, <1>7, <1>8, <1>9, <1>10

(* A list's version starts at 1.                                           *)
PositiveVersions == \A l \in List : row[l] # None => row[l].version # 0

(* NoLostFlip and RedundantAnswerIsTrue with the list, the index and the   *)
(* version named by bound variables, which keep their values in a step.    *)
BitsAgree ==
  \A l \in List, i \in Index, v \in Nat :
     row[l] # None /\ v = row[l].version =>
       ((i \in row[l].bits) <=> BitAt(l, i, v))

RedundantAgrees ==
  \A q \in Request, l \in List, i \in Index, v \in Nat :
     /\ outcome[q] # None /\ outcome[q].code = "unchanged"
     /\ l = op[q].list /\ i = op[q].index /\ v = outcome[q].version
     => /\ row[l] # None /\ v <= row[l].version
        /\ BitAt(l, i, v) <=> op[q].status

(* A request answered "unchanged" named an index inside its list.          *)
RedundantIsSet ==
  \A q \in Request :
     outcome[q] # None /\ outcome[q].code = "unchanged" =>
       op[q] \in SetOp /\ op[q].index \in Index

WriteInv ==
  /\ IInv /\ PositiveVersions /\ VersionsHaveOneWriter
  /\ BitsAgree /\ RedundantAgrees /\ RedundantIsSet

(* Every version but the first has exactly one write behind it.            *)
LEMMA QuietWriters ==
  ASSUME WriteInv, NEW r \in Request,
         Atomic!Submit(r) \/ Atomic!Create(r) \/ Atomic!KeepBit(r)
           \/ Atomic!Refuse(r)
  PROVE  VersionsHaveOneWriter'
  <1>1. /\ \A q \in Request, l \in List : Committed(q, l)' <=> Committed(q, l)
        /\ \A q \in Request, l \in List :
             Committed(q, l) => outcome'[q].version = outcome[q].version
        /\ \A l \in List :
             \/ row'[l] = row[l]
             \/ row[l] = None /\ row'[l].version = 1
    BY QuietStep DEF WriteInv, Committed
  <1>2. \A l \in List, q \in Request : Committed(q, l) => row[l] # None
    BY DEF WriteInv, VersionsHaveOneWriter
  <1> QED
    BY <1>1, <1>2 DEF WriteInv, VersionsHaveOneWriter

LEMMA FlipWriters ==
  ASSUME WriteInv, NEW r \in Request, Atomic!FlipBit(r)
  PROVE  VersionsHaveOneWriter'
  <1> DEFINE l == op[r].list
             V == row[l].version
  <1>1. /\ l \in List /\ row[l] # None /\ V \in Nat
        /\ row' = [row EXCEPT ![l] = Flip(row[l], op[r].index, op[r].status)]
        /\ row'[l].version = V + 1 /\ row'[l] # None
        /\ outcome'[r].version = V + 1 /\ outcome[r] = None
        /\ \A q \in Request, m \in List :
             Committed(q, m)' <=> Committed(q, m) \/ (q = r /\ m = l)
        /\ \A q \in Request : q # r => outcome'[q] = outcome[q]
    BY WriteStep DEF WriteInv
  <1>2. \A m \in List : m # l => row'[m] = row[m]
    BY <1>1
  <1>3. V >= 1
    <2>1. V # 0
      BY <1>1 DEF WriteInv, PositiveVersions
    <2> QED
      BY <1>1, <2>1
  <1>4. ASSUME NEW m \in List, NEW q \in Request, Committed(q, m)
        PROVE  /\ q # r /\ outcome'[q] = outcome[q]
               /\ row[m] # None /\ row'[m] # None
               /\ outcome[q].version \in 2 .. row[m].version
               /\ outcome'[q].version \in 2 .. row'[m].version
               /\ m = l => outcome'[q].version # V + 1
    <2>1. q # r
      BY <1>1, <1>4 DEF Committed
    <2>2. row[m] # None /\ outcome[q].version \in 2 .. row[m].version
      BY <1>4 DEF WriteInv, VersionsHaveOneWriter
    <2>3. m = l \/ row'[m] = row[m]
      BY <1>2
    <2> QED
      BY <1>1, <2>1, <2>2, <2>3
  <1>5. ASSUME NEW m \in List, NEW q \in Request, Committed(q, m)'
        PROVE  row'[m] # None /\ outcome'[q].version \in 2 .. row'[m].version
    <2>1. CASE q = r /\ m = l
      BY <1>1, <1>3, <2>1
    <2>2. CASE Committed(q, m)
      BY <1>4, <2>2
    <2> QED
      BY <1>1, <1>5, <2>1, <2>2
  <1>7. ASSUME NEW m \in List, NEW q \in Request, NEW p \in Request,
               Committed(q, m)', Committed(p, m)',
               outcome'[q].version = outcome'[p].version
        PROVE  q = p
    <2>1. CASE Committed(q, m) /\ Committed(p, m)
      <3>1. outcome[q].version = outcome[p].version
        BY <1>4, <1>7, <2>1
      <3> QED
        BY <2>1, <3>1 DEF WriteInv, VersionsHaveOneWriter
    <2>2. CASE ~(Committed(q, m) /\ Committed(p, m))
      <3>1. m = l /\ (q = r \/ p = r)
        BY <1>1, <1>7, <2>2
      <3>2. outcome'[q].version = V + 1 /\ outcome'[p].version = V + 1
        BY <1>1, <1>7, <3>1
      <3>3. ~Committed(q, m) /\ ~Committed(p, m)
        BY <1>4, <3>1, <3>2
      <3> QED
        BY <1>1, <1>7, <3>3
    <2> QED
      BY <2>1, <2>2
  <1>6. ASSUME NEW m \in List, row'[m] # None, NEW v \in 2 .. row'[m].version
        PROVE  \E q \in Request : Committed(q, m)' /\ outcome'[q].version = v
    <2>1. CASE m = l /\ v = V + 1
      BY <1>1, <2>1
    <2>2. CASE ~(m = l /\ v = V + 1)
      <3>1. row[m] # None /\ v \in 2 .. row[m].version
        BY <1>1, <1>2, <1>6, <2>2
      <3>2. PICK q \in Request : Committed(q, m) /\ outcome[q].version = v
        BY <3>1 DEF WriteInv, VersionsHaveOneWriter
      <3>3. q # r
        BY <1>1, <3>2 DEF Committed
      <3> QED
        BY <1>1, <3>2, <3>3
    <2> QED
      BY <2>1, <2>2
  <1> QED
    BY <1>5, <1>6, <1>7 DEF VersionsHaveOneWriter

(* The bit a version publishes depends on the writes up to that version    *)
(* only, and these never change.                                           *)
WriteOf(q, l, i, v) ==
  Committed(q, l) /\ op[q].index = i /\ outcome[q].version <= v

LEMMA BitFrame ==
  ASSUME NEW l, NEW i, NEW v, NEW w,
         \A q \in Request :
            /\ WriteOf(q, l, i, w)' <=> WriteOf(q, l, i, v)
            /\ WriteOf(q, l, i, v) =>
                 op'[q] = op[q] /\ outcome'[q] = outcome[q]
  PROVE  BitAt(l, i, w)' <=> BitAt(l, i, v)
  <1>1. BitAt(l, i, v) <=>
          \E r \in Request :
             /\ WriteOf(r, l, i, v) /\ op[r].status
             /\ \A q \in Request :
                  WriteOf(q, l, i, v) => outcome[q].version <= outcome[r].version
    BY Zenon DEF BitAt, WriteOf
  <1>2. BitAt(l, i, w)' <=>
          \E r \in Request :
             /\ WriteOf(r, l, i, w)' /\ op'[r].status
             /\ \A q \in Request :
                  WriteOf(q, l, i, w)' => outcome'[q].version <= outcome'[r].version
    BY Zenon DEF BitAt, WriteOf
  <1> QED
    BY <1>1, <1>2

LEMMA QuietBits ==
  ASSUME WriteInv, NEW r \in Request,
         Atomic!Submit(r) \/ Atomic!Create(r) \/ Atomic!KeepBit(r)
           \/ Atomic!Refuse(r),
         NEW l \in List, NEW i, NEW v
  PROVE  BitAt(l, i, v)' <=> BitAt(l, i, v)
  <1>1. ASSUME NEW q \in Request
        PROVE  /\ WriteOf(q, l, i, v)' <=> WriteOf(q, l, i, v)
               /\ WriteOf(q, l, i, v) =>
                    op'[q] = op[q] /\ outcome'[q] = outcome[q]
    <2>1. Committed(q, l)' <=> Committed(q, l)
      BY QuietStep DEF WriteInv
    <2>2. Committed(q, l) => op'[q] = op[q] /\ outcome'[q] = outcome[q]
      BY QuietStep DEF WriteInv, Committed
    <2> QED
      BY <2>1, <2>2 DEF WriteOf
  <1> QED
    BY <1>1, BitFrame

(* A flip changes no bit of an earlier version, nor of another list.       *)
LEMMA FlipKeepsBits ==
  ASSUME WriteInv, NEW r \in Request, Atomic!FlipBit(r),
         NEW l \in List, NEW i, NEW v \in Nat,
         l = op[r].list => v <= row[l].version
  PROVE  BitAt(l, i, v)' <=> BitAt(l, i, v)
  <1>1. ASSUME NEW q \in Request
        PROVE  /\ WriteOf(q, l, i, v)' <=> WriteOf(q, l, i, v)
               /\ WriteOf(q, l, i, v) =>
                    op'[q] = op[q] /\ outcome'[q] = outcome[q]
    <2>1. /\ Committed(q, l)' <=> Committed(q, l) \/ (q = r /\ l = op[r].list)
          /\ q # r => outcome'[q] = outcome[q]
          /\ op' = op /\ ~Committed(r, l)
          /\ l = op[r].list => row[l].version \in Nat
          /\ outcome'[r].version = row[op[r].list].version + 1
      BY WriteStep DEF WriteInv, Committed
    <2>2. q = r /\ l = op[r].list => ~(outcome'[r].version <= v)
      BY <2>1
    <2> QED
      BY <2>1, <2>2 DEF WriteOf
  <1> QED
    BY <1>1, BitFrame

(* The bits of the version a flip makes: the flipped one is what was asked *)
(* for, the others are those of the version before.                        *)
LEMMA FlipSetsBit ==
  ASSUME WriteInv, NEW r \in Request, Atomic!FlipBit(r), NEW i \in Index,
         NEW l \in List, l = op[r].list, NEW V \in Nat, V = row[l].version
  PROVE  BitAt(l, i, V + 1)' <=>
           IF i = op[r].index THEN op[r].status ELSE BitAt(l, i, V)
  <1>1. /\ l \in List /\ row[l] # None /\ V \in Nat /\ op' = op
        /\ outcome'[r].version = V + 1 /\ ~Committed(r, l)
        /\ \A q \in Request, m \in List :
             Committed(q, m)' <=> Committed(q, m) \/ (q = r /\ m = l)
        /\ \A q \in Request : q # r => outcome'[q] = outcome[q]
    BY WriteStep DEF WriteInv
  <1>2. ASSUME NEW q \in Request, Committed(q, l)
        PROVE  outcome[q].version \in 2 .. V /\ q # r /\ outcome'[q] = outcome[q]
    BY <1>1, <1>2 DEF WriteInv, VersionsHaveOneWriter
  <1>3. CASE i = op[r].index
    <2>1. WriteOf(r, l, i, V + 1)'
      BY <1>1, <1>3 DEF WriteOf
    <2>2. ASSUME NEW q \in Request, WriteOf(q, l, i, V + 1)'
          PROVE  outcome'[q].version <= outcome'[r].version
      BY <1>1, <2>2 DEF WriteOf
    <2>3. ASSUME NEW q \in Request, WriteOf(q, l, i, V + 1)', q # r
          PROVE  ~(outcome'[r].version <= outcome'[q].version)
      BY <1>1, <1>2, <2>3 DEF WriteOf
    <2>4. BitAt(l, i, V + 1)' <=>
            \E p \in Request :
               /\ WriteOf(p, l, i, V + 1)' /\ op'[p].status
               /\ \A q \in Request : WriteOf(q, l, i, V + 1)'
                     => outcome'[q].version <= outcome'[p].version
      BY <1>1 DEF BitAt, WriteOf
    <2> QED
      BY <1>1, <1>3, <2>1, <2>2, <2>3, <2>4
  <1>4. CASE i # op[r].index
    <2>1. ASSUME NEW q \in Request
          PROVE  /\ WriteOf(q, l, i, V + 1)' <=> WriteOf(q, l, i, V)
                 /\ WriteOf(q, l, i, V) =>
                      op'[q] = op[q] /\ outcome'[q] = outcome[q]
      BY <1>1, <1>2, <1>4 DEF WriteOf
    <2>2. BitAt(l, i, V + 1)' <=> BitAt(l, i, V)
      BY <1>1, <2>1, BitFrame
    <2> QED
      BY <1>4, <2>2
  <1> QED
    BY <1>3, <1>4

LEMMA FlipBits ==
  ASSUME WriteInv, NEW r \in Request, Atomic!FlipBit(r)
  PROVE  BitsAgree'
  <1> SUFFICES ASSUME NEW m \in List, NEW i \in Index, NEW w \in Nat,
                      row'[m] # None, w = row'[m].version
               PROVE  (i \in row'[m].bits) <=> BitAt(m, i, w)'
    BY DEF BitsAgree
  <1>1. PICK l \in List, v \in Nat : l = op[r].list /\ v = row[l].version
    BY WriteStep DEF WriteInv
  <1>2. /\ row[l] # None
        /\ op[r].index \in Index /\ op[r].status \in BOOLEAN
        /\ row' = [row EXCEPT ![l] = Flip(row[l], op[r].index, op[r].status)]
        /\ row'[l].version = v + 1
        /\ row'[l].bits = SetBit(row[l].bits, op[r].index, op[r].status)
    BY <1>1, WriteStep DEF WriteInv
  <1>3. CASE m = l
    <2>1. BitAt(l, i, v + 1)' <=>
            IF i = op[r].index THEN op[r].status ELSE BitAt(l, i, v)
      BY <1>1, FlipSetsBit
    <2>2. (i \in row[l].bits) <=> BitAt(l, i, v)
      BY <1>1, <1>2 DEF WriteInv, BitsAgree
    <2>3. (i \in row'[l].bits) <=>
            IF i = op[r].index THEN op[r].status ELSE i \in row[l].bits
      BY <1>2 DEF SetBit
    <2>4. w = v + 1
      BY <1>2, <1>3
    <2> QED
      BY <1>3, <2>1, <2>2, <2>3, <2>4
  <1>4. CASE m # l
    <2>1. row'[m] = row[m]
      BY <1>1, <1>2, <1>4 DEF WriteInv, IInv, TypeOK
    <2>2. BitAt(m, i, w)' <=> BitAt(m, i, w)
      BY <1>1, <1>4, FlipKeepsBits
    <2> QED
      BY <2>1, <2>2 DEF WriteInv, BitsAgree
  <1> QED
    BY <1>3, <1>4

LEMMA QuietFlips ==
  ASSUME WriteInv, NEW r \in Request,
         Atomic!Submit(r) \/ Atomic!Create(r) \/ Atomic!KeepBit(r)
           \/ Atomic!Refuse(r)
  PROVE  BitsAgree'
  <1> SUFFICES ASSUME NEW m \in List, NEW i \in Index, NEW w \in Nat,
                      row'[m] # None, w = row'[m].version
               PROVE  (i \in row'[m].bits) <=> BitAt(m, i, w)'
    BY DEF BitsAgree
  <1>1. BitAt(m, i, w)' <=> BitAt(m, i, w)
    BY QuietBits
  <1>2. CASE row'[m] = row[m]
    BY <1>1, <1>2 DEF WriteInv, BitsAgree
  <1>3. CASE row[m] = None /\ row'[m].bits = {}
    <2>1. ASSUME NEW q \in Request PROVE ~Committed(q, m)
      BY <1>3 DEF WriteInv, VersionsHaveOneWriter
    <2>2. ~BitAt(m, i, w)
      BY <2>1 DEF BitAt
    <2> QED
      BY <1>1, <1>3, <2>2
  <1> QED
    BY <1>2, <1>3, QuietStep DEF WriteInv

(* The answer "unchanged" stays true of the version it named.              *)
LEMMA QuietRedundant ==
  ASSUME WriteInv, NEW r \in Request,
         Atomic!Submit(r) \/ Atomic!Create(r) \/ Atomic!KeepBit(r)
           \/ Atomic!Refuse(r)
  PROVE  RedundantAgrees' /\ RedundantIsSet'
  <1>1. ASSUME NEW q \in Request, outcome'[q] # None,
               outcome'[q].code = "unchanged", outcome[q] = None
        PROVE  /\ q = r /\ Atomic!KeepBit(r) /\ op' = op /\ row' = row
               /\ op[r] \in SetOp /\ op[r].index \in Index
               /\ row[op[r].list] # None
               /\ (op[r].index \in row[op[r].list].bits) <=> op[r].status
               /\ outcome'[r].version = row[op[r].list].version
    <2> USE DEF WriteInv, IInv, TypeOK, Atomic!Open, Atomic!Decide
    <2>1. CASE Atomic!KeepBit(r)
      <3>1. q = r
        BY <1>1, <2>1 DEF Atomic!KeepBit
      <3>2. op[r] \in SetOp
        BY <2>1 DEF Atomic!KeepBit, Operation, CreateOp
      <3> QED
        BY <1>1, <2>1, <3>1, <3>2 DEF Atomic!KeepBit, SetOp
    <2>2. CASE Atomic!Submit(r) \/ Atomic!Create(r) \/ Atomic!Refuse(r)
      BY <1>1, <2>2 DEF Atomic!Submit, Atomic!Create, Atomic!Refuse, Atomic!Refusal
    <2> QED
      BY <2>1, <2>2
  <1>2. ASSUME NEW q \in Request, outcome[q] # None
        PROVE  op'[q] = op[q] /\ outcome'[q] = outcome[q]
    BY <1>2, QuietStep DEF WriteInv
  <1>3. RedundantAgrees'
    <2> SUFFICES ASSUME NEW q \in Request, NEW l \in List, NEW i \in Index,
                        NEW v \in Nat,
                        outcome'[q] # None, outcome'[q].code = "unchanged",
                        l = op'[q].list, i = op'[q].index,
                        v = outcome'[q].version
                 PROVE  /\ row'[l] # None /\ v <= row'[l].version
                        /\ BitAt(l, i, v)' <=> op'[q].status
      BY DEF RedundantAgrees
    <2>1. BitAt(l, i, v)' <=> BitAt(l, i, v)
      BY QuietBits
    <2>2. CASE outcome[q] = None
      BY <1>1, <2>1, <2>2 DEF WriteInv, BitsAgree
    <2>3. CASE outcome[q] # None
      <3>1. row[l] # None /\ v <= row[l].version
              /\ (BitAt(l, i, v) <=> op[q].status)
        BY <1>2, <2>3 DEF WriteInv, RedundantAgrees
      <3>2. row'[l] = row[l]
        BY <3>1, QuietStep DEF WriteInv
      <3> QED
        BY <1>2, <2>1, <2>3, <3>1, <3>2
    <2> QED
      BY <2>2, <2>3
  <1>4. RedundantIsSet'
    BY <1>1, <1>2 DEF WriteInv, RedundantIsSet
  <1> QED
    BY <1>3, <1>4

LEMMA FlipRedundant ==
  ASSUME WriteInv, NEW r \in Request, Atomic!FlipBit(r)
  PROVE  RedundantAgrees' /\ RedundantIsSet'
  <1>1. ASSUME NEW q \in Request, outcome'[q] # None,
               outcome'[q].code = "unchanged"
        PROVE  outcome'[q] = outcome[q] /\ op' = op
    <2>1. outcome'[r].code # "unchanged"
      BY DEF WriteInv, IInv, TypeOK, Atomic!FlipBit, Atomic!Decide
    <2> QED
      BY <1>1, <2>1, WriteStep DEF WriteInv
  <1>2. ASSUME NEW l \in List, row[l] # None
        PROVE  /\ row'[l] # None /\ row[l].version \in Nat
               /\ row'[l].version \in Nat /\ row[l].version <= row'[l].version
    <2>1. row[l].version \in Nat
      BY <1>2 DEF WriteInv, IInv, TypeOK, Row
    <2>2. CASE l = op[r].list
      BY <2>1, <2>2, WriteStep DEF WriteInv
    <2>3. CASE l # op[r].list
      <3>1. row'[l] = row[l]
        BY <2>3, WriteStep DEF WriteInv, IInv, TypeOK
      <3> QED
        BY <1>2, <2>1, <3>1
    <2> QED
      BY <2>2, <2>3
  <1>3. RedundantAgrees'
    <2> SUFFICES ASSUME NEW q \in Request, NEW l \in List, NEW i \in Index,
                        NEW v \in Nat,
                        outcome'[q] # None, outcome'[q].code = "unchanged",
                        l = op'[q].list, i = op'[q].index,
                        v = outcome'[q].version
                 PROVE  /\ row'[l] # None /\ v <= row'[l].version
                        /\ BitAt(l, i, v)' <=> op'[q].status
      BY DEF RedundantAgrees
    <2>1. row[l] # None /\ v <= row[l].version
            /\ (BitAt(l, i, v) <=> op[q].status)
      BY <1>1 DEF WriteInv, RedundantAgrees
    <2>2. BitAt(l, i, v)' <=> BitAt(l, i, v)
      BY <2>1, FlipKeepsBits
    <2> QED
      BY <1>1, <1>2, <2>1, <2>2
  <1>4. RedundantIsSet'
    BY <1>1 DEF WriteInv, RedundantIsSet
  <1> QED
    BY <1>3, <1>4

LEMMA VersionsStayPositive ==
  ASSUME WriteInv, NEW r \in Request,
         Atomic!Submit(r) \/ Atomic!Create(r) \/ Atomic!KeepBit(r)
           \/ Atomic!Refuse(r) \/ Atomic!FlipBit(r)
  PROVE  PositiveVersions'
  <1>1. CASE Atomic!FlipBit(r)
    <2>1. PICK k \in List : k = op[r].list
      BY <1>1, WriteStep DEF WriteInv
    <2>2. /\ row[k].version \in Nat /\ row'[k].version = row[k].version + 1
          /\ \A l \in List : l # k => row'[l] = row[l]
      BY <1>1, <2>1, WriteStep DEF WriteInv, IInv, TypeOK
    <2> QED
      BY <2>2 DEF WriteInv, PositiveVersions
  <1>2. CASE ~Atomic!FlipBit(r)
    BY <1>2, QuietStep DEF WriteInv, PositiveVersions
  <1> QED
    BY <1>1, <1>2

LEMMA InitWrites == Init => WriteInv
  <1> SUFFICES ASSUME Init PROVE WriteInv
    OBVIOUS
  <1>1. IInv
    BY InitInv
  <1>2. \A x \in FreshRow : x.version = 1 /\ x.bits = {}
    BY DEF FreshRow, NewRow, Materialize
  <1>3. \A r \in Request, l \in List : ~Committed(r, l)
    BY DEF Init, Committed
  <1>4. PositiveVersions /\ VersionsHaveOneWriter
    <2>1. ASSUME NEW l \in List, row[l] # None
          PROVE  row[l].version = 1 /\ row[l].bits = {}
      BY <1>2, <2>1 DEF Init
    <2> QED
      BY <1>3, <2>1 DEF PositiveVersions, VersionsHaveOneWriter
  <1>5. BitsAgree
    BY <1>2, <1>3 DEF Init, BitsAgree, BitAt
  <1>6. RedundantAgrees /\ RedundantIsSet
    BY DEF Init, RedundantAgrees, RedundantIsSet
  <1> QED
    BY <1>1, <1>4, <1>5, <1>6 DEF WriteInv

LEMMA NextWrites == WriteInv /\ [Next]_vars => WriteInv'
  <1> SUFFICES ASSUME WriteInv, [Next]_vars PROVE WriteInv'
    OBVIOUS
  <1>1. IInv'
    BY NextInv DEF WriteInv
  <1>2. CASE UNCHANGED <<row, op, outcome>>
    <2>1. \A q \in Request, l \in List : Committed(q, l)' <=> Committed(q, l)
      BY <1>2 DEF Committed
    <2>2. \A l, i, v : BitAt(l, i, v)' <=> BitAt(l, i, v)
      BY <1>2 DEF BitAt, Committed
    <2> QED
      BY <1>1, <1>2, <2>1, <2>2
         DEF WriteInv, PositiveVersions, VersionsHaveOneWriter, BitsAgree,
             RedundantAgrees, RedundantIsSet
  <1>3. CASE Atomic!Next
    <2>1. PICK r \in Request :
            Atomic!Submit(r) \/ Atomic!Create(r) \/ Atomic!FlipBit(r)
              \/ Atomic!KeepBit(r) \/ Atomic!Refuse(r)
      BY <1>3 DEF Atomic!Next
    <2>2. PositiveVersions'
      BY <2>1, VersionsStayPositive
    <2>3. CASE Atomic!FlipBit(r)
      BY <1>1, <2>2, <2>3, FlipWriters, FlipBits, FlipRedundant DEF WriteInv
    <2>4. CASE ~Atomic!FlipBit(r)
      BY <1>1, <2>1, <2>2, <2>4, QuietWriters, QuietFlips, QuietRedundant
         DEF WriteInv
    <2> QED
      BY <2>3, <2>4
  <1> QED
    BY <1>2, <1>3, NextStep DEF WriteInv

LEMMA WriteInvariance == Safety => []WriteInv
  BY InitWrites, NextWrites, PTL DEF Safety

(* Every version of every list after its first was made by exactly one     *)
(* request.                                                                *)
THEOREM OneWriterPerVersion == Safety => []VersionsHaveOneWriter
  BY WriteInvariance, PTL DEF WriteInv

(* The requests whose flip of a bit of l is in the database.               *)
FlipsOf(l) == {r \in Request : Committed(r, l)}

(* The version of a list counts its flips: it is one more than the number  *)
(* of requests whose write is in the database, including those whose       *)
(* clients were told of a failure (updateStatusList, storage-sql.ts).      *)
VersionsCountFlips ==
  \A l \in List :
     row[l] # None =>
       IsFiniteSet(FlipsOf(l)) /\ row[l].version = 1 + Cardinality(FlipsOf(l))

(* The version is neither bumped without a flip nor left behind by one.    *)
THEOREM VersionsAreCounts == Safety => []VersionsCountFlips
  <1>1. ASSUME WriteInv, NEW l \in List, row[l] # None
        PROVE  /\ IsFiniteSet(FlipsOf(l))
               /\ row[l].version = 1 + Cardinality(FlipsOf(l))
    <2> PICK W, n, f : /\ W = FlipsOf(l) /\ n = row[l].version
                       /\ f = [r \in W |-> outcome[r].version]
      OBVIOUS
    <2>1. n \in Nat \ {0}
      BY <1>1 DEF WriteInv, PositiveVersions, IInv, TypeOK, Row
    <2>2. /\ \A r \in W : r \in Request /\ Committed(r, l)
          /\ \A r \in Request : Committed(r, l) => r \in W
      BY DEF FlipsOf
    <2>3. f \in [W -> 2 .. n]
      BY <1>1, <2>2 DEF WriteInv, VersionsHaveOneWriter
    <2>4. \A r, q \in W : f[r] = f[q] => r = q
      <3>1. \A r, q \in Request :
              /\ Committed(r, l) /\ Committed(q, l)
              /\ outcome[r].version = outcome[q].version
              => r = q
        BY <1>1, Zenon DEF WriteInv, VersionsHaveOneWriter
      <3> QED
        BY <2>2, <3>1
    <2>5. \A v \in 2 .. n : \E r \in W : f[r] = v
      BY <1>1, <2>2 DEF WriteInv, VersionsHaveOneWriter
    <2>6. f \in Injection(W, 2 .. n) /\ f \in Surjection(W, 2 .. n)
      BY <2>3, <2>4, <2>5 DEF Injection, IsInjective, Surjection
    <2>7. IsFiniteSet(2 .. n) /\ Cardinality(2 .. n) = n - 1
      <3>1. ASSUME NEW k \in Int, NEW m \in Int, m + 1 >= k
            PROVE  IsFiniteSet(k .. m) /\ Cardinality(k .. m) = m - k + 1
        BY <3>1, FS_Interval
      <3> PICK k \in Int : k = 2
        OBVIOUS
      <3>2. n \in Int /\ n + 1 >= k /\ n - k + 1 = n - 1
        BY <2>1
      <3>3. IsFiniteSet(k .. n) /\ Cardinality(k .. n) = n - k + 1
        BY <3>1, <3>2
      <3> QED
        BY <3>2, <3>3
    <2>8. IsFiniteSet(W) /\ Cardinality(W) = Cardinality(2 .. n)
      BY <2>6, <2>7, FS_Injection
    <2> QED
      BY <2>1, <2>7, <2>8
  <1>2. WriteInv => VersionsCountFlips
    BY <1>1 DEF VersionsCountFlips
  <1> QED
    BY <1>2, WriteInvariance, PTL

(* No flip is ever lost: each bit is what its last committed write made    *)
(* it, for any number of concurrent requests, failures and crashes.        *)
THEOREM FlipsSurvive == Safety => []NoLostFlip
  <1>1. ASSUME WriteInv, NEW l \in List, row[l] # None, NEW i \in Index
        PROVE  (i \in row[l].bits) <=> BitAt(l, i, row[l].version)
    <2>1. row[l].version \in Nat
      BY <1>1 DEF WriteInv, IInv, TypeOK, Row
    <2> QED
      BY <1>1, <2>1 DEF WriteInv, BitsAgree
  <1>2. ASSUME NEW l, NEW i, NEW v PROVE BitAt(l, i, v) \in BOOLEAN
    BY DEF BitAt
  <1>3. WriteInv => NoLostFlip
    BY <1>1, <1>2 DEF NoLostFlip
  <1> QED
    BY <1>3, WriteInvariance, PTL

(* An answer "unchanged" is true of the version it names.                  *)
THEOREM RedundantAnswersAreTrue == Safety => []RedundantAnswerIsTrue
  <1>1. ASSUME WriteInv, NEW r \in Request,
               outcome[r] # None, outcome[r].code = "unchanged"
        PROVE  /\ row[op[r].list] # None
               /\ outcome[r].version <= row[op[r].list].version
               /\ BitAt(op[r].list, op[r].index, outcome[r].version)
                    <=> op[r].status
               /\ op[r].status \in BOOLEAN
    <2>1. /\ op[r].list \in List /\ op[r].index \in Index
          /\ outcome[r].version \in Nat /\ op[r].status \in BOOLEAN
      BY <1>1 DEF WriteInv, RedundantIsSet, SetOp, IInv, TypeOK, Outcome
    <2> QED
      BY <1>1, <2>1 DEF WriteInv, RedundantAgrees
  <1>2. WriteInv => RedundantAnswerIsTrue
    BY <1>1 DEF RedundantAnswerIsTrue, BitAt
  <1> QED
    BY <1>2, WriteInvariance, PTL

-----------------------------------------------------------------------------
(* What clients hold.                                                      *)

(* A row changes only by being created or by gaining a version.            *)
LEMMA RowStep ==
  ASSUME WriteInv, [Next]_vars, NEW l \in List, row[l] # None
  PROVE  /\ row'[l] # None /\ row[l].version \in Nat
         /\ \/ row'[l] = row[l]
            \/ row'[l].version = row[l].version + 1
  <1>1. row[l].version \in Nat
    BY DEF WriteInv, IInv, TypeOK, Row
  <1>2. CASE UNCHANGED <<row, op, outcome>>
    BY <1>1, <1>2
  <1>3. CASE Atomic!Next
    <2>1. PICK r \in Request :
            Atomic!Submit(r) \/ Atomic!Create(r) \/ Atomic!FlipBit(r)
              \/ Atomic!KeepBit(r) \/ Atomic!Refuse(r)
      BY <1>3 DEF Atomic!Next
    <2>2. CASE Atomic!FlipBit(r)
      <3>1. CASE l = op[r].list
        BY <1>1, <2>2, <3>1, WriteStep DEF WriteInv
      <3>2. CASE l # op[r].list
        BY <1>1, <2>2, <3>2, WriteStep DEF WriteInv, IInv, TypeOK
      <3> QED
        BY <3>1, <3>2
    <2>3. CASE ~Atomic!FlipBit(r)
      BY <1>1, <2>1, <2>3, QuietStep DEF WriteInv
    <2> QED
      BY <2>2, <2>3
  <1> QED
    BY <1>2, <1>3, NextStep DEF WriteInv

(* A client's copy of a list changes only by being served the row.         *)
LEMMA ServedCopy ==
  ASSUME WriteInv, NEW c \in Client, NEW l \in List, GetList(c, l)
  PROVE  /\ row' = row /\ row[l] # None /\ row[l].version \in Nat
         /\ copy'[<<c, l>>] # None
         /\ copy'[<<c, l>>].version = row[l].version
         /\ \/ UNCHANGED copy
            \/ copy'[<<c, l>>].credential = row[l].credential
         /\ \A d \in Client, m \in List :
              d # c \/ m # l => copy'[<<d, m>>] = copy[<<d, m>>]
  <1>1. /\ row' = row /\ row[l] # None /\ row[l] \in Row
        /\ row[l].version \in Nat /\ row[l].credential \in Credential
        /\ <<c, l>> \in Client \X List
        /\ copy \in [Client \X List -> Copy \cup {None}]
    BY DEF GetList, WriteInv, IInv, TypeOK, Row
  <1>2. CASE HasCurrent(c, l) /\ UNCHANGED copy
    BY <1>1, <1>2 DEF HasCurrent
  <1>3. CASE copy' = [copy EXCEPT ![<<c, l>>] =
                        [version |-> row[l].version,
                         credential |-> row[l].credential]]
    <2>1. copy'[<<c, l>>] = [version |-> row[l].version,
                            credential |-> row[l].credential]
      BY <1>1, <1>3
    <2>2. copy'[<<c, l>>] # None
      BY <1>1, <2>1, NoCopyAssumption DEF Copy
    <2>3. \A d \in Client, m \in List :
            d # c \/ m # l => copy'[<<d, m>>] = copy[<<d, m>>]
      BY <1>1, <1>3
    <2> QED
      BY <1>1, <2>1, <2>2, <2>3
  <1> QED
    BY <1>2, <1>3 DEF GetList

LEMMA CopyStep ==
  ASSUME WriteInv, [Next]_vars, NEW c \in Client, NEW l \in List
  PROVE  \/ copy'[<<c, l>>] = copy[<<c, l>>]
         \/ /\ row'[l] = row[l] /\ row[l] # None /\ copy'[<<c, l>>] # None
            /\ copy'[<<c, l>>].version = row[l].version
            /\ copy'[<<c, l>>].credential = row[l].credential
  <1>1. CASE \E e \in Client, m \in List : GetList(e, m)
    <2> PICK e \in Client, m \in List : GetList(e, m)
      BY <1>1
    <2>1. CASE c = e /\ l = m
      BY <2>1, ServedCopy
    <2>2. CASE c # e \/ l # m
      <3>1. \A d \in Client, k \in List :
              d # e \/ k # m => copy'[<<d, k>>] = copy[<<d, k>>]
        BY ServedCopy
      <3> QED
        BY <2>2, <3>1
    <2> QED
      BY <2>1, <2>2
  <1>2. ASSUME NEW r \in Request,
               Submit(r) \/ Progress(r) \/ LockRow(r) \/ Fault(r)
        PROVE  UNCHANGED copy
    BY <1>2
       DEF Submit, Progress, LockRow, Fault, ResolveForCreate, MintList,
           InsertList, ReadList, ResolveInstance, ApplyStatus, SignUpdate,
           CommitUpdate, SigningFails, InsertUnacknowledged,
           CommitUnacknowledged, CommitWith, StorageFails
  <1> QED
    BY <1>1, <1>2 DEF Next, Crash, vars

LEMMA NextCopies ==
  WriteInv /\ VersionNamesCredential /\ [Next]_vars => VersionNamesCredential'
  <1> SUFFICES ASSUME WriteInv, VersionNamesCredential, [Next]_vars,
                      NEW l \in List
               PROVE  \A c \in Client :
                        copy'[<<c, l>>] # None =>
                          /\ row'[l] # None
                          /\ copy'[<<c, l>>].version <= row'[l].version
                          /\ copy'[<<c, l>>].version = row'[l].version =>
                               copy'[<<c, l>>].credential = row'[l].credential
                          /\ \A d \in Client :
                               /\ copy'[<<d, l>>] # None
                               /\ copy'[<<d, l>>].version = copy'[<<c, l>>].version
                               => copy'[<<d, l>>].credential
                                    = copy'[<<c, l>>].credential
    BY DEF VersionNamesCredential
  <1>1. ASSUME NEW c \in Client, copy[<<c, l>>] # None
        PROVE  /\ row[l] # None /\ copy[<<c, l>>].version \in Nat
               /\ copy[<<c, l>>].version <= row[l].version
               /\ copy[<<c, l>>].version = row[l].version =>
                    copy[<<c, l>>].credential = row[l].credential
    BY <1>1 DEF VersionNamesCredential, WriteInv, IInv, TypeOK, Copy
  <1>2. ASSUME NEW c \in Client, copy'[<<c, l>>] # None
        PROVE  \/ /\ copy'[<<c, l>>] = copy[<<c, l>>] /\ copy[<<c, l>>] # None
               \/ /\ row'[l] = row[l] /\ row[l] # None
                  /\ copy'[<<c, l>>].version = row[l].version
                  /\ copy'[<<c, l>>].credential = row[l].credential
    BY <1>2, CopyStep
  <1>3. ASSUME NEW c \in Client, copy[<<c, l>>] # None
        PROVE  /\ row'[l] # None
               /\ copy[<<c, l>>].version <= row'[l].version
               /\ copy[<<c, l>>].version = row'[l].version =>
                    copy[<<c, l>>].credential = row'[l].credential
    BY <1>1, <1>3, RowStep
  <1>4. row[l] # None => row[l].version \in Nat
    BY DEF WriteInv, IInv, TypeOK, Row
  <1>5. ASSUME NEW c \in Client, copy'[<<c, l>>] # None
        PROVE  /\ row'[l] # None
               /\ copy'[<<c, l>>].version <= row'[l].version
               /\ copy'[<<c, l>>].version = row'[l].version =>
                    copy'[<<c, l>>].credential = row'[l].credential
    BY <1>2, <1>3, <1>4, <1>5
  <1>6. ASSUME NEW c \in Client, copy'[<<c, l>>] # None,
               NEW d \in Client, copy'[<<d, l>>] # None,
               copy'[<<d, l>>].version = copy'[<<c, l>>].version
        PROVE  copy'[<<d, l>>].credential = copy'[<<c, l>>].credential
    <2>1. CASE /\ copy'[<<c, l>>] = copy[<<c, l>>] /\ copy[<<c, l>>] # None
               /\ copy'[<<d, l>>] = copy[<<d, l>>] /\ copy[<<d, l>>] # None
      BY <1>6, <2>1 DEF VersionNamesCredential
    <2>2. CASE row'[l] = row[l] /\ copy'[<<c, l>>].version = row[l].version
      BY <1>5, <1>6, <2>2
    <2>3. CASE row'[l] = row[l] /\ copy'[<<d, l>>].version = row[l].version
      BY <1>5, <1>6, <2>3
    <2> QED
      BY <1>2, <1>6, <2>1, <2>2, <2>3
  <1> QED
    BY <1>5, <1>6

(* A version, and so an ETag, names one credential: a 304 never confirms   *)
(* stale bytes, and all clients hold the same bytes of a version.          *)
THEOREM EtagsAreStrong == Safety => []VersionNamesCredential
  <1>1. Init => VersionNamesCredential
    BY DEF Init, VersionNamesCredential
  <1> QED
    BY <1>1, NextCopies, WriteInvariance, PTL DEF Safety

-----------------------------------------------------------------------------
(* What happens to a list once it exists, and the immutability that        *)
(* #instanceFor counts on when it resolves the issuer instance before the  *)
(* transaction opens (manager.ts).                                         *)

(* A list that exists is never deleted and keeps its issuer instance and   *)
(* the URL of its credential; the only thing that ever happens to its row  *)
(* is that one bit turns, with the credential and the version that go with *)
(* it.                                                                     *)
OnlyFlips ==
  \A l \in List :
     row[l] # None =>
       /\ row'[l] # None
       /\ row'[l].issuerInstance = row[l].issuerInstance
       /\ row'[l].credential.url = row[l].credential.url
       /\ row'[l] # row[l] =>
            \E i \in Index : row'[l] = Flip(row[l], i, i \notin row[l].bits)

ListsAreFlippedOnly == [][OnlyFlips]_vars

LEMMA FlipKeepsIdentity ==
  ASSUME NEW old, NEW i, NEW status
  PROVE  /\ Flip(old, i, status).issuerInstance = old.issuerInstance
         /\ Flip(old, i, status).credential.url = old.credential.url
  BY DEF Flip, UpdatedRow, Materialize

LEMMA NextFlips == IInv /\ [Next]_vars => OnlyFlips
  <1> SUFFICES ASSUME IInv, [Next]_vars, NEW l \in List, row[l] # None
               PROVE  \/ row'[l] = row[l]
                      \/ /\ row'[l] # None
                         /\ \E i \in Index :
                              row'[l] = Flip(row[l], i, i \notin row[l].bits)
    BY FlipKeepsIdentity DEF OnlyFlips
  <1>1. CASE UNCHANGED <<row, op, outcome>>
    BY <1>1
  <1>2. CASE Atomic!Next
    <2>1. PICK r \in Request :
            Atomic!Submit(r) \/ Atomic!Create(r) \/ Atomic!FlipBit(r)
              \/ Atomic!KeepBit(r) \/ Atomic!Refuse(r)
      BY <1>2 DEF Atomic!Next
    <2>2. CASE Atomic!FlipBit(r) /\ l = op[r].list
      <3>1. /\ op[r].index \in Index /\ op[r].status \in BOOLEAN
            /\ row'[l] # None /\ l \in DOMAIN row
            /\ row' = [row EXCEPT ![l] =
                         Flip(row[l], op[r].index, op[r].status)]
        BY <2>2, WriteStep DEF IInv, TypeOK
      <3>2. (op[r].index \in row[l].bits) # op[r].status
        BY <2>2 DEF Atomic!FlipBit
      <3>3. op[r].status = (op[r].index \notin row[l].bits)
        BY <3>1, <3>2
      <3> QED
        BY <3>1, <3>3
    <2>3. CASE Atomic!FlipBit(r) /\ l # op[r].list
      BY <2>3, WriteStep DEF IInv, TypeOK
    <2>4. CASE ~Atomic!FlipBit(r)
      BY <2>1, <2>4, QuietStep
    <2> QED
      BY <2>2, <2>3, <2>4
  <1> QED
    BY <1>1, <1>2, NextStep

(* Whatever requests, failures, crashes and restarts come between, nothing *)
(* ever happens to a list but flips of single bits.                        *)
THEOREM NothingButFlips == Safety => ListsAreFlippedOnly
  BY NextFlips, Invariance, PTL DEF Safety, ListsAreFlippedOnly

-----------------------------------------------------------------------------
(* In what order clients learn of versions, whichever server answers them. *)

(* r was answered with version v of list l.                                *)
AnsweredAt(r, l, v) ==
  /\ op[r] # None /\ op[r].list = l
  /\ outcome[r] # None /\ outcome[r].version = v /\ v # 0

(* An answer names a version the list has reached.                         *)
AnswersExist ==
  \A r \in Request, l \in List, v \in Nat :
     AnsweredAt(r, l, v) => row[l] # None /\ v <= row[l].version

AnswerInv == WriteInv /\ AnswersExist

(* The answers about one list name versions in the order in which they     *)
(* were decided, and a flip names a version above every answer so far: a   *)
(* request made after another was answered never reports an older state.   *)
AnswersInOrder ==
  \A r, q \in Request, l \in List, v, w \in Nat :
     AnsweredAt(q, l, v) /\ outcome[r] = None /\ AnsweredAt(r, l, w)' =>
       /\ v <= w
       /\ outcome'[r].code = "changed" => v < w

AnswersGoForward == [][AnswersInOrder]_vars

(* A client's copy of a list only gains versions, and what it is served,   *)
(* by a 200 or a 304, is at least as new as every answer given before: a   *)
(* client reads its own writes, and every other client reads them too.     *)
ReadsInOrder ==
  \A c \in Client, l \in List :
     /\ copy[<<c, l>>] # None =>
          /\ copy'[<<c, l>>] # None
          /\ copy[<<c, l>>].version <= copy'[<<c, l>>].version
     /\ GetList(c, l) =>
          \A r \in Request, v \in Nat :
             AnsweredAt(r, l, v) => v <= copy'[<<c, l>>].version

ReadsGoForward == [][ReadsInOrder]_vars

(* An answer stands.                                                       *)
LEMMA AnswersStand ==
  ASSUME WriteInv, [Next]_vars, NEW r \in Request, outcome[r] # None
  PROVE  op'[r] = op[r] /\ outcome'[r] = outcome[r]
  <1>1. CASE UNCHANGED <<row, op, outcome>>
    BY <1>1
  <1>2. CASE Atomic!Next
    <2>1. PICK q \in Request :
            Atomic!Submit(q) \/ Atomic!Create(q) \/ Atomic!FlipBit(q)
              \/ Atomic!KeepBit(q) \/ Atomic!Refuse(q)
      BY <1>2 DEF Atomic!Next
    <2>2. CASE Atomic!FlipBit(q)
      BY <2>2, WriteStep DEF WriteInv
    <2>3. CASE ~Atomic!FlipBit(q)
      BY <2>1, <2>3, QuietStep DEF WriteInv
    <2> QED
      BY <2>2, <2>3
  <1> QED
    BY <1>1, <1>2, NextStep DEF WriteInv

(* An answer that names a version names the one its list has at the        *)
(* instant it is decided.                                                  *)
LEMMA DecidedStep ==
  ASSUME WriteInv, [Next]_vars, NEW r \in Request,
         outcome[r] = None, outcome'[r] # None, outcome'[r].version # 0
  PROVE  LET l == op[r].list IN
         /\ op'[r] = op[r] /\ op[r] \in Operation
         /\ row'[l] # None /\ outcome'[r].version = row'[l].version
         /\ outcome'[r].code = "changed" =>
              row[l] # None /\ row'[l].version = row[l].version + 1
  <1> USE DEF WriteInv
  <1>1. outcome \in [Request -> Outcome \cup {None}]
    BY DEF IInv, TypeOK
  <1>2. PICK q \in Request :
          Atomic!Submit(q) \/ Atomic!Create(q) \/ Atomic!FlipBit(q)
            \/ Atomic!KeepBit(q) \/ Atomic!Refuse(q)
    BY NextStep DEF Atomic!Next
  <1> DEFINE l == op[q].list
  <1>3. CASE Atomic!FlipBit(q)
    <2>1. q = r
      BY <1>3, WriteStep
    <2>2. op[q] \in Operation
      BY <1>3 DEF Atomic!FlipBit, Atomic!Open, IInv, TypeOK
    <2> QED
      BY <1>3, <2>1, <2>2, WriteStep
  <1>4. CASE Atomic!Create(q)
    <2>1. /\ op[q] \in Operation /\ op[q].kind = "create" /\ op' = op
          /\ row' = [row EXCEPT ![l] =
                       NewRow(op[q].instance,
                              Materialize(op[q].instance, op[q].url, {}))]
      BY <1>4, SameData DEF Atomic!Create, Atomic!Open, IInv, TypeOK
    <2>2. PICK code \in {"created", "duplicate-list", "storage-failed"} :
            outcome' = [outcome EXCEPT ![q] = [code |-> code, version |-> 1]]
      BY <1>4 DEF Atomic!Create, Atomic!Decide
    <2>3. q = r
      BY <1>1, <2>2
    <2>4. outcome'[r].version = 1 /\ outcome'[r].code # "changed"
      BY <1>1, <2>2, <2>3
    <2>5. /\ op[q] \in CreateOp /\ l \in List /\ row \in [List -> Row \cup {None}]
          /\ op[q].instance \in Instance /\ op[q].url \in Url
      BY <2>1 DEF Operation, CreateOp, SetOp, IInv, TypeOK
    <2>6. row'[l].version = 1 /\ row'[l] # None
      BY <2>1, <2>5, NewRowType, MaterializeType, NoneAssumption DEF NewRow
    <2> QED
      BY <2>1, <2>3, <2>4, <2>6
  <1>5. CASE Atomic!KeepBit(q)
    <2>1. /\ op[q] \in Operation /\ op' = op /\ row' = row
          /\ row[l] # None
          /\ outcome' = [outcome EXCEPT ![q] =
                           [code |-> "unchanged", version |-> row[l].version]]
      BY <1>5 DEF Atomic!KeepBit, Atomic!Open, Atomic!Decide, IInv, TypeOK
    <2>2. q = r
      BY <1>1, <2>1
    <2>3. /\ outcome'[r].version = row[l].version
          /\ outcome'[r].code = "unchanged"
      BY <1>1, <2>1, <2>2
    <2> QED
      BY <2>1, <2>2, <2>3
  <1>6. ~Atomic!Submit(q)
    BY DEF Atomic!Submit
  <1>7. ~Atomic!Refuse(q)
    BY <1>1 DEF Atomic!Refuse, Atomic!Decide
  <1> QED
    BY <1>2, <1>3, <1>4, <1>5, <1>6, <1>7

LEMMA NextAnswers == AnswerInv /\ [Next]_vars => AnswerInv'
  <1> SUFFICES ASSUME AnswerInv, [Next]_vars,
                      NEW r \in Request, NEW l \in List, NEW v \in Nat,
                      AnsweredAt(r, l, v)'
               PROVE  row'[l] # None /\ v <= row'[l].version
    BY NextWrites DEF AnswerInv, AnswersExist
  <1>1. WriteInv
    BY DEF AnswerInv
  <1>2. CASE outcome[r] # None
    <2>1. AnsweredAt(r, l, v)
      BY <1>1, <1>2, AnswersStand DEF AnsweredAt
    <2>2. row[l] # None /\ v <= row[l].version
      BY <2>1 DEF AnswerInv, AnswersExist
    <2> QED
      BY <1>1, <2>2, RowStep
  <1>3. CASE outcome[r] = None
    <2>1. row'[l] # None /\ v = row'[l].version
      BY <1>1, <1>3, DecidedStep DEF AnsweredAt
    <2>2. row'[l].version \in Nat
      BY <1>1, <2>1, NextInv DEF WriteInv, IInv, TypeOK, Row
    <2> QED
      BY <2>1, <2>2
  <1> QED
    BY <1>2, <1>3

LEMMA AnswerInvariance == Safety => []AnswerInv
  <1>1. Init => AnswersExist
    BY DEF Init, AnswersExist, AnsweredAt
  <1> QED
    BY <1>1, InitWrites, NextAnswers, PTL DEF Safety, AnswerInv

(* Answers are ordered as the requests they are given to: whichever of the *)
(* servers answers, no answer names a version older than one that an       *)
(* earlier answer named.                                                   *)
THEOREM AnswersAreOrdered == Safety => AnswersGoForward
  <1>1. ASSUME AnswerInv, [Next]_vars, NEW r \in Request, NEW q \in Request,
               NEW l \in List, NEW v \in Nat, NEW w \in Nat,
               AnsweredAt(q, l, v), outcome[r] = None, AnsweredAt(r, l, w)'
        PROVE  v <= w /\ (outcome'[r].code = "changed" => v < w)
    <2>1. row[l] # None /\ v <= row[l].version
      BY <1>1 DEF AnswerInv, AnswersExist
    <2>2. row[l].version \in Nat /\ row[l].version <= row'[l].version
      BY <1>1, <2>1, RowStep DEF AnswerInv
    <2>3. /\ w = row'[l].version
          /\ outcome'[r].code = "changed" =>
               row'[l].version = row[l].version + 1
      BY <1>1, DecidedStep DEF AnswerInv, AnsweredAt
    <2> QED
      BY <2>1, <2>2, <2>3
  <1>2. AnswerInv /\ [Next]_vars => AnswersInOrder
    BY <1>1 DEF AnswersInOrder
  <1> QED
    BY <1>2, AnswerInvariance, PTL DEF Safety, AnswersGoForward

(* What a client holds never goes back, and what it is served shows the    *)
(* effect of every request answered before.                                *)
THEOREM ReadsAreOrdered == Safety => ReadsGoForward
  <1>1. ASSUME AnswerInv, VersionNamesCredential, [Next]_vars,
               NEW c \in Client, NEW l \in List, copy[<<c, l>>] # None
        PROVE  /\ copy'[<<c, l>>] # None
               /\ copy[<<c, l>>].version <= copy'[<<c, l>>].version
    <2>1. /\ copy[<<c, l>>].version \in Nat
          /\ copy[<<c, l>>].version <= row[l].version
      BY <1>1 DEF VersionNamesCredential, AnswerInv, WriteInv, IInv, TypeOK, Copy
    <2> QED
      BY <1>1, <2>1, CopyStep DEF AnswerInv
  <1>2. ASSUME AnswerInv, NEW c \in Client, NEW l \in List, GetList(c, l),
               NEW r \in Request, NEW v \in Nat, AnsweredAt(r, l, v)
        PROVE  v <= copy'[<<c, l>>].version
    <2>1. v <= row[l].version
      BY <1>2 DEF AnswerInv, AnswersExist
    <2> QED
      BY <1>2, <2>1, ServedCopy DEF AnswerInv
  <1>3. AnswerInv /\ VersionNamesCredential /\ [Next]_vars => ReadsInOrder
    BY <1>1, <1>2 DEF ReadsInOrder
  <1> QED
    BY <1>3, AnswerInvariance, EtagsAreStrong, PTL DEF Safety, ReadsGoForward

-----------------------------------------------------------------------------
(* How long a request can take, and how long it can keep a row from        *)
(* others.                                                                 *)

(* The steps a request can still take.                                     *)
StepsLeft(r) ==
  IF phase[r] = "reading" THEN 6
  ELSE IF phase[r] = "resolving" THEN 5
  ELSE IF phase[r] = "waiting" THEN 4
  ELSE IF phase[r] \in {"applying", "creating"} THEN 3
  ELSE IF phase[r] \in {"signing", "minting"} THEN 2
  ELSE IF phase[r] \in {"writing", "inserting"} THEN 1
  ELSE 0

(* Each step of a request leaves it fewer, and what other requests, the    *)
(* clients and crashes do never gives it more.                             *)
FewerSteps ==
  \A r \in Request :
     /\ Progress(r) \/ LockRow(r) \/ Fault(r) => StepsLeft(r)' < StepsLeft(r)
     /\ phase[r] # "idle" => StepsLeft(r)' <= StepsLeft(r)

StepsRunOut == [][FewerSteps]_vars

(* A list is locked only by a request that has something left to do, three *)
(* steps at most, none of which waits for a row: transactions neither      *)
(* leak nor deadlock (updateStatusList, storage-sql.ts).                   *)
LocksAreShort ==
  \A l \in List :
     lock[l] # None =>
       /\ StepsLeft(lock[l]) \in 1 .. 3
       /\ phase[lock[l]] # "waiting" /\ op[lock[l]].list = l
       /\ \A m \in List : lock[m] = lock[l] => m = l

(* A step of r, and one that leaves r alone or crashes it.                 *)
LEMMA OwnStep ==
  ASSUME TypeOK, NEW r \in Request, Progress(r) \/ LockRow(r) \/ Fault(r)
  PROVE  StepsLeft(r)' < StepsLeft(r)
  <1>1. \A to \in Phase :
          phase' = [phase EXCEPT ![r] = to] => phase'[r] = to
    BY DEF TypeOK
  <1>2. \/ phase[r] = "creating" /\ phase'[r] \in {"minting", "done"}
        \/ phase[r] = "minting" /\ phase'[r] \in {"inserting", "done"}
        \/ phase[r] = "reading" /\ phase'[r] \in {"resolving", "done"}
        \/ phase[r] = "resolving" /\ phase'[r] \in {"waiting", "done"}
        \/ phase[r] = "waiting" /\ phase'[r] \in {"applying", "done"}
        \/ phase[r] = "applying" /\ phase'[r] \in {"signing", "done"}
        \/ phase[r] = "signing" /\ phase'[r] \in {"writing", "done"}
        \/ phase[r] \in {"inserting", "writing"} /\ phase'[r] = "done"
    BY <1>1
       DEF Progress, LockRow, Fault, ResolveForCreate, MintList, InsertList,
           ReadList, ResolveInstance, ApplyStatus, SignUpdate, CommitUpdate,
           SigningFails, InsertUnacknowledged, CommitUnacknowledged,
           CommitWith, StorageFails, Answer, Goto, Phase
  <1> QED
    BY <1>2 DEF StepsLeft

LEMMA OthersStep ==
  ASSUME TypeOK, [Next]_vars, NEW r \in Request, phase[r] # "idle",
         ~(Progress(r) \/ LockRow(r) \/ Fault(r))
  PROVE  phase'[r] \in {phase[r], "lost"}
  <1>1. ASSUME NEW q \in Request, q # r,
               Submit(q) \/ Progress(q) \/ LockRow(q) \/ Fault(q)
        PROVE  phase'[r] = phase[r]
    BY <1>1
       DEF TypeOK, Submit, Progress, LockRow, Fault, ResolveForCreate,
           MintList, InsertList, ReadList, ResolveInstance, ApplyStatus,
           SignUpdate, CommitUpdate, SigningFails, InsertUnacknowledged,
           CommitUnacknowledged, CommitWith, StorageFails, Answer, Goto
  <1>2. ~Submit(r)
    BY DEF Submit
  <1>3. CASE \E s \in Server : Crash(s)
    BY <1>3 DEF Crash
  <1>4. CASE UNCHANGED vars \/ \E c \in Client, l \in List : GetList(c, l)
    BY <1>4 DEF vars, GetList
  <1> QED
    BY <1>1, <1>2, <1>3, <1>4 DEF Next

(* Every request is over after at most six steps of its own, whatever      *)
(* fails and whoever else is served.                                       *)
THEOREM RequestsRunOut == Safety => StepsRunOut
  <1>1. TypeOK /\ [Next]_vars => FewerSteps
    <2> SUFFICES ASSUME TypeOK, [Next]_vars, NEW r \in Request
                 PROVE  /\ Progress(r) \/ LockRow(r) \/ Fault(r) =>
                             StepsLeft(r)' < StepsLeft(r)
                        /\ phase[r] # "idle" => StepsLeft(r)' <= StepsLeft(r)
      BY DEF FewerSteps
    <2>1. StepsLeft(r) \in Nat /\ StepsLeft(r)' \in Nat
      BY DEF StepsLeft
    <2>2. ASSUME phase[r] # "idle",
                 ~(Progress(r) \/ LockRow(r) \/ Fault(r))
          PROVE  StepsLeft(r)' <= StepsLeft(r)
      <3>1. CASE phase'[r] = phase[r]
        BY <3>1 DEF StepsLeft
      <3>2. CASE phase'[r] = "lost"
        BY <3>2 DEF StepsLeft
      <3> QED
        BY <2>2, <3>1, <3>2, OthersStep
    <2> QED
      BY <2>1, <2>2, OwnStep
  <1> QED
    BY <1>1, TypeCorrect, PTL DEF Safety, StepsRunOut

(* A row is let go within three steps of the request that holds it, and no *)
(* request that holds one waits for another.                               *)
THEOREM LocksEnd == Safety => []LocksAreShort
  <1>1. TypeOK /\ RowLockHolds => LocksAreShort
    <2> SUFFICES ASSUME TypeOK, RowLockHolds, NEW l \in List, lock[l] # None
                 PROVE  /\ StepsLeft(lock[l]) \in 1 .. 3
                        /\ phase[lock[l]] # "waiting" /\ op[lock[l]].list = l
                        /\ \A m \in List : lock[m] = lock[l] => m = l
      BY DEF LocksAreShort
    <2>1. /\ phase[lock[l]] \in {"applying", "signing", "writing"}
          /\ op[lock[l]].list = l
          /\ \A m \in List : lock[m] = lock[l] => op[lock[m]].list = m
      BY DEF RowLockHolds, Holding
    <2>2. StepsLeft(lock[l]) \in 1 .. 3
      BY <2>1 DEF StepsLeft
    <2> QED
      BY <2>1, <2>2
  <1> QED
    BY <1>1, TypeCorrect, RowsAreExclusive, PTL
=============================================================================
