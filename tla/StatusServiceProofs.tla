------------------------ MODULE StatusServiceProofs ------------------------
(***************************************************************************)
(* What StatusService guarantees for any number of tenants, purposes,      *)
(* credentials, lists, indexes, requests, verifiers and versions.          *)
(*                                                                         *)
(* IInv is TypeOK, what a request has in each phase (SlotState), whose     *)
(* entries are whose (EntryState), that a bit nobody's entry has is the    *)
(* work of a selector (BitState), what callers, caches and verifiers know  *)
(* of versions (VersionState, FreshAfterAnswer), and StrandedOnlyByLoss.   *)
(* Lists and entries are for life, and versions grow: that is what makes a *)
(* lookup still right when it is used.                                     *)
(***************************************************************************)
EXTENDS StatusService, TLAPS

SlotFacts(s) ==
  /\ phase[s] = "free" <=> asked[s] = None
  /\ phase[s] = "answering" <=> told[s] # None
  /\ phase[s] = "setting" =>
       /\ target[s] \in Entry /\ owner[target[s].list] # None
       /\ asked[s] \in StatusRequest \cup SelectorRequest
       /\ asked[s].kind = "status" => entry[asked[s].claim] = target[s]
       /\ asked[s].kind = "selector" =>
            owner[target[s].list].scope = asked[s].scope
  /\ made[s] > 0 =>
       /\ phase[s] = "answering"
       /\ target[s] \in Entry /\ owner[target[s].list] # None
       /\ made[s] <= version[target[s].list]

SlotState == \A s \in Slot : SlotFacts(s)

EntryState ==
  /\ \A c \in Claim :
       entry[c] # None =>
         /\ owner[entry[c].list] # None
         /\ owner[entry[c].list].scope = ScopeOf(c)
  /\ \A c, d \in Claim : entry[c] # None /\ entry[c] = entry[d] => c = d

BitState ==
  \A l \in List : \A i \in bits[l] :
     Free(l, i) => owner[l] # None /\ owner[l].scope \in overridden

ListVersions(l) ==
  /\ owner[l] = None => version[l] = 0
  /\ acked[l] <= version[l]
  /\ acked[l] > 0 => owner[l] # None /\ ~owner[l].timed
  /\ cached[l] # 0 => owner[l] # None /\ owner[l].timed

CheckVersions(v) ==
  check[v] # None =>
    /\ owner[check[v].list] # None
    /\ check[v].floor <= version[check[v].list]
    /\ check[v].got # 0 => check[v].floor <= check[v].got

VersionState ==
  /\ \A l \in List : ListVersions(l)
  /\ \A v \in Verifier : CheckVersions(v)

IInv ==
  TypeOK /\ SlotState /\ EntryState /\ BitState /\ VersionState
    /\ FreshAfterAnswer /\ StrandedOnlyByLoss

-----------------------------------------------------------------------------
(* Data.                                                                   *)
LEMMA StatusOf ==
  ASSUME NEW code
  PROVE  /\ code \in {"allocated", "changed", "unchanged"} =>
              HttpStatus(code) = 200
         /\ code \in {"bad-request", "list-purpose-mismatch"} =>
              HttpStatus(code) = 400
         /\ code \in {"list-not-found", "credential-not-allocated"} =>
              HttpStatus(code) = 404
         /\ code \in {"list-exhausted", "credential-already-allocated"} =>
              HttpStatus(code) = 409
         /\ code \in {"issuer-instance-unavailable", "unknown"} =>
              HttpStatus(code) = 500
         /\ code = "signing-rejected" => HttpStatus(code) = 502
         /\ code = "signing-unavailable" => HttpStatus(code) = 503
  <1>1. ASSUME code \in {"allocated", "changed", "unchanged"}
        PROVE  HttpStatus(code) = 200
    <2>1. /\ code \in Success /\ code # "created" /\ code \notin BadRequest
          /\ code \notin NotFound /\ code \notin Conflict
          /\ code # "signing-rejected" /\ code \notin Unavailable
      BY <1>1 DEF Success, BadRequest, NotFound, Conflict, Unavailable
    <2> QED
      BY <2>1 DEF HttpStatus
  <1>2. ASSUME code \in {"bad-request", "list-purpose-mismatch"}
        PROVE  HttpStatus(code) = 400
    <2>1. /\ code \notin Success /\ code # "created" /\ code \in BadRequest
          /\ code \notin NotFound /\ code \notin Conflict
          /\ code # "signing-rejected" /\ code \notin Unavailable
      BY <1>2 DEF Success, BadRequest, NotFound, Conflict, Unavailable
    <2> QED
      BY <2>1 DEF HttpStatus
  <1>3. ASSUME code \in {"list-not-found", "credential-not-allocated"}
        PROVE  HttpStatus(code) = 404
    <2>1. /\ code \notin Success /\ code # "created" /\ code \notin BadRequest
          /\ code \in NotFound /\ code \notin Conflict
          /\ code # "signing-rejected" /\ code \notin Unavailable
      BY <1>3 DEF Success, BadRequest, NotFound, Conflict, Unavailable
    <2> QED
      BY <2>1 DEF HttpStatus
  <1>4. ASSUME code \in {"list-exhausted", "credential-already-allocated"}
        PROVE  HttpStatus(code) = 409
    <2>1. /\ code \notin Success /\ code # "created" /\ code \notin BadRequest
          /\ code \notin NotFound /\ code \in Conflict
          /\ code # "signing-rejected" /\ code \notin Unavailable
      BY <1>4 DEF Success, BadRequest, NotFound, Conflict, Unavailable
    <2> QED
      BY <2>1 DEF HttpStatus
  <1>5. ASSUME code \in {"issuer-instance-unavailable", "unknown"}
        PROVE  HttpStatus(code) = 500
    <2>1. /\ code \notin Success /\ code # "created" /\ code \notin BadRequest
          /\ code \notin NotFound /\ code \notin Conflict
          /\ code # "signing-rejected" /\ code \notin Unavailable
      BY <1>5 DEF Success, BadRequest, NotFound, Conflict, Unavailable
    <2> QED
      BY <2>1 DEF HttpStatus
  <1>6. ASSUME code = "signing-rejected" PROVE HttpStatus(code) = 502
    <2>1. /\ code \notin Success /\ code # "created" /\ code \notin BadRequest
          /\ code \notin NotFound /\ code \notin Conflict
          /\ code = "signing-rejected" /\ code \notin Unavailable
      BY <1>6 DEF Success, BadRequest, NotFound, Conflict, Unavailable
    <2> QED
      BY <2>1 DEF HttpStatus
  <1>7. ASSUME code = "signing-unavailable" PROVE HttpStatus(code) = 503
    <2>1. /\ code \notin Success /\ code # "created" /\ code \notin BadRequest
          /\ code \notin NotFound /\ code \notin Conflict
          /\ code # "signing-rejected" /\ code \in Unavailable
      BY <1>7 DEF Success, BadRequest, NotFound, Conflict, Unavailable
    <2> QED
      BY <2>1 DEF HttpStatus
  <1> QED
    BY <1>1, <1>2, <1>3, <1>4, <1>5, <1>6, <1>7

(* The outcomes a handler of this module can have.                         *)
Outcomes ==
  {"allocated", "changed", "unchanged", "bad-request", "list-purpose-mismatch",
   "list-not-found", "credential-not-allocated", "list-exhausted",
   "credential-already-allocated", "issuer-instance-unavailable", "unknown",
   "signing-rejected", "signing-unavailable"}

LEMMA StatusType ==
  ASSUME NEW code \in Outcomes
  PROVE  HttpStatus(code) \in Statuses /\ HttpStatus(code) # None
  <1>1. code \in Codes
    BY DEF Outcomes, Codes, BadRequest, NotFound, Conflict, ServerError,
           Success, Unavailable
  <1> QED
    BY <1>1, NoneAssumption DEF Statuses

LEMMA RequestFacts ==
  ASSUME NEW a \in Request
  PROVE  /\ a.kind \in {"allocate", "status", "selector"}
         /\ a.kind = "allocate" => a \in AllocateRequest
         /\ a.kind = "status" => a \in StatusRequest
         /\ a.kind = "selector" => a \in SelectorRequest
  BY DEF Request, AllocateRequest, StatusRequest, SelectorRequest

LEMMA RequestFields ==
  /\ \A a \in AllocateRequest :
       a.claim \in Claim /\ a = [kind |-> "allocate", claim |-> a.claim]
  /\ \A a \in StatusRequest : a.claim \in Claim /\ a.status \in BOOLEAN
  /\ \A a \in SelectorRequest :
       /\ a.scope \in Scope /\ a.entry \in Entry /\ a.status \in BOOLEAN
       /\ a.entry.list \in List /\ a.entry.index \in Index
  BY DEF AllocateRequest, StatusRequest, SelectorRequest, Entry

-----------------------------------------------------------------------------
(* Types.                                                                  *)
LEMMA VersionType ==
  /\ 0 \in Version /\ 1 \in Version /\ \A v \in Version : v \in Nat
  /\ \A v \in Version : v < MaxVersion => v + 1 \in Version
  BY MaxVersionAssumption DEF Version

LEMMA RespondType ==
  ASSUME TypeOK, NEW s \in Slot, NEW code \in Outcomes, NEW v \in Version,
         Respond(s, code, v)
  PROVE  /\ phase' \in [Slot -> {"free", "looking", "setting", "answering"}]
         /\ \A t \in Slot : phase'[t] = "setting" => phase[t] = "setting"
         /\ told' \in [Slot -> Statuses \cup {None}]
         /\ made' \in [Slot -> Version]
         /\ phase'[s] = "answering" /\ told'[s] = HttpStatus(code)
         /\ told'[s] \in Statuses /\ told'[s] # None /\ made'[s] = v
  <1>1. HttpStatus(code) \in Statuses /\ HttpStatus(code) # None
    BY StatusType
  <1> QED
    BY <1>1 DEF Respond, TypeOK

LEMMA CloseType ==
  ASSUME TypeOK, NEW s \in Slot, Close(s)
  PROVE  /\ phase' \in [Slot -> {"free", "looking", "setting", "answering"}]
         /\ \A t \in Slot :
              phase'[t] = "setting" => target'[t] # None
         /\ told' \in [Slot -> Statuses \cup {None}]
         /\ made' \in [Slot -> Version]
         /\ asked' \in [Slot -> Request \cup {None}]
         /\ target' \in [Slot -> Entry \cup {None}]
  BY VersionType DEF Close, TypeOK

(* The insert of an allocation.                                            *)
LEMMA AllocateStep ==
  ASSUME IInv, NEW s \in Slot, Allocate(s)
  PROVE  /\ asked[s] \in AllocateRequest /\ asked[s].claim \in Claim
         /\ entry[asked[s].claim] = None
         /\ \E e \in Entry :
              /\ entry' = [entry EXCEPT ![asked[s].claim] = e]
              /\ e.list \in List /\ e.index \in Index
              /\ owner[e.list] # None
              /\ owner[e.list].scope = ScopeOf(asked[s].claim)
              /\ Free(e.list, e.index)
  <1>1. asked[s] # None
    BY DEF Allocate, IInv, SlotState, SlotFacts
  <1>2. asked[s] \in AllocateRequest
    BY <1>1, RequestFacts DEF Allocate, IInv, TypeOK
  <1>3. PICK l \in List, i \in Index :
          /\ owner[l] # None /\ owner[l].scope = ScopeOf(asked[s].claim)
          /\ Free(l, i)
          /\ entry' = [entry EXCEPT ![asked[s].claim]
                          = [list |-> l, index |-> i]]
    BY DEF Allocate
  <1>4. [list |-> l, index |-> i] \in Entry
    BY DEF Entry
  <1> QED
    BY <1>2, <1>3, <1>4, RequestFields DEF Allocate

LEMMA StoreTypes ==
  ASSUME IInv, NEW s \in Slot, NEW l \in List,
         CreateList(l) \/ Allocate(s) \/ SetStatus(s)
  PROVE  TypeOK'
  <1> USE DEF IInv
  <1>1. CASE CreateList(l)
    BY <1>1, VersionType
       DEF CreateList, handlers, issuers, readers, TypeOK
  <1>2. CASE Allocate(s)
    <2>2. PICK code \in Outcomes : Respond(s, code, 0)
      BY <1>2 DEF Allocate, Outcomes
    <2>3. entry' \in [Claim -> Entry \cup {None}]
      BY <1>2, AllocateStep DEF TypeOK
    <2>4. accounted' \subseteq Claim
      <3>1. asked[s].claim \in Claim
        BY <1>2, AllocateStep
      <3>2. accounted' = accounted \/ accounted' = accounted \cup {asked[s].claim}
        BY <1>2 DEF Allocate
      <3> QED
        BY <3>1, <3>2 DEF TypeOK
    <2> QED
      BY <1>2, <2>2, <2>3, <2>4, RespondType, VersionType
         DEF Allocate, readers, TypeOK
  <1>3. CASE SetStatus(s)
    <2>1. /\ target[s] \in Entry /\ target[s].list \in List
          /\ target[s].index \in Index /\ asked[s] \in Request
      BY <1>3 DEF SetStatus, SlotState, SlotFacts, Entry, Request
    <2>2. version[target[s].list] + 1 \in Version
      BY <1>3, <2>1, VersionType DEF SetStatus, TypeOK
    <2>3. PICK code \in Outcomes, v \in Version : Respond(s, code, v)
      BY <1>3, <2>2, VersionType DEF SetStatus, Outcomes
    <2>4. bits' \in [List -> SUBSET Index]
      BY <1>3, <2>1 DEF SetStatus, Flipped, TypeOK
    <2>5. version' \in [List -> Version]
      BY <1>3, <2>1, <2>2 DEF SetStatus, TypeOK
    <2>6. overridden' \subseteq Scope
      <3>1. CASE asked[s].kind = "selector"
        BY <1>3, <2>1, <3>1, RequestFacts, RequestFields
           DEF SetStatus, OverrideBy, TypeOK
      <3>2. CASE asked[s].kind # "selector"
        BY <1>3, <3>2 DEF SetStatus, OverrideBy, TypeOK
      <3> QED
        BY <3>1, <3>2
    <2> QED
      BY <1>3, <2>3, <2>4, <2>5, <2>6, RespondType
         DEF SetStatus, readers, TypeOK
  <1> QED
    BY <1>1, <1>2, <1>3

LEMMA HandlerTypes ==
  ASSUME IInv, NEW s \in Slot,
         \/ Submit(s) \/ RefuseAllocation(s) \/ LookupEntry(s)
         \/ SelectEntry(s) \/ KeepStatus(s) \/ RefuseStatus(s)
  PROVE  TypeOK'
  <1> USE DEF IInv
  <1>1. CASE Submit(s)
    BY <1>1 DEF Submit, store, issuers, readers, TypeOK
  <1>2. CASE RefuseAllocation(s)
    <2>1. PICK code \in Outcomes : Respond(s, code, 0)
      BY <1>2 DEF RefuseAllocation, Outcomes
    <2> QED
      BY <1>2, <2>1, RespondType, VersionType
         DEF RefuseAllocation, store, issuers, readers, TypeOK
  <1>3. CASE LookupEntry(s)
    <2>1. CASE entry[asked[s].claim] = None
      <3>1. Respond(s, "credential-not-allocated", 0) /\ UNCHANGED target
        BY <1>3, <2>1 DEF LookupEntry
      <3>2. "credential-not-allocated" \in Outcomes
        BY DEF Outcomes
      <3> QED
        BY <1>3, <3>1, <3>2, RespondType, VersionType
           DEF LookupEntry, store, issuers, readers, TypeOK
    <2>2. CASE entry[asked[s].claim] # None
      <3>1. asked[s] # None
        BY <1>3 DEF LookupEntry, SlotState, SlotFacts
      <3>2. asked[s].claim \in Claim
        BY <1>3, <3>1, RequestFacts, RequestFields DEF LookupEntry, TypeOK
      <3>3. entry[asked[s].claim] \in Entry
        BY <2>2, <3>2 DEF TypeOK
      <3> QED
        BY <1>3, <2>2, <3>3
           DEF LookupEntry, store, issuers, readers, TypeOK
    <2> QED
      BY <2>1, <2>2
  <1>4. CASE SelectEntry(s)
    <2>1. CASE \E code \in {"list-not-found", "bad-request"} :
                 Respond(s, code, 0) /\ UNCHANGED target
      <3>1. PICK code \in Outcomes : Respond(s, code, 0) /\ UNCHANGED target
        BY <2>1 DEF Outcomes
      <3> QED
        BY <1>4, <3>1, RespondType, VersionType
           DEF SelectEntry, store, issuers, readers, TypeOK
    <2>2. CASE /\ target' = [target EXCEPT ![s] = asked[s].entry]
               /\ phase' = [phase EXCEPT ![s] = "setting"]
               /\ UNCHANGED <<told, made>>
      <3>1. asked[s] # None
        BY <1>4 DEF SelectEntry, SlotState, SlotFacts
      <3>2. asked[s].entry \in Entry
        BY <1>4, <3>1, RequestFacts, RequestFields DEF SelectEntry, TypeOK
      <3> QED
        BY <1>4, <2>2, <3>2, NoneAssumption
           DEF SelectEntry, store, issuers, readers, TypeOK
    <2> QED
      BY <1>4, <2>1, <2>2 DEF SelectEntry
  <1>5. CASE KeepStatus(s)
    <2>1. target[s].list \in List
      BY <1>5 DEF KeepStatus, SlotState, SlotFacts, Entry
    <2>2. version[target[s].list] \in Version /\ "unchanged" \in Outcomes
      BY <2>1 DEF TypeOK, Outcomes
    <2>3. Respond(s, "unchanged", version[target[s].list])
      BY <1>5 DEF KeepStatus
    <2> QED
      BY <1>5, <2>2, <2>3, RespondType
         DEF KeepStatus, store, issuers, readers, TypeOK
  <1>6. CASE RefuseStatus(s)
    <2>1. PICK code \in Outcomes : Respond(s, code, 0)
      BY <1>6 DEF RefuseStatus, Outcomes
    <2> QED
      BY <1>6, <2>1, RespondType, VersionType
         DEF RefuseStatus, store, issuers, readers, TypeOK
  <1> QED
    BY <1>1, <1>2, <1>3, <1>4, <1>5, <1>6

LEMMA CloseTypes ==
  ASSUME IInv, NEW s \in Slot, Answer(s) \/ LoseAnswer(s)
  PROVE  TypeOK'
  <1> USE DEF IInv
  <1>1. Close(s) /\ Account(s) /\ UNCHANGED <<store, overridden, readers>>
    BY DEF Answer, LoseAnswer
  <1>2. asked[s] \in Request
    BY <1>1 DEF Close, SlotState, SlotFacts, TypeOK
  <1>3. accounted' \subseteq Claim
    BY <1>1, <1>2, RequestFacts, RequestFields DEF Account, TypeOK
  <1>4. acked' \in [List -> Version]
    BY DEF Answer, LoseAnswer, TypeOK
  <1> QED
    BY <1>1, <1>3, <1>4, CloseType DEF store, readers, TypeOK

LEMMA ReaderTypes ==
  ASSUME IInv, NEW v \in Verifier, NEW l \in List,
         BeginCheck(v, l) \/ ReadOrigin(v) \/ Deliver(v) \/ Expire(l)
  PROVE  TypeOK'
  <1> USE DEF IInv
  <1>1. CASE BeginCheck(v, l)
    BY <1>1, VersionType DEF BeginCheck, store, handlers, issuers, TypeOK, Check
  <1>2. CASE ReadOrigin(v)
    BY <1>2 DEF ReadOrigin, store, handlers, issuers, TypeOK, Check
  <1>3. CASE Deliver(v)
    BY <1>3, VersionType DEF Deliver, store, handlers, issuers, TypeOK, Check
  <1>4. CASE Expire(l)
    BY <1>4, VersionType DEF Expire, store, handlers, issuers, TypeOK
  <1> QED
    BY <1>1, <1>2, <1>3, <1>4

-----------------------------------------------------------------------------
(* Growth: lists and entries are for life, and versions grow.              *)
StoreGrows ==
  /\ \A l \in List : owner[l] # None => owner'[l] = owner[l]
  /\ \A l \in List : version[l] <= version'[l]
  /\ \A c \in Claim : entry[c] # None => entry'[c] = entry[c]

LEMMA SetStep ==
  ASSUME IInv, NEW s \in Slot, phase[s] = "setting"
  PROVE  /\ target[s] \in Entry
         /\ target[s].list \in List /\ target[s].index \in Index
         /\ owner[target[s].list] # None
         /\ asked[s] \in StatusRequest \cup SelectorRequest
  BY DEF IInv, SlotState, SlotFacts, Entry

LEMMA Growth ==
  ASSUME IInv, [Next]_vars
  PROVE  StoreGrows
  <1>0. \A l \in List : version[l] \in Nat
    BY VersionType DEF IInv, TypeOK
  <1>1. ASSUME UNCHANGED store PROVE StoreGrows
    BY <1>0, <1>1 DEF store, StoreGrows
  <1>2. ASSUME NEW l \in List, CreateList(l) PROVE StoreGrows
    <2>1. version[l] = 0
      BY <1>2 DEF CreateList, IInv, VersionState, ListVersions
    <2>2. \A k \in List : version[k] <= version'[k]
      BY <1>0, <1>2, <2>1 DEF CreateList, IInv, TypeOK
    <2>3. \A k \in List : owner[k] # None => owner'[k] = owner[k]
      BY <1>2 DEF CreateList, IInv, TypeOK
    <2> QED
      BY <1>2, <2>2, <2>3 DEF CreateList, StoreGrows
  <1>3. ASSUME NEW s \in Slot, Allocate(s) PROVE StoreGrows
    <2>1. \A c \in Claim : entry[c] # None => entry'[c] = entry[c]
      BY <1>3, AllocateStep DEF IInv, TypeOK
    <2> QED
      BY <1>0, <1>3, <2>1 DEF Allocate, StoreGrows
  <1>4. ASSUME NEW s \in Slot, SetStatus(s) PROVE StoreGrows
    <2>1. \A l \in List : version[l] <= version'[l]
      BY <1>0, <1>4 DEF SetStatus, IInv, TypeOK
    <2> QED
      BY <1>4, <2>1 DEF SetStatus, StoreGrows
  <1>5. ASSUME NEW s \in Slot, Handle(s) PROVE StoreGrows
    <2>1. \/ Allocate(s) \/ SetStatus(s) \/ UNCHANGED store
      BY <1>5 DEF Handle, Submit, RefuseAllocation, LookupEntry, SelectEntry,
                  KeepStatus, RefuseStatus, Answer, LoseAnswer
    <2> QED
      BY <1>1, <1>3, <1>4, <2>1
  <1>6. ASSUME NEW v \in Verifier, NEW l \in List,
               BeginCheck(v, l) \/ ReadOrigin(v) \/ Deliver(v) \/ Expire(l)
        PROVE  UNCHANGED store
    BY <1>6 DEF BeginCheck, ReadOrigin, Deliver, Expire
  <1>7. \/ \E s \in Slot : Handle(s)
        \/ \E l \in List : CreateList(l)
        \/ UNCHANGED store
    BY <1>6 DEF Next, vars, ReadOrigin, Deliver, Expire
  <1> QED
    BY <1>1, <1>2, <1>5, <1>7

-----------------------------------------------------------------------------
(* SlotState                                                               *)

SlotUnchanged(t) ==
  /\ asked'[t] = asked[t] /\ phase'[t] = phase[t] /\ target'[t] = target[t]
  /\ told'[t] = told[t] /\ made'[t] = made[t]

(* A request that does not move keeps its facts.                           *)
LEMMA SlotKept ==
  ASSUME IInv, TypeOK', StoreGrows, NEW t \in Slot, SlotUnchanged(t)
  PROVE  SlotFacts(t)'
  <1> USE DEF SlotUnchanged
  <1>1. SlotFacts(t)
    BY DEF IInv, SlotState
  <1>2. /\ phase'[t] = "free" <=> asked'[t] = None
        /\ phase'[t] = "answering" <=> told'[t] # None
    BY <1>1 DEF SlotFacts
  <1>3. ASSUME phase[t] = "setting"
        PROVE  /\ target[t] \in Entry /\ owner'[target[t].list] # None
               /\ asked[t] \in StatusRequest \cup SelectorRequest
               /\ asked[t].kind = "status" => entry'[asked[t].claim] = target[t]
               /\ asked[t].kind = "selector" =>
                    owner'[target[t].list].scope = asked[t].scope
    <2>1. /\ target[t] \in Entry /\ target[t].list \in List
          /\ owner'[target[t].list] = owner[target[t].list]
          /\ owner[target[t].list] # None
      BY <1>3, SetStep DEF StoreGrows
    <2>2. ASSUME asked[t].kind = "status" PROVE entry'[asked[t].claim] = target[t]
      <3>1. asked[t] \in Request
        BY <1>3, SetStep DEF Request
      <3>2. asked[t].claim \in Claim
        BY <2>2, <3>1, RequestFacts, RequestFields
      <3>3. entry[asked[t].claim] = target[t] /\ target[t] # None
        BY <1>1, <1>3, <2>1, <2>2, NoneAssumption DEF SlotFacts
      <3> QED
        BY <3>2, <3>3 DEF StoreGrows
    <2> QED
      BY <1>1, <1>3, <2>1, <2>2 DEF SlotFacts
  <1>4. ASSUME made[t] > 0
        PROVE  /\ phase[t] = "answering"
               /\ target[t] \in Entry /\ owner'[target[t].list] # None
               /\ made[t] <= version'[target[t].list]
    <2>1. /\ phase[t] = "answering"
          /\ target[t] \in Entry /\ owner[target[t].list] # None
          /\ made[t] <= version[target[t].list]
      BY <1>1, <1>4 DEF SlotFacts
    <2>2. target[t].list \in List
      BY <2>1 DEF Entry
    <2>3. /\ made[t] \in Nat /\ version[target[t].list] \in Nat
          /\ version'[target[t].list] \in Nat
      BY <2>2, VersionType DEF IInv, TypeOK
    <2> QED
      BY <2>1, <2>2, <2>3 DEF StoreGrows
  <1> QED
    BY <1>2, <1>3, <1>4 DEF SlotFacts

(* A request that has its result.                                          *)
LEMMA Responded ==
  ASSUME IInv, NEW s \in Slot, NEW code \in Outcomes, NEW v \in Version,
         Respond(s, code, v), asked' = asked, phase[s] # "free",
         v > 0 => /\ target'[s] \in Entry /\ owner'[target'[s].list] # None
                  /\ v <= version'[target'[s].list]
  PROVE  SlotFacts(s)'
  <1>1. /\ phase'[s] = "answering" /\ told'[s] # None /\ made'[s] = v
    BY RespondType DEF IInv
  <1>2. asked'[s] # None
    BY DEF IInv, SlotState, SlotFacts
  <1> QED
    BY <1>1, <1>2 DEF SlotFacts

(* Of the requests only the one whose step it is moves.                    *)
LEMMA HandleIsLocal ==
  ASSUME IInv, NEW s \in Slot, Handle(s), NEW t \in Slot, t # s
  PROVE  SlotUnchanged(t)
  BY DEF Handle, Submit, Allocate, RefuseAllocation, LookupEntry, SelectEntry,
         SetStatus, KeepStatus, RefuseStatus, Answer, LoseAnswer, Close,
         Respond, IInv, TypeOK, SlotUnchanged

(* Before it has a result it has none.                                     *)
LEMMA Unanswered ==
  ASSUME IInv, NEW s \in Slot, phase[s] # "answering"
  PROVE  told[s] = None /\ made[s] = 0
  <1>1. SlotFacts(s) /\ made[s] \in Nat
    BY VersionType DEF IInv, SlotState, TypeOK
  <1>2. ~(made[s] > 0)
    BY <1>1 DEF SlotFacts
  <1> QED
    BY <1>1, <1>2 DEF SlotFacts

LEMMA SlotMoves ==
  ASSUME IInv, NEW s \in Slot, Handle(s), TypeOK', StoreGrows
  PROVE  SlotFacts(s)'
  <1>0. SlotFacts(s)
    BY DEF IInv, SlotState
  <1>a. \A code \in Outcomes :
          Respond(s, code, 0) /\ asked' = asked /\ phase[s] # "free"
            => SlotFacts(s)'
    BY Responded, VersionType
  <1>1. CASE Submit(s)
    <2>1. PICK a \in Request : asked' = [asked EXCEPT ![s] = a]
      BY <1>1 DEF Submit
    <2>2. /\ asked'[s] # None /\ phase'[s] = "looking"
          /\ told'[s] = told[s] /\ made'[s] = made[s]
      BY <1>1, <2>1, NoneAssumption DEF Submit, IInv, TypeOK
    <2>3. told[s] = None /\ made[s] = 0
      BY <1>1, Unanswered DEF Submit
    <2> QED
      BY <2>2, <2>3 DEF SlotFacts
  <1>2. CASE Allocate(s)
    BY <1>2, <1>a DEF Allocate, Outcomes
  <1>3. CASE RefuseAllocation(s)
    BY <1>3, <1>a DEF RefuseAllocation, Outcomes
  <1>4. CASE LookupEntry(s)
    <2>1. asked[s] \in StatusRequest /\ asked[s].claim \in Claim
      BY <1>0, <1>4, RequestFacts, RequestFields
         DEF LookupEntry, SlotFacts, IInv, TypeOK
    <2>2. CASE entry[asked[s].claim] = None
      BY <1>4, <1>a, <2>2 DEF LookupEntry, Outcomes
    <2>3. CASE entry[asked[s].claim] # None
      <3> DEFINE e == entry[asked[s].claim]
      <3>1. /\ e \in Entry /\ owner[e.list] # None /\ e.list \in List
        BY <2>1, <2>3 DEF IInv, TypeOK, EntryState, Entry
      <3>2. /\ asked' = asked /\ entry' = entry /\ owner' = owner
            /\ phase'[s] = "setting" /\ target'[s] = e
            /\ told'[s] = told[s] /\ made'[s] = made[s]
        BY <1>4, <2>3 DEF LookupEntry, store, IInv, TypeOK
      <3>3. told[s] = None /\ made[s] = 0 /\ asked[s] # None
        BY <1>0, <1>4, Unanswered DEF LookupEntry, SlotFacts
      <3>4. asked[s].kind = "status"
        BY <1>4 DEF LookupEntry
      <3> QED
        BY <2>1, <3>1, <3>2, <3>3, <3>4 DEF SlotFacts
    <2> QED
      BY <2>2, <2>3
  <1>5. CASE SelectEntry(s)
    <2>1. /\ asked[s] \in SelectorRequest /\ asked[s].entry \in Entry
          /\ asked[s].kind = "selector"
      <3>1. asked[s] # None /\ asked[s].kind = "selector"
        BY <1>0, <1>5 DEF SelectEntry, SlotFacts
      <3>2. asked[s] \in Request
        BY <3>1 DEF IInv, TypeOK
      <3> QED
        BY <3>1, <3>2, RequestFacts, RequestFields
    <2>2. CASE \E code \in {"list-not-found", "bad-request"} :
                 Respond(s, code, 0)
      BY <1>5, <1>a, <2>2 DEF SelectEntry, Outcomes
    <2>3. CASE /\ owner[asked[s].entry.list] # None
               /\ owner[asked[s].entry.list].scope = asked[s].scope
               /\ target' = [target EXCEPT ![s] = asked[s].entry]
               /\ phase' = [phase EXCEPT ![s] = "setting"]
               /\ UNCHANGED <<told, made>>
      <3>1. /\ asked' = asked /\ entry' = entry /\ owner' = owner
            /\ phase'[s] = "setting" /\ target'[s] = asked[s].entry
            /\ told'[s] = told[s] /\ made'[s] = made[s]
        BY <1>5, <2>3 DEF SelectEntry, store, IInv, TypeOK
      <3>2. told[s] = None /\ made[s] = 0 /\ asked[s] # None
        BY <1>0, <1>5, Unanswered DEF SelectEntry, SlotFacts
      <3> QED
        BY <2>1, <2>3, <3>1, <3>2 DEF SlotFacts
    <2> QED
      BY <1>5, <2>2, <2>3 DEF SelectEntry
  <1>6. CASE SetStatus(s)
    <2>1. /\ target[s] \in Entry /\ target[s].list \in List
          /\ owner[target[s].list] # None
      BY <1>6, SetStep DEF SetStatus
    <2>2. version[target[s].list] + 1 \in Version
      BY <1>6, <2>1, VersionType DEF SetStatus, IInv, TypeOK
    <2>3. /\ target' = target /\ owner' = owner /\ asked' = asked
          /\ version'[target[s].list] = version[target[s].list] + 1
      BY <1>6, <2>1 DEF SetStatus, IInv, TypeOK
    <2>4. PICK code \in Outcomes, v \in {0, version[target[s].list] + 1} :
            Respond(s, code, v)
      BY <1>6 DEF SetStatus, Outcomes
    <2>5. v \in Version /\ v <= version'[target[s].list]
      <3>1. /\ version[target[s].list] + 1 \in Nat
            /\ v = 0 \/ v = version[target[s].list] + 1
        BY <2>2, <2>4, VersionType
      <3> QED
        BY <2>2, <2>3, <3>1, VersionType
    <2> QED
      BY <1>6, <2>1, <2>3, <2>4, <2>5, Responded DEF SetStatus
  <1>7. CASE KeepStatus(s)
    <2>1. /\ target[s] \in Entry /\ target[s].list \in List
          /\ owner[target[s].list] # None
      BY <1>7, SetStep DEF KeepStatus
    <2>2. version[target[s].list] \in Version /\ "unchanged" \in Outcomes
      BY <2>1 DEF IInv, TypeOK, Outcomes
    <2>3. /\ target' = target /\ owner' = owner /\ asked' = asked
          /\ version' = version
      BY <1>7 DEF KeepStatus, store
    <2>4. /\ version[target[s].list] \in Nat
          /\ version'[target[s].list] = version[target[s].list]
      BY <2>2, <2>3, VersionType
    <2> QED
      BY <1>7, <2>1, <2>2, <2>3, <2>4, Responded DEF KeepStatus
  <1>8. CASE RefuseStatus(s)
    BY <1>8, <1>a DEF RefuseStatus, Outcomes
  <1>9. CASE Answer(s) \/ LoseAnswer(s)
    <2>1. Close(s)
      BY <1>9 DEF Answer, LoseAnswer
    <2>2. /\ phase'[s] = "free" /\ asked'[s] = None
          /\ told'[s] = None /\ made'[s] = 0
      BY <2>1 DEF Close, IInv, TypeOK
    <2> QED
      BY <2>2 DEF SlotFacts
  <1> QED
    BY <1>1, <1>2, <1>3, <1>4, <1>5, <1>6, <1>7, <1>8, <1>9 DEF Handle

LEMMA SlotStateKept ==
  ASSUME IInv, [Next]_vars, TypeOK'
  PROVE  SlotState'
  <1>1. StoreGrows
    BY Growth
  <1>2. CASE \E s \in Slot : Handle(s)
    <2>1. PICK s \in Slot : Handle(s)
      BY <1>2
    <2>2. SlotFacts(s)'
      BY <1>1, <2>1, SlotMoves
    <2>3. \A t \in Slot : t # s => SlotFacts(t)'
      BY <1>1, <2>1, HandleIsLocal, SlotKept
    <2> QED
      BY <2>2, <2>3 DEF SlotState
  <1>3. CASE UNCHANGED handlers
    BY <1>1, <1>3, SlotKept DEF handlers, SlotUnchanged, SlotState
  <1>4. (\E s \in Slot : Handle(s)) \/ UNCHANGED handlers
    BY DEF Next, vars, CreateList, Expire, ReadOrigin, Deliver, BeginCheck
  <1> QED
    BY <1>2, <1>3, <1>4

-----------------------------------------------------------------------------
(* EntryState: only an allocation binds, and only a free entry of a list   *)
(* of the claim's own scope.                                               *)
LEMMA EntryStateKept ==
  ASSUME IInv, [Next]_vars, TypeOK'
  PROVE  EntryState'
  <1>1. StoreGrows
    BY Growth
  <1>2. \A c \in Claim :
          entry[c] # None =>
            /\ entry[c] \in Entry /\ entry[c].list \in List
            /\ owner[entry[c].list] # None
            /\ owner'[entry[c].list] = owner[entry[c].list]
            /\ owner[entry[c].list].scope = ScopeOf(c)
    BY <1>1 DEF IInv, EntryState, TypeOK, Entry, StoreGrows
  <1>3. CASE entry' = entry
    BY <1>2, <1>3 DEF IInv, EntryState
  <1>4. ASSUME NEW s \in Slot, Allocate(s) PROVE EntryState'
    <2> DEFINE c == asked[s].claim
    <2>1. PICK e \in Entry :
            /\ entry' = [entry EXCEPT ![asked[s].claim] = e]
            /\ e.list \in List /\ e.index \in Index
            /\ owner[e.list] # None
            /\ owner[e.list].scope = ScopeOf(asked[s].claim)
            /\ Free(e.list, e.index)
      BY <1>4, AllocateStep
    <2>2. c \in Claim /\ owner' = owner
      BY <1>4, AllocateStep DEF Allocate
    <2>3. e = [list |-> e.list, index |-> e.index]
      BY DEF Entry
    <2>4. \A d \in Claim : entry[d] # e
      BY <2>1, <2>3, NoneAssumption DEF Free
    <2>5. /\ entry'[c] = e /\ \A d \in Claim : d # c => entry'[d] = entry[d]
      BY <2>1, <2>2 DEF IInv, TypeOK
    <2> HIDE DEF c
    <2>6. \A d \in Claim :
            entry'[d] # None =>
              /\ owner'[entry'[d].list] # None
              /\ owner'[entry'[d].list].scope = ScopeOf(d)
      BY <1>2, <2>1, <2>2, <2>5 DEF c
    <2>7. \A d, f \in Claim : entry'[d] # None /\ entry'[d] = entry'[f] => d = f
      BY <2>4, <2>5 DEF IInv, EntryState
    <2> QED
      BY <2>6, <2>7 DEF EntryState, ScopeOf
  <1>5. entry' = entry \/ \E s \in Slot : Allocate(s)
    BY DEF Next, vars, CreateList, Expire, ReadOrigin, Deliver, BeginCheck,
           Handle, Submit, RefuseAllocation, LookupEntry, SelectEntry,
           SetStatus, KeepStatus, RefuseStatus, Answer, LoseAnswer, store
  <1> QED
    BY <1>3, <1>4, <1>5

-----------------------------------------------------------------------------
(* BitState: a status request sets the bit of an entry somebody has; when  *)
(* a selector sets another, its scope is overridden.                       *)
LEMMA BitStateKept ==
  ASSUME IInv, [Next]_vars, TypeOK'
  PROVE  BitState'
  <1>1. StoreGrows
    BY Growth
  <1>2. \A l \in List, i \in Index : Free(l, i)' => Free(l, i)
    BY <1>1 DEF Free, StoreGrows
  <1>3. \A l \in List : owner[l] # None => owner'[l] = owner[l]
    BY <1>1 DEF StoreGrows
  <1>4. \A l \in List : bits[l] \subseteq Index
    BY DEF IInv, TypeOK
  <1>5. CASE bits' = bits /\ overridden' = overridden
    BY <1>2, <1>3, <1>4, <1>5 DEF IInv, BitState
  <1>6. ASSUME NEW s \in Slot, SetStatus(s) PROVE BitState'
    <2> DEFINE l == target[s].list
               i == target[s].index
    <2>1. /\ target[s] \in Entry /\ l \in List /\ i \in Index
          /\ owner[l] # None /\ asked[s] \in StatusRequest \cup SelectorRequest
          /\ phase[s] = "setting"
      BY <1>6, SetStep DEF SetStatus
    <2>2. /\ owner' = owner /\ entry' = entry
          /\ bits' = [bits EXCEPT ![l] = Flipped(l, i, asked[s].status)]
          /\ overridden' = OverrideBy(s) /\ overridden \subseteq overridden'
      BY <1>6 DEF SetStatus, OverrideBy
    <2>3. ASSUME NEW k \in List, NEW j \in bits'[k], Free(k, j), j \notin bits[k]
          PROVE  owner[k].scope \in overridden'
      <3>1. k = l /\ j = i /\ asked[s].status
        BY <2>1, <2>2, <2>3 DEF Flipped, IInv, TypeOK
      <3>2. target[s] = [list |-> l, index |-> i]
        BY <2>1 DEF Entry
      <3>3. asked[s].kind # "status"
        <4> SUFFICES ASSUME asked[s].kind = "status" PROVE FALSE
          OBVIOUS
        <4>1. entry[asked[s].claim] = target[s]
          BY <2>1 DEF IInv, SlotState, SlotFacts
        <4>2. asked[s] \in StatusRequest
          BY <2>1, RequestFacts DEF Request
        <4>3. asked[s].claim \in Claim
          BY <4>2, RequestFields
        <4>4. target[s] # None
          BY <2>1, NoneAssumption
        <4> QED
          BY <2>3, <3>1, <3>2, <4>1, <4>3, <4>4 DEF Free
      <3>4. asked[s].kind = "selector" /\ owner[l].scope = asked[s].scope
        <4>1. asked[s].kind = "selector"
          BY <2>1, <3>3, RequestFacts DEF Request, StatusRequest, SelectorRequest
        <4> QED
          BY <2>1, <4>1 DEF IInv, SlotState, SlotFacts
      <3> QED
        BY <2>2, <2>3, <3>1, <3>4 DEF OverrideBy
    <2>4. ASSUME NEW k \in List, NEW j \in bits'[k], Free(k, j)
          PROVE  owner[k] # None /\ owner[k].scope \in overridden'
      <3>1. CASE j \in bits[k]
        BY <2>2, <2>4, <3>1 DEF IInv, BitState
      <3>2. CASE j \notin bits[k]
        <4>1. k = l
          BY <2>1, <2>2, <2>4, <3>2 DEF IInv, TypeOK
        <4> QED
          BY <2>1, <2>3, <2>4, <3>2, <4>1
      <3> QED
        BY <3>1, <3>2
    <2> QED
      BY <2>2, <2>4 DEF BitState, Free
  <1>7. (bits' = bits /\ overridden' = overridden) \/ \E s \in Slot : SetStatus(s)
    BY DEF Next, vars, CreateList, Expire, ReadOrigin, Deliver, BeginCheck,
           Handle, Submit, Allocate, RefuseAllocation, LookupEntry, SelectEntry,
           KeepStatus, RefuseStatus, Answer, LoseAnswer, store, issuers
  <1> QED
    BY <1>5, <1>6, <1>7

-----------------------------------------------------------------------------
(* VersionState and FreshAfterAnswer: what anybody knows of a version is   *)
(* no newer than the list, and only lists with a ttl are cached, of which  *)
(* no caller expects anything.                                             *)
LEMMA VersionsAreNumbers ==
  ASSUME TypeOK
  PROVE  /\ \A l \in List :
              version[l] \in Nat /\ acked[l] \in Nat /\ cached[l] \in Nat
         /\ \A s \in Slot : made[s] \in Nat
         /\ \A v \in Verifier :
              check[v] # None =>
                /\ check[v].list \in List
                /\ check[v].floor \in Nat /\ check[v].got \in Nat
  BY VersionType DEF TypeOK, Check

(* Growing versions do no harm.                                            *)
LEMMA ListVersionsKept ==
  ASSUME IInv, TypeOK', StoreGrows, NEW l \in List,
         acked'[l] = acked[l], cached'[l] = cached[l],
         owner'[l] = None => version'[l] = 0
  PROVE  ListVersions(l)'
  <1>1. ListVersions(l)
    BY DEF IInv, VersionState
  <1>2. /\ acked[l] \in Nat /\ version[l] \in Nat /\ version'[l] \in Nat
        /\ version[l] <= version'[l]
    BY VersionType DEF IInv, StoreGrows, TypeOK
  <1>3. acked'[l] <= version'[l]
    BY <1>1, <1>2 DEF ListVersions
  <1> QED
    BY <1>1, <1>3 DEF ListVersions, StoreGrows

LEMMA CheckVersionsKept ==
  ASSUME IInv, TypeOK', StoreGrows, NEW v \in Verifier, check'[v] = check[v]
  PROVE  CheckVersions(v)'
  <1> SUFFICES ASSUME check[v] # None PROVE CheckVersions(v)'
    BY DEF CheckVersions
  <1>1. CheckVersions(v)
    BY DEF IInv, VersionState
  <1>2. check[v].list \in List /\ check[v].floor \in Nat
    BY VersionsAreNumbers DEF IInv
  <1>3. /\ version[check[v].list] \in Nat /\ version'[check[v].list] \in Nat
        /\ version[check[v].list] <= version'[check[v].list]
        /\ owner'[check[v].list] = owner[check[v].list]
    BY <1>1, <1>2, VersionType DEF IInv, TypeOK, StoreGrows, CheckVersions
  <1>4. check[v].floor <= version'[check[v].list]
    BY <1>1, <1>2, <1>3 DEF CheckVersions
  <1> QED
    BY <1>1, <1>3, <1>4 DEF CheckVersions

LEMMA AnswerVersions ==
  ASSUME IInv, TypeOK', NEW s \in Slot, Answer(s)
  PROVE  VersionState' /\ FreshAfterAnswer'
  <1>1. StoreGrows
    BY Growth DEF Next, Handle
  <1>2. /\ owner' = owner /\ version' = version /\ cached' = cached
        /\ check' = check /\ misled' = misled
    BY DEF Answer, store, readers
  <1>3. \A v \in Verifier : CheckVersions(v)'
    BY <1>1, <1>2, CheckVersionsKept
  <1>4. CASE acked' = acked
    <2>1. \A l \in List : owner'[l] = None => version'[l] = 0
      BY <1>2 DEF IInv, VersionState, ListVersions
    <2> QED
      BY <1>1, <1>2, <1>3, <1>4, <2>1, ListVersionsKept
         DEF VersionState, FreshAfterAnswer, IInv
  <1>5. CASE /\ made[s] > 0 /\ ~owner[target[s].list].timed
             /\ acked' = [acked EXCEPT ![target[s].list] = made[s]]
    <2>0. PICK l \in List : l = target[s].list
      BY <1>5 DEF IInv, SlotState, SlotFacts, Entry
    <2>1. owner[l] # None /\ made[s] <= version[l] /\ ~owner[l].timed
      BY <1>5, <2>0 DEF IInv, SlotState, SlotFacts
    <2>2. acked'[l] = made[s] /\ \A k \in List : k # l => acked'[k] = acked[k]
      BY <1>5, <2>0 DEF IInv, TypeOK
    <2>3. \A k \in List : ListVersions(k)
      BY DEF IInv, VersionState
    <2>4. ListVersions(l)'
      BY <1>2, <2>1, <2>2, <2>3 DEF ListVersions
    <2>5. \A k \in List : k # l => ListVersions(k)'
      BY <1>2, <2>2, <2>3 DEF ListVersions
    <2> QED
      BY <1>2, <1>3, <2>4, <2>5 DEF VersionState, FreshAfterAnswer, IInv
  <1> QED
    BY <1>4, <1>5 DEF Answer

LEMMA ReaderVersions ==
  ASSUME IInv, TypeOK', NEW v \in Verifier, NEW l \in List,
         BeginCheck(v, l) \/ ReadOrigin(v) \/ Deliver(v)
  PROVE  VersionState' /\ FreshAfterAnswer'
  <1> USE VersionsAreNumbers
  <1>1. StoreGrows
    BY Growth DEF Next
  <1>2. owner' = owner /\ version' = version /\ acked' = acked
    BY DEF BeginCheck, ReadOrigin, Deliver, store, issuers
  <1>3. \A k \in List : owner'[k] = None => version'[k] = 0
    BY <1>2 DEF IInv, VersionState, ListVersions
  <1>4. \A k \in List : cached'[k] = cached[k] => ListVersions(k)'
    BY <1>1, <1>2, <1>3, ListVersionsKept
  <1>5. \A w \in Verifier : check'[w] = check[w] => CheckVersions(w)'
    BY <1>1, CheckVersionsKept
  <1>6. CASE BeginCheck(v, l)
    <2>1. cached' = cached
      BY <1>6 DEF BeginCheck
    <2>2. CASE cached[l] # 0
      <3>1. ListVersions(l) /\ cached[l] \in Nat /\ acked[l] \in Nat
        BY DEF IInv, VersionState
      <3>2. acked[l] = 0
        BY <2>2, <3>1 DEF ListVersions
      <3>3. ~(cached[l] < acked[l])
        BY <3>1, <3>2
      <3>4. misled' = misled /\ check' = check
        BY <1>6, <2>2, <3>3 DEF BeginCheck
      <3> QED
        BY <1>4, <1>5, <2>1, <3>4 DEF VersionState, FreshAfterAnswer, IInv
    <2>3. CASE cached[l] = 0
      <3>1. /\ check' = [check EXCEPT ![v] =
                           [list |-> l, floor |-> acked[l], got |-> 0]]
            /\ misled' = misled /\ owner[l] # None
        BY <1>6, <2>3 DEF BeginCheck
      <3>2. /\ check'[v] = [list |-> l, floor |-> acked[l], got |-> 0]
            /\ \A w \in Verifier : w # v => check'[w] = check[w]
        BY <3>1 DEF IInv, TypeOK
      <3>3. acked[l] <= version[l]
        BY DEF IInv, VersionState, ListVersions
      <3>4. CheckVersions(v)'
        BY <1>2, <3>1, <3>2, <3>3 DEF CheckVersions
      <3> QED
        BY <1>4, <1>5, <2>1, <3>1, <3>2, <3>4
           DEF VersionState, FreshAfterAnswer, IInv
    <2> QED
      BY <2>2, <2>3
  <1>7. CASE ReadOrigin(v)
    <2>1. /\ check[v] # None /\ cached' = cached /\ misled' = misled
          /\ check' = [check EXCEPT ![v].got = version[check[v].list]]
      BY <1>7 DEF ReadOrigin
    <2>2. /\ check'[v] = [check[v] EXCEPT !.got = version[check[v].list]]
          /\ \A w \in Verifier : w # v => check'[w] = check[w]
      BY <2>1 DEF IInv, TypeOK
    <2>3. check[v] \in Check
      BY <2>1 DEF IInv, TypeOK
    <2>4. /\ check'[v].list = check[v].list /\ check'[v].floor = check[v].floor
          /\ check'[v].got = version[check[v].list]
      BY <2>2, <2>3 DEF Check
    <2>5. CheckVersions(v)
      BY DEF IInv, VersionState
    <2>6. CheckVersions(v)'
      BY <1>2, <2>1, <2>4, <2>5 DEF CheckVersions
    <2> QED
      BY <1>4, <1>5, <2>1, <2>2, <2>6 DEF VersionState, FreshAfterAnswer, IInv
  <1>8. CASE Deliver(v)
    <2>0. PICK k \in List : k = check[v].list
      BY <1>8 DEF Deliver, IInv
    <2>1. /\ check[v] # None /\ check[v].got # 0
          /\ check' = [check EXCEPT ![v] = None]
          /\ cached' = [cached EXCEPT ![k] =
                           IF MayServe(k) THEN check[v].got ELSE 0]
          /\ misled' = IF check[v].got < check[v].floor THEN misled \cup {v}
                       ELSE misled
      BY <1>8, <2>0 DEF Deliver
    <2>2. /\ owner[k] # None
          /\ check[v].floor \in Nat /\ check[v].got \in Nat
          /\ check[v].floor <= check[v].got
      BY <2>0, <2>1 DEF IInv, VersionState, CheckVersions
    <2>3. misled' = misled
      BY <2>1, <2>2
    <2>4. /\ check'[v] = None
          /\ \A w \in Verifier : w # v => check'[w] = check[w]
      BY <2>1 DEF IInv, TypeOK
    <2>5. CheckVersions(v)'
      BY <2>4 DEF CheckVersions
    <2>6. /\ cached'[k] # 0 => MayServe(k)
          /\ \A m \in List : m # k => cached'[m] = cached[m]
      BY <2>1, <2>2 DEF IInv, TypeOK
    <2>7. ListVersions(k)
      BY DEF IInv, VersionState
    <2>8. ListVersions(k)'
      BY <1>2, <2>2, <2>6, <2>7 DEF ListVersions, MayServe
    <2> QED
      BY <1>4, <1>5, <2>3, <2>4, <2>5, <2>6, <2>8
         DEF VersionState, FreshAfterAnswer, IInv
  <1> QED
    BY <1>6, <1>7, <1>8

LEMMA VersionsKept ==
  ASSUME IInv, [Next]_vars, TypeOK'
  PROVE  VersionState' /\ FreshAfterAnswer'
  <1>1. StoreGrows
    BY Growth
  <1>2. ASSUME UNCHANGED <<acked, readers>>,
               \A l \in List : owner'[l] = None => version'[l] = 0
        PROVE  VersionState' /\ FreshAfterAnswer'
    <2>1. acked' = acked /\ cached' = cached /\ check' = check /\ misled' = misled
      BY <1>2 DEF readers
    <2>2. \A l \in List : ListVersions(l)'
      BY <1>1, <1>2, <2>1, ListVersionsKept
    <2>3. \A v \in Verifier : CheckVersions(v)'
      BY <1>1, <2>1, CheckVersionsKept
    <2> QED
      BY <2>1, <2>2, <2>3 DEF VersionState, FreshAfterAnswer, IInv
  <1>3. \A l \in List : owner[l] = None => version[l] = 0
    BY DEF IInv, VersionState, ListVersions
  <1>4. ASSUME NEW s \in Slot, Handle(s), ~Answer(s)
        PROVE  VersionState' /\ FreshAfterAnswer'
    <2>1. UNCHANGED <<acked, readers, owner>>
      BY <1>4 DEF Handle, Submit, Allocate, RefuseAllocation, LookupEntry,
           SelectEntry, SetStatus, KeepStatus, RefuseStatus, LoseAnswer,
           store, issuers
    <2>2. \A l \in List : owner'[l] = None => version'[l] = version[l]
      <3>1. CASE SetStatus(s)
        <4>1. owner[target[s].list] # None
          BY <3>1, SetStep DEF SetStatus
        <4> QED
          BY <2>1, <3>1, <4>1 DEF SetStatus, IInv, TypeOK
      <3>2. CASE ~SetStatus(s)
        BY <1>4, <3>2 DEF Handle, Submit, Allocate, RefuseAllocation,
           LookupEntry, SelectEntry, KeepStatus, RefuseStatus, LoseAnswer, store
      <3> QED
        BY <3>1, <3>2
    <2> QED
      BY <1>2, <1>3, <2>1, <2>2
  <1>5. ASSUME NEW l \in List, CreateList(l)
        PROVE  VersionState' /\ FreshAfterAnswer'
    <2>1. \A k \in List : owner'[k] = None => version'[k] = 0
      <3>1. \A k \in List : k # l => owner'[k] = owner[k] /\ version'[k] = version[k]
        BY <1>5 DEF CreateList, IInv, TypeOK
      <3>2. owner'[l] # None
        BY <1>5, NoneAssumption DEF CreateList, IInv, TypeOK
      <3> QED
        BY <1>3, <3>1, <3>2
    <2> QED
      BY <1>2, <1>5, <2>1 DEF CreateList, issuers
  <1>6. CASE UNCHANGED vars
    BY <1>2, <1>3, <1>6 DEF vars, store, issuers
  <1>7. CASE \E s \in Slot : Handle(s)
    BY <1>4, <1>7, AnswerVersions
  <1>8. CASE \E l \in List : CreateList(l)
    BY <1>5, <1>8
  <1>9. ASSUME NEW v \in Verifier, NEW l \in List, BeginCheck(v, l)
        PROVE  VersionState' /\ FreshAfterAnswer'
    BY <1>9, ReaderVersions
  <1>10. ASSUME NEW v \in Verifier, ReadOrigin(v) \/ Deliver(v)
         PROVE  VersionState' /\ FreshAfterAnswer'
    <2>1. PICK l \in List : l = check[v].list
      BY <1>10, VersionsAreNumbers DEF ReadOrigin, Deliver, IInv
    <2> QED
      BY <1>10, <2>1, ReaderVersions
  <1>11. ASSUME NEW l \in List, Expire(l)
         PROVE  VersionState' /\ FreshAfterAnswer'
    <2>1. /\ owner' = owner /\ version' = version /\ acked' = acked
          /\ cached'[l] = 0 /\ check' = check /\ misled' = misled
          /\ \A m \in List : m # l => cached'[m] = cached[m]
      BY <1>11 DEF Expire, store, issuers, IInv, TypeOK
    <2>2. ListVersions(l)
      BY DEF IInv, VersionState
    <2>3. ListVersions(l)'
      BY <2>1, <2>2 DEF ListVersions
    <2>4. \A m \in List : m # l => ListVersions(m)'
      BY <1>1, <1>3, <2>1, ListVersionsKept
    <2>5. \A v \in Verifier : CheckVersions(v)'
      BY <1>1, <2>1, CheckVersionsKept
    <2> QED
      BY <2>1, <2>3, <2>4, <2>5 DEF VersionState, FreshAfterAnswer, IInv
  <1> QED
    BY <1>6, <1>7, <1>8, <1>9, <1>10, <1>11 DEF Next

-----------------------------------------------------------------------------
(* StrandedOnlyByLoss: an entry is on its way, or accounted for.           *)
LEMMA StrandedKept ==
  ASSUME IInv, [Next]_vars, TypeOK'
  PROVE  StrandedOnlyByLoss'
  <1> DEFINE OnItsWay(s, c) ==
        /\ phase[s] = "answering" /\ told[s] = 200
        /\ asked[s] = [kind |-> "allocate", claim |-> c]
  <1>1. StoreGrows
    BY Growth
  <1>2. accounted \subseteq accounted'
    BY DEF Next, vars, CreateList, Expire, ReadOrigin, Deliver, BeginCheck,
           Handle, Submit, Allocate, RefuseAllocation, LookupEntry, SelectEntry,
           SetStatus, KeepStatus, RefuseStatus, Answer, LoseAnswer, Account,
           store, issuers
  <1>3. \A c \in Claim :
          entry[c] # None => c \in accounted \/ \E s \in Slot : OnItsWay(s, c)
    BY DEF IInv, StrandedOnlyByLoss
  <1>4. ASSUME NEW c \in Claim, NEW s \in Slot, OnItsWay(s, c)
        PROVE  c \in accounted' \/ OnItsWay(s, c)'
    <2>1. CASE Answer(s) \/ LoseAnswer(s)
      <3>1. Account(s)
        BY <2>1 DEF Answer, LoseAnswer
      <3> QED
        BY <1>4, <3>1 DEF Account
    <2>2. CASE UNCHANGED <<asked[s], phase[s], told[s]>>
      BY <1>4, <2>2
    <2>3. ASSUME NEW t \in Slot, Handle(t)
          PROVE  \/ Answer(s) \/ LoseAnswer(s)
                 \/ UNCHANGED <<asked[s], phase[s], told[s]>>
      <3>1. CASE t = s
        BY <1>4, <2>3, <3>1 DEF Handle, Submit, Allocate, RefuseAllocation,
           LookupEntry, SelectEntry, SetStatus, KeepStatus, RefuseStatus
      <3>2. CASE t # s
        BY <2>3, <3>2, HandleIsLocal DEF SlotUnchanged
      <3> QED
        BY <3>1, <3>2
    <2>4. (\E t \in Slot : Handle(t)) \/ UNCHANGED handlers
      BY DEF Next, vars, CreateList, Expire, ReadOrigin, Deliver, BeginCheck
    <2> QED
      BY <2>1, <2>2, <2>3, <2>4 DEF handlers
  <1>5. ASSUME NEW c \in Claim, entry[c] = None, entry'[c] # None
        PROVE  c \in accounted' \/ \E s \in Slot : OnItsWay(s, c)'
    <2>1. PICK s \in Slot : Allocate(s)
      <3>1. entry' = entry \/ \E s \in Slot : Allocate(s)
        BY DEF Next, vars, CreateList, Expire, ReadOrigin, Deliver, BeginCheck,
           Handle, Submit, RefuseAllocation, LookupEntry, SelectEntry,
           SetStatus, KeepStatus, RefuseStatus, Answer, LoseAnswer, store
      <3> QED
        BY <1>5, <3>1
    <2>2. asked[s].claim = c /\ asked[s] \in AllocateRequest
      BY <1>5, <2>1, AllocateStep DEF IInv, TypeOK
    <2>3. asked'[s] = [kind |-> "allocate", claim |-> c]
      BY <2>1, <2>2, RequestFields DEF Allocate
    <2>4. CASE Respond(s, "allocated", 0)
      <3>1. "allocated" \in Outcomes /\ HttpStatus("allocated") = 200
        BY StatusOf DEF Outcomes
      <3>2. phase'[s] = "answering" /\ told'[s] = 200
        BY <2>4, <3>1, RespondType, VersionType DEF IInv
      <3> QED
        BY <2>3, <3>2
    <2>5. CASE accounted' = accounted \cup {asked[s].claim}
      BY <2>2, <2>5
    <2> QED
      BY <2>1, <2>4, <2>5 DEF Allocate
  <1>6. ASSUME NEW c \in Claim, entry'[c] # None
        PROVE  c \in accounted' \/ \E s \in Slot : OnItsWay(s, c)'
    BY <1>2, <1>3, <1>4, <1>5, <1>6
  <1> QED
    BY <1>6 DEF StrandedOnlyByLoss

-----------------------------------------------------------------------------
LEMMA InitialState == Init => IInv
  <1> SUFFICES ASSUME Init PROVE IInv
    OBVIOUS
  <1> USE DEF Init
  <1>1. TypeOK
    BY VersionType DEF TypeOK
  <1>2. SlotState
    BY DEF SlotState, SlotFacts
  <1>3. EntryState /\ BitState /\ FreshAfterAnswer /\ StrandedOnlyByLoss
    BY DEF EntryState, BitState, FreshAfterAnswer, StrandedOnlyByLoss
  <1>4. VersionState
    BY DEF VersionState, ListVersions, CheckVersions
  <1> QED
    BY <1>1, <1>2, <1>3, <1>4 DEF IInv

LEMMA TypesKept ==
  ASSUME IInv, [Next]_vars
  PROVE  TypeOK'
  <1>1. CASE \E s \in Slot : Handle(s)
    <2>1. PICK s \in Slot : Handle(s)
      BY <1>1
    <2>2. CASE Allocate(s) \/ SetStatus(s)
      <3>1. PICK l \in List : TRUE
        <4>1. CASE Allocate(s)
          BY <4>1, AllocateStep
        <4>2. CASE SetStatus(s)
          BY <4>2, SetStep DEF SetStatus
        <4> QED
          BY <2>2, <4>1, <4>2
      <3> QED
        BY <2>2, <3>1, StoreTypes
    <2> QED
      BY <2>1, <2>2, HandlerTypes, CloseTypes DEF Handle
  <1>2. ASSUME NEW l \in List, CreateList(l) PROVE TypeOK'
    BY <1>2, VersionType DEF CreateList, handlers, issuers, readers, TypeOK, IInv
  <1>3. ASSUME NEW l \in List, Expire(l) PROVE TypeOK'
    BY <1>3, VersionType DEF Expire, store, handlers, issuers, TypeOK, IInv
  <1>4. ASSUME NEW v \in Verifier, NEW l \in List, BeginCheck(v, l) PROVE TypeOK'
    BY <1>4, ReaderTypes
  <1>5. ASSUME NEW v \in Verifier, ReadOrigin(v) \/ Deliver(v) PROVE TypeOK'
    <2>1. PICK l \in List : l = check[v].list
      BY <1>5, VersionsAreNumbers DEF ReadOrigin, Deliver, IInv
    <2> QED
      BY <1>5, <2>1, ReaderTypes
  <1>6. CASE UNCHANGED vars
    BY <1>6 DEF vars, store, handlers, issuers, readers, TypeOK, IInv
  <1> QED
    BY <1>1, <1>2, <1>3, <1>4, <1>5, <1>6 DEF Next

(* IInv holds always.                                                      *)
THEOREM Invariance == Spec => []IInv
  <1>1. IInv /\ [Next]_vars => IInv'
    <2> SUFFICES ASSUME IInv, [Next]_vars PROVE IInv'
      OBVIOUS
    <2>1. TypeOK'
      BY TypesKept
    <2> QED
      BY <2>1, SlotStateKept, EntryStateKept, BitStateKept, VersionsKept,
         StrandedKept DEF IInv
  <1> QED
    BY <1>1, InitialState, PTL DEF Spec

(* Every variable of StatusService keeps its type.                         *)
THEOREM TypesAreKept == Spec => []TypeOK
  BY Invariance, PTL DEF IInv

(* Through any cache, a verifier sees what callers knew when it began.     *)
THEOREM FlipsAreVisible == Spec => []FreshAfterAnswer
  BY Invariance, PTL DEF IInv

(* No entry is bound for nobody but by the loss of an answer.              *)
THEOREM LossesAreTheOnlyStrays == Spec => []StrandedOnlyByLoss
  BY Invariance, PTL DEF IInv

-----------------------------------------------------------------------------
(* The routes implement CredentialLedger.                                  *)
LEMMA LedgerScope == Ledger!Scope = Scope /\ \A c \in Claim : ScopeOf(c) \in Scope
  <1>1. \A c \in Claim : ScopeOf(c) \in Scope
    BY DEF Claim, ScopeOf, Scope
  <1>2. ASSUME NEW k \in Scope PROVE \E c \in Claim : ScopeOf(c) = k
    <2>1. PICK d \in Credential : TRUE
      BY CredentialAssumption
    <2>2. [tenant |-> k.tenant, credential |-> d, purpose |-> k.purpose] \in Claim
      BY DEF Scope, Claim
    <2>3. k = [tenant |-> k.tenant, purpose |-> k.purpose]
      BY DEF Scope
    <2> WITNESS [tenant |-> k.tenant, credential |-> d, purpose |-> k.purpose]
                  \in Claim
    <2> QED
      BY <2>3 DEF ScopeOf
  <1> QED
    BY <1>1, <1>2 DEF Ledger!Scope, Ledger!ScopeOf, ScopeOf

LEMMA LedgerAskFacts ==
  ASSUME NEW a \in Request
  PROVE  /\ LedgerAsk(a) \in Ledger!Ask /\ LedgerAsk(a) # None
         /\ LedgerAsk(a).kind = a.kind
         /\ a.kind \in {"allocate", "status"} => LedgerAsk(a).claim = a.claim
         /\ a.kind = "selector" => LedgerAsk(a).scope = a.scope
         /\ a.kind \in {"status", "selector"} => LedgerAsk(a).status = a.status
  <1>1. a # None
    BY NoneAssumption
  <1>2. CASE a.kind = "selector"
    <2>1. a \in SelectorRequest
      BY <1>2, RequestFacts
    <2>2. LedgerAsk(a) =
            [kind |-> "selector", scope |-> a.scope, status |-> a.status]
      BY <1>1, <1>2 DEF LedgerAsk
    <2>3. a.scope \in Ledger!Scope /\ a.status \in BOOLEAN
      BY <2>1, RequestFields, LedgerScope
    <2>4. LedgerAsk(a) \in Ledger!Ask
      BY <2>2, <2>3 DEF Ledger!Ask
    <2> QED
      BY <1>2, <2>2, <2>4, LedgerAskAssumption
  <1>3. CASE a.kind # "selector"
    <2>1. a \in AllocateRequest \cup StatusRequest
      BY <1>3, RequestFacts
    <2>2. LedgerAsk(a) = a
      BY <1>1, <1>3 DEF LedgerAsk
    <2>3. a \in Ledger!Ask
      BY <2>1 DEF AllocateRequest, StatusRequest, Ledger!Ask
    <2> QED
      BY <1>3, <2>2, <2>3, LedgerAskAssumption
  <1> QED
    BY <1>2, <1>3

StandingMap == [c \in Claim |-> Standing(c)]

AskMap == [s \in Slot |-> LedgerAsk(asked[s])]

LEMMA StandingSame ==
  ASSUME UNCHANGED <<bits, entry>>
  PROVE  StandingMap' = StandingMap
  BY DEF StandingMap, Standing

LEMMA StandingChanged ==
  ASSUME NEW c \in Claim, NEW n, Standing(c)' = n,
         \A d \in Claim : d # c => Standing(d)' = Standing(d)
  PROVE  StandingMap' = [StandingMap EXCEPT ![c] = n]
  <1>1. StandingMap' = [d \in Claim |-> IF d = c THEN n ELSE Standing(d)]
    BY DEF StandingMap
  <1>2. [StandingMap EXCEPT ![c] = n]
          = [d \in Claim |-> IF d = c THEN n ELSE Standing(d)]
    BY DEF StandingMap
  <1> QED
    BY <1>1, <1>2

LEMMA AskSame ==
  ASSUME UNCHANGED asked
  PROVE  AskMap' = AskMap
  BY DEF AskMap, LedgerAsk

LEMMA AskChanged ==
  ASSUME IInv, NEW s \in Slot, NEW a, asked' = [asked EXCEPT ![s] = a]
  PROVE  AskMap' = [AskMap EXCEPT ![s] = LedgerAsk(a)]
  <1>1. \A t \in Slot : asked'[t] = IF t = s THEN a ELSE asked[t]
    BY DEF IInv, TypeOK
  <1>2. AskMap' = [t \in Slot |-> LedgerAsk(asked'[t])]
    BY DEF AskMap
  <1>3. [AskMap EXCEPT ![s] = LedgerAsk(a)]
          = [t \in Slot |-> IF t = s THEN LedgerAsk(a) ELSE LedgerAsk(asked[t])]
    BY DEF AskMap
  <1>4. \A t \in Slot : LedgerAsk(asked'[t])
          = IF t = s THEN LedgerAsk(a) ELSE LedgerAsk(asked[t])
    BY <1>1
  <1> QED
    BY <1>2, <1>3, <1>4

(* A status one is told is one of those one may be told.                   *)
LEMMA TellsOneOf ==
  ASSUME NEW s \in Slot, NEW status, told' = [told EXCEPT ![s] = status]
  PROVE  \A statuses : status \in statuses => Ledger!Tell(s, statuses)
  BY DEF Ledger!Tell

(* A request that is neither free nor answered is open in the ledger.      *)
LEMMA OpenInLedger ==
  ASSUME IInv, NEW s \in Slot, phase[s] \in {"looking", "setting"}
  PROVE  /\ asked[s] \in Request /\ asked[s] # None /\ told[s] = None
         /\ AskMap[s] = LedgerAsk(asked[s]) /\ Ledger!Open(s)
  <1>1. SlotFacts(s)
    BY DEF IInv, SlotState
  <1>2. asked[s] \in Request /\ asked[s] # None /\ told[s] = None
    BY <1>1 DEF SlotFacts, IInv, TypeOK
  <1>3. LedgerAsk(asked[s]) # None
    BY <1>2, LedgerAskFacts
  <1> QED
    BY <1>2, <1>3 DEF Ledger!Open, AskMap

(* An answer that says nothing was done, and nothing was.                  *)
LEMMA RefuseInLedger ==
  ASSUME IInv, NEW s \in Slot, phase[s] \in {"looking", "setting"},
         NEW status, told' = [told EXCEPT ![s] = status],
         UNCHANGED <<bits, entry, asked, overridden>>,
         \/ status \in {500, 502, 503}
         \/ asked[s].kind = "allocate" /\ status \in {400, 404, 409}
         \/ asked[s].kind = "selector" /\ status \in {400, 404}
         \/ /\ asked[s].kind = "status" /\ status = 404
            /\ entry[asked[s].claim] = None
  PROVE  Ledger!Refuse(s)
  <1>1. /\ asked[s] \in Request /\ Ledger!Open(s)
        /\ AskMap[s] = LedgerAsk(asked[s])
    BY OpenInLedger
  <1>2. StandingMap' = StandingMap /\ AskMap' = AskMap
    BY StandingSame, AskSame
  <1>3. AskMap[s].kind = asked[s].kind
    BY <1>1, LedgerAskFacts
  <1>4. ASSUME asked[s].kind = "status", entry[asked[s].claim] = None
        PROVE  StandingMap[AskMap[s].claim] = "unbound"
    <2>1. AskMap[s].claim = asked[s].claim
      BY <1>1, <1>4, LedgerAskFacts
    <2>2. asked[s].claim \in Claim
      BY <1>1, <1>4, RequestFacts, RequestFields
    <2> QED
      BY <1>4, <2>1, <2>2 DEF StandingMap, Standing
  <1>5. \A S : status \in S => Ledger!Tell(s, S)
    BY DEF Ledger!Tell
  <1>6. \/ Ledger!Tell(s, {500, 502, 503})
        \/ AskMap[s].kind = "allocate" /\ Ledger!Tell(s, {400, 404, 409})
        \/ AskMap[s].kind = "selector" /\ Ledger!Tell(s, {400, 404})
        \/ /\ AskMap[s].kind = "status"
           /\ StandingMap[AskMap[s].claim] = "unbound"
           /\ Ledger!Tell(s, {404})
    BY <1>3, <1>4, <1>5
  <1> QED
    BY <1>1, <1>2, <1>6 DEF Ledger!Refuse, StandingMap, AskMap

LEMMA BindInLedger ==
  ASSUME IInv, NEW s \in Slot, Allocate(s)
  PROVE  Ledger!Bind(s)
  <1>1. PICK c \in Claim : c = asked[s].claim
    BY AllocateStep
  <1>2. /\ asked[s] \in Request /\ Ledger!Open(s) /\ AskMap' = AskMap
        /\ AskMap[s].kind = "allocate" /\ AskMap[s].claim = c
    BY <1>1, OpenInLedger, LedgerAskFacts, AskSame DEF Allocate
  <1>3. PICK e \in Entry :
          /\ entry' = [entry EXCEPT ![c] = e]
          /\ e.list \in List /\ e.index \in Index
          /\ owner[e.list].scope = ScopeOf(c) /\ Free(e.list, e.index)
    BY <1>1, AllocateStep
  <1>4. /\ entry[c] = None /\ bits' = bits
        /\ overridden' = overridden /\ asked' = asked
    BY <1>1 DEF Allocate
  <1>5. /\ entry'[c] = e /\ e # None
        /\ \A d \in Claim : d # c => entry'[d] = entry[d]
    BY <1>3, NoneAssumption DEF IInv, TypeOK
  <1>6. PICK born \in {"clear", "set"} :
          born = IF e.index \in bits[e.list] THEN "set" ELSE "clear"
    OBVIOUS
  <1>7. born = "set" => ScopeOf(c) \in overridden
    BY <1>3, <1>6 DEF IInv, BitState
  <1>8. StandingMap' = [StandingMap EXCEPT ![c] = born]
    <2>1. Standing(c)' = born
      BY <1>4, <1>5, <1>6 DEF Standing
    <2>2. \A d \in Claim : d # c => Standing(d)' = Standing(d)
      BY <1>4, <1>5 DEF Standing
    <2> QED
      BY <2>1, <2>2, StandingChanged
  <1>9. StandingMap[c] = "unbound"
    BY <1>4 DEF StandingMap, Standing
  <1>10. PICK code \in {"allocated", "credential-already-allocated", "unknown"} :
           told' = [told EXCEPT ![s] = HttpStatus(code)]
    BY DEF Allocate, Respond
  <1>11. Ledger!Tell(s, {200, 409, 500})
    <2>1. HttpStatus(code) \in {200, 409, 500}
      BY StatusOf
    <2>2. \A S : HttpStatus(code) \in S => Ledger!Tell(s, S)
      BY <1>10, TellsOneOf
    <2> QED
      BY <2>1, <2>2
  <1>12. Ledger!ScopeOf(c) = ScopeOf(c)
    BY DEF Ledger!ScopeOf, ScopeOf
  <1> QED
    BY <1>2, <1>4, <1>7, <1>8, <1>9, <1>11, <1>12
       DEF Ledger!Bind, StandingMap, AskMap

(* A bit that is set, or had its value already.                            *)
LEMMA WriteInLedger ==
  ASSUME IInv, NEW s \in Slot, phase[s] = "setting",
         bits' = [bits EXCEPT ![target[s].list] =
                    Flipped(target[s].list, target[s].index, asked[s].status)],
         entry' = entry, asked' = asked, overridden' = OverrideBy(s),
         Ledger!Tell(s, {200, 500})
  PROVE  Ledger!SetStanding(s) \/ Ledger!Override(s)
  <1>1. /\ asked[s] \in Request /\ Ledger!Open(s) /\ AskMap' = AskMap
        /\ AskMap[s] = LedgerAsk(asked[s])
        /\ asked[s] \in StatusRequest \cup SelectorRequest
    BY OpenInLedger, AskSame, SetStep
  <1>2. PICK l \in List, i \in Index :
          l = target[s].list /\ i = target[s].index
    BY SetStep
  <1>3. /\ target[s] = [list |-> l, index |-> i] /\ target[s] # None
        /\ owner[l] # None
    BY <1>2, SetStep, NoneAssumption DEF Entry
  <1>4. asked[s].status \in BOOLEAN
    BY <1>1, RequestFields
  <1>5. /\ (i \in bits'[l]) <=> asked[s].status
        /\ \A k \in List, j \in Index :
             <<k, j>> # <<l, i>> => (j \in bits'[k] <=> j \in bits[k])
    BY <1>2, <1>4 DEF Flipped, IInv, TypeOK
  <1>6. ASSUME NEW c \in Claim, entry[c] = target[s]
        PROVE  /\ Standing(c)' = Ledger!Named(asked[s].status)
               /\ Standing(c) # "unbound"
    <2>1. entry'[c] # None /\ entry'[c].list = l /\ entry'[c].index = i
      BY <1>3, <1>6
    <2> QED
      BY <1>5, <2>1 DEF Standing, Ledger!Named
  <1>7. ASSUME NEW c \in Claim, entry[c] # target[s]
        PROVE  Standing(c)' = Standing(c)
    <2>1. CASE entry[c] = None
      BY <2>1 DEF Standing
    <2>2. CASE entry[c] # None
      <3>1. PICK e \in Entry : e = entry[c]
        BY <2>2 DEF IInv, TypeOK
      <3>2. /\ e.list \in List /\ e.index \in Index
            /\ e = [list |-> e.list, index |-> e.index]
        BY DEF Entry
      <3>3. <<e.list, e.index>> # <<l, i>>
        BY <1>3, <1>7, <3>1, <3>2
      <3>4. e.index \in bits'[e.list] <=> e.index \in bits[e.list]
        BY <1>5, <3>2, <3>3
      <3> QED
        BY <3>1, <3>4 DEF Standing
    <2> QED
      BY <2>1, <2>2
  <1>8. ASSUME NEW c \in Claim, entry[c] = target[s]
        PROVE  StandingMap'
                 = [StandingMap EXCEPT ![c] = Ledger!Named(asked[s].status)]
    <2>1. \A d \in Claim : d # c => entry[d] # target[s]
      BY <1>3, <1>8 DEF IInv, EntryState
    <2>2. /\ Standing(c)' = Ledger!Named(asked[s].status)
          /\ \A d \in Claim : d # c => Standing(d)' = Standing(d)
      BY <1>6, <1>7, <1>8, <2>1
    <2>3. PICK n : n = Ledger!Named(asked[s].status)
      OBVIOUS
    <2>4. StandingMap' = [StandingMap EXCEPT ![c] = n]
      BY <2>2, <2>3, StandingChanged
    <2> QED
      BY <2>3, <2>4
  <1>9. Ledger!Tell(s, {200, 500})
    OBVIOUS
  <1>10. CASE asked[s].kind = "status"
    <2>1. asked[s].claim \in Claim
      BY <1>1, <1>10, RequestFacts, RequestFields
    <2>2. entry[asked[s].claim] = target[s]
      BY <1>10 DEF IInv, SlotState, SlotFacts
    <2>3. /\ AskMap[s].kind = "status" /\ AskMap[s].claim = asked[s].claim
          /\ AskMap[s].status = asked[s].status
      BY <1>1, <1>10, LedgerAskFacts
    <2>4. StandingMap[asked[s].claim] # "unbound"
      BY <1>6, <2>1, <2>2 DEF StandingMap
    <2>5. overridden' = overridden
      BY <1>10 DEF OverrideBy
    <2>6. Ledger!SetStanding(s)
      BY <1>1, <1>8, <1>9, <2>1, <2>2, <2>3, <2>4, <2>5
         DEF Ledger!SetStanding, StandingMap, AskMap
    <2> QED
      BY <2>6
  <1>11. CASE asked[s].kind = "selector"
    <2>1. /\ AskMap[s].kind = "selector" /\ AskMap[s].scope = asked[s].scope
          /\ AskMap[s].status = asked[s].status
      BY <1>1, <1>11, LedgerAskFacts
    <2>2. owner[l].scope = asked[s].scope
      BY <1>2, <1>11 DEF IInv, SlotState, SlotFacts
    <2>3. CASE \E c \in Claim : entry[c] = target[s]
      <3>1. PICK c \in Claim : entry[c] = target[s]
        BY <2>3
      <3>2. ScopeOf(c) = asked[s].scope /\ Ledger!ScopeOf(c) = ScopeOf(c)
        BY <1>2, <1>3, <2>2, <3>1
           DEF IInv, EntryState, Ledger!ScopeOf, ScopeOf
      <3>3. StandingMap[c] # "unbound"
        BY <1>6, <3>1 DEF StandingMap
      <3>4. overridden' = overridden
        BY <1>2, <1>3, <3>1 DEF OverrideBy, Free
      <3>5. \E d \in Claim :
              /\ Ledger!ScopeOf(d) = AskMap[s].scope /\ StandingMap[d] # "unbound"
              /\ StandingMap'
                   = [StandingMap EXCEPT ![d] = Ledger!Named(AskMap[s].status)]
              /\ UNCHANGED overridden
        <4>1. StandingMap'
                = [StandingMap EXCEPT ![c] = Ledger!Named(AskMap[s].status)]
          BY <1>8, <2>1, <3>1
        <4> WITNESS c \in Claim
        <4> QED
          BY <2>1, <3>2, <3>3, <3>4, <4>1
      <3>6. Ledger!Override(s)
        BY <1>1, <1>9, <2>1, <3>5, ZenonT(60)
           DEF Ledger!Override, StandingMap, AskMap
      <3> QED
        BY <3>6
    <2>4. CASE ~\E c \in Claim : entry[c] = target[s]
      <3>1. StandingMap' = StandingMap
        BY <1>7, <2>4 DEF StandingMap
      <3>2. Free(target[s].list, target[s].index)
        BY <1>2, <1>3, <2>4 DEF Free
      <3>3. overridden' = IF asked[s].status THEN overridden \cup {asked[s].scope}
                          ELSE overridden
        BY <1>11, <3>2 DEF OverrideBy
      <3>4. Ledger!Override(s)
        BY <1>1, <1>9, <2>1, <3>1, <3>3
           DEF Ledger!Override, StandingMap, AskMap
      <3> QED
        BY <3>4
    <2> QED
      BY <2>3, <2>4
  <1> QED
    BY <1>1, <1>10, <1>11 DEF StatusRequest, SelectorRequest

LEMMA SubmitInLedger ==
  ASSUME IInv, NEW s \in Slot, Submit(s)
  PROVE  Ledger!Submit(s)
  <1>1. PICK a \in Request : asked' = [asked EXCEPT ![s] = a]
    BY DEF Submit
  <1>2. AskMap' = [AskMap EXCEPT ![s] = LedgerAsk(a)]
    BY <1>1, AskChanged
  <1>3. AskMap[s] = None
    BY DEF Submit, AskMap, LedgerAsk, IInv, SlotState, SlotFacts
  <1>4. LedgerAsk(a) \in Ledger!Ask
    BY LedgerAskFacts
  <1>5. /\ StandingMap' = StandingMap
        /\ overridden' = overridden /\ told' = told
    BY StandingSame DEF Submit, store, issuers
  <1> QED
    BY <1>2, <1>3, <1>4, <1>5 DEF Ledger!Submit, StandingMap, AskMap

LEMMA CloseInLedger ==
  ASSUME IInv, NEW s \in Slot, Answer(s) \/ LoseAnswer(s)
  PROVE  Ledger!Close(s)
  <1>1. Close(s) /\ UNCHANGED <<bits, entry, overridden>>
    BY DEF Answer, LoseAnswer, store
  <1>2. AskMap' = [AskMap EXCEPT ![s] = None]
    <2>1. LedgerAsk(None) = None
      BY DEF LedgerAsk
    <2> QED
      BY <1>1, <2>1, AskChanged DEF Close
  <1>3. told[s] # None /\ told' = [told EXCEPT ![s] = None]
    BY <1>1 DEF Close, IInv, SlotState, SlotFacts
  <1>4. StandingMap' = StandingMap
    BY <1>1, StandingSame
  <1> QED
    BY <1>1, <1>2, <1>3, <1>4 DEF Ledger!Close, StandingMap, AskMap

(* Every other step of a handler.                                          *)
LEMMA HandleInLedger ==
  ASSUME IInv, NEW s \in Slot, Handle(s)
  PROVE  Ledger!Next \/ UNCHANGED <<StandingMap, overridden, AskMap, told>>
  <1> USE DEF Ledger!Next
  <1>1. ASSUME phase[s] \in {"looking", "setting"},
               UNCHANGED <<bits, entry, asked, overridden>>,
               NEW code, Respond(s, code, 0),
               \/ code \in {"issuer-instance-unavailable", "unknown",
                           "signing-rejected", "signing-unavailable"}
               \/ /\ asked[s].kind = "allocate"
                  /\ code \in {"list-not-found", "list-purpose-mismatch",
                              "list-exhausted", "credential-already-allocated"}
               \/ /\ asked[s].kind = "selector"
                  /\ code \in {"list-not-found", "bad-request"}
               \/ /\ asked[s].kind = "status"
                  /\ code = "credential-not-allocated"
                  /\ entry[asked[s].claim] = None
        PROVE  Ledger!Refuse(s)
    <2>1. told' = [told EXCEPT ![s] = HttpStatus(code)]
      BY <1>1 DEF Respond
    <2>2. \/ HttpStatus(code) \in {500, 502, 503}
          \/ asked[s].kind = "allocate" /\ HttpStatus(code) \in {400, 404, 409}
          \/ asked[s].kind = "selector" /\ HttpStatus(code) \in {400, 404}
          \/ /\ asked[s].kind = "status" /\ HttpStatus(code) = 404
             /\ entry[asked[s].claim] = None
      BY <1>1, StatusOf
    <2> QED
      BY <1>1, <2>1, <2>2, RefuseInLedger
  <1>2. CASE Submit(s)
    BY <1>2, SubmitInLedger
  <1>3. CASE Allocate(s)
    BY <1>3, BindInLedger
  <1>4. CASE RefuseAllocation(s)
    <2>1. /\ phase[s] \in {"looking", "setting"} /\ asked[s].kind = "allocate"
          /\ UNCHANGED <<bits, entry, asked, overridden>>
      BY <1>4 DEF RefuseAllocation, store, issuers
    <2>2. PICK code \in {"list-not-found", "list-purpose-mismatch",
                         "list-exhausted", "credential-already-allocated",
                         "issuer-instance-unavailable", "unknown",
                         "signing-rejected", "signing-unavailable"} :
            Respond(s, code, 0)
      BY <1>4 DEF RefuseAllocation
    <2> QED
      BY <1>1, <2>1, <2>2
  <1>5. CASE LookupEntry(s)
    <2>1. /\ phase[s] \in {"looking", "setting"} /\ asked[s].kind = "status"
          /\ UNCHANGED <<bits, entry, asked, overridden>>
      BY <1>5 DEF LookupEntry, store, issuers
    <2>2. CASE entry[asked[s].claim] = None
      BY <1>1, <1>5, <2>1, <2>2 DEF LookupEntry
    <2>3. CASE entry[asked[s].claim] # None
      BY <1>5, <2>1, <2>3, StandingSame, AskSame DEF LookupEntry
    <2> QED
      BY <2>2, <2>3
  <1>6. CASE SelectEntry(s)
    <2>1. /\ phase[s] \in {"looking", "setting"} /\ asked[s].kind = "selector"
          /\ UNCHANGED <<bits, entry, asked, overridden>>
      BY <1>6 DEF SelectEntry, store, issuers
    <2>2. \/ \E code \in {"list-not-found", "bad-request"} : Respond(s, code, 0)
          \/ UNCHANGED told
      BY <1>6 DEF SelectEntry
    <2> QED
      BY <1>1, <2>1, <2>2, StandingSame, AskSame
  <1>7. CASE SetStatus(s)
    <2>1. PICK code \in {"changed", "unknown"} :
            told' = [told EXCEPT ![s] = HttpStatus(code)]
      BY <1>7 DEF SetStatus, Respond
    <2>2. HttpStatus(code) \in {200, 500}
      BY StatusOf
    <2>3. \A S : HttpStatus(code) \in S => Ledger!Tell(s, S)
      BY <2>1, TellsOneOf
    <2>4. Ledger!Tell(s, {200, 500})
      BY <2>2, <2>3
    <2>5. Ledger!SetStanding(s) \/ Ledger!Override(s)
      BY <1>7, <2>4, WriteInLedger DEF SetStatus
    <2> QED
      BY <2>5
  <1>8. CASE KeepStatus(s)
    <2>1. PICK l \in List, i \in Index :
            /\ l = target[s].list /\ i = target[s].index
            /\ owner[l] # None /\ asked[s] \in StatusRequest \cup SelectorRequest
      BY <1>8, SetStep DEF KeepStatus
    <2>2. /\ phase[s] = "setting" /\ (i \in bits[l]) = asked[s].status
          /\ UNCHANGED <<bits, entry, asked, overridden>>
      BY <1>8, <2>1 DEF KeepStatus, store, issuers
    <2>3. Flipped(l, i, asked[s].status) = bits[l]
      BY <2>1, <2>2 DEF Flipped
    <2>4. bits' = [bits EXCEPT ![l] = Flipped(l, i, asked[s].status)]
      BY <2>2, <2>3 DEF IInv, TypeOK
    <2>5. overridden' = OverrideBy(s)
      <3>1. CASE /\ asked[s].kind = "selector" /\ asked[s].status
                 /\ Free(l, i)
        <4>1. owner[l].scope \in overridden
          BY <2>1, <2>2, <3>1 DEF IInv, BitState
        <4>2. owner[l].scope = asked[s].scope
          BY <2>1, <2>2, <3>1 DEF IInv, SlotState, SlotFacts
        <4> QED
          BY <2>1, <2>2, <4>1, <4>2 DEF OverrideBy
      <3>2. CASE ~(/\ asked[s].kind = "selector" /\ asked[s].status
                   /\ Free(l, i))
        BY <2>1, <2>2, <3>2 DEF OverrideBy
      <3> QED
        BY <3>1, <3>2
    <2>6. Ledger!Tell(s, {200, 500})
      <3>1. PICK status : /\ status = HttpStatus("unchanged")
                          /\ told' = [told EXCEPT ![s] = status]
        BY <1>8 DEF KeepStatus, Respond
      <3>2. \A S : status \in S => Ledger!Tell(s, S)
        BY <3>1, TellsOneOf
      <3>3. status = 200
        BY <3>1, StatusOf
      <3> QED
        BY <3>2, <3>3
    <2>7. Ledger!SetStanding(s) \/ Ledger!Override(s)
      BY <2>1, <2>2, <2>4, <2>5, <2>6, WriteInLedger
    <2> QED
      BY <2>7
  <1>9. CASE RefuseStatus(s)
    <2>1. /\ phase[s] \in {"looking", "setting"}
          /\ UNCHANGED <<bits, entry, asked, overridden>>
      BY <1>9 DEF RefuseStatus, store, issuers
    <2>2. PICK code \in {"issuer-instance-unavailable", "unknown",
                         "signing-rejected", "signing-unavailable"} :
            Respond(s, code, 0)
      BY <1>9 DEF RefuseStatus
    <2> QED
      BY <1>1, <2>1, <2>2
  <1>10. CASE Answer(s) \/ LoseAnswer(s)
    BY <1>10, CloseInLedger
  <1> QED
    BY <1>2, <1>3, <1>4, <1>5, <1>6, <1>7, <1>8, <1>9, <1>10 DEF Handle

LEMMA LedgerStep ==
  ASSUME IInv, [Next]_vars
  PROVE  Ledger!Next \/ UNCHANGED <<StandingMap, overridden, AskMap, told>>
  <1>1. (\E s \in Slot : Handle(s))
        \/ UNCHANGED <<bits, entry, asked, overridden, told>>
    BY DEF Next, vars, CreateList, Expire, ReadOrigin, Deliver, BeginCheck,
           store, handlers, issuers
  <1>2. ASSUME UNCHANGED <<bits, entry, asked, overridden, told>>
        PROVE  UNCHANGED <<StandingMap, overridden, AskMap, told>>
    BY <1>2, StandingSame, AskSame
  <1> QED
    BY <1>1, <1>2, HandleInLedger

(* What the HTTP statuses say of the claims is true, whatever is lost.     *)
THEOREM LedgerIsKept == Spec => KeepsTheLedger
  <1>1. Init => Ledger!Init
    <2> SUFFICES ASSUME Init PROVE Ledger!Init
      OBVIOUS
    <2>1. StandingMap = [c \in Claim |-> "unbound"]
      BY DEF Init, StandingMap, Standing
    <2>2. AskMap = [s \in Slot |-> None]
      BY DEF Init, AskMap, LedgerAsk
    <2> QED
      BY <2>1, <2>2 DEF Init, Ledger!Init, StandingMap, AskMap
  <1>2. IInv /\ [Next]_vars => [Ledger!Next]_(Ledger!ledgerVars)
    BY LedgerStep DEF Ledger!ledgerVars, StandingMap, AskMap
  <1> QED
    BY <1>1, <1>2, Invariance, PTL DEF Spec, KeepsTheLedger, Ledger!Spec

-----------------------------------------------------------------------------
(* What the ledger means for whoever calls the routes.                     *)

(* Whether a request is about a claim: the one it names, or, of an         *)
(* explicit selector, any of its tenant and purpose.                       *)
Concerns(a, c) ==
  IF a.kind = "selector" THEN a.scope = ScopeOf(c) ELSE a.claim = c

Named(status) == IF status THEN "set" ELSE "clear"

NothingDone ==
  overridden' = overridden /\ \A c \in Claim : Standing(c)' = Standing(c)

(* A claim's standing changes only by a request about it, which is         *)
(* answered in that step with a status that admits it, and no other claim  *)
(* changes with it: no tenant's request touches another tenant's           *)
(* credential (setCredentialStatus and setByExplicitSelector).             *)
RequestsChangeTheirOwn ==
  [][\A c \in Claim :
       Standing(c)' # Standing(c) =>
         \E s \in Slot :
            /\ asked[s] # None /\ Concerns(asked[s], c)
            /\ told[s] = None /\ told'[s] \in {200, 409, 500}
            /\ \A d \in Claim \ {c} : Standing(d)' = Standing(d)]_vars

(* A caller that is answered 200 has what it asked for from that step on:  *)
(* the claim it allocated for was unbound and is bound, the status it set  *)
(* is the claim's (allocateHandler, updateCredentialStatusHandler).        *)
DoneMeansDone ==
  [][\A s \in Slot, c \in Claim :
       told[s] = None /\ told'[s] = 200 /\ asked[s].kind # "selector"
         /\ asked[s].claim = c =>
            /\ asked[s].kind = "allocate" =>
                 Standing(c) = "unbound" /\ Standing(c)' # "unbound"
            /\ asked[s].kind = "status" =>
                 /\ Standing(c) # "unbound"
                 /\ Standing(c)' = Named(asked[s].status)]_vars

(* A caller that is answered 400, 404, 502 or 503 may try again: nothing   *)
(* was done in its name (fromDependency and the refusals of the routes).   *)
RefusedMeansNothing ==
  [][\A s \in Slot :
       told[s] = None /\ told'[s] \in {400, 404, 502, 503} => NothingDone]_vars

(* A claim that has an entry keeps one, whatever is asked of it.           *)
ClaimsStayBound ==
  [][\A c \in Claim : Standing(c) # "unbound" => Standing(c)' # "unbound"]_vars

(* The answer of a slot, and what is done with it.                         *)
AnsweredIn(s) ==
  /\ asked[s] \in Request /\ told[s] = None
  /\ \A r \in Slot \ {s} : told'[r] = told[r]
  /\ \/ told'[s] # 200 /\ NothingDone
     \/ /\ asked[s].kind = "selector" /\ told'[s] \in {200, 500}
        /\ \A d \in Claim : Standing(d)' = Standing(d)
     \/ \E c \in Claim :
          /\ \A d \in Claim \ {c} : Standing(d)' = Standing(d)
          /\ \/ /\ asked[s].kind = "allocate" /\ asked[s].claim = c
                /\ told'[s] \in {200, 409, 500}
                /\ Standing(c) = "unbound" /\ Standing(c)' # "unbound"
             \/ /\ \/ asked[s].kind = "status" /\ asked[s].claim = c
                   \/ asked[s].kind = "selector" /\ asked[s].scope = ScopeOf(c)
                /\ told'[s] \in {200, 500}
                /\ Standing(c) # "unbound"
                /\ Standing(c)' = Named(asked[s].status)

(* A step in the ledger's words, for one claim.                            *)
LEMMA OneStanding ==
  ASSUME NEW c \in Claim, NEW n,
         StandingMap' = [StandingMap EXCEPT ![c] = n]
  PROVE  /\ Standing(c)' = n
         /\ \A d \in Claim \ {c} : Standing(d)' = Standing(d)
  <1>1. \A d \in Claim :
          StandingMap'[d] = Standing(d)' /\ StandingMap[d] = Standing(d)
    BY DEF StandingMap
  <1>2. /\ StandingMap'[c] = n
        /\ \A d \in Claim \ {c} : StandingMap'[d] = StandingMap[d]
    BY DEF StandingMap
  <1> QED
    BY <1>1, <1>2

LEMMA SameStanding ==
  ASSUME StandingMap' = StandingMap
  PROVE  \A d \in Claim : Standing(d)' = Standing(d)
  <1>1. \A d \in Claim :
          StandingMap'[d] = Standing(d)' /\ StandingMap[d] = Standing(d)
    BY DEF StandingMap
  <1> QED
    BY <1>1

LEMMA TellFacts ==
  ASSUME IInv, NEW s \in Slot, NEW S, Ledger!Tell(s, S)
  PROVE  told'[s] \in S /\ \A r \in Slot \ {s} : told'[r] = told[r]
  <1>1. PICK status \in S : told' = [told EXCEPT ![s] = status]
    BY DEF Ledger!Tell
  <1> QED
    BY <1>1 DEF IInv, TypeOK

LEMMA NoStatusIsNone ==
  \A status \in {200, 400, 404, 502, 503} : status # None
  <1>1. \A code \in {"allocated", "bad-request", "list-not-found",
                    "signing-rejected", "signing-unavailable"} :
          HttpStatus(code) # None
    BY StatusType DEF Outcomes
  <1>2. /\ HttpStatus("allocated") = 200 /\ HttpStatus("bad-request") = 400
        /\ HttpStatus("list-not-found") = 404
        /\ HttpStatus("signing-rejected") = 502
        /\ HttpStatus("signing-unavailable") = 503
    BY StatusOf
  <1> QED
    BY <1>1, <1>2

(* A slot the ledger has open serves a request.                            *)
LEMMA OpenFacts ==
  ASSUME IInv, NEW s \in Slot, Ledger!Open(s)
  PROVE  /\ asked[s] \in Request /\ told[s] = None
         /\ AskMap[s].kind = asked[s].kind
         /\ asked[s].kind \in {"allocate", "status"} =>
              AskMap[s].claim = asked[s].claim /\ asked[s].claim \in Claim
         /\ asked[s].kind = "selector" => AskMap[s].scope = asked[s].scope
         /\ asked[s].kind \in {"status", "selector"} =>
              AskMap[s].status = asked[s].status
  <1>1. LedgerAsk(asked[s]) # None /\ told[s] = None
    BY DEF Ledger!Open, AskMap
  <1>2. asked[s] \in Request
    BY <1>1 DEF IInv, TypeOK, LedgerAsk
  <1>3. asked[s].kind \in {"allocate", "status"} => asked[s].claim \in Claim
    BY <1>2, RequestFacts, RequestFields
  <1>4. AskMap[s] = LedgerAsk(asked[s])
    BY DEF AskMap
  <1> QED
    BY <1>1, <1>2, <1>3, <1>4, LedgerAskFacts

LEMMA BindServes ==
  ASSUME IInv, NEW s \in Slot, Ledger!Bind(s)
  PROVE  AnsweredIn(s)
  <1>1. Ledger!Open(s) /\ AskMap[s].kind = "allocate"
    BY DEF Ledger!Bind, AskMap
  <1>2. PICK c \in Claim : c = asked[s].claim /\ c = AskMap[s].claim
    BY <1>1, OpenFacts
  <1>3. StandingMap[c] = "unbound"
    BY <1>2 DEF Ledger!Bind, StandingMap, AskMap
  <1>4. PICK born \in {"clear", "set"} :
          StandingMap' = [StandingMap EXCEPT ![c] = born]
    BY <1>2 DEF Ledger!Bind, StandingMap, AskMap
  <1>5. /\ Standing(c)' = born
        /\ \A d \in Claim \ {c} : Standing(d)' = Standing(d)
    BY <1>4, OneStanding
  <1>6. Standing(c) = "unbound"
    BY <1>3 DEF StandingMap
  <1>7. Ledger!Tell(s, {200, 409, 500})
    BY DEF Ledger!Bind
  <1> QED
    BY <1>1, <1>2, <1>5, <1>6, <1>7, OpenFacts, TellFacts DEF AnsweredIn

LEMMA SetStandingServes ==
  ASSUME IInv, NEW s \in Slot, Ledger!SetStanding(s)
  PROVE  AnsweredIn(s)
  <1>1. Ledger!Open(s) /\ AskMap[s].kind = "status"
    BY DEF Ledger!SetStanding, AskMap
  <1>2. PICK c \in Claim : c = asked[s].claim /\ c = AskMap[s].claim
    BY <1>1, OpenFacts
  <1>3. PICK n : n = Named(asked[s].status)
    OBVIOUS
  <1>4. n = Ledger!Named(AskMap[s].status)
    BY <1>1, <1>3, OpenFacts DEF Named, Ledger!Named
  <1>5. /\ StandingMap[c] # "unbound"
        /\ StandingMap' = [StandingMap EXCEPT ![c] = n]
    BY <1>2, <1>4 DEF Ledger!SetStanding, StandingMap, AskMap
  <1>6. /\ Standing(c)' = n
        /\ \A d \in Claim \ {c} : Standing(d)' = Standing(d)
    BY <1>5, OneStanding
  <1>7. Standing(c) # "unbound"
    BY <1>5 DEF StandingMap
  <1>8. Ledger!Tell(s, {200, 500})
    BY DEF Ledger!SetStanding
  <1> QED
    BY <1>1, <1>2, <1>3, <1>6, <1>7, <1>8, OpenFacts, TellFacts
       DEF AnsweredIn

LEMMA OverrideServes ==
  ASSUME IInv, NEW s \in Slot, Ledger!Override(s)
  PROVE  AnsweredIn(s)
  <1>1. Ledger!Open(s) /\ AskMap[s].kind = "selector"
    BY DEF Ledger!Override, AskMap
  <1>2. PICK n : n = Named(asked[s].status)
    OBVIOUS
  <1>3. n = Ledger!Named(AskMap[s].status)
    BY <1>1, <1>2, OpenFacts DEF Named, Ledger!Named
  <1>4. \/ \E c \in Claim :
             /\ Ledger!ScopeOf(c) = AskMap[s].scope /\ StandingMap[c] # "unbound"
             /\ StandingMap' = [StandingMap EXCEPT ![c] = n]
        \/ StandingMap' = StandingMap
    BY <1>3 DEF Ledger!Override, StandingMap, AskMap
  <1>5. Ledger!Tell(s, {200, 500})
    BY DEF Ledger!Override
  <1>6. CASE StandingMap' = StandingMap
    BY <1>1, <1>5, <1>6, OpenFacts, TellFacts, SameStanding DEF AnsweredIn
  <1>7. ASSUME NEW c \in Claim,
               Ledger!ScopeOf(c) = AskMap[s].scope, StandingMap[c] # "unbound",
               StandingMap' = [StandingMap EXCEPT ![c] = n]
        PROVE  AnsweredIn(s)
    <2>1. /\ Standing(c)' = n
          /\ \A d \in Claim \ {c} : Standing(d)' = Standing(d)
      BY <1>7, OneStanding
    <2>2. Standing(c) # "unbound"
      BY <1>7 DEF StandingMap
    <2>3. asked[s].scope = ScopeOf(c)
      BY <1>1, <1>7, OpenFacts DEF Ledger!ScopeOf, ScopeOf
    <2> QED
      BY <1>1, <1>2, <1>5, <2>1, <2>2, <2>3, OpenFacts, TellFacts
         DEF AnsweredIn
  <1> QED
    BY <1>4, <1>6, <1>7

LEMMA RefuseServes ==
  ASSUME IInv, NEW s \in Slot, Ledger!Refuse(s)
  PROVE  AnsweredIn(s)
  <1>1. Ledger!Open(s)
    BY DEF Ledger!Refuse
  <1>2. StandingMap' = StandingMap /\ overridden' = overridden
    BY DEF Ledger!Refuse, StandingMap
  <1>3. \E S \in {{500, 502, 503}, {400, 404, 409}, {400, 404}, {404}} :
          Ledger!Tell(s, S)
    BY DEF Ledger!Refuse
  <1>4. told'[s] # 200 /\ \A r \in Slot \ {s} : told'[r] = told[r]
    BY <1>3, TellFacts
  <1> QED
    BY <1>1, <1>2, <1>4, OpenFacts, SameStanding DEF AnsweredIn, NothingDone

LEMMA StepServes ==
  ASSUME IInv, [Next]_vars
  PROVE  \/ \E s \in Slot : AnsweredIn(s)
         \/ NothingDone /\ \A s \in Slot : told'[s] \in {told[s], None}
  <1>1. CASE UNCHANGED <<StandingMap, overridden, AskMap, told>>
    BY <1>1, SameStanding DEF NothingDone
  <1>2. ASSUME NEW s \in Slot, Ledger!Submit(s)
        PROVE  NothingDone /\ \A r \in Slot : told'[r] \in {told[r], None}
    <2>1. UNCHANGED <<StandingMap, overridden, told>>
      BY <1>2 DEF Ledger!Submit, StandingMap
    <2> QED
      BY <2>1, SameStanding DEF NothingDone
  <1>3. ASSUME NEW s \in Slot, Ledger!Close(s)
        PROVE  NothingDone /\ \A r \in Slot : told'[r] \in {told[r], None}
    <2>1. UNCHANGED <<StandingMap, overridden>>
      BY <1>3 DEF Ledger!Close, StandingMap
    <2>2. \A r \in Slot : told'[r] \in {told[r], None}
      BY <1>3 DEF Ledger!Close, IInv, TypeOK
    <2> QED
      BY <2>1, <2>2, SameStanding DEF NothingDone
  <1>4. CASE Ledger!Next
    <2>1. PICK s \in Slot :
            \/ Ledger!Submit(s) \/ Ledger!Bind(s) \/ Ledger!SetStanding(s)
            \/ Ledger!Override(s) \/ Ledger!Refuse(s) \/ Ledger!Close(s)
      BY <1>4 DEF Ledger!Next
    <2> QED
      BY <1>2, <1>3, <2>1, BindServes, SetStandingServes, OverrideServes,
         RefuseServes
  <1> QED
    BY <1>1, <1>4, LedgerStep

(* No request changes a credential that is not its own.                    *)
THEOREM OnlyOwnClaims == Spec => RequestsChangeTheirOwn
  <1> DEFINE Own ==
        \A c \in Claim :
          Standing(c)' # Standing(c) =>
            \E s \in Slot :
               /\ asked[s] # None /\ Concerns(asked[s], c)
               /\ told[s] = None /\ told'[s] \in {200, 409, 500}
               /\ \A d \in Claim \ {c} : Standing(d)' = Standing(d)
  <1>1. IInv /\ [Next]_vars => [Own]_vars
    <2> SUFFICES ASSUME IInv, Next, NEW c \in Claim, Standing(c)' # Standing(c)
                 PROVE  \E s \in Slot :
                           /\ asked[s] # None /\ Concerns(asked[s], c)
                           /\ told[s] = None /\ told'[s] \in {200, 409, 500}
                           /\ \A d \in Claim \ {c} : Standing(d)' = Standing(d)
      OBVIOUS
    <2>1. PICK s \in Slot : AnsweredIn(s)
      BY StepServes DEF NothingDone
    <2>2. asked[s] # None /\ told[s] = None
      BY <2>1, NoneAssumption DEF AnsweredIn
    <2>3. PICK e \in Claim :
            /\ \A d \in Claim \ {e} : Standing(d)' = Standing(d)
            /\ Concerns(asked[s], e) /\ told'[s] \in {200, 409, 500}
      BY <2>1 DEF AnsweredIn, NothingDone, Concerns
    <2>4. e = c
      BY <2>3
    <2> WITNESS s \in Slot
    <2> QED
      BY <2>2, <2>3, <2>4
  <1> QED
    BY <1>1, Invariance, PTL DEF Spec, RequestsChangeTheirOwn

(* What is answered as done has been done.                                 *)
THEOREM DoneIsDone == Spec => DoneMeansDone
  <1> DEFINE Done ==
        \A s \in Slot, c \in Claim :
          told[s] = None /\ told'[s] = 200 /\ asked[s].kind # "selector"
            /\ asked[s].claim = c =>
               /\ asked[s].kind = "allocate" =>
                    Standing(c) = "unbound" /\ Standing(c)' # "unbound"
               /\ asked[s].kind = "status" =>
                    /\ Standing(c) # "unbound"
                    /\ Standing(c)' = Named(asked[s].status)
  <1>1. IInv /\ [Next]_vars => [Done]_vars
    <2> SUFFICES ASSUME IInv, Next, NEW s \in Slot, NEW c \in Claim,
                        told[s] = None, told'[s] = 200,
                        asked[s].kind # "selector", asked[s].claim = c
                 PROVE  /\ asked[s].kind = "allocate" =>
                             Standing(c) = "unbound" /\ Standing(c)' # "unbound"
                        /\ asked[s].kind = "status" =>
                             /\ Standing(c) # "unbound"
                             /\ Standing(c)' = Named(asked[s].status)
      OBVIOUS
    <2>1. 200 # None
      BY NoStatusIsNone
    <2>2. PICK r \in Slot : AnsweredIn(r)
      BY <2>1, StepServes
    <2>3. r = s
      BY <2>1, <2>2 DEF AnsweredIn
    <2> QED
      BY <2>2, <2>3 DEF AnsweredIn
  <1> QED
    BY <1>1, Invariance, PTL DEF Spec, DoneMeansDone

(* What is answered as refused has left no trace.                          *)
THEOREM RefusedIsNothing == Spec => RefusedMeansNothing
  <1> DEFINE Refused ==
        \A s \in Slot :
          told[s] = None /\ told'[s] \in {400, 404, 502, 503} => NothingDone
  <1>1. IInv /\ [Next]_vars => [Refused]_vars
    <2> SUFFICES ASSUME IInv, Next, NEW s \in Slot, told[s] = None,
                        told'[s] \in {400, 404, 502, 503}
                 PROVE  NothingDone
      OBVIOUS
    <2>1. None \notin {400, 404, 502, 503}
      BY NoStatusIsNone
    <2>2. NothingDone \/ \E r \in Slot : AnsweredIn(r)
      BY StepServes
    <2>3. ASSUME NEW r \in Slot, AnsweredIn(r) PROVE NothingDone
      <3>1. r = s
        BY <2>1, <2>3 DEF AnsweredIn
      <3> QED
        BY <2>3, <3>1 DEF AnsweredIn
    <2> QED
      BY <2>2, <2>3
  <1> QED
    BY <1>1, Invariance, PTL DEF Spec, RefusedMeansNothing

(* An entry is for life.                                                   *)
THEOREM BoundForLife == Spec => ClaimsStayBound
  <1> DEFINE Kept ==
        \A c \in Claim : Standing(c) # "unbound" => Standing(c)' # "unbound"
  <1>1. IInv /\ [Next]_vars => [Kept]_vars
    <2> SUFFICES ASSUME IInv, Next, NEW c \in Claim, Standing(c) # "unbound"
                 PROVE  Standing(c)' # "unbound"
      OBVIOUS
    <2>1. CASE NothingDone
      BY <2>1 DEF NothingDone
    <2>2. ASSUME NEW s \in Slot, AnsweredIn(s) PROVE Standing(c)' # "unbound"
      <3>1. Named(asked[s].status) # "unbound"
        BY DEF Named
      <3> QED
        BY <2>2, <3>1 DEF AnsweredIn, NothingDone
    <2> QED
      BY <2>1, <2>2, StepServes
  <1> QED
    BY <1>1, Invariance, PTL DEF Spec, ClaimsStayBound
=============================================================================
