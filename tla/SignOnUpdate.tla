---------------------------- MODULE SignOnUpdate ----------------------------
(***************************************************************************)
(* Creating a status list and setting its bits: createList and setStatus   *)
(* of service/src/status-lists/manager.ts over createStatusList and        *)
(* updateStatusList of service/src/services/storage-sql.ts, with one       *)
(* action for each step between two awaits that another request, a crash   *)
(* or a failing dependency can come between.                               *)
(*                                                                         *)
(* Several server processes share one Postgres database, or one process    *)
(* has its SQLite file; the database survives every crash.  A request is   *)
(* made once; a client that retries makes another one.                     *)
(***************************************************************************)
EXTENDS StatusListData

CONSTANTS
  Home,    \* the server each request is routed to
  Client   \* the HTTP caches that revalidate what they hold

ASSUME HomeAssumption == Home \in [Request -> Server]

VARIABLES
  row,       \* the table status_lists: the row of each list, or None
  lock,      \* the request whose transaction holds the row, or None
  registry,  \* the issuer instances each server was started with
  op,        \* the operation of each request, None before it is made
  phase,     \* where each request stands in its handler
  seen,      \* the row a request read last, None when it holds none
  built,     \* the materialization it signed, None before that
  outcome,   \* what it came to, None until then
  copy       \* the version and credential each client holds of each list

vars == <<row, lock, registry, op, phase, seen, built, outcome, copy>>

Copy == [version : Nat, credential : Credential]

ASSUME NoCopyAssumption == None \notin Copy

Phase ==
  {"idle", "creating", "minting", "inserting", "reading", "resolving",
   "waiting", "applying", "signing", "writing", "done", "lost"}

(* The phases of a request whose transaction holds the row.                *)
Holding == {"applying", "signing", "writing"}

(* The phases in which a server is working on a request.                   *)
Busy == Phase \ {"idle", "done", "lost"}

TypeOK ==
  /\ row \in [List -> Row \cup {None}]
  /\ lock \in [List -> Request \cup {None}]
  /\ registry \in [Server -> SUBSET Instance]
  /\ op \in [Request -> Operation \cup {None}]
  /\ phase \in [Request -> Phase]
  /\ seen \in [Request -> Row \cup {None}]
  /\ built \in [Request -> Materialization \cup {None}]
  /\ outcome \in [Request -> Outcome \cup {None}]
  /\ copy \in [Client \X List -> Copy \cup {None}]

(* The service starts over whatever lists an earlier process left, none of *)
(* them written to yet, with any set of instances configured.              *)
FreshRow ==
  {NewRow(i, Materialize(i, u, {})) : i \in Instance, u \in Url}

Init ==
  /\ row \in [List -> FreshRow \cup {None}]
  /\ lock = [l \in List |-> None]
  /\ registry \in [Server -> SUBSET Instance]
  /\ op = [r \in Request |-> None]
  /\ phase = [r \in Request |-> "idle"]
  /\ seen = [r \in Request |-> None]
  /\ built = [r \in Request |-> None]
  /\ outcome = [r \in Request |-> None]
  /\ copy = [c \in Client \X List |-> None]

-----------------------------------------------------------------------------
(* Steps of a handler                                                      *)

Goto(r, from, to) ==
  phase[r] = from /\ phase' = [phase EXCEPT ![r] = to]

(* The handler returns or throws, and the routes turn either into an       *)
(* answer.  Whether the answer reaches the client changes nothing here.    *)
Answer(r, code, version) ==
  /\ phase' = [phase EXCEPT ![r] = "done"]
  /\ outcome' = [outcome EXCEPT ![r] = [code |-> code, version |-> version]]
  /\ seen' = [seen EXCEPT ![r] = None]
  /\ built' = [built EXCEPT ![r] = None]

(* The transaction ends, by commit or by rollback, and lets the row go.    *)
(* Mutant: a failing mutation leaves the row locked.                       *)
ReleaseOnSuccess(r) ==
  lock' = IF phase[r] \in {"signing"}
          THEN lock
          ELSE [l \in List |-> IF lock[l] = r THEN None ELSE lock[l]]

Release(r) ==
  lock' = [l \in List |-> IF lock[l] = r THEN None ELSE lock[l]]

KnownTo(r, instance) == instance \in registry[Home[r]]

(* A client makes its request.                                             *)
Submit(r) ==
  /\ phase[r] = "idle"
  /\ \E o \in Operation :
        /\ op' = [op EXCEPT ![r] = o]
        /\ phase' = [phase EXCEPT ![r] =
                       IF o.kind = "create" THEN "creating" ELSE "reading"]
  /\ UNCHANGED <<row, lock, registry, seen, built, outcome, copy>>

-----------------------------------------------------------------------------
(* Creating a list                                                         *)

(* createStatusListHandler resolves the issuer instance to sign with.      *)
ResolveForCreate(r) ==
  /\ phase[r] = "creating"
  /\ \/ /\ KnownTo(r, op[r].instance)
        /\ Goto(r, "creating", "minting")
        /\ UNCHANGED <<seen, built, outcome>>
     \/ /\ ~KnownTo(r, op[r].instance)
        /\ Answer(r, "issuer-instance-unavailable", 0)
  /\ UNCHANGED <<row, lock, registry, op, copy>>

(* createList signs an all-zero list before it touches the database.       *)
MintList(r) ==
  /\ Goto(r, "minting", "inserting")
  /\ built' = [built EXCEPT ![r] =
                 Materialize(op[r].instance, op[r].url, {})]
  /\ UNCHANGED <<row, lock, registry, op, seen, outcome, copy>>

(* The insert into status_lists, whose primary key is the list's id.  When *)
(* it throws, createStatusList reads the id back and reports a duplicate   *)
(* if it finds one.                                                        *)
(* Mutant: an upsert instead of an insert.                                 *)
UpsertList(r) ==
  /\ phase[r] = "inserting"
  /\ row' = [row EXCEPT ![op[r].list] = NewRow(op[r].instance, built[r])]
  /\ Answer(r, "created", 1)
  /\ UNCHANGED <<lock, registry, op, copy>>

InsertList(r) ==
  LET l == op[r].list IN
  /\ phase[r] = "inserting"
  /\ \/ /\ row[l] = None
        /\ row' = [row EXCEPT ![l] = NewRow(op[r].instance, built[r])]
        /\ Answer(r, "created", 1)
     \/ /\ row[l] # None
        /\ Answer(r, "duplicate-list", 0)
        /\ UNCHANGED row
  /\ UNCHANGED <<lock, registry, op, copy>>

(* The insert takes effect and its acknowledgement is lost: the read-back  *)
(* finds the request's own row, or fails as well.                          *)
InsertUnacknowledged(r) ==
  LET l == op[r].list IN
  /\ phase[r] = "inserting"
  /\ row[l] = None
  /\ row' = [row EXCEPT ![l] = NewRow(op[r].instance, built[r])]
  /\ \E code \in {"duplicate-list", "storage-failed"} : Answer(r, code, 1)
  /\ UNCHANGED <<lock, registry, op, copy>>

-----------------------------------------------------------------------------
(* Setting one bit                                                         *)

(* setStatus reads the list, outside any transaction.                      *)
ReadList(r) ==
  LET l == op[r].list IN
  /\ phase[r] = "reading"
  /\ \/ /\ row[l] = None
        /\ Answer(r, "list-not-found", 0)
     \/ /\ row[l] # None
        /\ Goto(r, "reading", "resolving")
        /\ seen' = [seen EXCEPT ![r] = row[l]]
        /\ UNCHANGED <<built, outcome>>
  /\ UNCHANGED <<row, lock, registry, op, copy>>

(* #instanceFor, before the transaction opens: the instance binding of a   *)
(* list is immutable.                                                      *)
ResolveInstance(r) ==
  /\ phase[r] = "resolving"
  /\ \/ /\ KnownTo(r, seen[r].issuerInstance)
        /\ Goto(r, "resolving", "waiting")
        /\ UNCHANGED <<seen, built, outcome>>
     \/ /\ ~KnownTo(r, seen[r].issuerInstance)
        /\ Answer(r, "issuer-instance-unavailable", 0)
  /\ UNCHANGED <<row, lock, registry, op, copy>>

(* The transaction opens and locks the row; the record handed to the       *)
(* mutation is the one read under the lock.  Lists are never deleted, so   *)
(* the row read at the start of setStatus is still there.                  *)
(* Mutant: without "for update".                                           *)
LockRowShared(r) ==
  LET l == op[r].list IN
  /\ Goto(r, "waiting", "applying")
  /\ lock' = [lock EXCEPT ![l] = r]
  /\ seen' = [seen EXCEPT ![r] = row[l]]
  /\ UNCHANGED <<row, registry, op, built, outcome, copy>>

(* Mutant: the record read before the transaction is mutated.              *)
LockRowStale(r) ==
  LET l == op[r].list IN
  /\ Goto(r, "waiting", "applying")
  /\ lock[l] = None
  /\ lock' = [lock EXCEPT ![l] = r]
  /\ UNCHANGED <<row, registry, op, seen, built, outcome, copy>>

LockRow(r) ==
  LET l == op[r].list IN
  /\ Goto(r, "waiting", "applying")
  /\ lock[l] = None
  /\ lock' = [lock EXCEPT ![l] = r]
  /\ seen' = [seen EXCEPT ![r] = row[l]]
  /\ UNCHANGED <<row, registry, op, built, outcome, copy>>

(* #applyStatus up to the signature: an index out of range throws, a       *)
(* redundant write returns with nothing to write, both ending the          *)
(* transaction; any other write goes on to sign.                           *)
(* Mutant: without the range check.                                        *)
ApplyStatusUnchecked(r) ==
  LET o == op[r] IN
  /\ phase[r] = "applying"
  /\ \/ /\ (o.index \in seen[r].bits) = o.status
        /\ Answer(r, "unchanged", seen[r].version)
        /\ Release(r)
     \/ /\ (o.index \in seen[r].bits) # o.status
        /\ Goto(r, "applying", "signing")
        /\ UNCHANGED <<lock, seen, built, outcome>>
  /\ UNCHANGED <<row, registry, op, copy>>

(* Mutant: a redundant write reports the version it would have made.       *)
ApplyStatusMiscounts(r) ==
  LET o == op[r] IN
  /\ phase[r] = "applying"
  /\ \/ /\ o.index = BeyondEnd
        /\ Answer(r, "index-out-of-range", 0)
        /\ Release(r)
     \/ /\ o.index # BeyondEnd
        /\ (o.index \in seen[r].bits) = o.status
        /\ Answer(r, "unchanged", seen[r].version + 1)
        /\ Release(r)
     \/ /\ o.index # BeyondEnd
        /\ (o.index \in seen[r].bits) # o.status
        /\ Goto(r, "applying", "signing")
        /\ UNCHANGED <<lock, seen, built, outcome>>
  /\ UNCHANGED <<row, registry, op, copy>>

ApplyStatus(r) ==
  LET o == op[r] IN
  /\ phase[r] = "applying"
  /\ \/ /\ o.index = BeyondEnd
        /\ Answer(r, "index-out-of-range", 0)
        /\ Release(r)
     \/ /\ o.index # BeyondEnd
        /\ (o.index \in seen[r].bits) = o.status
        /\ Answer(r, "unchanged", seen[r].version)
        /\ Release(r)
     \/ /\ o.index # BeyondEnd
        /\ (o.index \in seen[r].bits) # o.status
        /\ Goto(r, "applying", "signing")
        /\ UNCHANGED <<lock, seen, built, outcome>>
  /\ UNCHANGED <<row, registry, op, copy>>

(* #materialize inside the transaction: the list's new credential, under   *)
(* the URL the list was created with, signed by the list's own instance.   *)
SignUpdate(r) ==
  /\ Goto(r, "signing", "writing")
  /\ built' = [built EXCEPT ![r] =
                 Materialize(seen[r].issuerInstance, seen[r].credential.url,
                             SetBit(seen[r].bits, op[r].index, op[r].status))]
  /\ UNCHANGED <<row, lock, registry, op, seen, outcome, copy>>

(* The update and the commit.  The version written is that of the row the  *)
(* transaction locked, plus one.                                           *)
CommitWith(r, code) ==
  /\ phase[r] = "writing"
  /\ row' = [row EXCEPT ![op[r].list] = UpdatedRow(seen[r], built[r])]
  /\ Answer(r, code, seen[r].version + 1)
  /\ Release(r)
  /\ UNCHANGED <<registry, op, copy>>

CommitUpdate(r) == CommitWith(r, "changed")

(* The commit takes effect and its acknowledgement is lost.                *)
CommitUnacknowledged(r) == CommitWith(r, "storage-failed")

-----------------------------------------------------------------------------
(* What goes wrong                                                         *)

(* The signing service refuses, cannot be reached or answers too slowly;   *)
(* the exception rolls the transaction back.                               *)
SigningFails(r) ==
  /\ phase[r] \in {"minting", "signing"}
  /\ Answer(r, "signing-failed", 0)
  /\ Release(r)
  /\ UNCHANGED <<row, registry, op, copy>>

(* A statement fails and nothing it was to do is done: the connection to   *)
(* the database is lost, and with it the transaction.                      *)
StorageFails(r) ==
  /\ phase[r] \in {"inserting", "reading", "waiting", "writing"}
  /\ Answer(r, "storage-failed", 0)
  /\ Release(r)
  /\ UNCHANGED <<row, registry, op, copy>>

(* A server dies, or shuts down without draining: its requests are lost,   *)
(* its open transactions are rolled back by the database, and it restarts  *)
(* with whatever instances its environment then names.                     *)
Crash(s) ==
  LET dead(r) == Home[r] = s /\ phase[r] \in Busy IN
  /\ phase' = [r \in Request |-> IF dead(r) THEN "lost" ELSE phase[r]]
  /\ seen' = [r \in Request |-> IF dead(r) THEN None ELSE seen[r]]
  /\ built' = [r \in Request |-> IF dead(r) THEN None ELSE built[r]]
  /\ lock' = [l \in List |->
                IF \E r \in Request : dead(r) /\ lock[l] = r
                THEN None ELSE lock[l]]
  /\ \E known \in SUBSET Instance :
        registry' = [registry EXCEPT ![s] = known]
  /\ UNCHANGED <<row, op, outcome, copy>>

-----------------------------------------------------------------------------
(* Serving a list: getStatusListHandler answers 304 when the client's      *)
(* If-None-Match is the version, and the stored credential otherwise.      *)
HasCurrent(c, l) ==
  copy[<<c, l>>] # None /\ copy[<<c, l>>].version = row[l].version

GetList(c, l) ==
  /\ row[l] # None
  /\ \/ /\ HasCurrent(c, l)
        /\ UNCHANGED copy
     \/ /\ ~HasCurrent(c, l)
        /\ copy' = [copy EXCEPT ![<<c, l>>] =
                      [version |-> row[l].version,
                       credential |-> row[l].credential]]
  /\ UNCHANGED <<row, lock, registry, op, phase, seen, built, outcome>>

-----------------------------------------------------------------------------
(* The steps a request takes by itself once it is made, other than being   *)
(* given the row lock.                                                     *)
Progress(r) ==
  \/ ResolveForCreate(r) \/ MintList(r) \/ InsertList(r)
  \/ ReadList(r) \/ ResolveInstance(r) \/ ApplyStatus(r) \/ SignUpdate(r)
  \/ CommitUpdate(r) \/ SigningFails(r)

Fault(r) ==
  InsertUnacknowledged(r) \/ CommitUnacknowledged(r) \/ StorageFails(r)

Next ==
  \/ \E r \in Request : Submit(r) \/ Progress(r) \/ LockRow(r) \/ Fault(r)
  \/ \E s \in Server : Crash(s)
  \/ \E c \in Client, l \in List : GetList(c, l)

(* The event loop runs every continuation, the database and the signer     *)
(* answer or fail, and the database queues the transactions that wait for  *)
(* a row, so none is passed over for ever.                                 *)
Fairness ==
  \A r \in Request : WF_vars(Progress(r)) /\ SF_vars(LockRow(r))

Safety == Init /\ [][Next]_vars

Spec == Safety /\ Fairness

-----------------------------------------------------------------------------
(* Properties                                                              *)

(* A request holds the row from the lock to the end of its transaction,    *)
(* one request at a time, and what it read under the lock is still what is *)
(* stored when it writes (lockStatusList, storage-sql.ts).                 *)
RowLockHolds ==
  /\ \A r \in Request :
        phase[r] \in Holding =>
          lock[op[r].list] = r /\ seen[r] = row[op[r].list]
  /\ \A l \in List :
        lock[l] # None => phase[lock[l]] \in Holding /\ op[lock[l]].list = l

(* What a request holds in each phase of its handler, and that a request   *)
(* has an outcome exactly when its handler came to an end.                 *)
SetPhase == {"reading", "resolving", "waiting"} \cup Holding

HandlerState ==
  \A r \in Request :
     LET o == op[r] IN
     /\ phase[r] = "idle" <=> o = None
     /\ phase[r] = "done" <=> outcome[r] # None
     /\ phase[r] \in {"creating", "minting", "inserting"} => o \in CreateOp
     /\ phase[r] \in SetPhase => o \in SetOp
     /\ phase[r] \in SetPhase \ {"reading"} =>
          /\ seen[r] # None /\ row[o.list] # None
          /\ seen[r].issuerInstance = row[o.list].issuerInstance
     /\ phase[r] = "inserting" =>
          built[r] = Materialize(o.instance, o.url, {})
     /\ phase[r] \in {"signing", "writing"} =>
          o.index \in Index /\ (o.index \in seen[r].bits) # o.status
     /\ phase[r] = "writing" =>
          built[r] = Materialize(seen[r].issuerInstance,
                                 seen[r].credential.url,
                                 SetBit(seen[r].bits, o.index, o.status))

(* The stored credential always publishes the stored bits, under the       *)
(* issuer the list is bound to (storage-sql.ts, "bits and the signed       *)
(* credential that publishes them change together, or not at all").        *)
CredentialPublishesBits ==
  \A l \in List :
     row[l] # None =>
       /\ row[l].credential.bits = row[l].bits
       /\ row[l].credential.issuer = row[l].issuerInstance

(* r's write of the index of list l is in the database.                    *)
Committed(r, l) ==
  /\ op[r] # None /\ op[r].kind = "set" /\ op[r].list = l
  /\ outcome[r] # None
  /\ outcome[r].code \in {"changed", "storage-failed"}
  /\ outcome[r].version # 0

(* Every version after the first was made by exactly one request: no two   *)
(* flips share a version and no version appears without a request.         *)
VersionsHaveOneWriter ==
  \A l \in List :
     /\ \A r \in Request :
          Committed(r, l) =>
            row[l] # None /\ outcome[r].version \in 2 .. row[l].version
     /\ \A r, q \in Request :
          /\ Committed(r, l) /\ Committed(q, l)
          /\ outcome[r].version = outcome[q].version
          => r = q
     /\ row[l] # None =>
          \A v \in 2 .. row[l].version :
             \E r \in Request : Committed(r, l) /\ outcome[r].version = v

(* The bit of index i of list l at version v, by the writes made up to it: *)
(* what the last of them wrote, 0 when there is none.                      *)
BitAt(l, i, v) ==
  \E r \in Request :
     /\ Committed(r, l) /\ op[r].index = i /\ op[r].status
     /\ outcome[r].version <= v
     /\ \A q \in Request :
          /\ Committed(q, l) /\ op[q].index = i
          /\ outcome[q].version <= v
          => outcome[q].version <= outcome[r].version

(* No lost update: each stored bit is what its last writer made it,        *)
(* whichever requests, failures and crashes came between.                  *)
NoLostFlip ==
  \A l \in List :
     row[l] # None =>
       \A i \in Index : (i \in row[l].bits) = BitAt(l, i, row[l].version)

(* A write answered as redundant was redundant at the version it names,    *)
(* and that version exists.                                                *)
RedundantAnswerIsTrue ==
  \A r \in Request :
     outcome[r] # None /\ outcome[r].code = "unchanged" =>
       LET o == op[r] IN
       /\ row[o.list] # None /\ outcome[r].version <= row[o.list].version
       /\ BitAt(o.list, o.index, outcome[r].version) = o.status

(* The ETag names the bytes: a client whose copy has the stored version    *)
(* holds the stored credential, so a 304 never confirms stale bytes; and   *)
(* two copies of one version are the same (routes/status-lists.ts, "a      *)
(* given version is byte-identical wherever it is served").                *)
VersionNamesCredential ==
  \A l \in List, c \in Client :
     copy[<<c, l>>] # None =>
       /\ row[l] # None /\ copy[<<c, l>>].version <= row[l].version
       /\ copy[<<c, l>>].version = row[l].version =>
            copy[<<c, l>>].credential = row[l].credential
       /\ \A d \in Client :
            /\ copy[<<d, l>>] # None
            /\ copy[<<d, l>>].version = copy[<<c, l>>].version
            => copy[<<d, l>>].credential = copy[<<c, l>>].credential

(* Each request takes effect atomically, or not at all, and is answered    *)
(* with what it did: the handlers implement AtomicStatusLists.             *)
Atomic ==
  INSTANCE AtomicStatusLists
    WITH lists <- row, submitted <- op, result <- outcome

RequestsAreAtomic == Atomic!Spec

(* Every request is answered, unless its server dies first: neither a      *)
(* failing signature nor a dead holder keeps a list locked.                *)
EveryRequestEnds ==
  \A r \in Request :
     phase[r] \in Busy ~> phase[r] \in {"done", "lost"}
=============================================================================
