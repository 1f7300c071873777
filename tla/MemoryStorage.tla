--------------------------- MODULE MemoryStorage ---------------------------
(***************************************************************************)
(* The in-memory backend, service/src/services/storage-memory.ts, under    *)
(* the handlers of createList and setStatus.  It has no rows to lock: the  *)
(* updates of one list are serialized by a chain of promises.  #locks maps *)
(* a list to the promise of the update that arrived last, a new update     *)
(* runs when that promise settles either way, and an update that ends      *)
(* removes the entry if nobody came after it.                              *)
(*                                                                         *)
(* There is one process.  An action is what runs between two awaits; a     *)
(* restart loses the lists, the entries and every request in progress.     *)
(***************************************************************************)
EXTENDS StatusListData

CONSTANTS
  Claim,     \* what an entry is allocated for: tenant, credential, purpose
  Client,    \* the HTTP caches that revalidate what they hold
  MaxLives   \* how many lives of the process are followed

ASSUME MaxLivesAssumption == MaxLives \in Nat \ {0}

VARIABLES
  lists,        \* #lists: the row of each list, None while there is none
  allocations,  \* #allocations: the entry of each claim, or None
  used,         \* #usedIndexes: the allocated indexes of each list
  tail,         \* #locks: the last update of each list, or None
  behind,       \* the update each one waits for: updateStatusList's previous
  op,           \* the operation of each request, None before it is made
  phase,        \* where each request stands
  seen,         \* the row handed to its mutation, None when it holds none
  built,        \* what its mutation returned to write, None before that
  outcome,      \* what it came to, None until then
  copy,         \* what each client holds of each list
  life          \* which life of the process this is

tables == <<lists, allocations, used>>
handlers == <<op, phase, seen, built, outcome>>
vars == <<tables, tail, behind, handlers, copy, life>>

Entry == [list : List, index : Index]

ASSUME EntryAssumption == None \notin Entry

Copy == [life : 1 .. MaxLives, version : Nat, credential : Credential]

(* "settled" is an update whose promise is settled and whose finally block *)
(* has not run yet.                                                        *)
Phase ==
  {"idle", "minting", "inserting", "reading", "calling", "queued",
   "applying", "signing", "writing", "settled", "done", "lost"}

(* The updates whose mutation is running, and those that have not settled. *)
Running == {"applying", "signing", "writing"}
Pending == Running \cup {"queued"}

TypeOK ==
  /\ lists \in [List -> Row \cup {None}]
  /\ allocations \in [Claim -> Entry \cup {None}]
  /\ used \in [List -> SUBSET Index]
  /\ tail \in [List -> Request \cup {None}]
  /\ behind \in [Request -> Request \cup {None}]
  /\ op \in [Request -> Operation \cup {None}]
  /\ phase \in [Request -> Phase]
  /\ seen \in [Request -> Row \cup {None}]
  /\ built \in [Request -> Materialization \cup {None}]
  /\ outcome \in [Request -> Outcome \cup {None}]
  /\ copy \in [Client \X List -> Copy \cup {None}]
  /\ life \in 1 .. MaxLives

(* The process is followed from a moment when nothing is in progress and   *)
(* some of its lists have been created and not written to.                 *)
FreshRow ==
  {NewRow(i, Materialize(i, u, {})) : i \in Instance, u \in Url}

Init ==
  /\ lists \in [List -> FreshRow \cup {None}]
  /\ allocations = [c \in Claim |-> None]
  /\ used = [l \in List |-> {}]
  /\ tail = [l \in List |-> None]
  /\ behind = [r \in Request |-> None]
  /\ op = [r \in Request |-> None]
  /\ phase = [r \in Request |-> "idle"]
  /\ seen = [r \in Request |-> None]
  /\ built = [r \in Request |-> None]
  /\ outcome = [r \in Request |-> None]
  /\ copy = [k \in Client \X List |-> None]
  /\ life = 1

-----------------------------------------------------------------------------
(* The handlers                                                            *)

Goto(r, from, to) ==
  phase[r] = from /\ phase' = [phase EXCEPT ![r] = to]

(* The promise of a request settles, with a result or an error.            *)
Settle(r, to, code, version) ==
  /\ phase' = [phase EXCEPT ![r] = to]
  /\ outcome' = [outcome EXCEPT ![r] = [code |-> code, version |-> version]]
  /\ seen' = [seen EXCEPT ![r] = None]
  /\ built' = [built EXCEPT ![r] = None]

Submit(r) ==
  /\ phase[r] = "idle"
  /\ \E o \in Operation :
        /\ op' = [op EXCEPT ![r] = o]
        /\ phase' = [phase EXCEPT ![r] =
                       IF o.kind = "create" THEN "minting" ELSE "reading"]
  /\ UNCHANGED <<tables, tail, behind, seen, built, outcome, copy, life>>

(* createList signs an all-zero list, or fails to, and then stores it.     *)
MintList(r) ==
  /\ phase[r] = "minting"
  /\ \/ /\ Goto(r, "minting", "inserting")
        /\ built' = [built EXCEPT ![r] =
                       Materialize(op[r].instance, op[r].url, {})]
        /\ UNCHANGED <<seen, outcome>>
     \/ Settle(r, "done", "signing-failed", 0)
  /\ UNCHANGED <<tables, tail, behind, op, copy, life>>

(* createStatusList, which runs to its end without an await.               *)
CreateStatusList(r) ==
  LET l == op[r].list IN
  /\ phase[r] = "inserting"
  /\ \/ /\ lists[l] = None
        /\ lists' = [lists EXCEPT ![l] = NewRow(op[r].instance, built[r])]
        /\ Settle(r, "done", "created", 1)
     \/ /\ lists[l] # None
        /\ Settle(r, "done", "duplicate-list", 0)
        /\ UNCHANGED lists
  /\ UNCHANGED <<allocations, used, tail, behind, op, copy, life>>

(* setStatus reads the list and resolves its issuer instance, which the    *)
(* process that created the list knows as long as it lives.                *)
ReadList(r) ==
  /\ phase[r] = "reading"
  /\ \/ /\ lists[op[r].list] = None
        /\ Settle(r, "done", "list-not-found", 0)
     \/ /\ lists[op[r].list] # None
        /\ Goto(r, "reading", "calling")
        /\ UNCHANGED <<seen, built, outcome>>
  /\ UNCHANGED <<tables, tail, behind, op, copy, life>>

-----------------------------------------------------------------------------
(* updateStatusList                                                        *)

(* The update joins the chain of its list.                                 *)
Enqueue(r) ==
  LET l == op[r].list IN
  /\ Goto(r, "calling", "queued")
  /\ behind' = [behind EXCEPT ![r] = tail[l]]
  /\ tail' = [tail EXCEPT ![l] = r]
  /\ UNCHANGED <<tables, op, seen, built, outcome, copy, life>>

Settled(r) == phase[r] \in {"settled", "done"}

(* .catch(() => undefined): whatever the one before came to, its turn is   *)
(* over.  #applyUpdate reads the list and hands it to the mutation; lists  *)
(* are never deleted while the process lives.                              *)
(* Mutant: without the catch, a failure is passed down the chain.          *)
StartUpdateChained(r) ==
  /\ phase[r] = "queued"
  /\ behind[r] # None => Settled(behind[r])
  /\ LET failed == /\ behind[r] # None
                   /\ outcome[behind[r]].code \notin {"changed", "unchanged"}
     IN \/ /\ failed
           /\ Settle(r, "settled", outcome[behind[r]].code, 0)
        \/ /\ ~failed
           /\ Goto(r, "queued", "applying")
           /\ seen' = [seen EXCEPT ![r] = lists[op[r].list]]
           /\ UNCHANGED <<built, outcome>>
  /\ UNCHANGED <<tables, tail, behind, op, copy, life>>

(* Mutant: a failure before it leaves the update waiting.                  *)
StartUpdateAfterSuccess(r) ==
  /\ Goto(r, "queued", "applying")
  /\ behind[r] # None =>
       /\ Settled(behind[r])
       /\ outcome[behind[r]].code \in {"changed", "unchanged"}
  /\ seen' = [seen EXCEPT ![r] = lists[op[r].list]]
  /\ UNCHANGED <<tables, tail, behind, op, built, outcome, copy, life>>

StartUpdate(r) ==
  /\ Goto(r, "queued", "applying")
  /\ behind[r] # None => Settled(behind[r])
  /\ seen' = [seen EXCEPT ![r] = lists[op[r].list]]
  /\ UNCHANGED <<tables, tail, behind, op, built, outcome, copy, life>>

(* The mutation: an index out of range throws, a redundant write returns   *)
(* nothing to write, any other one goes on to sign.                        *)
(* Mutant: without the range check.                                        *)
ApplyStatusUnchecked(r) ==
  LET o == op[r] IN
  /\ phase[r] = "applying"
  /\ \/ /\ (o.index \in seen[r].bits) = o.status
        /\ Settle(r, "settled", "unchanged", seen[r].version)
     \/ /\ (o.index \in seen[r].bits) # o.status
        /\ Goto(r, "applying", "signing")
        /\ UNCHANGED <<seen, built, outcome>>
  /\ UNCHANGED <<tables, tail, behind, op, copy, life>>

ApplyStatus(r) ==
  LET o == op[r] IN
  /\ phase[r] = "applying"
  /\ \/ /\ o.index = BeyondEnd
        /\ Settle(r, "settled", "index-out-of-range", 0)
     \/ /\ o.index # BeyondEnd
        /\ (o.index \in seen[r].bits) = o.status
        /\ Settle(r, "settled", "unchanged", seen[r].version)
     \/ /\ o.index # BeyondEnd
        /\ (o.index \in seen[r].bits) # o.status
        /\ Goto(r, "applying", "signing")
        /\ UNCHANGED <<seen, built, outcome>>
  /\ UNCHANGED <<tables, tail, behind, op, copy, life>>

SignUpdate(r) ==
  /\ phase[r] = "signing"
  /\ \/ /\ Goto(r, "signing", "writing")
        /\ built' = [built EXCEPT ![r] =
                       Materialize(seen[r].issuerInstance,
                                   seen[r].credential.url,
                                   SetBit(seen[r].bits, op[r].index,
                                          op[r].status))]
        /\ UNCHANGED <<seen, outcome>>
     \/ Settle(r, "settled", "signing-failed", 0)
  /\ UNCHANGED <<tables, tail, behind, op, copy, life>>

(* #applyUpdate writes over the record it read before the mutation ran.    *)
WriteUpdate(r) ==
  /\ phase[r] = "writing"
  /\ lists' = [lists EXCEPT ![op[r].list] = UpdatedRow(seen[r], built[r])]
  /\ Settle(r, "settled", "changed", seen[r].version + 1)
  /\ UNCHANGED <<allocations, used, tail, behind, op, copy, life>>

(* The finally block: the chain's entry goes with its last update.         *)
(* Mutant: it goes with any update.                                        *)
LeaveQueueAlways(r) ==
  /\ Goto(r, "settled", "done")
  /\ tail' = [tail EXCEPT ![op[r].list] = None]
  /\ behind' = [behind EXCEPT ![r] = None]
  /\ UNCHANGED <<tables, op, seen, built, outcome, copy, life>>

(* Mutant: it stays.                                                       *)
LeaveQueueNever(r) ==
  /\ Goto(r, "settled", "done")
  /\ behind' = [behind EXCEPT ![r] = None]
  /\ UNCHANGED <<tables, tail, op, seen, built, outcome, copy, life>>

LeaveQueue(r) ==
  LET l == op[r].list IN
  /\ Goto(r, "settled", "done")
  /\ tail' = [tail EXCEPT ![l] = IF @ = r THEN None ELSE @]
  /\ behind' = [behind EXCEPT ![r] = None]
  /\ UNCHANGED <<tables, op, seen, built, outcome, copy, life>>

-----------------------------------------------------------------------------
(* Entries                                                                 *)

(* allocateIndex, which runs to its end without an await, when it binds;   *)
(* in every other case it throws and changes nothing.                      *)
(* Mutant: it does not look at the index.                                  *)
AllocateTaken(c, l, i) ==
  /\ lists[l] # None /\ allocations[c] = None
  /\ allocations' = [allocations EXCEPT ![c] = [list |-> l, index |-> i]]
  /\ used' = [used EXCEPT ![l] = @ \cup {i}]
  /\ UNCHANGED <<lists, tail, behind, handlers, copy, life>>

AllocateIndex(c, l, i) ==
  /\ lists[l] # None /\ allocations[c] = None /\ i \notin used[l]
  /\ allocations' = [allocations EXCEPT ![c] = [list |-> l, index |-> i]]
  /\ used' = [used EXCEPT ![l] = @ \cup {i}]
  /\ UNCHANGED <<lists, tail, behind, handlers, copy, life>>

-----------------------------------------------------------------------------
(* The GET, and the end of the process                                     *)

HasCurrent(k, l) ==
  copy[<<k, l>>] # None /\ copy[<<k, l>>].version = lists[l].version

(* A conditional GET: a 304 leaves the client what it has.                 *)
GetList(k, l) ==
  /\ lists[l] # None /\ ~HasCurrent(k, l)
  /\ copy' = [copy EXCEPT ![<<k, l>>] =
                [life |-> life, version |-> lists[l].version,
                 credential |-> lists[l].credential]]
  /\ UNCHANGED <<tables, tail, behind, handlers, life>>

(* The process ends, through close() or not, and another one starts empty. *)
Restart ==
  /\ life < MaxLives
  /\ life' = life + 1
  /\ lists' = [l \in List |-> None]
  /\ allocations' = [c \in Claim |-> None]
  /\ used' = [l \in List |-> {}]
  /\ tail' = [l \in List |-> None]
  /\ behind' = [r \in Request |-> None]
  /\ phase' = [r \in Request |->
                 IF phase[r] \in {"idle", "done"} THEN phase[r] ELSE "lost"]
  /\ seen' = [r \in Request |-> None]
  /\ built' = [r \in Request |-> None]
  /\ UNCHANGED <<op, outcome, copy>>

-----------------------------------------------------------------------------
Progress(r) ==
  \/ MintList(r) \/ CreateStatusList(r) \/ ReadList(r) \/ Enqueue(r)
  \/ StartUpdate(r) \/ ApplyStatus(r) \/ SignUpdate(r) \/ WriteUpdate(r)
  \/ LeaveQueue(r)

Next ==
  \/ \E r \in Request : Submit(r) \/ Progress(r)
  \/ \E c \in Claim, l \in List, i \in Index : AllocateIndex(c, l, i)
  \/ \E k \in Client, l \in List : GetList(k, l)
  \/ Restart

(* The event loop runs every continuation that is due, and the signer      *)
(* answers or fails.                                                       *)
Fairness == \A r \in Request : WF_vars(Progress(r))

Safety == Init /\ [][Next]_vars

Spec == Safety /\ Fairness

-----------------------------------------------------------------------------
(* Properties                                                              *)

(* Nobody in the chain keeps r from running.                               *)
Turn(r) == behind[r] # None => Settled(behind[r])

(* The promise chain is a lock, and it never gets stuck: as long as        *)
(* updates of a list are in progress it is the turn of one of them and of  *)
(* one only, whatever those before it came to; nobody runs out of turn,    *)
(* and what an update read is still what is stored when it writes          *)
(* (updateStatusList of storage-memory.ts, "Per-list write queue; the SQL  *)
(* implementation uses a row lock instead").                               *)
WritersTakeTurns ==
  /\ \A r \in Request :
       phase[r] \in Running => Turn(r) /\ seen[r] = lists[op[r].list]
  /\ \A l \in List :
       LET waiting == {r \in Request : phase[r] \in Pending /\ op[r].list = l}
       IN waiting # {} =>
            \E first \in waiting : \A r \in waiting : Turn(r) <=> r = first

(* The map of chains does not grow: it has an entry for a list only while  *)
(* an update of it is in progress, and then it is the last to arrive: a    *)
(* waiting update has somebody before it or its turn has come              *)
(* (updateStatusList of storage-memory.ts, the finally block).             *)
QueuesAreDropped ==
  \A l \in List :
     /\ tail[l] # None => phase[tail[l]] \in Pending \cup {"settled"}
     /\ (\E r \in Request : phase[r] \in Pending /\ op[r].list = l) =>
          /\ tail[l] # None /\ phase[tail[l]] \in Pending
          /\ ~\E r \in Request : phase[r] = "queued" /\ behind[r] = tail[l]

(* The two maps of entries agree: an index counts as used exactly when one *)
(* claim holds it, in a list there is (allocateIndex of storage-memory.ts).*)
EntriesAgree ==
  /\ \A l \in List, i \in Index :
       i \in used[l] <=>
         \E c \in Claim : allocations[c] = [list |-> l, index |-> i]
  /\ \A c, d \in Claim :
       allocations[c] # None /\ allocations[c] = allocations[d] => c = d
  /\ \A c \in Claim :
       allocations[c] # None => lists[allocations[c].list] # None

(* Within one life of the process the ETag names the bytes: a copy of the  *)
(* stored version is the stored credential.  (Across a restart it is not:  *)
(* a list created again starts at version 1.)                              *)
VersionNamesCredential ==
  \A l \in List, k \in Client :
     LET held == copy[<<k, l>>] IN
     held # None /\ held.life = life =>
       /\ lists[l] # None /\ held.version <= lists[l].version
       /\ held.version = lists[l].version =>
            held.credential = lists[l].credential

(* Between restarts every request takes effect at one instant or not at    *)
(* all and is answered for its own doing, never for that of an update      *)
(* before it in the chain: the backend keeps the promise the SQL one does. *)
Atomic ==
  INSTANCE AtomicStatusLists
    WITH submitted <- op, result <- outcome

UpdatesAreAtomic ==
  Atomic!Init /\ [][Atomic!Next \/ life' # life]_<<lists, op, outcome>>

(* An update that joined the chain is answered, whatever the ones before   *)
(* it came to, unless the process ends.                                    *)
EveryUpdateSettles ==
  \A r \in Request : phase[r] = "queued" ~> phase[r] \in {"done", "lost"}
=============================================================================
