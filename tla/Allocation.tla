----------------------------- MODULE Allocation -----------------------------
(***************************************************************************)
(* Allocating status list entries to credentials: allocateForCredential    *)
(* and allocateIndex of service/src/status-lists/manager.ts, with the SQL  *)
(* statements of service/src/services/storage-sql.ts they are made of.     *)
(* Each statement commits by itself, so other allocations, a crash or a    *)
(* lost connection can come between any two of them.                       *)
(*                                                                         *)
(* A slot is a request in flight: it serves one allocation at a time, any  *)
(* number of them in turn, so the number of slots is the concurrency of    *)
(* the whole deployment.                                                   *)
(***************************************************************************)
EXTENDS Naturals, FiniteSets

CONSTANTS
  Tenant, Purpose, Credential,
  Defaulted,   \* the tenants with a default issuer instance
  List,        \* the ids lists can get
  Chosen,      \* the lists that callers name in options.statusListId
  Index,       \* the indexes inside a list
  RollAt,      \* entries at which a list is full enough to roll: length / 2
  Attempts,    \* random probes before giving up: ALLOCATION_ATTEMPTS
  Slot,
  MaxClock,    \* bound on the clock that stamps lists
  None

ASSUME ChosenAssumption == Chosen \subseteq List /\ Defaulted \subseteq Tenant

ASSUME FiniteAssumption ==
  IsFiniteSet(List) /\ IsFiniteSet(Index) /\ IsFiniteSet(Slot)

ASSUME NumberAssumption ==
  RollAt \in Nat \ {0} /\ Attempts \in Nat \ {0} /\ MaxClock \in Nat

(* What is asked for: one entry for a credential and a purpose.            *)
Claim == [tenant : Tenant, credential : Credential, purpose : Purpose]

(* A row of index_allocations.                                             *)
Allocated == [list : List, index : Index, claim : Claim]

(* A row of status_lists, as far as allocation reads it.                   *)
ListRow == [tenant : Tenant, purpose : Purpose, createdAt : 0 .. MaxClock]

Code ==
  {"allocated", "list-not-found", "list-purpose-mismatch",
   "issuer-instance-unavailable", "signing-failed", "duplicate-list",
   "credential-already-allocated", "list-exhausted", "storage-failed"}

Answers == [code : Code, entry : Allocated \cup {None}]

ASSUME NoneAssumption ==
  None \notin List \cup ListRow \cup Allocated \cup Claim \cup Index \cup Slot
                \cup Answers

VARIABLES
  list,        \* the table status_lists: a row for each list, or None
  allocation,  \* the table index_allocations: the set of its rows
  clock,       \* the time, in the milliseconds of created_at
  claim,       \* what each slot was asked for last
  phase,       \* where each slot stands
  unread,      \* the lists of its snapshot a slot has yet to count
  target,      \* the list a slot allocates from, None while selecting
  index,       \* the index it is about to insert
  attempt,     \* the probes it has spent
  stamp,       \* the createdAt of the list it is minting
  answer,      \* what the last allocation of a slot came to
  minter       \* history: the slot that minted each list, None if posted

vars == <<list, allocation, clock, claim, phase, unread, target, index,
          attempt, stamp, answer, minter>>

Phase ==
  {"idle", "choosing", "finding", "counting", "minting", "inserting",
   "probing", "claiming", "classifying", "rechecking"}

(* The phases of a request that has its list.                              *)
Targeting == {"probing", "claiming", "classifying", "rechecking"}

TypeOK ==
  /\ list \in [List -> ListRow \cup {None}]
  /\ allocation \subseteq Allocated
  /\ clock \in 0 .. MaxClock
  /\ claim \in [Slot -> Claim \cup {None}]
  /\ phase \in [Slot -> Phase]
  /\ unread \in [Slot -> SUBSET List]
  /\ target \in [Slot -> List \cup {None}]
  /\ index \in [Slot -> Index \cup {None}]
  /\ attempt \in [Slot -> 0 .. Attempts]
  /\ stamp \in [Slot -> 0 .. MaxClock]
  /\ answer \in [Slot -> Answers \cup {None}]
  /\ minter \in [List -> Slot \cup {None}]

Init ==
  /\ list = [l \in List |-> None]
  /\ allocation = {}
  /\ clock = 0
  /\ claim = [s \in Slot |-> None]
  /\ phase = [s \in Slot |-> "idle"]
  /\ unread = [s \in Slot |-> {}]
  /\ target = [s \in Slot |-> None]
  /\ index = [s \in Slot |-> None]
  /\ attempt = [s \in Slot |-> 0]
  /\ stamp = [s \in Slot |-> 0]
  /\ answer = [s \in Slot |-> None]
  /\ minter = [l \in List |-> None]

-----------------------------------------------------------------------------
Goto(s, from, to) ==
  phase[s] = from /\ phase' = [phase EXCEPT ![s] = to]

(* The slot is done with its request, whatever it held is dropped.         *)
Finish(s, what) ==
  /\ phase' = [phase EXCEPT ![s] = "idle"]
  /\ answer' = [answer EXCEPT ![s] = what]
  /\ unread' = [unread EXCEPT ![s] = {}]
  /\ target' = [target EXCEPT ![s] = None]
  /\ index' = [index EXCEPT ![s] = None]
  /\ attempt' = [attempt EXCEPT ![s] = 0]
  /\ stamp' = [stamp EXCEPT ![s] = 0]

Refuse(s, code) == Finish(s, [code |-> code, entry |-> None])

Entries(l) == {a \in allocation : a.list = l}

(* countAllocations.                                                       *)
Used(l) == Cardinality(Entries(l))

(* isIndexAllocated.                                                       *)
IsIndexAllocated(l, i) == \E a \in allocation : a.list = l /\ a.index = i

(* getAllocation finds a row.                                              *)
HasAllocation(c) == \E a \in allocation : a.claim = c

(* Mutant: a list exactly at the threshold is still used.                  *)
UpToThreshold(l) == Used(l) <= RollAt

UnderThreshold(l) == Used(l) < RollAt

(* The request arrives: with a list named, or with none.                   *)
Submit(s) ==
  /\ phase[s] = "idle"
  /\ \E c \in Claim : claim' = [claim EXCEPT ![s] = c]
  /\ answer' = [answer EXCEPT ![s] = None]
  /\ \/ /\ phase' = [phase EXCEPT ![s] = "finding"]
        /\ UNCHANGED target
     \/ /\ phase' = [phase EXCEPT ![s] = "choosing"]
        /\ \E l \in Chosen : target' = [target EXCEPT ![s] = l]
  /\ UNCHANGED <<list, allocation, clock, unread, index, attempt, stamp, minter>>

-----------------------------------------------------------------------------
(* Selecting a list                                                        *)

OwnList(s, l) == list[l] # None /\ list[l].tenant = claim[s].tenant

(* #chosenList, and the re-read of the same immutable columns at the start *)
(* of allocateIndex, which can find nothing else: lists are never deleted. *)
(* Mutant: the purpose of the named list is not checked.                   *)
ChooseAnyPurpose(s) ==
  LET l == target[s] IN
  /\ phase[s] = "choosing"
  /\ \/ /\ ~OwnList(s, l)
        /\ Refuse(s, "list-not-found")
     \/ /\ OwnList(s, l)
        /\ Goto(s, "choosing", "probing")
        /\ UNCHANGED <<unread, target, index, attempt, stamp, answer>>
  /\ UNCHANGED <<list, allocation, clock, claim, minter>>

ChooseList(s) ==
  LET l == target[s] IN
  /\ phase[s] = "choosing"
  /\ \/ /\ ~OwnList(s, l)
        /\ Refuse(s, "list-not-found")
     \/ /\ OwnList(s, l) /\ list[l].purpose # claim[s].purpose
        /\ Refuse(s, "list-purpose-mismatch")
     \/ /\ OwnList(s, l) /\ list[l].purpose = claim[s].purpose
        /\ Goto(s, "choosing", "probing")
        /\ UNCHANGED <<unread, target, index, attempt, stamp, answer>>
  /\ UNCHANGED <<list, allocation, clock, claim, minter>>

(* findStatusLists: the tenant's lists for the purpose, at this instant.   *)
ListsFor(c) ==
  {l \in List : /\ list[l] # None
                /\ list[l].tenant = c.tenant /\ list[l].purpose = c.purpose}

FindLists(s) ==
  /\ Goto(s, "finding", "counting")
  /\ unread' = [unread EXCEPT ![s] = ListsFor(claim[s])]
  /\ UNCHANGED <<list, allocation, clock, claim, target, index, attempt, stamp,
                 answer, minter>>

(* The order of the loop over the snapshot, newest first; lists of one     *)
(* millisecond come in any order.                                          *)
Newest(S) == {l \in S : \A m \in S : list[m].createdAt <= list[l].createdAt}

(* #listForPurpose counts one candidate and takes it if it is under the    *)
(* threshold.                                                              *)
(* Mutant: only the newest list is looked at.                              *)
CountNewestOnly(s) ==
  /\ phase[s] = "counting"
  /\ \E l \in Newest(unread[s]) :
        \/ /\ UnderThreshold(l)
           /\ Goto(s, "counting", "probing")
           /\ target' = [target EXCEPT ![s] = l]
           /\ unread' = [unread EXCEPT ![s] = {}]
        \/ /\ ~UnderThreshold(l)
           /\ unread' = [unread EXCEPT ![s] = {}]
           /\ UNCHANGED <<phase, target>>
  /\ UNCHANGED <<list, allocation, clock, claim, index, attempt, stamp, answer,
                 minter>>

CountList(s) ==
  /\ phase[s] = "counting"
  /\ \E l \in Newest(unread[s]) :
        \/ /\ UnderThreshold(l)
           /\ Goto(s, "counting", "probing")
           /\ target' = [target EXCEPT ![s] = l]
           /\ unread' = [unread EXCEPT ![s] = {}]
        \/ /\ ~UnderThreshold(l)
           /\ unread' = [unread EXCEPT ![s] = @ \ {l}]
           /\ UNCHANGED <<phase, target>>
  /\ UNCHANGED <<list, allocation, clock, claim, index, attempt, stamp, answer,
                 minter>>

(* Every list counted was full: a list is minted, if the tenant has an     *)
(* instance to sign it with.                                               *)
DecideToMint(s) ==
  /\ phase[s] = "counting" /\ unread[s] = {}
  /\ \/ /\ claim[s].tenant \in Defaulted
        /\ Goto(s, "counting", "minting")
        /\ UNCHANGED <<unread, target, index, attempt, stamp, answer>>
     \/ /\ claim[s].tenant \notin Defaulted
        /\ Refuse(s, "issuer-instance-unavailable")
  /\ UNCHANGED <<list, allocation, clock, claim, minter>>

(* createList signs; createStatusList then takes the time and inserts.     *)
SignList(s) ==
  /\ phase[s] = "minting"
  /\ \/ /\ Goto(s, "minting", "inserting")
        /\ stamp' = [stamp EXCEPT ![s] = clock]
        /\ UNCHANGED <<unread, target, index, attempt, answer>>
     \/ Refuse(s, "signing-failed")
  /\ UNCHANGED <<list, allocation, clock, claim, minter>>

(* The new list, under a fresh random id.                                  *)
AddList(s, l) ==
  /\ phase[s] = "inserting" /\ list[l] = None
  /\ list' = [list EXCEPT ![l] =
                [tenant |-> claim[s].tenant, purpose |-> claim[s].purpose,
                 createdAt |-> stamp[s]]]
  /\ minter' = [minter EXCEPT ![l] = s]
  /\ UNCHANGED <<allocation, clock, claim>>

InsertList(s) ==
  \E l \in List :
     /\ AddList(s, l)
     /\ Goto(s, "inserting", "probing")
     /\ target' = [target EXCEPT ![s] = l]
     /\ UNCHANGED <<unread, index, attempt, stamp, answer>>

(* The insert takes effect, its acknowledgement is lost, and the read-back *)
(* of createStatusList takes the new list for a duplicate, or fails too.   *)
InsertListUnacknowledged(s) ==
  \E l \in List :
     /\ AddList(s, l)
     /\ \E code \in {"duplicate-list", "storage-failed"} : Refuse(s, code)

-----------------------------------------------------------------------------
(* Taking an index                                                         *)

(* One turn of the loop of allocateIndex: a random index, and whether it   *)
(* is allocated already.                                                   *)
(* Mutant: the loop runs until it finds a free index.                      *)
ProbeForever(s) ==
  /\ phase[s] = "probing"
  /\ \E i \in Index :
        /\ ~IsIndexAllocated(target[s], i)
        /\ Goto(s, "probing", "claiming")
        /\ index' = [index EXCEPT ![s] = i]
  /\ UNCHANGED <<list, allocation, clock, claim, unread, target, attempt, stamp,
                 answer, minter>>

(* Mutant: one probe more than the bound.                                  *)
ProbePastLimit(s) ==
  /\ phase[s] = "probing" /\ attempt[s] <= Attempts
  /\ \E i \in Index :
        \/ /\ IsIndexAllocated(target[s], i)
           /\ attempt' = [attempt EXCEPT ![s] = @ + 1]
           /\ UNCHANGED <<phase, index>>
        \/ /\ ~IsIndexAllocated(target[s], i)
           /\ Goto(s, "probing", "claiming")
           /\ index' = [index EXCEPT ![s] = i]
           /\ UNCHANGED attempt
  /\ UNCHANGED <<list, allocation, clock, claim, unread, target, stamp, answer,
                 minter>>

Probe(s) ==
  /\ phase[s] = "probing" /\ attempt[s] < Attempts
  /\ \E i \in Index :
        \/ /\ IsIndexAllocated(target[s], i)
           /\ attempt' = [attempt EXCEPT ![s] = @ + 1]
           /\ UNCHANGED <<phase, index>>
        \/ /\ ~IsIndexAllocated(target[s], i)
           /\ Goto(s, "probing", "claiming")
           /\ index' = [index EXCEPT ![s] = i]
           /\ UNCHANGED attempt
  /\ UNCHANGED <<list, allocation, clock, claim, unread, target, stamp, answer,
                 minter>>

GiveUp(s) ==
  /\ phase[s] = "probing" /\ attempt[s] = Attempts
  /\ Refuse(s, "list-exhausted")
  /\ UNCHANGED <<list, allocation, clock, claim, minter>>

(* The row a slot inserts, and the unique constraints it can violate: the  *)
(* primary key (list_id, status_list_index) and the unique constraint on   *)
(* (tenant_id, credential_id, status_purpose).                             *)
NewRow(s) == [list |-> target[s], index |-> index[s], claim |-> claim[s]]

Conflict(s) ==
  IsIndexAllocated(target[s], index[s]) \/ HasAllocation(claim[s])

(* Mutant: "on conflict do nothing", reported as a success.                *)
ClaimIndexIgnoringConflict(s) ==
  /\ phase[s] = "claiming"
  /\ \/ ~Conflict(s) /\ allocation' = allocation \cup {NewRow(s)}
     \/ Conflict(s) /\ UNCHANGED allocation
  /\ Finish(s, [code |-> "allocated", entry |-> NewRow(s)])
  /\ UNCHANGED <<list, clock, claim, minter>>

ClaimIndex(s) ==
  /\ phase[s] = "claiming"
  /\ \/ /\ ~Conflict(s)
        /\ allocation' = allocation \cup {NewRow(s)}
        /\ Finish(s, [code |-> "allocated", entry |-> NewRow(s)])
     \/ /\ Conflict(s)
        /\ Goto(s, "claiming", "classifying")
        /\ UNCHANGED <<allocation, unread, target, index, attempt, stamp, answer>>
  /\ UNCHANGED <<list, clock, claim, minter>>

(* The insert fails for want of a connection, with or without having taken *)
(* effect; what happened is read back like any other failure.              *)
ClaimUncertain(s) ==
  /\ Goto(s, "claiming", "classifying")
  /\ \/ UNCHANGED allocation
     \/ ~Conflict(s) /\ allocation' = allocation \cup {NewRow(s)}
  /\ UNCHANGED <<list, clock, claim, unread, target, index, attempt, stamp,
                 answer, minter>>

(* #classifyAllocationFailure, first query: is the credential allocated?   *)
Classify(s) ==
  /\ phase[s] = "classifying"
  /\ \/ /\ HasAllocation(claim[s])
        /\ Refuse(s, "credential-already-allocated")
     \/ /\ ~HasAllocation(claim[s])
        /\ Goto(s, "classifying", "rechecking")
        /\ UNCHANGED <<unread, target, index, attempt, stamp, answer>>
  /\ UNCHANGED <<list, allocation, clock, claim, minter>>

(* Second query: is the index taken?  If so allocateIndex probes again; if *)
(* not, the list exists and the driver's error goes out as it came.        *)
Recheck(s) ==
  /\ phase[s] = "rechecking"
  /\ \/ /\ IsIndexAllocated(target[s], index[s])
        /\ Goto(s, "rechecking", "probing")
        /\ attempt' = [attempt EXCEPT ![s] = @ + 1]
        /\ index' = [index EXCEPT ![s] = None]
        /\ UNCHANGED <<unread, target, stamp, answer>>
     \/ /\ ~IsIndexAllocated(target[s], index[s])
        /\ Refuse(s, "storage-failed")
  /\ UNCHANGED <<list, allocation, clock, claim, minter>>

-----------------------------------------------------------------------------
(* A statement fails before it has any effect.                             *)
StorageFails(s) ==
  /\ phase[s] \in Phase \ {"idle", "minting", "claiming"}
  /\ Refuse(s, "storage-failed")
  /\ UNCHANGED <<list, allocation, clock, claim, minter>>

(* The server dies with the request: the client gets no answer.            *)
Abandon(s) ==
  /\ phase[s] # "idle"
  /\ Finish(s, None)
  /\ UNCHANGED <<list, allocation, clock, claim, minter>>

(* POST /status-lists creates a list for a tenant, by createList too.      *)
PostList(l) ==
  /\ list[l] = None
  /\ \E t \in Tenant, p \in Purpose :
        list' = [list EXCEPT ![l] =
                   [tenant |-> t, purpose |-> p, createdAt |-> clock]]
  /\ UNCHANGED <<allocation, clock, claim, phase, unread, target, index,
                 attempt, stamp, answer, minter>>

Tick ==
  /\ clock < MaxClock
  /\ clock' = clock + 1
  /\ UNCHANGED <<list, allocation, claim, phase, unread, target, index, attempt,
                 stamp, answer, minter>>

Progress(s) ==
  \/ ChooseList(s) \/ FindLists(s) \/ CountList(s) \/ DecideToMint(s)
  \/ SignList(s) \/ InsertList(s) \/ Probe(s) \/ GiveUp(s) \/ ClaimIndex(s)
  \/ Classify(s) \/ Recheck(s)

Fault(s) ==
  \/ InsertListUnacknowledged(s) \/ ClaimUncertain(s) \/ StorageFails(s)
  \/ Abandon(s)

Next ==
  \/ \E s \in Slot : Submit(s) \/ Progress(s) \/ Fault(s)
  \/ \E l \in Chosen : PostList(l)
  \/ Tick

(* The event loop resumes every handler and the database answers.          *)
Fairness == \A s \in Slot : WF_vars(Progress(s))

Safety == Init /\ [][Next]_vars

Spec == Safety /\ Fairness

-----------------------------------------------------------------------------
(* Properties                                                              *)

(* What a slot holds in each phase.                                        *)
SlotState ==
  \A s \in Slot :
     /\ phase[s] # "idle" => claim[s] \in Claim /\ answer[s] = None
     /\ phase[s] = "choosing" => target[s] \in Chosen
     /\ phase[s] = "counting" => unread[s] \subseteq ListsFor(claim[s])
     /\ phase[s] \in Targeting => target[s] \in ListsFor(claim[s])
     /\ phase[s] \in Targeting \ {"probing"} =>
          index[s] \in Index /\ attempt[s] < Attempts

(* Every entry is in a list of the claim's own tenant and purpose, whether *)
(* the caller chose the list or the service did, and whatever was created  *)
(* between the choice and the insert.                                      *)
AllocationMatchesList ==
  \A a \in allocation :
     /\ list[a.list] # None
     /\ list[a.list].tenant = a.claim.tenant
     /\ list[a.list].purpose = a.claim.purpose

(* The requests that have taken l for their list and may still insert.     *)
Bidders(l) ==
  {s \in Slot :
     target[s] = l /\ phase[s] \in Targeting /\ ~HasAllocation(claim[s])}

(* The threshold is checked long before the insert, so concurrent requests *)
(* can overshoot it: by less than the number of requests in flight, so a   *)
(* list that callers never name stays about half empty (manager.ts,        *)
(* #listForPurpose).                                                       *)
OvershootBound ==
  \A l \in List \ Chosen :
     Used(l) + Cardinality(Bidders(l)) < RollAt + Cardinality(Slot)

(* So a request that named no list always has an index left to find, as    *)
(* long as fewer requests are in flight than half a list has indexes: if   *)
(* it is answered "list-exhausted", its probes had bad luck, and it is     *)
(* never the case that "the list has no room left" (errors.ts, of the      *)
(* probe bound that manager.ts calls "a backstop, not a budget").          *)
RoomToAllocate ==
  RollAt + Cardinality(Slot) <= Cardinality(Index) + 1 =>
    \A l \in List \ Chosen :
       Bidders(l) # {} => \E i \in Index : ~IsIndexAllocated(l, i)

(* The lists minted on demand that a later request would still use.        *)
Spare(c) == {l \in ListsFor(c) : minter[l] # None /\ UnderThreshold(l)}

(* "Two allocators racing here both mint a list, which costs a list and    *)
(* nothing else" (manager.ts, allocateForCredential): neither races, nor   *)
(* crashes or lost acknowledgements after the insert, pile up lists.       *)
(* There are never more under the threshold than requests in flight.       *)
MintingBound == \A c \in Claim : Cardinality(Spare(c)) <= Cardinality(Slot)

Registry ==
  INSTANCE EntryRegistry
    WITH bindings <- allocation, asked <- claim, told <- answer,
         Refusal <- Code \ {"allocated"}

(* An entry is given to one claim, at one instant and for good, and the    *)
(* answers say what was true: allocation implements EntryRegistry, through *)
(* failed checks, lost races, lost acknowledgements and crashes.           *)
EntriesAreForLife == Registry!Spec

(* Every allocation ends, however many probes and lost races it meets.     *)
EveryAllocationEnds ==
  \A s \in Slot : phase[s] # "idle" ~> phase[s] = "idle"

(* What the error code says, in errors.ts: "Every random probe hit a taken *)
(* index; the list has no room left."                                      *)
ExhaustedMeansFull ==
  [][\A s \in Slot :
       phase[s] = "probing" /\ answer'[s] # None
         /\ answer'[s].code = "list-exhausted"
       => \A i \in Index : IsIndexAllocated(target[s], i)]_vars
=============================================================================
