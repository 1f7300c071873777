-------------------------- MODULE AllocationProofs --------------------------
(***************************************************************************)
(* What Allocation guarantees for any tenants, credentials, lists, indexes,*)
(* thresholds, probe bounds and numbers of concurrent requests.            *)
(*                                                                         *)
(* The inductive invariant IInv is the conjunction of the type invariant,  *)
(* of what a slot holds in each phase (SlotState), and of the agreement    *)
(* between entries and their lists (AllocationMatchesList).                *)
(***************************************************************************)
EXTENDS Allocation, TLAPS

IInv == TypeOK /\ SlotState /\ AllocationMatchesList

-----------------------------------------------------------------------------
(* A refusal is an answer.                                                 *)
LEMMA RefusalType ==
  ASSUME NEW code \in Code
  PROVE  [code |-> code, entry |-> None] \in Answers
  BY DEF Answers

(* Lists are never changed or deleted, so a list found stays one.          *)
LEMMA ListsForGrow ==
  ASSUME \A l \in List : list[l] # None => list'[l] = list[l],
         NEW c
  PROVE  ListsFor(c) \subseteq ListsFor(c)'
  BY DEF ListsFor

-----------------------------------------------------------------------------
LEMMA InitInv == Init => IInv
  <1> SUFFICES ASSUME Init PROVE IInv
    OBVIOUS
  <1>1. TypeOK
    BY NumberAssumption DEF Init, TypeOK, Phase
  <1>2. SlotState
    BY DEF Init, SlotState, Targeting
  <1>3. AllocationMatchesList
    BY DEF Init, AllocationMatchesList
  <1> QED
    BY <1>1, <1>2, <1>3 DEF IInv

LEMMA SubmitInv ==
  ASSUME IInv, NEW s \in Slot, Submit(s)
  PROVE  IInv'
  <1> USE DEF IInv, Submit
  <1>1. TypeOK'
    BY ChosenAssumption DEF TypeOK, Phase
  <1>2. SlotState'
    BY DEF TypeOK, SlotState, Targeting, ListsFor
  <1>3. AllocationMatchesList'
    BY DEF AllocationMatchesList
  <1> QED
    BY <1>1, <1>2, <1>3

(* A slot that ends its request, with an answer or without.                *)
LEMMA FinishInv ==
  ASSUME IInv, NEW s \in Slot, NEW what \in Answers \cup {None},
         Finish(s, what), UNCHANGED <<list, allocation, clock, claim, minter>>
  PROVE  IInv'
  <1> USE DEF IInv, Finish
  <1>1. TypeOK'
    BY NumberAssumption DEF TypeOK, Phase
  <1>2. SlotState'
    BY DEF TypeOK, SlotState, Targeting, ListsFor
  <1>3. AllocationMatchesList'
    BY DEF AllocationMatchesList
  <1> QED
    BY <1>1, <1>2, <1>3

LEMMA RefuseInv ==
  ASSUME IInv, NEW s \in Slot, NEW code \in Code,
         Refuse(s, code), UNCHANGED <<list, allocation, clock, claim, minter>>
  PROVE  IInv'
  BY FinishInv, RefusalType DEF Refuse

LEMMA ChooseListInv ==
  ASSUME IInv, NEW s \in Slot, ChooseList(s)
  PROVE  IInv'
  <1>1. CASE ~OwnList(s, target[s])
    BY <1>1, RefuseInv DEF ChooseList, Code
  <1>2. CASE OwnList(s, target[s]) /\ list[target[s]].purpose # claim[s].purpose
    BY <1>2, RefuseInv DEF ChooseList, Code
  <1>3. CASE OwnList(s, target[s]) /\ list[target[s]].purpose = claim[s].purpose
    <2>1. /\ phase[s] = "choosing" /\ phase' = [phase EXCEPT ![s] = "probing"]
          /\ UNCHANGED <<list, allocation, clock, claim, unread, target, index,
                         attempt, stamp, answer, minter>>
      BY <1>3 DEF ChooseList, Goto
    <2> USE <2>1 DEF IInv
    <2>2. TypeOK'
      BY DEF TypeOK, Phase
    <2>3. target[s] \in ListsFor(claim[s])
      BY <1>3, ChosenAssumption DEF SlotState, OwnList, ListsFor
    <2>4. SlotState'
      BY <2>3 DEF TypeOK, SlotState, Targeting, ListsFor
    <2>5. AllocationMatchesList'
      BY DEF AllocationMatchesList
    <2> QED
      BY <2>2, <2>4, <2>5
  <1> QED
    BY <1>1, <1>2, <1>3

LEMMA FindListsInv ==
  ASSUME IInv, NEW s \in Slot, FindLists(s)
  PROVE  IInv'
  <1> USE DEF IInv, FindLists, Goto
  <1>1. TypeOK'
    BY DEF TypeOK, Phase, ListsFor
  <1>2. SlotState'
    BY DEF TypeOK, SlotState, Targeting, ListsFor
  <1>3. AllocationMatchesList'
    BY DEF AllocationMatchesList
  <1> QED
    BY <1>1, <1>2, <1>3

LEMMA CountListInv ==
  ASSUME IInv, NEW s \in Slot, CountList(s)
  PROVE  IInv'
  <1> PICK l \in Newest(unread[s]) :
        \/ /\ Goto(s, "counting", "probing")
           /\ target' = [target EXCEPT ![s] = l]
           /\ unread' = [unread EXCEPT ![s] = {}]
        \/ /\ unread' = [unread EXCEPT ![s] = @ \ {l}]
           /\ UNCHANGED <<phase, target>>
    BY DEF CountList
  <1>1. /\ phase[s] = "counting"
        /\ UNCHANGED <<list, allocation, clock, claim, index, attempt, stamp,
                       answer, minter>>
    BY DEF CountList
  <1>2. l \in ListsFor(claim[s]) /\ l \in List
    BY <1>1 DEF IInv, SlotState, Newest, ListsFor
  <1> USE <1>1, <1>2 DEF IInv, Goto
  <1>3. TypeOK'
    BY DEF TypeOK, Phase
  <1>4. SlotState'
    BY DEF TypeOK, SlotState, Targeting, ListsFor
  <1>5. AllocationMatchesList'
    BY DEF AllocationMatchesList
  <1> QED
    BY <1>3, <1>4, <1>5

LEMMA DecideToMintInv ==
  ASSUME IInv, NEW s \in Slot, DecideToMint(s)
  PROVE  IInv'
  <1>1. CASE claim[s].tenant \notin Defaulted
    BY <1>1, RefuseInv DEF DecideToMint, Code
  <1>2. CASE claim[s].tenant \in Defaulted
    <2> USE <1>2 DEF IInv, DecideToMint, Goto
    <2>1. TypeOK'
      BY DEF TypeOK, Phase
    <2>2. SlotState'
      BY DEF TypeOK, SlotState, Targeting, ListsFor
    <2>3. AllocationMatchesList'
      BY DEF AllocationMatchesList
    <2> QED
      BY <2>1, <2>2, <2>3
  <1> QED
    BY <1>1, <1>2

LEMMA SignListInv ==
  ASSUME IInv, NEW s \in Slot, SignList(s)
  PROVE  IInv'
  <1>1. CASE Refuse(s, "signing-failed")
    BY <1>1, RefuseInv DEF SignList, Code
  <1>2. CASE ~Refuse(s, "signing-failed")
    <2> USE <1>2 DEF IInv, SignList, Goto
    <2>1. TypeOK'
      BY DEF TypeOK, Phase
    <2>2. SlotState'
      BY DEF TypeOK, SlotState, Targeting, ListsFor
    <2>3. AllocationMatchesList'
      BY DEF AllocationMatchesList
    <2> QED
      BY <2>1, <2>2, <2>3
  <1> QED
    BY <1>1, <1>2

(* A list is added: the rows and the slots' lists are as they were.        *)
LEMMA AddedRow ==
  ASSUME IInv, NEW s \in Slot, phase[s] # "idle"
  PROVE  [tenant |-> claim[s].tenant, purpose |-> claim[s].purpose,
          createdAt |-> stamp[s]] \in ListRow
  BY DEF IInv, SlotState, TypeOK, Claim, ListRow

LEMMA AddedList ==
  ASSUME IInv, NEW l \in List, list[l] = None, NEW x \in ListRow,
         list' = [list EXCEPT ![l] = x]
  PROVE  /\ list' \in [List -> ListRow \cup {None}]
         /\ \A m \in List : list[m] # None => list'[m] = list[m]
         /\ allocation' = allocation => AllocationMatchesList'
  BY DEF IInv, TypeOK, AllocationMatchesList, Allocated

LEMMA InsertListInv ==
  ASSUME IInv, NEW s \in Slot, InsertList(s)
  PROVE  IInv'
  <1> PICK l \in List :
        /\ AddList(s, l) /\ Goto(s, "inserting", "probing")
        /\ target' = [target EXCEPT ![s] = l]
        /\ UNCHANGED <<unread, index, attempt, stamp, answer>>
    BY DEF InsertList
  <1> DEFINE x == [tenant |-> claim[s].tenant, purpose |-> claim[s].purpose,
                   createdAt |-> stamp[s]]
  <1>1. /\ phase[s] = "inserting" /\ list[l] = None
        /\ phase' = [phase EXCEPT ![s] = "probing"]
        /\ list' = [list EXCEPT ![l] = x]
        /\ minter' = [minter EXCEPT ![l] = s]
        /\ UNCHANGED <<allocation, clock, claim>>
    BY DEF AddList, Goto
  <1>2. x \in ListRow /\ x # None
    BY <1>1, AddedRow, NoneAssumption
  <1>3. /\ list' \in [List -> ListRow \cup {None}]
        /\ \A m \in List : list[m] # None => list'[m] = list[m]
        /\ AllocationMatchesList'
    BY <1>1, <1>2, AddedList
  <1>4. TypeOK'
    BY <1>1, <1>3 DEF IInv, TypeOK, Phase
  <1>5. list'[l] = x
    BY <1>1 DEF IInv, TypeOK
  <1>6. \A c : ListsFor(c) \subseteq ListsFor(c)'
    BY <1>3, ListsForGrow
  <1>7. l \in ListsFor(claim[s])'
    BY <1>1, <1>2, <1>5 DEF ListsFor
  <1>8. ASSUME NEW q \in Slot, phase'[q] \in Targeting
        PROVE  target'[q] \in ListsFor(claim[q])'
    <2>1. CASE q = s
      BY <2>1, <1>1, <1>7 DEF IInv, TypeOK
    <2>2. CASE q # s
      <3>1. target[q] \in ListsFor(claim[q])
        BY <2>2, <1>1, <1>8 DEF IInv, TypeOK, SlotState
      <3> QED
        BY <3>1, <2>2, <1>1, <1>6 DEF IInv, TypeOK, ListsFor
    <2> QED
      BY <2>1, <2>2
  <1>9. SlotState'
    BY <1>8, <1>1, <1>3 DEF IInv, TypeOK, SlotState, ListsFor, Targeting
  <1> QED
    BY <1>3, <1>4, <1>9 DEF IInv

LEMMA InsertListUnacknowledgedInv ==
  ASSUME IInv, NEW s \in Slot, InsertListUnacknowledged(s)
  PROVE  IInv'
  <1> PICK l \in List, code \in {"duplicate-list", "storage-failed"} :
        AddList(s, l) /\ Refuse(s, code)
    BY DEF InsertListUnacknowledged
  <1> DEFINE x == [tenant |-> claim[s].tenant, purpose |-> claim[s].purpose,
                   createdAt |-> stamp[s]]
  <1>1. /\ phase[s] = "inserting" /\ list[l] = None
        /\ list' = [list EXCEPT ![l] = x]
        /\ minter' = [minter EXCEPT ![l] = s]
        /\ UNCHANGED <<allocation, clock, claim>>
    BY DEF AddList
  <1>2. x \in ListRow /\ [code |-> code, entry |-> None] \in Answers
    BY <1>1, AddedRow, RefusalType DEF Code
  <1>3. /\ list' \in [List -> ListRow \cup {None}]
        /\ \A m \in List : list[m] # None => list'[m] = list[m]
        /\ AllocationMatchesList'
    BY <1>1, <1>2, AddedList
  <1>4. TypeOK'
    BY <1>1, <1>2, <1>3, NumberAssumption
       DEF IInv, TypeOK, Phase, Refuse, Finish
  <1>5. \A c : ListsFor(c) \subseteq ListsFor(c)'
    BY <1>3, ListsForGrow
  <1>6. SlotState'
    BY <1>1, <1>5 DEF IInv, TypeOK, SlotState, Targeting, Refuse, Finish
  <1> QED
    BY <1>3, <1>4, <1>6 DEF IInv

LEMMA PostListInv ==
  ASSUME IInv, NEW l \in Chosen, PostList(l)
  PROVE  IInv'
  <1> PICK t \in Tenant, p \in Purpose :
        list' = [list EXCEPT ![l] =
                   [tenant |-> t, purpose |-> p, createdAt |-> clock]]
    BY DEF PostList
  <1>1. /\ l \in List /\ list[l] = None
        /\ UNCHANGED <<allocation, clock, claim, phase, unread, target, index,
                       attempt, stamp, answer, minter>>
    BY ChosenAssumption DEF PostList
  <1>2. [tenant |-> t, purpose |-> p, createdAt |-> clock] \in ListRow
    BY DEF IInv, TypeOK, ListRow
  <1>3. /\ list' \in [List -> ListRow \cup {None}]
        /\ \A m \in List : list[m] # None => list'[m] = list[m]
        /\ AllocationMatchesList'
    BY <1>1, <1>2, AddedList
  <1>4. TypeOK'
    BY <1>1, <1>3 DEF IInv, TypeOK
  <1>5. \A c : ListsFor(c) \subseteq ListsFor(c)'
    BY <1>3, ListsForGrow
  <1>6. SlotState'
    BY <1>1, <1>5 DEF IInv, SlotState
  <1> QED
    BY <1>3, <1>4, <1>6 DEF IInv

LEMMA TickInv ==
  ASSUME IInv, Tick
  PROVE  IInv'
  <1> USE DEF IInv, Tick
  <1>1. TypeOK'
    BY NumberAssumption DEF TypeOK
  <1>2. SlotState'
    BY DEF SlotState, ListsFor
  <1>3. AllocationMatchesList'
    BY DEF AllocationMatchesList
  <1> QED
    BY <1>1, <1>2, <1>3

LEMMA ProbeInv ==
  ASSUME IInv, NEW s \in Slot, Probe(s)
  PROVE  IInv'
  <1> PICK i \in Index :
        \/ /\ attempt' = [attempt EXCEPT ![s] = @ + 1]
           /\ UNCHANGED <<phase, index>>
        \/ /\ Goto(s, "probing", "claiming")
           /\ index' = [index EXCEPT ![s] = i]
           /\ UNCHANGED attempt
    BY DEF Probe
  <1>1. /\ phase[s] = "probing" /\ attempt[s] < Attempts
        /\ UNCHANGED <<list, allocation, clock, claim, unread, target, stamp,
                       answer, minter>>
    BY DEF Probe
  <1> USE <1>1 DEF IInv, Goto
  <1>2. TypeOK'
    BY NumberAssumption DEF TypeOK, Phase
  <1>3. SlotState'
    BY DEF TypeOK, SlotState, Targeting, ListsFor
  <1>4. AllocationMatchesList'
    BY DEF AllocationMatchesList
  <1> QED
    BY <1>2, <1>3, <1>4

(* The row a slot would insert is one of its own claim, in a list of the   *)
(* claim's tenant and purpose.                                             *)
LEMMA NewRowMatches ==
  ASSUME IInv, NEW s \in Slot, phase[s] = "claiming"
  PROVE  /\ NewRow(s) \in Allocated
         /\ NewRow(s).claim = claim[s] /\ NewRow(s).list = target[s]
         /\ NewRow(s).index = index[s]
         /\ list[target[s]] # None
         /\ list[target[s]].tenant = claim[s].tenant
         /\ list[target[s]].purpose = claim[s].purpose
         /\ target[s] \in List /\ index[s] \in Index /\ claim[s] \in Claim
  <1>1. /\ target[s] \in ListsFor(claim[s]) /\ index[s] \in Index
        /\ claim[s] \in Claim
    BY DEF IInv, SlotState, Targeting
  <1> QED
    BY <1>1 DEF NewRow, Allocated, ListsFor

LEMMA ClaimIndexInv ==
  ASSUME IInv, NEW s \in Slot, ClaimIndex(s)
  PROVE  IInv'
  <1>1. phase[s] = "claiming" /\ UNCHANGED <<list, clock, claim, minter>>
    BY DEF ClaimIndex
  <1>2. CASE ~Conflict(s)
    <2> DEFINE what == [code |-> "allocated", entry |-> NewRow(s)]
    <2>1. allocation' = allocation \cup {NewRow(s)} /\ Finish(s, what)
      BY <1>2 DEF ClaimIndex
    <2>2. NewRow(s) \in Allocated /\ what \in Answers
      BY <1>1, NewRowMatches DEF Answers, Code
    <2>3. TypeOK'
      BY <1>1, <2>1, <2>2, NumberAssumption DEF IInv, TypeOK, Finish, Phase
    <2>4. SlotState'
      BY <1>1, <2>1 DEF IInv, TypeOK, SlotState, Finish, Targeting, ListsFor
    <2>5. AllocationMatchesList'
      BY <1>1, <2>1, NewRowMatches DEF IInv, AllocationMatchesList
    <2> QED
      BY <2>3, <2>4, <2>5 DEF IInv
  <1>3. CASE Conflict(s)
    <2> USE <1>1, <1>3 DEF IInv, ClaimIndex, Goto
    <2>1. TypeOK'
      BY DEF TypeOK, Phase
    <2>2. SlotState'
      BY DEF TypeOK, SlotState, Targeting, ListsFor
    <2>3. AllocationMatchesList'
      BY DEF AllocationMatchesList
    <2> QED
      BY <2>1, <2>2, <2>3
  <1> QED
    BY <1>2, <1>3

LEMMA ClaimUncertainInv ==
  ASSUME IInv, NEW s \in Slot, ClaimUncertain(s)
  PROVE  IInv'
  <1>1. /\ phase[s] = "claiming" /\ phase' = [phase EXCEPT ![s] = "classifying"]
        /\ UNCHANGED <<list, clock, claim, unread, target, index, attempt, stamp,
                       answer, minter>>
        /\ allocation' \in {allocation, allocation \cup {NewRow(s)}}
    BY DEF ClaimUncertain, Goto
  <1>2. TypeOK'
    BY <1>1, NewRowMatches DEF IInv, TypeOK, Phase
  <1>3. SlotState'
    BY <1>1 DEF IInv, TypeOK, SlotState, Targeting, ListsFor
  <1>4. AllocationMatchesList'
    BY <1>1, NewRowMatches DEF IInv, AllocationMatchesList
  <1> QED
    BY <1>2, <1>3, <1>4 DEF IInv

LEMMA ClassifyInv ==
  ASSUME IInv, NEW s \in Slot, Classify(s)
  PROVE  IInv'
  <1>1. CASE HasAllocation(claim[s])
    BY <1>1, RefuseInv DEF Classify, Code
  <1>2. CASE ~HasAllocation(claim[s])
    <2> USE <1>2 DEF IInv, Classify, Goto
    <2>1. TypeOK'
      BY DEF TypeOK, Phase
    <2>2. SlotState'
      BY DEF TypeOK, SlotState, Targeting, ListsFor
    <2>3. AllocationMatchesList'
      BY DEF AllocationMatchesList
    <2> QED
      BY <2>1, <2>2, <2>3
  <1> QED
    BY <1>1, <1>2

LEMMA RecheckInv ==
  ASSUME IInv, NEW s \in Slot, Recheck(s)
  PROVE  IInv'
  <1>1. CASE ~IsIndexAllocated(target[s], index[s])
    BY <1>1, RefuseInv DEF Recheck, Code
  <1>2. CASE IsIndexAllocated(target[s], index[s])
    <2>1. attempt[s] < Attempts
      BY DEF IInv, SlotState, Recheck, Targeting
    <2> USE <1>2, <2>1, NumberAssumption DEF IInv, Recheck, Goto
    <2>2. TypeOK'
      BY DEF TypeOK, Phase
    <2>3. SlotState'
      BY DEF TypeOK, SlotState, Targeting, ListsFor
    <2>4. AllocationMatchesList'
      BY DEF AllocationMatchesList
    <2> QED
      BY <2>2, <2>3, <2>4
  <1> QED
    BY <1>1, <1>2

-----------------------------------------------------------------------------
(* Every step keeps the invariant.                                         *)
LEMMA NextInv == IInv /\ [Next]_vars => IInv'
  <1> SUFFICES ASSUME IInv, [Next]_vars PROVE IInv'
    OBVIOUS
  <1>1. CASE UNCHANGED vars
    BY <1>1 DEF vars, IInv, TypeOK, SlotState, ListsFor, AllocationMatchesList
  <1>2. CASE Tick
    BY <1>2, TickInv
  <1>3. ASSUME NEW l \in Chosen, PostList(l) PROVE IInv'
    BY <1>3, PostListInv
  <1>4. ASSUME NEW s \in Slot, Submit(s) PROVE IInv'
    BY <1>4, SubmitInv
  <1>5. ASSUME NEW s \in Slot, Progress(s) PROVE IInv'
    <2>1. CASE GiveUp(s)
      BY <2>1, RefuseInv DEF GiveUp, Code
    <2> QED
      BY <1>5, <2>1, ChooseListInv, FindListsInv, CountListInv, DecideToMintInv,
         SignListInv, InsertListInv, ProbeInv, ClaimIndexInv, ClassifyInv,
         RecheckInv DEF Progress
  <1>6. ASSUME NEW s \in Slot, Fault(s) PROVE IInv'
    <2>1. CASE InsertListUnacknowledged(s)
      BY <2>1, InsertListUnacknowledgedInv
    <2>2. CASE ClaimUncertain(s)
      BY <2>2, ClaimUncertainInv
    <2>3. CASE StorageFails(s)
      BY <2>3, RefuseInv DEF StorageFails, Code
    <2>4. CASE Abandon(s)
      BY <2>4, FinishInv DEF Abandon
    <2> QED
      BY <1>6, <2>1, <2>2, <2>3, <2>4 DEF Fault
  <1> QED
    BY <1>1, <1>2, <1>3, <1>4, <1>5, <1>6 DEF Next

(* The invariant holds in every reachable state.                           *)
THEOREM Invariance == Safety => []IInv
  BY InitInv, NextInv, PTL DEF Safety

(* Every variable keeps its type: in particular no request ever probes     *)
(* more than Attempts times.                                               *)
THEOREM TypeCorrect == Safety => []TypeOK
  <1>1. IInv => TypeOK
    BY DEF IInv
  <1> QED
    BY Invariance, <1>1, PTL

(* No credential gets an entry of a list of another tenant or purpose.     *)
THEOREM EntriesMatchLists == Safety => []AllocationMatchesList
  <1>1. IInv => AllocationMatchesList
    BY DEF IInv
  <1> QED
    BY Invariance, <1>1, PTL

-----------------------------------------------------------------------------
(* The implementation of EntryRegistry.                                    *)

LEMMA SubmitAsks ==
  ASSUME IInv, NEW s \in Slot, Submit(s)
  PROVE  Registry!Ask(s)
  BY DEF Submit, Registry!Ask

(* A slot that gets its row in binds its claim.                            *)
LEMMA InsertBinds ==
  ASSUME IInv, NEW s \in Slot, phase[s] = "claiming", ~Conflict(s),
         allocation' = allocation \cup {NewRow(s)}, claim' = claim,
         \/ answer' = [answer EXCEPT ![s] =
                         [code |-> "allocated", entry |-> NewRow(s)]]
         \/ answer' = answer
  PROVE  Registry!Bind(s)
  <1>1. /\ NewRow(s) \in Allocated /\ NewRow(s).claim = claim[s]
        /\ NewRow(s).list = target[s] /\ NewRow(s).index = index[s]
        /\ claim[s] \in Claim
    BY NewRowMatches
  <1>2. answer[s] = None /\ claim[s] # None
    BY <1>1, NoneAssumption DEF IInv, SlotState
  <1>3. NewRow(s) \in Registry!Binding
    BY <1>1 DEF Allocated, Registry!Binding
  <1>4. /\ ~Registry!Bound(claim[s])
        /\ ~Registry!Taken(NewRow(s).list, NewRow(s).index)
    BY <1>1 DEF Conflict, IsIndexAllocated, HasAllocation, Registry!Bound,
                Registry!Taken
  <1> QED
    BY <1>1, <1>2, <1>3, <1>4 DEF Registry!Bind

(* A refusal answers; "credential-already-allocated" only when it is.      *)
LEMMA RefuseRefuses ==
  ASSUME IInv, NEW s \in Slot, phase[s] # "idle",
         NEW code \in Code \ {"allocated"}, Refuse(s, code),
         code = "credential-already-allocated" => HasAllocation(claim[s]),
         UNCHANGED <<allocation, claim>>
  PROVE  Registry!Refuse(s)
  <1>1. answer[s] = None /\ claim[s] # None
    BY NoneAssumption DEF IInv, SlotState
  <1>2. answer' = [answer EXCEPT ![s] = [code |-> code, entry |-> None]]
    BY DEF Refuse, Finish
  <1>3. code = "credential-already-allocated" => Registry!Bound(claim[s])
    BY DEF HasAllocation, Registry!Bound
  <1> QED
    BY <1>1, <1>2, <1>3 DEF Registry!Refuse

LEMMA ProgressImplements ==
  ASSUME IInv, NEW s \in Slot, Progress(s)
  PROVE  \/ Registry!Bind(s) \/ Registry!Refuse(s)
         \/ UNCHANGED <<allocation, claim, answer>>
  <1>1. CASE ChooseList(s)
    BY <1>1, RefuseRefuses DEF ChooseList, Code
  <1>2. CASE FindLists(s) \/ CountList(s) \/ Probe(s) \/ InsertList(s)
    BY <1>2 DEF FindLists, CountList, Probe, InsertList, AddList
  <1>3. CASE DecideToMint(s)
    BY <1>3, RefuseRefuses DEF DecideToMint, Code
  <1>4. CASE SignList(s)
    BY <1>4, RefuseRefuses DEF SignList, Code
  <1>5. CASE GiveUp(s)
    BY <1>5, RefuseRefuses DEF GiveUp, Code
  <1>6. CASE ClaimIndex(s)
    BY <1>6, InsertBinds DEF ClaimIndex, Finish
  <1>7. CASE Classify(s)
    BY <1>7, RefuseRefuses DEF Classify, Code
  <1>8. CASE Recheck(s)
    BY <1>8, RefuseRefuses DEF Recheck, Code
  <1> QED
    BY <1>1, <1>2, <1>3, <1>4, <1>5, <1>6, <1>7, <1>8 DEF Progress

LEMMA FaultImplements ==
  ASSUME IInv, NEW s \in Slot, Fault(s)
  PROVE  \/ Registry!Bind(s) \/ Registry!Refuse(s)
         \/ UNCHANGED <<allocation, claim, answer>>
  <1>1. CASE InsertListUnacknowledged(s)
    BY <1>1, RefuseRefuses DEF InsertListUnacknowledged, AddList, Code
  <1>2. CASE ClaimUncertain(s)
    BY <1>2, InsertBinds DEF ClaimUncertain, Goto
  <1>3. CASE StorageFails(s)
    BY <1>3, RefuseRefuses DEF StorageFails, Code
  <1>4. CASE Abandon(s)
    <2>1. answer[s] = None
      BY <1>4 DEF Abandon, IInv, SlotState
    <2>2. answer' = [answer EXCEPT ![s] = None]
      BY <1>4 DEF Abandon, Finish
    <2> QED
      BY <1>4, <2>1, <2>2 DEF Abandon, IInv, TypeOK
  <1> QED
    BY <1>1, <1>2, <1>3, <1>4 DEF Fault

LEMMA NextImplements ==
  IInv /\ [Next]_vars => [Registry!Next]_(Registry!registryVars)
  <1> SUFFICES ASSUME IInv, [Next]_vars
               PROVE  \/ \E s \in Slot : \/ Registry!Ask(s) \/ Registry!Bind(s)
                                        \/ Registry!Refuse(s)
                      \/ UNCHANGED <<allocation, claim, answer>>
    BY DEF Registry!Next, Registry!registryVars
  <1>1. CASE UNCHANGED vars \/ Tick \/ \E l \in Chosen : PostList(l)
    BY <1>1 DEF vars, Tick, PostList
  <1>2. ASSUME NEW s \in Slot, Submit(s) PROVE Registry!Ask(s)
    BY <1>2, SubmitAsks
  <1> QED
    BY <1>1, <1>2, ProgressImplements, FaultImplements DEF Next

(* An entry is bound atomically, to one claim, for good, and no answer     *)
(* lies about it, through lost races, lost acknowledgements and crashes.   *)
THEOREM EntriesAreKept == Safety => EntriesAreForLife
  <1>1. Init => Registry!Init
    BY DEF Init, Registry!Init
  <1> QED
    BY <1>1, Invariance, NextImplements, PTL
       DEF Safety, EntriesAreForLife, Registry!Spec

-----------------------------------------------------------------------------
(* What the registry's promise comes to.                                   *)

(* A claim has one entry and an entry has one claim: what the two unique   *)
(* constraints of index_allocations are for (storage-sql-migrations.ts).   *)
UniqueEntries ==
  \A a, b \in allocation :
     a.claim = b.claim \/ (a.list = b.list /\ a.index = b.index) => a = b

(* An answer is true when it is given and stays true: the entry somebody   *)
(* was told of is stored, for that claim, and a claim said to be allocated *)
(* has an entry (allocateIndex and #classifyAllocationFailure).            *)
TrueAnswers ==
  \A s \in Slot :
     answer[s] # None =>
       /\ answer[s].code = "allocated" =>
            /\ answer[s].entry \in allocation
            /\ answer[s].entry.claim = claim[s]
       /\ answer[s].code = "credential-already-allocated" =>
            HasAllocation(claim[s])

LEMMA AskKeepsPromise ==
  ASSUME IInv, UniqueEntries, TrueAnswers, NEW s \in Slot, Registry!Ask(s)
  PROVE  UniqueEntries' /\ TrueAnswers'
  <1> USE DEF Registry!Ask
  <1>1. UniqueEntries'
    BY DEF UniqueEntries
  <1>2. answer'[s] = None
          /\ \A q \in Slot \ {s} : answer'[q] = answer[q] /\ claim'[q] = claim[q]
    BY DEF IInv, TypeOK
  <1>3. TrueAnswers'
    BY <1>2 DEF TrueAnswers, HasAllocation
  <1> QED
    BY <1>1, <1>3

LEMMA BindKeepsPromise ==
  ASSUME IInv, UniqueEntries, TrueAnswers, NEW s \in Slot, Registry!Bind(s)
  PROVE  UniqueEntries' /\ TrueAnswers'
  <1> PICK b \in Registry!Binding :
        /\ b.claim = claim[s]
        /\ ~Registry!Taken(b.list, b.index)
        /\ allocation' = allocation \cup {b}
        /\ \/ answer' = [answer EXCEPT ![s] = [code |-> "allocated", entry |-> b]]
           \/ UNCHANGED answer
    BY DEF Registry!Bind
  <1>1. /\ answer[s] = None /\ claim' = claim
        /\ \A a \in allocation : /\ a.claim # b.claim
                                 /\ ~(a.list = b.list /\ a.index = b.index)
    BY DEF Registry!Bind, Registry!Bound, Registry!Taken
  <1>2. UniqueEntries'
    BY <1>1 DEF UniqueEntries
  <1>3. ASSUME NEW q \in Slot, answer'[q] # None
        PROVE  /\ answer'[q].code = "allocated" =>
                    /\ answer'[q].entry \in allocation'
                    /\ answer'[q].entry.claim = claim'[q]
               /\ answer'[q].code = "credential-already-allocated" =>
                    HasAllocation(claim[q])'
    <2>1. CASE q = s
      <3>1. answer'[s] = [code |-> "allocated", entry |-> b]
        BY <1>1, <1>3, <2>1 DEF IInv, TypeOK
      <3> QED
        BY <1>1, <2>1, <3>1
    <2>2. CASE q # s
      <3>1. answer'[q] = answer[q]
        BY <2>2 DEF IInv, TypeOK
      <3> QED
        BY <1>1, <1>3, <3>1 DEF TrueAnswers, HasAllocation
    <2> QED
      BY <2>1, <2>2
  <1>4. TrueAnswers'
    BY <1>3 DEF TrueAnswers
  <1> QED
    BY <1>2, <1>4

LEMMA RefuseKeepsPromise ==
  ASSUME IInv, UniqueEntries, TrueAnswers, NEW s \in Slot, Registry!Refuse(s)
  PROVE  UniqueEntries' /\ TrueAnswers'
  <1> PICK code \in Code \ {"allocated"} :
        /\ code = "credential-already-allocated" => Registry!Bound(claim[s])
        /\ answer' = [answer EXCEPT ![s] = [code |-> code, entry |-> None]]
    BY DEF Registry!Refuse
  <1>1. UNCHANGED <<allocation, claim>>
    BY DEF Registry!Refuse
  <1>2. UniqueEntries'
    BY <1>1 DEF UniqueEntries
  <1>3. /\ answer'[s] = [code |-> code, entry |-> None]
        /\ \A q \in Slot \ {s} : answer'[q] = answer[q]
    BY DEF IInv, TypeOK
  <1>4. TrueAnswers'
    BY <1>1, <1>3 DEF TrueAnswers, HasAllocation, Registry!Bound
  <1> QED
    BY <1>2, <1>4

LEMMA PromiseStep ==
  IInv /\ UniqueEntries /\ TrueAnswers /\ [Next]_vars
    => UniqueEntries' /\ TrueAnswers'
  <1> SUFFICES ASSUME IInv, UniqueEntries, TrueAnswers, [Next]_vars
               PROVE  UniqueEntries' /\ TrueAnswers'
    OBVIOUS
  <1>1. CASE UNCHANGED <<allocation, claim, answer>>
    BY <1>1 DEF UniqueEntries, TrueAnswers, HasAllocation
  <1>2. [Registry!Next]_(Registry!registryVars)
    BY NextImplements
  <1> QED
    BY <1>1, <1>2, AskKeepsPromise, BindKeepsPromise, RefuseKeepsPromise
       DEF Registry!Next, Registry!registryVars

LEMMA PromiseInit == Init => UniqueEntries /\ TrueAnswers
  BY DEF Init, UniqueEntries, TrueAnswers

(* No claim has two entries and no entry two claims, however many          *)
(* allocators race for them.                                               *)
THEOREM EntriesAreUnique == Safety => []UniqueEntries
  <1> QED
    BY Invariance, PromiseInit, PromiseStep, PTL DEF Safety

(* Nobody is told of an entry that is not stored, or that a claim is       *)
(* allocated when it is not, and what was true stays true.                 *)
THEOREM AnswersAreTrue == Safety => []TrueAnswers
  <1> QED
    BY Invariance, PromiseInit, PromiseStep, PTL DEF Safety
=============================================================================
