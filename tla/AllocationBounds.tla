-------------------------- MODULE AllocationBounds --------------------------
(***************************************************************************)
(* How far concurrent allocations overshoot the roll threshold, for any    *)
(* threshold and any number of requests in flight.                         *)
(*                                                                         *)
(* The argument counts a list's entries together with its bidders, the     *)
(* requests that have taken it and may still insert: a request becomes a   *)
(* bidder only while the entries are below the threshold, and an insert    *)
(* turns one bidder, or more, into one entry.                              *)
(***************************************************************************)
EXTENDS AllocationProofs, FiniteSetTheorems

(* Counting is possible.                                                   *)
FiniteTable == IsFiniteSet(allocation)

Fits(l) == Used(l) + Cardinality(Bidders(l)) < RollAt + Cardinality(Slot)

BoundInv == IInv /\ FiniteTable /\ OvershootBound

-----------------------------------------------------------------------------
LEMMA SlotCount == IsFiniteSet(Slot) /\ Cardinality(Slot) \in Nat
  BY FiniteAssumption, FS_CardinalityType

LEMMA EntryCount ==
  ASSUME FiniteTable, NEW l
  PROVE  IsFiniteSet(Entries(l)) /\ Used(l) \in Nat
  <1>1. Entries(l) \in SUBSET allocation
    BY DEF Entries
  <1> QED
    BY <1>1, FS_Subset, FS_CardinalityType DEF FiniteTable, Used

LEMMA BidderCount ==
  ASSUME NEW B \in SUBSET Slot
  PROVE  /\ IsFiniteSet(B) /\ Cardinality(B) \in Nat
         /\ Cardinality(B) <= Cardinality(Slot)
  BY FiniteAssumption, FS_Subset, FS_CardinalityType

LEMMA BiddersAreSlots ==
  ASSUME NEW l
  PROVE  Bidders(l) \in SUBSET Slot /\ Bidders(l)' \in SUBSET Slot
  BY DEF Bidders

(* No step makes a bidder of l but one that takes l for its list.          *)
LEMMA NoNewBidder ==
  ASSUME allocation \subseteq allocation', claim' = claim, NEW l,
         \A q \in Slot :
            target'[q] = l /\ phase'[q] \in Targeting =>
              target[q] = l /\ phase[q] \in Targeting
  PROVE  Bidders(l)' \subseteq Bidders(l)
  BY DEF Bidders, HasAllocation

(* A step that adds no entry and no bidder.                                *)
LEMMA CalmFits ==
  ASSUME FiniteTable, NEW l, Fits(l), allocation' = allocation,
         Bidders(l)' \subseteq Bidders(l)
  PROVE  Fits(l)'
  <1>1. Used(l)' = Used(l) /\ Used(l) \in Nat
    BY EntryCount DEF Used, Entries
  <1> PICK B, C : B = Bidders(l) /\ C = Bidders(l)'
    OBVIOUS
  <1>2. B \in SUBSET Slot /\ C \in SUBSET B
    BY BiddersAreSlots
  <1>3. /\ Cardinality(C) <= Cardinality(B)
        /\ Cardinality(C) \in Nat /\ Cardinality(B) \in Nat
    BY <1>2, BidderCount, FS_Subset
  <1>4. (Fits(l))' <=> Used(l)' + Cardinality(C) < RollAt + Cardinality(Slot)
    BY DEF Fits
  <1>5. Fits(l) <=> Used(l) + Cardinality(B) < RollAt + Cardinality(Slot)
    BY DEF Fits
  <1> QED
    BY <1>1, <1>3, <1>4, <1>5, SlotCount, NumberAssumption

(* A step that adds bidders, at a time when l is under the threshold.      *)
LEMMA JoinFits ==
  ASSUME FiniteTable, NEW l, UnderThreshold(l), allocation' = allocation
  PROVE  Fits(l)'
  <1>1. Used(l)' = Used(l) /\ Used(l) \in Nat /\ Used(l) < RollAt
    BY EntryCount DEF Used, Entries, UnderThreshold
  <1> PICK C : C = Bidders(l)'
    OBVIOUS
  <1>2. Cardinality(C) \in Nat /\ Cardinality(C) <= Cardinality(Slot)
    BY BiddersAreSlots, BidderCount
  <1>3. (Fits(l))' <=> Used(l)' + Cardinality(C) < RollAt + Cardinality(Slot)
    BY DEF Fits
  <1> QED
    BY <1>1, <1>2, <1>3, SlotCount, NumberAssumption

(* An insert: of one entry at most, and by a bidder of the entry's list,   *)
(* who is none any more.                                                   *)
LEMMA InsertFits ==
  ASSUME IInv, FiniteTable, NEW l, Fits(l), NEW s \in Slot,
         phase[s] = "claiming", ~Conflict(s),
         allocation' = allocation \cup {NewRow(s)}, claim' = claim,
         \A q \in Slot :
            target'[q] = l /\ phase'[q] \in Targeting =>
              target[q] = l /\ phase[q] \in Targeting
  PROVE  Fits(l)'
  <1>1. NewRow(s).list = target[s] /\ NewRow(s).claim = claim[s]
    BY NewRowMatches
  <1>2. Bidders(l)' \subseteq Bidders(l)
    BY NoNewBidder
  <1>3. CASE l # target[s]
    <2>1. Entries(l)' = Entries(l)
      BY <1>1, <1>3 DEF Entries
    <2>2. Used(l)' = Used(l) /\ Used(l) \in Nat
      BY <2>1, EntryCount DEF Used
    <2> PICK B, C : B = Bidders(l) /\ C = Bidders(l)'
      OBVIOUS
    <2>3. /\ Cardinality(C) <= Cardinality(B)
          /\ Cardinality(C) \in Nat /\ Cardinality(B) \in Nat
      BY <1>2, BiddersAreSlots, BidderCount, FS_Subset
    <2>4. (Fits(l))' <=> Used(l)' + Cardinality(C) < RollAt + Cardinality(Slot)
      BY DEF Fits
    <2>5. Fits(l) <=> Used(l) + Cardinality(B) < RollAt + Cardinality(Slot)
      BY DEF Fits
    <2> QED
      BY <2>2, <2>3, <2>4, <2>5, SlotCount, NumberAssumption
  <1>4. CASE l = target[s]
    <2> PICK E, F : E = Entries(l) /\ F = Entries(l)'
      OBVIOUS
    <2>1. F = E \cup {NewRow(s)} /\ NewRow(s) \notin E
      BY <1>1, <1>4 DEF Entries, Conflict, HasAllocation
    <2>2. IsFiniteSet(E) /\ Cardinality(E) \in Nat
      BY EntryCount DEF Used
    <2>3. Cardinality(F) = Cardinality(E) + 1
      BY <2>1, <2>2, FS_AddElement
    <2> PICK B, C : B = Bidders(l) /\ C = Bidders(l)'
      OBVIOUS
    <2>4. s \in B
      BY <1>4 DEF Bidders, Conflict, Targeting
    <2>5. s \notin C
      BY <1>1 DEF Bidders, HasAllocation
    <2>6. B \in SUBSET Slot /\ C \in SUBSET (B \ {s})
      BY <1>2, <2>5, BiddersAreSlots
    <2>7. IsFiniteSet(B) /\ Cardinality(B) \in Nat
      BY <2>6, BidderCount
    <2>8. IsFiniteSet(B \ {s}) /\ Cardinality(B \ {s}) = Cardinality(B) - 1
      BY <2>4, <2>7, FS_RemoveElement
    <2>9. Cardinality(C) <= Cardinality(B) - 1 /\ Cardinality(C) \in Nat
      BY <2>6, <2>8, FS_Subset, FS_CardinalityType
    <2>10. (Fits(l))' <=> Cardinality(F) + Cardinality(C) < RollAt + Cardinality(Slot)
      BY DEF Fits, Used
    <2>11. Fits(l) <=> Cardinality(E) + Cardinality(B) < RollAt + Cardinality(Slot)
      BY DEF Fits, Used
    <2> QED
      BY <2>2, <2>3, <2>7, <2>9, <2>10, <2>11, SlotCount, NumberAssumption
  <1> QED
    BY <1>3, <1>4

-----------------------------------------------------------------------------
(* One step of the whole system, seen from a list that callers never name. *)

(* A slot that ends its request bids for nothing any more.                 *)
LEMMA FinishBids ==
  ASSUME IInv, NEW s \in Slot, NEW what, Finish(s, what), NEW l \in List
  PROVE  \A q \in Slot :
            target'[q] = l /\ phase'[q] \in Targeting =>
              target[q] = l /\ phase[q] \in Targeting
  BY NoneAssumption DEF Finish, IInv, TypeOK, Targeting

(* A slot that takes l has counted it, minted it, or was told to.          *)
LEMMA CountListFits ==
  ASSUME BoundInv, NEW s \in Slot, CountList(s), NEW l \in List \ Chosen
  PROVE  Fits(l)'
  <1>1. /\ phase[s] = "counting" /\ UNCHANGED <<allocation, claim>>
        /\ FiniteTable /\ Fits(l) /\ IInv
    BY DEF CountList, BoundInv, OvershootBound, Fits
  <1> PICK m \in Newest(unread[s]) :
        \/ /\ UnderThreshold(m) /\ Goto(s, "counting", "probing")
           /\ target' = [target EXCEPT ![s] = m]
        \/ UNCHANGED <<phase, target>>
    BY DEF CountList
  <1>2. CASE UNCHANGED <<phase, target>>
    BY <1>1, <1>2, NoNewBidder, CalmFits
  <1>3. CASE UnderThreshold(m) /\ Goto(s, "counting", "probing")
               /\ target' = [target EXCEPT ![s] = m]
    <2>1. CASE l = m
      BY <1>1, <1>3, <2>1, JoinFits
    <2>2. CASE l # m
      <3>1. ASSUME NEW q \in Slot, target'[q] = l, phase'[q] \in Targeting
            PROVE  target[q] = l /\ phase[q] \in Targeting
        BY <1>3, <2>2, <3>1 DEF Goto, BoundInv, IInv, TypeOK
      <3> QED
        BY <1>1, <3>1, NoNewBidder, CalmFits
    <2> QED
      BY <2>1, <2>2
  <1> QED
    BY <1>2, <1>3

LEMMA InsertListFits ==
  ASSUME BoundInv, NEW s \in Slot, InsertList(s), NEW l \in List \ Chosen
  PROVE  Fits(l)'
  <1> PICK m \in List :
        /\ AddList(s, m) /\ Goto(s, "inserting", "probing")
        /\ target' = [target EXCEPT ![s] = m]
    BY DEF InsertList
  <1>1. /\ list[m] = None /\ UNCHANGED <<allocation, claim>>
        /\ FiniteTable /\ Fits(l) /\ IInv
    BY DEF AddList, BoundInv, OvershootBound, Fits
  <1>2. CASE l = m
    <2>1. Entries(m) = {}
      BY <1>1 DEF Entries, IInv, AllocationMatchesList
    <2>2. UnderThreshold(m)
      BY <2>1, FS_EmptySet, NumberAssumption DEF UnderThreshold, Used
    <2> QED
      BY <1>1, <1>2, <2>2, JoinFits
  <1>3. CASE l # m
    <2>1. ASSUME NEW q \in Slot, target'[q] = l, phase'[q] \in Targeting
          PROVE  target[q] = l /\ phase[q] \in Targeting
      BY <1>3, <2>1 DEF Goto, BoundInv, IInv, TypeOK
    <2> QED
      BY <1>1, <2>1, NoNewBidder, CalmFits
  <1> QED
    BY <1>2, <1>3

LEMMA ChooseListFits ==
  ASSUME BoundInv, NEW s \in Slot, ChooseList(s), NEW l \in List \ Chosen
  PROVE  Fits(l)'
  <1>1. /\ phase[s] = "choosing" /\ UNCHANGED <<allocation, claim>>
        /\ FiniteTable /\ Fits(l) /\ IInv
    BY DEF ChooseList, BoundInv, OvershootBound, Fits
  <1>2. target[s] # l
    BY <1>1 DEF IInv, SlotState
  <1>3. ASSUME NEW q \in Slot, target'[q] = l, phase'[q] \in Targeting
        PROVE  target[q] = l /\ phase[q] \in Targeting
    <2>1. CASE \E code : Refuse(s, code)
      BY <2>1, <1>1, <1>3, FinishBids DEF Refuse
    <2>2. CASE Goto(s, "choosing", "probing") /\ UNCHANGED target
      BY <2>2, <1>1, <1>2, <1>3 DEF Goto, IInv, TypeOK
    <2> QED
      BY <2>1, <2>2 DEF ChooseList
  <1> QED
    BY <1>1, <1>3, NoNewBidder, CalmFits

(* All the other steps of a slot that insert nothing.                      *)
LEMMA QuietFits ==
  ASSUME BoundInv, NEW s \in Slot, NEW l \in List \ Chosen,
         UNCHANGED <<allocation, claim>>,
         \/ \E what : Finish(s, what)
         \/ /\ UNCHANGED target
            /\ \/ UNCHANGED phase
               \/ \E to \in Phase \ Targeting : phase' = [phase EXCEPT ![s] = to]
               \/ phase[s] \in Targeting
                    /\ \E to : phase' = [phase EXCEPT ![s] = to]
  PROVE  Fits(l)'
  <1>1. FiniteTable /\ Fits(l) /\ IInv
    BY DEF BoundInv, OvershootBound, Fits
  <1>2. ASSUME NEW q \in Slot, target'[q] = l, phase'[q] \in Targeting
        PROVE  target[q] = l /\ phase[q] \in Targeting
    <2>1. CASE \E what : Finish(s, what)
      BY <2>1, <1>1, <1>2, FinishBids
    <2>2. CASE UNCHANGED <<target, phase>>
      BY <2>2, <1>2
    <2>3. CASE UNCHANGED target
                 /\ \E to \in Phase \ Targeting : phase' = [phase EXCEPT ![s] = to]
      BY <2>3, <1>1, <1>2 DEF IInv, TypeOK
    <2>4. CASE UNCHANGED target /\ phase[s] \in Targeting
                 /\ \E to : phase' = [phase EXCEPT ![s] = to]
      BY <2>4, <1>1, <1>2 DEF IInv, TypeOK
    <2> QED
      BY <2>1, <2>2, <2>3, <2>4
  <1> QED
    BY <1>1, <1>2, NoNewBidder, CalmFits

LEMMA SubmitFits ==
  ASSUME BoundInv, NEW s \in Slot, Submit(s), NEW l \in List \ Chosen
  PROVE  Fits(l)'
  <1>1. FiniteTable /\ Fits(l) /\ IInv
    BY DEF BoundInv, OvershootBound, Fits
  <1>2. Bidders(l)' \subseteq Bidders(l)
    BY <1>1 DEF Submit, Bidders, HasAllocation, Targeting, IInv, TypeOK
  <1> QED
    BY <1>1, <1>2, CalmFits DEF Submit

LEMMA ClaimIndexFits ==
  ASSUME BoundInv, NEW s \in Slot, ClaimIndex(s), NEW l \in List \ Chosen
  PROVE  Fits(l)'
  <1>1. /\ phase[s] = "claiming" /\ claim' = claim
        /\ FiniteTable /\ Fits(l) /\ IInv
    BY DEF ClaimIndex, BoundInv, OvershootBound, Fits
  <1>2. CASE ~Conflict(s)
    <2>1. /\ allocation' = allocation \cup {NewRow(s)}
          /\ \E what : Finish(s, what)
      BY <1>2 DEF ClaimIndex
    <2> QED
      BY <1>1, <1>2, <2>1, FinishBids, InsertFits
  <1>3. CASE Conflict(s)
    BY <1>3, QuietFits DEF ClaimIndex, Goto, Targeting
  <1> QED
    BY <1>2, <1>3

LEMMA ClaimUncertainFits ==
  ASSUME BoundInv, NEW s \in Slot, ClaimUncertain(s), NEW l \in List \ Chosen
  PROVE  Fits(l)'
  <1>1. /\ phase[s] = "claiming" /\ claim' = claim /\ target' = target
        /\ phase' = [phase EXCEPT ![s] = "classifying"]
        /\ FiniteTable /\ Fits(l) /\ IInv
    BY DEF ClaimUncertain, Goto, BoundInv, OvershootBound, Fits
  <1>2. CASE UNCHANGED allocation
    BY <1>1, <1>2, QuietFits DEF Targeting
  <1>3. CASE ~Conflict(s) /\ allocation' = allocation \cup {NewRow(s)}
    <2>1. ASSUME NEW q \in Slot, target'[q] = l, phase'[q] \in Targeting
          PROVE  target[q] = l /\ phase[q] \in Targeting
      BY <1>1, <2>1 DEF IInv, TypeOK, Targeting
    <2> QED
      BY <1>1, <1>3, <2>1, InsertFits
  <1> QED
    BY <1>2, <1>3 DEF ClaimUncertain

LEMMA ProgressFits ==
  ASSUME BoundInv, NEW s \in Slot, Progress(s), NEW l \in List \ Chosen
  PROVE  Fits(l)'
  <1>1. CASE FindLists(s)
    BY <1>1, QuietFits DEF FindLists, Goto, Phase, Targeting
  <1>2. CASE DecideToMint(s)
    BY <1>2, QuietFits DEF DecideToMint, Goto, Phase, Targeting, Refuse
  <1>3. CASE SignList(s)
    BY <1>3, QuietFits DEF SignList, Goto, Phase, Targeting, Refuse
  <1>4. CASE Probe(s)
    BY <1>4, QuietFits DEF Probe, Goto, Targeting
  <1>5. CASE GiveUp(s)
    BY <1>5, QuietFits DEF GiveUp, Refuse
  <1>6. CASE Classify(s)
    BY <1>6, QuietFits DEF Classify, Goto, Targeting, Refuse
  <1>7. CASE Recheck(s)
    BY <1>7, QuietFits DEF Recheck, Goto, Targeting, Refuse
  <1> QED
    BY <1>1, <1>2, <1>3, <1>4, <1>5, <1>6, <1>7, ChooseListFits, CountListFits,
       InsertListFits, ClaimIndexFits DEF Progress

LEMMA FaultFits ==
  ASSUME BoundInv, NEW s \in Slot, Fault(s), NEW l \in List \ Chosen
  PROVE  Fits(l)'
  <1>1. CASE InsertListUnacknowledged(s)
    BY <1>1, QuietFits DEF InsertListUnacknowledged, AddList, Refuse
  <1>2. CASE StorageFails(s)
    BY <1>2, QuietFits DEF StorageFails, Refuse
  <1>3. CASE Abandon(s)
    BY <1>3, QuietFits DEF Abandon
  <1> QED
    BY <1>1, <1>2, <1>3, ClaimUncertainFits DEF Fault

(* The table grows by at most one row a step.                              *)
LEMMA OneRowAStep ==
  ASSUME [Next]_vars
  PROVE  \/ allocation' = allocation
         \/ \E x : allocation' = allocation \cup {x}
  <1>1. ASSUME NEW s \in Slot, Progress(s)
        PROVE  \/ allocation' = allocation
               \/ \E x : allocation' = allocation \cup {x}
    BY <1>1 DEF Progress, ChooseList, FindLists, CountList, DecideToMint,
       SignList, InsertList, AddList, Probe, GiveUp, ClaimIndex, Classify, Recheck
  <1>2. ASSUME NEW s \in Slot, Fault(s)
        PROVE  \/ allocation' = allocation
               \/ \E x : allocation' = allocation \cup {x}
    BY <1>2 DEF Fault, InsertListUnacknowledged, AddList, ClaimUncertain,
       StorageFails, Abandon
  <1> QED
    BY <1>1, <1>2 DEF Next, vars, Submit, PostList, Tick

LEMMA BoundNext == BoundInv /\ [Next]_vars => BoundInv'
  <1> SUFFICES ASSUME BoundInv, [Next]_vars PROVE BoundInv'
    OBVIOUS
  <1>1. IInv'
    BY NextInv DEF BoundInv
  <1>2. FiniteTable'
    BY OneRowAStep, FS_AddElement DEF BoundInv, FiniteTable
  <1>3. ASSUME NEW l \in List \ Chosen PROVE Fits(l)'
    <2>1. CASE UNCHANGED vars \/ Tick \/ \E m \in Chosen : PostList(m)
      <3>1. UNCHANGED <<allocation, claim, target, phase>>
        BY <2>1 DEF vars, Tick, PostList
      <3>2. FiniteTable /\ Fits(l)
        BY DEF BoundInv, OvershootBound, Fits
      <3> QED
        BY <3>1, <3>2, NoNewBidder, CalmFits
    <2> QED
      BY <2>1, SubmitFits, ProgressFits, FaultFits DEF Next
  <1> QED
    BY <1>1, <1>2, <1>3 DEF BoundInv, OvershootBound, Fits

LEMMA BoundInit == Init => BoundInv
  <1> SUFFICES ASSUME Init PROVE BoundInv
    OBVIOUS
  <1>1. IInv
    BY InitInv
  <1>2. FiniteTable
    BY FS_EmptySet DEF Init, FiniteTable
  <1>3. ASSUME NEW l \in List
        PROVE  Used(l) + Cardinality(Bidders(l)) < RollAt + Cardinality(Slot)
    <2>1. Entries(l) = {} /\ Bidders(l) = {}
      BY DEF Init, Entries, Bidders, Targeting
    <2> QED
      BY <2>1, FS_EmptySet, SlotCount, NumberAssumption DEF Used
  <1> QED
    BY <1>1, <1>2, <1>3 DEF BoundInv, OvershootBound

(* A list that callers never name holds fewer entries than the threshold   *)
(* plus the number of requests in flight, so a service with fewer requests *)
(* in flight than half a list's length never fills one.                    *)
THEOREM OvershootIsBounded == Safety => []OvershootBound
  <1>1. Safety => []BoundInv
    BY BoundInit, BoundNext, PTL DEF Safety
  <1>2. BoundInv => OvershootBound
    BY DEF BoundInv
  <1> QED
    BY <1>1, <1>2, PTL

-----------------------------------------------------------------------------
(* A list whose indexes are all taken has at least as many entries.        *)
LEMMA FullListCount ==
  ASSUME TypeOK, FiniteTable, NEW l, \A i \in Index : IsIndexAllocated(l, i)
  PROVE  Cardinality(Index) <= Used(l)
  <1> PICK E : E = Entries(l)
    OBVIOUS
  <1>1. IsFiniteSet(E) /\ Used(l) = Cardinality(E)
    BY EntryCount DEF Used
  <1>2. \A a \in E : a.index \in Index
    BY DEF Entries, TypeOK, Allocated
  <1> PICK f : f = [a \in E |-> a.index]
    OBVIOUS
  <1>3. f \in Surjection(E, Index)
    <2>1. ASSUME NEW i \in Index PROVE \E a \in E : f[a] = i
      BY DEF IsIndexAllocated, Entries
    <2> QED
      BY <1>2, <2>1 DEF Surjection
  <1> QED
    BY <1>1, <1>3, FS_Surjection, FiniteAssumption

(* With fewer requests in flight than a list has indexes above the         *)
(* threshold, whoever allocates from a list that callers never name has an *)
(* index left to find.                                                     *)
THEOREM MintedListsHaveRoom == Safety => []RoomToAllocate
  <1>1. Safety => []BoundInv
    BY BoundInit, BoundNext, PTL DEF Safety
  <1>2. BoundInv => RoomToAllocate
    <2> SUFFICES ASSUME BoundInv,
                        RollAt + Cardinality(Slot) <= Cardinality(Index) + 1,
                        NEW l \in List \ Chosen, Bidders(l) # {},
                        \A i \in Index : IsIndexAllocated(l, i)
                 PROVE  FALSE
      BY DEF RoomToAllocate
    <2> PICK B : B = Bidders(l)
      OBVIOUS
    <2>1. IsFiniteSet(B) /\ Cardinality(B) \in Nat
      BY BiddersAreSlots, BidderCount
    <2>2. Cardinality(B) # 0
      BY <2>1, FS_EmptySet
    <2>3. Used(l) \in Nat /\ Cardinality(Index) <= Used(l)
      BY EntryCount, FullListCount DEF BoundInv, IInv
    <2>4. Used(l) + Cardinality(B) < RollAt + Cardinality(Slot)
      BY DEF BoundInv, OvershootBound
    <2>5. Cardinality(Index) \in Nat
      BY FiniteAssumption, FS_CardinalityType
    <2> QED
      BY <2>1, <2>2, <2>3, <2>4, <2>5, SlotCount, NumberAssumption
  <1> QED
    BY <1>1, <1>2, PTL

-----------------------------------------------------------------------------
(* How long a request can take.                                            *)

(* The statements a request can still make.  A probe costs four at most,   *)
(* from isIndexAllocated to the second query of #classifyAllocationFailure,*)
(* and the lists it has found are counted one by one.                      *)
StepsLeft(s) ==
  LET probes == 4 * (Attempts - attempt[s])
      most == 4 * Attempts + 1
  IN  IF phase[s] = "idle" THEN 0
      ELSE IF phase[s] = "rechecking" THEN probes - 2
      ELSE IF phase[s] = "classifying" THEN probes - 1
      ELSE IF phase[s] = "claiming" THEN probes
      ELSE IF phase[s] = "probing" THEN probes + 1
      ELSE IF phase[s] \in {"choosing", "inserting"} THEN most + 1
      ELSE IF phase[s] = "minting" THEN most + 2
      ELSE IF phase[s] = "counting" THEN most + 3 + Cardinality(unread[s])
      ELSE most + 4 + Cardinality(List)

(* It has few left at any time, and none exactly when it has ended.        *)
StepsAreFew ==
  \A s \in Slot :
     /\ StepsLeft(s) \in 0 .. 4 * Attempts + 5 + Cardinality(List)
     /\ StepsLeft(s) = 0 <=> phase[s] = "idle"

(* Each step of its own leaves it fewer, and what other requests insert,   *)
(* mint or win from it never gives it more: no race is lost for ever.      *)
StepsRunOut ==
  [][\A s \in Slot :
       /\ Progress(s) \/ Fault(s) => StepsLeft(s)' < StepsLeft(s)
       /\ phase[s] # "idle" => StepsLeft(s)' <= StepsLeft(s)]_vars

LEMMA ListCount ==
  ASSUME NEW U \in SUBSET List
  PROVE  /\ IsFiniteSet(U) /\ Cardinality(U) \in Nat
         /\ Cardinality(U) <= Cardinality(List) /\ Cardinality(List) \in Nat
  BY FiniteAssumption, FS_Subset, FS_CardinalityType

LEMMA FewSteps ==
  ASSUME IInv, NEW s \in Slot
  PROVE  /\ StepsLeft(s) \in 0 .. 4 * Attempts + 5 + Cardinality(List)
         /\ StepsLeft(s) = 0 <=> phase[s] = "idle"
  <1>1. /\ phase[s] \in Phase /\ attempt[s] \in 0 .. Attempts
        /\ unread[s] \in SUBSET List
    BY DEF IInv, TypeOK
  <1>2. phase[s] \in {"claiming", "classifying", "rechecking"} =>
          attempt[s] < Attempts
    BY DEF IInv, SlotState, Targeting
  <1>3. /\ Cardinality(unread[s]) \in Nat /\ Cardinality(List) \in Nat
        /\ Cardinality(unread[s]) <= Cardinality(List)
    BY <1>1, ListCount
  <1> QED
    BY <1>1, <1>2, <1>3, NumberAssumption DEF StepsLeft, Phase

LEMMA FinishSteps ==
  ASSUME IInv, NEW s \in Slot, NEW what, Finish(s, what), phase[s] # "idle"
  PROVE  StepsLeft(s)' < StepsLeft(s)
  <1>1. phase'[s] = "idle"
    BY DEF Finish, IInv, TypeOK
  <1>2. StepsLeft(s)' = 0
    BY <1>1 DEF StepsLeft
  <1> QED
    BY <1>2, FewSteps

LEMMA SelectingSteps ==
  ASSUME IInv, NEW s \in Slot,
         \/ ChooseList(s) \/ FindLists(s) \/ CountList(s)
         \/ DecideToMint(s) \/ SignList(s) \/ InsertList(s)
  PROVE  StepsLeft(s)' < StepsLeft(s)
  <1>0. /\ attempt[s] \in 0 .. Attempts /\ unread[s] \in SUBSET List
        /\ phase \in [Slot -> Phase] /\ unread \in [Slot -> SUBSET List]
    BY DEF IInv, TypeOK
  <1>1. /\ Cardinality(unread[s]) \in Nat /\ Cardinality(List) \in Nat
        /\ Attempts \in Nat
    BY <1>0, ListCount, NumberAssumption
  (* What a slot that has its list has left.                               *)
  <1>2. ASSUME phase'[s] = "probing", attempt' = attempt
        PROVE  StepsLeft(s)' <= 4 * Attempts + 1 /\ StepsLeft(s)' \in Int
    BY <1>0, <1>1, <1>2 DEF StepsLeft
  <1>3. CASE ChooseList(s)
    <2>1. CASE \E code : Refuse(s, code)
      BY <1>3, <2>1, FinishSteps DEF ChooseList, Refuse
    <2>2. CASE Goto(s, "choosing", "probing") /\ attempt' = attempt
      BY <1>0, <1>1, <1>2, <2>2 DEF Goto, StepsLeft
    <2> QED
      BY <1>3, <2>1, <2>2 DEF ChooseList
  <1>4. CASE FindLists(s)
    <2>1. /\ phase[s] = "finding" /\ phase'[s] = "counting"
          /\ unread'[s] \in SUBSET List
      BY <1>0, <1>4 DEF FindLists, Goto, ListsFor
    <2>2. Cardinality(unread'[s]) \in Nat /\ Cardinality(unread'[s]) <= Cardinality(List)
      BY <2>1, ListCount
    <2> QED
      BY <1>1, <2>1, <2>2 DEF StepsLeft
  <1>5. CASE CountList(s)
    <2>1. phase[s] = "counting" /\ attempt' = attempt
      BY <1>5 DEF CountList
    <2> PICK l \in Newest(unread[s]) :
          \/ Goto(s, "counting", "probing")
          \/ unread' = [unread EXCEPT ![s] = @ \ {l}] /\ UNCHANGED phase
      BY <1>5 DEF CountList
    <2>2. CASE Goto(s, "counting", "probing")
      BY <1>0, <1>1, <1>2, <2>1, <2>2 DEF Goto, StepsLeft
    <2>3. CASE unread' = [unread EXCEPT ![s] = @ \ {l}] /\ UNCHANGED phase
      <3>1. l \in unread[s] /\ unread'[s] = unread[s] \ {l}
        BY <1>0, <2>3 DEF Newest
      <3>2. Cardinality(unread'[s]) = Cardinality(unread[s]) - 1
        BY <1>0, <3>1, ListCount, FS_RemoveElement
      <3> QED
        BY <1>1, <2>1, <2>3, <3>2 DEF StepsLeft
    <2> QED
      BY <2>2, <2>3
  <1>6. CASE DecideToMint(s)
    <2>1. CASE \E code : Refuse(s, code)
      BY <1>6, <2>1, FinishSteps DEF DecideToMint, Refuse
    <2>2. CASE Goto(s, "counting", "minting")
      BY <1>0, <1>1, <2>2 DEF Goto, StepsLeft
    <2> QED
      BY <1>6, <2>1, <2>2 DEF DecideToMint
  <1>7. CASE SignList(s)
    <2>1. CASE \E code : Refuse(s, code)
      BY <1>7, <2>1, FinishSteps DEF SignList, Refuse
    <2>2. CASE Goto(s, "minting", "inserting")
      BY <1>0, <1>1, <2>2 DEF Goto, StepsLeft
    <2> QED
      BY <1>7, <2>1, <2>2 DEF SignList
  <1>8. CASE InsertList(s)
    BY <1>0, <1>1, <1>2, <1>8 DEF InsertList, Goto, StepsLeft
  <1> QED
    BY <1>3, <1>4, <1>5, <1>6, <1>7, <1>8

LEMMA TakingSteps ==
  ASSUME IInv, NEW s \in Slot,
         \/ Probe(s) \/ GiveUp(s) \/ ClaimIndex(s) \/ ClaimUncertain(s)
         \/ Classify(s) \/ Recheck(s)
  PROVE  StepsLeft(s)' < StepsLeft(s)
  <1>0. /\ attempt[s] \in 0 .. Attempts /\ attempt \in [Slot -> 0 .. Attempts]
        /\ phase \in [Slot -> Phase] /\ Attempts \in Nat
    BY NumberAssumption DEF IInv, TypeOK
  <1>1. CASE Probe(s)
    <2>1. phase[s] = "probing"
      BY <1>1 DEF Probe
    <2>2. CASE attempt' = [attempt EXCEPT ![s] = @ + 1] /\ UNCHANGED phase
      BY <1>0, <2>1, <2>2 DEF StepsLeft
    <2>3. CASE Goto(s, "probing", "claiming") /\ UNCHANGED attempt
      BY <1>0, <2>3 DEF Goto, StepsLeft
    <2> QED
      BY <1>1, <2>2, <2>3 DEF Probe
  <1>2. CASE GiveUp(s)
    BY <1>2, FinishSteps DEF GiveUp, Refuse
  <1>3. CASE Goto(s, "claiming", "classifying") /\ UNCHANGED attempt
    BY <1>0, <1>3 DEF Goto, StepsLeft
  <1>4. CASE ClaimIndex(s)
    BY <1>3, <1>4, FinishSteps DEF ClaimIndex
  <1>5. CASE Classify(s)
    <2>1. CASE Goto(s, "classifying", "rechecking") /\ UNCHANGED attempt
      BY <1>0, <2>1 DEF Goto, StepsLeft
    <2> QED
      BY <1>5, <2>1, FinishSteps DEF Classify, Refuse
  <1>6. CASE Recheck(s)
    <2>1. CASE /\ Goto(s, "rechecking", "probing")
               /\ attempt' = [attempt EXCEPT ![s] = @ + 1]
      BY <1>0, <2>1 DEF Goto, StepsLeft
    <2> QED
      BY <1>6, <2>1, FinishSteps DEF Recheck, Refuse
  <1> QED
    BY <1>1, <1>2, <1>3, <1>4, <1>5, <1>6 DEF ClaimUncertain

LEMMA OwnSteps ==
  ASSUME IInv, NEW s \in Slot, Progress(s) \/ Fault(s)
  PROVE  StepsLeft(s)' < StepsLeft(s)
  <1>1. CASE Progress(s)
    BY <1>1, SelectingSteps, TakingSteps DEF Progress
  <1>2. CASE InsertListUnacknowledged(s)
    BY <1>2, FinishSteps DEF InsertListUnacknowledged, AddList, Refuse
  <1>3. CASE StorageFails(s) \/ Abandon(s)
    BY <1>3, FinishSteps DEF StorageFails, Abandon, Refuse
  <1> QED
    BY <1>1, <1>2, <1>3, TakingSteps DEF Fault

(* A slot's step is nobody else's.                                         *)
LEMMA OthersSteps ==
  ASSUME IInv, NEW s \in Slot, NEW q \in Slot \ {s},
         Submit(s) \/ Progress(s) \/ Fault(s)
  PROVE  StepsLeft(q)' = StepsLeft(q)
  <1>0. /\ phase \in [Slot -> Phase] /\ unread \in [Slot -> SUBSET List]
        /\ attempt \in [Slot -> 0 .. Attempts]
    BY DEF IInv, TypeOK
  <1> SUFFICES /\ phase'[q] = phase[q] /\ unread'[q] = unread[q]
               /\ attempt'[q] = attempt[q]
    BY DEF StepsLeft
  <1>1. CASE Submit(s)
    BY <1>0, <1>1 DEF Submit
  <1>2. ASSUME NEW what, Finish(s, what)
        PROVE  /\ phase'[q] = phase[q] /\ unread'[q] = unread[q]
               /\ attempt'[q] = attempt[q]
    BY <1>0, <1>2 DEF Finish
  <1>3. CASE Progress(s)
    BY <1>0, <1>2, <1>3
       DEF Progress, ChooseList, FindLists, CountList, DecideToMint, SignList,
           InsertList, Probe, GiveUp, ClaimIndex, Classify, Recheck, Goto, Refuse
  <1>4. CASE Fault(s)
    BY <1>0, <1>2, <1>4
       DEF Fault, InsertListUnacknowledged, ClaimUncertain, StorageFails,
           Abandon, Goto, Refuse
  <1> QED
    BY <1>1, <1>3, <1>4

LEMMA StepsStep ==
  ASSUME IInv, [Next]_vars, NEW s \in Slot
  PROVE  /\ Progress(s) \/ Fault(s) => StepsLeft(s)' < StepsLeft(s)
         /\ phase[s] # "idle" => StepsLeft(s)' <= StepsLeft(s)
  <1>1. StepsLeft(s) \in Nat
    BY FewSteps, ListCount, NumberAssumption
  <1>2. StepsLeft(s)' \in Nat
    <2>1. IInv'
      BY NextInv
    <2>2. /\ phase'[s] \in Phase /\ attempt'[s] \in 0 .. Attempts
          /\ unread'[s] \in SUBSET List
      BY <2>1 DEF IInv, TypeOK
    <2>3. phase'[s] \in {"claiming", "classifying", "rechecking"} =>
            attempt'[s] < Attempts
      BY <2>1 DEF IInv, SlotState, Targeting
    <2>4. Cardinality(unread'[s]) \in Nat /\ Cardinality(List) \in Nat
      BY <2>2, ListCount
    <2> QED
      BY <2>2, <2>3, <2>4, NumberAssumption DEF StepsLeft
  <1>3. CASE UNCHANGED vars \/ Tick \/ \E l \in Chosen : PostList(l)
    <2>1. UNCHANGED <<phase, unread, attempt>>
      BY <1>3 DEF vars, Tick, PostList
    <2>2. StepsLeft(s)' = StepsLeft(s)
      BY <2>1 DEF StepsLeft
    <2> QED
      BY <1>1, <2>2, OwnSteps
  <1>4. CASE Submit(s)
    BY <1>4, OwnSteps DEF Submit
  <1>5. CASE Progress(s) \/ Fault(s)
    BY <1>1, <1>2, <1>5, OwnSteps
  <1>6. CASE \E q \in Slot \ {s} : Submit(q) \/ Progress(q) \/ Fault(q)
    <2>1. StepsLeft(s)' = StepsLeft(s)
      BY <1>6, OthersSteps
    <2> QED
      BY <1>1, <2>1, OwnSteps
  <1> QED
    BY <1>3, <1>4, <1>5, <1>6 DEF Next

(* A request never has more than a fixed number of statements left.        *)
THEOREM RequestsAreShort == Safety => []StepsAreFew
  <1>1. IInv => StepsAreFew
    BY FewSteps DEF StepsAreFew
  <1> QED
    BY <1>1, Invariance, PTL

(* Every allocation is over after a bounded number of steps of its own,    *)
(* however many races it loses and whatever fails: the loops of            *)
(* #listForPurpose and allocateIndex terminate for any number of lists,    *)
(* probes and concurrent requests.                                         *)
THEOREM RequestsRunOut == Safety => StepsRunOut
  <1>1. IInv /\ [Next]_vars =>
          [\A s \in Slot :
             /\ Progress(s) \/ Fault(s) => StepsLeft(s)' < StepsLeft(s)
             /\ phase[s] # "idle" => StepsLeft(s)' <= StepsLeft(s)]_vars
    BY StepsStep
  <1> QED
    BY <1>1, Invariance, PTL DEF Safety, StepsRunOut
=============================================================================
