------------------------- MODULE AllocationMinting -------------------------
(***************************************************************************)
(* How many lists racing allocations mint, for any number of requests in   *)
(* flight.                                                                 *)
(*                                                                         *)
(* The argument: a slot mints only after it has counted every list of its  *)
(* snapshot as full, and a full list stays full.  So no list it minted     *)
(* before is still under the threshold then, and of the lists under the    *)
(* threshold no two have the same minter.                                  *)
(***************************************************************************)
EXTENDS AllocationBounds

(* Nobody has minted a list that does not exist.                           *)
Unminted == \A l \in List : list[l] = None => minter[l] = None

(* What a slot has minted and would still be used is among the lists it    *)
(* has yet to count, and there is nothing of the kind once it mints.       *)
NothingLeft ==
  \A s \in Slot : \A l \in Spare(claim[s]) :
     minter[l] = s =>
       /\ phase[s] = "counting" => l \in unread[s]
       /\ phase[s] \notin {"minting", "inserting"}

OneSpareEach ==
  \A c \in Claim : \A l, m \in Spare(c) : minter[l] = minter[m] => l = m

MintInv == BoundInv /\ Unminted /\ NothingLeft /\ OneSpareEach

-----------------------------------------------------------------------------
(* A full list stays full.                                                 *)
LEMMA FullStaysFull ==
  ASSUME FiniteTable, FiniteTable', allocation \subseteq allocation', NEW l,
         UnderThreshold(l)'
  PROVE  UnderThreshold(l)
  <1> PICK E, F : E = Entries(l) /\ F = Entries(l)'
    OBVIOUS
  <1>1. E \in SUBSET F /\ F \in SUBSET allocation'
    BY DEF Entries
  <1>2. IsFiniteSet(F)
    BY <1>1, FS_Subset DEF FiniteTable
  <1>3. /\ Cardinality(E) <= Cardinality(F)
        /\ Cardinality(E) \in Nat /\ Cardinality(F) \in Nat
    BY <1>1, <1>2, FS_Subset, FS_CardinalityType
  <1> QED
    BY <1>3, NumberAssumption DEF UnderThreshold, Used

(* Without a new list nothing becomes spare.                               *)
LEMMA SpareShrinks ==
  ASSUME FiniteTable, FiniteTable', allocation \subseteq allocation',
         UNCHANGED <<list, minter>>
  PROVE  \A c : Spare(c)' \subseteq Spare(c)
  BY FullStaysFull DEF Spare, ListsFor

(* A step without a new list, of a slot s that leaves the others alone.    *)
LEMMA LocalMint ==
  ASSUME MintInv, BoundInv', allocation \subseteq allocation',
         UNCHANGED <<list, minter>>, NEW s \in Slot,
         \A q \in Slot \ {s} :
            claim'[q] = claim[q] /\ phase'[q] = phase[q] /\ unread'[q] = unread[q],
         \A l \in Spare(claim[s])' :
            minter[l] = s =>
              /\ phase'[s] = "counting" => l \in unread'[s]
              /\ phase'[s] \notin {"minting", "inserting"}
  PROVE  MintInv'
  <1>1. \A c : Spare(c)' \subseteq Spare(c)
    BY SpareShrinks DEF MintInv, BoundInv
  <1>2. Unminted'
    BY DEF MintInv, Unminted
  <1>3. OneSpareEach'
    BY <1>1 DEF MintInv, OneSpareEach
  <1> QED
    BY <1>1, <1>2, <1>3 DEF MintInv, NothingLeft, BoundInv, IInv, TypeOK

(* A slot that ends its request, or goes on in a phase where nothing is    *)
(* asked of it.                                                            *)
LEMMA LeaveMint ==
  ASSUME MintInv, BoundInv', allocation \subseteq allocation',
         UNCHANGED <<list, minter>>, NEW s \in Slot,
         \A q \in Slot \ {s} :
            claim'[q] = claim[q] /\ phase'[q] = phase[q] /\ unread'[q] = unread[q],
         phase'[s] \notin {"counting", "minting", "inserting"}
  PROVE  MintInv'
  BY LocalMint

LEMMA FinishMint ==
  ASSUME MintInv, BoundInv', allocation \subseteq allocation',
         UNCHANGED <<list, minter, claim>>, NEW s \in Slot,
         \E what : Finish(s, what)
  PROVE  MintInv'
  <1>1. /\ phase' = [phase EXCEPT ![s] = "idle"]
        /\ unread' = [unread EXCEPT ![s] = {}]
    BY DEF Finish
  <1>2. phase'[s] = "idle"
    BY <1>1 DEF MintInv, BoundInv, IInv, TypeOK
  <1>3. \A q \in Slot \ {s} :
           claim'[q] = claim[q] /\ phase'[q] = phase[q] /\ unread'[q] = unread[q]
    BY <1>1
  <1> QED
    BY <1>2, <1>3, LeaveMint

LEMMA GotoMint ==
  ASSUME MintInv, BoundInv', allocation \subseteq allocation',
         UNCHANGED <<list, minter, claim, unread>>, NEW s \in Slot,
         \/ UNCHANGED phase
         \/ \E to \in Phase \ {"counting", "minting", "inserting"} :
              phase' = [phase EXCEPT ![s] = to]
  PROVE  MintInv'
  <1>1. CASE UNCHANGED phase
    <2>1. \A c : Spare(c)' \subseteq Spare(c)
      BY SpareShrinks DEF MintInv, BoundInv
    <2> QED
      BY <1>1, <2>1, LocalMint DEF MintInv, NothingLeft
  <1>2. CASE \E to \in Phase \ {"counting", "minting", "inserting"} :
               phase' = [phase EXCEPT ![s] = to]
    <2>1. phase'[s] \notin {"counting", "minting", "inserting"}
      BY <1>2 DEF MintInv, BoundInv, IInv, TypeOK
    <2>2. \A q \in Slot \ {s} :
             claim'[q] = claim[q] /\ phase'[q] = phase[q] /\ unread'[q] = unread[q]
      BY <1>2
    <2> QED
      BY <2>1, <2>2, LeaveMint
  <1> QED
    BY <1>1, <1>2

LEMMA SubmitMint ==
  ASSUME MintInv, BoundInv', NEW s \in Slot, Submit(s)
  PROVE  MintInv'
  <1> PICK c \in Claim, to \in {"finding", "choosing"} :
        /\ claim' = [claim EXCEPT ![s] = c]
        /\ phase' = [phase EXCEPT ![s] = to]
    BY DEF Submit
  <1>1. phase'[s] = to
    BY DEF MintInv, BoundInv, IInv, TypeOK
  <1>2. ASSUME NEW q \in Slot \ {s}
        PROVE  claim'[q] = claim[q] /\ phase'[q] = phase[q] /\ unread'[q] = unread[q]
    BY DEF Submit, MintInv, BoundInv, IInv, TypeOK
  <1>3. UNCHANGED <<list, allocation, minter>>
    BY DEF Submit
  <1> QED
    BY <1>1, <1>2, <1>3, LeaveMint

(* The snapshot holds every spare list.                                    *)
LEMMA FindListsMint ==
  ASSUME MintInv, BoundInv', NEW s \in Slot, FindLists(s)
  PROVE  MintInv'
  <1>1. /\ phase' = [phase EXCEPT ![s] = "counting"]
        /\ unread' = [unread EXCEPT ![s] = ListsFor(claim[s])]
        /\ UNCHANGED <<list, minter, claim, allocation>>
    BY DEF FindLists, Goto
  <1>2. phase'[s] = "counting" /\ unread'[s] = ListsFor(claim[s])
    BY <1>1 DEF MintInv, BoundInv, IInv, TypeOK
  <1>3. Spare(claim[s])' \subseteq ListsFor(claim[s])
    BY <1>1 DEF Spare, ListsFor
  <1> QED
    BY <1>1, <1>2, <1>3, LocalMint

(* A list that leaves the snapshot uncounted for is full.                  *)
LEMMA CountListMint ==
  ASSUME MintInv, BoundInv', NEW s \in Slot, CountList(s)
  PROVE  MintInv'
  <1> PICK m \in Newest(unread[s]) :
        \/ /\ Goto(s, "counting", "probing")
           /\ unread' = [unread EXCEPT ![s] = {}]
        \/ /\ ~UnderThreshold(m) /\ UNCHANGED phase
           /\ unread' = [unread EXCEPT ![s] = @ \ {m}]
    BY DEF CountList
  <1>1. phase[s] = "counting" /\ UNCHANGED <<list, minter, claim, allocation>>
    BY DEF CountList
  <1>2. CASE Goto(s, "counting", "probing") /\ unread' = [unread EXCEPT ![s] = {}]
    <2>1. phase'[s] = "probing"
      BY <1>2 DEF Goto, MintInv, BoundInv, IInv, TypeOK
    <2> QED
      BY <1>1, <1>2, <2>1, LeaveMint DEF Goto
  <1>3. CASE /\ ~UnderThreshold(m) /\ UNCHANGED phase
             /\ unread' = [unread EXCEPT ![s] = @ \ {m}]
    <2>1. unread'[s] = unread[s] \ {m}
      BY <1>3 DEF MintInv, BoundInv, IInv, TypeOK
    <2>2. ASSUME NEW l \in Spare(claim[s])', minter[l] = s
          PROVE  l \in unread'[s]
      <3>1. l \in Spare(claim[s])
        BY <1>1, <2>2, SpareShrinks DEF MintInv, BoundInv
      <3>2. l \in unread[s] /\ l # m
        BY <1>1, <1>3, <2>2, <3>1 DEF MintInv, NothingLeft, Spare
      <3> QED
        BY <2>1, <3>2
    <2> QED
      BY <1>1, <1>3, <2>2, LocalMint
  <1> QED
    BY <1>2, <1>3

LEMMA DecideToMintMint ==
  ASSUME MintInv, BoundInv', NEW s \in Slot, DecideToMint(s)
  PROVE  MintInv'
  <1>1. /\ phase[s] = "counting" /\ unread[s] = {}
        /\ UNCHANGED <<list, minter, claim, allocation>>
    BY DEF DecideToMint
  <1>2. CASE \E what : Finish(s, what)
    BY <1>1, <1>2, FinishMint
  <1>3. CASE Goto(s, "counting", "minting") /\ UNCHANGED unread
    <2>1. ASSUME NEW l \in Spare(claim[s])' PROVE minter[l] # s
      <3>1. l \in Spare(claim[s])
        BY <1>1, <2>1, SpareShrinks DEF MintInv, BoundInv
      <3> QED
        BY <1>1, <3>1 DEF MintInv, NothingLeft
    <2> QED
      BY <1>1, <1>3, <2>1, LocalMint DEF Goto
  <1> QED
    BY <1>2, <1>3 DEF DecideToMint, Refuse

LEMMA SignListMint ==
  ASSUME MintInv, BoundInv', NEW s \in Slot, SignList(s)
  PROVE  MintInv'
  <1>1. /\ phase[s] = "minting"
        /\ UNCHANGED <<list, minter, claim, allocation>>
    BY DEF SignList
  <1>2. CASE \E what : Finish(s, what)
    BY <1>1, <1>2, FinishMint
  <1>3. CASE Goto(s, "minting", "inserting") /\ UNCHANGED unread
    <2>1. ASSUME NEW l \in Spare(claim[s])' PROVE minter[l] # s
      <3>1. l \in Spare(claim[s])
        BY <1>1, <2>1, SpareShrinks DEF MintInv, BoundInv
      <3> QED
        BY <1>1, <3>1 DEF MintInv, NothingLeft
    <2> QED
      BY <1>1, <1>3, <2>1, LocalMint DEF Goto
  <1> QED
    BY <1>2, <1>3 DEF SignList, Refuse

(* A minted list is the only spare one of its minter.                      *)
LEMMA AddListMint ==
  ASSUME MintInv, BoundInv', NEW s \in Slot, NEW l \in List, AddList(s, l),
         NEW to \in {"probing", "idle"}, phase' = [phase EXCEPT ![s] = to],
         \A q \in Slot \ {s} : unread'[q] = unread[q]
  PROVE  MintInv'
  <1> DEFINE x == [tenant |-> claim[s].tenant, purpose |-> claim[s].purpose,
                   createdAt |-> stamp[s]]
  <1>1. /\ phase[s] = "inserting" /\ list[l] = None
        /\ list' = [list EXCEPT ![l] = x] /\ minter' = [minter EXCEPT ![l] = s]
        /\ UNCHANGED <<allocation, claim>>
    BY DEF AddList
  <1>2. x \in ListRow /\ x # None
    BY <1>1, AddedRow, NoneAssumption DEF MintInv, BoundInv
  <1>3. list'[l] = x /\ minter'[l] = s /\ phase'[s] = to
    BY <1>1 DEF MintInv, BoundInv, IInv, TypeOK
  <1>4. ASSUME NEW m \in List, m # l
        PROVE  list'[m] = list[m] /\ minter'[m] = minter[m]
    BY <1>1, <1>4 DEF MintInv, BoundInv, IInv, TypeOK
  <1>5. ASSUME NEW c, NEW m \in Spare(c)', m # l
        PROVE  m \in Spare(c) /\ minter'[m] = minter[m]
    BY <1>1, <1>4, <1>5 DEF Spare, ListsFor, UnderThreshold, Used, Entries
  <1>6. Unminted'
    BY <1>2, <1>3, <1>4 DEF MintInv, Unminted
  <1>7. ASSUME NEW q \in Slot, NEW m \in Spare(claim[q])', minter'[m] = q
        PROVE  /\ phase'[q] = "counting" => m \in unread'[q]
               /\ phase'[q] \notin {"minting", "inserting"}
    <2>1. CASE q = s
      BY <2>1, <1>3
    <2>2. CASE q # s
      <3>1. m # l /\ phase'[q] = phase[q] /\ unread'[q] = unread[q]
        BY <2>2, <1>3, <1>7
      <3>2. m \in Spare(claim[q]) /\ minter[m] = q
        BY <1>1, <1>5, <1>7, <3>1 DEF Spare, ListsFor
      <3> QED
        BY <3>1, <3>2 DEF MintInv, NothingLeft
    <2> QED
      BY <2>1, <2>2
  <1>8. ASSUME NEW c \in Claim, l \in Spare(c)', NEW n \in Spare(c)', n # l
        PROVE  minter'[n] # s
    <2>1. c.tenant = claim[s].tenant /\ c.purpose = claim[s].purpose
      BY <1>3, <1>8 DEF Spare, ListsFor
    <2>2. n \in Spare(claim[s]) /\ minter'[n] = minter[n]
      BY <2>1, <1>5, <1>8 DEF Spare, ListsFor
    <2> QED
      BY <2>2, <1>1 DEF MintInv, NothingLeft
  <1>9. ASSUME NEW c \in Claim, NEW m \in Spare(c)', NEW n \in Spare(c)',
               minter'[m] = minter'[n]
        PROVE  m = n
    <2>1. CASE m # l /\ n # l
      BY <2>1, <1>5, <1>9 DEF MintInv, OneSpareEach
    <2>2. CASE m = l \/ n = l
      BY <2>2, <1>3, <1>8, <1>9
    <2> QED
      BY <2>1, <2>2
  <1> QED
    BY <1>6, <1>7, <1>9 DEF MintInv, NothingLeft, OneSpareEach

(* A posted list has no minter, so it is not spare.                        *)
LEMMA PostListMint ==
  ASSUME MintInv, BoundInv', NEW l \in Chosen, PostList(l)
  PROVE  MintInv'
  <1>1. /\ l \in List /\ minter[l] = None
        /\ UNCHANGED <<allocation, claim, phase, unread, minter>>
    BY ChosenAssumption DEF PostList, MintInv, Unminted
  <1>2. ASSUME NEW m \in List, m # l PROVE list'[m] = list[m]
    BY <1>2 DEF PostList, MintInv, BoundInv, IInv, TypeOK
  <1>3. \A c : Spare(c)' \subseteq Spare(c)
    BY <1>1, <1>2 DEF Spare, ListsFor, UnderThreshold, Used, Entries
  <1>4. Unminted'
    BY <1>1, <1>2 DEF MintInv, Unminted
  <1>5. NothingLeft'
    BY <1>1, <1>3 DEF MintInv, NothingLeft, Spare, ListsFor
  <1>6. OneSpareEach'
    BY <1>1, <1>3 DEF MintInv, OneSpareEach
  <1> QED
    BY <1>4, <1>5, <1>6 DEF MintInv

LEMMA ProgressMint ==
  ASSUME MintInv, BoundInv', NEW s \in Slot, Progress(s)
  PROVE  MintInv'
  <1>1. CASE ChooseList(s)
    BY <1>1, FinishMint, GotoMint DEF ChooseList, Goto, Refuse, Phase
  <1>2. CASE InsertList(s)
    BY <1>2, AddListMint DEF InsertList, Goto
  <1>3. CASE Probe(s)
    BY <1>3, GotoMint DEF Probe, Goto, Phase
  <1>4. CASE GiveUp(s)
    BY <1>4, FinishMint DEF GiveUp, Refuse
  <1>5. CASE ClaimIndex(s)
    BY <1>5, FinishMint, GotoMint DEF ClaimIndex, Goto, Phase
  <1>6. CASE Classify(s)
    BY <1>6, FinishMint, GotoMint DEF Classify, Goto, Refuse, Phase
  <1>7. CASE Recheck(s)
    BY <1>7, FinishMint, GotoMint DEF Recheck, Goto, Refuse, Phase
  <1> QED
    BY <1>1, <1>2, <1>3, <1>4, <1>5, <1>6, <1>7, FindListsMint, CountListMint,
       DecideToMintMint, SignListMint DEF Progress

LEMMA FaultMint ==
  ASSUME MintInv, BoundInv', NEW s \in Slot, Fault(s)
  PROVE  MintInv'
  <1>1. CASE InsertListUnacknowledged(s)
    <2> PICK l \in List : AddList(s, l) /\ \E what : Finish(s, what)
      BY <1>1 DEF InsertListUnacknowledged, Refuse
    <2>1. /\ phase' = [phase EXCEPT ![s] = "idle"]
          /\ unread' = [unread EXCEPT ![s] = {}]
      BY DEF Finish
    <2>2. \A q \in Slot \ {s} : unread'[q] = unread[q]
      BY <2>1
    <2> QED
      BY <2>1, <2>2, AddListMint
  <1>2. CASE ClaimUncertain(s)
    BY <1>2, GotoMint DEF ClaimUncertain, Goto, Phase
  <1>3. CASE StorageFails(s)
    BY <1>3, FinishMint DEF StorageFails, Refuse
  <1>4. CASE Abandon(s)
    BY <1>4, FinishMint DEF Abandon
  <1> QED
    BY <1>1, <1>2, <1>3, <1>4 DEF Fault

LEMMA MintNext == MintInv /\ [Next]_vars => MintInv'
  <1> SUFFICES ASSUME MintInv, [Next]_vars PROVE MintInv'
    OBVIOUS
  <1>1. BoundInv'
    BY BoundNext DEF MintInv
  <1>2. CASE UNCHANGED vars \/ Tick
    <2>1. UNCHANGED <<list, allocation, claim, phase, unread, minter>>
      BY <1>2 DEF vars, Tick
    <2>2. \A c : Spare(c)' = Spare(c)
      BY <2>1 DEF Spare, ListsFor, UnderThreshold, Used, Entries
    <2> QED
      BY <1>1, <2>1, <2>2
         DEF MintInv, Unminted, NothingLeft, OneSpareEach, Spare, ListsFor,
             UnderThreshold, Used, Entries
  <1> QED
    BY <1>1, <1>2, SubmitMint, ProgressMint, FaultMint, PostListMint DEF Next

LEMMA MintInit == Init => MintInv
  <1> SUFFICES ASSUME Init PROVE MintInv
    OBVIOUS
  <1>1. \A c : Spare(c) = {}
    BY DEF Init, Spare, ListsFor
  <1> QED
    BY <1>1, BoundInit DEF Init, MintInv, Unminted, NothingLeft, OneSpareEach

(* No two spare lists have the same minter, so there are as many as slots  *)
(* at most.                                                                *)
LEMMA SpareCount ==
  ASSUME MintInv, NEW c \in Claim
  PROVE  Cardinality(Spare(c)) <= Cardinality(Slot)
  <1> DEFINE f == [l \in Spare(c) |-> minter[l]]
  <1>1. ASSUME NEW l \in Spare(c) PROVE minter[l] \in Slot
    BY DEF MintInv, BoundInv, IInv, TypeOK, Spare, ListsFor
  <1>2. f \in [Spare(c) -> Slot]
    BY <1>1
  <1>3. \A l, m \in Spare(c) : f[l] = f[m] => l = m
    BY DEF MintInv, OneSpareEach
  <1>4. f \in Injection(Spare(c), Slot)
    BY <1>2, <1>3 DEF Injection, IsInjective
  <1> HIDE DEF f
  <1> QED
    BY <1>4, FiniteAssumption, FS_Injection

(* There are never more lists minted on demand and still under the         *)
(* threshold, for one tenant and purpose, than requests in flight.         *)
THEOREM MintingIsBounded == Safety => []MintingBound
  <1>1. Safety => []MintInv
    BY MintInit, MintNext, PTL DEF Safety
  <1>2. MintInv => MintingBound
    BY SpareCount DEF MintingBound
  <1> QED
    BY <1>1, <1>2, PTL

-----------------------------------------------------------------------------
(* How much space lists take up.                                           *)

(* The lists minted for the tenant and purpose of a claim, and the entries *)
(* allocated for them.                                                     *)
MintedFor(c) == {l \in ListsFor(c) : minter[l] # None}

EntriesFor(c) ==
  {a \in allocation :
     a.claim.tenant = c.tenant /\ a.claim.purpose = c.purpose}

(* Lists are minted in proportion to what is allocated: but for one list a *)
(* slot, every list minted for a tenant and purpose holds RollAt entries.  *)
SpaceBound ==
  \A c \in Claim :
     RollAt * Cardinality(MintedFor(c))
       <= Cardinality(EntriesFor(c)) + RollAt * Cardinality(Slot)

(* RollAt entries of each of a set of lists are that many entries.         *)
LEMMA EntriesAddUp ==
  ASSUME FiniteTable, NEW F, IsFiniteSet(F), NEW A \in SUBSET allocation,
         \A l \in F : Entries(l) \subseteq A /\ RollAt <= Used(l)
  PROVE  Cardinality(F) * RollAt <= Cardinality(A)
  <1> PICK R : R = 1 .. RollAt
    OBVIOUS
  <1>1. IsFiniteSet(R) /\ Cardinality(R) = RollAt
    <2>1. RollAt \in Int /\ RollAt + 1 >= 1
      BY NumberAssumption
    <2>2. ASSUME NEW k \in Int, NEW m \in Int, m + 1 >= k
          PROVE  IsFiniteSet(k .. m) /\ Cardinality(k .. m) = m - k + 1
      BY <2>2, FS_Interval
    <2> QED
      BY <2>1, <2>2
  <1>2. ASSUME NEW l \in F
        PROVE  \E g : g \in Injection(R, Entries(l))
    <2> PICK E, n : E = Entries(l) /\ n = Used(l)
      OBVIOUS
    <2>1. n \in Nat /\ n = Cardinality(E) /\ RollAt <= n
      BY EntryCount DEF Used
    <2>2. IsFiniteSet(E)
      BY EntryCount
    <2> PICK b : b \in Bijection(1 .. n, E)
      BY <2>1, <2>2, FS_CardinalityType DEF ExistsBijection
    <2>3. /\ b \in [1 .. n -> E]
          /\ \A i, j \in 1 .. n : b[i] = b[j] => i = j
      BY DEF Bijection, Injection, IsInjective
    <2>4. R \subseteq 1 .. n
      BY <2>1, NumberAssumption
    <2> PICK g : g = [i \in R |-> b[i]]
      OBVIOUS
    <2>5. g \in Injection(R, E)
      BY <2>3, <2>4 DEF Injection, IsInjective
    <2> QED
      BY <2>5
  <1> PICK G : G = [l \in F |-> CHOOSE g : g \in Injection(R, Entries(l))]
    OBVIOUS
  <1>3. \A l \in F : G[l] \in Injection(R, Entries(l))
    BY <1>2
  <1>4. ASSUME NEW l \in F, NEW i \in R
        PROVE  /\ G[l][i] \in A /\ G[l][i].list = l
               /\ \A j \in R : G[l][i] = G[l][j] => i = j
    <2> PICK E, g : E = Entries(l) /\ g = G[l]
      OBVIOUS
    <2>1. g \in [R -> E] /\ \A j, k \in R : g[j] = g[k] => j = k
      <3>1. g \in Injection(R, E)
        BY <1>3, Zenon
      <3>2. g \in [R -> E] /\ IsInjective(g)
        BY <3>1, Zenon DEF Injection
      <3>3. \A j, k \in DOMAIN g : g[j] = g[k] => j = k
        BY <3>2, Zenon DEF IsInjective
      <3> QED
        BY <3>2, <3>3
    <2>2. \A a \in E : a \in A /\ a.list = l
      BY DEF Entries
    <2> QED
      BY <2>1, <2>2
  <1> PICK P : P = F \X R
    OBVIOUS
  <1> PICK f : f = [p \in P |-> G[p[1]][p[2]]]
    OBVIOUS
  <1>5. f \in Injection(P, A)
    <2>1. f \in [P -> A]
      BY <1>4
    <2>2. ASSUME NEW p \in P, NEW q \in P, f[p] = f[q]
          PROVE  p = q
      <3>1. /\ p[1] \in F /\ p[2] \in R /\ p = <<p[1], p[2]>>
            /\ q[1] \in F /\ q[2] \in R /\ q = <<q[1], q[2]>>
            /\ G[p[1]][p[2]] = G[q[1]][q[2]]
        BY <2>2
      <3>2. p[1] = q[1]
        BY <1>4, <3>1
      <3>3. p[2] = q[2]
        BY <1>4, <3>1, <3>2
      <3> QED
        BY <3>1, <3>2, <3>3
    <2>3. IsInjective(f)
      BY <2>1, <2>2, Zenon DEF IsInjective
    <2> QED
      BY <2>1, <2>3, Zenon DEF Injection
  <1>6. IsFiniteSet(A)
    BY FS_Subset DEF FiniteTable
  <1>7. Cardinality(P) = Cardinality(F) * RollAt
    BY <1>1, FS_Product
  <1>8. Cardinality(P) <= Cardinality(A)
    BY <1>5, <1>6, FS_Injection
  <1> QED
    BY <1>7, <1>8

LEMMA SpaceCount ==
  ASSUME MintInv, NEW c \in Claim
  PROVE  RollAt * Cardinality(MintedFor(c))
           <= Cardinality(EntriesFor(c)) + RollAt * Cardinality(Slot)
  <1> PICK M, S, F, A : /\ M = MintedFor(c) /\ S = Spare(c)
                        /\ F = M \ S /\ A = EntriesFor(c)
    OBVIOUS
  <1>1. M \subseteq List /\ S \subseteq M /\ F \subseteq M /\ M = F \cup S
    BY DEF MintedFor, Spare, ListsFor
  <1>2. /\ IsFiniteSet(F) /\ Cardinality(F) \in Nat
        /\ IsFiniteSet(S) /\ Cardinality(S) \in Nat
        /\ Cardinality(M) \in Nat
    BY <1>1, ListCount
  <1>3. Cardinality(M) <= Cardinality(F) + Cardinality(S)
    <2>1. /\ IsFiniteSet(F \cap S) /\ Cardinality(F \cap S) \in Nat
      BY <1>2, FS_Intersection, FS_CardinalityType
    <2>2. Cardinality(F \cup S)
            = Cardinality(F) + Cardinality(S) - Cardinality(F \cap S)
      BY <1>2, FS_Union
    <2>3. Cardinality(M) = Cardinality(F \cup S)
      BY <1>1, Zenon
    <2> PICK k : k = Cardinality(F \cap S)
      OBVIOUS
    <2>4. k \in Nat /\ Cardinality(M) = Cardinality(F) + Cardinality(S) - k
      BY <2>1, <2>2, <2>3, Zenon
    <2> QED
      BY <1>2, <2>4
  <1>4. A \in SUBSET allocation
    BY DEF EntriesFor
  <1>5. ASSUME NEW l \in F
        PROVE  Entries(l) \subseteq A /\ RollAt <= Used(l)
    <2>1. /\ list[l].tenant = c.tenant /\ list[l].purpose = c.purpose
          /\ ~UnderThreshold(l)
      BY DEF MintedFor, Spare, ListsFor
    <2>2. Entries(l) \subseteq A
      BY <2>1 DEF EntriesFor, Entries, MintInv, BoundInv, IInv,
                  AllocationMatchesList
    <2>3. Used(l) \in Nat
      BY EntryCount DEF MintInv, BoundInv
    <2> QED
      BY <2>1, <2>2, <2>3, NumberAssumption DEF UnderThreshold
  <1>6. Cardinality(F) * RollAt <= Cardinality(A)
    BY <1>2, <1>4, <1>5, EntriesAddUp DEF MintInv, BoundInv
  <1>7. Cardinality(A) \in Nat
    BY <1>4, FS_Subset, FS_CardinalityType DEF MintInv, BoundInv, FiniteTable
  <1>8. Cardinality(S) <= Cardinality(Slot)
    BY SpareCount
  <1>9. ASSUME NEW r \in Nat, NEW m \in Nat, NEW k \in Nat, NEW n \in Nat,
               m <= k + n
        PROVE  r * m <= k * r + r * n
    BY <1>9
  <1>10. Cardinality(M) <= Cardinality(F) + Cardinality(Slot)
    BY <1>2, <1>3, <1>8, SlotCount
  <1>11. RollAt * Cardinality(M)
           <= Cardinality(F) * RollAt + RollAt * Cardinality(Slot)
    BY <1>2, <1>9, <1>10, SlotCount, NumberAssumption
  <1> PICK x, y, z, w : /\ x = RollAt * Cardinality(M)
                        /\ y = Cardinality(F) * RollAt
                        /\ z = RollAt * Cardinality(Slot)
                        /\ w = Cardinality(A)
    OBVIOUS
  <1>12. x \in Nat /\ y \in Nat /\ z \in Nat
    BY <1>2, SlotCount, NumberAssumption
  <1>13. x <= w + z
    BY <1>6, <1>7, <1>11, <1>12
  <1> QED
    BY <1>13

(* However allocations race, fail and crash, the service does not fill its *)
(* database with lists: their number follows that of the entries.          *)
THEOREM SpaceIsBounded == Safety => []SpaceBound
  <1>1. Safety => []MintInv
    BY MintInit, MintNext, PTL DEF Safety
  <1>2. MintInv => SpaceBound
    BY SpaceCount DEF SpaceBound
  <1> QED
    BY <1>1, <1>2, PTL
=============================================================================
