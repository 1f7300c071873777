------------------------- MODULE MemoryStorageProofs -------------------------
(***************************************************************************)
(* What MemoryStorage guarantees for any lists, indexes, requests, claims, *)
(* clients and lives of the process.                                       *)
(*                                                                         *)
(* The inductive invariant IInv is TypeOK, what a request holds in each    *)
(* phase (HandlerState), the shape of the promise chains (ChainShape) and  *)
(* QueueOrder: the waiting updates of a list can be numbered so that each  *)
(* waits for the one before it, the running one comes first and the tail   *)
(* last.  The code keeps no such numbers; that there are some is what makes*)
(* the chain a queue and not a knot.                                       *)
(***************************************************************************)
EXTENDS MemoryStorage, WellFoundedInduction, TLAPS

Chained == Pending \cup {"settled"}

HandlerFacts(r) ==
  /\ phase[r] = "idle" <=> op[r] = None
  /\ phase[r] \notin {"settled", "done", "lost"} => outcome[r] = None
  /\ phase[r] \in {"minting", "inserting"} => op[r] \in CreateOp
  /\ phase[r] = "inserting" =>
       built[r] = Materialize(op[r].instance, op[r].url, {})
  /\ phase[r] \in Chained \cup {"reading", "calling"} => op[r] \in SetOp
  /\ phase[r] \in Pending \cup {"calling"} => lists[op[r].list] # None
  /\ phase[r] \in Running => seen[r] = lists[op[r].list]
  /\ phase[r] \in {"signing", "writing"} =>
       /\ op[r].index \in Index
       /\ (op[r].index \in seen[r].bits) # op[r].status
  /\ phase[r] = "writing" =>
       built[r] = Materialize(seen[r].issuerInstance, seen[r].credential.url,
                              SetBit(seen[r].bits, op[r].index,
                                     op[r].status))

HandlerState == \A r \in Request : HandlerFacts(r)

(* Who waits for whom, and who is last.                                    *)
ChainShape ==
  /\ \A r \in Request :
       behind[r] # None =>
         /\ phase[r] \in Chained
         /\ phase[behind[r]] \in Chained \cup {"done"}
         /\ op[behind[r]].list = op[r].list
  /\ \A r \in Request : phase[r] \in Running => Turn(r)
  /\ \A l \in List :
       tail[l] # None => phase[tail[l]] \in Chained /\ op[tail[l]].list = l
  /\ \A r \in Request :
       phase[r] \in Pending =>
         /\ tail[op[r].list] # None
         /\ phase[tail[op[r].list]] \in Pending

OrderedBy(place) ==
  \A r \in Request :
    phase[r] \in Pending =>
      /\ ~Turn(r) => place[r] = place[behind[r]] + 1
      /\ r # tail[op[r].list] => place[r] < place[tail[op[r].list]]
      /\ \A q \in Request \ {r} :
           phase[q] \in Pending /\ op[q].list = op[r].list =>
             /\ place[q] # place[r]
             /\ Turn(r) => place[r] < place[q]

QueueOrder == \E place \in [Request -> Nat] : OrderedBy(place)

IInv == TypeOK /\ HandlerState /\ ChainShape /\ QueueOrder

-----------------------------------------------------------------------------
(* The data operators stay inside their types.                             *)
LEMMA MaterializeType ==
  ASSUME NEW i \in Instance, NEW u \in Url, NEW bits \in SUBSET Index
  PROVE  Materialize(i, u, bits) \in Materialization
  BY DEF Materialize, Materialization, Credential

LEMMA RowTypes ==
  /\ \A i \in Instance, made \in Materialization : NewRow(i, made) \in Row
  /\ \A x \in Row, made \in Materialization : UpdatedRow(x, made) \in Row
  BY DEF NewRow, UpdatedRow, Row, Materialization

LEMMA SetBitType ==
  ASSUME NEW bits \in SUBSET Index, NEW i \in Index, NEW s \in BOOLEAN
  PROVE  SetBit(bits, i, s) \in SUBSET Index
  BY DEF SetBit

(* What a request in the chain has asked for.                              *)
LEMMA SetOpFacts ==
  ASSUME IInv, NEW r \in Request,
         phase[r] \in Chained \cup {"reading", "calling"}
  PROVE  /\ op[r] \in SetOp /\ op[r].list \in List
         /\ op[r].index \in Index \cup {BeyondEnd}
         /\ op[r].status \in BOOLEAN /\ op[r].kind = "set"
  BY DEF IInv, HandlerState, HandlerFacts, SetOp

-----------------------------------------------------------------------------
(* The chain.                                                              *)

(* A request that is not in a chain does not disturb any.                  *)
LEMMA OutsideChain ==
  ASSUME IInv, NEW r \in Request, NEW to,
         phase[r] \notin Chained \cup {"done"}, to \notin Chained,
         phase' = [phase EXCEPT ![r] = to],
         \A q \in Request \ {r} : op'[q] = op[q],
         UNCHANGED <<tail, behind>>
  PROVE  ChainShape' /\ QueueOrder'
  <1>1. \A q \in Request \ {r} : phase'[q] = phase[q]
    BY DEF IInv, TypeOK
  <1>2. phase'[r] = to
    BY DEF IInv, TypeOK
  <1>3. /\ behind[r] = None
        /\ \A q \in Request : behind[q] # r
        /\ \A l \in List : tail[l] # r
    BY NoneAssumption DEF IInv, ChainShape
  <1>4. \A q \in Request : behind[q] \in Request \cup {None}
    BY DEF IInv, TypeOK
  <1>5. \A l \in List : tail[l] \in Request \cup {None}
    BY DEF IInv, TypeOK
  <1>6. \A q \in Request \ {r} : Turn(q)' <=> Turn(q)
    BY <1>1, <1>3, <1>4 DEF Turn, Settled
  <1>7. \A q \in Request : phase[q] \in Pending => op[q].list \in List
    BY SetOpFacts DEF Chained
  <1>8. r \notin {q \in Request : phase[q] \in Pending}
          /\ r \notin {q \in Request : phase'[q] \in Pending}
    BY <1>2 DEF Chained
  <1>9. ChainShape'
    <2>1. ASSUME NEW q \in Request, behind'[q] # None
          PROVE  /\ phase'[q] \in Chained
                 /\ phase'[behind'[q]] \in Chained \cup {"done"}
                 /\ op'[behind'[q]].list = op'[q].list
      BY <2>1, <1>1, <1>3, <1>4 DEF IInv, ChainShape
    <2>2. ASSUME NEW q \in Request, phase'[q] \in Running PROVE Turn(q)'
      BY <2>2, <1>1, <1>6, <1>8 DEF IInv, ChainShape, Pending
    <2>3. ASSUME NEW l \in List, tail'[l] # None
          PROVE  phase'[tail'[l]] \in Chained /\ op'[tail'[l]].list = l
      BY <2>3, <1>1, <1>3, <1>5 DEF IInv, ChainShape
    <2>4. ASSUME NEW q \in Request, phase'[q] \in Pending
          PROVE  /\ tail'[op'[q].list] # None
                 /\ phase'[tail'[op'[q].list]] \in Pending
      BY <2>4, <1>1, <1>3, <1>5, <1>7, <1>8 DEF IInv, ChainShape
    <2> QED
      BY <2>1, <2>2, <2>3, <2>4 DEF ChainShape, Chained, Pending, Running
  <1>10. QueueOrder'
    <2> PICK place \in [Request -> Nat] : OrderedBy(place)
      BY DEF IInv, QueueOrder
    <2>1. OrderedBy(place)'
      BY <1>1, <1>6, <1>8 DEF OrderedBy, Pending, Running
    <2> QED
      BY <2>1 DEF QueueOrder
  <1> QED
    BY <1>9, <1>10

(* An update whose turn has come goes on with it.                          *)
LEMMA InsideChain ==
  ASSUME IInv, NEW r \in Request, NEW to \in Running,
         phase[r] \in Pending, Turn(r),
         phase' = [phase EXCEPT ![r] = to],
         UNCHANGED <<tail, behind, op>>
  PROVE  ChainShape' /\ QueueOrder'
  <1>1. \A q \in Request :
          /\ phase'[q] \in Pending <=> phase[q] \in Pending
          /\ phase'[q] \in Chained <=> phase[q] \in Chained
          /\ phase'[q] \in {"settled", "done"}
               <=> phase[q] \in {"settled", "done"}
          /\ phase'[q] = "done" <=> phase[q] = "done"
    BY DEF IInv, TypeOK, Pending, Running, Chained
  <1>2. \A q \in Request : behind[q] \in Request \cup {None}
    BY DEF IInv, TypeOK
  <1>3. \A l \in List : tail[l] \in Request \cup {None}
    BY DEF IInv, TypeOK
  <1>4. \A q \in Request : Turn(q)' <=> Turn(q)
    BY <1>1, <1>2 DEF Turn, Settled
  <1>5. \A q \in Request : phase[q] \in Pending => op[q].list \in List
    BY SetOpFacts DEF Chained
  <1>6. ChainShape'
    <2>1. ASSUME NEW q \in Request, behind'[q] # None
          PROVE  /\ phase'[q] \in Chained
                 /\ phase'[behind'[q]] \in Chained \cup {"done"}
                 /\ op'[behind'[q]].list = op'[q].list
      BY <2>1, <1>1, <1>2 DEF IInv, ChainShape
    <2>2. ASSUME NEW q \in Request, phase'[q] \in Running PROVE Turn(q)'
      BY <2>2, <1>4 DEF IInv, TypeOK, ChainShape
    <2>3. ASSUME NEW l \in List, tail'[l] # None
          PROVE  phase'[tail'[l]] \in Chained /\ op'[tail'[l]].list = l
      BY <2>3, <1>1, <1>3 DEF IInv, ChainShape
    <2>4. ASSUME NEW q \in Request, phase'[q] \in Pending
          PROVE  /\ tail'[op'[q].list] # None
                 /\ phase'[tail'[op'[q].list]] \in Pending
      BY <2>4, <1>1, <1>3, <1>5 DEF IInv, ChainShape
    <2> QED
      BY <2>1, <2>2, <2>3, <2>4 DEF ChainShape, Chained, Pending, Running
  <1>7. QueueOrder'
    <2> PICK place \in [Request -> Nat] : OrderedBy(place)
      BY DEF IInv, QueueOrder
    <2>1. OrderedBy(place)'
      BY <1>1, <1>4 DEF OrderedBy, Pending, Running
    <2> QED
      BY <2>1 DEF QueueOrder
  <1> QED
    BY <1>6, <1>7

(* An update whose turn has come is over: the one behind it is next.       *)
LEMMA SettleChain ==
  ASSUME IInv, NEW r \in Request, phase[r] \in Running,
         phase' = [phase EXCEPT ![r] = "settled"],
         UNCHANGED <<tail, behind, op>>
  PROVE  ChainShape' /\ QueueOrder'
  <1> DEFINE l == op[r].list
  <1>1. /\ phase'[r] = "settled"
        /\ \A q \in Request \ {r} : phase'[q] = phase[q]
    BY DEF IInv, TypeOK
  <1>2. \A q \in Request : behind[q] \in Request \cup {None}
    BY DEF IInv, TypeOK
  <1>3. \A m \in List : tail[m] \in Request \cup {None}
    BY DEF IInv, TypeOK
  <1>4. \A q \in Request : phase[q] \in Pending => op[q].list \in List
    BY SetOpFacts DEF Chained
  <1>5. phase[r] \in Pending /\ Turn(r) /\ r # None
    BY NoneAssumption DEF Pending, IInv, ChainShape
  <1> PICK place \in [Request -> Nat] : OrderedBy(place)
    BY DEF IInv, QueueOrder
  (* An update of the list that waits has a tail other than r.             *)
  <1>6. ASSUME NEW q \in Request, phase'[q] \in Pending, op[q].list = l
        PROVE  tail[l] # r
    <2>1. q # r /\ phase[q] \in Pending
      BY <1>6, <1>1 DEF Pending, Running
    <2>2. place[r] < place[q]
      BY <2>1, <1>5, <1>6 DEF OrderedBy
    <2>3. CASE tail[l] = r
      <3>1. place[q] < place[r]
        BY <2>1, <2>3, <1>6 DEF OrderedBy
      <3> QED
        BY <2>2, <3>1
    <2> QED
      BY <2>3
  <1>7. ChainShape'
    <2>1. ASSUME NEW q \in Request, behind'[q] # None
          PROVE  /\ phase'[q] \in Chained
                 /\ phase'[behind'[q]] \in Chained \cup {"done"}
                 /\ op'[behind'[q]].list = op'[q].list
      BY <2>1, <1>1, <1>2 DEF IInv, ChainShape, Chained
    <2>2. ASSUME NEW q \in Request, phase'[q] \in Running PROVE Turn(q)'
      BY <2>2, <1>1, <1>2 DEF IInv, ChainShape, Running, Turn, Settled
    <2>3. ASSUME NEW m \in List, tail'[m] # None
          PROVE  phase'[tail'[m]] \in Chained /\ op'[tail'[m]].list = m
      BY <2>3, <1>1, <1>3 DEF IInv, ChainShape, Chained
    <2>4. ASSUME NEW q \in Request, phase'[q] \in Pending
          PROVE  /\ tail'[op'[q].list] # None
                 /\ phase'[tail'[op'[q].list]] \in Pending
      <3>1. q # r /\ phase[q] \in Pending /\ op[q].list \in List
        BY <2>4, <1>1, <1>4 DEF Pending, Running
      <3>2. /\ tail[op[q].list] # None /\ phase[tail[op[q].list]] \in Pending
            /\ tail[op[q].list] \in Request
        BY <3>1, <1>3 DEF IInv, ChainShape
      <3>3. tail[op[q].list] # r
        BY <1>6, <2>4, <3>1, <3>2 DEF IInv, ChainShape
      <3> QED
        BY <1>1, <3>2, <3>3
    <2> QED
      BY <2>1, <2>2, <2>3, <2>4 DEF ChainShape, Chained, Pending, Running
  <1>8. OrderedBy(place)'
    <2> SUFFICES ASSUME NEW q \in Request, phase'[q] \in Pending
                 PROVE  /\ ~Turn(q)' => place[q] = place[behind[q]] + 1
                        /\ q # tail[op[q].list] =>
                             place[q] < place[tail[op[q].list]]
                        /\ \A p \in Request \ {q} :
                             phase'[p] \in Pending /\ op[p].list = op[q].list =>
                               /\ place[p] # place[q]
                               /\ Turn(q)' => place[q] < place[p]
      BY DEF OrderedBy, Pending, Running
    <2>1. q # r /\ phase[q] \in Pending /\ op[q].list \in List
      BY <1>1, <1>4 DEF Pending, Running
    <2>2. ~Turn(q)' => ~Turn(q)
      BY <1>1, <1>2 DEF Turn, Settled
    <2>3. ASSUME NEW p \in Request \ {q}, phase'[p] \in Pending,
                 op[p].list = op[q].list
          PROVE  /\ place[p] # place[q]
                 /\ Turn(q)' => place[q] < place[p]
      <3>1. p # r /\ phase[p] \in Pending
        BY <2>3, <1>1 DEF Pending, Running
      <3>2. place[p] # place[q]
        BY <2>1, <2>3, <3>1 DEF OrderedBy
      <3>3. ASSUME Turn(q)' PROVE place[q] < place[p]
        <4>1. CASE Turn(q)
          BY <4>1, <2>1, <2>3, <3>1 DEF OrderedBy
        <4>2. CASE ~Turn(q)
          <5>1. behind[q] = r
            BY <3>3, <4>2, <1>1, <1>2 DEF Turn, Settled
          <5>2. place[q] = place[r] + 1
            BY <2>1, <4>2, <5>1 DEF OrderedBy
          <5>3. op[q].list = l
            BY <5>1, <1>5 DEF IInv, ChainShape
          <5>4. place[r] < place[p]
            BY <1>5, <2>3, <3>1, <5>3 DEF OrderedBy
          <5> QED
            BY <3>2, <5>2, <5>4
        <4> QED
          BY <4>1, <4>2
      <3> QED
        BY <3>2, <3>3
    <2> QED
      BY <2>1, <2>2, <2>3 DEF OrderedBy
  <1> QED
    BY <1>7, <1>8 DEF QueueOrder

(* A new update goes to the end.                                           *)
LEMMA EnqueueChain ==
  ASSUME IInv, NEW r \in Request, Enqueue(r)
  PROVE  ChainShape' /\ QueueOrder'
  <1> DEFINE l == op[r].list
  <1>0. l \in List /\ phase[r] = "calling" /\ r # None
    BY SetOpFacts, NoneAssumption DEF Enqueue, Goto
  <1>1. /\ phase'[r] = "queued" /\ behind'[r] = tail[l] /\ tail'[l] = r
        /\ \A q \in Request \ {r} :
              phase'[q] = phase[q] /\ behind'[q] = behind[q]
        /\ \A m \in List \ {l} : tail'[m] = tail[m]
        /\ op' = op
    BY <1>0 DEF Enqueue, Goto, IInv, TypeOK
  <1>2. \A q \in Request : behind[q] \in Request \cup {None}
    BY DEF IInv, TypeOK
  <1>3. \A m \in List : tail[m] \in Request \cup {None}
    BY DEF IInv, TypeOK
  <1>4. \A q \in Request : phase[q] \in Pending => op[q].list \in List
    BY SetOpFacts DEF Chained
  <1>5. /\ \A q \in Request : behind[q] # r
        /\ \A m \in List : tail[m] # r
    BY <1>0 DEF IInv, ChainShape, Chained, Pending, Running
  <1>6. \A q \in Request \ {r} : Turn(q)' <=> Turn(q)
    BY <1>1, <1>2, <1>5 DEF Turn, Settled
  <1>7. ChainShape'
    <2>1. ASSUME NEW q \in Request, behind'[q] # None
          PROVE  /\ phase'[q] \in Chained
                 /\ phase'[behind'[q]] \in Chained \cup {"done"}
                 /\ op'[behind'[q]].list = op'[q].list
      <3>1. CASE q = r
        BY <2>1, <3>1, <1>0, <1>1, <1>3, <1>5 DEF IInv, ChainShape, Chained, Pending
      <3>2. CASE q # r
        BY <2>1, <3>2, <1>1, <1>2, <1>5 DEF IInv, ChainShape
      <3> QED
        BY <3>1, <3>2
    <2>2. ASSUME NEW q \in Request, phase'[q] \in Running PROVE Turn(q)'
      BY <2>2, <1>1, <1>6 DEF IInv, ChainShape, Running
    <2>3. ASSUME NEW m \in List, tail'[m] # None
          PROVE  phase'[tail'[m]] \in Chained /\ op'[tail'[m]].list = m
      BY <2>3, <1>0, <1>1, <1>3, <1>5 DEF IInv, ChainShape, Chained, Pending
    <2>4. ASSUME NEW q \in Request, phase'[q] \in Pending
          PROVE  /\ tail'[op'[q].list] # None
                 /\ phase'[tail'[op'[q].list]] \in Pending
      <3>1. CASE op[q].list = l
        BY <3>1, <1>0, <1>1 DEF Pending
      <3>2. CASE op[q].list # l
        <4>1. q # r /\ phase[q] \in Pending /\ op[q].list \in List
          BY <3>2, <2>4, <1>1, <1>4
        <4> QED
          BY <3>2, <4>1, <1>1, <1>3, <1>5 DEF IInv, ChainShape
      <3> QED
        BY <3>1, <3>2
    <2> QED
      BY <2>1, <2>2, <2>3, <2>4 DEF ChainShape, Chained, Pending, Running
  <1> PICK place \in [Request -> Nat] : OrderedBy(place)
    BY DEF IInv, QueueOrder
  <1> DEFINE n == IF tail[l] = None THEN 0 ELSE place[tail[l]] + 1
  <1>8. PICK placed \in [Request -> Nat] :
          /\ placed[r] = n /\ n \in Nat
          /\ \A q \in Request \ {r} : placed[q] = place[q]
    <2>1. n \in Nat
      BY <1>0, <1>3
    <2> QED
      BY <2>1, [place EXCEPT ![r] = n] \in [Request -> Nat]
  (* Whoever is in the chain comes before n.                               *)
  <1>9. ASSUME NEW q \in Request, phase[q] \in Pending, op[q].list = l
        PROVE  /\ tail[l] # None /\ phase[tail[l]] \in Pending
               /\ place[q] < n
    <2>1. tail[l] # None /\ phase[tail[l]] \in Pending /\ tail[l] \in Request
      BY <1>0, <1>3, <1>9 DEF IInv, ChainShape
    <2>2. place[q] < place[tail[l]] \/ q = tail[l]
      BY <1>9 DEF OrderedBy
    <2> QED
      BY <2>1, <2>2
  <1>10. Turn(r)' => ~\E q \in Request : phase[q] \in Pending /\ op[q].list = l
    BY <1>0, <1>1, <1>3, <1>5, <1>9 DEF Turn, Settled, Pending, Running
  <1>11. OrderedBy(placed)'
    <2> SUFFICES ASSUME NEW q \in Request, phase'[q] \in Pending
                 PROVE  /\ ~Turn(q)' => placed[q] = placed[behind'[q]] + 1
                        /\ q # tail'[op[q].list] =>
                             placed[q] < placed[tail'[op[q].list]]
                        /\ \A p \in Request \ {q} :
                             phase'[p] \in Pending /\ op[p].list = op[q].list =>
                               /\ placed[p] # placed[q]
                               /\ Turn(q)' => placed[q] < placed[p]
      BY <1>1 DEF OrderedBy, Pending, Running
    <2>1. CASE q = r
      <3>1. ~Turn(q)' => placed[q] = placed[behind'[q]] + 1
        BY <2>1, <1>0, <1>1, <1>3, <1>5, <1>8 DEF Turn
      <3>2. ASSUME NEW p \in Request \ {q}, phase'[p] \in Pending,
                   op[p].list = op[q].list
            PROVE  placed[p] # placed[q] /\ ~Turn(q)'
        BY <2>1, <3>2, <1>1, <1>8, <1>9, <1>10
      <3> QED
        BY <2>1, <3>1, <3>2, <1>1
    <2>2. CASE q # r
      <3>0. phase[q] \in Pending /\ op[q].list \in List
        BY <2>2, <1>1, <1>4
      <3>1. ~Turn(q)' => placed[q] = placed[behind'[q]] + 1
        BY <2>2, <3>0, <1>1, <1>2, <1>5, <1>6, <1>8 DEF OrderedBy, Turn
      <3>2. q # tail'[op[q].list] => placed[q] < placed[tail'[op[q].list]]
        <4>1. CASE op[q].list = l
          BY <2>2, <3>0, <4>1, <1>0, <1>1, <1>8, <1>9
        <4>2. CASE op[q].list # l
          <5>1. tail[op[q].list] \in Request \ {r}
            BY <3>0, <1>3, <1>5 DEF IInv, ChainShape
          <5> QED
            BY <2>2, <3>0, <4>2, <5>1, <1>1, <1>8 DEF OrderedBy
        <4> QED
          BY <4>1, <4>2
      <3>3. ASSUME NEW p \in Request \ {q}, phase'[p] \in Pending,
                   op[p].list = op[q].list
            PROVE  /\ placed[p] # placed[q]
                   /\ Turn(q)' => placed[q] < placed[p]
        <4>1. CASE p = r
          BY <2>2, <3>0, <3>3, <4>1, <1>8, <1>9
        <4>2. CASE p # r
          BY <2>2, <3>0, <3>3, <4>2, <1>1, <1>6, <1>8 DEF OrderedBy
        <4> QED
          BY <4>1, <4>2
      <3> QED
        BY <3>1, <3>2, <3>3
    <2> QED
      BY <2>1, <2>2
  <1> QED
    BY <1>7, <1>8, <1>11 DEF QueueOrder

(* An update that is over leaves.                                          *)
LEMMA LeaveChain ==
  ASSUME IInv, NEW r \in Request, LeaveQueue(r)
  PROVE  ChainShape' /\ QueueOrder'
  <1> DEFINE l == op[r].list
  <1>0. l \in List /\ phase[r] = "settled" /\ r # None
    BY SetOpFacts, NoneAssumption DEF LeaveQueue, Goto, Chained
  <1>1. /\ phase'[r] = "done" /\ behind'[r] = None
        /\ \A q \in Request \ {r} :
              phase'[q] = phase[q] /\ behind'[q] = behind[q]
        /\ \A m \in List : tail'[m] = IF tail[m] = r /\ m = l THEN None ELSE tail[m]
        /\ op' = op
    BY <1>0 DEF LeaveQueue, Goto, IInv, TypeOK
  <1>2. \A q \in Request : behind[q] \in Request \cup {None}
    BY DEF IInv, TypeOK
  <1>3. \A m \in List : tail[m] \in Request \cup {None}
    BY DEF IInv, TypeOK
  <1>4. \A q \in Request : phase[q] \in Pending => op[q].list \in List
    BY SetOpFacts DEF Chained
  <1>5. \A m \in List : tail[m] = r => m = l
    BY <1>0 DEF IInv, ChainShape
  <1>6. \A q \in Request \ {r} : Turn(q)' <=> Turn(q)
    BY <1>0, <1>1, <1>2 DEF Turn, Settled
  <1>7. \A q \in Request : phase'[q] \in Pending <=> phase[q] \in Pending /\ q # r
    BY <1>0, <1>1 DEF Pending, Running
  <1>8. \A q \in Request : phase[q] \in Pending => tail'[op[q].list] = tail[op[q].list]
    BY <1>0, <1>1, <1>4 DEF IInv, ChainShape, Pending, Running
  <1>9. ChainShape'
    <2>1. ASSUME NEW q \in Request, behind'[q] # None
          PROVE  /\ phase'[q] \in Chained
                 /\ phase'[behind'[q]] \in Chained \cup {"done"}
                 /\ op'[behind'[q]].list = op'[q].list
      BY <2>1, <1>1, <1>2 DEF IInv, ChainShape
    <2>2. ASSUME NEW q \in Request, phase'[q] \in Running PROVE Turn(q)'
      BY <2>2, <1>1, <1>6 DEF IInv, ChainShape, Running
    <2>3. ASSUME NEW m \in List, tail'[m] # None
          PROVE  phase'[tail'[m]] \in Chained /\ op'[tail'[m]].list = m
      BY <2>3, <1>1, <1>3, <1>5 DEF IInv, ChainShape
    <2>4. ASSUME NEW q \in Request, phase'[q] \in Pending
          PROVE  /\ tail'[op'[q].list] # None
                 /\ phase'[tail'[op'[q].list]] \in Pending
      BY <2>4, <1>0, <1>1, <1>3, <1>4, <1>7, <1>8
         DEF IInv, ChainShape, Pending, Running
    <2> QED
      BY <2>1, <2>2, <2>3, <2>4 DEF ChainShape, Chained, Pending, Running
  <1>10. QueueOrder'
    <2> PICK place \in [Request -> Nat] : OrderedBy(place)
      BY DEF IInv, QueueOrder
    <2>1. OrderedBy(place)'
      BY <1>1, <1>6, <1>7, <1>8 DEF OrderedBy, Pending, Running
    <2> QED
      BY <2>1 DEF QueueOrder
  <1> QED
    BY <1>9, <1>10

-----------------------------------------------------------------------------
(* The chain is a lock.                                                    *)
LEMMA OneRunning ==
  ASSUME IInv, NEW q \in Request, NEW r \in Request,
         phase[q] \in Running, phase[r] \in Running, op[q].list = op[r].list
  PROVE  q = r
  <1> PICK place \in [Request -> Nat] : OrderedBy(place)
    BY DEF IInv, QueueOrder
  <1>1. Turn(q) /\ Turn(r) /\ phase[q] \in Pending /\ phase[r] \in Pending
    BY DEF IInv, ChainShape, Pending
  <1>2. q # r => place[q] < place[r] /\ place[r] < place[q]
    BY <1>1 DEF OrderedBy
  <1> QED
    BY <1>2

(* A request ends, a list it writes included.                              *)
LEMMA SettleInv ==
  ASSUME IInv, NEW r \in Request, NEW to, NEW code \in Code, NEW v \in Nat,
         Settle(r, to, code, v),
         \/ to = "done" /\ phase[r] \in {"minting", "inserting", "reading"}
         \/ to = "settled" /\ phase[r] \in Running,
         lists' \in [List -> Row \cup {None}],
         \A l \in List : lists[l] # None => lists'[l] # None,
         \A q \in Request \ {r} :
            phase[q] \in Running => lists'[op[q].list] = lists[op[q].list],
         UNCHANGED <<allocations, used, tail, behind, op, copy, life>>
  PROVE  IInv'
  <1> USE DEF Settle
  <1>1. [code |-> code, version |-> v] \in Outcome
    BY DEF Outcome
  <1>2. TypeOK'
    BY <1>1 DEF IInv, TypeOK, Phase
  <1>3. /\ phase'[r] = to
        /\ \A q \in Request \ {r} :
              /\ phase'[q] = phase[q] /\ seen'[q] = seen[q]
              /\ built'[q] = built[q] /\ outcome'[q] = outcome[q]
    BY DEF IInv, TypeOK
  <1>4. HandlerState'
    <2> SUFFICES ASSUME NEW q \in Request PROVE HandlerFacts(q)'
      BY DEF HandlerState
    <2>1. CASE q = r
      BY <2>1, <1>3 DEF IInv, HandlerState, HandlerFacts, Chained, Pending, Running
    <2>2. CASE q # r
      <3>1. phase[q] \in Chained \cup {"calling"} => op[q].list \in List
        BY SetOpFacts
      <3> QED
        BY <2>2, <3>1, <1>3 DEF IInv, HandlerState, HandlerFacts, Chained, Pending
    <2> QED
      BY <2>1, <2>2
  <1>5. ChainShape' /\ QueueOrder'
    BY OutsideChain, SettleChain DEF Chained, Pending, Running
  <1> QED
    BY <1>2, <1>4, <1>5 DEF IInv

(* A request goes on, and neither it nor anybody else touches the lists.   *)
LEMMA StepInv ==
  ASSUME IInv, NEW r \in Request, NEW to \in Phase,
         phase' = [phase EXCEPT ![r] = to],
         seen' \in [Request -> Row \cup {None}],
         built' \in [Request -> Materialization \cup {None}],
         op' \in [Request -> Operation \cup {None}],
         \A q \in Request \ {r} :
            op'[q] = op[q] /\ seen'[q] = seen[q] /\ built'[q] = built[q],
         HandlerFacts(r)', ChainShape', QueueOrder',
         tail' \in [List -> Request \cup {None}],
         behind' \in [Request -> Request \cup {None}],
         UNCHANGED <<tables, outcome, copy, life>>
  PROVE  IInv'
  <1>1. TypeOK'
    BY DEF IInv, TypeOK, tables
  <1>2. \A q \in Request \ {r} : phase'[q] = phase[q]
    BY DEF IInv, TypeOK
  <1>3. HandlerState'
    <2> SUFFICES ASSUME NEW q \in Request \ {r} PROVE HandlerFacts(q)'
      BY DEF HandlerState
    <2> QED
      BY <1>2 DEF IInv, HandlerState, HandlerFacts, tables
  <1> QED
    BY <1>1, <1>3 DEF IInv

-----------------------------------------------------------------------------
(* One lemma per action.                                                   *)
LEMMA InitInv == Init => IInv
  <1> SUFFICES ASSUME Init PROVE IInv
    OBVIOUS
  <1>1. FreshRow \subseteq Row
    BY MaterializeType, RowTypes DEF FreshRow
  <1>2. 1 \in 1 .. MaxLives
    BY MaxLivesAssumption
  <1>3. TypeOK
    BY <1>1, <1>2 DEF Init, TypeOK, Phase
  <1>4. HandlerState
    BY DEF Init, HandlerState, HandlerFacts, Chained, Pending, Running
  <1>5. ChainShape
    BY DEF Init, ChainShape, Pending, Running
  <1>6. OrderedBy([r \in Request |-> 0])
    BY DEF Init, OrderedBy, Pending, Running
  <1> QED
    BY <1>3, <1>4, <1>5, <1>6 DEF IInv, QueueOrder

LEMMA SubmitInv ==
  ASSUME IInv, NEW r \in Request, Submit(r)
  PROVE  IInv'
  <1> PICK o \in Operation :
        /\ op' = [op EXCEPT ![r] = o]
        /\ phase' = [phase EXCEPT ![r] =
                       IF o.kind = "create" THEN "minting" ELSE "reading"]
    BY DEF Submit
  <1> DEFINE to == IF o.kind = "create" THEN "minting" ELSE "reading"
  <1>1. o # None /\ (o.kind = "create" => o \in CreateOp)
          /\ (o.kind # "create" => o \in SetOp)
    BY NoneAssumption DEF Operation, CreateOp, SetOp
  <1>2. /\ \A q \in Request \ {r} : op'[q] = op[q]
        /\ op'[r] = o /\ phase[r] = "idle" /\ phase'[r] = to
        /\ op' \in [Request -> Operation \cup {None}]
    BY DEF Submit, IInv, TypeOK
  <1>3. to \in Phase /\ to \notin Chained
    BY DEF Phase, Chained, Pending, Running
  <1>4. ChainShape' /\ QueueOrder'
    BY <1>2, <1>3, OutsideChain DEF Submit, Chained, Pending, Running
  <1>5. HandlerFacts(r)'
    BY <1>1, <1>2 DEF Submit, IInv, HandlerState, HandlerFacts, Chained, Pending, Running
  <1> QED
    BY <1>2, <1>3, <1>4, <1>5, StepInv DEF Submit, IInv, TypeOK

LEMMA MintListInv ==
  ASSUME IInv, NEW r \in Request, MintList(r)
  PROVE  IInv'
  <1> DEFINE made == Materialize(op[r].instance, op[r].url, {})
  <1>0. phase[r] = "minting"
    BY DEF MintList
  <1>1. CASE Settle(r, "done", "signing-failed", 0)
    BY <1>0, <1>1, SettleInv DEF MintList, IInv, TypeOK, tables, Code
  <1>2. CASE /\ Goto(r, "minting", "inserting")
             /\ built' = [built EXCEPT ![r] = made]
             /\ UNCHANGED <<seen, outcome>>
    <2>1. op[r] \in CreateOp
      BY <1>0 DEF IInv, HandlerState, HandlerFacts
    <2>2. made \in Materialization
      BY <2>1, MaterializeType DEF CreateOp
    <2>3. ChainShape' /\ QueueOrder'
      BY <1>0, <1>2, OutsideChain DEF MintList, Goto, Chained, Pending, Running
    <2>4. HandlerFacts(r)'
      BY <1>0, <1>2, <2>2
         DEF MintList, Goto, IInv, TypeOK, HandlerState, HandlerFacts,
             Chained, Pending, Running
    <2>5. "inserting" \in Phase
      BY DEF Phase
    <2> QED
      BY <1>2, <2>2, <2>3, <2>4, <2>5, StepInv DEF MintList, Goto, IInv, TypeOK
  <1> QED
    BY <1>1, <1>2 DEF MintList

LEMMA CreateStatusListInv ==
  ASSUME IInv, NEW r \in Request, CreateStatusList(r)
  PROVE  IInv'
  <1> DEFINE l == op[r].list
             new == NewRow(op[r].instance, built[r])
  <1>0. phase[r] = "inserting"
    BY DEF CreateStatusList
  <1>1. op[r] \in CreateOp /\ built[r] = Materialize(op[r].instance, op[r].url, {})
    BY <1>0 DEF IInv, HandlerState, HandlerFacts
  <1>2. new \in Row /\ new # None
    BY <1>1, MaterializeType, RowTypes, NoneAssumption DEF CreateOp
  <1>3. CASE lists[l] = None
    <2>1. lists' = [lists EXCEPT ![l] = new] /\ Settle(r, "done", "created", 1)
      BY <1>3 DEF CreateStatusList
    <2>2. \A q \in Request \ {r} :
            phase[q] \in Running =>
              op[q].list \in List /\ lists[op[q].list] # None
      BY SetOpFacts DEF IInv, HandlerState, HandlerFacts, Chained, Pending
    <2>3. /\ lists' \in [List -> Row \cup {None}]
          /\ \A m \in List : lists[m] # None => lists'[m] # None
          /\ \A q \in Request \ {r} :
                phase[q] \in Running => lists'[op[q].list] = lists[op[q].list]
      BY <1>2, <1>3, <2>1, <2>2 DEF IInv, TypeOK
    <2> QED
      BY <1>0, <2>1, <2>3, SettleInv DEF CreateStatusList, Code
  <1>4. CASE lists[l] # None
    BY <1>0, <1>4, SettleInv DEF CreateStatusList, IInv, TypeOK, Code
  <1> QED
    BY <1>3, <1>4

LEMMA ReadListInv ==
  ASSUME IInv, NEW r \in Request, ReadList(r)
  PROVE  IInv'
  <1>0. phase[r] = "reading"
    BY DEF ReadList
  <1>1. CASE lists[op[r].list] = None
    BY <1>0, <1>1, SettleInv DEF ReadList, IInv, TypeOK, tables, Code
  <1>2. CASE lists[op[r].list] # None
    <2>1. Goto(r, "reading", "calling") /\ UNCHANGED <<seen, built, outcome>>
      BY <1>2 DEF ReadList
    <2>2. ChainShape' /\ QueueOrder'
      BY <1>0, <2>1, OutsideChain DEF ReadList, Goto, Chained, Pending, Running
    <2>3. HandlerFacts(r)'
      BY <1>0, <1>2, <2>1
         DEF ReadList, Goto, tables, IInv, TypeOK, HandlerState, HandlerFacts,
             Chained, Pending, Running
    <2>4. "calling" \in Phase
      BY DEF Phase
    <2> QED
      BY <2>1, <2>2, <2>3, <2>4, StepInv DEF ReadList, Goto, IInv, TypeOK
  <1> QED
    BY <1>1, <1>2

LEMMA EnqueueInv ==
  ASSUME IInv, NEW r \in Request, Enqueue(r)
  PROVE  IInv'
  <1>1. ChainShape' /\ QueueOrder'
    BY EnqueueChain
  <1>2. op[r].list \in List /\ phase[r] = "calling"
    BY SetOpFacts DEF Enqueue, Goto
  <1>3. HandlerFacts(r)'
    BY <1>2 DEF Enqueue, Goto, tables, IInv, TypeOK, HandlerState,
                HandlerFacts, Chained, Pending, Running
  <1>4. "queued" \in Phase
    BY DEF Phase
  <1>5. /\ tail' \in [List -> Request \cup {None}]
        /\ behind' \in [Request -> Request \cup {None}]
    BY <1>2 DEF Enqueue, IInv, TypeOK
  <1> QED
    BY <1>1, <1>3, <1>4, <1>5, StepInv DEF Enqueue, Goto, IInv, TypeOK

LEMMA StartUpdateInv ==
  ASSUME IInv, NEW r \in Request, StartUpdate(r)
  PROVE  IInv'
  <1> DEFINE l == op[r].list
  <1>0. phase[r] = "queued" /\ Turn(r) /\ phase[r] \in Pending
    BY DEF StartUpdate, Goto, Turn, Pending
  <1>1. l \in List /\ lists[l] # None /\ lists[l] \in Row
    BY <1>0, SetOpFacts
       DEF IInv, TypeOK, HandlerState, HandlerFacts, Chained
  <1>2. ChainShape' /\ QueueOrder'
    BY <1>0, InsideChain DEF StartUpdate, Goto, Running
  <1>3. HandlerFacts(r)'
    BY <1>0, <1>1
       DEF StartUpdate, Goto, tables, IInv, TypeOK, HandlerState,
           HandlerFacts, Chained, Pending, Running
  <1>4. "applying" \in Phase
    BY DEF Phase
  <1> QED
    BY <1>1, <1>2, <1>3, <1>4, StepInv DEF StartUpdate, Goto, IInv, TypeOK

(* What a running mutation works on.                                       *)
LEMMA RunningFacts ==
  ASSUME IInv, NEW r \in Request, phase[r] \in Running
  PROVE  /\ op[r].list \in List /\ seen[r] = lists[op[r].list]
         /\ seen[r] \in Row /\ seen[r] # None /\ Turn(r)
         /\ seen[r].version \in Nat
  <1>1. phase[r] \in Pending /\ phase[r] \in Chained
    BY DEF Pending, Chained
  <1>2. op[r].list \in List
    BY <1>1, SetOpFacts
  <1> QED
    BY <1>1, <1>2, NoneAssumption
       DEF IInv, TypeOK, HandlerState, HandlerFacts, ChainShape, Row

LEMMA ApplyStatusInv ==
  ASSUME IInv, NEW r \in Request, ApplyStatus(r)
  PROVE  IInv'
  <1>0. phase[r] = "applying" /\ phase[r] \in Running
    BY DEF ApplyStatus, Running
  <1>1. seen[r] \in Row /\ Turn(r) /\ seen[r].version \in Nat
    BY <1>0, RunningFacts
  <1>2. ASSUME NEW code \in Code, NEW v \in Nat, Settle(r, "settled", code, v)
        PROVE  IInv'
    BY <1>0, <1>2, SettleInv DEF ApplyStatus, IInv, TypeOK, tables
  <1>3. CASE /\ op[r].index # BeyondEnd
             /\ (op[r].index \in seen[r].bits) # op[r].status
             /\ Goto(r, "applying", "signing")
             /\ UNCHANGED <<seen, built, outcome>>
    <2>1. ChainShape' /\ QueueOrder'
      BY <1>0, <1>1, <1>3, InsideChain DEF ApplyStatus, Goto, Running, Pending
    <2>2. op[r].index \in Index
      BY <1>0, <1>3, SetOpFacts DEF Chained, Pending, Running
    <2>3. HandlerFacts(r)'
      BY <1>0, <1>3, <2>2
         DEF ApplyStatus, Goto, tables, IInv, TypeOK, HandlerState,
             HandlerFacts, Chained, Pending, Running
    <2>4. "signing" \in Phase
      BY DEF Phase
    <2> QED
      BY <1>3, <2>1, <2>3, <2>4, StepInv DEF ApplyStatus, Goto, IInv, TypeOK
  <1> QED
    BY <1>1, <1>2, <1>3 DEF ApplyStatus, Code

LEMMA SignUpdateInv ==
  ASSUME IInv, NEW r \in Request, SignUpdate(r)
  PROVE  IInv'
  <1> DEFINE made == Materialize(seen[r].issuerInstance, seen[r].credential.url,
                                 SetBit(seen[r].bits, op[r].index, op[r].status))
  <1>0. phase[r] = "signing" /\ phase[r] \in Running
    BY DEF SignUpdate, Running
  <1>1. seen[r] \in Row /\ Turn(r)
    BY <1>0, RunningFacts
  <1>2. CASE Settle(r, "settled", "signing-failed", 0)
    BY <1>0, <1>2, SettleInv DEF SignUpdate, IInv, TypeOK, tables, Code
  <1>3. CASE /\ Goto(r, "signing", "writing")
             /\ built' = [built EXCEPT ![r] = made]
             /\ UNCHANGED <<seen, outcome>>
    <2>1. ChainShape' /\ QueueOrder'
      BY <1>0, <1>1, <1>3, InsideChain DEF SignUpdate, Goto, Running, Pending
    <2>2. op[r].index \in Index /\ op[r].status \in BOOLEAN
      BY <1>0, SetOpFacts
         DEF IInv, HandlerState, HandlerFacts, Chained, Pending, Running
    <2>3. made \in Materialization
      BY <1>1, <2>2, SetBitType, MaterializeType DEF Row, Credential
    <2>4. HandlerFacts(r)'
      BY <1>0, <1>3, <2>3
         DEF SignUpdate, Goto, tables, IInv, TypeOK, HandlerState,
             HandlerFacts, Chained, Pending, Running
    <2>5. "writing" \in Phase
      BY DEF Phase
    <2> QED
      BY <1>3, <2>1, <2>3, <2>4, <2>5, StepInv DEF SignUpdate, Goto, IInv, TypeOK
  <1> QED
    BY <1>2, <1>3 DEF SignUpdate

(* The write leaves the flip of the row as it is stored.                   *)
LEMMA WriteFacts ==
  ASSUME IInv, NEW r \in Request, phase[r] = "writing"
  PROVE  LET l == op[r].list IN
         /\ l \in List /\ lists[l] \in Row /\ lists[l] # None
         /\ seen[r] = lists[l]
         /\ op[r] \in SetOp /\ op[r].index \in Index
         /\ (op[r].index \in lists[l].bits) # op[r].status
         /\ UpdatedRow(seen[r], built[r]) = Flip(lists[l], op[r].index, op[r].status)
         /\ UpdatedRow(seen[r], built[r]) \in Row
  <1>1. phase[r] \in Running
    BY DEF Running
  <1>2. /\ op[r].list \in List /\ seen[r] = lists[op[r].list]
        /\ seen[r] \in Row /\ seen[r] # None
    BY <1>1, RunningFacts
  <1>3. /\ op[r] \in SetOp /\ op[r].index \in Index
        /\ (op[r].index \in seen[r].bits) # op[r].status
        /\ built[r] = Materialize(seen[r].issuerInstance, seen[r].credential.url,
                                  SetBit(seen[r].bits, op[r].index, op[r].status))
    BY <1>1 DEF IInv, HandlerState, HandlerFacts, Chained, Pending
  <1>4. built[r] \in Materialization
    BY <1>2, <1>3, SetBitType, MaterializeType DEF Row, Credential, SetOp
  <1> QED
    BY <1>2, <1>3, <1>4, RowTypes DEF Flip

LEMMA WriteUpdateInv ==
  ASSUME IInv, NEW r \in Request, WriteUpdate(r)
  PROVE  IInv'
  <1> DEFINE l == op[r].list
             new == UpdatedRow(seen[r], built[r])
  <1>0. phase[r] = "writing" /\ phase[r] \in Running
    BY DEF WriteUpdate, Running
  <1>1. l \in List /\ new \in Row /\ new # None /\ seen[r].version + 1 \in Nat
    BY <1>0, WriteFacts, NoneAssumption DEF Row
  <1>2. /\ lists' = [lists EXCEPT ![l] = new]
        /\ Settle(r, "settled", "changed", seen[r].version + 1)
    BY DEF WriteUpdate
  <1>3. ASSUME NEW q \in Request \ {r}, phase[q] \in Running
        PROVE  lists'[op[q].list] = lists[op[q].list]
    <2>1. op[q].list \in List /\ op[q].list # l
      BY <1>0, <1>3, OneRunning, RunningFacts
    <2> QED
      BY <1>2, <2>1 DEF IInv, TypeOK
  <1>4. /\ lists' \in [List -> Row \cup {None}]
        /\ \A m \in List : lists[m] # None => lists'[m] # None
    BY <1>1, <1>2 DEF IInv, TypeOK
  <1> QED
    BY <1>0, <1>1, <1>2, <1>3, <1>4, SettleInv DEF WriteUpdate, Code

LEMMA LeaveQueueInv ==
  ASSUME IInv, NEW r \in Request, LeaveQueue(r)
  PROVE  IInv'
  <1>1. ChainShape' /\ QueueOrder'
    BY LeaveChain
  <1>2. HandlerFacts(r)'
    BY DEF LeaveQueue, Goto, tables, IInv, TypeOK, HandlerState,
           HandlerFacts, Chained, Pending, Running
  <1>3. "done" \in Phase
    BY DEF Phase
  <1>4. /\ tail' \in [List -> Request \cup {None}]
        /\ behind' \in [Request -> Request \cup {None}]
    BY DEF LeaveQueue, IInv, TypeOK
  <1> QED
    BY <1>1, <1>2, <1>3, <1>4, StepInv DEF LeaveQueue, Goto, IInv, TypeOK

(* What is not about updates leaves them alone.                            *)
LEMMA ElsewhereInv ==
  ASSUME IInv, TypeOK', UNCHANGED <<lists, tail, behind, handlers>>
  PROVE  IInv'
  <1>1. \A r \in Request : Turn(r)' <=> Turn(r)
    BY DEF handlers, Turn, Settled
  <1>2. HandlerState'
    BY DEF IInv, handlers, HandlerState, HandlerFacts
  <1>3. ChainShape'
    BY <1>1 DEF IInv, handlers, ChainShape
  <1>4. \A place \in [Request -> Nat] : OrderedBy(place) => OrderedBy(place)'
    BY <1>1 DEF handlers, OrderedBy
  <1>5. QueueOrder'
    BY <1>4 DEF IInv, QueueOrder
  <1> QED
    BY <1>2, <1>3, <1>5 DEF IInv

LEMMA AllocateIndexInv ==
  ASSUME IInv, NEW c \in Claim, NEW l \in List, NEW i \in Index,
         AllocateIndex(c, l, i)
  PROVE  IInv'
  <1>1. [list |-> l, index |-> i] \in Entry
    BY DEF Entry
  <1>2. TypeOK'
    BY <1>1 DEF AllocateIndex, handlers, IInv, TypeOK
  <1> QED
    BY <1>2, ElsewhereInv DEF AllocateIndex

LEMMA GetListInv ==
  ASSUME IInv, NEW k \in Client, NEW l \in List, GetList(k, l)
  PROVE  IInv'
  <1>1. lists[l] \in Row
    BY DEF GetList, IInv, TypeOK
  <1>2. [life |-> life, version |-> lists[l].version,
         credential |-> lists[l].credential] \in Copy
    BY <1>1 DEF IInv, TypeOK, Copy, Row
  <1>3. TypeOK'
    BY <1>2 DEF GetList, tables, handlers, IInv, TypeOK
  <1> QED
    BY <1>3, ElsewhereInv DEF GetList, tables

LEMMA RestartInv ==
  ASSUME IInv, Restart
  PROVE  IInv'
  <1>1. \A q \in Request : phase'[q] \in {"idle", "done", "lost"}
    BY DEF Restart
  <1>2. TypeOK'
    BY MaxLivesAssumption DEF Restart, IInv, TypeOK, Phase
  <1>3. HandlerState'
    BY <1>1
       DEF Restart, IInv, TypeOK, HandlerState, HandlerFacts, Chained, Pending, Running
  <1>4. ChainShape'
    BY <1>1 DEF Restart, ChainShape, Pending, Running
  <1>5. OrderedBy([r \in Request |-> 0])'
    BY <1>1 DEF OrderedBy, Pending, Running
  <1> QED
    BY <1>2, <1>3, <1>4, <1>5 DEF IInv, QueueOrder

LEMMA NextInv == IInv /\ [Next]_vars => IInv'
  <1> SUFFICES ASSUME IInv, [Next]_vars PROVE IInv'
    OBVIOUS
  <1>1. ASSUME NEW r \in Request, Progress(r) PROVE IInv'
    BY <1>1, MintListInv, CreateStatusListInv, ReadListInv, EnqueueInv,
       StartUpdateInv, ApplyStatusInv, SignUpdateInv, WriteUpdateInv,
       LeaveQueueInv DEF Progress
  <1>2. ASSUME UNCHANGED vars PROVE IInv'
    BY <1>2, ElsewhereInv DEF vars, tables, handlers, IInv, TypeOK
  <1> QED
    BY <1>1, <1>2, SubmitInv, AllocateIndexInv, GetListInv, RestartInv DEF Next

(* The invariant holds in every reachable state.                           *)
THEOREM Invariance == Spec => []IInv
  <1> QED
    BY InitInv, NextInv, PTL DEF Spec, Safety

-----------------------------------------------------------------------------
(* Every variable keeps its type, whatever is submitted, settles or is     *)
(* lost in a restart.                                                      *)
THEOREM TypesAreKept == Spec => []TypeOK
  <1> QED
    BY Invariance, PTL DEF IInv

(* Of some numbers one is the least.                                       *)
LEMMA LeastNumber ==
  ASSUME NEW T \in SUBSET Nat, T # {}
  PROVE  \E n \in T : \A m \in T : ~(m < n)
  <1>1. PICK n \in T : \A m \in T : ~(<<m, n>> \in OpToRel(<, Nat))
    BY NatLessThanWellFounded, WFMin
  <1> QED
    BY <1>1 DEF OpToRel

(* Of the updates of a list that wait, the first has its turn: one behind  *)
(* an update that has not settled would not be the first.                  *)
LEMMA FirstHasTurn ==
  ASSUME IInv, NEW l \in List, NEW waiting,
         waiting = {r \in Request : phase[r] \in Pending /\ op[r].list = l},
         waiting # {}
  PROVE  \E first \in waiting : Turn(first)
  <1> PICK place \in [Request -> Nat] : OrderedBy(place)
    BY DEF IInv, QueueOrder
  <1> DEFINE T == {place[r] : r \in waiting}
  <1>1. T \in SUBSET Nat /\ T # {}
    OBVIOUS
  <1>2. PICK n \in T : \A m \in T : ~(m < n)
    BY <1>1, LeastNumber
  <1>3. PICK first \in waiting : n = place[first]
    BY <1>2
  <1>4. first \in Request /\ phase[first] \in Pending /\ op[first].list = l
    OBVIOUS
  <1>5. CASE ~Turn(first)
    <2>1. behind[first] \in Request /\ ~Settled(behind[first])
      BY <1>4, <1>5 DEF Turn, IInv, TypeOK
    <2>2. behind[first] # None
      BY <1>5 DEF Turn
    <2>3. phase[behind[first]] \in Pending /\ op[behind[first]].list = l
      BY <1>4, <2>1, <2>2 DEF IInv, ChainShape, Settled, Chained
    <2>4. place[first] = place[behind[first]] + 1
      BY <1>4, <1>5 DEF OrderedBy
    <2>5. place[behind[first]] \in T
      BY <2>1, <2>3
    <2>6. ~(place[behind[first]] < n)
      BY <1>2, <2>5
    <2>7. place[behind[first]] \in Nat
      BY <2>1
    <2> QED
      BY <1>3, <2>4, <2>6, <2>7
  <1> QED
    BY <1>5

(* The promise chain of updateStatusList excludes as a lock does, passes   *)
(* the turn on to exactly one update however the last one ended, and the   *)
(* row an update writes over is the one it read.                           *)
THEOREM ChainIsALock == Spec => []WritersTakeTurns
  <1>1. IInv => WritersTakeTurns
    <2> SUFFICES ASSUME IInv PROVE WritersTakeTurns
      OBVIOUS
    <2>1. ASSUME NEW r \in Request, phase[r] \in Running
          PROVE  Turn(r) /\ seen[r] = lists[op[r].list]
      BY <2>1 DEF IInv, ChainShape, HandlerState, HandlerFacts
    <2> DEFINE Waiting(l) ==
                 {r \in Request : phase[r] \in Pending /\ op[r].list = l}
    <2>2. ASSUME NEW l \in List, Waiting(l) # {}
          PROVE  \E first \in Waiting(l) :
                   \A r \in Waiting(l) : Turn(r) <=> r = first
      <3>1. PICK first \in Waiting(l) : Turn(first)
        BY <2>2, FirstHasTurn
      <3>2. PICK place \in [Request -> Nat] : OrderedBy(place)
        BY DEF IInv, QueueOrder
      <3>3. ASSUME NEW r \in Waiting(l), Turn(r), r # first PROVE FALSE
        <4>1. place[r] < place[first] /\ place[first] < place[r]
          BY <2>2, <3>1, <3>2, <3>3 DEF OrderedBy
        <4> QED
          BY <2>2, <4>1
      <3> QED
        BY <3>1, <3>3
    <2> QED
      BY <2>1, <2>2 DEF WritersTakeTurns
  <1> QED
    BY <1>1, Invariance, PTL

(* The map of chains has an entry exactly while somebody needs it.         *)
LEMMA QueuesHaveATail == IInv => QueuesAreDropped
  <1> SUFFICES ASSUME IInv, NEW l \in List
               PROVE  /\ tail[l] # None => phase[tail[l]] \in Pending \cup {"settled"}
                      /\ (\E r \in Request : phase[r] \in Pending /\ op[r].list = l) =>
                           /\ tail[l] # None /\ phase[tail[l]] \in Pending
                           /\ ~\E r \in Request : phase[r] = "queued" /\ behind[r] = tail[l]
    BY DEF QueuesAreDropped
  <1>1. tail[l] # None => phase[tail[l]] \in Pending \cup {"settled"}
    BY DEF IInv, ChainShape, Chained
  <1>2. ASSUME NEW q \in Request, phase[q] \in Pending, op[q].list = l
        PROVE  /\ tail[l] # None /\ phase[tail[l]] \in Pending
               /\ tail[l] \in Request /\ op[tail[l]].list = l
    BY <1>2 DEF IInv, TypeOK, ChainShape
  <1>3. ASSUME NEW q \in Request, phase[q] \in Pending, op[q].list = l,
               NEW r \in Request, phase[r] = "queued", behind[r] = tail[l]
        PROVE  FALSE
    <2> PICK place \in [Request -> Nat] : OrderedBy(place)
      BY DEF IInv, QueueOrder
    <2>1. phase[r] \in Pending /\ op[r].list = l /\ ~Turn(r)
      BY <1>2, <1>3
         DEF IInv, ChainShape, Turn, Settled, Pending, Running
    <2>2. place[r] = place[tail[l]] + 1
      BY <1>3, <2>1 DEF OrderedBy
    <2>3. r # tail[l] => place[r] < place[tail[l]]
      BY <2>1 DEF OrderedBy
    <2> QED
      BY <1>2, <1>3, <2>2, <2>3
  <1> QED
    BY <1>1, <1>2, <1>3

(* No chain outlives the updates of its list, and its tail is the last one *)
(* to arrive (the finally block of updateStatusList).                      *)
THEOREM ChainsDoNotGrow == Spec => []QueuesAreDropped
  <1> QED
    BY QueuesHaveATail, Invariance, PTL

-----------------------------------------------------------------------------
(* The two maps of entries change together in one step, and are lost       *)
(* together.                                                               *)
LEMMA EntriesStep ==
  ASSUME IInv, EntriesAgree, [Next]_vars
  PROVE  EntriesAgree'
  <1>1. ASSUME NEW c \in Claim, NEW l \in List, NEW i \in Index,
               AllocateIndex(c, l, i)
        PROVE  EntriesAgree'
    <2> DEFINE e == [list |-> l, index |-> i]
    <2>1. /\ allocations' = [allocations EXCEPT ![c] = e]
          /\ used' = [used EXCEPT ![l] = @ \cup {i}]
          /\ lists' = lists /\ lists[l] # None /\ allocations[c] = None
          /\ i \notin used[l] /\ e \in Entry
      BY <1>1 DEF AllocateIndex, Entry
    <2>2. \A d \in Claim : allocations[d] # e
      BY <2>1 DEF EntriesAgree
    <2>4. ASSUME NEW m \in List, NEW j \in Index
          PROVE  j \in used'[m] <=>
                   \E d \in Claim : allocations'[d] = [list |-> m, index |-> j]
      <3>1. CASE m = l /\ j = i
        BY <2>1, <3>1 DEF IInv, TypeOK
      <3>2. CASE ~(m = l /\ j = i)
        <4>1. j \in used'[m] <=> j \in used[m]
          BY <2>1, <3>2 DEF IInv, TypeOK
        <4>2. e # [list |-> m, index |-> j]
          BY <3>2
        <4>3. ASSUME NEW d \in Claim
              PROVE  allocations'[d] = [list |-> m, index |-> j]
                       <=> allocations[d] = [list |-> m, index |-> j]
          <5>1. CASE d = c
            <6>1. allocations'[d] = e
              BY <2>1, <5>1 DEF IInv, TypeOK
            <6>2. allocations[d] # [list |-> m, index |-> j]
              BY <2>1, <5>1, EntryAssumption DEF Entry
            <6> QED
              BY <4>2, <6>1, <6>2
          <5>2. CASE d # c
            BY <2>1, <5>2 DEF IInv, TypeOK
          <5> QED
            BY <5>1, <5>2
        <4> QED
          BY <4>1, <4>3 DEF EntriesAgree
      <3> QED
        BY <3>1, <3>2
    <2>5. ASSUME NEW d \in Claim, NEW f \in Claim,
                 allocations'[d] # None, allocations'[d] = allocations'[f]
          PROVE  d = f
      BY <2>1, <2>2, <2>5 DEF EntriesAgree, IInv, TypeOK
    <2>6. ASSUME NEW d \in Claim, allocations'[d] # None
          PROVE  lists'[allocations'[d].list] # None
      BY <2>1, <2>6 DEF EntriesAgree, IInv, TypeOK
    <2> QED
      BY <2>4, <2>5, <2>6 DEF EntriesAgree
  <1>2. CASE Restart
    <2>1. \A l \in List, i \in Index : None # [list |-> l, index |-> i]
      BY EntryAssumption DEF Entry
    <2> QED
      BY <1>2, <2>1 DEF Restart, EntriesAgree
  <1>3. ASSUME UNCHANGED <<allocations, used>>,
               \A l \in List : lists[l] # None => lists'[l] # None
        PROVE  EntriesAgree'
    BY <1>3 DEF EntriesAgree, IInv, TypeOK, Entry
  <1>4. ASSUME NEW r \in Request, CreateStatusList(r) PROVE EntriesAgree'
    <2>1. op[r] \in CreateOp /\ op[r].list \in List
            /\ built[r] = Materialize(op[r].instance, op[r].url, {})
      BY <1>4 DEF CreateStatusList, IInv, HandlerState, HandlerFacts, CreateOp
    <2>2. NewRow(op[r].instance, built[r]) # None
      BY <2>1, MaterializeType, RowTypes, NoneAssumption DEF CreateOp
    <2> QED
      BY <1>3, <1>4, <2>1, <2>2 DEF CreateStatusList, IInv, TypeOK
  <1>5. ASSUME NEW r \in Request, WriteUpdate(r) PROVE EntriesAgree'
    <2>1. op[r].list \in List /\ UpdatedRow(seen[r], built[r]) # None
      BY <1>5, WriteFacts, NoneAssumption DEF WriteUpdate
    <2> QED
      BY <1>3, <1>5, <2>1 DEF WriteUpdate, IInv, TypeOK
  <1>6. ASSUME NEW r \in Request, Submit(r) \/ Progress(r) PROVE EntriesAgree'
    BY <1>3, <1>4, <1>5, <1>6
       DEF Submit, Progress, MintList, ReadList, Enqueue, StartUpdate,
           ApplyStatus, SignUpdate, LeaveQueue, tables
  <1>7. CASE UNCHANGED tables
    BY <1>3, <1>7 DEF tables
  <1> QED
    BY <1>1, <1>2, <1>6, <1>7 DEF Next, GetList, vars

(* An index counts as used exactly when one claim holds it.                *)
THEOREM EntriesStayInStep == Spec => []EntriesAgree
  <1>1. Init => EntriesAgree
    BY EntryAssumption DEF Init, EntriesAgree, Entry
  <1>2. IInv /\ EntriesAgree /\ [Next]_vars => EntriesAgree'
    BY EntriesStep
  <1> QED
    BY <1>1, <1>2, Invariance, PTL DEF Spec, Safety

-----------------------------------------------------------------------------
(* A copy taken in this life of the process is not newer than the list.    *)
CopiesInv ==
  /\ VersionNamesCredential
  /\ \A k \in Client, l \in List :
       copy[<<k, l>>] # None => copy[<<k, l>>].life <= life

LEMMA CopiesStep ==
  ASSUME IInv, CopiesInv, [Next]_vars
  PROVE  CopiesInv'
  <1>0. life \in Nat
    BY MaxLivesAssumption DEF IInv, TypeOK
  <1>1. ASSUME UNCHANGED <<copy, life>>,
               NEW m \in List, \A l \in List \ {m} : lists'[l] = lists[l],
               \/ lists'[m] = lists[m]
               \/ lists[m] = None
               \/ /\ lists[m] # None /\ lists'[m] # None
                  /\ lists'[m].version = lists[m].version + 1
        PROVE  CopiesInv'
    <2> SUFFICES ASSUME NEW l \in List, NEW k \in Client,
                        copy[<<k, l>>] # None, copy[<<k, l>>].life = life
                 PROVE  /\ lists'[l] # None
                        /\ copy[<<k, l>>].version <= lists'[l].version
                        /\ copy[<<k, l>>].version = lists'[l].version =>
                             copy[<<k, l>>].credential = lists'[l].credential
      BY <1>1 DEF CopiesInv, VersionNamesCredential
    <2>1. /\ lists[l] # None
          /\ copy[<<k, l>>].version <= lists[l].version
          /\ copy[<<k, l>>].version = lists[l].version =>
               copy[<<k, l>>].credential = lists[l].credential
      BY DEF CopiesInv, VersionNamesCredential
    <2>2. lists[l].version \in Nat /\ copy[<<k, l>>].version \in Nat
      BY <2>1 DEF IInv, TypeOK, Row, Copy
    <2> QED
      BY <1>1, <2>1, <2>2
  <1>2. ASSUME NEW r \in Request, CreateStatusList(r) PROVE CopiesInv'
    <2>1. op[r].list \in List
      BY <1>2 DEF CreateStatusList, IInv, HandlerState, HandlerFacts, CreateOp
    <2> QED
      BY <1>1, <1>2, <2>1 DEF CreateStatusList, IInv, TypeOK
  <1>3. ASSUME NEW r \in Request, WriteUpdate(r) PROVE CopiesInv'
    <2> DEFINE new == UpdatedRow(seen[r], built[r])
    <2>1. /\ op[r].list \in List /\ lists[op[r].list] # None
          /\ seen[r] = lists[op[r].list]
          /\ new \in Row /\ new # None
          /\ lists' = [lists EXCEPT ![op[r].list] = new]
      BY <1>3, WriteFacts, NoneAssumption DEF WriteUpdate
    <2>2. new.version = seen[r].version + 1
      BY DEF UpdatedRow
    <2> QED
      BY <1>1, <1>3, <2>1, <2>2 DEF WriteUpdate, IInv, TypeOK
  <1>4. CASE UNCHANGED <<lists, copy, life>>
    BY <1>4 DEF CopiesInv, VersionNamesCredential
  <1>5. ASSUME NEW k \in Client, NEW l \in List, GetList(k, l)
        PROVE  CopiesInv'
    <2> DEFINE new == [life |-> life, version |-> lists[l].version,
                       credential |-> lists[l].credential]
    <2>1. /\ lists' = lists /\ life' = life /\ lists[l] # None
          /\ copy' = [copy EXCEPT ![<<k, l>>] = new]
      BY <1>5 DEF GetList, tables
    <2>2. lists[l].version \in Nat
      BY <2>1 DEF IInv, TypeOK, Row
    <2>3. ASSUME NEW q \in Client, NEW m \in List
          PROVE  copy'[<<q, m>>] = IF q = k /\ m = l THEN new ELSE copy[<<q, m>>]
      BY <2>1 DEF IInv, TypeOK
    <2> QED
      BY <1>0, <2>1, <2>2, <2>3 DEF CopiesInv, VersionNamesCredential
  <1>6. CASE Restart
    BY <1>0, <1>6 DEF Restart, CopiesInv, VersionNamesCredential, IInv, TypeOK, Copy
  <1>7. ASSUME NEW r \in Request, Submit(r) \/ Progress(r) PROVE CopiesInv'
    BY <1>2, <1>3, <1>4, <1>7
       DEF Submit, Progress, MintList, ReadList, Enqueue, StartUpdate,
           ApplyStatus, SignUpdate, LeaveQueue, tables
  <1>8. ASSUME NEW c \in Claim, NEW l \in List, NEW i \in Index,
               AllocateIndex(c, l, i)
        PROVE  CopiesInv'
    BY <1>4, <1>8 DEF AllocateIndex
  <1> QED
    BY <1>4, <1>5, <1>6, <1>7, <1>8 DEF Next, vars, tables

(* Within one life of the process the ETag names the bytes.                *)
THEOREM EtagsAreStrong == Spec => []VersionNamesCredential
  <1>1. Init => CopiesInv
    BY DEF Init, CopiesInv, VersionNamesCredential
  <1>2. IInv /\ CopiesInv /\ [Next]_vars => CopiesInv'
    BY CopiesStep
  <1>3. CopiesInv => VersionNamesCredential
    BY DEF CopiesInv
  <1> QED
    BY <1>1, <1>2, <1>3, Invariance, PTL DEF Spec, Safety

-----------------------------------------------------------------------------
(* Between restarts a step of a request is a step of AtomicStatusLists, or *)
(* is not seen there.                                                      *)
LEMMA SameData ==
  /\ Atomic!Operation = Operation
  /\ Atomic!FreshRow = FreshRow
  /\ \A i, m : Atomic!NewRow(i, m) = NewRow(i, m)
  /\ \A i, u, b : Atomic!Materialize(i, u, b) = Materialize(i, u, b)
  /\ \A x, i, s : Atomic!Flip(x, i, s) = Flip(x, i, s)
  <1>1. Atomic!Operation = Operation
    BY DEF Operation, CreateOp, SetOp,
           Atomic!Operation, Atomic!CreateOp, Atomic!SetOp
  <1>2. \A i, m : Atomic!NewRow(i, m) = NewRow(i, m)
    BY DEF NewRow, Atomic!NewRow
  <1>3. \A i, u, b : Atomic!Materialize(i, u, b) = Materialize(i, u, b)
    BY DEF Materialize, Atomic!Materialize
  <1>4. Atomic!FreshRow = FreshRow
    <2>1. \A i, u : Atomic!NewRow(i, Atomic!Materialize(i, u, {}))
                      = NewRow(i, Materialize(i, u, {}))
      BY <1>2, <1>3
    <2> QED
      BY <2>1 DEF FreshRow, Atomic!FreshRow
  <1>5. \A x, i, s : Atomic!Flip(x, i, s) = Flip(x, i, s)
    BY Zenon DEF Flip, UpdatedRow, Materialize, SetBit,
           Atomic!Flip, Atomic!UpdatedRow, Atomic!Materialize, Atomic!SetBit
  <1> QED
    BY <1>1, <1>2, <1>3, <1>4, <1>5

(* A request that has begun and has not settled is open.                   *)
LEMMA OpenRequest ==
  ASSUME IInv, NEW r \in Request,
         phase[r] \notin {"idle", "settled", "done", "lost"}
  PROVE  /\ Atomic!Open(r)
         /\ phase[r] \in {"minting", "inserting"} => op[r].kind = "create"
         /\ phase[r] \in Running \cup {"reading"} => op[r].kind = "set"
  BY DEF IInv, HandlerState, HandlerFacts, CreateOp, SetOp, Chained, Pending,
         Atomic!Open

LEMMA RefusalStep ==
  ASSUME IInv, NEW r \in Request, NEW to, NEW code,
         phase[r] \in {"minting", "inserting", "reading"} \cup Running,
         Settle(r, to, code, 0), UNCHANGED <<lists, op>>,
         code \in Atomic!Refusal(op[r].kind), Atomic!RefusalHolds(code, op[r])
  PROVE  Atomic!Refuse(r)
  BY OpenRequest DEF Settle, Running, Atomic!Refuse, Atomic!Decide

LEMMA CreateStep ==
  ASSUME IInv, NEW r \in Request, CreateStatusList(r)
  PROVE  Atomic!Create(r) \/ Atomic!Refuse(r)
  <1>1. /\ phase[r] = "inserting" /\ Atomic!Open(r) /\ op[r].kind = "create"
        /\ built[r] = Materialize(op[r].instance, op[r].url, {})
    BY OpenRequest DEF CreateStatusList, IInv, HandlerState, HandlerFacts
  <1>2. CASE lists[op[r].list] = None
    BY <1>1, <1>2, SameData
       DEF CreateStatusList, Settle, Atomic!Create, Atomic!Decide
  <1>3. CASE lists[op[r].list] # None
    BY <1>1, <1>3, RefusalStep
       DEF CreateStatusList, Atomic!Refusal, Atomic!RefusalHolds
  <1> QED
    BY <1>2, <1>3

LEMMA ApplyStep ==
  ASSUME IInv, NEW r \in Request, ApplyStatus(r)
  PROVE  Atomic!KeepBit(r) \/ Atomic!Refuse(r) \/ UNCHANGED <<lists, op, outcome>>
  <1>1. phase[r] = "applying" /\ phase[r] \in Running
    BY DEF ApplyStatus, Running
  <1>2. Atomic!Open(r) /\ op[r].kind = "set"
    BY <1>1, OpenRequest
  <1>3. /\ seen[r] = lists[op[r].list] /\ lists[op[r].list] # None
        /\ op[r].index \in Index \cup {BeyondEnd}
    BY <1>1, RunningFacts, SetOpFacts DEF Chained, Pending
  <1>4. CASE op[r].index = BeyondEnd
    BY <1>1, <1>2, <1>4, RefusalStep
       DEF ApplyStatus, tables, Atomic!Refusal, Atomic!RefusalHolds
  <1>5. CASE /\ op[r].index # BeyondEnd
             /\ (op[r].index \in seen[r].bits) = op[r].status
    BY <1>2, <1>3, <1>5
       DEF ApplyStatus, Settle, tables, Atomic!KeepBit, Atomic!Decide
  <1>6. CASE /\ op[r].index # BeyondEnd
             /\ (op[r].index \in seen[r].bits) # op[r].status
    BY <1>6 DEF ApplyStatus, tables
  <1> QED
    BY <1>4, <1>5, <1>6

LEMMA FlipStep ==
  ASSUME IInv, NEW r \in Request, WriteUpdate(r)
  PROVE  Atomic!FlipBit(r)
  <1>1. phase[r] = "writing" /\ Atomic!Open(r) /\ op[r].kind = "set"
    BY OpenRequest DEF WriteUpdate, Running
  <1> QED
    BY <1>1, WriteFacts, SameData
       DEF WriteUpdate, Settle, Atomic!FlipBit, Atomic!Decide

LEMMA NextStep ==
  IInv /\ [Next]_vars => [Atomic!Next \/ life' # life]_<<lists, op, outcome>>
  <1> SUFFICES ASSUME IInv, [Next]_vars
               PROVE  Atomic!Next \/ life' # life \/ UNCHANGED <<lists, op, outcome>>
    OBVIOUS
  <1> USE DEF Atomic!Next
  <1>1. ASSUME NEW r \in Request, Submit(r) PROVE Atomic!Next
    <2>1. op[r] = None
      BY <1>1 DEF IInv, HandlerState, HandlerFacts, Submit
    <2> QED
      BY <1>1, <2>1, SameData DEF Submit, tables, Atomic!Submit
  <1>2. ASSUME NEW r \in Request, Progress(r)
        PROVE  Atomic!Next \/ UNCHANGED <<lists, op, outcome>>
    <2>1. CASE MintList(r)
      BY <2>1, OpenRequest, RefusalStep
         DEF MintList, tables, Atomic!Refusal, Atomic!RefusalHolds
    <2>2. CASE ReadList(r)
      BY <2>2, OpenRequest, RefusalStep
         DEF ReadList, tables, Atomic!Refusal, Atomic!RefusalHolds
    <2>3. CASE SignUpdate(r)
      BY <2>3, OpenRequest, RefusalStep
         DEF SignUpdate, tables, Running, Atomic!Refusal, Atomic!RefusalHolds
    <2>4. CASE Enqueue(r) \/ StartUpdate(r) \/ LeaveQueue(r)
      BY <2>4 DEF Enqueue, StartUpdate, LeaveQueue, tables
    <2> QED
      BY <1>2, <2>1, <2>2, <2>3, <2>4, CreateStep, ApplyStep, FlipStep
         DEF Progress
  <1>3. Restart => life' # life
    BY MaxLivesAssumption DEF Restart, IInv, TypeOK
  <1>4. ASSUME \/ \E c \in Claim, l \in List, i \in Index : AllocateIndex(c, l, i)
               \/ \E k \in Client, l \in List : GetList(k, l)
               \/ UNCHANGED vars
        PROVE  UNCHANGED <<lists, op, outcome>>
    BY <1>4 DEF AllocateIndex, GetList, tables, handlers, vars
  <1> QED
    BY <1>1, <1>2, <1>3, <1>4 DEF Next

(* Between restarts the promise chain keeps the promise the row lock keeps:*)
(* each request takes effect at one instant or not at all, and is answered *)
(* for its own doing.                                                      *)
THEOREM MemoryIsAtomic == Spec => UpdatesAreAtomic
  <1>1. Init => Atomic!Init
    BY SameData DEF Init, Atomic!Init
  <1> QED
    BY <1>1, NextStep, Invariance, PTL DEF Spec, Safety, UpdatesAreAtomic

=============================================================================
