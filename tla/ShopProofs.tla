------------------------------ MODULE ShopProofs ------------------------------
(***************************************************************************)
(* Proofs about what a visitor of the shop meets: the cart, for any number *)
(* of overlapping additions and removals, any quantities and any stock,    *)
(* and the storefront, for any number of orders, deliveries, options,      *)
(* requests and instances.  The two share no state: each has its           *)
(* specification, and its invariant, of its own.                           *)
(***************************************************************************)
EXTENDS Cart, Storefront, SumLemmas

(***************************************************************************)
(* The cart.                                                               *)
(***************************************************************************)
CartItem == [id : Nat, quantity : Nat]

\* Additions that were done to the row with this id
DoneOn(id) == {a \in Done(Additions) : read[a].id = id}

AddedTo == [id \in Nat |-> SumOver(Quantity, DoneOn(id))]

Held == IF row = NoRow THEN 0 ELSE row.quantity

Types ==
  /\ TypeOK
  /\ lastId \in Nat
  /\ row \in CartItem /\ read \in [Requests -> CartItem]
  /\ checked \in [Additions -> Nat]
  /\ IsFiniteSet(Done(Requests))

\* A request that is about to write has read what it writes from.
ReadBeforeWrite ==
  \A r \in Requests :
    /\ read[r] = NoRow \/ read[r].quantity > 0
    /\ pc[r] = "create" => read[r] = NoRow
    /\ pc[r] \in {"update", "delete", "decrease"} => read[r] # NoRow
    /\ pc[r] = "delete" => read[r].quantity = 1
    /\ pc[r] = "decrease" => read[r].quantity > 1

\* What the row holds, and what any request believes that a row holds, was
\* added to that row: additions to an id only grow, and an id is never reused.
Covered ==
  /\ row # NoRow => row.quantity <= AddedTo[row.id]
  /\ \A r \in Requests : read[r] # NoRow => read[r].quantity <= AddedTo[read[r].id]

\* While no request has written on an outdated read, nothing is lost.
Exact ==
  stale = {} =>
    Held = SumOver(Quantity, Done(Additions)) - Cardinality(Done(Removals))

\* An addition that has passed the comparison, and what the last one left
Bounded ==
  /\ \A a \in Additions :
       pc[a] \in {"find", "create", "update"} /\ a \notin stale =>
         read[a].quantity + Quantity[a] <= checked[a]
  /\ stale = {} /\ Done(Additions) # {} => \E a \in Done(Additions) : Held <= checked[a]

IInv == Types /\ ReadBeforeWrite /\ Covered /\ Exact /\ Bounded
-----------------------------------------------------------------------------
(***************************************************************************)
(* How a step of one request changes what is done.                         *)
(***************************************************************************)
PC == {"new", "check", "find", "refused", "create", "update", "delete", "decrease",
       "done", "failed"}

\* What the types say of readings, quantities and the row
LEMMA TypesAre ==
  ASSUME Types
  PROVE  /\ pc \in [Requests -> PC]
         /\ stale \subseteq Requests
         /\ Quantity \in [Additions -> Nat]
         /\ \A a \in Additions : Quantity[a] \in Nat /\ Quantity[a] > 0
         /\ row = NoRow \/ (row.id \in 1..lastId /\ row.quantity > 0)
         /\ \A r \in Requests : read[r] = NoRow \/ read[r].id \in 1..lastId
         /\ \A r \in Requests : read[r] \in CartItem
  BY CartAssumption DEF Types, TypeOK, PC, AddCartRequest

\* What was added and removed are counts.
LEMMA SumsAre ==
  ASSUME Types
  PROVE  /\ IsFiniteSet(Done(Additions)) /\ IsFiniteSet(Done(Removals))
         /\ SumOver(Quantity, Done(Additions)) \in Nat
         /\ Cardinality(Done(Removals)) \in Nat
         /\ \A id : IsFiniteSet(DoneOn(id)) /\ SumOver(Quantity, DoneOn(id)) \in Nat
<1>1. \A S \in SUBSET Done(Requests) : IsFiniteSet(S)
  BY FS_Subset DEF Types
<1>2. /\ Done(Additions) \in SUBSET Done(Requests)
      /\ Done(Removals) \in SUBSET Done(Requests)
      /\ \A id : DoneOn(id) \in SUBSET Done(Requests)
  BY DEF Done, DoneOn, Requests
<1>3. Done(Additions) \in SUBSET Additions /\ \A id : DoneOn(id) \in SUBSET Additions
  BY DEF Done, DoneOn
<1>4. \A S \in SUBSET Additions : IsFiniteSet(S) => SumOver(Quantity, S) \in Nat
  BY TypesAre, SumMonotone
<1> QED
  BY <1>1, <1>2, <1>3, <1>4, FS_CardinalityType

\* A request that goes on adds nothing to what is done.
LEMMA DoneStays ==
  ASSUME Types, NEW r \in Requests, pc[r] # "done", NEW p \in PC \ {"done"},
         pc' = [pc EXCEPT ![r] = p],
         \A q \in Requests \ {r} : read'[q] = read[q]
  PROVE  /\ Done(Requests)' = Done(Requests)
         /\ Done(Additions)' = Done(Additions) /\ Done(Removals)' = Done(Removals)
         /\ \A id : DoneOn(id)' = DoneOn(id)
<1>1. \A q \in Requests : pc'[q] = "done" <=> pc[q] = "done"
  BY TypesAre
<1> QED
  BY <1>1 DEF Done, DoneOn, Requests

\* A request that ends is added to what is done.
LEMMA DoneGrows ==
  ASSUME Types, NEW r \in Requests, pc[r] # "done", pc' = [pc EXCEPT ![r] = "done"],
         \A q \in Requests \ {r} : read'[q] = read[q]
  PROVE  /\ Done(Requests)' = Done(Requests) \cup {r}
         /\ r \in Additions =>
              /\ Done(Additions)' = Done(Additions) \cup {r}
              /\ Done(Removals)' = Done(Removals)
              /\ \A id : DoneOn(id)' = IF id = read'[r].id THEN DoneOn(id) \cup {r}
                                      ELSE DoneOn(id)
         /\ r \in Removals =>
              /\ Done(Additions)' = Done(Additions)
              /\ Done(Removals)' = Done(Removals) \cup {r}
              /\ \A id : DoneOn(id)' = DoneOn(id)
         /\ r \notin Done(Additions) /\ r \notin Done(Removals)
         /\ \A id : r \notin DoneOn(id)
<1>1. \A q \in Requests : pc'[q] = "done" <=> pc[q] = "done" \/ q = r
  BY TypesAre
<1>2. /\ Done(Requests)' = Done(Requests) \cup {r}
      /\ r \notin Done(Additions) /\ r \notin Done(Removals)
      /\ \A id : r \notin DoneOn(id)
  BY <1>1 DEF Done, DoneOn, Requests
<1>3. ASSUME r \in Additions
      PROVE  /\ Done(Additions)' = Done(Additions) \cup {r}
             /\ Done(Removals)' = Done(Removals)
             /\ \A id : DoneOn(id)' = IF id = read'[r].id THEN DoneOn(id) \cup {r}
                                     ELSE DoneOn(id)
  <2>1. r \notin Removals
    BY <1>3, CartAssumption
  <2>2. Done(Additions)' = Done(Additions) \cup {r} /\ Done(Removals)' = Done(Removals)
    BY <1>1, <1>3, <2>1 DEF Done, Requests
  <2>3. \A a \in Done(Additions) : a # r /\ a \in Requests
    BY DEF Done, Requests
  <2>4. \A a \in Done(Additions) : read'[a] = read[a]
    BY <2>3
  <2>5. \A id : DoneOn(id)' = {a \in Done(Additions) \cup {r} : read'[a].id = id}
    BY <2>2 DEF DoneOn
  <2>6. \A id : {a \in Done(Additions) \cup {r} : read'[a].id = id}
                 = IF id = read'[r].id THEN DoneOn(id) \cup {r} ELSE DoneOn(id)
    BY <2>4 DEF DoneOn
  <2> QED
    BY <2>2, <2>5, <2>6
<1>4. ASSUME r \in Removals
      PROVE  /\ Done(Additions)' = Done(Additions)
             /\ Done(Removals)' = Done(Removals) \cup {r}
             /\ \A id : DoneOn(id)' = DoneOn(id)
  <2>1. r \notin Additions
    BY <1>4, CartAssumption
  <2>2. Done(Additions)' = Done(Additions) /\ Done(Removals)' = Done(Removals) \cup {r}
    BY <1>1, <1>4, <2>1 DEF Done, Requests
  <2>3. \A a \in Done(Additions) : read'[a] = read[a]
    BY <2>1 DEF Done, Requests
  <2> QED
    BY <2>2, <2>3 DEF DoneOn
<1> QED
  BY <1>2, <1>3, <1>4
-----------------------------------------------------------------------------
(***************************************************************************)
(* A request that goes on without writing: what it has read anew is the    *)
(* row, and what it is about to do follows from that.                      *)
(***************************************************************************)
LEMMA QuietStep ==
  ASSUME IInv, NEW r \in Requests, pc[r] # "done", NEW p \in PC \ {"done"},
         pc' = [pc EXCEPT ![r] = p],
         row' = row, lastId' \in {lastId, lastId + 1},
         read' \in {read, [read EXCEPT ![r] = row]},
         checked' \in [Additions -> Stocks \cup {0}],
         \A a \in Additions \ {r} : checked'[a] = checked[a],
         stale \subseteq stale', stale' \subseteq Requests,
         p = "create" => read'[r] = NoRow,
         p \in {"update", "delete", "decrease"} => read'[r] # NoRow,
         p = "delete" => read'[r].quantity = 1,
         p = "decrease" => read'[r].quantity > 1,
         r \in Additions /\ p \in {"find", "create", "update"} /\ r \notin stale' =>
           read'[r].quantity + Quantity[r] <= checked'[r]
  PROVE  IInv'
<1>1. Types
  BY DEF IInv
<1>2. \A q \in Requests \ {r} : read'[q] = read[q] /\ pc'[q] = pc[q]
  BY <1>1, TypesAre DEF Types
<1>3. /\ Done(Requests)' = Done(Requests)
      /\ Done(Additions)' = Done(Additions) /\ Done(Removals)' = Done(Removals)
      /\ \A id : DoneOn(id)' = DoneOn(id)
  BY <1>1, <1>2, DoneStays
<1>4. read' \in [Requests -> CartItem] /\ read'[r] \in {read[r], row}
  BY <1>1 DEF Types
<1>5. pc'[r] = p
  BY <1>1, TypesAre
<1>6. Types'
  <2>1. pc' \in [Requests -> PC]
    BY <1>1, TypesAre
  <2>2. lastId' \in Nat /\ \A n \in 1..lastId : n \in 1..lastId'
    BY <1>1 DEF Types
  <2>3. row' = NoRow \/ (row'.id \in 1..lastId' /\ row'.quantity \in Nat \ {0})
    BY <1>1, <2>2 DEF Types, TypeOK
  <2>4. \A q \in Requests : read'[q] = NoRow \/ read'[q].id \in 1..lastId'
    BY <1>1, <1>2, <1>4, <2>2 DEF Types, TypeOK
  <2>5. checked' \in [Additions -> Nat]
    <3>1. Stocks \cup {0} \subseteq Nat
      BY CartAssumption
    <3> QED
      BY <3>1
  <2>6. TypeOK'
    BY <2>1, <2>3, <2>4 DEF TypeOK, PC
  <2> QED
    BY <1>1, <1>3, <1>4, <2>2, <2>5, <2>6 DEF Types
<1>7. ReadBeforeWrite'
  <2>1. read'[r] = NoRow \/ read'[r].quantity > 0
    BY <1>1, <1>4, TypesAre DEF IInv, ReadBeforeWrite
  <2> QED
    BY <1>2, <1>5, <2>1 DEF IInv, ReadBeforeWrite
<1>8. Covered'
  <2>1. AddedTo' = AddedTo
    BY <1>3 DEF AddedTo
  <2>2. \A q \in Requests : read'[q] # NoRow => read'[q].quantity <= AddedTo[read'[q].id]
    BY <1>2, <1>4 DEF IInv, Covered
  <2> QED
    BY <2>1, <2>2 DEF IInv, Covered
<1>9. Exact'
  BY <1>3 DEF IInv, Exact, Held
<1>10. Bounded'
  <2>1. \A a \in Done(Additions) : a \in Additions \ {r}
    BY DEF Done
  <2>2. Additions \subseteq Requests
    BY DEF Requests
  <2> QED
    BY <1>2, <1>3, <1>5, <2>1, <2>2 DEF IInv, Bounded, Held
<1> QED
  BY <1>6, <1>7, <1>8, <1>9, <1>10 DEF IInv
-----------------------------------------------------------------------------
(***************************************************************************)
(* An addition that has written, and a removal that has.                   *)
(***************************************************************************)
LEMMA AddDone ==
  ASSUME IInv, NEW r \in Additions, pc[r] # "done", pc' = [pc EXCEPT ![r] = "done"],
         lastId' \in {lastId, lastId + 1},
         row' \in CartItem, row' # NoRow, row'.id \in 1..lastId',
         NEW v \in CartItem, read' = [read EXCEPT ![r] = v], v # NoRow,
         v.id = row'.id, 0 < v.quantity,
         v.quantity <= AddedTo[v.id] + Quantity[r],
         row'.quantity <= AddedTo[v.id] + Quantity[r], 0 < row'.quantity,
         checked' = checked,
         stale' \in {stale, stale \cup {r}},
         stale' = {} => /\ row'.quantity = Held + Quantity[r]
                        /\ row'.quantity <= checked[r]
  PROVE  IInv'
<1>1. Types /\ r \in Requests /\ r \notin Removals
  BY CartAssumption DEF IInv, Requests
<1>2. \A q \in Requests \ {r} : read'[q] = read[q] /\ pc'[q] = pc[q]
  BY <1>1, TypesAre DEF Types
<1>3. /\ Done(Requests)' = Done(Requests) \cup {r}
      /\ Done(Additions)' = Done(Additions) \cup {r} /\ Done(Removals)' = Done(Removals)
      /\ \A id : DoneOn(id)' = IF id = read'[r].id THEN DoneOn(id) \cup {r} ELSE DoneOn(id)
      /\ r \notin Done(Additions) /\ \A id : r \notin DoneOn(id)
  BY <1>1, <1>2, DoneGrows
<1>4. read' \in [Requests -> CartItem] /\ read'[r] = v /\ pc'[r] = "done"
  BY <1>1, TypesAre DEF Types
<1>5. Types'
  <2>1. pc' \in [Requests -> PC]
    BY <1>1, TypesAre DEF PC
  <2>2. lastId' \in Nat /\ \A n \in 1..lastId : n \in 1..lastId'
    BY <1>1 DEF Types
  <2>3. row'.quantity \in Nat \ {0}
    BY DEF CartItem
  <2>4. \A q \in Requests : read'[q] = NoRow \/ read'[q].id \in 1..lastId'
    BY <1>1, <1>2, <1>4, <2>2 DEF Types, TypeOK
  <2>5. stale' \subseteq Requests
    BY <1>1 DEF Types, TypeOK
  <2>6. TypeOK'
    BY <1>1, <2>1, <2>3, <2>4, <2>5 DEF Types, TypeOK, PC
  <2>7. IsFiniteSet(Done(Requests)')
    BY <1>1, <1>3, FS_AddElement DEF Types
  <2> QED
    BY <1>1, <1>4, <2>2, <2>6, <2>7 DEF Types
<1>6. ReadBeforeWrite'
  BY <1>2, <1>4 DEF IInv, ReadBeforeWrite
<1>7. Quantity \in [Additions -> Int] /\ Quantity[r] \in Nat
  BY <1>1, TypesAre
<1>8. Covered'
  <2>1. \A id : /\ DoneOn(id) \in SUBSET Additions /\ IsFiniteSet(DoneOn(id))
               /\ SumOver(Quantity, DoneOn(id)) \in Nat
    BY <1>1, SumsAre DEF DoneOn, Done
  <2>2. ASSUME NEW id \in Nat
        PROVE  AddedTo'[id] = AddedTo[id] + (IF id = v.id THEN Quantity[r] ELSE 0)
    <3>1. AddedTo'[id] = SumOver(Quantity, DoneOn(id)')
      BY DEF AddedTo
    <3>2. AddedTo[id] = SumOver(Quantity, DoneOn(id))
      BY DEF AddedTo
    <3>3. CASE id = v.id
      <4>1. DoneOn(id)' = DoneOn(id) \cup {r}
        BY <1>3, <1>4, <3>3
      <4>2. SumOver(Quantity, DoneOn(id) \cup {r}) = SumOver(Quantity, DoneOn(id)) + Quantity[r]
        BY <1>3, <1>7, <2>1, SumAdd
      <4> QED
        BY <3>1, <3>2, <3>3, <4>1, <4>2
    <3>4. CASE id # v.id
      <4>1. DoneOn(id)' = DoneOn(id)
        BY <1>3, <1>4, <3>4
      <4>2. SumOver(Quantity, DoneOn(id)) \in Nat
        BY <2>1
      <4> QED
        BY <3>1, <3>2, <3>4, <4>1, <4>2
    <3> QED
      BY <3>3, <3>4
  <2>3. \A id \in Nat : AddedTo[id] \in Nat
    BY <2>1 DEF AddedTo
  <2>4. \A q \in Requests : read'[q] # NoRow => read'[q].quantity <= AddedTo'[read'[q].id]
    <3>1. v.quantity <= AddedTo'[v.id]
      BY <2>2 DEF CartItem
    <3>2. ASSUME NEW q \in Requests \ {r}, read[q] # NoRow
          PROVE  read[q].quantity <= AddedTo'[read[q].id]
      <4>1. read[q].quantity <= AddedTo[read[q].id] /\ read[q] \in CartItem
        BY <1>1, <3>2 DEF IInv, Covered, Types
      <4>2. read[q].id \in Nat /\ read[q].quantity \in Nat
        BY <4>1 DEF CartItem
      <4>3. AddedTo[read[q].id] \in Nat
        BY <2>3, <4>2
      <4>4. AddedTo'[read[q].id] >= AddedTo[read[q].id]
        BY <1>7, <2>2, <4>2, <4>3
      <4>5. AddedTo'[read[q].id] \in Nat
        BY <1>7, <2>2, <4>2, <4>3
      <4> QED
        BY <4>1, <4>2, <4>3, <4>4, <4>5
    <3> QED
      BY <1>2, <1>4, <3>1, <3>2
  <2>5. row'.quantity <= AddedTo'[row'.id]
    BY <2>2 DEF CartItem
  <2> QED
    BY <2>4, <2>5 DEF Covered
<1>9. Done(Additions) \in SUBSET Additions
  BY DEF Done
<1>10. Exact'
  <2>1. SumOver(Quantity, Done(Additions) \cup {r}) = SumOver(Quantity, Done(Additions)) + Quantity[r]
    BY <1>1, <1>3, <1>7, <1>9, SumsAre, SumAdd
  <2>2. /\ SumOver(Quantity, Done(Additions)) \in Nat
        /\ Cardinality(Done(Removals)) \in Nat
    BY <1>1, SumsAre
  <2>3. stale' = {} => stale = {}
    OBVIOUS
  <2>4. Held' = row'.quantity
    BY DEF Held
  <2>5. SumOver(Quantity, Done(Additions)') = SumOver(Quantity, Done(Additions)) + Quantity[r]
    BY <1>3, <2>1
  <2>6. Cardinality(Done(Removals)') = Cardinality(Done(Removals))
    BY <1>3
  <2>7. stale' = {} =>
          Held' = SumOver(Quantity, Done(Additions)') - Cardinality(Done(Removals)')
    BY <1>7, <2>2, <2>3, <2>4, <2>5, <2>6 DEF IInv, Exact
  <2> QED
    BY <2>7 DEF Exact
<1>11. Bounded'
  <2>1. Held' = row'.quantity /\ (stale' = {} => row'.quantity <= checked[r])
    BY DEF Held
  <2>2. Additions \subseteq Requests /\ stale \subseteq stale'
    BY DEF Requests
  <2> QED
    BY <1>2, <1>3, <1>4, <2>1, <2>2 DEF IInv, Bounded
<1> QED
  BY <1>5, <1>6, <1>8, <1>10, <1>11 DEF IInv

\* A removal that ends keeps the invariant if it keeps the row covered.
LEMMA RemoveDone ==
  ASSUME IInv, NEW r \in Removals, pc[r] # "done", pc' = [pc EXCEPT ![r] = "done"],
         lastId' = lastId, read' = read, checked' = checked,
         \/ row' = NoRow
         \/ /\ row' \in CartItem /\ row'.id \in 1..lastId /\ 0 < row'.quantity
            /\ row'.quantity <= AddedTo[row'.id],
         stale' \in {stale, stale \cup {r}},
         stale' = {} => Held' = Held - 1
  PROVE  IInv'
<1>1. Types /\ r \in Requests /\ r \notin Additions
  BY CartAssumption DEF IInv, Requests
<1>2. \A q \in Requests \ {r} : read'[q] = read[q] /\ pc'[q] = pc[q]
  BY <1>1, TypesAre DEF Types
<1>3. /\ Done(Requests)' = Done(Requests) \cup {r}
      /\ Done(Additions)' = Done(Additions) /\ Done(Removals)' = Done(Removals) \cup {r}
      /\ \A id : DoneOn(id)' = DoneOn(id)
      /\ r \notin Done(Removals)
  BY <1>1, <1>2, DoneGrows
<1>4. pc'[r] = "done"
  BY <1>1, TypesAre
<1>5. Types'
  <2>1. pc' \in [Requests -> PC]
    BY <1>1, TypesAre DEF PC
  <2>2. row' \in CartItem /\ (row' = NoRow \/ (row'.id \in 1..lastId /\ row'.quantity \in Nat \ {0}))
    BY DEF CartItem, NoRow
  <2>3. stale' \subseteq Requests
    BY <1>1 DEF Types, TypeOK
  <2>4. TypeOK'
    BY <1>1, <2>1, <2>2, <2>3 DEF Types, TypeOK, PC
  <2>5. IsFiniteSet(Done(Requests)')
    BY <1>1, <1>3, FS_AddElement DEF Types
  <2> QED
    BY <1>1, <2>2, <2>4, <2>5 DEF Types
<1>6. ReadBeforeWrite'
  BY <1>2, <1>4 DEF IInv, ReadBeforeWrite
<1>7. Covered'
  <2>1. AddedTo' = AddedTo
    BY <1>3 DEF AddedTo
  <2> QED
    BY <2>1 DEF IInv, Covered
<1>8. stale' = {} => stale = {}
  OBVIOUS
<1>9. Held' \in Nat /\ Held \in Nat /\ (Held' <= Held \/ stale' # {})
  <2>1. Held \in Nat /\ Held' \in Nat
    BY <1>1, <1>5 DEF Types, Held, CartItem
  <2> QED
    BY <2>1
<1>10. Exact'
  <2>1. Cardinality(Done(Removals) \cup {r}) = Cardinality(Done(Removals)) + 1
    BY <1>1, <1>3, SumsAre, FS_AddElement
  <2>2. /\ SumOver(Quantity, Done(Additions)) \in Nat
        /\ Cardinality(Done(Removals)) \in Nat
    BY <1>1, SumsAre
  <2>3. SumOver(Quantity, Done(Additions)') = SumOver(Quantity, Done(Additions))
    BY <1>3
  <2>4. Cardinality(Done(Removals)') = Cardinality(Done(Removals)) + 1
    BY <1>3, <2>1
  <2>5. stale' = {} =>
          Held' = SumOver(Quantity, Done(Additions)') - Cardinality(Done(Removals)')
    BY <1>8, <1>9, <2>2, <2>3, <2>4 DEF IInv, Exact
  <2> QED
    BY <2>5 DEF Exact
<1>11. Bounded'
  <2>1. Additions \subseteq Requests \ {r} /\ stale \subseteq stale'
    BY <1>1 DEF Requests
  <2>2. \A a \in Done(Additions) : checked[a] \in Nat
    BY <1>1 DEF Types, Done
  <2>3. stale' = {} /\ Done(Additions) # {} => \E a \in Done(Additions) : Held' <= checked[a]
    BY <1>8, <1>9, <2>2 DEF IInv, Bounded
  <2> QED
    BY <1>2, <1>3, <2>1, <2>3 DEF IInv, Bounded
<1> QED
  BY <1>5, <1>6, <1>7, <1>10, <1>11 DEF IInv
-----------------------------------------------------------------------------
\* The empty cart holds what was added.
LEMMA InitIInv == Init => IInv
<1> SUFFICES ASSUME Init PROVE IInv
  OBVIOUS
<1>1. /\ Done(Requests) = {} /\ Done(Additions) = {} /\ Done(Removals) = {}
      /\ \A id : DoneOn(id) = {}
  BY DEF Init, Done, DoneOn, Requests
<1>2. Types
  <2>1. NoRow \in CartItem
    BY DEF NoRow, CartItem
  <2>2. TypeOK
    BY DEF Init, TypeOK
  <2> QED
    BY <1>1, <2>1, <2>2, FS_EmptySet DEF Types, Init
<1>3. ReadBeforeWrite /\ Covered
  BY DEF Init, ReadBeforeWrite, Covered
<1>4. Exact
  <2>1. SumOver(Quantity, Done(Additions)) = 0
    BY <1>1, SumEmpty
  <2>2. Cardinality(Done(Removals)) = 0
    BY <1>1, FS_EmptySet
  <2> QED
    BY <2>1, <2>2 DEF Exact, Held, Init
<1>5. Bounded
  BY <1>1 DEF Init, Bounded, Requests
<1> QED
  BY <1>2, <1>3, <1>4, <1>5 DEF IInv

\* A reading, or the check of the stock, writes nothing.
LEMMA ReadingsKeepIInv ==
  ASSUME IInv, NEW a \in Additions, ReadQuantity(a) \/ CheckStock(a) \/ FindRow(a)
  PROVE  IInv'
<1>1. Types /\ a \in Requests
  BY DEF IInv, Requests
<1>2. checked \in [Additions -> Stocks \cup {0}] /\ stale \subseteq Requests
  BY <1>1 DEF Types, TypeOK
<1>3. CASE ReadQuantity(a)
  <2>1. \A q \in PC : q = "check" => q \notin {"create", "update", "delete", "decrease", "find"}
    OBVIOUS
  <2> QED
    BY <1>1, <1>2, <1>3, QuietStep DEF ReadQuantity, Goto, ReadRow, PC
<1>4. CASE CheckStock(a)
  <2>1. PICK available \in Stocks :
          /\ checked' = [checked EXCEPT ![a] = available]
          /\ pc' = [pc EXCEPT ![a] = IF Enough(a, available) THEN "find" ELSE "refused"]
    BY <1>4 DEF CheckStock, Goto
  <2>2. checked' \in [Additions -> Stocks \cup {0}] /\ checked'[a] = available
    BY <1>2, <2>1
  <2>3. row' = row /\ lastId' = lastId /\ read' = read /\ stale' = stale /\ pc[a] = "check"
    BY <1>4 DEF CheckStock
  <2>4. CASE Enough(a, available)
    <3>1. read[a].quantity + Quantity[a] <= available
      <4>1. read[a].quantity \in Nat /\ Quantity[a] \in Nat /\ available \in Nat
        BY <1>1, TypesAre, CartAssumption DEF CartItem
      <4> QED
        BY <2>4, <4>1 DEF Enough
    <3>2. pc' = [pc EXCEPT ![a] = "find"]
      BY <2>1, <2>4
    <3> QED
      BY <1>1, <1>2, <2>1, <2>2, <2>3, <3>1, <3>2, QuietStep DEF PC
  <2>5. CASE ~ Enough(a, available)
    <3>1. pc' = [pc EXCEPT ![a] = "refused"]
      BY <2>1, <2>5
    <3> QED
      BY <1>1, <1>2, <2>1, <2>2, <2>3, <3>1, QuietStep DEF PC
  <2> QED
    BY <2>4, <2>5
<1>5. CASE FindRow(a)
  <2>1. /\ pc[a] = "find" /\ row' = row /\ lastId' = lastId /\ checked' = checked
        /\ read' = [read EXCEPT ![a] = row] /\ stale' = Marked(a)
        /\ pc' = [pc EXCEPT ![a] = IF row = NoRow THEN "create" ELSE "update"]
    BY <1>5 DEF FindRow, Goto, ReadRow
  <2>2. stale \subseteq stale' /\ stale' \subseteq Requests
    BY <1>1, <1>2, <2>1 DEF Marked
  <2>3. read'[a] = row
    BY <1>1, <2>1 DEF Types
  <2>4. a \notin stale' => read'[a].quantity + Quantity[a] <= checked'[a]
    BY <2>1, <2>3 DEF IInv, Bounded, Marked
  <2>5. CASE row = NoRow
    BY <1>1, <1>2, <2>1, <2>2, <2>3, <2>4, <2>5, QuietStep DEF PC
  <2>6. CASE row # NoRow
    BY <1>1, <1>2, <2>1, <2>2, <2>3, <2>4, <2>6, QuietStep DEF PC
  <2> QED
    BY <2>5, <2>6
<1> QED
  BY <1>3, <1>4, <1>5

\* A new row has an id to which nothing was added yet.
LEMMA NewIdIsEmpty ==
  ASSUME IInv
  PROVE  AddedTo[lastId + 1] \in Nat
<1>1. Types /\ lastId + 1 \in Nat
  BY DEF IInv, Types
<1> QED
  BY <1>1, SumsAre DEF AddedTo

\* A row is created with what its request adds.
LEMMA CreateKeepsIInv ==
  ASSUME IInv, NEW a \in Additions, Create(a)
  PROVE  IInv'
<1>1. Types /\ a \in Requests
  BY DEF IInv, Requests
<1>2. checked \in [Additions -> Stocks \cup {0}] /\ stale \subseteq Requests
  BY <1>1 DEF Types, TypeOK
<1>3. /\ pc[a] = "create" /\ lastId' = lastId + 1 /\ checked' = checked /\ stale' = stale
      /\ read' = [read EXCEPT ![a] = row'] /\ lastId \in Nat
  BY <1>1 DEF Create, Types
<1>4. CASE row = NoRow
  <2>1. /\ row' = [id |-> lastId + 1, quantity |-> Quantity[a]]
        /\ pc' = [pc EXCEPT ![a] = "done"]
    BY <1>4 DEF Create, Goto
  <2>2. Quantity[a] \in Nat /\ Quantity[a] > 0
    BY <1>1, TypesAre
  <2>3. row' \in CartItem /\ row'.id = lastId + 1 /\ row'.quantity = Quantity[a]
    BY <1>3, <2>1, <2>2 DEF CartItem
  <2>4. row' # NoRow
    BY <2>2, <2>3 DEF NoRow
  <2>5. row'.quantity <= AddedTo[row'.id] + Quantity[a]
    <3>1. AddedTo[lastId + 1] \in Nat
      BY NewIdIsEmpty
    <3>2. Quantity[a] <= AddedTo[lastId + 1] + Quantity[a]
      BY <2>2, <3>1
    <3> QED
      BY <2>3, <3>2
  <2>6. stale' = {} => row'.quantity = Held + Quantity[a] /\ row'.quantity <= checked[a]
    <3>1. Held = 0
      BY <1>4 DEF Held
    <3>2. read[a] = NoRow
      BY <1>1, <1>3 DEF IInv, ReadBeforeWrite
    <3>3. stale = {} => Quantity[a] <= checked[a]
      BY <1>3, <2>2, <3>2 DEF IInv, Bounded, NoRow
    <3> QED
      BY <1>3, <2>2, <2>3, <3>1, <3>3
  <2>7. row'.id \in 1..lastId' /\ 0 < row'.quantity
    BY <1>3, <2>2, <2>3
  <2> QED
    BY <1>3, <2>1, <2>3, <2>4, <2>5, <2>6, <2>7, AddDone
<1>5. CASE row # NoRow
  <2>1. row' = row /\ pc' = [pc EXCEPT ![a] = "failed"]
    BY <1>5 DEF Create, Goto
  <2> QED
    BY <1>1, <1>2, <1>3, <2>1, QuietStep DEF PC
<1> QED
  BY <1>4, <1>5

\* A row that is updated by its id is the row that was read, by its id.
LEMMA IncreaseKeepsIInv ==
  ASSUME IInv, NEW a \in Additions, Increase(a)
  PROVE  IInv'
<1> DEFINE quantity == read[a].quantity + Quantity[a]
<1>1. Types /\ a \in Requests
  BY DEF IInv, Requests
<1>2. checked \in [Additions -> Stocks \cup {0}] /\ stale \subseteq Requests
  BY <1>1 DEF Types, TypeOK
<1>3. /\ pc[a] = "update" /\ lastId' = lastId /\ read' = read /\ checked' = checked
      /\ lastId \in Nat /\ row \in CartItem
  BY <1>1 DEF Increase, Types
<1>4. read[a] \in CartItem /\ read[a] # NoRow
  BY <1>1, <1>3, TypesAre DEF IInv, ReadBeforeWrite
<1>5. CASE row.id = read[a].id
  <2>1. /\ row' = [row EXCEPT !.quantity = quantity]
        /\ pc' = [pc EXCEPT ![a] = "done"]
        /\ stale' = Marked(a)
    BY <1>5 DEF Increase, Write, Goto
  <2>2. Quantity[a] \in Nat /\ Quantity[a] > 0 /\ read[a].quantity \in Nat /\ read[a].quantity > 0
    BY <1>1, <1>4, TypesAre DEF CartItem, IInv, ReadBeforeWrite
  <2>3. row' \in CartItem /\ row'.id = read[a].id /\ row'.quantity = quantity /\ quantity > 0
    BY <1>3, <1>5, <2>1, <2>2 DEF CartItem
  <2>4. row' # NoRow
    BY <2>3 DEF NoRow
  <2>5. read[a].id \in 1..lastId
    BY <1>1, <1>4, TypesAre
  <2>6. /\ read[a].quantity <= AddedTo[read[a].id] /\ AddedTo[read[a].id] \in Nat
    <3>1. read[a].id \in Nat
      BY <1>4 DEF CartItem
    <3> QED
      BY <1>1, <1>4, <3>1, SumsAre DEF IInv, Covered, AddedTo
  <2>7. /\ read[a].quantity <= AddedTo[read[a].id] + Quantity[a]
        /\ quantity <= AddedTo[read[a].id] + Quantity[a]
    BY <2>2, <2>6
  <2>8. stale' = {} => row'.quantity = Held + Quantity[a] /\ row'.quantity <= checked[a]
    <3>1. stale' = {} => read[a] = row /\ stale = {}
      BY <2>1 DEF Marked
    <3>2. stale = {} => quantity <= checked[a]
      BY <1>3 DEF IInv, Bounded
    <3> QED
      BY <1>4, <2>3, <3>1, <3>2 DEF Held
  <2>9. read' = [read EXCEPT ![a] = read[a]]
    BY <1>1, <1>3 DEF Types
  <2>10. stale' \in {stale, stale \cup {a}}
    BY <2>1 DEF Marked
  <2> HIDE DEF quantity
  <2> QED
    BY <1>3, <1>4, <2>1, <2>2, <2>3, <2>4, <2>5, <2>7, <2>8, <2>9, <2>10, AddDone
<1>6. CASE row.id # read[a].id
  <2>1. row' = row /\ pc' = [pc EXCEPT ![a] = "failed"] /\ stale' = stale
    BY <1>6 DEF Increase, Write, Goto
  <2> QED
    BY <1>1, <1>2, <1>3, <2>1, QuietStep DEF PC
<1> QED
  BY <1>5, <1>6

\* A removal finds its row, or fails, and writes nothing.
LEMMA FindToRemoveKeepsIInv ==
  ASSUME IInv, NEW r \in Removals, FindToRemove(r)
  PROVE  IInv'
<1>1. Types /\ r \in Requests /\ r \notin Additions
  BY CartAssumption DEF IInv, Requests
<1>2. checked \in [Additions -> Stocks \cup {0}] /\ stale \subseteq Requests
  BY <1>1 DEF Types, TypeOK
<1>3. /\ pc[r] = "new" /\ row' = row /\ lastId' = lastId /\ checked' = checked /\ stale' = stale
      /\ read' = [read EXCEPT ![r] = row]
      /\ pc' = [pc EXCEPT ![r] = IF row = NoRow THEN "failed"
                                 ELSE IF ShouldBeRemoved(r) THEN "delete" ELSE "decrease"]
  BY DEF FindToRemove, ReadRow, Goto
<1>4. read'[r] = row
  BY <1>1, <1>3 DEF Types
<1>5. CASE row = NoRow
  <2>1. pc' = [pc EXCEPT ![r] = "failed"]
    BY <1>3, <1>5
  <2> QED
    BY <1>1, <1>2, <1>3, <2>1, QuietStep DEF PC
<1>6. CASE row # NoRow
  <2>1. row.quantity \in Nat /\ row.quantity > 0
    BY <1>1, <1>6 DEF Types, TypeOK
  <2>2. CASE row.quantity = 1
    <3>1. pc' = [pc EXCEPT ![r] = "delete"]
      BY <1>3, <1>6, <2>1, <2>2 DEF ShouldBeRemoved
    <3> QED
      BY <1>1, <1>2, <1>3, <1>4, <1>6, <2>2, <3>1, QuietStep DEF PC
  <2>3. CASE row.quantity # 1
    <3>0. ~ ShouldBeRemoved(r)
      BY <2>1, <2>3 DEF ShouldBeRemoved
    <3>1. pc' = [pc EXCEPT ![r] = "decrease"]
      BY <1>3, <1>6, <3>0
    <3>2. read'[r].quantity > 1
      BY <1>4, <2>1, <2>3
    <3> QED
      BY <1>1, <1>2, <1>3, <1>4, <1>6, <3>1, <3>2, QuietStep DEF PC
  <2> QED
    BY <2>2, <2>3
<1> QED
  BY <1>5, <1>6

\* A removal leaves one piece less than it has read, or no row when it has
\* read one piece.
LEMMA RemovalKeepsIInv ==
  ASSUME IInv, NEW r \in Removals, Delete(r) \/ Decrease(r)
  PROVE  IInv'
<1>1. Types /\ r \in Requests /\ r \notin Additions
  BY CartAssumption DEF IInv, Requests
<1>2. checked \in [Additions -> Stocks \cup {0}] /\ stale \subseteq Requests
  BY <1>1 DEF Types, TypeOK
<1>3. /\ pc[r] \in {"delete", "decrease"} /\ lastId' = lastId /\ read' = read
      /\ checked' = checked /\ row \in CartItem
  BY <1>1 DEF Delete, Decrease, Types
<1>4. /\ read[r] \in CartItem /\ read[r] # NoRow
      /\ read[r].quantity \in Nat /\ read[r].id \in 1..lastId
  BY <1>1, <1>3, TypesAre DEF CartItem, IInv, ReadBeforeWrite
<1>5. CASE row.id # read[r].id
  <2>1. row' = row /\ pc' = [pc EXCEPT ![r] = "failed"] /\ stale' = stale
    BY <1>5 DEF Delete, Decrease, Write, Goto
  <2> QED
    BY <1>1, <1>2, <1>3, <2>1, QuietStep DEF PC
<1>6. CASE row.id = read[r].id
  <2>1. pc' = [pc EXCEPT ![r] = "done"] /\ stale' = Marked(r)
    BY <1>6 DEF Delete, Decrease, Write, Goto
  <2>2. stale' \in {stale, stale \cup {r}} /\ (stale' = {} => read[r] = row)
    BY <2>1 DEF Marked
  <2>3. CASE Delete(r)
    <3>1. row' = NoRow /\ read[r].quantity = 1
      BY <1>1, <1>6, <2>3 DEF Delete, IInv, ReadBeforeWrite
    <3>2. stale' = {} => Held = 1
      BY <1>4, <2>2, <3>1 DEF Held
    <3>3. Held' = 0
      BY <3>1 DEF Held
    <3>4. pc[r] # "done"
      BY <1>3
    <3>5. stale' = {} => Held' = Held - 1
      BY <3>2, <3>3
    <3> QED
      BY <1>3, <2>1, <2>2, <3>1, <3>4, <3>5, RemoveDone
  <2>4. CASE Decrease(r)
    <3>1. row' = [row EXCEPT !.quantity = read[r].quantity - 1] /\ read[r].quantity > 1
      BY <1>1, <1>6, <2>4 DEF Decrease, Write, IInv, ReadBeforeWrite
    <3>2. /\ row' \in CartItem /\ row'.id = read[r].id /\ row'.quantity = read[r].quantity - 1
          /\ 0 < row'.quantity
      BY <1>3, <1>4, <1>6, <3>1 DEF CartItem
    <3>3. row'.quantity <= AddedTo[row'.id]
      <4>1. read[r].id \in Nat
        BY <1>4 DEF CartItem
      <4>2. AddedTo[read[r].id] \in Nat
        BY <1>1, <4>1, SumsAre DEF AddedTo
      <4>3. read[r].quantity <= AddedTo[read[r].id]
        BY <1>1, <1>4 DEF IInv, Covered
      <4>4. row'.quantity <= AddedTo[read[r].id]
        BY <1>4, <3>2, <4>2, <4>3
      <4> QED
        BY <3>2, <4>4
    <3>4. row' # NoRow
      BY <3>2 DEF NoRow
    <3>5. stale' = {} => Held' = Held - 1
      BY <1>4, <2>2, <3>2, <3>4 DEF Held
    <3>6. pc[r] # "done"
      BY <1>3
    <3> QED
      BY <1>3, <1>4, <2>1, <2>2, <3>2, <3>3, <3>5, <3>6, RemoveDone
  <2> QED
    BY <2>3, <2>4
<1> QED
  BY <1>5, <1>6
-----------------------------------------------------------------------------
\* Every step keeps the invariant.
LEMMA NextKeepsIInv == IInv /\ [Next]_vars => IInv'
<1> SUFFICES ASSUME IInv, [Next]_vars PROVE IInv'
  OBVIOUS
<1>1. CASE \E a \in Additions : Add(a)
  BY <1>1, ReadingsKeepIInv, CreateKeepsIInv, IncreaseKeepsIInv DEF Add
<1>2. CASE \E r \in Removals : Remove(r)
  BY <1>2, FindToRemoveKeepsIInv, RemovalKeepsIInv DEF Remove
<1>3. CASE UNCHANGED vars
  <2>1. /\ Done(Requests)' = Done(Requests)
        /\ Done(Additions)' = Done(Additions) /\ Done(Removals)' = Done(Removals)
        /\ \A id : DoneOn(id)' = DoneOn(id)
    BY <1>3 DEF vars, Done, DoneOn
  <2>2. AddedTo' = AddedTo
    BY <2>1 DEF AddedTo
  <2>3. Types'
    BY <1>3, <2>1 DEF IInv, Types, TypeOK, vars
  <2>4. ReadBeforeWrite' /\ Covered' /\ Bounded'
    BY <1>3, <2>1, <2>2 DEF IInv, ReadBeforeWrite, Covered, Bounded, Held, vars
  <2>5. Exact'
    BY <1>3, <2>1 DEF IInv, Exact, Held, vars
  <2> QED
    BY <2>3, <2>4, <2>5 DEF IInv
<1> QED
  BY <1>1, <1>2, <1>3 DEF Next

\* The invariant holds throughout.
LEMMA IInvHolds == Spec => []IInv
  BY InitIInv, NextKeepsIInv, PTL DEF Spec
-----------------------------------------------------------------------------
\* What the cart shows is what the row holds.
LEMMA ShownIsHeld ==
  ASSUME Types
  PROVE  Shown = Held
<1> DEFINE Amounts == [item \in GetCart |-> item.quantity]
           B(g) == [s \in SUBSET GetCart |->
                      IF s = {} THEN 0
                      ELSE LET x == CHOOSE x \in s : TRUE
                           IN  x.quantity + g[s \ {x}]]
           C(g) == [s \in SUBSET GetCart |->
                      IF s = {} THEN 0
                      ELSE LET x == CHOOSE x \in s : TRUE
                           IN  Amounts[x] + g[s \ {x}]]
<1>1. \A s \in SUBSET GetCart : s # {} =>
        Amounts[CHOOSE x \in s : TRUE] = (CHOOSE x \in s : TRUE).quantity
  OBVIOUS
<1>2. \A g : B(g) = C(g)
  BY <1>1
<1>3. Shown = (CHOOSE g : g = B(g))[GetCart]
  BY Zenon DEF Shown, MapThenSumSet, MapThenFoldSet
<1>4. SumOver(Amounts, GetCart) = (CHOOSE g : g = C(g))[GetCart]
  BY Zenon DEF SumOver, MapThenSumSet, MapThenFoldSet
<1>5. Shown = SumOver(Amounts, GetCart)
  <2> HIDE DEF B, C, Amounts
  <2>1. (CHOOSE g : g = B(g)) = (CHOOSE g : g = C(g))
    BY <1>2, Zenon
  <2> QED
    BY <1>3, <1>4, <2>1, Zenon
<1>6. CASE row = NoRow
  <2>1. GetCart = {}
    BY <1>6 DEF GetCart, CartItems
  <2>2. SumOver(Amounts, {}) = 0
    <3> HIDE DEF Amounts
    <3> QED
      BY SumEmpty
  <2>3. Shown = 0
    BY <1>5, <2>1, <2>2, Zenon
  <2> QED
    BY <1>6, <2>3 DEF Held
<1>7. CASE row # NoRow
  <2> DEFINE item == [cartItemId |-> row.id, quantity |-> row.quantity]
  <2>1. GetCart = {item}
    BY <1>7 DEF GetCart, CartItems
  <2>2. Amounts \in [GetCart -> Int] /\ Amounts[item] = row.quantity
    BY <2>1 DEF Types, CartItem
  <2>3. SumOver(Amounts, {item}) = Amounts[item]
    <3> HIDE DEF Amounts, item
    <3>1. item \in GetCart
      BY <2>1
    <3> QED
      BY <2>2, <3>1, SumSingle
  <2>4. Shown = row.quantity
    <3> HIDE DEF Amounts, item
    <3> QED
      BY <1>5, <2>1, <2>2, <2>3, Zenon
  <2> QED
    BY <1>7, <2>4 DEF Held
<1> QED
  BY <1>6, <1>7

\* Every row of the cart can be read back (mapToDomain), whatever requests
\* overlap.
THEOREM TypeCorrect == Spec => []TypeOK
<1>1. IInv => TypeOK
  BY DEF IInv, Types
<1> QED
  BY <1>1, IInvHolds, PTL

\* A cart never shows more than was added to its row with success
\* (AddCartUseCase, RemoveCartUseCase, CartService), however many requests
\* overlap.
THEOREM CartHoldsWhatWasAdded == Spec => []HoldsWhatWasAdded
<1>1. IInv => HoldsWhatWasAdded
  <2> SUFFICES ASSUME IInv, NEW item \in GetCart
               PROVE  item.quantity <=
                        MapThenSumSet(LAMBDA a : Quantity[a],
                                      {a \in Done(Additions) : read[a].id = item.cartItemId})
    BY DEF HoldsWhatWasAdded
  <2>1. row # NoRow /\ item = [cartItemId |-> row.id, quantity |-> row.quantity]
    BY DEF GetCart, CartItems
  <2>2. row.quantity <= AddedTo[row.id] /\ row.id \in Nat
    BY <2>1 DEF IInv, Covered, Types, CartItem
  <2>3. item.quantity = row.quantity /\ item.cartItemId = row.id
    BY <2>1
  <2>4. AddedTo[row.id] = SumOver(Quantity, DoneOn(item.cartItemId))
    BY <2>2, <2>3 DEF AddedTo
  <2>5. item.quantity <= SumOver(Quantity, DoneOn(item.cartItemId))
    BY <2>2, <2>3, <2>4
  <2> QED
    BY <2>5 DEF SumOver, DoneOn
<1> QED
  BY <1>1, IInvHolds, PTL

\* Requests that do not overlap, any number of them, leave exactly what was
\* added and not removed again.
THEOREM CartCountsWhenSequential == Spec => []CountsWhenSequential
<1>1. IInv => CountsWhenSequential
  <2> SUFFICES ASSUME IInv, stale = {}
               PROVE  Shown = Added - Cardinality(Done(Removals))
    BY DEF CountsWhenSequential
  <2>1. Added = SumOver(Quantity, Done(Additions))
    BY DEF Added, SumOver
  <2>2. Shown = Held
    BY ShownIsHeld DEF IInv
  <2> QED
    BY <2>1, <2>2 DEF IInv, Exact
<1> QED
  BY <1>1, IInvHolds, PTL

\* Some addition of a cart without overlaps was checked against a stock that
\* holds the whole cart (AddCartUseCase).
THEOREM CartStaysWithinStock == Spec => []WithinStock
<1>1. IInv => WithinStock
  <2>1. IInv => Shown = Held
    BY ShownIsHeld DEF IInv
  <2> QED
    BY <2>1 DEF IInv, Bounded, WithinStock
<1> QED
  BY <1>1, IInvHolds, PTL
-----------------------------------------------------------------------------
(***************************************************************************)
(* The storefront.                                                         *)
(***************************************************************************)
\* A ZINCRBY that was applied, and a pipeline being executed
Sale == {a \in [order : Orders, item : Nat \ {0}, delivery : Nat, day : Days, at : Nat] :
           a.item <= Len(Items[a.order])}
Pipe == {p \in [order : Orders, delivery : Nat, sent : 0..LastTick, next : Nat \ {0}] :
           p.next <= Len(Items[p.order]) + 1}

\* The types of the state
ShopTypes ==
  /\ now \in 0..LastTick
  /\ stock \in [Options -> Nat] /\ \A p \in Options : stock[p] \in Levels[p]
  /\ changes \in 0..MaxChanges
  /\ held \in [0..LastTick -> SUBSET [Options -> Nat]]
  /\ stock \in held[now] /\ \A t \in now + 1..LastTick : held[t] = {}
  /\ ranking \in [Days -> [Options -> Nat]]
  /\ expiry \in [Days -> now + 1..Never]
  /\ pipes \subseteq Pipe
  /\ cutDays \subseteq Days
  /\ deliveries \in [Orders -> 0..MaxDeliveries]
  /\ applied \subseteq Sale /\ IsFiniteSet(applied) /\ \A a \in applied : a.at <= now

\* A pipeline lives two ticks at most; it is the only one of its delivery, and
\* has applied no item after its next one.
PipesAdvance ==
  /\ \A p \in pipes :
       /\ p.sent \in {now - 1, now}
       /\ p.delivery <= deliveries[p.order]
       /\ \A q \in pipes : <<q.order, q.delivery>> = <<p.order, p.delivery>> => q = p
       /\ \A a \in applied :
            <<a.order, a.delivery>> = <<p.order, p.delivery>> => a.item < p.next
  /\ \A a \in applied : a.delivery <= deliveries[a.order]

\* Until a day has been kept for its time, its key has every sale of the day.
DaysAreSums ==
  \A d \in Days :
    /\ Day(expiry[d]) >= d + KeepDays
    /\ \A p \in Options :
         \/ ranking[d][p] = UnitsOf(p, OnDay(d))
         \/ ranking[d][p] = 0 /\ Day(now) >= d + KeepDays

\* The answer to r is one that a handler may have given in the tick t.
Fits(answer, r, t) ==
  /\ answer.of = r
  /\ r.handler = "top" => RanksSales(answer, r.query, t)
  /\ r.handler = "detail" => ShowsStocks(answer, t)

\* A response waits to be cached for less than a tick.
VisitsFit ==
  /\ visit = [c \in Clients |-> visit[c]]
  /\ \A c \in Clients :
       \/ visit[c] = NoVisit
       \/ visit[c].pc = "handle" /\ visit[c].request \in RequestsOf[c]
       \/ /\ visit[c].pc = "set" /\ visit[c].request \in RequestsOf[c]
          /\ Fits(visit[c].response, visit[c].request, now)

\* What is cached was an answer when the time to live was counted from.
CacheFits ==
  \A k \in DOMAIN cache :
    /\ cache[k].until > now
    /\ \E r \in ShopRequests, c \in Clients, t \in 0..now :
         /\ k = CacheKey(r)
         /\ cache[k].until = t + Ttl[c]
         /\ Fits(cache[k].response, r, t)

\* The counts rest on the pipelines, which end before their day does; the
\* answers rest on the counts; and answers that are cached rest on what was
\* answered.
ShopInv ==
  ShopTypes /\ PipesAdvance /\ DaysAreSums /\ KeysExpire /\ VisitsFit /\ CacheFits
-----------------------------------------------------------------------------
\* A day has TicksPerDay ticks, whatever the length of a tick.
LEMMA DayBounds ==
  ASSUME NEW t \in Nat
  PROVE  /\ Day(t) \in Nat
         /\ Day(t) * TicksPerDay <= t /\ t < (Day(t) + 1) * TicksPerDay
<1>1. TicksPerDay \in Nat /\ TicksPerDay > 0
  BY StorefrontAssumption
<1> QED
  BY <1>1 DEF Day

\* Days pass as ticks do.
LEMMA DayMonotone ==
  ASSUME NEW s \in Nat, NEW t \in Nat, s <= t
  PROVE  Day(s) <= Day(t)
<1>1. TicksPerDay \in Nat /\ TicksPerDay > 0
  BY StorefrontAssumption
<1> QED
  BY <1>1 DEF Day

\* Some days' ticks later it is some days later.
LEMMA DayShift ==
  ASSUME NEW t \in Nat, NEW k \in Nat
  PROVE  Day(t + k * TicksPerDay) = Day(t) + k
<1>1. TicksPerDay \in Nat /\ TicksPerDay > 0
  BY StorefrontAssumption
<1> QED
  BY <1>1 DEF Day
-----------------------------------------------------------------------------
(***************************************************************************)
(* Units sold, as sums over what was applied.                              *)
(***************************************************************************)
\* The option and the units of a ZINCRBY, and those of an option
OptionOf(a) == Items[a.order][a.item].option
UnitsIn == [a \in Sale |-> Items[a.order][a.item].quantity]
OfOption(p, S) == {a \in S : OptionOf(a) = p}

\* An item of an order is an option and a positive number of units.
LEMMA SaleIs ==
  /\ \A a \in Sale : OptionOf(a) \in Options /\ UnitsIn[a] \in Nat /\ UnitsIn[a] > 0
  /\ UnitsIn \in [Sale -> Nat] /\ UnitsIn \in [Sale -> Int]
<1>1. ASSUME NEW a \in Sale
      PROVE  /\ Items[a.order][a.item].option \in Options
             /\ Items[a.order][a.item].quantity \in Nat \ {0}
  <2>1. Items[a.order] \in Seq([option : Options, quantity : Nat \ {0}])
    BY StorefrontAssumption DEF Sale
  <2>2. a.item \in 1..Len(Items[a.order])
    BY <2>1 DEF Sale
  <2> DEFINE items == Items[a.order]
             Item == [option : Options, quantity : Nat \ {0}]
  <2>3. items[a.item] \in Item
    <3> HIDE DEF items, Item
    <3>1. items \in Seq(Item) /\ a.item \in 1..Len(items)
      BY <2>1, <2>2 DEF items, Item
    <3> QED
      BY <3>1
  <2> QED
    BY <2>3
<1> QED
  BY <1>1 DEF OptionOf, UnitsIn

\* The sums the properties speak of are those the lemmas are about.
LEMMA UnitsAreSums ==
  ASSUME NEW p, NEW S \in SUBSET Sale
  PROVE  UnitsOf(p, S) = SumOver(UnitsIn, OfOption(p, S))
<1> DEFINE R == OfOption(p, S)
           f == UnitsIn
           B(g) == [s \in SUBSET R |-> IF s = {} THEN 0
                     ELSE Items[(CHOOSE x \in s : TRUE).order][(CHOOSE x \in s : TRUE).item].quantity
                          + g[s \ {CHOOSE x \in s : TRUE}]]
           C(g) == [s \in SUBSET R |-> IF s = {} THEN 0
                     ELSE f[CHOOSE x \in s : TRUE] + g[s \ {CHOOSE x \in s : TRUE}]]
<1>1. \A x \in R : f[x] = Items[x.order][x.item].quantity
  BY DEF UnitsIn, OfOption
<1>2. \A g : B(g) = C(g)
  <2> SUFFICES ASSUME NEW g PROVE B(g) = C(g)
    OBVIOUS
  <2>1. \A s \in SUBSET R : s # {} => (CHOOSE x \in s : TRUE) \in R
    OBVIOUS
  <2> HIDE DEF f, R
  <2> QED
    BY <1>1, <2>1
<1>3. UnitsOf(p, S) = (CHOOSE g : g = B(g))[R]
  BY Zenon DEF UnitsOf, MapThenSumSet, MapThenFoldSet, OfOption, OptionOf
<1>4. SumOver(f, R) = (CHOOSE g : g = C(g))[R]
  <2> HIDE DEF f, R
  <2> QED
    BY Zenon DEF SumOver, MapThenSumSet, MapThenFoldSet
<1>5. UnitsOf(p, S) = SumOver(f, R)
  <2> HIDE DEF B, C, f, R
  <2>1. (CHOOSE g : g = B(g)) = (CHOOSE g : g = C(g))
    BY <1>2, Zenon
  <2> QED
    BY <1>3, <1>4, <2>1, Zenon
<1> QED
  BY <1>5

\* Units are counts, and there are no fewer in more ZINCRBYs.
LEMMA UnitsGrow ==
  ASSUME NEW p, NEW S \in SUBSET Sale, IsFiniteSet(S), NEW R \in SUBSET S
  PROVE  UnitsOf(p, R) \in Nat /\ UnitsOf(p, S) \in Nat /\ UnitsOf(p, R) <= UnitsOf(p, S)
<1>1. OfOption(p, R) \in SUBSET OfOption(p, S) /\ OfOption(p, S) \in SUBSET Sale
  BY DEF OfOption
<1>2. OfOption(p, S) \in SUBSET S
  BY DEF OfOption
<1>3. IsFiniteSet(OfOption(p, S))
  BY <1>2, FS_Subset
<1>4. UnitsOf(p, R) = SumOver(UnitsIn, OfOption(p, R))
      /\ UnitsOf(p, S) = SumOver(UnitsIn, OfOption(p, S))
  BY UnitsAreSums
<1> QED
  BY <1>1, <1>3, <1>4, SaleIs, SumMonotone

\* Without ZINCRBYs of the option there are no units of it.
LEMMA UnitsNone ==
  ASSUME NEW p, NEW S \in SUBSET Sale, \A a \in S : OptionOf(a) # p
  PROVE  UnitsOf(p, S) = 0
<1>1. OfOption(p, S) = {}
  BY DEF OfOption
<1>2. UnitsOf(p, S) = SumOver(UnitsIn, OfOption(p, S))
  BY UnitsAreSums
<1>3. UnitsOf(p, S) = SumOver(UnitsIn, {})
  BY <1>1, <1>2, Zenon
<1> QED
  BY <1>3, SumEmpty

\* Units of different ZINCRBYs add up.
LEMMA UnitsUnion ==
  ASSUME NEW p, NEW S \in SUBSET Sale, IsFiniteSet(S),
         NEW R \in SUBSET Sale, IsFiniteSet(R), S \cap R = {}
  PROVE  UnitsOf(p, S \cup R) = UnitsOf(p, S) + UnitsOf(p, R)
<1>1. /\ OfOption(p, S) \in SUBSET Sale /\ OfOption(p, R) \in SUBSET Sale
      /\ OfOption(p, S) \in SUBSET S /\ OfOption(p, R) \in SUBSET R
      /\ OfOption(p, S) \cap OfOption(p, R) = {}
      /\ OfOption(p, S \cup R) = OfOption(p, S) \cup OfOption(p, R)
  BY DEF OfOption
<1>2. IsFiniteSet(OfOption(p, S)) /\ IsFiniteSet(OfOption(p, R))
  BY <1>1, FS_Subset
<1>3. SumOver(UnitsIn, OfOption(p, S) \cup OfOption(p, R))
      = SumOver(UnitsIn, OfOption(p, S)) + SumOver(UnitsIn, OfOption(p, R))
  BY <1>1, <1>2, SaleIs, SumUnion
<1>4. S \cup R \in SUBSET Sale
  OBVIOUS
<1>5. UnitsOf(p, S \cup R) = SumOver(UnitsIn, OfOption(p, S \cup R))
  BY <1>4, UnitsAreSums
<1>6. UnitsOf(p, S \cup R) = SumOver(UnitsIn, OfOption(p, S) \cup OfOption(p, R))
  BY <1>1, <1>5, Zenon
<1> QED
  BY <1>3, <1>6, UnitsAreSums

\* One ZINCRBY more adds its units to those of its option.
LEMMA UnitsAdd ==
  ASSUME NEW p, NEW S \in SUBSET Sale, IsFiniteSet(S), NEW x \in Sale, x \notin S
  PROVE  UnitsOf(p, S \cup {x}) = IF OptionOf(x) = p THEN UnitsOf(p, S) + UnitsIn[x]
                                                     ELSE UnitsOf(p, S)
<1>1. IsFiniteSet({x}) /\ {x} \in SUBSET Sale /\ S \cap {x} = {}
  BY FS_Singleton
<1>2. UnitsOf(p, S \cup {x}) = UnitsOf(p, S) + UnitsOf(p, {x})
  BY <1>1, UnitsUnion
<1>3. UnitsOf(p, S) \in Nat
  BY UnitsGrow
<1>4. CASE OptionOf(x) = p
  <2>1. OfOption(p, {x}) = {x}
    BY <1>4 DEF OfOption
  <2>2. UnitsOf(p, {x}) = SumOver(UnitsIn, OfOption(p, {x}))
    BY <1>1, UnitsAreSums
  <2>3. UnitsOf(p, {x}) = SumOver(UnitsIn, {x})
    BY <2>1, <2>2, Zenon
  <2>4. SumOver(UnitsIn, {x}) = UnitsIn[x]
    BY SaleIs, SumSingle
  <2> QED
    BY <1>2, <1>4, <2>3, <2>4
<1>5. CASE OptionOf(x) # p
  <2>1. UnitsOf(p, {x}) = 0
    BY <1>1, <1>5, UnitsNone
  <2> QED
    BY <1>2, <1>3, <1>5, <2>1
<1> QED
  BY <1>4, <1>5
-----------------------------------------------------------------------------
(***************************************************************************)
(* What a ranking over several days adds up.                               *)
(***************************************************************************)
\* Units of the option in each of the days
UnitsByDay(p, D) == [d \in D |-> UnitsOf(p, OnDay(d))]

\* ZINCRBYs of any of the days
OnDays(D) == {a \in applied : a.day \in D}

\* The sales of several days are those of each of them.
LEMMA DaysAddUp ==
  ASSUME applied \subseteq Sale, IsFiniteSet(applied), NEW p, NEW D, IsFiniteSet(D)
  PROVE  SumOver(UnitsByDay(p, D), D) = UnitsOf(p, OnDays(D))
<1> DEFINE g == UnitsByDay(p, D)
           Bad == {T \in SUBSET D : SumOver(g, T) # UnitsOf(p, OnDays(T))}
<1>1. \A S \in SUBSET applied : S \in SUBSET Sale /\ IsFiniteSet(S) /\ UnitsOf(p, S) \in Nat
  BY FS_Subset, UnitsGrow
<1>2. g \in [D -> Int] /\ \A d \in D : g[d] = UnitsOf(p, OnDay(d))
  <2>1. \A d \in D : UnitsOf(p, OnDay(d)) \in Nat
    BY <1>1 DEF OnDay
  <2> QED
    BY <2>1 DEF UnitsByDay
<1> HIDE DEF g
<1>3. ASSUME Bad # {} PROVE FALSE
  <2>1. \A s \in Bad : IsFiniteSet(s)
    BY FS_Subset
  <2>2. PICK s \in Bad : \A t \in Bad : ~ (t \subseteq s /\ t # s)
    <3> HIDE DEF Bad
    <3> QED
      BY <1>3, <2>1, SmallestSet
  <2>3. IsFiniteSet(s) /\ s \in SUBSET D
    BY <2>1
  <2>4. s # {}
    <3> SUFFICES ASSUME s = {} PROVE FALSE
      OBVIOUS
    <3>1. OnDays({}) = {}
      BY DEF OnDays
    <3>2. UnitsOf(p, {}) = 0
      BY UnitsNone
    <3>3. UnitsOf(p, OnDays({})) = 0
      BY <3>1, <3>2, Zenon
    <3>4. SumOver(g, {}) = 0
      BY SumEmpty
    <3>5. SumOver(g, {}) # UnitsOf(p, OnDays({}))
      BY <2>2
    <3> QED
      BY <3>3, <3>4, <3>5
  <2>5. PICK d \in s : TRUE
    BY <2>4
  <2> DEFINE r == s \ {d}
  <2>6. SumOver(g, s) = g[d] + SumOver(g, r)
    BY <1>2, <2>3, <2>5, SumRemove
  <2>7. SumOver(g, r) = UnitsOf(p, OnDays(r))
    BY <2>2, <2>3, <2>5
  <2>8. /\ OnDays(s) = OnDay(d) \cup OnDays(r) /\ OnDay(d) \cap OnDays(r) = {}
        /\ OnDay(d) \in SUBSET applied /\ OnDays(r) \in SUBSET applied
    BY <2>5 DEF OnDays, OnDay
  <2>9. UnitsOf(p, OnDay(d) \cup OnDays(r)) = UnitsOf(p, OnDay(d)) + UnitsOf(p, OnDays(r))
    BY <1>1, <2>8, UnitsUnion
  <2>10. UnitsOf(p, OnDays(s)) = UnitsOf(p, OnDay(d) \cup OnDays(r))
    BY <2>8, Zenon
  <2>11. g[d] = UnitsOf(p, OnDay(d))
    BY <1>2, <2>3, <2>5
  <2> HIDE DEF r
  <2>12. SumOver(g, s) = UnitsOf(p, OnDays(s))
    BY <2>6, <2>7, <2>9, <2>10, <2>11
  <2> QED
    BY <2>2, <2>12
<1>4. D \notin Bad
  BY <1>3
<1> QED
  BY <1>4 DEF g

\* The ranking's sum is one that the lemmas are about.
LEMMA AggregateIsSum ==
  ASSUME NEW p \in Options, NEW days, NEW f, f = [d \in DaysBack(days) |-> ranking[d][p]]
  PROVE  Aggregate(p, days) = SumOver(f, {d \in DaysBack(days) : f[d] > 0})
<1> DEFINE R == {d \in DaysBack(days) : p \in DOMAIN FindRankByDate(d)}
           B(g) == [s \in SUBSET R |-> IF s = {} THEN 0
                     ELSE FindRankByDate(CHOOSE x \in s : TRUE)[p]
                          + g[s \ {CHOOSE x \in s : TRUE}]]
           C(g) == [s \in SUBSET R |-> IF s = {} THEN 0
                     ELSE f[CHOOSE x \in s : TRUE] + g[s \ {CHOOSE x \in s : TRUE}]]
<1>1. R = {d \in DaysBack(days) : f[d] > 0} /\ \A d \in R : f[d] = FindRankByDate(d)[p]
  BY DEF FindRankByDate
<1>2. \A g : B(g) = C(g)
  <2> SUFFICES ASSUME NEW g PROVE B(g) = C(g)
    OBVIOUS
  <2>1. \A s \in SUBSET R : s # {} => (CHOOSE x \in s : TRUE) \in R
    OBVIOUS
  <2> HIDE DEF R
  <2> QED
    BY <1>1, <2>1
<1>3. Aggregate(p, days) = (CHOOSE g : g = B(g))[R]
  BY Zenon DEF Aggregate, MapThenSumSet, MapThenFoldSet
<1>4. SumOver(f, R) = (CHOOSE g : g = C(g))[R]
  <2> HIDE DEF R
  <2> QED
    BY Zenon DEF SumOver, MapThenSumSet, MapThenFoldSet
<1>5. Aggregate(p, days) = SumOver(f, R)
  <2> HIDE DEF B, C, R
  <2>1. (CHOOSE g : g = B(g)) = (CHOOSE g : g = C(g))
    BY <1>2, Zenon
  <2> QED
    BY <1>3, <1>4, <2>1, Zenon
<1> QED
  BY <1>1, <1>5, Zenon

\* The days of a range are finitely many, and none of them has been kept for
\* its time.
LEMMA DaysBackAre ==
  ASSUME now \in 0..LastTick, NEW days \in Nat, days <= MaxRange
  PROVE  /\ IsFiniteSet(DaysBack(days)) /\ DaysBack(days) \subseteq Days
         /\ \A d \in DaysBack(days) : Day(now) < d + KeepDays
         /\ applied \subseteq Sale => InRange(days, now) = OnDays(DaysBack(days))
<1>1. Day(now) \in Nat /\ Day(LastTick) \in Nat
  BY StorefrontAssumption, DayBounds
<1>2. IsFiniteSet(Days)
  BY <1>1, FS_Interval DEF Days
<1>3. DaysBack(days) \subseteq Days
  BY DEF DaysBack
<1>4. IsFiniteSet(DaysBack(days))
  BY <1>2, <1>3, FS_Subset
<1>5. \A d \in DaysBack(days) : Day(now) < d + KeepDays
  BY <1>1, StorefrontAssumption DEF DaysBack, Days
<1>6. ASSUME applied \subseteq Sale
      PROVE  InRange(days, now) = OnDays(DaysBack(days))
  <2>1. \A a \in applied : a.day \in Days
    BY <1>6 DEF Sale
  <2> QED
    BY <2>1 DEF InRange, OnDays, DaysBack
<1> QED
  BY <1>3, <1>4, <1>5, <1>6

\* What a ranking counts of an option is all that was sold of it in the range.
LEMMA AggregateIs ==
  ASSUME ShopTypes, DaysAreSums, NEW p \in Options, NEW days \in Nat, days <= MaxRange
  PROVE  Aggregate(p, days) = UnitsOf(p, InRange(days, now))
<1> DEFINE D == DaysBack(days)
           f == [d \in D |-> ranking[d][p]]
           g == UnitsByDay(p, D)
<1>1. /\ applied \subseteq Sale /\ IsFiniteSet(applied) /\ now \in 0..LastTick
      /\ ranking \in [Days -> [Options -> Nat]]
  BY DEF ShopTypes
<1>2. /\ IsFiniteSet(D) /\ D \subseteq Days /\ InRange(days, now) = OnDays(D)
      /\ \A d \in D : Day(now) < d + KeepDays
  BY <1>1, DaysBackAre
<1>3. Aggregate(p, days) = SumOver(f, {d \in D : f[d] > 0})
  BY AggregateIsSum
<1>4. \A d \in D : f[d] = g[d] /\ f[d] \in Nat
  <2> SUFFICES ASSUME NEW d \in D PROVE f[d] = g[d] /\ f[d] \in Nat
    OBVIOUS
  <2>1. d \in Days /\ Day(now) < d + KeepDays /\ Day(now) \in Nat /\ d + KeepDays \in Int
    <3>1. now \in Nat /\ LastTick \in Nat /\ KeepDays \in Nat
      BY <1>1, StorefrontAssumption
    <3>2. Day(now) \in Nat /\ Day(LastTick) \in Nat
      BY <3>1, DayBounds
    <3>3. d \in Days /\ Day(now) < d + KeepDays
      BY <1>2
    <3> QED
      BY <3>1, <3>2, <3>3 DEF Days
  <2>2. ranking[d][p] = UnitsOf(p, OnDay(d))
    <3>1. ~ (Day(now) >= d + KeepDays)
      BY <2>1
    <3> QED
      BY <2>1, <3>1 DEF DaysAreSums
  <2>3. ranking[d][p] \in Nat
    BY <1>1, <2>1
  <2> QED
    BY <2>2, <2>3 DEF UnitsByDay
<1> HIDE DEF D, f, g
<1>5. f \in [D -> Int]
  BY <1>4 DEF f
<1>6. SumOver(f, D) = SumOver(f, {d \in D : f[d] > 0})
  <2> DEFINE S == {d \in D : f[d] > 0}
  <2>1. S \in SUBSET D /\ \A d \in D \ S : f[d] = 0
    BY <1>4
  <2> HIDE DEF S
  <2>2. SumOver(f, D) = SumOver(f, S)
    BY <1>2, <1>5, <2>1, SumSupport
  <2> QED
    BY <2>2 DEF S
<1>7. SumOver(f, D) = SumOver(g, D)
  BY <1>2, <1>4, SumSame
<1>8. SumOver(g, D) = UnitsOf(p, OnDays(D))
  BY <1>1, <1>2, DaysAddUp DEF g
<1> QED
  BY <1>2, <1>3, <1>6, <1>7, <1>8, Zenon
-----------------------------------------------------------------------------
(***************************************************************************)
(* What a handler returns fits the tick in which it read.                  *)
(***************************************************************************)
\* What was sold before a tick is part of what was sold with it.
LEMMA SoldAre ==
  ASSUME applied \subseteq Sale, IsFiniteSet(applied), NEW p, NEW days, NEW t
  PROVE  /\ SoldBefore(p, days, t) \in Nat /\ SoldUntil(p, days, t) \in Nat
         /\ SoldUntil(p, days, t) <= UnitsOf(p, InRange(days, t))
         /\ SoldBefore(p, days, t) <= UnitsOf(p, InRange(days, t))
         /\ UnitsOf(p, InRange(days, t)) \in Nat
<1>1. InRange(days, t) \in SUBSET applied
  BY DEF InRange
<1>2. IsFiniteSet(InRange(days, t)) /\ InRange(days, t) \in SUBSET Sale
  BY <1>1, FS_Subset
<1>3. \A R \in SUBSET InRange(days, t) :
        /\ UnitsOf(p, R) \in Nat /\ UnitsOf(p, InRange(days, t)) \in Nat
        /\ UnitsOf(p, R) <= UnitsOf(p, InRange(days, t))
  BY <1>2, UnitsGrow
<1> QED
  BY <1>3 DEF SoldBefore, SoldUntil

\* Nothing is applied later than now.
LEMMA AllSoldIsSoldNow ==
  ASSUME \A a \in applied : a.at <= now, NEW p, NEW days
  PROVE  SoldUntil(p, days, now) = UnitsOf(p, InRange(days, now))
<1>1. {a \in InRange(days, now) : a.at <= now} = InRange(days, now)
  BY DEF InRange
<1> QED
  BY <1>1, Zenon DEF SoldUntil

\* Options of which something was sold are finitely many.
LEMMA SoldOptionsAreFinite ==
  ASSUME applied \subseteq Sale, IsFiniteSet(applied),
         NEW S, \A p \in S : \E a \in applied : OptionOf(a) = p
  PROVE  IsFiniteSet(S)
<1> DEFINE T == {OptionOf(a) : a \in applied}
           f == [a \in applied |-> OptionOf(a)]
<1>1. f \in Surjection(applied, T)
  BY DEF Surjection
<1>2. IsFiniteSet(T)
  <2> HIDE DEF f, T
  <2> QED
    BY <1>1, FS_Surjection
<1>3. S \in SUBSET T
  OBVIOUS
<1> QED
  BY <1>2, <1>3, FS_Subset

\* The smaller of two numbers
LEMMA MinOfTwo ==
  ASSUME NEW m \in Nat, NEW n \in Nat
  PROVE  Min({m, n}) \in {m, n} /\ Min({m, n}) <= m /\ Min({m, n}) <= n
<1>1. \E x \in {m, n} : \A y \in {m, n} : x =< y
  OBVIOUS
<1> QED
  BY <1>1 DEF Min

\* A ranking has the options that sold most, and every option sold if it has
\* fewer than were asked for.
LEMMA TopSalesAre ==
  ASSUME ShopTypes, DaysAreSums, NEW q \in [count : Nat \ {0}, days : Nat \ {0}],
         q.days <= MaxRange, NEW s \in TopSales(q)
  PROVE  LET sold(p) == UnitsOf(p, InRange(q.days, now))
         IN /\ DOMAIN s \subseteq Options
            /\ \A p \in DOMAIN s : s[p] = sold(p)
            /\ \A p \in Options \ DOMAIN s :
                 /\ \A other \in DOMAIN s : sold(other) >= sold(p)
                 /\ Cardinality(DOMAIN s) < q.count => sold(p) = 0
<1> DEFINE sold(p) == UnitsOf(p, InRange(q.days, now))
           counted == [p \in Options |-> Aggregate(p, q.days)]
           ranked == {p \in Options : counted[p] > 0}
           size == Min({q.count, Cardinality(ranked)})
<1>1. applied \subseteq Sale /\ IsFiniteSet(applied)
  BY DEF ShopTypes
<1>2. \A p \in Options : counted[p] = sold(p) /\ sold(p) \in Nat
  BY <1>1, AggregateIs, SoldAre
<1>3. IsFiniteSet(ranked)
  <2>1. ASSUME NEW p \in ranked
        PROVE  \E a \in applied : OptionOf(a) = p
    <3>1. UnitsOf(p, InRange(q.days, now)) # 0
      BY <1>2
    <3>2. InRange(q.days, now) \in SUBSET Sale /\ InRange(q.days, now) \in SUBSET applied
      BY <1>1 DEF InRange
    <3>3. \E a \in InRange(q.days, now) : OptionOf(a) = p
      BY <3>1, <3>2, UnitsNone
    <3> QED
      BY <3>2, <3>3
  <2> HIDE DEF ranked
  <2> QED
    BY <1>1, <2>1, SoldOptionsAreFinite
<1>4. PICK S \in kSubset(size, ranked) :
        /\ \A p \in S, other \in ranked \ S : counted[p] >= counted[other]
        /\ s = [p \in S |-> counted[p]]
  BY DEF TopSales
<1>5. S \subseteq ranked /\ Cardinality(S) = size /\ DOMAIN s = S
  BY <1>4 DEF kSubset
<1>6. \A p \in S : s[p] = counted[p] /\ p \in Options /\ counted[p] > 0
  BY <1>4, <1>5
<1>7. Cardinality(S) < q.count => S = ranked
  <2>1. Cardinality(ranked) \in Nat /\ q.count \in Nat
    BY <1>3, FS_CardinalityType
  <2>2. size \in {q.count, Cardinality(ranked)}
    <3> HIDE DEF ranked
    <3> QED
      BY <2>1, MinOfTwo
  <2> HIDE DEF ranked, size
  <2> QED
    BY <1>3, <1>5, <2>1, <2>2, FS_Subset
<1>8. ASSUME NEW p \in Options \ S
      PROVE  /\ \A other \in S : sold(other) >= sold(p)
             /\ Cardinality(S) < q.count => sold(p) = 0
  <2>1. sold(p) \in Nat /\ counted[p] = sold(p) /\ \A other \in S : counted[other] = sold(other)
    BY <1>2, <1>6
  <2>2. CASE p \in ranked
    BY <1>4, <1>7, <2>1, <2>2
  <2>3. CASE p \notin ranked
    <3>1. counted[p] = 0
      BY <2>1, <2>3
    <3> HIDE DEF sold, counted, ranked, size
    <3>2. \A other \in S : sold(other) > 0 /\ sold(other) \in Nat
      BY <1>2, <1>6, <2>1
    <3> QED
      BY <2>1, <3>1, <3>2
  <2> QED
    BY <2>2, <2>3
<1> QED
  BY <1>2, <1>5, <1>6, <1>8

\* What the handler of a request returns is an answer of the present tick.
LEMMA HandlersFit ==
  ASSUME ShopTypes, DaysAreSums, NEW r \in Request, ~ Refused(r), NEW answer \in Responses(r)
  PROVE  Fits(answer, r, now)
<1>1. CASE r.handler = "top"
  <2>1. /\ r.query \in [count : Nat \ {0}, days : Nat \ {0}]
        /\ r.query.days <= MaxRange
    <3>1. r.query.count \in Nat /\ r.query.days \in Nat \ {0}
          /\ r.query \in [count : Nat \ {0}, days : Nat \ {0}]
      BY <1>1 DEF Request
    <3>2. MaxRange \in Nat
      BY StorefrontAssumption
    <3> QED
      BY <1>1, <3>1, <3>2 DEF Refused
  <2>2. answer \in TopProducts(r)
    BY <1>1 DEF Responses
  <2>3. PICK s \in TopSales(r.query) : answer.of = r /\ answer.sales = s
    BY <2>2 DEF TopProducts
  <2> DEFINE sold(p) == UnitsOf(p, InRange(r.query.days, now))
  <2>4. /\ DOMAIN s \subseteq Options
        /\ \A p \in DOMAIN s : s[p] = sold(p)
        /\ \A p \in Options \ DOMAIN s :
             /\ \A other \in DOMAIN s : sold(other) >= sold(p)
             /\ Cardinality(DOMAIN s) < r.query.count => sold(p) = 0
    BY <2>1, TopSalesAre
  <2>5. \A p : /\ SoldBefore(p, r.query.days, now) \in Nat
               /\ SoldBefore(p, r.query.days, now) <= sold(p)
               /\ SoldUntil(p, r.query.days, now) = sold(p)
               /\ sold(p) \in Nat
    BY SoldAre, AllSoldIsSoldNow DEF ShopTypes
  <2> HIDE DEF sold
  <2>6. RanksSales(answer, r.query, now)
    <3>1. \A p \in DOMAIN s :
            s[p] \in SoldBefore(p, r.query.days, now)..SoldUntil(p, r.query.days, now)
      BY <2>4, <2>5
    <3>2. \A p \in Options \ DOMAIN s :
            /\ \A other \in DOMAIN s : s[other] >= SoldBefore(p, r.query.days, now)
            /\ Cardinality(DOMAIN s) < r.query.count => SoldBefore(p, r.query.days, now) = 0
      BY <2>4, <2>5
    <3> QED
      BY <2>3, <3>1, <3>2 DEF RanksSales
  <2> QED
    BY <1>1, <2>3, <2>6 DEF Fits
<1>2. CASE r.handler = "list"
  BY <1>2 DEF Responses, ProductsOnSale, Fits
<1>3. CASE r.handler = "detail"
  <2>1. answer = ProductDetail(r)
    BY <1>3 DEF Responses
  <2>2. ShowsStocks(answer, now)
    <3>1. stock \in held[now]
      BY DEF ShopTypes
    <3>2. answer.stock = [p \in ProductOptions(r.id) |-> stock[p]]
      BY <2>1 DEF ProductDetail
    <3> QED
      BY <3>1, <3>2 DEF ShowsStocks
  <2> QED
    BY <1>3, <2>1, <2>2 DEF Fits, ProductDetail
<1> QED
  BY <1>1, <1>2, <1>3 DEF Request

\* An answer of an earlier tick, or of this one, fits for ever.
FitsStay ==
  \A answer, r, t : t \in 0..now /\ Fits(answer, r, t) => Fits(answer, r, t)'

\* Stocks that there were are not forgotten.
LEMMA FitsStayWhenHeld ==
  ASSUME applied' = applied, \A t \in 0..now : held[t] \subseteq held'[t]
  PROVE  FitsStay
<1>1. \A p, days, t : /\ SoldBefore(p, days, t)' = SoldBefore(p, days, t)
                      /\ SoldUntil(p, days, t)' = SoldUntil(p, days, t)
  <2> SUFFICES ASSUME NEW p, NEW days, NEW t
               PROVE  /\ SoldBefore(p, days, t)' = SoldBefore(p, days, t)
                      /\ SoldUntil(p, days, t)' = SoldUntil(p, days, t)
    OBVIOUS
  <2>1. /\ {a \in InRange(days, t) : a.at < t}' = {a \in InRange(days, t) : a.at < t}
        /\ {a \in InRange(days, t) : a.at <= t}' = {a \in InRange(days, t) : a.at <= t}
    BY DEF InRange
  <2> QED
    BY <2>1, Zenon DEF SoldBefore, SoldUntil
<1>2. \A answer, q, t : RanksSales(answer, q, t) => RanksSales(answer, q, t)'
  BY <1>1 DEF RanksSales
<1>3. \A answer : \A t \in 0..now : ShowsStocks(answer, t) => ShowsStocks(answer, t)'
  BY DEF ShowsStocks
<1> QED
  BY <1>2, <1>3 DEF FitsStay, Fits

\* A sale counts from the tick in which it is made.
LEMMA FitsStayWhenSold ==
  ASSUME applied \subseteq Sale, IsFiniteSet(applied), now \in Nat, NEW x \in Sale, x.at = now,
         applied' = applied \cup {x}, held' = held
  PROVE  FitsStay
<1>1. \A p, days : \A t \in 0..now : SoldBefore(p, days, t)' = SoldBefore(p, days, t)
  <2> SUFFICES ASSUME NEW p, NEW days, NEW t \in 0..now
               PROVE  SoldBefore(p, days, t)' = SoldBefore(p, days, t)
    OBVIOUS
  <2>1. {a \in InRange(days, t) : a.at < t}' = {a \in InRange(days, t) : a.at < t}
    BY DEF InRange
  <2> QED
    BY <2>1, Zenon DEF SoldBefore
<1>2. \A p, days : \A t \in 0..now :
        /\ SoldUntil(p, days, t) <= SoldUntil(p, days, t)'
        /\ SoldUntil(p, days, t) \in Nat /\ SoldUntil(p, days, t)' \in Nat
  <2> SUFFICES ASSUME NEW p, NEW days, NEW t \in 0..now
               PROVE  /\ SoldUntil(p, days, t) <= SoldUntil(p, days, t)'
                      /\ SoldUntil(p, days, t) \in Nat /\ SoldUntil(p, days, t)' \in Nat
    OBVIOUS
  <2> DEFINE R == {a \in applied : a.day > Day(t) - days /\ a.day <= Day(t) /\ a.at <= t}
             S == {a \in applied' : a.day > Day(t) - days /\ a.day <= Day(t) /\ a.at <= t}
  <2>1. IsFiniteSet(applied \cup {x}) /\ applied \cup {x} \subseteq Sale
    BY FS_AddElement
  <2>2. R \in SUBSET S /\ S \in SUBSET (applied \cup {x})
    OBVIOUS
  <2>3. IsFiniteSet(S) /\ S \in SUBSET Sale
    BY <2>1, <2>2, FS_Subset
  <2>4. SoldUntil(p, days, t) = UnitsOf(p, R)
    <3>1. {a \in InRange(days, t) : a.at <= t} = R
      BY DEF InRange
    <3> QED
      BY <3>1, Zenon DEF SoldUntil
  <2>5. SoldUntil(p, days, t)' = UnitsOf(p, S)
    <3>1. {a \in InRange(days, t) : a.at <= t}' = S
      BY DEF InRange
    <3> QED
      BY <3>1, Zenon DEF SoldUntil
  <2> HIDE DEF R, S
  <2> QED
    BY <2>2, <2>3, <2>4, <2>5, UnitsGrow
<1>3. \A p, days : \A t \in 0..now : SoldBefore(p, days, t) \in Nat
  BY SoldAre
<1>4. \A answer, q : \A t \in 0..now : RanksSales(answer, q, t) => RanksSales(answer, q, t)'
  <2> SUFFICES ASSUME NEW answer, NEW q, NEW t \in 0..now, RanksSales(answer, q, t)
               PROVE  RanksSales(answer, q, t)'
    OBVIOUS
  <2>1. \A p \in DOMAIN answer.sales :
          answer.sales[p] \in SoldBefore(p, q.days, t)'..SoldUntil(p, q.days, t)'
    <3> SUFFICES ASSUME NEW p \in DOMAIN answer.sales
                 PROVE  answer.sales[p] \in SoldBefore(p, q.days, t)'..SoldUntil(p, q.days, t)'
      OBVIOUS
    <3>1. answer.sales[p] \in SoldBefore(p, q.days, t)..SoldUntil(p, q.days, t)
      BY DEF RanksSales
    <3> QED
      BY <1>1, <1>2, <1>3, <3>1
  <2> QED
    BY <1>1, <2>1 DEF RanksSales
<1>5. \A answer, t : ShowsStocks(answer, t) => ShowsStocks(answer, t)'
  BY DEF ShowsStocks
<1> QED
  BY <1>4, <1>5 DEF FitsStay, Fits
-----------------------------------------------------------------------------
(***************************************************************************)
(* Steps that leave a part of the invariant alone.                         *)
(***************************************************************************)
\* What the assumptions say of the constants
LEMMA ShopConstants ==
  /\ LastTick \in Nat /\ MaxRange \in Nat /\ TicksPerDay \in Nat /\ MaxDeliveries \in Nat
  /\ KeepDays \in Nat /\ KeepDays > 1 /\ MaxChanges \in Nat
  /\ KeptFor \in Nat /\ KeptFor > 0 /\ Never = LastTick + KeptFor + 1
  /\ \A t \in Nat : Day(t) \in Nat /\ Day(t + KeptFor) = Day(t) + KeepDays
  /\ \A t \in 0..LastTick : Day(t) \in Days
  /\ Days \subseteq Nat
  /\ \A c \in Clients : Ttl[c] \in Nat /\ Ttl[c] > 0
  /\ \A c \in Clients : \A r \in RequestsOf[c] : r \in Request /\ r \in ShopRequests
<1>1. /\ LastTick \in Nat /\ MaxRange \in Nat /\ TicksPerDay \in Nat /\ MaxDeliveries \in Nat
      /\ KeepDays \in Nat /\ KeepDays > 1 /\ MaxChanges \in Nat /\ TicksPerDay > 0
      /\ \A c \in Clients : Ttl[c] \in Nat /\ Ttl[c] > 0
  BY StorefrontAssumption
<1>2. KeptFor \in Nat /\ KeptFor > 0
  BY <1>1 DEF KeptFor
<1>3. Never = LastTick + KeptFor + 1
  BY DEF Never, KeptFor
<1>4. \A t \in Nat : Day(t) \in Nat /\ Day(t + KeptFor) = Day(t) + KeepDays
  BY <1>1, DayBounds, DayShift DEF KeptFor
<1>5. \A t \in 0..LastTick : Day(t) \in Days
  <2> SUFFICES ASSUME NEW t \in 0..LastTick PROVE Day(t) \in Days
    OBVIOUS
  <2>1. t \in Nat /\ t <= LastTick
    BY <1>1
  <2>2. Day(t) <= Day(LastTick) /\ Day(t) \in Nat /\ Day(LastTick) \in Nat
    BY <1>1, <1>4, <2>1, DayMonotone
  <2> QED
    BY <2>2 DEF Days
<1>6. Days \subseteq Nat
  BY <1>1, <1>4 DEF Days
<1>7. \A c \in Clients : \A r \in RequestsOf[c] : r \in Request /\ r \in ShopRequests
  BY StorefrontAssumption DEF ShopRequests
<1> QED
  BY <1>1, <1>2, <1>3, <1>4, <1>5, <1>6, <1>7

\* The day changes at most once a tick.
LEMMA DayNext ==
  ASSUME NEW t \in Nat
  PROVE  Day(t) <= Day(t + 1) /\ Day(t + 1) <= Day(t) + 1
<1>1. Day(t + 1 * TicksPerDay) = Day(t) + 1
  BY DayShift
<1>2. TicksPerDay \in Nat /\ TicksPerDay > 0 /\ 1 * TicksPerDay = TicksPerDay
  BY StorefrontAssumption
<1>3. Day(t + TicksPerDay) = Day(t) + 1
  BY <1>1, <1>2
<1> QED
  BY <1>2, <1>3, DayMonotone

\* A key that does not expire is kept for longer than there are ticks.
LEMMA NeverIsLate ==
  ASSUME NEW d \in Days
  PROVE  Day(Never) >= d + KeepDays
<1>1. Never = LastTick + KeptFor + 1 /\ LastTick \in Nat /\ KeptFor \in Nat /\ KeepDays \in Nat
  BY ShopConstants
<1>2. Day(LastTick + KeptFor) = Day(LastTick) + KeepDays /\ Day(LastTick) \in Nat
  BY ShopConstants
<1>3. Day(LastTick + KeptFor) <= Day(LastTick + KeptFor + 1)
  BY <1>1, DayNext
<1>4. d \in Nat /\ d <= Day(LastTick) /\ Day(LastTick + KeptFor + 1) \in Nat
  BY <1>1, <1>2, ShopConstants DEF Days
<1> QED
  BY <1>1, <1>2, <1>3, <1>4

\* Answers that wait to be cached still fit.
LEMMA VisitsStay ==
  ASSUME VisitsFit, FitsStay, now \in Nat, now' = now, visit' = visit
  PROVE  VisitsFit'
<1>1. \A answer, r : Fits(answer, r, now) => Fits(answer, r, now)'
  BY DEF FitsStay
<1> QED
  BY <1>1 DEF VisitsFit

\* Answers that are cached still fit.
LEMMA CacheStays ==
  ASSUME CacheFits, FitsStay, now \in Nat, now' = now, cache' = cache
  PROVE  CacheFits'
<1> SUFFICES ASSUME NEW k \in DOMAIN cache
             PROVE  (/\ cache[k].until > now
                     /\ \E r \in ShopRequests, c \in Clients, t \in 0..now :
                          /\ k = CacheKey(r)
                          /\ cache[k].until = t + Ttl[c]
                          /\ Fits(cache[k].response, r, t))'
  BY DEF CacheFits
<1>1. cache[k].until > now
  BY DEF CacheFits
<1>2. PICK r \in ShopRequests, c \in Clients, t \in 0..now :
        k = CacheKey(r) /\ cache[k].until = t + Ttl[c] /\ Fits(cache[k].response, r, t)
  BY DEF CacheFits
<1>3. Fits(cache[k].response, r, t)'
  BY <1>2 DEF FitsStay
<1> QED
  BY <1>1, <1>2, <1>3

\* The sums of the days, the keys and the pipelines are those they were.
LEMMA RedisStays ==
  ASSUME PipesAdvance, DaysAreSums, KeysExpire, UNCHANGED <<now, redis>>
  PROVE  PipesAdvance' /\ DaysAreSums' /\ KeysExpire'
<1>1. PipesAdvance'
  BY DEF PipesAdvance, redis
<1>2. DaysAreSums'
  <2>1. \A d : OnDay(d)' = OnDay(d)
    BY DEF OnDay, redis
  <2>2. \A p, d : UnitsOf(p, OnDay(d))' = UnitsOf(p, OnDay(d))
    BY <2>1
  <2> QED
    BY <2>2 DEF DaysAreSums, redis
<1>3. KeysExpire'
  BY DEF KeysExpire, redis
<1> QED
  BY <1>1, <1>2, <1>3
-----------------------------------------------------------------------------
(***************************************************************************)
(* The invariant holds at first, and every step keeps it.                  *)
(***************************************************************************)
\* Nothing is sold, asked for or cached yet.
LEMMA InitShopInv == ShopInit => ShopInv
<1> SUFFICES ASSUME ShopInit PROVE ShopInv
  OBVIOUS
<1>1. ShopTypes
  <2>1. /\ now = 0 /\ stock = InitialStock /\ changes = 0
        /\ held = [t \in 0..LastTick |-> IF t = 0 THEN {stock} ELSE {}]
    BY DEF ShopInit
  <2>2. stock \in [Options -> Nat] /\ \A p \in Options : stock[p] \in Levels[p]
    BY <2>1, StorefrontAssumption
  <2>3. /\ held \in [0..LastTick -> SUBSET [Options -> Nat]]
        /\ stock \in held[now] /\ \A t \in now + 1..LastTick : held[t] = {}
    <3>1. LastTick \in Nat
      BY StorefrontAssumption
    <3>2. held \in [0..LastTick -> SUBSET [Options -> Nat]]
      BY <2>1, <2>2
    <3>3. stock \in held[now]
      BY <2>1, <3>1
    <3>4. \A t \in now + 1..LastTick : held[t] = {}
      BY <2>1, <3>1
    <3> QED
      BY <3>2, <3>3, <3>4
  <2>4. /\ ranking \in [Days -> [Options -> Nat]] /\ pipes \subseteq Pipe
        /\ cutDays \subseteq Days /\ applied \subseteq Sale /\ IsFiniteSet(applied)
        /\ \A a \in applied : a.at <= now
    BY FS_EmptySet DEF ShopInit
  <2>5. expiry \in [Days -> now + 1..Never]
    BY <2>1, ShopConstants DEF ShopInit
  <2>6. deliveries \in [Orders -> 0..MaxDeliveries] /\ now \in 0..LastTick
        /\ changes \in 0..MaxChanges
    BY <2>1, ShopConstants DEF ShopInit
  <2> QED
    BY <2>2, <2>3, <2>4, <2>5, <2>6 DEF ShopTypes
<1>2. PipesAdvance
  BY DEF ShopInit, PipesAdvance
<1>3. DaysAreSums
  <2> SUFFICES ASSUME NEW d \in Days
               PROVE  /\ Day(expiry[d]) >= d + KeepDays
                      /\ \A p \in Options : ranking[d][p] = UnitsOf(p, OnDay(d))
    BY DEF DaysAreSums
  <2>1. Day(expiry[d]) >= d + KeepDays
    BY NeverIsLate DEF ShopInit
  <2>2. ASSUME NEW p \in Options
        PROVE  ranking[d][p] = UnitsOf(p, OnDay(d))
    <3>1. OnDay(d) = {} /\ ranking[d][p] = 0
      BY DEF ShopInit, OnDay
    <3>2. UnitsOf(p, OnDay(d)) = 0
      BY <3>1, UnitsNone
    <3> QED
      BY <3>1, <3>2
  <2> QED
    BY <2>1, <2>2
<1>4. KeysExpire
  BY DEF ShopInit, KeysExpire
<1>5. VisitsFit
  BY DEF ShopInit, VisitsFit
<1>6. CacheFits
  BY DEF ShopInit, CacheFits
<1> QED
  BY <1>1, <1>2, <1>3, <1>4, <1>5, <1>6 DEF ShopInv

\* A delivery of order.processed starts a pipeline.
LEMMA RecordSalesKeepsShopInv ==
  ASSUME ShopInv, NEW o \in Orders, RecordSales(o)
  PROVE  ShopInv'
<1> DEFINE new == [order |-> o, delivery |-> deliveries[o] + 1, sent |-> now, next |-> 1]
<1>1. /\ ShopTypes /\ PipesAdvance /\ DaysAreSums /\ KeysExpire /\ VisitsFit /\ CacheFits
  BY DEF ShopInv
<1>2. /\ deliveries \in [Orders -> 0..MaxDeliveries] /\ pipes \subseteq Pipe
      /\ now \in 0..LastTick /\ applied \subseteq Sale
  BY <1>1 DEF ShopTypes
<1>3. /\ deliveries[o] < MaxDeliveries
      /\ deliveries' = [deliveries EXCEPT ![o] = deliveries[o] + 1]
      /\ deliveries'[o] = deliveries[o] + 1
      /\ pipes' = pipes \cup {new}
      /\ UNCHANGED <<now, shelf, ranking, expiry, cutDays, applied, cache, visit>>
  BY <1>2 DEF RecordSales
<1>4. /\ deliveries[o] \in Nat
      /\ \A s \in Orders : /\ deliveries[s] \in Nat /\ deliveries'[s] \in Nat
                            /\ deliveries[s] <= deliveries'[s]
  BY <1>2, <1>3, ShopConstants
<1>5. new \in Pipe
  <2>1. Len(Items[o]) \in Nat
    <3>1. Items[o] \in Seq([option : Options, quantity : Nat \ {0}])
      BY StorefrontAssumption
    <3> QED
      BY <3>1
  <2> QED
    BY <1>2, <1>4, <2>1 DEF Pipe
<1> HIDE DEF new
<1>6. ShopTypes'
  <2>1. deliveries' \in [Orders -> 0..MaxDeliveries]
    BY <1>2, <1>3, <1>4, ShopConstants
  <2> QED
    BY <1>1, <1>3, <1>5, <2>1 DEF ShopTypes, shelf
<1>7. PipesAdvance'
  <2>1. \A q \in pipes : q.delivery \in Nat /\ q.order \in Orders
    BY <1>2 DEF Pipe
  <2>2. \A a \in applied : a.delivery \in Nat /\ a.order \in Orders
    BY <1>2 DEF Sale
  <2>3. new.order = o /\ new.delivery = deliveries[o] + 1 /\ new.sent = now
    BY DEF new
  <2>4. \A a \in applied : a.delivery <= deliveries[a.order]
    BY <1>1 DEF PipesAdvance
  <2>5. \A q \in pipes :
          /\ q.delivery <= deliveries[q.order] /\ q.sent \in {now - 1, now}
          /\ \A s \in pipes : <<s.order, s.delivery>> = <<q.order, q.delivery>> => s = q
          /\ \A a \in applied :
               <<a.order, a.delivery>> = <<q.order, q.delivery>> => a.item < q.next
    BY <1>1 DEF PipesAdvance
  <2>6. \A a \in applied : /\ a.delivery <= deliveries'[a.order]
                           /\ ~ (a.order = o /\ a.delivery = deliveries[o] + 1)
    BY <1>4, <2>2, <2>4
  <2>7. \A q \in pipes : /\ q.delivery <= deliveries'[q.order]
                         /\ ~ (q.order = o /\ q.delivery = deliveries[o] + 1)
    BY <1>4, <2>1, <2>5
  <2>8. ASSUME NEW p \in pipes'
        PROVE  /\ p.sent \in {now - 1, now} /\ p.delivery <= deliveries'[p.order]
               /\ \A q \in pipes' : <<q.order, q.delivery>> = <<p.order, p.delivery>> => q = p
               /\ \A a \in applied :
                    <<a.order, a.delivery>> = <<p.order, p.delivery>> => a.item < p.next
    <3>1. CASE p \in pipes
      BY <1>3, <2>3, <2>5, <2>7, <3>1
    <3>2. CASE p = new
      <4>1. p.delivery <= deliveries'[p.order]
        BY <1>3, <1>4, <2>3, <3>2
      <4> QED
        BY <1>3, <2>3, <2>6, <2>7, <3>2, <4>1
    <3> QED
      BY <1>3, <3>1, <3>2
  <2> QED
    BY <1>3, <2>6, <2>8 DEF PipesAdvance
<1>8. DaysAreSums'
  <2>1. \A d : OnDay(d)' = OnDay(d)
    BY <1>3 DEF OnDay
  <2>2. \A p, d : UnitsOf(p, OnDay(d))' = UnitsOf(p, OnDay(d))
    BY <2>1
  <2> QED
    BY <1>1, <1>3, <2>2 DEF DaysAreSums
<1>9. KeysExpire'
  BY <1>1, <1>3 DEF KeysExpire
<1>10. FitsStay
  BY <1>3, FitsStayWhenHeld DEF shelf
<1> QED
  BY <1>1, <1>2, <1>3, <1>6, <1>7, <1>8, <1>9, <1>10, VisitsStay, CacheStays DEF ShopInv

\* A pipeline applies its next command, and is the same one afterwards.
LEMMA AdvanceIs ==
  ASSUME ShopTypes, PipesAdvance, NEW p \in pipes, Advance(p), p.next <= Len(Items[p.order])
  PROVE  \E q \in Pipe :
           /\ pipes' = (pipes \ {p}) \cup {q}
           /\ q.order = p.order /\ q.delivery = p.delivery /\ q.sent = p.sent
           /\ q.next = p.next + 1
<1> DEFINE q == [p EXCEPT !.next = @ + 1]
<1>1. p \in Pipe
  BY DEF ShopTypes
<1>2. /\ p.order \in Orders /\ p.delivery \in Nat /\ p.sent \in 0..LastTick
      /\ p.next \in Nat \ {0}
      /\ p \in [order : Orders, delivery : Nat, sent : 0..LastTick, next : Nat \ {0}]
  BY <1>1 DEF Pipe
<1>3. /\ q.order = p.order /\ q.delivery = p.delivery /\ q.sent = p.sent
      /\ q.next = p.next + 1
      /\ q \in [order : Orders, delivery : Nat, sent : 0..LastTick, next : Nat \ {0}]
  BY <1>2
<1>4. Len(Items[p.order]) \in Nat
  <2>1. Items[p.order] \in Seq([option : Options, quantity : Nat \ {0}])
    BY <1>2, StorefrontAssumption
  <2> QED
    BY <2>1
<1>5. pipes' = (pipes \ {p}) \cup {q}
  BY DEF Advance
<1> HIDE DEF q
<1>6. q \in Pipe
  BY <1>2, <1>3, <1>4 DEF Pipe
<1> QED
  BY <1>3, <1>5, <1>6

\* A day of which a pipeline is being executed has not been kept for its time.
LEMMA PipesAreOfLateDays ==
  ASSUME ShopTypes, PipesAdvance, NEW p \in pipes
  PROVE  /\ Day(p.sent) \in Days /\ Day(p.sent) <= Day(now)
         /\ Day(now) < Day(p.sent) + KeepDays
<1>1. p \in Pipe /\ now \in 0..LastTick /\ p.sent \in {now - 1, now}
  BY DEF ShopTypes, PipesAdvance
<1>2. p.sent \in 0..LastTick /\ p.sent \in Nat /\ LastTick \in Nat /\ now \in Nat
  BY <1>1, ShopConstants DEF Pipe
<1>3. now = p.sent \/ now = p.sent + 1
  BY <1>1, <1>2
<1>4. Day(p.sent) \in Days /\ Day(p.sent) \in Nat /\ Day(p.sent + 1) \in Nat
  BY <1>2, ShopConstants
<1>5. Day(p.sent) <= Day(p.sent + 1) /\ Day(p.sent + 1) <= Day(p.sent) + 1
  BY <1>2, DayNext
<1> QED
  BY <1>3, <1>4, <1>5, ShopConstants

\* A ZINCRBY adds a sale to its day.
LEMMA ZincrbyKeepsShopInv ==
  ASSUME ShopInv, NEW p \in pipes, Zincrby(p)
  PROVE  ShopInv'
<1> DEFINE x == [order |-> p.order, item |-> p.next, delivery |-> p.delivery,
                 day |-> Day(p.sent), at |-> now]
           day == Day(p.sent)
<1>1. /\ ShopTypes /\ PipesAdvance /\ DaysAreSums /\ KeysExpire /\ VisitsFit /\ CacheFits
  BY DEF ShopInv
<1>2. /\ p \in Pipe /\ now \in 0..LastTick /\ now \in Nat /\ pipes \subseteq Pipe
      /\ applied \subseteq Sale /\ IsFiniteSet(applied)
      /\ ranking \in [Days -> [Options -> Nat]]
  <2>1. /\ now \in 0..LastTick /\ pipes \subseteq Pipe
        /\ applied \subseteq Sale /\ IsFiniteSet(applied)
        /\ ranking \in [Days -> [Options -> Nat]]
    BY <1>1 DEF ShopTypes
  <2> QED
    BY <2>1
<1>3. /\ p.order \in Orders /\ p.delivery \in Nat /\ p.sent \in 0..LastTick
      /\ p.next \in Nat \ {0}
  BY <1>2 DEF Pipe
<1>4. /\ p.next <= Len(Items[p.order]) /\ applied' = applied \cup {x}
      /\ ranking' = [ranking EXCEPT ![day][OptionOf(x)] = @ + Items[p.order][p.next].quantity]
      /\ Advance(p)
      /\ UNCHANGED <<now, shelf, expiry, cutDays, deliveries, cache, visit>>
  <2>1. OptionOf(x) = Items[p.order][p.next].option
    BY DEF OptionOf
  <2> QED
    BY <2>1, Zenon DEF Zincrby
<1>5. day \in Days /\ day <= Day(now) /\ Day(now) < day + KeepDays
  BY <1>1, PipesAreOfLateDays
<1>6. x \in Sale /\ x.order = p.order /\ x.delivery = p.delivery /\ x.item = p.next
      /\ x.day = day /\ x.at = now
  BY <1>2, <1>3, <1>4, <1>5 DEF Sale
<1>7. UnitsIn[x] = Items[p.order][p.next].quantity
  BY <1>6 DEF UnitsIn
<1>8. OptionOf(x) \in Options /\ UnitsIn[x] \in Nat
  BY <1>6, SaleIs
<1>9. PICK q \in Pipe :
        /\ pipes' = (pipes \ {p}) \cup {q}
        /\ q.order = p.order /\ q.delivery = p.delivery /\ q.sent = p.sent
        /\ q.next = p.next + 1
  BY <1>1, <1>4, AdvanceIs
<1> HIDE DEF x, day
<1>10. /\ ranking' \in [Days -> [Options -> Nat]]
       /\ \A d \in Days, o \in Options :
            ranking'[d][o] = IF d = day /\ o = OptionOf(x) THEN ranking[d][o] + UnitsIn[x]
                             ELSE ranking[d][o]
  <2> DEFINE option == OptionOf(x)
             units == UnitsIn[x]
  <2>1. option \in Options /\ units \in Nat /\ ranking[day][option] + units \in Nat
    BY <1>2, <1>5, <1>8
  <2>2. ranking' = [ranking EXCEPT ![day][option] = @ + units]
    BY <1>4, <1>7
  <2> HIDE DEF option, units
  <2>3. ranking' \in [Days -> [Options -> Nat]]
    BY <1>2, <1>5, <2>1, <2>2
  <2>4. \A d \in Days, o \in Options :
          ranking'[d][o] = IF d = day /\ o = option THEN ranking[d][o] + units
                           ELSE ranking[d][o]
    BY <1>2, <1>5, <2>1, <2>2
  <2> QED
    BY <2>3, <2>4 DEF option, units
<1>11. x \notin applied
  <2>1. \A a \in applied :
          <<a.order, a.delivery>> = <<p.order, p.delivery>> => a.item < p.next
    BY <1>1 DEF PipesAdvance
  <2> QED
    BY <1>3, <1>6, <2>1
<1>12. ShopTypes'
  <2>1. pipes' \subseteq Pipe
    BY <1>2, <1>9
  <2>2. applied' \subseteq Sale /\ IsFiniteSet(applied')
    BY <1>2, <1>4, <1>6, FS_AddElement
  <2>3. \A a \in applied' : a.at <= now'
    BY <1>1, <1>2, <1>4, <1>6 DEF ShopTypes
  <2> QED
    BY <1>1, <1>4, <1>10, <2>1, <2>2, <2>3 DEF ShopTypes, shelf
<1>13. PipesAdvance'
  <2>1. \A s \in pipes :
          /\ s.delivery <= deliveries[s.order] /\ s.sent \in {now - 1, now}
          /\ \A t \in pipes : <<t.order, t.delivery>> = <<s.order, s.delivery>> => t = s
          /\ \A a \in applied :
               <<a.order, a.delivery>> = <<s.order, s.delivery>> => a.item < s.next
    BY <1>1 DEF PipesAdvance
  <2>2. \A a \in applied : a.delivery <= deliveries[a.order] /\ a.item \in Nat
    BY <1>1, <1>2 DEF PipesAdvance, Sale
  <2>3. ASSUME NEW s \in pipes'
        PROVE  /\ s.sent \in {now - 1, now} /\ s.delivery <= deliveries[s.order]
               /\ \A t \in pipes' : <<t.order, t.delivery>> = <<s.order, s.delivery>> => t = s
               /\ \A a \in applied' :
                    <<a.order, a.delivery>> = <<s.order, s.delivery>> => a.item < s.next
    <3>1. CASE s \in pipes /\ s # p
      BY <1>4, <1>6, <1>9, <2>1, <3>1
    <3>2. CASE s = q
      <4>1. s.sent \in {now - 1, now} /\ s.delivery <= deliveries[s.order]
        BY <1>9, <2>1, <3>2
      <4>2. \A t \in pipes' : <<t.order, t.delivery>> = <<s.order, s.delivery>> => t = s
        BY <1>9, <2>1, <3>2
      <4>3. ASSUME NEW a \in applied', <<a.order, a.delivery>> = <<s.order, s.delivery>>
            PROVE  a.item < s.next
        <5>1. CASE a = x
          BY <1>3, <1>6, <1>9, <3>2, <5>1
        <5>2. CASE a \in applied
          <6>1. a.item < p.next /\ a.item \in Nat
            BY <1>9, <2>1, <2>2, <3>2, <4>3, <5>2
          <6> QED
            BY <1>3, <1>9, <3>2, <6>1
        <5> QED
          BY <1>4, <5>1, <5>2
      <4> QED
        BY <4>1, <4>2, <4>3
    <3> QED
      BY <1>9, <3>1, <3>2
  <2>4. \A a \in applied' : a.delivery <= deliveries[a.order]
    BY <1>4, <1>6, <2>1, <2>2
  <2> QED
    BY <1>4, <2>3, <2>4 DEF PipesAdvance
<1>14. DaysAreSums'
  <2> SUFFICES ASSUME NEW d \in Days
               PROVE  (/\ Day(expiry[d]) >= d + KeepDays
                       /\ \A o \in Options :
                            \/ ranking[d][o] = UnitsOf(o, OnDay(d))
                            \/ ranking[d][o] = 0 /\ Day(now) >= d + KeepDays)'
    BY DEF DaysAreSums
  <2>1. Day(expiry[d])' >= d + KeepDays
    <3>1. expiry' = expiry /\ Day(expiry[d]) >= d + KeepDays
      BY <1>1, <1>4 DEF DaysAreSums
    <3> QED
      BY <3>1
  <2>2. \A o \in Options :
          \/ ranking[d][o] = UnitsOf(o, OnDay(d))
          \/ ranking[d][o] = 0 /\ Day(now) >= d + KeepDays
    BY <1>1 DEF DaysAreSums
  <2>3. CASE d # day
    <3>1. OnDay(d)' = OnDay(d)
      BY <1>4, <1>6, <2>3 DEF OnDay
    <3>2. \A o \in Options : UnitsOf(o, OnDay(d))' = UnitsOf(o, OnDay(d))
      BY <3>1
    <3> QED
      BY <1>4, <1>10, <2>1, <2>2, <2>3, <3>2
  <2>4. CASE d = day
    <3>1. OnDay(d)' = OnDay(d) \cup {x}
      BY <1>4, <1>6, <2>4 DEF OnDay
    <3>2. IsFiniteSet(OnDay(d)) /\ OnDay(d) \in SUBSET Sale /\ x \notin OnDay(d)
      <4>1. OnDay(d) \in SUBSET applied
        BY DEF OnDay
      <4> QED
        BY <1>2, <1>11, <4>1, FS_Subset
    <3>3. ASSUME NEW o \in Options
          PROVE  ranking'[d][o] = UnitsOf(o, OnDay(d))'
      <4>1. ranking[d][o] = UnitsOf(o, OnDay(d))
        <5>1. Day(now) \in Nat /\ d + KeepDays \in Nat
          BY <1>2, ShopConstants
        <5>2. ~ (Day(now) >= d + KeepDays)
          BY <1>5, <2>4, <5>1
        <5> QED
          BY <2>2, <5>2
      <4>2. UnitsOf(o, OnDay(d) \cup {x}) =
              IF OptionOf(x) = o THEN UnitsOf(o, OnDay(d)) + UnitsIn[x] ELSE UnitsOf(o, OnDay(d))
        BY <1>6, <3>2, UnitsAdd
      <4>3. UnitsOf(o, OnDay(d))' = UnitsOf(o, OnDay(d) \cup {x})
        BY <3>1
      <4> QED
        BY <1>10, <2>4, <4>1, <4>2, <4>3
    <3> QED
      BY <2>1, <3>3
  <2> QED
    BY <2>3, <2>4
<1>15. KeysExpire'
  <2> SUFFICES ASSUME NEW d \in Days \ (cutDays \cup {Day(s.sent) : s \in pipes'}),
                      expiry[d] = Never
               PROVE  \A o \in Options : ranking'[d][o] = 0
    BY <1>4 DEF KeysExpire
  <2>1. d # day
    BY <1>9 DEF day
  <2>2. d \notin {Day(s.sent) : s \in pipes}
    BY <1>9, <2>1 DEF day
  <2>3. \A o \in Options : ranking[d][o] = 0
    BY <1>1, <2>2 DEF KeysExpire
  <2> QED
    BY <1>10, <2>1, <2>3
<1>16. FitsStay
  BY <1>2, <1>4, <1>6, FitsStayWhenSold DEF shelf
<1> QED
  BY <1>1, <1>2, <1>4, <1>12, <1>13, <1>14, <1>15, <1>16, VisitsStay, CacheStays DEF ShopInv

\* A pipeline that ends leaves the others.
LEMMA PipesEnd ==
  ASSUME PipesAdvance, pipes' \subseteq pipes, UNCHANGED <<now, deliveries, applied>>
  PROVE  PipesAdvance'
  BY DEF PipesAdvance

\* Counts that are not touched are still those of their days.
LEMMA SumsStay ==
  ASSUME DaysAreSums, UNCHANGED <<now, ranking, applied>>,
         \A d \in Days : Day(expiry'[d]) >= d + KeepDays
  PROVE  DaysAreSums'
<1>1. \A d : OnDay(d)' = OnDay(d)
  BY DEF OnDay
<1>2. \A p, d : UnitsOf(p, OnDay(d))' = UnitsOf(p, OnDay(d))
  BY <1>1
<1> QED
  BY <1>2 DEF DaysAreSums

\* EXPIRE, after the last ZINCRBY, gives the day its time.
LEMMA ExpireKeepsShopInv ==
  ASSUME ShopInv, NEW p \in pipes, Expire(p)
  PROVE  ShopInv'
<1> DEFINE day == Day(p.sent)
<1>1. /\ ShopTypes /\ PipesAdvance /\ DaysAreSums /\ KeysExpire /\ VisitsFit /\ CacheFits
  BY DEF ShopInv
<1>2. now \in 0..LastTick /\ expiry \in [Days -> now + 1..Never] /\ pipes \subseteq Pipe
  BY <1>1 DEF ShopTypes
<1>3. /\ expiry' = [expiry EXCEPT ![day] = now + KeptFor] /\ pipes' = pipes \ {p}
      /\ UNCHANGED <<now, shelf, ranking, cutDays, deliveries, applied, cache, visit>>
  BY DEF Expire
<1>4. day \in Days /\ day <= Day(now)
  BY <1>1, PipesAreOfLateDays
<1>5. /\ now \in Nat /\ now + KeptFor \in now + 1..Never /\ now + KeptFor # Never
      /\ Day(now + KeptFor) = Day(now) + KeepDays /\ Day(now) \in Nat
  BY <1>2, ShopConstants
<1>6. /\ expiry' \in [Days -> now + 1..Never]
      /\ \A d \in Days : expiry'[d] = IF d = day THEN now + KeptFor ELSE expiry[d]
  <2> HIDE DEF day
  <2> QED
    BY <1>2, <1>3, <1>4, <1>5
<1>7. ShopTypes'
  BY <1>1, <1>3, <1>6 DEF ShopTypes, shelf
<1>8. PipesAdvance'
  BY <1>1, <1>3, PipesEnd
<1>9. DaysAreSums'
  <2>1. ASSUME NEW d \in Days PROVE Day(expiry'[d]) >= d + KeepDays
    <3>1. CASE d = day
      <4>1. Day(expiry'[d]) = Day(now) + KeepDays
        BY <1>5, <1>6, <3>1
      <4> HIDE DEF day
      <4> QED
        BY <1>4, <1>5, <3>1, <4>1, ShopConstants
    <3>2. CASE d # day
      BY <1>1, <1>6, <3>2 DEF DaysAreSums
    <3> QED
      BY <3>1, <3>2
  <2> QED
    BY <1>1, <1>3, <2>1, SumsStay
<1>10. KeysExpire'
  <2> SUFFICES ASSUME NEW d \in Days \ (cutDays \cup {Day(s.sent) : s \in pipes'}),
                      expiry'[d] = Never
               PROVE  \A o \in Options : ranking[d][o] = 0
    BY <1>3 DEF KeysExpire
  <2>1. d # day
    BY <1>5, <1>6
  <2>2. d \notin {Day(s.sent) : s \in pipes}
    BY <1>3, <2>1
  <2> QED
    BY <1>1, <1>6, <2>1, <2>2 DEF KeysExpire
<1>11. FitsStay
  BY <1>3, FitsStayWhenHeld DEF shelf
<1> QED
  BY <1>1, <1>3, <1>5, <1>7, <1>8, <1>9, <1>10, <1>11, VisitsStay, CacheStays DEF ShopInv

\* A connection that fails leaves the day to the pipelines that come.
LEMMA CutKeepsShopInv ==
  ASSUME ShopInv, NEW p \in pipes, Cut(p)
  PROVE  ShopInv'
<1>1. /\ ShopTypes /\ PipesAdvance /\ DaysAreSums /\ KeysExpire /\ VisitsFit /\ CacheFits
  BY DEF ShopInv
<1>2. /\ pipes' = pipes \ {p} /\ cutDays' = cutDays \cup {Day(p.sent)}
      /\ UNCHANGED <<now, shelf, ranking, expiry, deliveries, applied, cache, visit>>
  BY DEF Cut
<1>3. Day(p.sent) \in Days /\ now \in Nat
  <2>1. now \in 0..LastTick
    BY <1>1 DEF ShopTypes
  <2> QED
    BY <1>1, <2>1, PipesAreOfLateDays
<1>4. ShopTypes'
  BY <1>1, <1>2, <1>3 DEF ShopTypes, shelf
<1>5. PipesAdvance'
  BY <1>1, <1>2, PipesEnd
<1>6. DaysAreSums'
  <2>1. \A d \in Days : Day(expiry'[d]) >= d + KeepDays
    BY <1>1, <1>2 DEF DaysAreSums
  <2> QED
    BY <1>1, <1>2, <2>1, SumsStay
<1>7. KeysExpire'
  BY <1>1, <1>2 DEF KeysExpire
<1>8. FitsStay
  BY <1>2, FitsStayWhenHeld DEF shelf
<1> QED
  BY <1>1, <1>2, <1>3, <1>4, <1>5, <1>6, <1>7, <1>8, VisitsStay, CacheStays DEF ShopInv

\* The shelf remembers the stocks of the tick.
LEMMA ChangeStockKeepsShopInv ==
  ASSUME ShopInv, NEW p \in Options, ChangeStock(p)
  PROVE  ShopInv'
<1>1. /\ ShopTypes /\ PipesAdvance /\ DaysAreSums /\ KeysExpire /\ VisitsFit /\ CacheFits
  BY DEF ShopInv
<1>2. /\ now \in 0..LastTick /\ now \in Nat /\ stock \in [Options -> Nat]
      /\ \A o \in Options : stock[o] \in Levels[o]
      /\ held \in [0..LastTick -> SUBSET [Options -> Nat]]
      /\ \A t \in now + 1..LastTick : held[t] = {}
      /\ changes \in 0..MaxChanges
  <2>1. now \in 0..LastTick
    BY <1>1 DEF ShopTypes
  <2> QED
    BY <1>1, <2>1 DEF ShopTypes
<1>3. /\ changes < MaxChanges /\ changes' = changes + 1
      /\ held' = [held EXCEPT ![now] = @ \cup {stock'}]
      /\ UNCHANGED <<now, redis, cache, visit>>
  BY DEF ChangeStock
<1>4. PICK level \in Levels[p] : stock' = [stock EXCEPT ![p] = level]
  BY DEF ChangeStock
<1>5. level \in Nat
  BY StorefrontAssumption
<1>6. stock' \in [Options -> Nat] /\ \A o \in Options : stock'[o] \in Levels[o]
  BY <1>2, <1>4, <1>5
<1>7. /\ held' \in [0..LastTick -> SUBSET [Options -> Nat]]
      /\ stock' \in held'[now] /\ \A t \in now + 1..LastTick : held'[t] = {}
      /\ \A t \in 0..now : held[t] \subseteq held'[t]
  BY <1>2, <1>3, <1>6
<1>8. changes' \in 0..MaxChanges
  BY <1>2, <1>3, ShopConstants
<1>9. ShopTypes'
  BY <1>1, <1>3, <1>6, <1>7, <1>8 DEF ShopTypes, redis
<1>10. PipesAdvance' /\ DaysAreSums' /\ KeysExpire'
  BY <1>1, <1>3, RedisStays
<1>11. FitsStay
  BY <1>3, <1>7, FitsStayWhenHeld DEF redis
<1> QED
  BY <1>1, <1>2, <1>3, <1>9, <1>10, <1>11, VisitsStay, CacheStays DEF ShopInv

\* A visit that moves on leaves the others where they are.
LEMMA VisitMoves ==
  ASSUME VisitsFit, FitsStay, now \in Nat, now' = now, NEW c \in Clients, NEW v,
         visit' = [visit EXCEPT ![c] = v],
         \/ v = NoVisit
         \/ v.pc = "handle" /\ v.request \in RequestsOf[c]
         \/ v.pc = "set" /\ v.request \in RequestsOf[c] /\ Fits(v.response, v.request, now)
  PROVE  VisitsFit'
<1>1. \A answer, r : Fits(answer, r, now) => Fits(answer, r, now)'
  BY DEF FitsStay
<1>2. /\ visit' = [d \in Clients |-> visit'[d]]
      /\ visit'[c] = v /\ \A d \in Clients \ {c} : visit'[d] = visit[d]
  BY DEF VisitsFit
<1>3. \/ visit'[c] = NoVisit
      \/ visit'[c].pc = "handle" /\ visit'[c].request \in RequestsOf[c]
      \/ /\ visit'[c].pc = "set" /\ visit'[c].request \in RequestsOf[c]
         /\ Fits(visit[c].response, visit[c].request, now)'
  BY <1>1, <1>2
<1>4. ASSUME NEW d \in Clients \ {c}
      PROVE  \/ visit'[d] = NoVisit
             \/ visit'[d].pc = "handle" /\ visit'[d].request \in RequestsOf[d]
             \/ /\ visit'[d].pc = "set" /\ visit'[d].request \in RequestsOf[d]
                /\ Fits(visit[d].response, visit[d].request, now)'
  <2>1. \/ visit[d] = NoVisit
        \/ visit[d].pc = "handle" /\ visit[d].request \in RequestsOf[d]
        \/ /\ visit[d].pc = "set" /\ visit[d].request \in RequestsOf[d]
           /\ Fits(visit[d].response, visit[d].request, now)
    BY DEF VisitsFit
  <2>2. visit'[d] = visit[d]
    BY <1>2
  <2> QED
    BY <1>1, <2>1, <2>2
<1> QED
  BY <1>2, <1>3, <1>4 DEF VisitsFit

\* A step that only moves one visit
LEMMA VisitKeepsShopInv ==
  ASSUME ShopInv, UNCHANGED <<now, shelf, redis, cache>>, NEW c \in Clients, NEW v,
         visit' = [visit EXCEPT ![c] = v],
         \/ v = NoVisit
         \/ v.pc = "handle" /\ v.request \in RequestsOf[c]
         \/ v.pc = "set" /\ v.request \in RequestsOf[c] /\ Fits(v.response, v.request, now)
  PROVE  ShopInv'
<1>1. /\ ShopTypes /\ PipesAdvance /\ DaysAreSums /\ KeysExpire /\ VisitsFit /\ CacheFits
  BY DEF ShopInv
<1>2. now \in Nat
  <2>1. now \in 0..LastTick
    BY <1>1 DEF ShopTypes
  <2> QED
    BY <2>1
<1>3. ShopTypes'
  BY <1>1 DEF ShopTypes, shelf, redis
<1>4. PipesAdvance' /\ DaysAreSums' /\ KeysExpire'
  BY <1>1, RedisStays
<1>5. FitsStay
  BY FitsStayWhenHeld DEF shelf, redis
<1>6. CacheFits'
  BY <1>1, <1>2, <1>5, CacheStays
<1>7. VisitsFit'
  BY <1>1, <1>2, <1>5, VisitMoves
<1> QED
  BY <1>3, <1>4, <1>6, <1>7 DEF ShopInv

\* What the state of a visit says of its request
LEMMA VisitsAre ==
  ASSUME VisitsFit, NEW c \in Clients
  PROVE  /\ visit[c].pc \in {"none", "handle", "set"}
         /\ visit[c].pc = "none" => visit[c] = NoVisit
         /\ visit[c].pc # "none" =>
              visit[c].request \in RequestsOf[c] /\ visit[c].request \in Request
         /\ visit[c].pc = "set" => Fits(visit[c].response, visit[c].request, now)
<1>1. \/ visit[c] = NoVisit
      \/ visit[c].pc = "handle" /\ visit[c].request \in RequestsOf[c]
      \/ /\ visit[c].pc = "set" /\ visit[c].request \in RequestsOf[c]
         /\ Fits(visit[c].response, visit[c].request, now)
  BY DEF VisitsFit
<1>2. NoVisit.pc = "none"
  BY DEF NoVisit
<1> QED
  BY <1>1, <1>2, ShopConstants

\* A request that is not answered from the cache goes to its handler.
LEMMA CacheMissKeepsShopInv ==
  ASSUME ShopInv, NEW c \in Clients, NEW r \in RequestsOf[c], CacheMiss(c, r)
  PROVE  ShopInv'
<1> DEFINE v == [pc |-> "handle", request |-> r]
<1>1. UNCHANGED <<now, shelf, redis, cache>> /\ visit' = [visit EXCEPT ![c] = v]
  BY DEF CacheMiss
<1>2. v.pc = "handle" /\ v.request \in RequestsOf[c]
  OBVIOUS
<1> HIDE DEF v
<1> QED
  BY <1>1, <1>2, VisitKeepsShopInv

\* A handler returns what its sources are as it reads them.
LEMMA HandleKeepsShopInv ==
  ASSUME ShopInv, NEW c \in Clients, Handle(c)
  PROVE  ShopInv'
<1>1. PICK response \in Responses(visit[c].request) :
        visit' = [visit EXCEPT ![c] = [pc |-> "set", request |-> visit[c].request,
                                       response |-> response]]
  BY DEF Handle
<1>2. PICK r : r = visit[c].request
  OBVIOUS
<1> DEFINE v == [pc |-> "set", request |-> r, response |-> response]
<1>3. r \in RequestsOf[c] /\ r \in Request /\ ~ Refused(r)
  <2>1. visit[c].pc = "handle" /\ ~ Refused(visit[c].request)
    BY DEF Handle
  <2>2. visit[c].request \in RequestsOf[c] /\ visit[c].request \in Request
    BY <2>1, VisitsAre DEF ShopInv
  <2> QED
    BY <1>2, <2>1, <2>2
<1>4. response \in Responses(r)
  BY <1>1, <1>2
<1>5. Fits(response, r, now)
  BY <1>3, <1>4, HandlersFit DEF ShopInv
<1>6. v.pc = "set" /\ v.request \in RequestsOf[c] /\ Fits(v.response, v.request, now)
  BY <1>3, <1>5
<1>7. UNCHANGED <<now, shelf, redis, cache>> /\ visit' = [visit EXCEPT ![c] = v]
  BY <1>1, <1>2 DEF Handle
<1> HIDE DEF v
<1> QED
  BY <1>6, <1>7, VisitKeepsShopInv

\* A refusal leaves nothing.
LEMMA RefuseKeepsShopInv ==
  ASSUME ShopInv, NEW c \in Clients, Refuse(c)
  PROVE  ShopInv'
  BY VisitKeepsShopInv DEF Refuse

\* What is cached was an answer of the tick in which it is cached.
LEMMA SetCacheKeepsShopInv ==
  ASSUME ShopInv, NEW c \in Clients, SetCache(c)
  PROVE  ShopInv'
<1>1. /\ ShopTypes /\ PipesAdvance /\ DaysAreSums /\ KeysExpire /\ VisitsFit /\ CacheFits
  BY DEF ShopInv
<1>2. now \in 0..LastTick /\ now \in Nat
  <2>1. now \in 0..LastTick
    BY <1>1 DEF ShopTypes
  <2> QED
    BY <2>1
<1>3. PICK r : r = visit[c].request
  OBVIOUS
<1>4. PICK answer : answer = visit[c].response
  OBVIOUS
<1>5. /\ r \in RequestsOf[c] /\ r \in ShopRequests /\ Fits(answer, r, now)
      /\ Ttl[c] \in Nat /\ Ttl[c] > 0
  <2>1. visit[c].pc = "set"
    BY DEF SetCache
  <2>2. visit[c].request \in RequestsOf[c] /\ Fits(visit[c].response, visit[c].request, now)
    BY <1>1, <2>1, VisitsAre
  <2> QED
    BY <1>3, <1>4, <2>2, ShopConstants
<1> DEFINE key == CacheKey(r)
           entry == [response |-> answer, until |-> now + Ttl[c]]
<1>6. /\ cache' = [k \in DOMAIN cache \cup {key} |-> IF k = key THEN entry ELSE cache[k]]
      /\ visit' = [visit EXCEPT ![c] = NoVisit]
      /\ UNCHANGED <<now, shelf, redis>>
  BY <1>3, <1>4 DEF SetCache
<1>7. entry.response = answer /\ entry.until = now + Ttl[c]
  OBVIOUS
<1> HIDE DEF key, entry
<1>8. ShopTypes'
  BY <1>1, <1>6 DEF ShopTypes, shelf, redis
<1>9. PipesAdvance' /\ DaysAreSums' /\ KeysExpire'
  BY <1>1, <1>6, RedisStays
<1>10. FitsStay
  BY <1>6, FitsStayWhenHeld DEF shelf, redis
<1>11. VisitsFit'
  BY <1>1, <1>2, <1>6, <1>10, VisitMoves
<1>12. CacheFits'
  <2> SUFFICES ASSUME NEW k \in DOMAIN cache'
               PROVE  (/\ cache[k].until > now
                       /\ \E s \in ShopRequests, d \in Clients, t \in 0..now :
                            /\ k = CacheKey(s)
                            /\ cache[k].until = t + Ttl[d]
                            /\ Fits(cache[k].response, s, t))'
    BY DEF CacheFits
  <2>1. CASE k = key
    <3>1. cache'[k] = entry
      BY <1>6, <2>1
    <3>2. cache'[k].response = answer /\ cache'[k].until = now + Ttl[c]
      BY <1>7, <3>1
    <3>3. Fits(answer, r, now)'
      BY <1>2, <1>5, <1>6, <1>10 DEF FitsStay
    <3>4. Fits(cache[k].response, r, now)'
      BY <3>2, <3>3
    <3>5. now' = now /\ now \in 0..now /\ cache'[k].until > now'
      BY <1>2, <1>5, <1>6, <3>2
    <3> QED
      BY <1>5, <2>1, <3>2, <3>4, <3>5 DEF key
  <2>2. CASE k # key
    <3>1. k \in DOMAIN cache /\ cache'[k] = cache[k]
      BY <1>6, <2>2
    <3>2. cache[k].until > now
      BY <1>1, <3>1 DEF CacheFits
    <3>3. PICK s \in ShopRequests, d \in Clients, t \in 0..now :
            k = CacheKey(s) /\ cache[k].until = t + Ttl[d] /\ Fits(cache[k].response, s, t)
      BY <1>1, <3>1 DEF CacheFits
    <3>4. Fits(cache[k].response, s, t)'
      BY <1>10, <3>1, <3>3 DEF FitsStay
    <3> QED
      BY <1>6, <3>1, <3>2, <3>3, <3>4
  <2> QED
    BY <2>1, <2>2
<1> QED
  BY <1>8, <1>9, <1>11, <1>12 DEF ShopInv

\* The next tick: keys expire, and nobody is being served.
LEMMA TickKeepsShopInv ==
  ASSUME ShopInv, Tick
  PROVE  ShopInv'
<1>1. /\ ShopTypes /\ PipesAdvance /\ DaysAreSums /\ KeysExpire /\ VisitsFit /\ CacheFits
  BY DEF ShopInv
<1>2. /\ now < LastTick /\ now' = now + 1
      /\ \A c \in Clients : visit[c] = NoVisit
      /\ \A p \in pipes : p.sent = now
      /\ held' = [held EXCEPT ![now + 1] = {stock}]
      /\ ranking' = [d \in Days |->
                       IF expiry[d] = now + 1 THEN [p \in Options |-> 0] ELSE ranking[d]]
      /\ expiry' = [d \in Days |-> IF expiry[d] = now + 1 THEN Never ELSE expiry[d]]
      /\ UNCHANGED <<stock, changes, pipes, cutDays, deliveries, applied, visit>>
  BY DEF Tick
<1>3. /\ DOMAIN cache' = {k \in DOMAIN cache : cache[k].until > now + 1}
      /\ \A k \in DOMAIN cache' : cache'[k] = cache[k]
  BY <1>2 DEF Tick
<1>4. /\ now \in 0..LastTick /\ now \in Nat /\ expiry \in [Days -> now + 1..Never]
      /\ held \in [0..LastTick -> SUBSET [Options -> Nat]]
      /\ \A t \in now + 1..LastTick : held[t] = {}
      /\ stock \in [Options -> Nat] /\ ranking \in [Days -> [Options -> Nat]]
      /\ LastTick \in Nat
  <2>1. now \in 0..LastTick /\ LastTick \in Nat
    BY <1>1, ShopConstants DEF ShopTypes
  <2> QED
    BY <1>1, <2>1 DEF ShopTypes
<1>5. now' \in 0..LastTick /\ now + 1 \in Nat /\ now + 1 < Never /\ Never \in Nat
  BY <1>2, <1>4, ShopConstants
<1>6. ShopTypes'
  <2>1. /\ held' \in [0..LastTick -> SUBSET [Options -> Nat]]
        /\ stock \in held'[now + 1] /\ \A t \in now + 2..LastTick : held'[t] = {}
    BY <1>2, <1>4, <1>5
  <2>2. ranking' \in [Days -> [Options -> Nat]]
    BY <1>2, <1>4
  <2>3. expiry' \in [Days -> now' + 1..Never]
    <3>1. \A d \in Days : expiry[d] \in now + 1..Never
      BY <1>4
    <3>2. \A d \in Days : expiry'[d] \in now' + 1..Never
      BY <1>2, <1>4, <1>5, <3>1
    <3> QED
      BY <1>2, <3>2
  <2>4. \A a \in applied : a.at <= now'
    <3>1. \A a \in applied : a.at \in Nat /\ a.at <= now
      BY <1>1 DEF ShopTypes, Sale
    <3> QED
      BY <1>2, <1>4, <3>1
  <2>5. \A t \in now' + 1..LastTick : held'[t] = {}
    <3>1. now' + 1 = now + 2
      BY <1>2, <1>4
    <3> QED
      BY <2>1, <3>1
  <2> QED
    BY <1>1, <1>2, <1>5, <2>1, <2>2, <2>3, <2>4, <2>5 DEF ShopTypes
<1>7. PipesAdvance'
  <2>1. \A p \in pipes : p.sent \in {now' - 1, now'}
    BY <1>2, <1>4
  <2> QED
    BY <1>1, <1>2, <2>1 DEF PipesAdvance
<1>8. Day(now) <= Day(now') /\ Day(now) \in Nat /\ Day(now') \in Nat
  BY <1>2, <1>4, <1>5, DayNext, ShopConstants
<1>9. DaysAreSums'
  <2> SUFFICES ASSUME NEW d \in Days
               PROVE  (/\ Day(expiry[d]) >= d + KeepDays
                       /\ \A p \in Options :
                            \/ ranking[d][p] = UnitsOf(p, OnDay(d))
                            \/ ranking[d][p] = 0 /\ Day(now) >= d + KeepDays)'
    BY DEF DaysAreSums
  <2>1. /\ Day(expiry[d]) >= d + KeepDays
        /\ \A p \in Options :
             \/ ranking[d][p] = UnitsOf(p, OnDay(d))
             \/ ranking[d][p] = 0 /\ Day(now) >= d + KeepDays
    BY <1>1 DEF DaysAreSums
  <2>2. \A p : UnitsOf(p, OnDay(d))' = UnitsOf(p, OnDay(d))
    <3>1. OnDay(d)' = OnDay(d)
      BY <1>2 DEF OnDay
    <3> QED
      BY <3>1
  <2>3. d + KeepDays \in Nat
    BY ShopConstants
  <2>4. CASE expiry[d] = now + 1
    <3>1. expiry'[d] = Never /\ \A p \in Options : ranking'[d][p] = 0
      BY <1>2, <2>4
    <3>2. Day(now') >= d + KeepDays
      BY <1>2, <2>1, <2>4
    <3>3. Day(expiry'[d]) >= d + KeepDays
      BY <3>1, NeverIsLate
    <3>4. (Day(expiry[d]) >= d + KeepDays)' /\ (Day(now) >= d + KeepDays)'
      BY <3>2, <3>3
    <3> QED
      BY <3>1, <3>4
  <2>5. CASE expiry[d] # now + 1
    <3>1. expiry'[d] = expiry[d] /\ ranking'[d] = ranking[d]
      BY <1>2, <2>5
    <3>2. Day(now) >= d + KeepDays => Day(now') >= d + KeepDays
      BY <1>8, <2>3
    <3> QED
      BY <2>1, <2>2, <3>1, <3>2
  <2> QED
    BY <2>4, <2>5
<1>10. KeysExpire'
  <2> SUFFICES ASSUME NEW d \in Days \ (cutDays \cup {Day(p.sent) : p \in pipes}),
                      expiry'[d] = Never
               PROVE  \A p \in Options : ranking'[d][p] = 0
    BY <1>2 DEF KeysExpire
  <2>1. CASE expiry[d] = now + 1
    BY <1>2, <2>1
  <2>2. CASE expiry[d] # now + 1
    BY <1>1, <1>2, <2>2 DEF KeysExpire
  <2> QED
    BY <2>1, <2>2
<1>11. FitsStay
  <2>1. \A t \in 0..now : held[t] \subseteq held'[t]
    BY <1>2, <1>4
  <2> QED
    BY <1>2, <2>1, FitsStayWhenHeld
<1>12. VisitsFit'
  BY <1>1, <1>2 DEF VisitsFit
<1>13. CacheFits'
  <2> SUFFICES ASSUME NEW k \in DOMAIN cache'
               PROVE  (/\ cache[k].until > now
                       /\ \E s \in ShopRequests, d \in Clients, t \in 0..now :
                            /\ k = CacheKey(s)
                            /\ cache[k].until = t + Ttl[d]
                            /\ Fits(cache[k].response, s, t))'
    BY DEF CacheFits
  <2>1. k \in DOMAIN cache /\ cache'[k] = cache[k] /\ cache'[k].until > now'
    BY <1>2, <1>3
  <2>2. PICK s \in ShopRequests, d \in Clients, t \in 0..now :
          k = CacheKey(s) /\ cache[k].until = t + Ttl[d] /\ Fits(cache[k].response, s, t)
    BY <1>1, <2>1 DEF CacheFits
  <2>3. Fits(cache[k].response, s, t)'
    BY <1>11, <2>1, <2>2 DEF FitsStay
  <2>4. t \in 0..now'
    BY <1>2, <1>4
  <2> QED
    BY <2>1, <2>2, <2>3, <2>4
<1> QED
  BY <1>6, <1>7, <1>9, <1>10, <1>12, <1>13 DEF ShopInv

\* Every step of the storefront keeps the invariant.
LEMMA NextKeepsShopInv == ShopInv /\ [ShopNext]_shopVars => ShopInv'
<1> SUFFICES ASSUME ShopInv, [ShopNext]_shopVars PROVE ShopInv'
  OBVIOUS
<1>1. ASSUME NEW o \in Orders, RecordSales(o) PROVE ShopInv'
  BY <1>1, RecordSalesKeepsShopInv
<1>2. ASSUME NEW p \in pipes, Zincrby(p) \/ Expire(p) \/ Cut(p) PROVE ShopInv'
  BY <1>2, ZincrbyKeepsShopInv, ExpireKeepsShopInv, CutKeepsShopInv
<1>3. ASSUME NEW p \in Options, ChangeStock(p) PROVE ShopInv'
  BY <1>3, ChangeStockKeepsShopInv
<1>4. ASSUME UNCHANGED shopVars PROVE ShopInv'
  <2>1. /\ ShopTypes /\ PipesAdvance /\ DaysAreSums /\ KeysExpire /\ VisitsFit /\ CacheFits
    BY DEF ShopInv
  <2>2. UNCHANGED <<now, shelf, redis, cache, visit>>
    BY <1>4 DEF shopVars
  <2>3. now \in Nat
    <3>1. now \in 0..LastTick
      BY <2>1 DEF ShopTypes
    <3> QED
      BY <3>1
  <2>4. ShopTypes'
    BY <2>1, <2>2 DEF ShopTypes, shelf, redis
  <2>5. PipesAdvance' /\ DaysAreSums' /\ KeysExpire'
    BY <2>1, <2>2, RedisStays
  <2>6. FitsStay
    BY <2>2, FitsStayWhenHeld DEF shelf, redis
  <2> QED
    BY <2>1, <2>2, <2>3, <2>4, <2>5, <2>6, VisitsStay, CacheStays DEF ShopInv
<1>5. ASSUME NEW c \in Clients, Serve(c) PROVE ShopInv'
  <2>1. ASSUME NEW r \in RequestsOf[c], CacheHit(c, r) PROVE ShopInv'
    BY <1>4, <2>1 DEF CacheHit
  <2>2. ASSUME NEW r \in RequestsOf[c], CacheMiss(c, r) PROVE ShopInv'
    BY <2>2, CacheMissKeepsShopInv
  <2>3. CASE Handle(c) \/ Refuse(c) \/ SetCache(c)
    BY <2>3, HandleKeepsShopInv, RefuseKeepsShopInv, SetCacheKeepsShopInv
  <2> QED
    BY <1>5, <2>1, <2>2, <2>3 DEF Serve
<1>6. CASE Tick
  BY <1>6, TickKeepsShopInv
<1> QED
  BY <1>1, <1>2, <1>3, <1>4, <1>5, <1>6 DEF ShopNext, Consume

\* So it holds in every reachable state.
LEMMA ShopInvHolds == ShopSpec => []ShopInv
<1> QED
  BY InitShopInv, NextKeepsShopInv, PTL DEF ShopSpec

\* What a request is answered fits a tick less than a lifetime ago, for a
\* request with the same key.
LEMMA AnswersFit ==
  ASSUME ShopInv, NEW r \in ShopRequests, NEW a \in Answers(r)
  PROVE  \E s \in ShopRequests, c \in Clients, t \in 0..now :
           CacheKey(s) = CacheKey(r) /\ t > now - Ttl[c] /\ Fits(a, s, t)
<1>1. now \in 0..LastTick /\ LastTick \in Nat /\ VisitsFit /\ CacheFits
  BY ShopConstants DEF ShopInv, ShopTypes
<1>2. ASSUME NEW k \in DOMAIN cache \cap {CacheKey(r)}, a = cache[k].response
      PROVE  \E s \in ShopRequests, c \in Clients, t \in 0..now :
               CacheKey(s) = CacheKey(r) /\ t > now - Ttl[c] /\ Fits(a, s, t)
  <2>1. cache[k].until > now
    BY <1>1 DEF CacheFits
  <2>2. PICK s \in ShopRequests, c \in Clients, t \in 0..now :
          k = CacheKey(s) /\ cache[k].until = t + Ttl[c] /\ Fits(cache[k].response, s, t)
    BY <1>1 DEF CacheFits
  <2>3. Ttl[c] \in Nat /\ t > now - Ttl[c]
    BY <1>1, <2>1, <2>2, ShopConstants
  <2> QED
    BY <1>2, <2>2, <2>3
<1>3. ASSUME NEW c \in Clients, visit[c].pc = "set", visit[c].request = r,
             a = visit[c].response
      PROVE  \E s \in ShopRequests, d \in Clients, t \in 0..now :
               CacheKey(s) = CacheKey(r) /\ t > now - Ttl[d] /\ Fits(a, s, t)
  <2>1. Fits(a, r, now)
    BY <1>1, <1>3, VisitsAre
  <2>2. now \in 0..now /\ now > now - Ttl[c]
    BY <1>1, ShopConstants
  <2> QED
    BY <2>1, <2>2
<1> QED
  BY <1>2, <1>3 DEF Answers

-----------------------------------------------------------------------------
\* A key counts the sales of its day or nothing, and expires later than now;
\* what is cached does too; the stock is one the shelf had in this tick.
THEOREM ShopTypeCorrect == ShopSpec => []ShopTypeOK
<1>1. ShopInv => ShopTypeOK
  <2> SUFFICES ASSUME ShopInv PROVE ShopTypeOK
    OBVIOUS
  <2>1. ShopTypes /\ DaysAreSums /\ VisitsFit /\ CacheFits
    BY DEF ShopInv
  <2>2. \A d \in Days, p \in Options : ranking[d][p] \in {0, UnitsOf(p, OnDay(d))}
    BY <2>1 DEF DaysAreSums
  <2>3. \A k \in DOMAIN cache : cache[k].until > now
    BY <2>1 DEF CacheFits
  <2>4. \A c \in Clients : visit[c].pc \in {"none", "handle", "set"}
    BY <2>1, VisitsAre
  <2> QED
    BY <2>1, <2>2, <2>3, <2>4 DEF ShopTypeOK, ShopTypes
<1> QED
  BY <1>1, ShopInvHolds, PTL

\* No key of a day stays in Redis for ever, however pipelines of the day
\* overlap, unless one of them was cut.
THEOREM KeysDoExpire == ShopSpec => []KeysExpire
<1>1. ShopInv => KeysExpire
  BY DEF ShopInv
<1> QED
  BY <1>1, ShopInvHolds, PTL

\* While the requests that are made differ in their keys, which they do unless
\* the pages of two products are asked for, each is answered what its own
\* handler returned.
THEOREM RequestsAreAnswered ==
  ASSUME \A r, s \in ShopRequests : CacheKey(r) = CacheKey(s) => r = s
  PROVE  ShopSpec => []AnswersTheRequest
<1>1. ShopInv => AnswersTheRequest
  <2> SUFFICES ASSUME ShopInv, NEW r \in ShopRequests, NEW a \in Answers(r)
               PROVE  a.of = r
    BY DEF AnswersTheRequest
  <2>1. PICK s \in ShopRequests, c \in Clients, t \in 0..now :
          CacheKey(s) = CacheKey(r) /\ Fits(a, s, t)
    BY AnswersFit
  <2> QED
    BY <2>1 DEF Fits
<1> QED
  BY <1>1, ShopInvHolds, PTL

\* Pages aside, whatever is asked for.
OthersAreAnswered ==
  \A r \in {s \in ShopRequests : s.handler # "detail"} : \A a \in Answers(r) : a.of = r

\* A ranking and the list are answered as they were asked for, whatever other
\* requests are made: the pages of products, which share their key, cannot
\* take the place of another response.
THEOREM RankingsAreAnswered == ShopSpec => []OthersAreAnswered
<1>1. ShopInv => OthersAreAnswered
  <2> SUFFICES ASSUME ShopInv, NEW r \in ShopRequests, r.handler # "detail", NEW a \in Answers(r)
               PROVE  a.of = r
    BY DEF OthersAreAnswered
  <2>1. PICK s \in ShopRequests, c \in Clients, t \in 0..now :
          CacheKey(s) = CacheKey(r) /\ Fits(a, s, t)
    BY AnswersFit
  <2>2. s.handler = r.handler /\ s.query = r.query
    BY <2>1 DEF CacheKey
  <2>3. r \in Request /\ s \in Request
    BY ShopConstants DEF ShopRequests
  <2>4. s = r
    BY <2>2, <2>3 DEF Request
  <2> QED
    BY <2>1, <2>4 DEF Fits
<1> QED
  BY <1>1, ShopInvHolds, PTL

\* What a visitor is shown, from the cache or not, is what was sold and what
\* was in stock less than a lifetime of the cache ago, for any number of
\* orders, options, instances and deliveries.
THEOREM AnswersStayRecent == ShopSpec => []AnswersAreRecent
<1>1. ShopInv => SalesAreRecent
  <2> SUFFICES ASSUME ShopInv, NEW r \in ShopRequests, r.handler = "top", NEW a \in Answers(r)
               PROVE  \E t \in 0..now, c \in Clients :
                        t > now - Ttl[c] /\ RanksSales(a, r.query, t)
    BY DEF SalesAreRecent
  <2>1. PICK s \in ShopRequests, c \in Clients, t \in 0..now :
          CacheKey(s) = CacheKey(r) /\ t > now - Ttl[c] /\ Fits(a, s, t)
    BY AnswersFit
  <2>2. s.handler = "top" /\ s.query = r.query
    BY <2>1 DEF CacheKey
  <2> QED
    BY <2>1, <2>2 DEF Fits
<1>2. ShopInv => StocksAreRecent
  <2> SUFFICES ASSUME ShopInv, NEW r \in ShopRequests, r.handler = "detail", NEW a \in Answers(r)
               PROVE  \E t \in 0..now, c \in Clients : t > now - Ttl[c] /\ ShowsStocks(a, t)
    BY DEF StocksAreRecent
  <2>1. PICK s \in ShopRequests, c \in Clients, t \in 0..now :
          CacheKey(s) = CacheKey(r) /\ t > now - Ttl[c] /\ Fits(a, s, t)
    BY AnswersFit
  <2>2. s.handler = "detail"
    BY <2>1 DEF CacheKey
  <2> QED
    BY <2>1, <2>2 DEF Fits
<1> QED
  BY <1>1, <1>2, ShopInvHolds, PTL DEF AnswersAreRecent
=============================================================================
