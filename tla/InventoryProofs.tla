--------------------------- MODULE InventoryProofs ---------------------------
(***************************************************************************)
(* Proofs about the stock, for any number of orders, options, items and    *)
(* adjustments, any size of the pool and any runs of the scheduler.        *)
(***************************************************************************)
EXTENDS Inventory, SumLemmas

States == {"none", "reserved", "sold", "released"}

\* The entries of the ledger that are of an option and in a state
In(p, state) ==
  {e \in Entries : Items[e[1]][e[2]].option = p /\ ledger[e[1]][e[2]] = state}

Counted == {"reserved", "sold"}

Reserved == [p \in Options |-> SumOver(Units, In(p, "reserved"))]

Sold == [p \in Options |-> SumOver(Units, In(p, "sold"))]

DoneOn(p) == {a \in Adjustments : a.option = p /\ adjust[a] = "done"}

Added == [p \in Options |-> SumOver(Changes, DoneOn(p))]

Types ==
  /\ TypeOK
  /\ options \in [Options -> Option]
  /\ ledger = [o \in Orders |-> ledger[o]]
  /\ \A p \in Options : /\ \A state \in Counted : IsFiniteSet(In(p, state))
                        /\ IsFiniteSet(DoneOn(p))

Positions ==
  /\ \A o \in Orders :
       /\ create[o].pc \in {"new", "outer"} => create[o].next = 1
       /\ create[o].pc = "reserve" => create[o].next \in 1..Len(Items[o])+1
       /\ create[o].pc \in {"new", "outer", "reserve"} =>
            \A i \in 1..Len(Items[o]) : ledger[o][i] = "none"
       /\ pay[o].next > 0
  /\ \A s \in Schedulers :
       sched[s].pc \in {"read", "write"} =>
         sched[s].order \in Orders /\ sched[s].next \in 1..Len(Items[sched[s].order])

\* The items an open reservation has written and locked
Taken(o, i) == create[o].pc = "reserve" /\ i \in 1..create[o].next-1

\* What an uncommitted reservation has written is what it would write now:
\* the rows it has locked did not change, and nobody else has locked them.
Drafts ==
  \A o \in Orders : \A i \in 1..Len(Items[o]) : Taken(o, i) =>
    /\ create[o].draft[Items[o][i].option] =
         ReserveStock(options[Items[o][i].option], Items[o][i].quantity)
    /\ ValidStock(create[o].draft[Items[o][i].option])

Exclusive ==
  \A o1, o2 \in Orders : o1 # o2 =>
    \A i \in 1..Len(Items[o1]), j \in 1..Len(Items[o2]) :
      Taken(o1, i) /\ Taken(o2, j) => Items[o1][i].option # Items[o2][j].option

Accounts ==
  \A p \in Options \ spoiled :
    /\ options[p].reserved = Reserved[p]
    /\ options[p].stock = InitialStock[p] + Added[p] - Sold[p]

IInv == Types /\ Positions /\ Drafts /\ Exclusive /\ Accounts
-----------------------------------------------------------------------------
(***************************************************************************)
(* The constants.                                                          *)
(***************************************************************************)
LEMMA ItemsAre ==
  ASSUME NEW o \in Orders
  PROVE  /\ Len(Items[o]) \in Nat /\ Len(Items[o]) > 0 /\ DOMAIN Items[o] = 1..Len(Items[o])
         /\ \A i \in 1..Len(Items[o]) :
              /\ Items[o][i].option \in Options
              /\ Items[o][i].quantity \in Nat /\ Items[o][i].quantity > 0
         /\ \A i, j \in 1..Len(Items[o]) : i # j => Items[o][i].option # Items[o][j].option
<1> DEFINE Item == [option : Options, quantity : Nat \ {0}]
<1>1. /\ Items[o] \in Seq(Item) /\ Items[o] # <<>>
      /\ \A i, j \in 1..Len(Items[o]) : i # j => Items[o][i].option # Items[o][j].option
  BY InventoryAssumption DEF CreateOrderRequest
<1>2. /\ Len(Items[o]) \in Nat /\ Len(Items[o]) > 0 /\ DOMAIN Items[o] = 1..Len(Items[o])
      /\ \A i \in 1..Len(Items[o]) : Items[o][i] \in Item
  <2> HIDE DEF Item
  <2>1. Len(Items[o]) \in Nat /\ DOMAIN Items[o] = 1..Len(Items[o])
        /\ \A i \in 1..Len(Items[o]) : Items[o][i] \in Item
    BY <1>1
  <2>2. Len(Items[o]) # 0
    BY <1>1
  <2> QED
    BY <2>1, <2>2
<1>3. \A i \in 1..Len(Items[o]) :
        /\ Items[o][i].option \in Options
        /\ Items[o][i].quantity \in Nat /\ Items[o][i].quantity > 0
  BY <1>2
<1> QED
  BY <1>1, <1>2, <1>3

\* An entry of the ledger is an order and the place of an item.
LEMMA EntriesAre ==
  /\ \A o, i : <<o, i>> \in Entries <=> o \in Orders /\ i \in DOMAIN Items[o]
  /\ \A e \in Entries : /\ e = <<e[1], e[2]>>
                        /\ e[1] \in Orders /\ e[2] \in DOMAIN Items[e[1]]
  BY DEF Entries

\* The units of an entry are the quantity of its item.
LEMMA UnitsAre ==
  /\ Units \in [Entries -> Int] /\ Units \in [Entries -> Nat]
  /\ \A o \in Orders : \A i \in 1..Len(Items[o]) :
       <<o, i>> \in Entries /\ Units[<<o, i>>] = Items[o][i].quantity
<1>1. \A e \in Entries : Items[e[1]][e[2]].quantity \in Nat
  BY EntriesAre, ItemsAre
<1>2. Units \in [Entries -> Nat]
  BY <1>1 DEF Units
<1>3. ASSUME NEW o \in Orders, NEW i \in 1..Len(Items[o])
      PROVE  <<o, i>> \in Entries /\ Units[<<o, i>>] = Items[o][i].quantity
  <2>1. <<o, i>> \in Entries
    BY <1>3, EntriesAre, ItemsAre
  <2> QED
    BY <2>1 DEF Units
<1> QED
  BY <1>2, <1>3

\* The change of an adjustment is an integer.
LEMMA ChangesAre ==
  /\ Changes \in [Adjustments -> Int]
  /\ \A a \in Adjustments : a.option \in Options /\ Changes[a] = a.change /\ a.change \in Int
  BY InventoryAssumption DEF Changes, UpdateStockRequest

\* What is reserved, sold and added are the sums over the ledger.
LEMMA SumsAre ==
  ASSUME Types, NEW p \in Options
  PROVE  /\ Reserved[p] = SumOver(Units, In(p, "reserved")) /\ Reserved[p] \in Nat
         /\ Sold[p] = SumOver(Units, In(p, "sold")) /\ Sold[p] \in Nat
         /\ Added[p] = SumOver(Changes, DoneOn(p)) /\ Added[p] \in Int
<1>1. /\ IsFiniteSet(In(p, "reserved")) /\ In(p, "reserved") \in SUBSET Entries
      /\ IsFiniteSet(In(p, "sold")) /\ In(p, "sold") \in SUBSET Entries
      /\ IsFiniteSet(DoneOn(p)) /\ DoneOn(p) \in SUBSET Adjustments
  BY DEF Types, In, DoneOn, Counted
<1>2. SumOver(Units, In(p, "reserved")) \in Nat
  BY <1>1, UnitsAre, SumMonotone
<1>3. SumOver(Units, In(p, "sold")) \in Nat
  BY <1>1, UnitsAre, SumMonotone
<1>4. SumOver(Changes, DoneOn(p)) \in Int
  BY <1>1, ChangesAre, SumType
<1> QED
  BY <1>2, <1>3, <1>4 DEF Reserved, Sold, Added
-----------------------------------------------------------------------------
(***************************************************************************)
(* How the ledger moves.                                                   *)
(***************************************************************************)
LEMMA LedgerStays ==
  ASSUME ledger' = ledger
  PROVE  /\ \A p, state : In(p, state)' = In(p, state)
         /\ Reserved' = Reserved /\ Sold' = Sold
  BY DEF In, Reserved, Sold

\* Adjustments that do not change have added the same.
LEMMA AdjustStays ==
  ASSUME adjust' = adjust
  PROVE  (\A p : DoneOn(p)' = DoneOn(p)) /\ Added' = Added
  BY DEF DoneOn, Added

\* One item changes from one state to another.
Moved(o, i, from, to) ==
  ledger[o][i] = from /\ ledger' = [ledger EXCEPT ![o][i] = to]

\* A moved entry is the only one that changes.
LEMMA EntryChanges ==
  ASSUME Types, NEW o \in Orders, NEW i \in 1..Len(Items[o]),
         NEW from, NEW to, Moved(o, i, from, to), NEW e \in Entries
  PROVE  ledger'[e[1]][e[2]] = IF e = <<o, i>> THEN to ELSE ledger[e[1]][e[2]]
<1>1. ledger[o] \in [1..Len(Items[o]) -> States]
  BY DEF Types, TypeOK, States
<1>2. e = <<e[1], e[2]>> /\ e[1] \in Orders /\ e[2] \in 1..Len(Items[e[1]])
  BY EntriesAre, ItemsAre
<1>3. ledger = [x \in Orders |-> ledger[x]]
  BY DEF Types
<1>4. CASE e[1] = o
  BY <1>1, <1>2, <1>3, <1>4 DEF Moved
<1>5. CASE e[1] # o
  BY <1>2, <1>3, <1>5 DEF Moved
<1> QED
  BY <1>4, <1>5

\* A moved entry leaves one state's set and joins another's.
LEMMA EntryMoves ==
  ASSUME Types, NEW o \in Orders, NEW i \in 1..Len(Items[o]),
         NEW from \in States, NEW to \in States, from # to,
         Moved(o, i, from, to),
         NEW p, NEW state
  PROVE  /\ p = Items[o][i].option /\ state = from =>
              In(p, state)' = In(p, state) \ {<<o, i>>} /\ <<o, i>> \in In(p, state)
         /\ p = Items[o][i].option /\ state = to =>
              In(p, state)' = In(p, state) \cup {<<o, i>>} /\ <<o, i>> \notin In(p, state)
         /\ p # Items[o][i].option \/ state \notin {from, to} =>
              In(p, state)' = In(p, state)
<1> DEFINE f == <<o, i>>
<1>1. f \in Entries /\ f[1] = o /\ f[2] = i
  BY UnitsAre
<1>2. \A e : e \in In(p, state)' <=>
               /\ e \in Entries /\ Items[e[1]][e[2]].option = p
               /\ state = IF e = f THEN to ELSE ledger[e[1]][e[2]]
  BY EntryChanges DEF In
<1>3. \A e : e \in In(p, state) <=>
               e \in Entries /\ Items[e[1]][e[2]].option = p /\ ledger[e[1]][e[2]] = state
  BY DEF In
<1>4. \A e : e # f => (e \in In(p, state)' <=> e \in In(p, state))
  BY <1>2, <1>3
<1>5. /\ f \in In(p, state) <=> p = Items[o][i].option /\ state = from
      /\ f \in In(p, state)' <=> p = Items[o][i].option /\ state = to
  BY <1>1, <1>2, <1>3 DEF Moved
<1> HIDE DEF f
<1>6. CASE p = Items[o][i].option /\ state = from
  <2>1. \A e : e \in In(p, state)' <=> e \in In(p, state) \ {f}
    BY <1>4, <1>5, <1>6
  <2>2. In(p, state)' = In(p, state) \ {f}
    BY <2>1
  <2> QED
    BY <1>5, <1>6, <2>2 DEF f
<1>7. CASE p = Items[o][i].option /\ state = to
  <2>1. \A e : e \in In(p, state)' <=> e \in In(p, state) \cup {f}
    BY <1>4, <1>5, <1>7
  <2>2. In(p, state)' = In(p, state) \cup {f}
    BY <2>1
  <2> QED
    BY <1>5, <1>7, <2>2 DEF f
<1>8. CASE p # Items[o][i].option \/ state \notin {from, to}
  <2>1. \A e : e \in In(p, state)' <=> e \in In(p, state)
    BY <1>4, <1>5, <1>8
  <2>2. In(p, state)' = In(p, state)
    BY <2>1
  <2> QED
    BY <1>8, <2>2
<1> QED
  BY <1>6, <1>7, <1>8

\* The ledger of a step that moves an item, and what it does to the sums.
LEMMA SumsMove ==
  ASSUME Types, NEW o \in Orders, NEW i \in 1..Len(Items[o]),
         NEW from \in States, NEW to \in States, from # to,
         Moved(o, i, from, to)
  PROVE  /\ \A p \in Options : \A state \in Counted : IsFiniteSet(In(p, state)')
         /\ \A p \in Options \ {Items[o][i].option} :
              Reserved'[p] = Reserved[p] /\ Sold'[p] = Sold[p]
         /\ Reserved'[Items[o][i].option] = Reserved[Items[o][i].option]
              + (IF to = "reserved" THEN Items[o][i].quantity ELSE 0)
              - (IF from = "reserved" THEN Items[o][i].quantity ELSE 0)
         /\ Sold'[Items[o][i].option] = Sold[Items[o][i].option]
              + (IF to = "sold" THEN Items[o][i].quantity ELSE 0)
              - (IF from = "sold" THEN Items[o][i].quantity ELSE 0)
<1> DEFINE p == Items[o][i].option
           q == Items[o][i].quantity
           e == <<o, i>>
           Total(state) == SumOver(Units, In(p, state))
<1>1. p \in Options /\ q \in Nat /\ e \in Entries /\ Units[e] = q
  BY ItemsAre, UnitsAre
<1>2. \A r, state :
        /\ r = p /\ state = from => In(r, state)' = In(r, state) \ {e} /\ e \in In(r, state)
        /\ r = p /\ state = to => In(r, state)' = In(r, state) \cup {e} /\ e \notin In(r, state)
        /\ r # p \/ state \notin {from, to} => In(r, state)' = In(r, state)
  BY EntryMoves
<1>3. \A state \in Counted : IsFiniteSet(In(p, state)) /\ In(p, state) \in SUBSET Entries
  BY <1>1 DEF Types, In
<1>4. ASSUME NEW state \in Counted
      PROVE  /\ IsFiniteSet(In(p, state)')
             /\ SumOver(Units, In(p, state)') = Total(state)
                  + (IF state = to THEN q ELSE 0) - (IF state = from THEN q ELSE 0)
  <2>1. Total(state) \in Int
    BY <1>3, UnitsAre, SumType
  <2>2. CASE state = from
    <3>1. IsFiniteSet(In(p, state) \ {e})
      BY <1>3, FS_RemoveElement
    <3>2. Total(state) = Units[e] + SumOver(Units, In(p, state) \ {e})
      <4> HIDE DEF p, e
      <4> QED
        BY <1>2, <1>3, <2>2, UnitsAre, SumRemove
    <3>3. In(p, state)' = In(p, state) \ {e}
      BY <1>2, <2>2
    <3>4. SumOver(Units, In(p, state)') = SumOver(Units, In(p, state) \ {e})
      BY <3>3
    <3>5. SumOver(Units, In(p, state) \ {e}) \in Int
      <4>1. In(p, state) \ {e} \in SUBSET Entries
        BY <1>3
      <4> HIDE DEF p, e
      <4> QED
        BY <3>1, <4>1, UnitsAre, SumType
    <3>6. IsFiniteSet(In(p, state)')
      BY <3>1, <3>3
    <3> HIDE DEF p, e, Total, q
    <3> QED
      BY <1>1, <2>1, <2>2, <3>2, <3>4, <3>5, <3>6
  <2>3. CASE state = to
    <3>1. IsFiniteSet(In(p, state) \cup {e})
      BY <1>3, FS_AddElement
    <3>2. SumOver(Units, In(p, state) \cup {e}) = Total(state) + Units[e]
      <4> HIDE DEF p, e
      <4> QED
        BY <1>1, <1>2, <1>3, <2>3, UnitsAre, SumAdd
    <3>3. In(p, state)' = In(p, state) \cup {e}
      BY <1>2, <2>3
    <3>4. SumOver(Units, In(p, state)') = SumOver(Units, In(p, state) \cup {e})
      BY <3>3
    <3>5. IsFiniteSet(In(p, state)')
      BY <3>1, <3>3
    <3> HIDE DEF p, e, Total, q
    <3> QED
      BY <1>1, <2>1, <2>3, <3>2, <3>4, <3>5
  <2>4. CASE state # from /\ state # to
    <3>1. In(p, state)' = In(p, state)
      BY <1>2, <2>4
    <3>2. SumOver(Units, In(p, state)') = Total(state)
      BY <3>1
    <3>3. IsFiniteSet(In(p, state)')
      BY <1>3, <3>1
    <3> HIDE DEF p, e, Total, q
    <3> QED
      BY <2>1, <2>4, <3>2, <3>3
  <2> QED
    BY <2>2, <2>3, <2>4
<1>5. \A r \in Options \ {p} : \A state : In(r, state)' = In(r, state)
  BY <1>2
<1>6. \A r \in Options : \A state \in Counted : IsFiniteSet(In(r, state)')
  BY <1>4, <1>5 DEF Types
<1>7. \A r \in Options \ {p} : Reserved'[r] = Reserved[r] /\ Sold'[r] = Sold[r]
  BY <1>5 DEF Reserved, Sold
<1>8. /\ Reserved[p] = Total("reserved") /\ Sold[p] = Total("sold")
      /\ Reserved'[p] = SumOver(Units, In(p, "reserved")')
      /\ Sold'[p] = SumOver(Units, In(p, "sold")')
  BY <1>1 DEF Reserved, Sold
<1>9. "reserved" \in Counted /\ "sold" \in Counted
  BY DEF Counted
<1>10. Reserved'[p] = Reserved[p]
           + (IF to = "reserved" THEN q ELSE 0) - (IF from = "reserved" THEN q ELSE 0)
  <2> HIDE DEF p, q, Total
  <2> QED
    BY <1>4, <1>8, <1>9
<1>11. Sold'[p] = Sold[p]
           + (IF to = "sold" THEN q ELSE 0) - (IF from = "sold" THEN q ELSE 0)
  <2> HIDE DEF p, q, Total
  <2> QED
    BY <1>4, <1>8, <1>9
<1> QED
  BY <1>6, <1>7, <1>10, <1>11

\* A reservation moves every item of its order at once, at most one of them
\* of any option.
Commits(o) ==
  /\ \A i \in 1..Len(Items[o]) : ledger[o][i] = "none"
  /\ ledger' = [ledger EXCEPT ![o] = [i \in DOMAIN ledger[o] |-> "reserved"]]

\* A creation that commits has its items join the reserved ones.
LEMMA CommitMoves ==
  ASSUME Types, NEW o \in Orders, Commits(o), NEW p
  PROVE  /\ In(p, "sold")' = In(p, "sold")
         /\ p \notin OptionsOf(o) => In(p, "reserved")' = In(p, "reserved")
         /\ \A i \in 1..Len(Items[o]) : p = Items[o][i].option =>
              /\ In(p, "reserved")' = In(p, "reserved") \cup {<<o, i>>}
              /\ <<o, i>> \notin In(p, "reserved")
<1>1. ledger[o] \in [1..Len(Items[o]) -> States] /\ ledger = [x \in Orders |-> ledger[x]]
  BY DEF Types, TypeOK, States
<1>2. \A x \in Orders : \A i \in 1..Len(Items[x]) :
        ledger'[x][i] = IF x = o THEN "reserved" ELSE ledger[x][i]
  BY <1>1 DEF Commits
<1>3. \A e \in Entries :
        /\ e = <<e[1], e[2]>> /\ e[1] \in Orders /\ e[2] \in 1..Len(Items[e[1]])
        /\ ledger'[e[1]][e[2]] = IF e[1] = o THEN "reserved" ELSE ledger[e[1]][e[2]]
        /\ e[1] = o => ledger[e[1]][e[2]] = "none"
  BY <1>2, EntriesAre, ItemsAre DEF Commits
<1>4. \A e : e \in In(p, "sold")' <=> e \in In(p, "sold")
  BY <1>3 DEF In
<1>5. \A e : e \in In(p, "reserved")' <=>
               \/ e \in In(p, "reserved")
               \/ e \in Entries /\ e[1] = o /\ Items[o][e[2]].option = p
  BY <1>3 DEF In
<1>6. ASSUME p \notin OptionsOf(o)
      PROVE  In(p, "reserved")' = In(p, "reserved")
  <2>1. \A e \in Entries : e[1] = o => Items[o][e[2]].option # p
    BY <1>3, <1>6 DEF OptionsOf
  <2>2. \A e : e \in In(p, "reserved")' <=> e \in In(p, "reserved")
    BY <1>5, <2>1
  <2> QED
    BY <2>2
<1>7. ASSUME NEW i \in 1..Len(Items[o]), p = Items[o][i].option
      PROVE  /\ In(p, "reserved")' = In(p, "reserved") \cup {<<o, i>>}
             /\ <<o, i>> \notin In(p, "reserved")
  <2> DEFINE f == <<o, i>>
  <2>1. f \in Entries /\ f[1] = o /\ f[2] = i
    BY UnitsAre
  <2>2. \A e \in Entries : e[1] = o /\ Items[o][e[2]].option = p => e = f
    BY <1>3, <1>7, ItemsAre
  <2>3. f \notin In(p, "reserved")
    BY <1>3, <2>1 DEF In
  <2> HIDE DEF f
  <2>4. \A e : e \in In(p, "reserved")' <=> e \in In(p, "reserved") \cup {f}
    BY <1>5, <1>7, <2>1, <2>2
  <2>5. In(p, "reserved")' = In(p, "reserved") \cup {f}
    BY <2>4
  <2> QED
    BY <2>3, <2>5 DEF f
<1>8. In(p, "sold")' = In(p, "sold")
  BY <1>4
<1> QED
  BY <1>6, <1>7, <1>8

\* Then the reserved sums grow by the quantities of its items.
LEMMA CommitSums ==
  ASSUME Types, NEW o \in Orders, Commits(o), NEW p \in Options
  PROVE  /\ \A state \in Counted : IsFiniteSet(In(p, state)')
         /\ Sold'[p] = Sold[p]
         /\ p \notin OptionsOf(o) => Reserved'[p] = Reserved[p]
         /\ \A i \in 1..Len(Items[o]) : p = Items[o][i].option =>
              Reserved'[p] = Reserved[p] + Items[o][i].quantity
<1>1. /\ In(p, "sold")' = In(p, "sold")
      /\ p \notin OptionsOf(o) => In(p, "reserved")' = In(p, "reserved")
      /\ \A i \in 1..Len(Items[o]) : p = Items[o][i].option =>
           /\ In(p, "reserved")' = In(p, "reserved") \cup {<<o, i>>}
           /\ <<o, i>> \notin In(p, "reserved")
  BY CommitMoves
<1>2. \A state \in Counted : IsFiniteSet(In(p, state)) /\ In(p, state) \in SUBSET Entries
  BY DEF Types, In
<1>3. /\ Reserved'[p] = SumOver(Units, In(p, "reserved")')
      /\ Reserved[p] = SumOver(Units, In(p, "reserved"))
      /\ Sold'[p] = SumOver(Units, In(p, "sold")')
      /\ Sold[p] = SumOver(Units, In(p, "sold"))
  BY DEF Reserved, Sold
<1>4. "reserved" \in Counted /\ "sold" \in Counted /\ Counted = {"reserved", "sold"}
  BY DEF Counted
<1>5. Sold'[p] = Sold[p] /\ IsFiniteSet(In(p, "sold")')
  BY <1>1, <1>2, <1>3, <1>4
<1>6. CASE p \notin OptionsOf(o)
  <2>1. Reserved'[p] = Reserved[p] /\ IsFiniteSet(In(p, "reserved")')
    BY <1>1, <1>2, <1>3, <1>4, <1>6
  <2>2. \A i \in 1..Len(Items[o]) : p # Items[o][i].option
    BY <1>6 DEF OptionsOf
  <2> QED
    BY <1>4, <1>5, <2>1, <2>2
<1>7. CASE p \in OptionsOf(o)
  <2>1. PICK i \in 1..Len(Items[o]) : p = Items[o][i].option
    BY <1>7 DEF OptionsOf
  <2> DEFINE f == <<o, i>>
  <2>2. f \in Entries /\ Units[f] = Items[o][i].quantity
    BY UnitsAre
  <2>3. /\ In(p, "reserved")' = In(p, "reserved") \cup {f} /\ f \notin In(p, "reserved")
    BY <1>1, <2>1
  <2> HIDE DEF f
  <2>4. SumOver(Units, In(p, "reserved") \cup {f}) = SumOver(Units, In(p, "reserved")) + Units[f]
    BY <1>2, <1>4, <2>2, <2>3, UnitsAre, SumAdd
  <2>5. IsFiniteSet(In(p, "reserved") \cup {f})
    BY <1>2, <1>4, FS_AddElement
  <2>6. Reserved'[p] = Reserved[p] + Items[o][i].quantity
    BY <1>3, <2>2, <2>3, <2>4
  <2>7. \A j \in 1..Len(Items[o]) : p = Items[o][j].option => j = i
    BY <2>1, ItemsAre
  <2> QED
    BY <1>4, <1>5, <1>7, <2>3, <2>5, <2>6, <2>7
<1> QED
  BY <1>6, <1>7

\* An adjustment is done.
Adjusts(a) ==
  adjust \in [Adjustments -> {"new", "outer", "done", "failed"}] /\ adjust[a] # "done"
  /\ adjust' = [adjust EXCEPT ![a] = "done"]

\* An adjustment that commits adds its change to its option.
LEMMA AdjustSums ==
  ASSUME Types, NEW a \in Adjustments, Adjusts(a), NEW p \in Options
  PROVE  /\ IsFiniteSet(DoneOn(p)')
         /\ Added'[p] = Added[p] + (IF p = a.option THEN a.change ELSE 0)
<1>1. \A b \in Adjustments : adjust'[b] = "done" <=> b = a \/ adjust[b] = "done"
  BY DEF Adjusts
<1>2. a \notin DoneOn(p) /\ IsFiniteSet(DoneOn(p)) /\ DoneOn(p) \in SUBSET Adjustments
  BY DEF Adjusts, DoneOn, Types
<1>3. Added'[p] = SumOver(Changes, DoneOn(p)') /\ Added[p] = SumOver(Changes, DoneOn(p))
  BY DEF Added
<1>4. CASE p = a.option
  <2>1. DoneOn(p)' = DoneOn(p) \cup {a}
    BY <1>1, <1>4 DEF DoneOn
  <2>2. SumOver(Changes, DoneOn(p) \cup {a}) = SumOver(Changes, DoneOn(p)) + Changes[a]
    BY <1>2, ChangesAre, SumAdd
  <2>3. IsFiniteSet(DoneOn(p) \cup {a})
    BY <1>2, FS_AddElement
  <2> QED
    BY <1>3, <1>4, <2>1, <2>2, <2>3, ChangesAre
<1>5. CASE p # a.option
  <2>1. DoneOn(p)' = DoneOn(p)
    BY <1>1, <1>5 DEF DoneOn
  <2>2. Added[p] \in Int
    BY SumsAre
  <2> QED
    BY <1>2, <1>3, <1>5, <2>1, <2>2
<1> QED
  BY <1>4, <1>5
-----------------------------------------------------------------------------
(***************************************************************************)
(* What a step may leave alone.                                            *)
(***************************************************************************)
Creates == [pc : {"new", "outer", "reserve", "insert", "done", "failed"},
            next : Nat, draft : [Options -> Option]]

Payments == [pc : {"idle", "mark", "confirm", "undo", "done"}, next : Nat, reopened : BOOLEAN]

Runs == [pc : {"idle", "expire", "read", "write"}, work : SUBSET Scanned,
         order : Orders \cup {NoOrder}, next : Nat, seen : Option]

Statuses == {"none", "PENDING", "PAYMENT_PROCESSING", "PAID", "EXPIRED"}

OptionsOK == options \in [Options -> Option] /\ \A p \in Options : ValidStock(options[p])

LedgerOK ==
  /\ ledger = [o \in Orders |-> ledger[o]]
  /\ \A o \in Orders : ledger[o] \in [1..Len(Items[o]) -> States]

RestOK ==
  /\ orders \in [Orders -> Statuses] /\ lapsed \subseteq Orders
  /\ create \in [Orders -> Creates] /\ pay \in [Orders -> Payments]
  /\ sched \in [Schedulers -> Runs]
  /\ adjust \in [Adjustments -> {"new", "outer", "done", "failed"}]
  /\ spoiled \subseteq Options

FiniteSums ==
  \A p \in Options : /\ \A state \in Counted : IsFiniteSet(In(p, state))
                     /\ IsFiniteSet(DoneOn(p))

\* The types, as the four parts that the proofs keep one by one
LEMMA TypesAre == Types <=> (OptionsOK /\ LedgerOK /\ RestOK /\ FiniteSums)
<1>1. Types => OptionsOK
  BY DEF Types, TypeOK, OptionsOK, ValidStock
<1>2. Types => LedgerOK
  BY DEF Types, TypeOK, LedgerOK, States
<1>3. Types => RestOK
  BY DEF Types, TypeOK, RestOK, Creates, Payments, Runs, Statuses
<1>4. Types => FiniteSums
  BY DEF Types, FiniteSums
<1>5. OptionsOK /\ LedgerOK /\ RestOK => TypeOK
  BY DEF OptionsOK, ValidStock, LedgerOK, States, RestOK, Creates, Payments, Runs, Statuses,
         TypeOK
<1>6. OptionsOK /\ LedgerOK /\ RestOK /\ FiniteSums => Types
  BY <1>5 DEF Types, OptionsOK, LedgerOK, FiniteSums
<1> QED
  BY <1>1, <1>2, <1>3, <1>4, <1>6

\* The four parts give the types after a step.
LEMMA TypesNext == OptionsOK' /\ LedgerOK' /\ RestOK' /\ FiniteSums' => Types'
  BY TypesAre, PTL

\* The rows of the options and their first stock have their types.
LEMMA RowsAre ==
  ASSUME Types
  PROVE  /\ InitialStock \in [Options -> Nat] /\ spoiled \subseteq Options
         /\ \A p \in Options : options[p].stock \in Int /\ options[p].reserved \in Int
  BY TypesAre, InventoryAssumption DEF OptionsOK, Option, RestOK

\* No row is written and no item moves.
LEMMA AccountsStay ==
  ASSUME Types, Accounts, options' = options, ledger' = ledger, adjust' = adjust,
         spoiled \subseteq spoiled'
  PROVE  Accounts' /\ FiniteSums' /\ OptionsOK' /\ LedgerOK'
<1>1. Reserved' = Reserved /\ Sold' = Sold /\ Added' = Added
  BY LedgerStays, AdjustStays
<1>2. Accounts'
  BY <1>1 DEF Accounts
<1>3. FiniteSums'
  BY LedgerStays, AdjustStays, TypesAre DEF FiniteSums
<1>4. OptionsOK' /\ LedgerOK'
  BY TypesAre DEF OptionsOK, LedgerOK
<1> QED
  BY <1>2, <1>3, <1>4

\* Whoever is not creating an order respects the locks of those who are.
LEMMA DraftsStay ==
  ASSUME Drafts, Exclusive, create' = create,
         \A p \in Options : Locked(p) => options'[p] = options[p]
  PROVE  Drafts' /\ Exclusive'
<1>1. \A o \in Orders : \A i \in 1..Len(Items[o]) : Taken(o, i)' <=> Taken(o, i)
  BY DEF Taken
<1>2. \A o \in Orders : \A i \in 1..Len(Items[o]) : Taken(o, i) => Locked(Items[o][i].option)
  BY DEF Taken, Locked
<1>3. \A o \in Orders : \A i \in 1..Len(Items[o]) :
        Taken(o, i) => options'[Items[o][i].option] = options[Items[o][i].option]
  BY <1>2, ItemsAre
<1>4. Drafts'
  BY <1>1, <1>3 DEF Drafts
<1>5. Exclusive'
  BY <1>1 DEF Exclusive
<1> QED
  BY <1>4, <1>5

\* A step of a creation that writes nothing yet, or not any more
SetCreate(o, rec) == create' = [create EXCEPT ![o] = rec]

Before == {"new", "outer", "reserve"}

\* A creation that neither locks, drafts nor commits keeps the invariant.
LEMMA CreateQuietly ==
  ASSUME IInv, NEW o \in Orders, NEW rec \in Creates, SetCreate(o, rec),
         rec.pc = "reserve" => rec.next = 1,
         rec.pc \in {"new", "outer"} => rec.next = 1,
         rec.pc \in Before => create[o].pc \in Before,
         orders' \in [Orders -> Statuses],
         UNCHANGED <<options, lapsed, pay, sched, adjust, ledger, spoiled>>
  PROVE  IInv'
<1>1. Types /\ create \in [Orders -> Creates]
  BY TypesAre DEF IInv, RestOK
<1>2. create' \in [Orders -> Creates] /\ create'[o] = rec /\ \A x \in Orders \ {o} : create'[x] = create[x]
  BY <1>1 DEF SetCreate
<1>3. Accounts' /\ FiniteSums' /\ OptionsOK' /\ LedgerOK'
  BY AccountsStay DEF IInv
<1>4. RestOK'
  BY <1>1, <1>2, TypesAre DEF RestOK
<1>5. Positions'
  BY <1>2, ItemsAre DEF IInv, Positions, Before
<1>6. \A x \in Orders : \A i \in 1..Len(Items[x]) : Taken(x, i)' => x # o /\ Taken(x, i)
  BY <1>2, ItemsAre DEF Taken
<1>7. Drafts'
  BY <1>2, <1>6 DEF IInv, Drafts
<1>8. Exclusive'
  BY <1>6 DEF IInv, Exclusive
<1> QED
  BY <1>3, <1>4, <1>5, <1>7, <1>8, TypesNext DEF IInv

\* The records of the creations have their fields.
LEMMA CreateRecords ==
  ASSUME Types, NEW o \in Orders
  PROVE  /\ create \in [Orders -> Creates] /\ create[o] \in Creates
         /\ orders \in [Orders -> Statuses]
         /\ create[o].next \in Nat /\ create[o].draft \in [Options -> Option]
         /\ \A pc \in {"insert", "done", "failed"} : Closed(pc) \in Creates
  BY TypesAre DEF RestOK, Creates, Closed, NoDraft, Option

\* Opening, inserting and failing are such steps.
LEMMA QuietCreationKeepsIInv ==
  ASSUME IInv, NEW o \in Orders,
         OpenOuter(o) \/ OpenInner(o) \/ InsertOrder(o) \/ CreateFails(o)
  PROVE  IInv'
<1>1. /\ Types /\ create \in [Orders -> Creates] /\ create[o] \in Creates
      /\ orders \in [Orders -> Statuses]
      /\ create[o].next \in Nat /\ create[o].draft \in [Options -> Option]
      /\ Closed("failed") \in Creates
  BY CreateRecords DEF IInv
<1> DEFINE To(pc) == [pc |-> pc, next |-> create[o].next, draft |-> create[o].draft]
<1>2. \A pc \in {"outer", "reserve", "done"} : To(pc) \in Creates
  BY <1>1 DEF Creates
<1>3. ASSUME NEW from, NEW to, Creating(o, from, to)
      PROVE  create[o].pc = from /\ SetCreate(o, To(to))
  <2>1. create' = [create EXCEPT ![o].pc = to] /\ create[o].pc = from
    BY <1>3 DEF Creating
  <2>2. \A x \in Orders : create'[x] = IF x = o THEN To(to) ELSE create[x]
    BY <1>1, <2>1 DEF Creates
  <2>3. create' = [x \in Orders |-> create'[x]]
    BY <1>1, <2>1
  <2> HIDE DEF To
  <2>4. create' = [create EXCEPT ![o] = To(to)]
    BY <1>1, <2>2, <2>3
  <2> QED
    BY <2>1, <2>4 DEF SetCreate
<1>4. CASE OpenOuter(o)
  <2>1. SetCreate(o, To("outer")) /\ create[o].pc = "new"
    BY <1>3, <1>4 DEF OpenOuter
  <2>2. create[o].next = 1
    BY <2>1 DEF IInv, Positions
  <2>3. UNCHANGED <<options, orders, lapsed, pay, sched, adjust, ledger, spoiled>>
    BY <1>4 DEF OpenOuter
  <2> QED
    BY <1>1, <1>2, <2>1, <2>2, <2>3, CreateQuietly DEF Before
<1>5. CASE OpenInner(o)
  <2>1. SetCreate(o, To("reserve")) /\ create[o].pc = "outer"
    BY <1>3, <1>5 DEF OpenInner
  <2>2. create[o].next = 1
    BY <2>1 DEF IInv, Positions
  <2>3. UNCHANGED <<options, orders, lapsed, pay, sched, adjust, ledger, spoiled>>
    BY <1>5 DEF OpenInner
  <2> QED
    BY <1>1, <1>2, <2>1, <2>2, <2>3, CreateQuietly DEF Before
<1>6. CASE InsertOrder(o)
  <2>1. SetCreate(o, To("done"))
    BY <1>3, <1>6 DEF InsertOrder
  <2>2. /\ orders' \in [Orders -> Statuses]
        /\ UNCHANGED <<options, lapsed, pay, sched, adjust, ledger, spoiled>>
    BY <1>1, <1>6 DEF InsertOrder, PendingOrder, Statuses
  <2> QED
    BY <1>2, <2>1, <2>2, CreateQuietly DEF Before
<1>7. CASE CreateFails(o)
  <2>1. SetCreate(o, Closed("failed")) /\ Closed("failed").pc = "failed"
    BY <1>7 DEF CreateFails, SetCreate, Closed
  <2>2. UNCHANGED <<options, orders, lapsed, pay, sched, adjust, ledger, spoiled>>
    BY <1>7 DEF CreateFails
  <2> QED
    BY <1>1, <2>1, <2>2, CreateQuietly DEF Before
<1> QED
  BY <1>4, <1>5, <1>6, <1>7

\* One more row is locked and written, in the transaction only.
LEMMA ReserveItemKeepsIInv ==
  ASSUME IInv, NEW o \in Orders, ReserveItem(o)
  PROVE  IInv'
<1> DEFINE n == create[o].next
           p == Items[o][n].option
           reserved == ReserveStock(options[p], Items[o][n].quantity)
           rec == [pc |-> "reserve", next |-> n + 1,
                   draft |-> [create[o].draft EXCEPT ![p] = reserved]]
<1>1. /\ Types /\ create \in [Orders -> Creates] /\ create[o] \in Creates
      /\ orders \in [Orders -> Statuses]
      /\ create[o].next \in Nat /\ create[o].draft \in [Options -> Option]
      /\ Closed("failed") \in Creates
  BY CreateRecords DEF IInv
<1>2. /\ create[o].pc = "reserve" /\ n <= Len(Items[o]) /\ ~ Locked(p)
      /\ create' = [create EXCEPT ![o] = IF ValidStock(reserved) THEN rec ELSE Closed("failed")]
      /\ UNCHANGED <<options, orders, lapsed, pay, sched, adjust, ledger, spoiled>>
  BY DEF ReserveItem, NextItem
<1>3. n \in 1..Len(Items[o]) /\ n \in Nat /\ Len(Items[o]) \in Nat
  BY <1>1, <1>2, ItemsAre DEF IInv, Positions
<1>4. /\ p \in Options /\ Items[o][n].quantity \in Nat
      /\ \A i \in 1..Len(Items[o]) : i # n => Items[o][i].option # p
  BY <1>3, ItemsAre
<1>5. CASE ~ ValidStock(reserved)
  <2>1. SetCreate(o, Closed("failed")) /\ Closed("failed").pc = "failed"
    BY <1>2, <1>5 DEF SetCreate, Closed
  <2> QED
    BY <1>1, <1>2, <2>1, CreateQuietly DEF Before
<1>6. CASE ValidStock(reserved)
  <2>1. reserved \in Option
    BY <1>1, <1>4, RowsAre DEF ReserveStock, Option
  <2>2. rec \in Creates
    <3>1. n + 1 \in Nat
      BY <1>3
    <3>2. [create[o].draft EXCEPT ![p] = reserved] \in [Options -> Option]
      <4> HIDE DEF p, reserved
      <4> QED
        BY <1>1, <1>4, <2>1
    <3> HIDE DEF n, p, reserved
    <3> QED
      BY <3>1, <3>2 DEF Creates
  <2>3. /\ create' \in [Orders -> Creates] /\ create'[o] = rec
        /\ \A x \in Orders \ {o} : create'[x] = create[x]
    BY <1>1, <1>2, <1>6, <2>2
  <2>4. Accounts' /\ FiniteSums' /\ OptionsOK' /\ LedgerOK'
    BY <1>1, <1>2, AccountsStay DEF IInv
  <2>5. RestOK'
    BY <1>1, <1>2, <2>3, TypesAre DEF RestOK
  <2>6. Positions'
    <3>1. create'[o].pc = "reserve" /\ create'[o].next \in 1..Len(Items[o])+1
      BY <1>3, <2>3
    <3>2. \A i \in 1..Len(Items[o]) : ledger[o][i] = "none"
      BY <1>2 DEF IInv, Positions
    <3> QED
      BY <1>2, <2>3, <3>1, <3>2 DEF IInv, Positions
  <2>7. \A x \in Orders : \A i \in 1..Len(Items[x]) :
          Taken(x, i)' <=> Taken(x, i) \/ (x = o /\ i = n)
    <3>1. \A i \in 1..Len(Items[o]) : i \in 1..create'[o].next-1 <=> i \in 1..n-1 \/ i = n
      BY <1>3, <2>3
    <3>2. \A i \in 1..Len(Items[o]) : Taken(o, i)' <=> Taken(o, i) \/ i = n
      <4>1. create[o].pc = "reserve" /\ create'[o].pc = "reserve" /\ create[o].next = n
        BY <1>2, <2>3
      <4> HIDE DEF n
      <4> QED
        BY <3>1, <4>1 DEF Taken
    <3>3. \A x \in Orders \ {o} : \A i \in 1..Len(Items[x]) : Taken(x, i)' <=> Taken(x, i)
      BY <2>3 DEF Taken
    <3> QED
      BY <3>2, <3>3
  <2>8. \A x \in Orders : \A i \in 1..Len(Items[x]) : Taken(x, i) => Items[x][i].option # p
    BY <1>2 DEF Locked, Taken
  <2>9. create'[o].draft[p] = reserved
        /\ \A r \in Options \ {p} : create'[o].draft[r] = create[o].draft[r]
    BY <1>1, <1>4, <2>3
  <2>10. Drafts'
    <3> SUFFICES ASSUME NEW x \in Orders, NEW i \in 1..Len(Items[x]), Taken(x, i)'
                 PROVE  /\ create'[x].draft[Items[x][i].option] =
                             ReserveStock(options[Items[x][i].option], Items[x][i].quantity)
                        /\ ValidStock(create'[x].draft[Items[x][i].option])
      BY <1>2 DEF Drafts
    <3>1. CASE x = o /\ i = n
      BY <1>6, <2>9, <3>1
    <3>2. CASE ~ (x = o /\ i = n)
      <4>1. Taken(x, i)
        BY <2>7, <3>2
      <4>2. /\ create[x].draft[Items[x][i].option] =
                 ReserveStock(options[Items[x][i].option], Items[x][i].quantity)
            /\ ValidStock(create[x].draft[Items[x][i].option])
        BY <4>1 DEF IInv, Drafts
      <4>3. create'[x].draft[Items[x][i].option] = create[x].draft[Items[x][i].option]
        <5>1. Items[x][i].option \in Options \ {p}
          BY <2>8, <4>1, ItemsAre
        <5> QED
          BY <2>3, <2>9, <5>1
      <4> QED
        BY <4>2, <4>3
    <3> QED
      BY <3>1, <3>2
  <2>11. Exclusive'
    <3> SUFFICES ASSUME NEW x \in Orders, NEW y \in Orders, x # y,
                        NEW i \in 1..Len(Items[x]), NEW j \in 1..Len(Items[y]),
                        Taken(x, i)', Taken(y, j)'
                 PROVE  Items[x][i].option # Items[y][j].option
      BY DEF Exclusive
    <3>1. CASE x = o /\ i = n
      BY <2>7, <2>8, <3>1
    <3>2. CASE y = o /\ j = n
      BY <2>7, <2>8, <3>2
    <3>3. CASE ~ (x = o /\ i = n) /\ ~ (y = o /\ j = n)
      BY <2>7, <3>3 DEF IInv, Exclusive
    <3> QED
      BY <3>1, <3>2, <3>3
  <2> QED
    BY <2>4, <2>5, <2>6, <2>10, <2>11, TypesNext DEF IInv
<1> QED
  BY <1>5, <1>6

\* The rows written in the transaction become the committed ones.
LEMMA CommitReservationKeepsIInv ==
  ASSUME IInv, NEW o \in Orders, CommitReservation(o)
  PROVE  IInv'
<1>1. /\ Types /\ create \in [Orders -> Creates] /\ create[o] \in Creates
      /\ create[o].next \in Nat /\ create[o].draft \in [Options -> Option]
      /\ Closed("insert") \in Creates
  BY CreateRecords DEF IInv
<1>2. /\ create[o].pc = "reserve" /\ create[o].next > Len(Items[o])
      /\ create' = [create EXCEPT ![o] = Closed("insert")]
      /\ options' = [p \in Options |->
                       IF p \in OptionsOf(o) THEN create[o].draft[p] ELSE options[p]]
      /\ ledger' = [ledger EXCEPT ![o] = [i \in DOMAIN ledger[o] |-> "reserved"]]
      /\ UNCHANGED <<orders, lapsed, pay, sched, adjust, spoiled>>
  BY DEF CommitReservation
<1>3. Closed("insert").pc = "insert"
  BY DEF Closed
<1>4. /\ create' \in [Orders -> Creates] /\ create'[o] = Closed("insert")
      /\ \A x \in Orders \ {o} : create'[x] = create[x]
  BY <1>1, <1>2
<1>5. ledger = [x \in Orders |-> ledger[x]] /\ ledger[o] \in [1..Len(Items[o]) -> States]
  BY TypesAre DEF IInv, LedgerOK
<1>6. Commits(o)
  BY <1>2 DEF Commits, IInv, Positions
<1>7. \A i \in 1..Len(Items[o]) : Taken(o, i)
  BY <1>1, <1>2, ItemsAre DEF Taken
<1>8. ASSUME NEW i \in 1..Len(Items[o])
      PROVE  /\ Items[o][i].option \in Options /\ Items[o][i].quantity \in Nat
             /\ options'[Items[o][i].option] =
                  ReserveStock(options[Items[o][i].option], Items[o][i].quantity)
             /\ ValidStock(options'[Items[o][i].option])
  <2>1. /\ create[o].draft[Items[o][i].option] =
             ReserveStock(options[Items[o][i].option], Items[o][i].quantity)
        /\ ValidStock(create[o].draft[Items[o][i].option])
    BY <1>7 DEF IInv, Drafts
  <2>2. Items[o][i].option \in Options /\ Items[o][i].quantity \in Nat
    BY ItemsAre
  <2>3. Items[o][i].option \in OptionsOf(o)
    BY DEF OptionsOf
  <2>4. options'[Items[o][i].option] = create[o].draft[Items[o][i].option]
    BY <1>2, <2>2, <2>3
  <2> QED
    BY <2>1, <2>2, <2>4
<1>9. \A p \in Options \ OptionsOf(o) : options'[p] = options[p]
  BY <1>2
<1>10. OptionsOK'
  <2>1. options \in [Options -> Option] /\ \A p \in Options : ValidStock(options[p])
    BY TypesAre DEF IInv, OptionsOK
  <2>2. options' \in [Options -> Option]
    BY <1>1, <1>2, <2>1
  <2>3. \A p \in Options : ValidStock(options'[p])
    BY <1>8, <1>9, <2>1 DEF OptionsOf
  <2> QED
    BY <2>2, <2>3 DEF OptionsOK
<1>11. LedgerOK'
  <2>1. [i \in DOMAIN ledger[o] |-> "reserved"] \in [1..Len(Items[o]) -> States]
    BY <1>5 DEF States
  <2>2. /\ ledger' = [x \in Orders |-> ledger'[x]]
        /\ ledger'[o] = [i \in DOMAIN ledger[o] |-> "reserved"]
        /\ \A x \in Orders \ {o} : ledger'[x] = ledger[x]
    BY <1>2, <1>5
  <2> QED
    BY <2>1, <2>2, TypesAre DEF IInv, LedgerOK
<1>12. RestOK'
  BY <1>1, <1>2, <1>4, TypesAre DEF RestOK
<1>13. FiniteSums'
  <2>1. \A p \in Options : \A state \in Counted : IsFiniteSet(In(p, state)')
    BY <1>1, <1>6, CommitSums
  <2>2. \A p \in Options : IsFiniteSet(DoneOn(p)')
    BY <1>1, <1>2, AdjustStays DEF Types
  <2> QED
    BY <2>1, <2>2 DEF FiniteSums
<1>14. Positions'
  <2>1. \A x \in Orders \ {o} : create'[x] = create[x] /\ ledger'[x] = ledger[x]
    BY <1>2, <1>4, <1>5
  <2> QED
    BY <1>2, <1>3, <1>4, <2>1 DEF IInv, Positions
<1>15. \A x \in Orders : \A i \in 1..Len(Items[x]) : Taken(x, i)' => x # o /\ Taken(x, i)
  BY <1>3, <1>4 DEF Taken
<1>16. Drafts'
  <2> SUFFICES ASSUME NEW x \in Orders, NEW i \in 1..Len(Items[x]), Taken(x, i)'
               PROVE  /\ create'[x].draft[Items[x][i].option] =
                           ReserveStock(options'[Items[x][i].option], Items[x][i].quantity)
                      /\ ValidStock(create'[x].draft[Items[x][i].option])
    BY DEF Drafts
  <2>1. x # o /\ Taken(x, i) /\ create'[x] = create[x]
    BY <1>4, <1>15
  <2>2. \A j \in 1..Len(Items[o]) : Items[x][i].option # Items[o][j].option
    BY <1>7, <2>1 DEF IInv, Exclusive
  <2>3. Items[x][i].option \in Options \ OptionsOf(o)
    BY <2>2, ItemsAre DEF OptionsOf
  <2>4. options'[Items[x][i].option] = options[Items[x][i].option]
    BY <1>9, <2>3
  <2>5. /\ create[x].draft[Items[x][i].option] =
             ReserveStock(options[Items[x][i].option], Items[x][i].quantity)
        /\ ValidStock(create[x].draft[Items[x][i].option])
    BY <2>1 DEF IInv, Drafts
  <2> QED
    BY <2>1, <2>4, <2>5
<1>17. Exclusive'
  BY <1>15 DEF IInv, Exclusive
<1>18. Accounts'
  <2> SUFFICES ASSUME NEW p \in Options \ spoiled
               PROVE  /\ options'[p].reserved = Reserved'[p]
                      /\ options'[p].stock = InitialStock[p] + Added'[p] - Sold'[p]
    BY <1>2 DEF Accounts
  <2>1. /\ options[p].reserved = Reserved[p]
        /\ options[p].stock = InitialStock[p] + Added[p] - Sold[p]
    BY DEF IInv, Accounts
  <2>2. Added'[p] = Added[p]
    BY <1>2, AdjustStays
  <2>3. /\ Sold'[p] = Sold[p]
        /\ p \notin OptionsOf(o) => Reserved'[p] = Reserved[p]
        /\ \A i \in 1..Len(Items[o]) : p = Items[o][i].option =>
             Reserved'[p] = Reserved[p] + Items[o][i].quantity
    BY <1>1, <1>6, CommitSums
  <2>4. CASE p \notin OptionsOf(o)
    BY <1>9, <2>1, <2>2, <2>3, <2>4
  <2>5. CASE p \in OptionsOf(o)
    <3>1. PICK i \in 1..Len(Items[o]) : p = Items[o][i].option
      BY <2>5 DEF OptionsOf
    <3>2. options'[p].stock = options[p].stock
          /\ options'[p].reserved = options[p].reserved + Items[o][i].quantity
      <4>1. options'[p] = ReserveStock(options[p], Items[o][i].quantity)
        BY <1>8, <3>1
      <4> QED
        BY <4>1 DEF ReserveStock
    <3>3. Reserved'[p] = Reserved[p] + Items[o][i].quantity
      BY <2>3, <3>1
    <3> QED
      BY <2>1, <2>2, <2>3, <3>2, <3>3
  <2> QED
    BY <2>4, <2>5
<1> QED
  BY <1>10, <1>11, <1>12, <1>13, <1>14, <1>16, <1>17, <1>18, TypesNext DEF IInv
-----------------------------------------------------------------------------
(***************************************************************************)
(* The steps that write no row.                                            *)
(***************************************************************************)
LEMMA QuietlyKeepsIInv ==
  ASSUME IInv, options' = options, create' = create, adjust' = adjust, ledger' = ledger,
         spoiled \subseteq spoiled', RestOK', Positions'
  PROVE  IInv'
<1>1. Accounts' /\ FiniteSums' /\ OptionsOK' /\ LedgerOK'
  BY AccountsStay DEF IInv
<1>2. Drafts' /\ Exclusive'
  BY DraftsStay DEF IInv
<1> QED
  BY <1>1, <1>2, TypesNext DEF IInv

SetPay(o, rec) == pay' = [pay EXCEPT ![o] = rec]

\* A payment's step that touches no option keeps the invariant.
LEMMA PayQuietly ==
  ASSUME IInv, NEW o \in Orders, NEW rec \in Payments, rec.next > 0, SetPay(o, rec),
         orders' \in [Orders -> Statuses],
         UNCHANGED <<options, lapsed, requestVars, sched, ledger, spoiled>>
  PROVE  IInv'
<1>1. RestOK
  BY TypesAre DEF IInv
<1>2. /\ pay' \in [Orders -> Payments] /\ pay'[o] = rec
      /\ \A x \in Orders \ {o} : pay'[x] = pay[x]
  BY <1>1 DEF RestOK, SetPay
<1>3. RestOK'
  BY <1>1, <1>2 DEF RestOK, requestVars
<1>4. Positions'
  BY <1>2 DEF IInv, Positions, requestVars
<1> QED
  BY <1>3, <1>4, QuietlyKeepsIInv DEF requestVars

\* The records of the payments have their fields.
LEMMA PayRecords ==
  ASSUME IInv, NEW o \in Orders
  PROVE  /\ pay \in [Orders -> Payments] /\ orders \in [Orders -> Statuses]
         /\ pay[o] = [pc |-> pay[o].pc, next |-> pay[o].next, reopened |-> pay[o].reopened]
         /\ pay[o].pc \in {"idle", "mark", "confirm", "undo", "done"}
         /\ pay[o].next \in Nat /\ pay[o].next > 0 /\ pay[o].reopened \in BOOLEAN
         /\ pay[o] \in Payments
<1>1. pay \in [Orders -> Payments] /\ orders \in [Orders -> Statuses] /\ pay[o].next > 0
  BY TypesAre DEF IInv, RestOK, Positions
<1> QED
  BY <1>1 DEF Payments

\* Reading and writing the order are such steps.
LEMMA QuietPaymentKeepsIInv ==
  ASSUME IInv, NEW o \in Orders,
         \/ BeginPayment(o) \/ MarkProcessing(o) \/ PaymentFails(o)
         \/ CompletePayment(o) \/ ReopenOrder(o)
  PROVE  IInv'
<1>1. /\ pay \in [Orders -> Payments] /\ orders \in [Orders -> Statuses]
      /\ pay[o] = [pc |-> pay[o].pc, next |-> pay[o].next, reopened |-> pay[o].reopened]
      /\ pay[o].next \in Nat /\ pay[o].next > 0 /\ pay[o].reopened \in BOOLEAN
  BY PayRecords
<1> DEFINE To(pc) == [pc |-> pc, next |-> pay[o].next, reopened |-> pay[o].reopened]
<1>2. \A pc \in {"mark", "confirm"} : To(pc) \in Payments /\ To(pc).next > 0
  BY <1>1 DEF Payments
<1>3. \A pc : PayNext(o, pc) => SetPay(o, To(pc))
  BY <1>1 DEF PayNext, SetPay
<1>4. /\ Undoing \in Payments /\ Undoing.next > 0
      /\ Done \in Payments /\ Done.next > 0
  BY DEF Undoing, Done, Payments
<1>5. CASE BeginPayment(o)
  <2>1. SetPay(o, To("mark"))
    BY <1>3, <1>5 DEF BeginPayment
  <2>2. UNCHANGED <<options, orders, lapsed, requestVars, sched, ledger, spoiled>>
    BY <1>5 DEF BeginPayment
  <2> HIDE DEF To
  <2> QED
    BY <1>1, <1>2, <2>1, <2>2, PayQuietly
<1>6. CASE MarkProcessing(o)
  <2>1. SetPay(o, To("confirm"))
    BY <1>3, <1>6 DEF MarkProcessing
  <2>2. /\ UNCHANGED <<options, lapsed, requestVars, sched, ledger, spoiled>>
        /\ orders' \in [Orders -> Statuses]
    BY <1>1, <1>6 DEF MarkProcessing, Statuses
  <2> HIDE DEF To
  <2> QED
    BY <1>2, <2>1, <2>2, PayQuietly
<1>7. CASE PaymentFails(o)
  <2>1. /\ UNCHANGED <<options, orders, lapsed, requestVars, sched, ledger, spoiled>>
        /\ SetPay(o, Undoing)
    BY <1>7 DEF PaymentFails, SetPay
  <2> QED
    BY <1>1, <1>4, <2>1, PayQuietly
<1>8. CASE CompletePayment(o)
  <2>1. /\ UNCHANGED <<options, lapsed, requestVars, sched, ledger, spoiled>>
        /\ SetPay(o, Done)
    BY <1>8 DEF CompletePayment, SetPay
  <2>2. orders' \in [Orders -> Statuses]
    BY <1>1, <1>8 DEF CompletePayment, Statuses
  <2> QED
    BY <1>4, <2>1, <2>2, PayQuietly
<1>9. CASE ReopenOrder(o)
  <2> DEFINE rec == [pc |-> pay[o].pc, next |-> pay[o].next, reopened |-> TRUE]
  <2>1. rec \in Payments /\ rec.next > 0
    BY <1>1 DEF Payments
  <2>2. SetPay(o, rec)
    <3>1. pay' = [pay EXCEPT ![o].reopened = TRUE]
      BY <1>9 DEF ReopenOrder
    <3>2. ASSUME NEW v
          PROVE  [pay EXCEPT ![o].reopened = v]
                   = [pay EXCEPT ![o] = [pc |-> pay[o].pc, next |-> pay[o].next, reopened |-> v]]
      <4>1. [pay EXCEPT ![o].reopened = v] = [pay EXCEPT ![o] = [pay[o] EXCEPT !.reopened = v]]
        BY <1>1
      <4>2. ASSUME NEW r, NEW a, NEW b, NEW c, r = [pc |-> a, next |-> b, reopened |-> c]
            PROVE  [r EXCEPT !.reopened = v] = [pc |-> a, next |-> b, reopened |-> v]
        BY <4>2
      <4>3. [pay[o] EXCEPT !.reopened = v]
              = [pc |-> pay[o].pc, next |-> pay[o].next, reopened |-> v]
        BY <1>1, <4>2
      <4> QED
        BY <4>1, <4>3
    <3> QED
      BY <3>1, <3>2 DEF SetPay
  <2>3. /\ UNCHANGED <<options, lapsed, requestVars, sched, ledger, spoiled>>
        /\ orders' \in [Orders -> Statuses]
    BY <1>1, <1>9 DEF ReopenOrder, Statuses
  <2> HIDE DEF rec
  <2> QED
    BY <2>1, <2>2, <2>3, PayQuietly
<1> QED
  BY <1>5, <1>6, <1>7, <1>8, <1>9

\* Time that passes keeps the invariant.
LEMMA LapseKeepsIInv ==
  ASSUME IInv, NEW o \in Orders, Lapse(o)
  PROVE  IInv'
<1>1. /\ lapsed' = lapsed \cup {o}
      /\ UNCHANGED <<options, orders, requestVars, pay, sched, ledger, spoiled>>
  BY DEF Lapse
<1>2. RestOK'
  BY <1>1, TypesAre DEF IInv, RestOK, requestVars
<1>3. Positions'
  BY <1>1 DEF IInv, Positions, requestVars
<1> QED
  BY <1>1, <1>2, <1>3, QuietlyKeepsIInv DEF requestVars

\* The records of a run
Run(pc, work, order, next, seen) ==
  [pc |-> pc, work |-> work, order |-> order, next |-> next, seen |-> seen]
\* The scheduler's record with one field changed
LEMMA RunFields ==
  ASSUME NEW pc, NEW work, NEW order, NEW next, NEW seen, NEW v
  PROVE  /\ [Run(pc, work, order, next, seen) EXCEPT !.pc = v] = Run(v, work, order, next, seen)
         /\ [Run(pc, work, order, next, seen) EXCEPT !.work = v] = Run(pc, v, order, next, seen)
         /\ [Run(pc, work, order, next, seen) EXCEPT !.order = v] = Run(pc, work, v, next, seen)
         /\ [Run(pc, work, order, next, seen) EXCEPT !.next = v] = Run(pc, work, order, v, seen)
         /\ [Run(pc, work, order, next, seen) EXCEPT !.seen = v] = Run(pc, work, order, next, v)
  BY DEF Run

\* The record of a scheduler that has scanned
LEMMA IdleWith ==
  ASSUME NEW pc, NEW work
  PROVE  [Idle EXCEPT !.pc = pc, !.work = work] = Run(pc, work, NoOrder, 0, Idle.seen)
<1>1. Idle = Run("idle", {}, NoOrder, 0, Idle.seen)
  BY DEF Idle, Run
<1>2. [Idle EXCEPT !.pc = pc] = Run(pc, {}, NoOrder, 0, Idle.seen)
  BY <1>1, RunFields
<1>3. [Run(pc, {}, NoOrder, 0, Idle.seen) EXCEPT !.work = work]
        = Run(pc, work, NoOrder, 0, Idle.seen)
  BY DEF Run
<1> QED
  BY <1>2, <1>3

\* The record of a scheduler at an item of an order
LEMMA IdleFor ==
  ASSUME NEW pc, NEW order, NEW work, NEW next
  PROVE  [Idle EXCEPT !.pc = pc, !.order = order, !.work = work, !.next = next]
           = Run(pc, work, order, next, Idle.seen)
<1>1. Idle = Run("idle", {}, NoOrder, 0, Idle.seen)
  BY DEF Idle, Run
<1>2. [Idle EXCEPT !.pc = pc] = Run(pc, {}, NoOrder, 0, Idle.seen)
  BY <1>1, RunFields
<1>3. [Run(pc, {}, NoOrder, 0, Idle.seen) EXCEPT !.order = order]
        = Run(pc, {}, order, 0, Idle.seen)
  BY DEF Run
<1>4. [Run(pc, {}, order, 0, Idle.seen) EXCEPT !.work = work]
        = Run(pc, work, order, 0, Idle.seen)
  BY DEF Run
<1>5. [Run(pc, work, order, 0, Idle.seen) EXCEPT !.next = next]
        = Run(pc, work, order, next, Idle.seen)
  BY DEF Run
<1> QED
  BY <1>2, <1>3, <1>4, <1>5

SetRun(s, rec) == sched' = [sched EXCEPT ![s] = rec]

Reads(s, pc, seen) == sched' = [sched EXCEPT ![s].pc = pc, ![s].seen = seen]

\* A reading is kept in the scheduler's record.
LEMMA RunReads ==
  ASSUME NEW s \in Schedulers, sched = [x \in Schedulers |-> sched[x]], NEW pc, NEW seen,
         sched[s] = Run(sched[s].pc, sched[s].work, sched[s].order, sched[s].next,
                        sched[s].seen),
         Reads(s, pc, seen)
  PROVE  SetRun(s, Run(pc, sched[s].work, sched[s].order, sched[s].next, seen))
<1> DEFINE w == sched[s].work
           o == sched[s].order
           n == sched[s].next
           old == sched[s].seen
           g == [sched EXCEPT ![s].pc = pc]
<1>1. g = [sched EXCEPT ![s] = [sched[s] EXCEPT !.pc = pc]]
  OBVIOUS
<1>2. [sched[s] EXCEPT !.pc = pc] = Run(pc, w, o, n, old)
  BY DEF Run
<1>3. g = [sched EXCEPT ![s] = Run(pc, w, o, n, old)]
  BY <1>1, <1>2
<1>4. g = [x \in Schedulers |-> g[x]] /\ g[s] = Run(pc, w, o, n, old)
      /\ \A x \in Schedulers : x # s => g[x] = sched[x]
  BY <1>3
<1>5. [sched EXCEPT ![s].pc = pc, ![s].seen = seen] = [g EXCEPT ![s].seen = seen]
  OBVIOUS
<1>6. [g EXCEPT ![s].seen = seen] = [g EXCEPT ![s] = [g[s] EXCEPT !.seen = seen]]
  <2> HIDE DEF g, w, o, n, old
  <2> QED
    BY <1>4
<1>7. [g[s] EXCEPT !.seen = seen] = Run(pc, w, o, n, seen)
  <2> HIDE DEF g, w, o, n, old
  <2> QED
    BY <1>4 DEF Run
<1>8. [g EXCEPT ![s] = Run(pc, w, o, n, seen)] = [sched EXCEPT ![s] = Run(pc, w, o, n, seen)]
  <2> HIDE DEF g, w, o, n, old
  <2> QED
    BY <1>4
<1>9. sched' = [sched EXCEPT ![s].pc = pc, ![s].seen = seen]
  BY DEF Reads
<1> HIDE DEF g
<1> QED
  BY <1>5, <1>6, <1>7, <1>8, <1>9 DEF SetRun

\* Where a run of the scheduler may be
AtItem(rec) ==
  rec.pc \in {"read", "write"} => rec.order \in Orders /\ rec.next \in 1..Len(Items[rec.order])

\* A scheduler's step that touches no option keeps the invariant.
LEMMA RunQuietly ==
  ASSUME IInv, NEW s \in Schedulers, NEW rec \in Runs, AtItem(rec), SetRun(s, rec),
         orders' \in [Orders -> Statuses],
         spoiled \subseteq spoiled', spoiled' \subseteq Options,
         UNCHANGED <<options, lapsed, requestVars, pay, ledger>>
  PROVE  IInv'
<1>1. RestOK
  BY TypesAre DEF IInv
<1>2. /\ sched' \in [Schedulers -> Runs] /\ sched'[s] = rec
      /\ \A x \in Schedulers \ {s} : sched'[x] = sched[x]
  BY <1>1 DEF RestOK, SetRun
<1>3. RestOK'
  BY <1>1, <1>2 DEF RestOK, requestVars
<1>4. Positions'
  BY <1>2 DEF IInv, Positions, requestVars, AtItem
<1> QED
  BY <1>3, <1>4, QuietlyKeepsIInv DEF requestVars

\* The records of the schedulers have their fields.
LEMMA RunRecords ==
  ASSUME IInv, NEW s \in Schedulers
  PROVE  /\ sched \in [Schedulers -> Runs] /\ sched[s] \in Runs /\ AtItem(sched[s])
         /\ orders \in [Orders -> Statuses] /\ spoiled \subseteq Options
         /\ sched[s] = [pc |-> sched[s].pc, work |-> sched[s].work, order |-> sched[s].order,
                        next |-> sched[s].next, seen |-> sched[s].seen]
         /\ sched[s].work \in SUBSET Scanned /\ sched[s].order \in Orders \cup {NoOrder}
         /\ sched[s].next \in Nat /\ sched[s].seen \in Option
<1>1. /\ sched \in [Schedulers -> Runs] /\ orders \in [Orders -> Statuses]
      /\ spoiled \subseteq Options
  BY TypesAre DEF IInv, RestOK
<1>2. AtItem(sched[s])
  BY DEF IInv, Positions, AtItem
<1> QED
  BY <1>1, <1>2 DEF Runs

\* The scheduler that goes on to its next order has a legal record.
LEMMA NextOrderIs ==
  ASSUME IInv, NEW s \in Schedulers
  PROVE  NextOrder(s) \in Runs /\ AtItem(NextOrder(s))
<1>1. sched[s].work \in SUBSET Scanned
  BY RunRecords
<1>2. NextOrder(s) = [pc |-> IF sched[s].work = {} THEN "idle" ELSE "expire",
                      work |-> sched[s].work, order |-> NoOrder, next |-> 0,
                      seen |-> [stock |-> 0, reserved |-> 0]]
  BY IdleWith DEF NextOrder, Run, Idle
<1>3. [stock |-> 0, reserved |-> 0] \in Option
  BY DEF Option
<1> QED
  BY <1>1, <1>2, <1>3 DEF Runs, AtItem

\* The scheduler that goes on to its next item has a legal record.
LEMMA AfterItemIs ==
  ASSUME IInv, NEW s \in Schedulers, sched[s].pc = "write"
  PROVE  AfterItem(s) \in Runs /\ AtItem(AfterItem(s))
<1>1. /\ sched[s] \in Runs /\ AtItem(sched[s])
      /\ sched[s] = [pc |-> sched[s].pc, work |-> sched[s].work, order |-> sched[s].order,
                     next |-> sched[s].next, seen |-> sched[s].seen]
      /\ sched[s].work \in SUBSET Scanned /\ sched[s].order \in Orders \cup {NoOrder}
      /\ sched[s].next \in Nat
  BY RunRecords
<1>2. CASE sched[s].next = Len(Items[sched[s].order])
  BY <1>2, NextOrderIs DEF AfterItem
<1>3. CASE sched[s].next # Len(Items[sched[s].order])
  <2>1. sched[s].order \in Orders /\ sched[s].next \in 1..Len(Items[sched[s].order])
    BY <1>1 DEF AtItem
  <2>2. Len(Items[sched[s].order]) \in Nat
    BY <2>1, ItemsAre
  <2>3. sched[s].next + 1 \in Nat /\ sched[s].next + 1 \in 1..Len(Items[sched[s].order])
    BY <1>1, <1>3, <2>1, <2>2
  <2>4. AfterItem(s) = [pc |-> "read", work |-> sched[s].work, order |-> sched[s].order,
                        next |-> sched[s].next + 1, seen |-> Idle.seen]
    BY <1>1, <1>3 DEF AfterItem
  <2>5. Idle.seen \in Option
    BY DEF Idle, Option
  <2> QED
    BY <1>1, <2>1, <2>3, <2>4, <2>5 DEF Runs, AtItem
<1> QED
  BY <1>2, <1>3

\* Scanning, reading and expiring are such steps.
LEMMA QuietRunKeepsIInv ==
  ASSUME IInv, NEW s \in Schedulers,
         \/ Scan(s) \/ ReadOption(s) \/ ReleaseRefused(s)
         \/ \E o \in Scanned : ExpireOrder(s, o)
  PROVE  IInv'
<1>1. /\ sched \in [Schedulers -> Runs] /\ AtItem(sched[s])
      /\ orders \in [Orders -> Statuses] /\ spoiled \subseteq Options
      /\ sched[s] = [pc |-> sched[s].pc, work |-> sched[s].work, order |-> sched[s].order,
                     next |-> sched[s].next, seen |-> sched[s].seen]
      /\ sched[s].work \in SUBSET Scanned /\ sched[s].order \in Orders \cup {NoOrder}
      /\ sched[s].next \in Nat
  BY RunRecords
<1>2. [stock |-> 0, reserved |-> 0] \in Option
  BY DEF Option
<1>3. CASE Scan(s)
  <2> DEFINE expired == {o \in FoundOrders : orders[o] = "PENDING" /\ o \in lapsed}
             rec == [pc |-> "expire", work |-> expired, order |-> NoOrder, next |-> 0,
                     seen |-> [stock |-> 0, reserved |-> 0]]
  <2>1. SetRun(s, rec)
    <3>1. [Idle EXCEPT !.pc = "expire", !.work = expired] = rec
      BY IdleWith DEF Run, Idle
    <3>2. sched' = [sched EXCEPT ![s] = [Idle EXCEPT !.pc = "expire", !.work = expired]]
      BY <1>3 DEF Scan
    <3> HIDE DEF expired, rec
    <3> QED
      BY <3>1, <3>2 DEF SetRun
  <2>2. UNCHANGED <<options, orders, lapsed, requestVars, pay, ledger, spoiled>>
    BY <1>3 DEF Scan
  <2>3. expired \in SUBSET Scanned
    BY DEF FoundOrders
  <2> HIDE DEF expired
  <2>4. rec \in Runs /\ AtItem(rec)
    BY <1>2, <2>3 DEF Runs, AtItem
  <2> HIDE DEF rec
  <2> QED
    BY <1>1, <2>1, <2>2, <2>4, RunQuietly
<1>4. CASE ReadOption(s)
  <2> DEFINE rec == [pc |-> "write", work |-> sched[s].work, order |-> sched[s].order,
                     next |-> sched[s].next, seen |-> options[SchedItem(s).option]]
  <2>1. /\ sched[s].pc = "read"
        /\ sched' = [sched EXCEPT ![s].pc = "write", ![s].seen = options[SchedItem(s).option]]
        /\ UNCHANGED <<options, orders, lapsed, requestVars, pay, ledger, spoiled>>
    BY <1>4 DEF ReadOption
  <2>2. SetRun(s, rec)
    <3>1. sched[s] = Run(sched[s].pc, sched[s].work, sched[s].order, sched[s].next, sched[s].seen)
      BY <1>1 DEF Run
    <3>2. sched = [x \in Schedulers |-> sched[x]]
      BY <1>1
    <3>3. Reads(s, "write", options[SchedItem(s).option])
      BY <2>1 DEF Reads
    <3>4. Run("write", sched[s].work, sched[s].order, sched[s].next, options[SchedItem(s).option])
            = rec
      BY DEF Run
    <3> HIDE DEF rec
    <3> QED
      BY <3>1, <3>2, <3>3, <3>4, RunReads
  <2>3. SchedItem(s).option \in Options
    BY <1>1, <2>1, ItemsAre DEF AtItem, SchedItem
  <2>4. options[SchedItem(s).option] \in Option
    BY <2>3, TypesAre DEF IInv, OptionsOK
  <2>5. rec \in Runs /\ AtItem(rec)
    BY <1>1, <2>1, <2>4 DEF Runs, AtItem
  <2> HIDE DEF rec
  <2> QED
    BY <1>1, <2>1, <2>2, <2>5, RunQuietly
<1>5. CASE ReleaseRefused(s)
  <2>1. /\ sched[s].pc = "write" /\ SetRun(s, NextOrder(s))
        /\ spoiled' \in {spoiled, spoiled \cup {SchedItem(s).option}}
        /\ UNCHANGED <<options, orders, lapsed, requestVars, pay, ledger>>
    BY <1>5 DEF ReleaseRefused, SetRun
  <2>2. SchedItem(s).option \in Options
    BY <1>1, <2>1, ItemsAre DEF AtItem, SchedItem
  <2>3. spoiled \subseteq spoiled' /\ spoiled' \subseteq Options
    BY <1>1, <2>1, <2>2
  <2> QED
    BY <1>1, <2>1, <2>3, RunQuietly, NextOrderIs
<1>6. ASSUME NEW o \in Scanned, ExpireOrder(s, o)
      PROVE  IInv'
  <2> DEFINE rec == [pc |-> "read", work |-> sched[s].work \ {o}, order |-> o, next |-> 1,
                     seen |-> [stock |-> 0, reserved |-> 0]]
  <2>1. /\ SetRun(s, rec) /\ orders' = [orders EXCEPT ![o] = "EXPIRED"]
        /\ UNCHANGED <<options, lapsed, requestVars, pay, ledger, spoiled>>
    <3>1. [Idle EXCEPT !.pc = "read", !.order = o, !.work = sched[s].work \ {o}, !.next = 1] = rec
      <4>1. [Idle EXCEPT !.pc = "read", !.order = o, !.work = sched[s].work \ {o}, !.next = 1]
              = Run("read", sched[s].work \ {o}, o, 1, Idle.seen)
        <5> DEFINE work == sched[s].work \ {o}
        <5> HIDE DEF work
        <5>1. \A pc, next : [Idle EXCEPT !.pc = pc, !.order = o, !.work = work, !.next = next]
                               = Run(pc, work, o, next, Idle.seen)
          BY IdleFor
        <5> QED
          BY <5>1 DEF work
      <4>2. Run("read", sched[s].work \ {o}, o, 1, Idle.seen) = rec
        BY DEF Run, Idle
      <4> QED
        BY <4>1, <4>2
    <3>2. /\ sched' = [sched EXCEPT ![s] = [Idle EXCEPT !.pc = "read", !.order = o,
                                            !.work = sched[s].work \ {o}, !.next = 1]]
          /\ orders' = [orders EXCEPT ![o] = "EXPIRED"]
          /\ UNCHANGED <<options, lapsed, requestVars, pay, ledger, spoiled>>
      BY <1>6 DEF ExpireOrder
    <3> HIDE DEF rec
    <3> QED
      BY <3>1, <3>2 DEF SetRun
  <2>2. o \in Orders
    BY InventoryAssumption
  <2>3. 1 \in 1..Len(Items[o])
    BY <2>2, ItemsAre
  <2>4. rec \in Runs /\ AtItem(rec)
    <3>1. sched[s].work \ {o} \in SUBSET Scanned
      BY <1>1
    <3> QED
      BY <1>2, <2>2, <2>3, <3>1 DEF Runs, AtItem
  <2>5. orders' \in [Orders -> Statuses]
    BY <1>1, <2>1 DEF Statuses
  <2> HIDE DEF rec
  <2> QED
    BY <1>1, <2>1, <2>4, <2>5, RunQuietly
<1> QED
  BY <1>3, <1>4, <1>5, <1>6
-----------------------------------------------------------------------------
(***************************************************************************)
(* The steps that write one row under its lock, and move one item.         *)
(***************************************************************************)
WritesRow(o, i, changed, from, to) ==
  /\ ~ Locked(Items[o][i].option) /\ ValidStock(changed)
  /\ options' = [options EXCEPT ![Items[o][i].option] = changed]
  /\ ledger' = [ledger EXCEPT ![o][i] = IF ledger[o][i] = from THEN to ELSE ledger[o][i]]
  /\ create' = create /\ adjust' = adjust
  /\ spoiled' \in {spoiled, spoiled \cup {Items[o][i].option}}

\* What the row must be, unless its option is spoiled
Balanced(o, i, changed, from, to) ==
  /\ ledger[o][i] = from
  /\ changed.reserved = options[Items[o][i].option].reserved
                          + (IF to = "reserved" THEN Items[o][i].quantity ELSE 0)
                          - (IF from = "reserved" THEN Items[o][i].quantity ELSE 0)
  /\ changed.stock = options[Items[o][i].option].stock
                          - (IF to = "sold" THEN Items[o][i].quantity ELSE 0)
                          + (IF from = "sold" THEN Items[o][i].quantity ELSE 0)

\* A written row moves the entry of its item, if it was where it is moved from.
LEMMA LedgerOfWrite ==
  ASSUME Types, NEW o \in Orders, NEW i \in 1..Len(Items[o]), NEW changed,
         NEW from \in States \ {"none"}, NEW to \in States \ {"none"}, from # to,
         WritesRow(o, i, changed, from, to)
  PROVE  /\ ledger[o][i] = from => Moved(o, i, from, to)
         /\ ledger[o][i] # from => ledger' = ledger
         /\ LedgerOK'
         /\ \A x \in Orders : \A j \in 1..Len(Items[x]) :
              ledger[x][j] = "none" => ledger'[x][j] = "none"
<1>1. /\ ledger = [x \in Orders |-> ledger[x]]
      /\ \A x \in Orders : ledger[x] \in [1..Len(Items[x]) -> States]
  BY TypesAre DEF LedgerOK
<1>2. ledger' = [ledger EXCEPT ![o][i] = IF ledger[o][i] = from THEN to ELSE ledger[o][i]]
  BY DEF WritesRow
<1>3. ASSUME ledger[o][i] = from
      PROVE  Moved(o, i, from, to)
  BY <1>2, <1>3 DEF Moved
<1>4. ASSUME ledger[o][i] # from
      PROVE  ledger' = ledger
  <2>1. ledger[o] = [ledger[o] EXCEPT ![i] = ledger[o][i]]
    BY <1>1
  <2>2. ledger' = [ledger EXCEPT ![o] = [ledger[o] EXCEPT ![i] = ledger[o][i]]]
    BY <1>2, <1>4
  <2>3. ledger' = [ledger EXCEPT ![o] = ledger[o]]
    BY <2>1, <2>2
  <2> QED
    BY <1>1, <2>3
<1>5. /\ ledger' = [x \in Orders |-> ledger'[x]]
      /\ \A x \in Orders \ {o} : ledger'[x] = ledger[x]
      /\ ledger'[o] = [ledger[o] EXCEPT ![i] = IF ledger[o][i] = from THEN to ELSE ledger[o][i]]
  BY <1>1, <1>2
<1>6. ledger'[o] \in [1..Len(Items[o]) -> States]
  BY <1>1, <1>5
<1>7. LedgerOK'
  BY <1>1, <1>5, <1>6 DEF LedgerOK
<1>8. \A j \in 1..Len(Items[o]) : ledger[o][j] = "none" => ledger'[o][j] = "none"
  BY <1>1, <1>5
<1> QED
  BY <1>3, <1>4, <1>5, <1>7, <1>8

\* A balanced write of a row keeps the accounts.
LEMMA WritesKeepAccounts ==
  ASSUME IInv, NEW o \in Orders, NEW i \in 1..Len(Items[o]), NEW changed \in Option,
         NEW from \in States \ {"none"}, NEW to \in States \ {"none"}, from # to,
         WritesRow(o, i, changed, from, to),
         Items[o][i].option \notin spoiled' => Balanced(o, i, changed, from, to)
  PROVE  Accounts' /\ FiniteSums' /\ OptionsOK' /\ Drafts' /\ Exclusive'
<1> DEFINE p == Items[o][i].option
           q == Items[o][i].quantity
<1>1. Types /\ p \in Options /\ q \in Nat
  BY ItemsAre DEF IInv
<1>2. options \in [Options -> Option] /\ \A r \in Options : ValidStock(options[r])
  BY TypesAre DEF IInv, OptionsOK
<1>3. /\ ~ Locked(p) /\ ValidStock(changed) /\ create' = create /\ adjust' = adjust
      /\ options' = [options EXCEPT ![p] = changed]
      /\ spoiled' \in {spoiled, spoiled \cup {p}}
  BY DEF WritesRow
<1>4. /\ options' \in [Options -> Option] /\ options'[p] = changed
      /\ \A r \in Options \ {p} : options'[r] = options[r]
  BY <1>1, <1>2, <1>3
<1>5. OptionsOK'
  BY <1>2, <1>3, <1>4 DEF OptionsOK
<1>6. Drafts' /\ Exclusive'
  BY <1>3, <1>4, DraftsStay DEF IInv
<1>7. (\A r \in Options : IsFiniteSet(DoneOn(r)')) /\ Added' = Added
  BY <1>1, <1>3, AdjustStays DEF Types
<1>8. /\ \A r \in Options : \A state \in Counted : IsFiniteSet(In(r, state)')
      /\ \A r \in Options \ {p} : Reserved'[r] = Reserved[r] /\ Sold'[r] = Sold[r]
      /\ ledger[o][i] = from =>
           /\ Reserved'[p] = Reserved[p] + (IF to = "reserved" THEN q ELSE 0)
                                         - (IF from = "reserved" THEN q ELSE 0)
           /\ Sold'[p] = Sold[p] + (IF to = "sold" THEN q ELSE 0)
                                 - (IF from = "sold" THEN q ELSE 0)
  <2>1. CASE ledger[o][i] = from
    <3>1. Moved(o, i, from, to)
      BY <1>1, <2>1, LedgerOfWrite
    <3> QED
      BY <1>1, <3>1, SumsMove
  <2>2. CASE ledger[o][i] # from
    <3>1. ledger' = ledger
      BY <1>1, <2>2, LedgerOfWrite
    <3>2. Reserved' = Reserved /\ Sold' = Sold /\ \A r, state : In(r, state)' = In(r, state)
      BY <3>1, LedgerStays
    <3> QED
      BY <1>1, <2>2, <3>2 DEF Types
  <2> QED
    BY <2>1, <2>2
<1>9. FiniteSums'
  BY <1>7, <1>8 DEF FiniteSums
<1>10. Accounts'
  <2> SUFFICES ASSUME NEW r \in Options \ spoiled'
               PROVE  /\ options'[r].reserved = Reserved'[r]
                      /\ options'[r].stock = InitialStock[r] + Added'[r] - Sold'[r]
    BY DEF Accounts
  <2>1. /\ options[r].reserved = Reserved[r]
        /\ options[r].stock = InitialStock[r] + Added[r] - Sold[r]
    BY <1>3 DEF IInv, Accounts
  <2>2. CASE r # p
    BY <1>4, <1>7, <1>8, <2>1, <2>2
  <2>3. CASE r = p
    <3>1. /\ ledger[o][i] = from
          /\ changed.reserved = options[p].reserved + (IF to = "reserved" THEN q ELSE 0)
                                                    - (IF from = "reserved" THEN q ELSE 0)
          /\ changed.stock = options[p].stock - (IF to = "sold" THEN q ELSE 0)
                                              + (IF from = "sold" THEN q ELSE 0)
      BY <2>3 DEF Balanced
    <3>2. /\ Reserved[p] \in Int /\ Sold[p] \in Int /\ Added[p] \in Int /\ InitialStock[p] \in Int
      BY <1>1, SumsAre, RowsAre
    <3> HIDE DEF p, q
    <3>3. options'[r].reserved = Reserved'[r]
      BY <1>1, <1>4, <1>8, <2>1, <2>3, <3>1, <3>2
    <3>4. options'[r].stock = InitialStock[r] + Added'[r] - Sold'[r]
      <4> DEFINE lost == IF to = "sold" THEN q ELSE 0
                 won == IF from = "sold" THEN q ELSE 0
      <4>1. lost \in Int /\ won \in Int
        BY <1>1
      <4>2. options'[r].stock = options[p].stock - lost + won
        BY <1>4, <2>3, <3>1
      <4>3. options[p].stock = InitialStock[p] + Added[p] - Sold[p]
        BY <2>1, <2>3
      <4>4. Sold'[p] = Sold[p] + lost - won
        BY <1>8, <3>1
      <4>5. Added'[p] = Added[p]
        BY <1>7
      <4> HIDE DEF lost, won
      <4>6. options'[r].stock = InitialStock[p] + Added'[p] - Sold'[p]
        BY <3>2, <4>1, <4>2, <4>3, <4>4, <4>5
      <4> QED
        BY <2>3, <4>6
    <3> QED
      BY <3>3, <3>4
  <2> QED
    BY <2>2, <2>3
<1> QED
  BY <1>5, <1>6, <1>9, <1>10

\* The payment and the scheduler write only where an order is.
LEMMA PositionsStay ==
  ASSUME Positions, create' = create,
         \A x \in Orders : \A j \in 1..Len(Items[x]) :
           ledger[x][j] = "none" => ledger'[x][j] = "none",
         \A x \in Orders : pay'[x].next > 0,
         \A s \in Schedulers : AtItem(sched'[s])
  PROVE  Positions'
BY DEF Positions, AtItem

\* A balanced write in a transaction of its own keeps the invariant.
LEMMA TransactKeepsIInv ==
  ASSUME IInv, NEW o \in Orders, NEW changed \in Option,
         NEW from \in Counted, NEW to \in Counted, from # to,
         TransactItem(o, changed, from, to),
         pay[o].next \in 1..Len(Items[o]) /\ ledger[o][pay[o].next] = from
           => Balanced(o, pay[o].next, changed, from, to)
  PROVE  IInv'
<1> DEFINE n == pay[o].next
           p == Items[o][n].option
<1>1. /\ n <= Len(Items[o]) /\ ~ Locked(p) /\ ValidStock(changed)
      /\ options' = [options EXCEPT ![p] = changed]
      /\ pay' = [pay EXCEPT ![o].next = n + 1]
      /\ ledger' = [ledger EXCEPT ![o][n] = IF ledger[o][n] = from THEN to ELSE ledger[o][n]]
      /\ spoiled' = IF ledger[o][n] = from THEN spoiled ELSE spoiled \cup {p}
      /\ UNCHANGED <<orders, lapsed, requestVars, sched>>
  BY DEF TransactItem, PayItem, Moves
<1>2. /\ n \in Nat /\ n > 0 /\ pay \in [Orders -> Payments] /\ spoiled \subseteq Options
      /\ pay[o] = [pc |-> pay[o].pc, next |-> pay[o].next, reopened |-> pay[o].reopened]
      /\ pay[o] \in Payments /\ Types
  BY PayRecords, RowsAre DEF IInv
<1>3. n \in 1..Len(Items[o]) /\ Len(Items[o]) \in Nat
  BY <1>1, <1>2, ItemsAre
<1>4. p \in Options
  BY <1>3, ItemsAre
<1>5. /\ from \in States \ {"none"} /\ to \in States \ {"none"}
  BY DEF Counted, States
<1>6. WritesRow(o, n, changed, from, to)
  BY <1>1 DEF WritesRow, requestVars
<1>7. p \notin spoiled' => Balanced(o, n, changed, from, to)
  BY <1>1, <1>3
<1>8. Accounts' /\ FiniteSums' /\ OptionsOK' /\ Drafts' /\ Exclusive'
  <2> HIDE DEF n
  <2> QED
    BY <1>3, <1>5, <1>6, <1>7, WritesKeepAccounts
<1>9. LedgerOK' /\ \A x \in Orders : \A j \in 1..Len(Items[x]) :
                     ledger[x][j] = "none" => ledger'[x][j] = "none"
  <2> HIDE DEF n
  <2> QED
    BY <1>2, <1>3, <1>5, <1>6, LedgerOfWrite
<1>10. /\ pay' \in [Orders -> Payments] /\ pay'[o].next = n + 1
       /\ \A x \in Orders \ {o} : pay'[x] = pay[x]
  <2>1. pay'[o] = [pay[o] EXCEPT !.next = n + 1] /\ \A x \in Orders \ {o} : pay'[x] = pay[x]
    BY <1>1, <1>2
  <2>2. [pay[o] EXCEPT !.next = n + 1] \in Payments
    BY <1>2 DEF Payments
  <2>3. pay'[o].next = n + 1
    BY <1>2, <2>1
  <2>4. pay' = [x \in Orders |-> pay'[x]]
    BY <1>1, <1>2
  <2>5. \A x \in Orders : pay'[x] \in Payments
    BY <1>2, <2>1, <2>2
  <2> QED
    BY <2>1, <2>3, <2>4, <2>5
<1>11. RestOK'
  BY <1>1, <1>2, <1>4, <1>10, TypesAre DEF RestOK, requestVars
<1>12. Positions'
  <2>1. \A x \in Orders : pay'[x].next > 0
    BY <1>2, <1>10 DEF IInv, Positions
  <2>2. \A s \in Schedulers : AtItem(sched'[s])
    BY <1>1, RunRecords
  <2> QED
    BY <1>1, <1>9, <2>1, <2>2, PositionsStay DEF IInv, requestVars
<1> QED
  BY <1>8, <1>9, <1>11, <1>12, TypesNext DEF IInv

\* Confirmed and restored items are such writes.
LEMMA PaidItemKeepsIInv ==
  ASSUME IInv, NEW o \in Orders, ConfirmItem(o) \/ RestoreItem(o)
  PROVE  IInv'
<1> DEFINE n == pay[o].next
           p == Items[o][n].option
           q == Items[o][n].quantity
<1>1. n \in Nat /\ n > 0 /\ n <= Len(Items[o])
  BY PayRecords DEF ConfirmItem, RestoreItem
<1>2. n \in 1..Len(Items[o])
  BY <1>1, ItemsAre
<1>3. p \in Options /\ q \in Nat /\ options[p].stock \in Int /\ options[p].reserved \in Int
  BY <1>2, ItemsAre, RowsAre DEF IInv
<1>4. "reserved" \in Counted /\ "sold" \in Counted
  BY DEF Counted
<1>5. CASE ConfirmItem(o)
  <2> DEFINE changed == DecreaseStock(options[p], q)
  <2>1. TransactItem(o, changed, "reserved", "sold")
    BY <1>5 DEF ConfirmItem, PayItem
  <2>2. changed \in Option
    BY <1>3 DEF DecreaseStock, Option
  <2>3. ledger[o][n] = "reserved" => Balanced(o, n, changed, "reserved", "sold")
    BY <1>3 DEF Balanced, DecreaseStock
  <2> HIDE DEF changed
  <2> QED
    BY <1>4, <2>1, <2>2, <2>3, TransactKeepsIInv
<1>6. CASE RestoreItem(o)
  <2> DEFINE changed == RestoreStock(options[p], q)
  <2>1. TransactItem(o, changed, "sold", "reserved")
    BY <1>6 DEF RestoreItem, PayItem
  <2>2. changed \in Option
    BY <1>3 DEF RestoreStock, Option
  <2>3. ledger[o][n] = "sold" => Balanced(o, n, changed, "sold", "reserved")
    BY <1>3 DEF Balanced, RestoreStock
  <2> HIDE DEF changed
  <2> QED
    BY <1>4, <2>1, <2>2, <2>3, TransactKeepsIInv
<1> QED
  BY <1>5, <1>6

\* A release changes the reservation only.
LEMMA NothingSold ==
  ASSUME NEW stock \in Int, NEW reserved \in Int, NEW q \in Nat
  PROVE  stock = stock - 0 + 0 /\ reserved - q = reserved + 0 - q
  OBVIOUS

\* The scheduler writes what it read; what it read may be wrong, but then it
\* spoils the option.
LEMMA WriteOptionKeepsIInv ==
  ASSUME IInv, NEW s \in Schedulers, WriteOption(s)
  PROVE  IInv'
<1> DEFINE o == sched[s].order
           n == sched[s].next
           p == Items[o][n].option
           q == Items[o][n].quantity
           released == ReleaseReservedStock(sched[s].seen, q)
<1>1. /\ sched[s].pc = "write" /\ ~ Locked(p) /\ ValidStock(released)
      /\ options' = [options EXCEPT ![p] = released]
      /\ ledger' = [ledger EXCEPT ![o][n] =
                      IF ledger[o][n] = "reserved" THEN "released" ELSE ledger[o][n]]
      /\ spoiled' = IF ReadIsTrue(s) THEN spoiled ELSE spoiled \cup {p}
      /\ sched' = [sched EXCEPT ![s] = AfterItem(s)]
      /\ UNCHANGED <<orders, lapsed, requestVars, pay>>
  BY DEF WriteOption, SchedItem
<1>2. /\ sched \in [Schedulers -> Runs] /\ AtItem(sched[s]) /\ sched[s].seen \in Option
      /\ spoiled \subseteq Options /\ Types
  BY RunRecords DEF IInv
<1>3. o \in Orders /\ n \in 1..Len(Items[o])
  BY <1>1, <1>2 DEF AtItem
<1>4. p \in Options /\ q \in Nat
  BY <1>3, ItemsAre
<1>5. released \in Option
  BY <1>2, <1>4 DEF ReleaseReservedStock, Option
<1>6. /\ "reserved" \in States \ {"none"} /\ "released" \in States \ {"none"}
  BY DEF States
<1>7. WritesRow(o, n, released, "reserved", "released")
  <2> HIDE DEF released, o, n
  <2> QED
    BY <1>1 DEF WritesRow, requestVars
<1>8. ASSUME p \notin spoiled'
      PROVE  Balanced(o, n, released, "reserved", "released")
  <2>1. ReadIsTrue(s)
    BY <1>1, <1>8
  <2>2. sched[s].seen = options[p] /\ ledger[o][n] = "reserved"
    BY <2>1 DEF ReadIsTrue, SchedItem
  <2>3. options[p].stock \in Int /\ options[p].reserved \in Int
    BY <1>2, <1>4, RowsAre
  <2>4. /\ released.stock = options[p].stock
        /\ released.reserved = options[p].reserved - q
    BY <2>2 DEF ReleaseReservedStock
  <2>5. /\ released.stock = options[p].stock - 0 + 0
        /\ released.reserved = options[p].reserved + 0 - q
    <3> HIDE DEF released, o, n, p, q
    <3> QED
      BY <1>4, <2>3, <2>4, NothingSold
  <2> HIDE DEF released, o, n
  <2> QED
    BY <2>2, <2>5 DEF Balanced
<1>9. Accounts' /\ FiniteSums' /\ OptionsOK' /\ Drafts' /\ Exclusive'
  <2> HIDE DEF released, o, n
  <2> QED
    BY <1>3, <1>5, <1>6, <1>7, <1>8, WritesKeepAccounts
<1>10. LedgerOK' /\ \A x \in Orders : \A j \in 1..Len(Items[x]) :
                     ledger[x][j] = "none" => ledger'[x][j] = "none"
  <2> HIDE DEF released, o, n
  <2> QED
    BY <1>2, <1>3, <1>6, <1>7, LedgerOfWrite
<1>11. AfterItem(s) \in Runs /\ AtItem(AfterItem(s))
  BY <1>1, AfterItemIs
<1>12. /\ sched' \in [Schedulers -> Runs] /\ \A x \in Schedulers : AtItem(sched'[x])
  <2>1. \A x \in Schedulers : AtItem(sched[x])
    BY RunRecords
  <2>2. /\ sched'[s] = AfterItem(s) /\ \A x \in Schedulers \ {s} : sched'[x] = sched[x]
        /\ sched' \in [Schedulers -> Runs]
    BY <1>1, <1>2, <1>11
  <2> QED
    BY <1>11, <2>1, <2>2
<1>13. RestOK'
  <2>1. spoiled' \subseteq Options
    BY <1>1, <1>2, <1>4
  <2> QED
    BY <1>1, <1>12, <2>1, TypesAre DEF IInv, RestOK, requestVars
<1>14. Positions'
  <2>1. \A x \in Orders : pay'[x].next > 0
    BY <1>1 DEF IInv, Positions
  <2> QED
    BY <1>1, <1>10, <1>12, <2>1, PositionsStay DEF IInv, requestVars
<1> QED
  BY <1>9, <1>10, <1>13, <1>14, TypesNext DEF IInv
-----------------------------------------------------------------------------
(***************************************************************************)
(* The administrator.                                                      *)
(***************************************************************************)
AdjustTo(a, state) == adjust' = [adjust EXCEPT ![a] = state]

\* An adjustment that does not commit keeps the invariant.
LEMMA QuietAdjustmentKeepsIInv ==
  ASSUME IInv, NEW a \in Adjustments, NEW state \in {"outer", "failed"},
         adjust[a] # "done", AdjustTo(a, state),
         UNCHANGED <<options, orders, lapsed, create, pay, sched, ledger, spoiled>>
  PROVE  IInv'
<1>1. Types /\ adjust \in [Adjustments -> {"new", "outer", "done", "failed"}]
  BY TypesAre DEF IInv, RestOK
<1>2. /\ adjust' \in [Adjustments -> {"new", "outer", "done", "failed"}]
      /\ \A b \in Adjustments : adjust'[b] = "done" <=> adjust[b] = "done"
  BY <1>1 DEF AdjustTo
<1>3. (\A p : DoneOn(p)' = DoneOn(p)) /\ Added' = Added
  <2>1. \A p : DoneOn(p)' = DoneOn(p)
    BY <1>2 DEF DoneOn
  <2> QED
    BY <2>1 DEF Added
<1>4. Reserved' = Reserved /\ Sold' = Sold /\ \A p, st : In(p, st)' = In(p, st)
  BY LedgerStays
<1>5. Accounts'
  BY <1>3, <1>4 DEF IInv, Accounts
<1>6. FiniteSums'
  BY <1>1, <1>3, <1>4, TypesAre DEF FiniteSums
<1>7. OptionsOK' /\ LedgerOK'
  BY <1>1, TypesAre DEF OptionsOK, LedgerOK
<1>8. RestOK'
  BY <1>1, <1>2, TypesAre DEF RestOK
<1>9. Positions'
  BY DEF IInv, Positions
<1>10. Drafts' /\ Exclusive'
  BY DraftsStay DEF IInv
<1> QED
  BY <1>5, <1>6, <1>7, <1>8, <1>9, <1>10, TypesNext DEF IInv

\* An adjusted stock is accounted for by its change.
LEMMA UpdateStockKeepsIInv ==
  ASSUME IInv, NEW a \in Adjustments, UpdateStock(a)
  PROVE  IInv'
<1> DEFINE p == a.option
           changed == AdjustStock(options[p], a.change)
<1>1. /\ adjust[a] = "outer" /\ ~ Locked(p)
      /\ UNCHANGED <<orders, lapsed, create, pay, sched, ledger, spoiled>>
  BY DEF UpdateStock
<1>2. Types /\ adjust \in [Adjustments -> {"new", "outer", "done", "failed"}]
      /\ options \in [Options -> Option] /\ \A r \in Options : ValidStock(options[r])
  BY TypesAre DEF IInv, RestOK, OptionsOK
<1>3. p \in Options /\ a.change \in Int
  BY ChangesAre
<1>4. options[p].stock \in Int /\ options[p].reserved \in Int
  BY <1>2, <1>3, RowsAre
<1>5. CASE ~ ValidStock(changed)
  <2>1. AdjustTo(a, "failed") /\ options' = options
    BY <1>5 DEF UpdateStock, AdjustTo
  <2> QED
    BY <1>1, <2>1, QuietAdjustmentKeepsIInv
<1>6. CASE ValidStock(changed)
  <2>1. /\ options' = [options EXCEPT ![p] = changed]
        /\ adjust' = [adjust EXCEPT ![a] = "done"]
    BY <1>6 DEF UpdateStock
  <2>2. /\ changed \in Option /\ changed.reserved = options[p].reserved
        /\ changed.stock = options[p].stock + a.change
    BY <1>3, <1>4 DEF AdjustStock, Option
  <2> HIDE DEF changed
  <2>3. /\ options' \in [Options -> Option] /\ options'[p] = changed
        /\ \A r \in Options \ {p} : options'[r] = options[r]
    BY <1>2, <1>3, <2>1, <2>2
  <2>4. Adjusts(a)
    BY <1>1, <1>2, <2>1 DEF Adjusts
  <2>5. \A r \in Options : /\ IsFiniteSet(DoneOn(r)')
                           /\ Added'[r] = Added[r] + (IF r = p THEN a.change ELSE 0)
    BY <1>2, <2>4, AdjustSums
  <2>6. Reserved' = Reserved /\ Sold' = Sold /\ \A r, state : In(r, state)' = In(r, state)
    BY <1>1, LedgerStays
  <2>7. FiniteSums'
    BY <1>2, <2>5, <2>6, TypesAre DEF FiniteSums
  <2>8. OptionsOK'
    BY <1>2, <1>6, <2>3 DEF OptionsOK
  <2>9. LedgerOK'
    BY <1>1, <1>2, TypesAre DEF LedgerOK
  <2>10. RestOK'
    <3>1. adjust' \in [Adjustments -> {"new", "outer", "done", "failed"}]
      BY <1>2, <2>1
    <3> QED
      BY <1>1, <1>2, <3>1, TypesAre DEF RestOK
  <2>11. Positions'
    BY <1>1 DEF IInv, Positions
  <2>12. Drafts' /\ Exclusive'
    BY <1>1, <2>3, DraftsStay DEF IInv
  <2>13. Accounts'
    <3> SUFFICES ASSUME NEW r \in Options \ spoiled
                 PROVE  /\ options'[r].reserved = Reserved[r]
                        /\ options'[r].stock = InitialStock[r] + Added'[r] - Sold[r]
      BY <1>1, <2>6 DEF Accounts
    <3>1. /\ options[r].reserved = Reserved[r]
          /\ options[r].stock = InitialStock[r] + Added[r] - Sold[r]
      BY DEF IInv, Accounts
    <3>2. /\ Added[r] \in Int /\ Sold[r] \in Int /\ InitialStock[r] \in Int
      BY <1>2, SumsAre, RowsAre
    <3>3. Added'[r] = Added[r] + (IF r = p THEN a.change ELSE 0)
      BY <2>5
    <3>4. CASE r # p
      BY <2>3, <3>1, <3>2, <3>3, <3>4
    <3>5. CASE r = p
      <4>1. options'[r].stock = options[r].stock + a.change
            /\ options'[r].reserved = options[r].reserved
        BY <2>2, <2>3, <3>5
      <4>2. Added'[r] = Added[r] + a.change
        BY <3>3, <3>5
      <4> QED
        BY <1>3, <3>1, <3>2, <4>1, <4>2
    <3> QED
      BY <3>4, <3>5
  <2> QED
    BY <2>7, <2>8, <2>9, <2>10, <2>11, <2>12, <2>13, TypesNext DEF IInv
<1> QED
  BY <1>5, <1>6

\* An adjustment keeps the invariant.
LEMMA AdjustKeepsIInv ==
  ASSUME IInv, NEW a \in Adjustments, Adjust(a)
  PROVE  IInv'
<1>1. CASE OpenUpdate(a)
  BY <1>1, QuietAdjustmentKeepsIInv DEF OpenUpdate, AdjustTo
<1>2. CASE UpdateFails(a)
  BY <1>2, QuietAdjustmentKeepsIInv DEF UpdateFails, AdjustTo
<1> QED
  BY <1>1, <1>2, UpdateStockKeepsIInv DEF Adjust
-----------------------------------------------------------------------------
(***************************************************************************)
(* The invariant, and what follows.                                        *)
(***************************************************************************)
LEMMA NextKeepsIInv == IInv /\ [Next]_vars => IInv'
<1> SUFFICES ASSUME IInv, [Next]_vars
             PROVE  IInv'
  OBVIOUS
<1>1. ASSUME NEW o \in Orders, CreateOrder(o)
      PROVE  IInv'
  BY <1>1, QuietCreationKeepsIInv, ReserveItemKeepsIInv, CommitReservationKeepsIInv
  DEF CreateOrder
<1>2. ASSUME NEW o \in Orders, Pay(o)
      PROVE  IInv'
  BY <1>2, QuietPaymentKeepsIInv, PaidItemKeepsIInv DEF Pay
<1>3. ASSUME NEW s \in Schedulers, ReleaseExpired(s)
      PROVE  IInv'
  BY <1>3, QuietRunKeepsIInv, WriteOptionKeepsIInv DEF ReleaseExpired
<1>4. CASE UNCHANGED vars
  <2>1. RestOK'
    BY <1>4, TypesAre DEF IInv, vars, RestOK
  <2>2. Positions'
    BY <1>4 DEF IInv, vars, Positions
  <2> QED
    BY <1>4, <2>1, <2>2, QuietlyKeepsIInv DEF vars
<1> QED
  BY <1>1, <1>2, <1>3, <1>4, LapseKeepsIInv, AdjustKeepsIInv DEF Next

\* The first stock is accounted for.
LEMMA InitIInv == Init => IInv
<1> SUFFICES ASSUME Init
             PROVE  IInv
  OBVIOUS
<1>1. InitialStock \in [Options -> Nat]
  BY InventoryAssumption
<1>2. \A p \in Options : options[p] = [stock |-> InitialStock[p], reserved |-> 0]
  BY DEF Init
<1>3. \A o \in Orders : ledger[o] = [i \in 1..Len(Items[o]) |-> "none"]
  BY DEF Init
<1>4. \A p, state : state \in Counted => In(p, state) = {}
  <2> SUFFICES ASSUME NEW p, NEW state \in Counted, NEW e \in In(p, state)
               PROVE  FALSE
    OBVIOUS
  <2>1. e[1] \in Orders /\ e[2] \in 1..Len(Items[e[1]]) /\ ledger[e[1]][e[2]] = state
    BY EntriesAre, ItemsAre DEF In
  <2> QED
    BY <1>3, <2>1 DEF Counted
<1>5. \A p : DoneOn(p) = {}
  BY DEF DoneOn, Init
<1>6. FiniteSums
  BY <1>4, <1>5, FS_EmptySet DEF FiniteSums
<1>7. OptionsOK
  <2>1. options \in [Options -> Option]
    BY <1>1 DEF Init, Option
  <2> QED
    BY <1>1, <1>2, <2>1 DEF OptionsOK, ValidStock
<1>8. LedgerOK
  BY DEF Init, LedgerOK, States
<1>9. NoDraft \in [Options -> Option]
  BY DEF NoDraft, Option
<1>10. RestOK
  <2>1. create \in [Orders -> Creates]
    BY <1>9 DEF Init, Creates
  <2>2. pay \in [Orders -> Payments]
    BY DEF Init, Payments
  <2>3. sched \in [Schedulers -> Runs]
    BY DEF Init, Runs, Idle, Option
  <2> QED
    BY <2>1, <2>2, <2>3 DEF Init, RestOK, Statuses
<1>11. Positions
  BY <1>3 DEF Init, Positions, Idle
<1>12. Drafts /\ Exclusive
  BY DEF Init, Drafts, Exclusive, Taken
<1>13. Accounts
  <2>1. \A p \in Options : Reserved[p] = 0 /\ Sold[p] = 0 /\ Added[p] = 0
    BY <1>4, <1>5, SumEmpty DEF Reserved, Sold, Added, Counted
  <2>2. \A p \in Options : InitialStock[p] + Added[p] - Sold[p] = InitialStock[p]
    BY <1>1, <2>1
  <2>3. ASSUME NEW p \in Options
        PROVE  options[p].reserved = 0 /\ options[p].stock = InitialStock[p]
    <3>1. options[p] = [stock |-> InitialStock[p], reserved |-> 0]
      BY <1>2
    <3> QED
      BY <3>1
  <2>4. \A p \in Options : /\ options[p].reserved = Reserved[p]
                            /\ options[p].stock = InitialStock[p] + Added[p] - Sold[p]
    BY <2>1, <2>2, <2>3
  <2> QED
    BY <2>4 DEF Accounts
<1> QED
  BY <1>6, <1>7, <1>8, <1>10, <1>11, <1>12, <1>13, TypesAre DEF IInv

\* The invariant holds throughout.
LEMMA IInvHolds == Spec => []IInv
BY InitIInv, NextKeepsIInv, PTL DEF Spec

\* Every variable has its type; in particular no sequence of reservations,
\* payments, releases and adjustments writes a stock that does not cover what
\* is reserved of it.
THEOREM TypeCorrect == Spec => []TypeOK
<1>1. IInv => TypeOK
  BY DEF IInv, Types
<1> QED
  BY <1>1, IInvHolds, PTL

\* The stock and the reservation of every option that the scheduler has not
\* spoiled are what the orders and the administrator account for, whatever
\* requests, payments, failures and adjustments interleave.
THEOREM StockAccounted == Spec => []StockIsAccountedFor
<1>1. ASSUME IInv
      PROVE  StockIsAccountedFor
  <2> SUFFICES ASSUME NEW p \in Options \ spoiled
               PROVE  /\ options[p].reserved = Quantity(p, "reserved")
                      /\ options[p].stock = InitialStock[p] + Adjusted(p) - Quantity(p, "sold")
    BY DEF StockIsAccountedFor
  <2>1. /\ Quantity(p, "reserved") = SumOver(Units, In(p, "reserved"))
        /\ Quantity(p, "sold") = SumOver(Units, In(p, "sold"))
        /\ Adjusted(p) = SumOver(Changes, DoneOn(p))
    BY DEF Quantity, Adjusted, SumOver, In, DoneOn
  <2>2. /\ Reserved[p] = SumOver(Units, In(p, "reserved"))
        /\ Sold[p] = SumOver(Units, In(p, "sold"))
        /\ Added[p] = SumOver(Changes, DoneOn(p))
    BY SumsAre, <1>1 DEF IInv
  <2> QED
    BY <1>1, <2>1, <2>2 DEF IInv, Accounts
<1> QED
  BY <1>1, IInvHolds, PTL
=============================================================================
