--------------------------------- MODULE Cart ---------------------------------
(***************************************************************************)
(* One user's row of one product option in the cart                        *)
(* (src/src/cart): AddCartUseCase reads the row, compares the stock with   *)
(* what the cart would hold, and the service reads the row again before it *)
(* updates or creates it; the removal takes one piece or deletes the row.  *)
(* No transaction and no lock surrounds a request.                         *)
(***************************************************************************)
EXTENDS Integers, FiniteSetsExt

CONSTANTS
  Additions,  \* requests that add to the cart
  Removals,   \* calls of RemoveCartUseCase; the HTTP request for one does not
              \* pass validation (README)
  Quantity,   \* of each addition
  Stocks      \* values the available stock of the option may have

NoRow == [id |-> 0, quantity |-> 0]

\* The quantities the request allows: @Min(1)
AddCartRequest == Nat \ {0}

ASSUME CartAssumption ==
  /\ Additions \cap Removals = {}
  /\ Quantity \in [Additions -> AddCartRequest]
  /\ Stocks \subseteq Nat

VARIABLES
  row,     \* the row of cart_items, or NoRow
  lastId,  \* autoincrement
  pc,
  read,    \* the row each request last read or created
  checked, \* the stock each addition was checked against
  stale    \* requests that wrote after the row had changed since they first
           \* read it, kept for the properties

vars == <<row, lastId, pc, read, checked, stale>>

Requests == Additions \cup Removals

Goto(r, p) == pc' = [pc EXCEPT ![r] = p]

ReadRow(r) == read' = [read EXCEPT ![r] = row]
-----------------------------------------------------------------------------
\* getCartItem of the use case
ReadQuantity(a) ==
  /\ pc[a] = "new"
  /\ Goto(a, "check") /\ ReadRow(a)
  /\ UNCHANGED <<row, lastId, checked, stale>>

\* Mutant of Enough: the stock is compared with the quantity of the request.
EnoughForRequest(a, stock) == stock >= Quantity[a]

Enough(a, stock) == stock >= read[a].quantity + Quantity[a]

CheckStock(a) ==
  /\ pc[a] = "check"
  /\ \E stock \in Stocks :
       /\ checked' = [checked EXCEPT ![a] = stock]
       /\ Goto(a, IF Enough(a, stock) THEN "find" ELSE "refused")
  /\ UNCHANGED <<row, lastId, read, stale>>

\* The row changed between the two reads of the addition, or after the second.
Marked(r) == IF read[r] = row THEN stale ELSE stale \cup {r}

\* getCartItem of the service
FindRow(a) ==
  /\ pc[a] = "find"
  /\ Goto(a, IF row = NoRow THEN "create" ELSE "update")
  /\ stale' = Marked(a)
  /\ ReadRow(a)
  /\ UNCHANGED <<row, lastId, checked>>

\* Mutant of Create: a row of the user and the option is created all the same.
CreateAnyway(a) ==
  /\ pc[a] = "create"
  /\ row' = [id |-> lastId + 1, quantity |-> Quantity[a]]
  /\ lastId' = lastId + 1
  /\ read' = [read EXCEPT ![a] = row']
  /\ Goto(a, "done")
  /\ UNCHANGED <<checked, stale>>

\* uk_user_product_option refuses a second row.
Create(a) ==
  /\ pc[a] = "create"
  /\ lastId' = lastId + 1
  /\ IF row = NoRow
     THEN row' = [id |-> lastId + 1, quantity |-> Quantity[a]] /\ Goto(a, "done")
     ELSE row' = row /\ Goto(a, "failed")
  /\ read' = [read EXCEPT ![a] = row']
  /\ UNCHANGED <<checked, stale>>

\* Mutant of Write: the row is found by user and option.
WriteByOption(r, quantity) ==
  IF row # NoRow
  THEN row' = [row EXCEPT !.quantity = quantity] /\ Goto(r, "done") /\ stale' = Marked(r)
  ELSE row' = row /\ Goto(r, "failed") /\ stale' = stale

\* By id: a row that is gone cannot be updated, whatever took its place.
Write(r, quantity) ==
  IF row.id = read[r].id
  THEN row' = [row EXCEPT !.quantity = quantity] /\ Goto(r, "done") /\ stale' = Marked(r)
  ELSE row' = row /\ Goto(r, "failed") /\ stale' = stale

Increase(a) ==
  /\ pc[a] = "update"
  /\ Write(a, read[a].quantity + Quantity[a])
  /\ UNCHANGED <<lastId, read, checked>>
-----------------------------------------------------------------------------
\* Mutant of ShouldBeRemoved: the last piece is taken, and the row stays.
RemovedBelowOne(r) == row.quantity < 1

\* shouldBeRemoved
ShouldBeRemoved(r) == row.quantity <= 1

\* CART_ITEM_NOT_FOUND when there is no row
FindToRemove(r) ==
  /\ pc[r] = "new"
  /\ ReadRow(r)
  /\ Goto(r, IF row = NoRow THEN "failed"
             ELSE IF ShouldBeRemoved(r) THEN "delete" ELSE "decrease")
  /\ UNCHANGED <<row, lastId, checked, stale>>

Delete(r) ==
  /\ pc[r] = "delete"
  /\ IF row.id = read[r].id
     THEN row' = NoRow /\ Goto(r, "done") /\ stale' = Marked(r)
     ELSE row' = row /\ Goto(r, "failed") /\ stale' = stale
  /\ UNCHANGED <<lastId, read, checked>>

Decrease(r) ==
  /\ pc[r] = "decrease"
  /\ Write(r, read[r].quantity - 1)
  /\ UNCHANGED <<lastId, read, checked>>
-----------------------------------------------------------------------------
\* findManyByUserId
CartItems == {row} \ {NoRow}

\* getCart: each row is joined with its option and product, neither of which
\* is ever deleted.
GetCart == {[cartItemId |-> item.id, quantity |-> item.quantity] : item \in CartItems}
-----------------------------------------------------------------------------
Init ==
  /\ row = NoRow /\ lastId = 0
  /\ pc = [r \in Requests |-> "new"]
  /\ read = [r \in Requests |-> NoRow]
  /\ checked = [a \in Additions |-> 0]
  /\ stale = {}

Add(a) == ReadQuantity(a) \/ CheckStock(a) \/ FindRow(a) \/ Create(a) \/ Increase(a)

Remove(r) == FindToRemove(r) \/ Delete(r) \/ Decrease(r)

Next == (\E a \in Additions : Add(a)) \/ (\E r \in Removals : Remove(r))

Spec == Init /\ [][Next]_vars
-----------------------------------------------------------------------------
Done(S) == {r \in S : pc[r] = "done"}

Added == MapThenSumSet(LAMBDA a : Quantity[a], Done(Additions))

\* What the user sees in the cart
Shown == MapThenSumSet(LAMBDA item : item.quantity, GetCart)

\* Every row can be read back: mapToDomain refuses a quantity below one, and
\* with it the whole cart.
TypeOK ==
  /\ row = NoRow \/ (row.id \in 1..lastId /\ row.quantity \in Nat \ {0})
  /\ pc \in [Requests -> {"new", "check", "find", "refused", "create", "update",
                          "delete", "decrease", "done", "failed"}]
  /\ \A r \in Requests : read[r] = NoRow \/ read[r].id \in 1..lastId
  /\ checked \in [Additions -> Stocks \cup {0}]
  /\ stale \subseteq Requests

\* RF-006: whatever requests overlap, a cart never shows more than was added
\* to the row with success: a late write does not bring back what a removal
\* deleted.
HoldsWhatWasAdded ==
  \A item \in GetCart :
    item.quantity <= MapThenSumSet(LAMBDA a : Quantity[a],
                                   {a \in Done(Additions) : read[a].id = item.cartItemId})

\* RF-005: requests that overlap in their two reads, or between a read and the
\* write, apart, the cart holds exactly what was added and not removed again.
CountsWhenSequential ==
  stale = {} => Shown = Added - Cardinality(Done(Removals))

\* The addition that wrote last held to the stock it was checked against.
WithinStock ==
  stale = {} /\ Done(Additions) # {} =>
    \E a \in Done(Additions) : Shown <= checked[a]
=============================================================================
