-------------------------- MODULE CouponRedisProofs --------------------------
(***************************************************************************)
(* Proofs about the coupons in Redis, for any number of users, coupons and *)
(* orders, any faults and any number of redeliveries: the issued quantity, *)
(* the rows behind the discounts, and the campaign that CouponSale states. *)
(***************************************************************************)
EXTENDS CouponRedis, FiniteSetTheorems, TLAPS

\* A hash that a user holds: issued, whether used or not
Held == {"unused"} \cup Orders

RowOf(o) == rows[UserOf[o]][CouponOf[o]]

Types ==
  /\ TypeOK
  /\ coupons \in [Coupons -> [cached : BOOLEAN, issuedQuantity : Nat]]
  /\ \A c \in Coupons : IsFiniteSet(Holders(c))

\* What a payment has done to the coupon when its task is at a step
TaskHasUsed ==
  /\ \A o \in Orders : task[o] \in {"create", "publish"} => HashOf(o) \in Held
  /\ \A o \in published : HashOf(o) \in Held

\* A payment that has not failed elsewhere has a row from the moment it was
\* written: only the payment's own release deletes it.
RowStands ==
  /\ \A o \in Orders : undo[o] = "none" <=> failure[o] = "none"
  /\ \A o \in Orders :
       task[o] = "publish" \/ o \in published => failure[o] # "none" \/ RowOf(o) = o

IInv == Types /\ IssuedCountsHolders /\ TaskHasUsed /\ RowStands
-----------------------------------------------------------------------------
\* A hash is held unless it is absent or a phantom.
LEMMA Hashes ==
  /\ Held \subseteq UserCoupon /\ "absent" \notin Held /\ "phantom" \notin Held
  /\ \A h \in UserCoupon : h \notin {"absent", "phantom"} <=> h \in Held
  /\ \A o \in Orders : o \in Held /\ UserOf[o] \in Users /\ CouponOf[o] \in Coupons
  BY CouponAssumption DEF Held, UserCoupon

\* A coupon's hash is legal if no more were issued than there are.
LEMMA ReadableCoupons ==
  ASSUME NEW d \in Coupons, NEW k \in [cached : BOOLEAN, issuedQuantity : Nat]
  PROVE  k \in CachedCoupon(d) <=> k.issuedQuantity <= Total[d]
  BY CouponAssumption DEF CachedCoupon

\* The holders of a coupon are the users whose hash is held.
LEMMA HoldersAre ==
  ASSUME NEW c \in Coupons, userCoupons \in [Users -> [Coupons -> UserCoupon]]
  PROVE  Holders(c) = {u \in Users : userCoupons[u][c] \in Held}
<1>1. \A u \in Users : userCoupons[u][c] \in UserCoupon
  OBVIOUS
<1> QED
  BY <1>1, Hashes DEF Holders, CachedUserCoupons

\* The writes of the use and the release keep a hash on its side: one that is
\* held stays held, one that is not stays not.
LEMMA WriteKeepsHolders ==
  ASSUME userCoupons \in [Users -> [Coupons -> UserCoupon]],
         NEW o \in Orders, NEW h \in UserCoupon, SetHash(o, h),
         h \in Held <=> HashOf(o) \in Held
  PROVE  /\ userCoupons' \in [Users -> [Coupons -> UserCoupon]]
         /\ \A c \in Coupons : Holders(c)' = Holders(c)
         /\ \A u \in Users, c \in Coupons :
              userCoupons'[u][c] \in Held <=> userCoupons[u][c] \in Held
<1>1. userCoupons' \in [Users -> [Coupons -> UserCoupon]]
  BY Hashes DEF SetHash
<1>2. \A u \in Users, c \in Coupons :
        userCoupons'[u][c] \in Held <=> userCoupons[u][c] \in Held
  BY Hashes DEF SetHash, HashOf
<1>3. ASSUME NEW c \in Coupons
      PROVE  Holders(c)' = Holders(c)
  <2>1. Holders(c)' = {u \in Users : userCoupons'[u][c] \in Held}
    <3>1. \A u \in Users : userCoupons'[u][c] \in UserCoupon
      BY <1>1
    <3> QED
      BY <3>1, Hashes DEF Holders, CachedUserCoupons
  <2> QED
    BY <1>2, <2>1, HoldersAre
<1> QED
  BY <1>1, <1>2, <1>3

\* Hashes that do not change have the same holders.
LEMMA UnchangedHolders ==
  ASSUME UNCHANGED userCoupons
  PROVE  /\ \A c \in Coupons : Holders(c)' = Holders(c)
         /\ \A o : HashOf(o)' = HashOf(o)
  BY DEF Holders, CachedUserCoupons, HashOf

\* A cancellation makes no holder of one who was none, nor the reverse.
LEMMA CancelledKeepsSide ==
  ASSUME NEW h \in UserCoupon
  PROVE  Cancelled(h) \in UserCoupon /\ (Cancelled(h) \in Held <=> h \in Held)
  BY CouponAssumption DEF Cancelled, Held, UserCoupon
-----------------------------------------------------------------------------
\* Nothing is issued at first.
LEMMA InitIInv == Init => IInv
<1> SUFFICES ASSUME Init PROVE IInv
  OBVIOUS
<1>1. userCoupons \in [Users -> [Coupons -> UserCoupon]]
  BY DEF Init, UserCoupon
<1>2. ASSUME NEW c \in Coupons
      PROVE  Holders(c) = {} /\ IsFiniteSet(Holders(c)) /\ Cardinality(Holders(c)) = 0
  <2>1. Holders(c) = {}
    BY DEF Init, Holders, CachedUserCoupons
  <2> QED
    BY <2>1, FS_EmptySet
<1>3. /\ \A c \in Coupons : coupons[c] \in CachedCoupon(c) /\ coupons[c].issuedQuantity = 0
      /\ coupons \in [Coupons -> [cached : BOOLEAN, issuedQuantity : Nat]]
  BY CouponAssumption DEF Init, CachedCoupon
<1>4. TypeOK
  BY <1>1, <1>3, CouponAssumption DEF Init, TypeOK
<1>5. TaskHasUsed /\ RowStands
  BY DEF Init, TaskHasUsed, RowStands
<1> QED
  BY <1>2, <1>3, <1>4, <1>5 DEF IInv, Types, IssuedCountsHolders

\* A coupon registered or expired leaves the holders alone.
LEMMA CampaignKeepsIInv ==
  ASSUME IInv, NEW c \in Coupons, RegisterCoupon(c) \/ Expire(c)
  PROVE  IInv'
<1>1. /\ userCoupons' = userCoupons /\ rows' = rows /\ UNCHANGED payVars
      /\ coupons' \in [Coupons -> [cached : BOOLEAN, issuedQuantity : Nat]]
      /\ \A d \in Coupons : /\ coupons'[d] \in CachedCoupon(d)
                            /\ coupons'[d].issuedQuantity = coupons[d].issuedQuantity
      /\ lapsed' \subseteq Coupons
  <2>1. CASE RegisterCoupon(c)
    <3>1. /\ coupons' = [coupons EXCEPT ![c].cached = TRUE]
          /\ coupons \in [Coupons -> [cached : BOOLEAN, issuedQuantity : Nat]]
          /\ UNCHANGED <<lapsed, userCoupons, rows, payVars>>
      BY <2>1 DEF RegisterCoupon, IInv, Types
    <3>2. /\ coupons' \in [Coupons -> [cached : BOOLEAN, issuedQuantity : Nat]]
          /\ \A d \in Coupons : coupons'[d].issuedQuantity = coupons[d].issuedQuantity
      BY <3>1
    <3>3. \A d \in Coupons : coupons'[d] \in CachedCoupon(d)
      BY <3>2, ReadableCoupons DEF IInv, Types, TypeOK
    <3> QED
      BY <3>1, <3>2, <3>3 DEF IInv, Types, TypeOK
  <2>2. CASE Expire(c)
    BY <2>2 DEF Expire, IInv, Types, TypeOK
  <2> QED
    BY <2>1, <2>2
<1> QED
  BY <1>1, UnchangedHolders
  DEF IInv, Types, TypeOK, IssuedCountsHolders, TaskHasUsed, RowStands, RowOf, payVars

\* One more user holds the coupon, and one more is issued.
LEMMA IssueKeepsIInv ==
  ASSUME IInv, NEW c \in Coupons, NEW u \in Users, IssueCoupon(u, c)
  PROVE  IInv' /\ \A d \in Coupons : Holders(d)' = IF d = c THEN Holders(c) \cup {u} ELSE Holders(d)
<1>1. /\ userCoupons \in [Users -> [Coupons -> UserCoupon]]
      /\ userCoupons[u][c] = "absent" /\ coupons[c].issuedQuantity < Total[c]
      /\ userCoupons' = [userCoupons EXCEPT ![u][c] = "unused"]
      /\ coupons' = [coupons EXCEPT ![c].issuedQuantity = @ + 1]
      /\ UNCHANGED <<lapsed, rows, payVars>>
  BY DEF IInv, Types, TypeOK, IssueCoupon, Issuable
<1>2. /\ userCoupons' \in [Users -> [Coupons -> UserCoupon]]
      /\ \A v \in Users, d \in Coupons :
           userCoupons'[v][d] = IF v = u /\ d = c THEN "unused" ELSE userCoupons[v][d]
  BY <1>1 DEF UserCoupon
<1>3. /\ coupons' \in [Coupons -> [cached : BOOLEAN, issuedQuantity : Nat]]
      /\ \A d \in Coupons \ {c} : coupons'[d] = coupons[d]
      /\ coupons'[c].issuedQuantity = coupons[c].issuedQuantity + 1
      /\ \A d \in Coupons : coupons'[d] \in CachedCoupon(d)
  <2>1. coupons \in [Coupons -> [cached : BOOLEAN, issuedQuantity : Nat]]
    BY DEF IInv, Types
  <2>2. /\ coupons' \in [Coupons -> [cached : BOOLEAN, issuedQuantity : Nat]]
        /\ \A d \in Coupons \ {c} : coupons'[d] = coupons[d]
        /\ coupons'[c].issuedQuantity = coupons[c].issuedQuantity + 1
    BY <1>1, <2>1
  <2>3. coupons'[c].issuedQuantity <= Total[c]
    <3>1. coupons[c].issuedQuantity \in Nat /\ Total[c] \in Nat
      BY <2>1, CouponAssumption
    <3> QED
      BY <1>1, <2>2, <3>1
  <2>4. \A d \in Coupons : coupons[d].issuedQuantity <= Total[d]
    BY ReadableCoupons DEF IInv, Types, TypeOK
  <2>5. \A d \in Coupons : coupons'[d].issuedQuantity <= Total[d]
    BY <2>2, <2>3, <2>4
  <2> QED
    BY <2>2, <2>5, ReadableCoupons
<1>4. \A d \in Coupons : Holders(d)' = IF d = c THEN Holders(c) \cup {u} ELSE Holders(d)
  <2> SUFFICES ASSUME NEW d \in Coupons
               PROVE  Holders(d)' = IF d = c THEN Holders(c) \cup {u} ELSE Holders(d)
    OBVIOUS
  <2>1. Holders(d)' = {v \in Users : userCoupons'[v][d] \in Held}
    <3>1. \A v \in Users : userCoupons'[v][d] \in UserCoupon
      BY <1>2
    <3> QED
      BY <3>1, Hashes DEF Holders, CachedUserCoupons
  <2>2. \A v \in Users :
          userCoupons'[v][d] \in Held <=> (v = u /\ d = c) \/ userCoupons[v][d] \in Held
    BY <1>2, Hashes DEF Held
  <2>3. Holders(d) = {v \in Users : userCoupons[v][d] \in Held}
    BY <1>1, HoldersAre
  <2> QED
    BY <2>1, <2>2, <2>3
<1>5. u \notin Holders(c)
  BY <1>1 DEF Holders, CachedUserCoupons
<1>6. /\ IsFiniteSet(Holders(c) \cup {u})
      /\ Cardinality(Holders(c) \cup {u}) = Cardinality(Holders(c)) + 1
  BY <1>5, FS_AddElement DEF IInv, Types
<1>7. Types' /\ IssuedCountsHolders'
  <2>1. TypeOK'
    BY <1>1, <1>2, <1>3 DEF IInv, Types, TypeOK, payVars
  <2>2. \A d \in Coupons :
          /\ IsFiniteSet(Holders(d)')
          /\ coupons'[d].issuedQuantity = Cardinality(Holders(d)')
    <3>1. ASSUME NEW d \in Coupons, d # c
          PROVE  IsFiniteSet(Holders(d)') /\ coupons'[d].issuedQuantity = Cardinality(Holders(d)')
      BY <1>3, <1>4, <3>1 DEF IInv, Types, IssuedCountsHolders
    <3>2. IsFiniteSet(Holders(c)') /\ coupons'[c].issuedQuantity = Cardinality(Holders(c)')
      <4>1. Holders(c)' = Holders(c) \cup {u}
        BY <1>4
      <4>2. coupons[c].issuedQuantity = Cardinality(Holders(c))
        BY DEF IInv, IssuedCountsHolders
      <4> QED
        BY <1>3, <1>6, <4>1, <4>2
    <3> QED
      BY <3>1, <3>2
  <2> QED
    BY <1>3, <2>1, <2>2 DEF Types, IssuedCountsHolders
<1>8. TaskHasUsed'
  <2>1. \A o \in Orders : HashOf(o) \in Held => HashOf(o)' \in Held
    BY <1>2, Hashes DEF HashOf, Held
  <2>2. published \subseteq Orders
    BY DEF IInv, Types, TypeOK
  <2> QED
    BY <1>1, <2>1, <2>2 DEF IInv, TaskHasUsed, payVars
<1>9. RowStands'
  BY <1>1 DEF IInv, RowStands, RowOf, payVars
<1> QED
  BY <1>4, <1>7, <1>8, <1>9 DEF IInv
-----------------------------------------------------------------------------
(***************************************************************************)
(* The steps of a payment: its use of the coupon and its release.          *)
(***************************************************************************)
Payment(o) ==
  \/ Ask(o) \/ Use(o) \/ Redeliver(o) \/ Undo(o)
  \/ \E service \in {"stock", "payment"} : FailElsewhere(o, service)

Tasks == {"none", "get", "use", "create", "publish", "used", "cancelCheck", "cancel",
          "publishFail", "failed"}

Undos == {"none", "check", "cancel", "delete", "done"}

\* The variables' types, one by one
LEMMA TypesAre ==
  ASSUME Types
  PROVE  /\ userCoupons \in [Users -> [Coupons -> UserCoupon]]
         /\ rows \in [Users -> [Coupons -> Orders \cup {NoOrder}]]
         /\ task \in [Orders -> Tasks] /\ undo \in [Orders -> Undos]
         /\ published \subseteq Orders
         /\ failure \in [Orders -> {"none", "stock", "payment"}]
         /\ redelivered \in [Orders -> 0..MaxRedeliveries] /\ MaxRedeliveries \in Nat
         /\ \A o \in Orders : HashOf(o) \in UserCoupon
  BY CouponAssumption DEF Types, TypeOK, Tasks, Undos, HashOf

\* A payment writes its own hash at most.
LEMMA PaymentWrites ==
  ASSUME Types, NEW o \in Orders, Payment(o)
  PROVE  /\ userCoupons' \in [Users -> [Coupons -> UserCoupon]]
         /\ \A c \in Coupons : Holders(c)' = Holders(c)
         /\ \A p \in Orders : HashOf(p)' \in Held <=> HashOf(p) \in Held
         /\ coupons' = coupons /\ lapsed' = lapsed
<1>1. coupons' = coupons /\ lapsed' = lapsed
  BY DEF Payment, Ask, Use, Redeliver, Undo, FailElsewhere, GetCachedCoupon, UseCoupon,
         CreateUserCoupon, PublishSuccess, CancelCheck, CancelUse, PublishFail,
         ReleaseCheck, ReleaseUse, DeleteUserCoupon, saleVars
<1>2. \/ UNCHANGED userCoupons
      \/ \E h \in UserCoupon : SetHash(o, h) /\ (h \in Held <=> HashOf(o) \in Held)
  <2>1. CASE UseCoupon(o)
    BY <2>1, Hashes DEF UseCoupon, Held
  <2>2. CASE CancelUse(o) \/ ReleaseUse(o)
    <3>1. HashOf(o) \in UserCoupon
      BY TypesAre
    <3> QED
      BY <2>2, <3>1, CancelledKeepsSide DEF CancelUse, ReleaseUse
  <2>3. CASE ~ (UseCoupon(o) \/ CancelUse(o) \/ ReleaseUse(o))
    BY <2>3 DEF Payment, Ask, Use, Redeliver, Undo, FailElsewhere, GetCachedCoupon,
         CreateUserCoupon, PublishSuccess, CancelCheck, PublishFail,
         ReleaseCheck, DeleteUserCoupon
  <2> QED
    BY <2>1, <2>2, <2>3
<1>3. CASE UNCHANGED userCoupons
  BY <1>1, <1>3, TypesAre, UnchangedHolders
<1>4. CASE \E h \in UserCoupon : SetHash(o, h) /\ (h \in Held <=> HashOf(o) \in Held)
  <2>1. /\ userCoupons' \in [Users -> [Coupons -> UserCoupon]]
        /\ \A c \in Coupons : Holders(c)' = Holders(c)
        /\ \A u \in Users, c \in Coupons :
             userCoupons'[u][c] \in Held <=> userCoupons[u][c] \in Held
    BY <1>4, TypesAre, WriteKeepsHolders
  <2> QED
    BY <1>1, <2>1, Hashes DEF HashOf
<1> QED
  BY <1>2, <1>3, <1>4

\* A payment keeps the types and the count of the holders.
LEMMA PaymentKeepsTypes ==
  ASSUME Types, IssuedCountsHolders, NEW o \in Orders, Payment(o)
  PROVE  Types' /\ IssuedCountsHolders'
<1>1. /\ userCoupons' \in [Users -> [Coupons -> UserCoupon]]
      /\ \A c \in Coupons : Holders(c)' = Holders(c)
      /\ coupons' = coupons /\ lapsed' = lapsed
  BY PaymentWrites
<1>2. rows' \in [Users -> [Coupons -> Orders \cup {NoOrder}]]
  <2>1. CASE CreateUserCoupon(o)
    <3>1. rows' = rows \/ rows' = [rows EXCEPT ![UserOf[o]][CouponOf[o]] = o]
      BY <2>1 DEF CreateUserCoupon
    <3>2. /\ rows \in [Users -> [Coupons -> Orders \cup {NoOrder}]]
          /\ UserOf[o] \in Users /\ CouponOf[o] \in Coupons
      BY TypesAre, Hashes
    <3>3. [rows EXCEPT ![UserOf[o]][CouponOf[o]] = o] \in [Users -> [Coupons -> Orders \cup {NoOrder}]]
      BY <3>2
    <3> QED
      BY <3>1, <3>2, <3>3
  <2>2. CASE DeleteUserCoupon(o)
    <3>1. \A u \in Users, c \in Coupons : rows[u][c] \in Orders \cup {NoOrder}
      BY TypesAre
    <3>2. rows' = [u \in Users |-> [c \in Coupons |->
                     IF rows[u][c] = o THEN NoOrder ELSE rows[u][c]]]
      BY <2>2 DEF DeleteUserCoupon
    <3> QED
      BY <3>1, <3>2
  <2>3. CASE ~ (CreateUserCoupon(o) \/ DeleteUserCoupon(o))
    <3>1. rows' = rows
      BY <2>3 DEF Payment, Ask, Use, Redeliver, Undo, FailElsewhere, GetCachedCoupon,
         UseCoupon, PublishSuccess, CancelCheck, CancelUse, PublishFail,
         ReleaseCheck, ReleaseUse
    <3> QED
      BY <3>1, TypesAre
  <2> QED
    BY <2>1, <2>2, <2>3
<1>3. /\ task' \in [Orders -> Tasks] /\ undo' \in [Orders -> Undos]
      /\ published' \subseteq Orders
  BY TypesAre DEF Payment, Ask, Use, Redeliver, Undo, FailElsewhere, GetCachedCoupon, UseCoupon,
         CreateUserCoupon, PublishSuccess, CancelCheck, CancelUse, PublishFail,
         ReleaseCheck, ReleaseUse, DeleteUserCoupon, TaskStep, UndoStep, Tasks, Undos
<1>4. /\ failure' \in [Orders -> {"none", "stock", "payment"}]
      /\ redelivered' \in [Orders -> 0..MaxRedeliveries]
  <2>1. CASE Redeliver(o)
    BY <2>1, TypesAre DEF Redeliver
  <2>2. CASE \E service \in {"stock", "payment"} : FailElsewhere(o, service)
    BY <2>2, TypesAre DEF FailElsewhere
  <2>3. CASE Ask(o) \/ Use(o) \/ Undo(o)
    <3>1. failure' = failure /\ redelivered' = redelivered
      BY <2>3 DEF Ask, Use, Undo, GetCachedCoupon, UseCoupon, CreateUserCoupon,
         PublishSuccess, CancelCheck, CancelUse, PublishFail, ReleaseCheck, ReleaseUse,
         DeleteUserCoupon
    <3> QED
      BY <3>1, TypesAre
  <2> QED
    BY <2>1, <2>2, <2>3 DEF Payment
<1>5. TypeOK'
  BY <1>1, <1>2, <1>3, <1>4 DEF Types, TypeOK, Tasks, Undos, CachedCoupon
<1> QED
  BY <1>1, <1>5 DEF Types, IssuedCountsHolders

\* A payment keeps the hash of the coupon it has marked.
LEMMA PaymentKeepsUsed ==
  ASSUME Types, TaskHasUsed, NEW o \in Orders, Payment(o)
  PROVE  TaskHasUsed'
<1>1. \A p \in Orders : HashOf(p)' \in Held <=> HashOf(p) \in Held
  BY PaymentWrites
<1>2. \A p \in Orders : task'[p] \in {"create", "publish"} =>
        \/ task[p] \in {"create", "publish"}
        \/ HashOf(p) = "unused"
  BY TypesAre DEF Payment, Ask, Use, Redeliver, Undo, FailElsewhere, GetCachedCoupon, UseCoupon,
         CreateUserCoupon, PublishSuccess, CancelCheck, CancelUse, PublishFail,
         ReleaseCheck, ReleaseUse, DeleteUserCoupon, TaskStep
<1>3. published' \subseteq published \cup {p \in Orders : task[p] = "publish"}
  BY DEF Payment, Ask, Use, Redeliver, Undo, FailElsewhere, GetCachedCoupon, UseCoupon,
         CreateUserCoupon, PublishSuccess, CancelCheck, CancelUse, PublishFail,
         ReleaseCheck, ReleaseUse, DeleteUserCoupon, TaskStep
<1>4. "unused" \in Held /\ published \subseteq Orders
  BY TypesAre DEF Held
<1> QED
  BY <1>1, <1>2, <1>3, <1>4 DEF TaskHasUsed

\* A row goes only by the release of its own payment.
LEMMA PaymentKeepsRows ==
  ASSUME Types, RowStands, NEW o \in Orders, Payment(o)
  PROVE  RowStands'
<1>1. \A p \in Orders : undo'[p] = "none" <=> failure'[p] = "none"
  <2>1. CASE Undo(o)
    BY <2>1, TypesAre DEF Undo, ReleaseCheck, ReleaseUse, DeleteUserCoupon, UndoStep, RowStands
  <2>2. CASE \E service \in {"stock", "payment"} : FailElsewhere(o, service)
    BY <2>2, TypesAre DEF FailElsewhere, UndoStep, RowStands
  <2>3. CASE Ask(o) \/ Use(o) \/ Redeliver(o)
    BY <2>3 DEF Ask, Use, Redeliver, GetCachedCoupon, UseCoupon, CreateUserCoupon,
         PublishSuccess, CancelCheck, CancelUse, PublishFail, RowStands
  <2> QED
    BY <2>1, <2>2, <2>3 DEF Payment
<1>2. \A p \in Orders : failure[p] # "none" => failure'[p] # "none"
  BY TypesAre DEF Payment, Ask, Use, Redeliver, Undo, FailElsewhere, GetCachedCoupon, UseCoupon,
         CreateUserCoupon, PublishSuccess, CancelCheck, CancelUse, PublishFail,
         ReleaseCheck, ReleaseUse, DeleteUserCoupon
<1>3. ASSUME NEW p \in Orders, RowOf(p) = p, failure[p] = "none"
      PROVE  RowOf(p)' = p
  <2>1. UserOf[p] \in Users /\ CouponOf[p] \in Coupons /\ p # NoOrder
    BY Hashes, CouponAssumption
  <2>2. CASE CreateUserCoupon(o)
    BY <1>3, <2>1, <2>2, TypesAre DEF CreateUserCoupon, RowOf
  <2>3. CASE DeleteUserCoupon(o)
    <3>1. undo[o] # "none" /\ p # o
      BY <1>3, <2>3 DEF DeleteUserCoupon, UndoStep, RowStands
    <3> QED
      BY <1>3, <2>1, <2>3, <3>1 DEF DeleteUserCoupon, RowOf
  <2>4. CASE ~ (CreateUserCoupon(o) \/ DeleteUserCoupon(o))
    <3>1. rows' = rows
      BY <2>4 DEF Payment, Ask, Use, Redeliver, Undo, FailElsewhere, GetCachedCoupon,
         UseCoupon, PublishSuccess, CancelCheck, CancelUse, PublishFail,
         ReleaseCheck, ReleaseUse
    <3> QED
      BY <1>3, <3>1 DEF RowOf
  <2> QED
    BY <2>2, <2>3, <2>4
<1>4. ASSUME NEW p \in Orders, task'[p] = "publish" \/ p \in published'
      PROVE  \/ task[p] = "publish" \/ p \in published
             \/ RowOf(p)' = p
  <2>1. CASE CreateUserCoupon(o)
    BY <1>4, <2>1, TypesAre, Hashes DEF CreateUserCoupon, TaskStep, RowOf
  <2>2. CASE ~ CreateUserCoupon(o)
    BY <1>4, <2>2, TypesAre DEF Payment, Ask, Use, Redeliver, Undo, FailElsewhere, GetCachedCoupon,
         UseCoupon, PublishSuccess, CancelCheck, CancelUse, PublishFail,
         ReleaseCheck, ReleaseUse, DeleteUserCoupon, TaskStep
  <2> QED
    BY <2>1, <2>2
<1>5. \A p \in Orders :
        task'[p] = "publish" \/ p \in published' => failure'[p] # "none" \/ RowOf(p)' = p
  BY <1>2, <1>3, <1>4 DEF RowStands
<1> QED
  BY <1>1, <1>5 DEF RowStands

\* Every step keeps the invariant.
LEMMA NextKeepsIInv == IInv /\ [Next]_vars => IInv'
<1> SUFFICES ASSUME IInv, [Next]_vars PROVE IInv'
  OBVIOUS
<1>1. CASE Campaign
  BY <1>1, CampaignKeepsIInv, IssueKeepsIInv DEF Campaign
<1>2. CASE \E o \in Orders : Payment(o)
  BY <1>2, PaymentKeepsTypes, PaymentKeepsUsed, PaymentKeepsRows DEF IInv
<1>3. CASE UNCHANGED vars
  BY <1>3, UnchangedHolders
  DEF vars, saleVars, payVars, IInv, Types, TypeOK, IssuedCountsHolders, TaskHasUsed, RowStands,
      RowOf
<1> QED
  BY <1>1, <1>2, <1>3 DEF Next, Payment

\* The invariant holds throughout.
LEMMA IInvHolds == Spec => []IInv
  BY InitIInv, NextKeepsIInv, PTL DEF Spec
-----------------------------------------------------------------------------
\* A coupon can always be read back: it is never issued more often than its
\* quantity (NFR-010), whatever is used, released, redelivered or fails.
THEOREM TypeCorrect == Spec => []TypeOK
<1>1. IInv => TypeOK
  BY DEF IInv, Types
<1> QED
  BY <1>1, IInvHolds, PTL

\* The counter of the ISSUE script and the hashes of the users never part,
\* though they are written by four scripts and commands.
THEOREM IssuedQuantityCounts == Spec => []IssuedCountsHolders
  BY IInvHolds, PTL DEF IInv

\* The row of user_coupons stands as long as the payment it was written for
\* can keep the discount (createUserCoupon, deleteByOrderId).
THEOREM DiscountsHaveRows == Spec => []DiscountHasRow
<1>1. IInv => DiscountHasRow
  BY DEF IInv, RowStands, RowOf, DiscountHasRow, Discounted, Types, TypeOK
<1> QED
  BY <1>1, IInvHolds, PTL
-----------------------------------------------------------------------------
(***************************************************************************)
(* CouponSale: every step of the campaign or of a payment opens, closes,   *)
(* grants, discounts or withdraws, or is none of the campaign's business.  *)
(***************************************************************************)
Open == {c \in Coupons : coupons[c].cached} \ lapsed

Granted == [c \in Coupons |-> Holders(c)]

\* The instance counts as the module does.
LEMMA SameCardinality == \A S : Sale!Cardinality(S) = Cardinality(S)
  BY Zenon DEF Sale!Cardinality, Cardinality, Sale!IsFiniteSet, IsFiniteSet

\* Registering, expiring and issuing are steps of the abstract sale, or none.
LEMMA CampaignRefines ==
  ASSUME IInv, Campaign
  PROVE  [Sale!Next]_<<Open, Granted, Discounted>>
<1>1. Discounted' = Discounted
  BY DEF Campaign, RegisterCoupon, Expire, IssueCoupon, Discounted, payVars
<1>2. coupons \in [Coupons -> [cached : BOOLEAN, issuedQuantity : Nat]]
  BY DEF IInv, Types
<1>3. ASSUME NEW c \in Coupons, RegisterCoupon(c)
      PROVE  Sale!Open(c) \/ UNCHANGED <<Open, Granted, Discounted>>
  <2>1. \A d \in Coupons : coupons'[d].cached <=> d = c \/ coupons[d].cached
    BY <1>2, <1>3 DEF RegisterCoupon
  <2>2. Open' = Open \/ Open' = Open \cup {c}
    BY <1>3, <2>1 DEF RegisterCoupon, Open
  <2>3. Granted' = Granted
    BY <1>3, UnchangedHolders DEF RegisterCoupon, Granted
  <2> QED
    BY <1>1, <2>2, <2>3 DEF Sale!Open, Open, Granted
<1>4. ASSUME NEW c \in Coupons, Expire(c)
      PROVE  Sale!Close(c)
  <2>1. Open' = Open \ {c}
    BY <1>4 DEF Expire, Open
  <2>2. Granted' = Granted
    BY <1>4, UnchangedHolders DEF Expire, Granted
  <2> QED
    BY <1>1, <2>1, <2>2 DEF Sale!Close, Open, Granted
<1>5. ASSUME NEW c \in Coupons, NEW u \in Users, IssueCoupon(u, c)
      PROVE  Sale!Grant(u, c)
  <2>1. c \in Open
    BY <1>5 DEF IssueCoupon, Issuable, Open
  <2>2. u \notin Holders(c) /\ Cardinality(Holders(c)) < Total[c]
    BY <1>5 DEF IssueCoupon, Issuable, Holders, CachedUserCoupons, IInv, IssuedCountsHolders
  <2>3. \A d \in Coupons : Holders(d)' = IF d = c THEN Holders(c) \cup {u} ELSE Holders(d)
    BY <1>5, IssueKeepsIInv
  <2>4. Granted' = [Granted EXCEPT ![c] = @ \cup {u}]
    BY <2>3 DEF Granted
  <2>5. Open' = Open
    <3>1. \A d \in Coupons : coupons'[d].cached = coupons[d].cached
      BY <1>2, <1>5 DEF IssueCoupon
    <3> QED
      BY <1>5, <3>1 DEF IssueCoupon, Open
  <2>6. Granted[c] = Holders(c)
    BY DEF Granted
  <2>7. u \notin Granted[c] /\ Cardinality(Granted[c]) < Total[c]
    BY <2>2, <2>6
  <2>8. c \in Open /\ u \notin Granted[c] /\ Cardinality(Granted[c]) < Total[c]
        /\ Granted' = [Granted EXCEPT ![c] = Granted[c] \cup {u}]
        /\ Open' = Open /\ Discounted' = Discounted
    BY <1>1, <2>1, <2>4, <2>5, <2>7
  <2> QED
    BY <2>8, SameCardinality, Zenon DEF Sale!Grant, Open, Granted
<1> QED
  BY <1>3, <1>4, <1>5 DEF Campaign, Sale!Next, Open, Granted

\* A payment's steps are steps of the abstract sale, or none.
LEMMA PaymentRefines ==
  ASSUME IInv, NEW o \in Orders, Payment(o)
  PROVE  [Sale!Next]_<<Open, Granted, Discounted>>
<1>1. Open' = Open /\ Granted' = Granted
  BY PaymentWrites DEF IInv, Open, Granted
<1>2. CASE PublishSuccess(o) /\ published' # published
  <2>1. /\ task[o] = "publish" /\ published' = published \cup {o} /\ failure' = failure
    BY <1>2 DEF PublishSuccess, TaskStep
  <2>2. CASE failure[o] # "none"
    <3>1. Discounted' = Discounted
      BY <2>1, <2>2 DEF Discounted
    <3> QED
      BY <1>1, <3>1
  <2>3. CASE failure[o] = "none"
    <3>1. Discounted' = Discounted \cup {o}
      BY <2>1, <2>3 DEF Discounted
    <3>2. RowOf(o) = o
      BY <2>1, <2>3 DEF IInv, RowStands
    <3>3. Sale!Rivals(o) \cap Discounted = {}
      <4> SUFFICES ASSUME NEW p \in Orders \ {o}, UserOf[p] = UserOf[o],
                          CouponOf[p] = CouponOf[o], p \in Discounted
                   PROVE  FALSE
        BY DEF Sale!Rivals
      <4>1. RowOf(p) = p
        BY DEF IInv, RowStands, Discounted
      <4> QED
        BY <3>2, <4>1 DEF RowOf
    <3>4. UserOf[o] \in Granted[CouponOf[o]]
      <4>1. UserOf[o] \in Users /\ CouponOf[o] \in Coupons
        BY Hashes
      <4>2. HashOf(o) \in Held
        BY <2>1 DEF IInv, TaskHasUsed
      <4>3. UserOf[o] \in Holders(CouponOf[o])
        BY <4>1, <4>2, HoldersAre, TypesAre DEF IInv, HashOf
      <4> QED
        BY <4>1, <4>3 DEF Granted
    <3>5. Sale!Discount(o)
      BY <1>1, <3>1, <3>3, <3>4 DEF Sale!Discount, Open, Granted
    <3> QED
      BY <3>5 DEF Sale!Next, Open, Granted
  <2> QED
    BY <2>2, <2>3
<1>3. CASE \E service \in {"stock", "payment"} : FailElsewhere(o, service)
  <2>1. published' = published /\ \E service \in {"stock", "payment"} :
          failure' = [failure EXCEPT ![o] = service]
    BY <1>3 DEF FailElsewhere
  <2>2. Discounted' = Discounted \ {o}
    BY <2>1, TypesAre DEF Discounted, IInv
  <2>3. Sale!Withdraw(o)
    BY <1>1, <2>2 DEF Sale!Withdraw, Open, Granted
  <2> QED
    BY <2>3 DEF Sale!Next, Open, Granted
<1>4. CASE ~ (PublishSuccess(o) /\ published' # published)
           /\ ~ \E service \in {"stock", "payment"} : FailElsewhere(o, service)
  <2>1. published' = published /\ failure' = failure
    BY <1>4 DEF Payment, Ask, Use, Redeliver, Undo, GetCachedCoupon, UseCoupon,
         CreateUserCoupon, PublishSuccess, CancelCheck, CancelUse, PublishFail,
         ReleaseCheck, ReleaseUse, DeleteUserCoupon
  <2>2. Discounted' = Discounted
    BY <2>1 DEF Discounted
  <2> QED
    BY <1>1, <2>2
<1> QED
  BY <1>2, <1>3, <1>4

\* The issue script, the use, its cancellation, the release and the rows in
\* MySQL, with every fault and redelivery, implement the campaign.
THEOREM SaleImplemented == Spec => SaleRefined
<1>1. Init => Sale!Init
  <2> SUFFICES ASSUME Init PROVE Sale!Init
    OBVIOUS
  <2>1. Open = {} /\ Discounted = {}
    BY DEF Init, Open, Discounted
  <2>2. Granted = [c \in Coupons |-> {}]
    BY DEF Init, Granted, Holders, CachedUserCoupons
  <2> QED
    BY <2>1, <2>2 DEF Sale!Init, Open, Granted
<1>2. IInv /\ [Next]_vars => [Sale!Next]_<<Open, Granted, Discounted>>
  <2> SUFFICES ASSUME IInv, [Next]_vars
               PROVE  [Sale!Next]_<<Open, Granted, Discounted>>
    OBVIOUS
  <2>1. CASE Campaign
    BY <2>1, CampaignRefines
  <2>2. CASE \E o \in Orders : Payment(o)
    BY <2>2, PaymentRefines
  <2>3. CASE UNCHANGED vars
    BY <2>3, UnchangedHolders DEF vars, saleVars, payVars, Open, Granted, Discounted
  <2> QED
    BY <2>1, <2>2, <2>3 DEF Next, Payment
<1>3. IInv /\ [Next]_vars =>
        [Sale!Next]_<<{c \in Coupons : coupons[c].cached} \ lapsed,
                      [c \in Coupons |-> Holders(c)], Discounted>>
  BY <1>2 DEF Open, Granted
<1> QED
  BY <1>1, <1>3, IInvHolds, PTL DEF Spec, SaleRefined, Sale!Spec
=============================================================================
