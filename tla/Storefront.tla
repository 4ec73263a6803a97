------------------------------ MODULE Storefront ------------------------------
(***************************************************************************)
(* What a visitor of the shop is shown: the ranking of sales that the      *)
(* consumer of order.processed adds to a sorted set a day in Redis         *)
(* (src/src/product/infrastructure/product.repository.ts), the ranking     *)
(* over several days that product.service.ts reads from them, and the      *)
(* cache of responses in front of the handlers of product.controller.ts:   *)
(* the ranking, the list of products on sale, and the page of a product    *)
(* with the stock of its options (src/src/@common/cache-manager).          *)
(*                                                                         *)
(* Time passes in ticks, several a day.  A request takes less than a tick, *)
(* the pipeline of a consumer less than two.                               *)
(***************************************************************************)
EXTENDS Integers, Sequences, FiniteSets, FiniteSetsExt

CONSTANTS
  Options,
  ProductOf,     \* of each option: the id of its product
  OnSale,        \* ids of the products that are available
  InitialStock,  \* of each option
  Levels,        \* of stock of each option, among which orders and administrators move it
  MaxChanges,    \* bound on those moves
  Orders,        \* orders whose order.processed is consumed
  Items,         \* of each order: a sequence of [option, quantity]
  Clients,
  RequestsOf,    \* that each client makes
  MaxRange,      \* MAX_DATE_RANGE_DAYS
  KeepDays,      \* the EXPIRE of a day, in days
  DefaultRange,  \* days of a query that names none
  TicksPerDay,
  Ttl,           \* of each client's instance: withJitter(ONE_DAY), drawn once
  MaxDeliveries, \* of one message
  LastTick,
  Faults         \* "cut": the connection fails in the middle of a pipeline

NoQuery == [count |-> 0, days |-> 0]

\* GetTopProductsRequest (@Min(1)), and the pages without a query
Request ==
  [handler : {"top"}, id : {0}, query : [count : Nat \ {0}, days : Nat \ {0}]]
  \cup [handler : {"list"}, id : {0}, query : {NoQuery}]
  \cup [handler : {"detail"}, id : Nat \ {0}, query : {NoQuery}]

ASSUME StorefrontAssumption ==
  /\ \A o \in Orders : Items[o] \in Seq([option : Options, quantity : Nat \ {0}])
  /\ \A c \in Clients : \A r \in RequestsOf[c] : r \in Request
  /\ ProductOf \in [Options -> Nat \ {0}]
  /\ OnSale \subseteq {ProductOf[p] : p \in Options}
  /\ InitialStock \in [Options -> Nat]
  /\ \A p \in Options : Levels[p] \subseteq Nat /\ InitialStock[p] \in Levels[p]
  /\ MaxChanges \in Nat
  /\ MaxRange \in Nat \ {0} /\ DefaultRange \in 1..MaxRange
  /\ KeepDays \in Nat /\ KeepDays > MaxRange
  /\ TicksPerDay \in Nat \ {0}
  /\ \A c \in Clients : Ttl[c] \in Nat \ {0}
  /\ MaxDeliveries \in Nat /\ LastTick \in Nat
  /\ Faults \subseteq {"cut"}

VARIABLES
  now,
  stock,     \* availableStock of each option
  changes,   \* moves of the stock so far
  held,      \* the stocks there were in each tick, kept for the properties
  ranking,   \* data:products:sales-rank of each day: units sold of each option
  expiry,    \* the tick in which the key of a day expires
  pipes,     \* the pipelines being executed
  cutDays,   \* days of which a pipeline was cut, kept for the properties
  deliveries,\* of each order's message
  applied,   \* every ZINCRBY, and when it was applied, kept for the properties
  cache,     \* of each cache key: the response, and the tick in which it expires
  visit      \* of each client: its request

shelf == <<stock, changes, held>>
redis == <<ranking, expiry, pipes, cutDays, deliveries, applied>>
shopVars  == <<now, shelf, redis, cache, visit>>

Never == LastTick + KeepDays * TicksPerDay + 1
ShopRequests == UNION {RequestsOf[c] : c \in Clients}

NoVisit == [pc |-> "none"]

Day(t) == t \div TicksPerDay
Days == 0..Day(LastTick)
-----------------------------------------------------------------------------
\* An order, a payment, the scheduler or an administrator changes the stock
\* (Inventory).
ChangeStock(p) ==
  /\ changes < MaxChanges
  /\ \E level \in Levels[p] \ {stock[p]} : stock' = [stock EXCEPT ![p] = level]
  /\ changes' = changes + 1
  /\ held' = [held EXCEPT ![now] = @ \cup {stock'}]
  /\ UNCHANGED <<now, redis, cache, visit>>
-----------------------------------------------------------------------------
\* recordSales: the key is named by the clock of the consumer, and a pipeline
\* of one ZINCRBY an item and the EXPIRE is sent without waiting for it.
RecordSales(o) ==
  /\ deliveries[o] < MaxDeliveries
  /\ deliveries' = [deliveries EXCEPT ![o] = @ + 1]
  /\ pipes' = pipes \cup
       {[order |-> o, delivery |-> deliveries'[o], sent |-> now, next |-> 1]}
  /\ UNCHANGED <<now, shelf, ranking, expiry, cutDays, applied, cache, visit>>

\* Mutant of Advance: the pipeline is sent again from its first command.
Restart(p) == pipes' = (pipes \ {p}) \cup {[p EXCEPT !.next = 1]}

Advance(p) == pipes' = (pipes \ {p}) \cup {[p EXCEPT !.next = @ + 1]}

\* The commands of others come between those of a pipeline.
Zincrby(p) ==
  /\ p.next <= Len(Items[p.order])
  /\ LET item == Items[p.order][p.next] IN
       /\ ranking' = [ranking EXCEPT ![Day(p.sent)][item.option] = @ + item.quantity]
       /\ applied' = applied \cup {[order |-> p.order, item |-> p.next,
                                    delivery |-> p.delivery, day |-> Day(p.sent), at |-> now]}
  /\ Advance(p)
  /\ UNCHANGED <<now, shelf, expiry, cutDays, deliveries, cache, visit>>

\* Mutant of KeptFor: a day is kept for the range a query has by default.
KeptForDefaultRange == DefaultRange * TicksPerDay

KeptFor == KeepDays * TicksPerDay

\* Mutant of Expire: EXPIRE is the first command, and finds no key.
ExpireFirst(p) ==
  /\ p.next > Len(Items[p.order])
  /\ expiry' = [expiry EXCEPT ![Day(p.sent)] =
       IF \E a \in applied :
            a.day = Day(p.sent) /\ <<a.order, a.delivery>> # <<p.order, p.delivery>>
       THEN now + KeptFor ELSE @]
  /\ pipes' = pipes \ {p}
  /\ UNCHANGED <<now, shelf, ranking, cutDays, deliveries, applied, cache, visit>>

Expire(p) ==
  /\ p.next > Len(Items[p.order])
  /\ expiry' = [expiry EXCEPT ![Day(p.sent)] = now + KeptFor]
  /\ pipes' = pipes \ {p}
  /\ UNCHANGED <<now, shelf, ranking, cutDays, deliveries, applied, cache, visit>>

\* What is left of the pipeline is lost, and the error logged.
Cut(p) ==
  /\ "cut" \in Faults
  /\ pipes' = pipes \ {p}
  /\ cutDays' = cutDays \cup {Day(p.sent)}
  /\ UNCHANGED <<now, shelf, ranking, expiry, deliveries, applied, cache, visit>>
-----------------------------------------------------------------------------
\* Mutant of CacheKey: the interceptor of the library, which takes the key of
\* the decorator as it is.
CacheKeyOfHandler(r) == [handler |-> r.handler, query |-> NoQuery]

\* trackBy: the key of the handler and the query string, without route parameters
CacheKey(r) == [handler |-> r.handler, query |-> r.query]

\* The client is answered cache[CacheKey(r)].response.
CacheHit(c, r) ==
  /\ visit[c] = NoVisit
  /\ CacheKey(r) \in DOMAIN cache
  /\ UNCHANGED shopVars

CacheMiss(c, r) ==
  /\ visit[c] = NoVisit
  /\ CacheKey(r) \notin DOMAIN cache
  /\ visit' = [visit EXCEPT ![c] = [pc |-> "handle", request |-> r]]
  /\ UNCHANGED <<now, shelf, redis, cache>>

\* ZREVRANGE of the key of a day: the options sold, with their units
FindRankByDate(d) == [p \in {q \in Options : ranking[d][q] > 0} |-> ranking[d][p]]

\* The days of the range, today included; the keys name days in UTC.
DaysBack(days) == {d \in Days : d > Day(now) - days /\ d <= Day(now)}

\* Units sold of the option in all days of the range
Aggregate(p, days) ==
  MapThenSumSet(LAMBDA d : FindRankByDate(d)[p],
                {d \in DaysBack(days) : p \in DOMAIN FindRankByDate(d)})

\* The first options by units sold, with their units; which of two that sold
\* as many comes first is Redis's choice.
TopSales(q) ==
  LET sold == [p \in Options |-> Aggregate(p, q.days)]
      ranked == {p \in Options : sold[p] > 0}
      size == Min({q.count, Cardinality(ranked)})
      first == {S \in kSubset(size, ranked) :
                  \A p \in S, other \in ranked \ S : sold[p] >= sold[other]}
  IN {[p \in S |-> sold[p]] : S \in first}

Nothing == [p \in {} |-> 0]

\* The ranking joined with options and products: each option's row names its
\* product.  (A response has the product only; the option is kept here.)
TopProducts(r) ==
  {[of |-> r, products |-> {ProductOf[p] : p \in DOMAIN s}, sales |-> s, stock |-> Nothing] :
     s \in TopSales(r.query)}

ProductsOnSale(r) == [of |-> r, products |-> OnSale, sales |-> Nothing, stock |-> Nothing]

\* findManyByProductId
ProductOptions(id) == {p \in Options : ProductOf[p] = id}

\* On sale or not, with the available stock of its options
ProductDetail(r) ==
  [of |-> r, products |-> {r.id}, sales |-> Nothing,
   stock |-> [p \in ProductOptions(r.id) |-> stock[p]]]

Responses(r) ==
  CASE r.handler = "top"    -> TopProducts(r)
    [] r.handler = "list"   -> {ProductsOnSale(r)}
    [] r.handler = "detail" -> {ProductDetail(r)}

\* PRODUCT_NOT_FOUND
Unknown(r) == r.handler = "detail" /\ ProductOptions(r.id) = {}

\* INVALID_ARGUMENT, or no such product
Refused(r) == (r.handler = "top" /\ r.query.days > MaxRange) \/ Unknown(r)

\* The response goes to the client at once; the cache is set behind it.
Handle(c) ==
  /\ visit[c].pc = "handle"
  /\ ~Refused(visit[c].request)
  /\ \E response \in Responses(visit[c].request) :
       visit' = [visit EXCEPT ![c] = [pc |-> "set", request |-> visit[c].request,
                                      response |-> response]]
  /\ UNCHANGED <<now, shelf, redis, cache>>

\* What an exception answers is not cached.
Refuse(c) ==
  /\ visit[c].pc = "handle"
  /\ Refused(visit[c].request)
  /\ visit' = [visit EXCEPT ![c] = NoVisit]
  /\ UNCHANGED <<now, shelf, redis, cache>>

SetCache(c) ==
  /\ visit[c].pc = "set"
  /\ LET key == CacheKey(visit[c].request)
         entry == [response |-> visit[c].response, until |-> now + Ttl[c]]
     IN cache' = [k \in DOMAIN cache \cup {key} |-> IF k = key THEN entry ELSE cache[k]]
  /\ visit' = [visit EXCEPT ![c] = NoVisit]
  /\ UNCHANGED <<now, shelf, redis>>
-----------------------------------------------------------------------------
\* The next tick, in which keys expire
Tick ==
  /\ now < LastTick
  /\ \A c \in Clients : visit[c] = NoVisit
  /\ \A p \in pipes : p.sent = now
  /\ now' = now + 1
  /\ held' = [held EXCEPT ![now'] = {stock}]
  /\ ranking' = [d \in Days |-> IF expiry[d] = now' THEN [p \in Options |-> 0] ELSE ranking[d]]
  /\ expiry' = [d \in Days |-> IF expiry[d] = now' THEN Never ELSE expiry[d]]
  /\ LET live == {k \in DOMAIN cache : cache[k].until > now'} IN
       cache' = [k \in live |-> cache[k]]
  /\ UNCHANGED <<stock, changes, pipes, cutDays, deliveries, applied, visit>>
-----------------------------------------------------------------------------
ShopInit ==
  /\ now = 0
  /\ stock = InitialStock /\ changes = 0
  /\ held = [t \in 0..LastTick |-> IF t = 0 THEN {stock} ELSE {}]
  /\ ranking = [d \in Days |-> [p \in Options |-> 0]]
  /\ expiry = [d \in Days |-> Never]
  /\ pipes = {} /\ cutDays = {} /\ deliveries = [o \in Orders |-> 0] /\ applied = {}
  /\ cache = [k \in {} |-> NoVisit]
  /\ visit = [c \in Clients |-> NoVisit]

Consume ==
  \/ \E o \in Orders : RecordSales(o)
  \/ \E p \in pipes : Zincrby(p) \/ Expire(p) \/ Cut(p)

Serve(c) ==
  \/ \E r \in RequestsOf[c] : CacheHit(c, r) \/ CacheMiss(c, r)
  \/ Handle(c) \/ Refuse(c) \/ SetCache(c)

ShopNext ==
  \/ Consume
  \/ \E p \in Options : ChangeStock(p)
  \/ \E c \in Clients : Serve(c)
  \/ Tick

ShopSpec == ShopInit /\ [][ShopNext]_shopVars
-----------------------------------------------------------------------------
\* Units of the option in these ZINCRBYs
UnitsOf(p, S) ==
  MapThenSumSet(LAMBDA a : Items[a.order][a.item].quantity,
                {a \in S : Items[a.order][a.item].option = p})

OnDay(d) == {a \in applied : a.day = d}

ShopTypeOK ==
  /\ now \in 0..LastTick
  /\ \A d \in Days, p \in Options : ranking[d][p] \in {0, UnitsOf(p, OnDay(d))}
  /\ \A d \in Days : expiry[d] \in now + 1..Never
  /\ \A p \in Options : stock[p] \in Levels[p]
  /\ changes \in 0..MaxChanges
  /\ stock \in held[now] /\ \A t \in now + 1..LastTick : held[t] = {}
  /\ deliveries \in [Orders -> 0..MaxDeliveries]
  /\ cutDays \subseteq Days
  /\ \A k \in DOMAIN cache : cache[k].until > now
  /\ \A c \in Clients : visit[c].pc \in {"none", "handle", "set"}

\* The comment of recordSales: EXPIRE comes after every ZINCRBY.  No key is
\* left in Redis for ever, though two pipelines of a day overlap, unless one
\* of them was cut.
KeysExpire ==
  \A d \in Days \ (cutDays \cup {Day(p.sent) : p \in pipes}) :
    expiry[d] = Never => \A p \in Options : ranking[d][p] = 0

\* What a request r is answered now, from the cache or by its handler
Answers(r) ==
  {cache[k].response : k \in DOMAIN cache \cap {CacheKey(r)}}
  \cup {visit[c].response : c \in {d \in Clients : visit[d].pc = "set" /\ visit[d].request = r}}

\* A request is answered what its own handler returned for it.
AnswersTheRequest == \A r \in ShopRequests : \A a \in Answers(r) : a.of = r

\* What was sold in the days up to the tick t, before it and with it
InRange(days, t) == {a \in applied : a.day > Day(t) - days /\ a.day <= Day(t)}
SoldBefore(p, days, t) == UnitsOf(p, {a \in InRange(days, t) : a.at < t})
SoldUntil(p, days, t) == UnitsOf(p, {a \in InRange(days, t) : a.at <= t})

\* The answer is a ranking as one that read the sales in the tick t may be.
RanksSales(answer, q, t) ==
  LET shown == DOMAIN answer.sales
  IN /\ \A p \in shown :
          answer.sales[p] \in SoldBefore(p, q.days, t)..SoldUntil(p, q.days, t)
     /\ \A p \in Options \ shown :
          /\ \A other \in shown : answer.sales[other] >= SoldBefore(p, q.days, t)
          /\ Cardinality(shown) < q.count => SoldBefore(p, q.days, t) = 0

\* RF-003: what a client is shown as sold in the last days was sold in the
\* days up to a moment less than a lifetime of the cache ago.  No day of the
\* range has expired by then, no sale before it is missing and none after it
\* counted, whichever of several concurrent responses was cached last.
SalesAreRecent ==
  \A r \in {s \in ShopRequests : s.handler = "top"} : \A answer \in Answers(r) :
    \E t \in 0..now, c \in Clients : t > now - Ttl[c] /\ RanksSales(answer, r.query, t)

\* The stocks of the answer were the options' at one moment of the tick t.
ShowsStocks(answer, t) ==
  \E was \in held[t] : \A p \in DOMAIN answer.stock : answer.stock[p] = was[p]

\* RF-002: the stocks a page shows were the options' at one moment, less than a
\* lifetime of the cache ago.
StocksAreRecent ==
  \A r \in {s \in ShopRequests : s.handler = "detail"} : \A answer \in Answers(r) :
    \E t \in 0..now, c \in Clients : t > now - Ttl[c] /\ ShowsStocks(answer, t)

\* No visitor is shown anything older than the cache may be.
AnswersAreRecent == SalesAreRecent /\ StocksAreRecent
=============================================================================
