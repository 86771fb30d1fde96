----------------------------- MODULE OrderBook -----------------------------
(***************************************************************************)
(* One symbol's order book (src/src/OrderBook.cpp, src/src/Order.cpp).     *)
(*                                                                         *)
(* Every public operation of OrderBook takes the book mutex for its whole  *)
(* body, so each one is a single atomic action here.  The Order objects    *)
(* are shared (shared_ptr) between the book's orderMap_, the price-level   *)
(* FIFO lists and the engine, so they live in one function `orders` from  *)
(* order id to record and the book holds ids.                              *)
(*                                                                         *)
(*   orders    the Order objects created so far (id -> record)             *)
(*   levels    levels["BUY"] is bids_, levels["SELL"] is asks_: a function *)
(*             from price to PriceLevel [total, queue]                     *)
(*   orderMap  the ids in OrderBook::orderMap_                             *)
(*   trades    the vector<Trade> returned by the last operation            *)
(*                                                                         *)
(* The per-level id index (PriceLevel::orderMap_) is not a variable: it    *)
(* only ever holds the ids of the level's queue plus ids the sweep has     *)
(* erased from the list (which are also gone from orderMap_, so it is      *)
(* never consulted for them).  Timestamps are not modelled: time priority  *)
(* is the position in the queue.                                           *)
(***************************************************************************)
EXTENDS Integers, Sequences, FiniteSets, SequencesExt, FiniteSetsExt, Functions

CONSTANTS
  Prices,      \* fixed-point prices offered to the operations
  Quantities,  \* quantities offered to submit and modify
  Types,       \* order types that are submitted
  MaxOrders    \* bound on the number of Order objects created

Sides    == {"BUY", "SELL"}
AllTypes == {"MARKET", "LIMIT", "STOP_LOSS", "STOP_LIMIT", "IOC", "FOK"}
Statuses == {"PENDING", "PARTIAL_FILL", "FILLED", "CANCELLED", "REJECTED"}
Ids      == 1..MaxOrders

ASSUME Prices \subseteq Int /\ Prices # {}
ASSUME Quantities \subseteq Nat /\ Quantities # {}
ASSUME Types \subseteq AllTypes /\ Types # {}
ASSUME MaxOrders \in Nat \ {0}

VARIABLES orders, levels, orderMap, trades
vars == <<orders, levels, orderMap, trades>>

----------------------------------------------------------------------------
(* Order (Order.cpp)                                                       *)

\* Order::Order: remaining = quantity, status PENDING.
NewOrder(side, type, price, qty) ==
  [side |-> side, type |-> type, price |-> price,
   quantity |-> qty, rem |-> qty, status |-> "PENDING"]

IsActive(o) == o.status \in {"PENDING", "PARTIAL_FILL"}

\* Order::fill: clamp to remaining, then FILLED at zero, PARTIAL_FILL if
\* anything has been filled, status unchanged otherwise.
Fill(o, q) ==
  LET r == o.rem - Min({q, o.rem})
  IN  [o EXCEPT !.rem = r,
                !.status = IF r = 0 THEN "FILLED"
                           ELSE IF r < o.quantity THEN "PARTIAL_FILL" ELSE @]

----------------------------------------------------------------------------
(* PriceLevel and the level maps                                           *)

Opp(side) == IF side = "BUY" THEN "SELL" ELSE "BUY"

\* Mutant: bids_ declared with std::less, i.e. iterated lowest first.
BestOfAscending(side, ps) == Min(ps)

\* bids_ is std::map<..., std::greater> (highest first), asks_ std::less.
BestOf(side, ps) == IF side = "BUY" THEN Max(ps) ELSE Min(ps)

RemoveKey(f, k) == Restrict(f, DOMAIN f \ {k})

\* Mutant: the level list is fed at the front (push_front).
PriceLevelAddFront(l, id, q) == [total |-> l.total + q, queue |-> <<id>> \o l.queue]

\* PriceLevel::addOrder: push_back, totalQuantity_ += remaining.
PriceLevelAdd(l, id, q) == [total |-> l.total + q, queue |-> Append(l.queue, id)]

\* bids_[price].addOrder(o): operator[] creates an empty level if absent.
AddToLevel(lv, p, id, q) ==
  IF p \in DOMAIN lv THEN [lv EXCEPT ![p] = PriceLevelAdd(@, id, q)]
  ELSE lv @@ (p :> PriceLevelAdd([total |-> 0, queue |-> <<>>], id, q))

\* Mutant: the order's remaining quantity is subtracted twice.
PriceLevelRemoveTwice(l, id, rem) ==
  IF Contains(l.queue, id) THEN [total |-> l.total - 2 * rem, queue |-> Remove(l.queue, id)] ELSE l

\* PriceLevel::removeOrder: if present, subtract the order's current
\* remaining quantity and erase it.
PriceLevelRemove(l, id, rem) ==
  IF Contains(l.queue, id) THEN [total |-> l.total - rem, queue |-> Remove(l.queue, id)] ELSE l

\* Mutant: the emptied level is left in the map.
RemoveFromLevelKeepEmpty(lv, p, id, rem) ==
  IF p \notin DOMAIN lv THEN lv ELSE [lv EXCEPT ![p] = PriceLevelRemove(@, id, rem)]

\* levels.find(price); removeOrder; erase the level if it is now empty.
RemoveFromLevel(lv, p, id, rem) ==
  IF p \notin DOMAIN lv THEN lv
  ELSE LET l2 == PriceLevelRemove(lv[p], id, rem)
       IN  IF l2.queue = <<>> THEN RemoveKey(lv, p) ELSE [lv EXCEPT ![p] = l2]

----------------------------------------------------------------------------
(* Matching (OrderBook::executeMatches, canFillEntireOrder, matchXOrder).  *)
(* The helpers are pure: they map a book state                            *)
(* [orders, levels, orderMap, trades] to the state after the call.         *)

\* The price check of executeMatches: only type LIMIT stops at a level
\* beyond its price (BUY: ask > price; SELL: bid < price).
Beyond(o, p) == IF o.side = "BUY" THEN p > o.price ELSE p < o.price

\* Mutant: the sweep also stops at a level priced exactly at the limit.
PriceStopsAtLimit(o, p) == o.type = "LIMIT" /\ (Beyond(o, p) \/ p = o.price)

PriceStops(o, p) == o.type = "LIMIT" /\ Beyond(o, p)

\* Mutant: the fill takes the taker's whole remaining quantity.
FillQtyTaker(a, b) == a

\* fillQty = std::min(order remaining, matchingOrder remaining).
FillQty(a, b) == Min({a, b})

\* The trade of taker t against resting m: price of the passive order.
TradeOf(s, t, m, q) ==
  [buy   |-> IF s.orders[t].side = "BUY" THEN t ELSE m,
   sell  |-> IF s.orders[t].side = "SELL" THEN t ELSE m,
   price |-> s.orders[m].price, qty |-> q]

\* Mutant: the filled resting order is left in orderMap_.
IndexAfterFillKeep(s, m, done) == s.orderMap

\* orderMap_.erase(matchingOrder->getOrderId()) when it is filled.
IndexAfterFill(s, m, done) == IF done THEN s.orderMap \ {m} ELSE s.orderMap

\* One pass of the inner loop of executeMatches at the order at position i
\* of level p: fill both, emit the trade, erase the resting order from the
\* list and from orderMap_ when it is filled.  totalQuantity_ of the level
\* is not touched.
FillQueueStep(s, t, side, p, i) ==
  LET m  == s.levels[side][p].queue[i]
      q  == FillQty(s.orders[t].rem, s.orders[m].rem)
      o2 == [s.orders EXCEPT ![t] = Fill(@, q), ![m] = Fill(@, q)]
      done == o2[m].rem = 0
  IN  [orders   |-> o2,
       levels   |-> IF done THEN [s.levels EXCEPT ![side][p].queue = RemoveAt(@, i)]
                    ELSE s.levels,
       orderMap |-> IndexAfterFill(s, m, done),
       trades   |-> Append(s.trades, TradeOf(s, t, m, q))]

\* The inner loop: orderIt stays at i after an erase, else advances.
RECURSIVE FillQueue(_, _, _, _, _)
FillQueue(s, t, side, p, i) ==
  IF i > Len(s.levels[side][p].queue) \/ s.orders[t].rem = 0 THEN s
  ELSE LET s2 == FillQueueStep(s, t, side, p, i)
       IN  FillQueue(s2, t, side, p,
                     IF Len(s2.levels[side][p].queue) < Len(s.levels[side][p].queue)
                     THEN i ELSE i + 1)

\* The outer loop over the opposite levels, best first; ps are the levels
\* not yet visited.  An emptied level is erased.
RECURSIVE SweepLevels(_, _, _)
SweepLevels(s, t, ps) ==
  LET side == Opp(s.orders[t].side)
  IN  IF ps = {} \/ s.orders[t].rem = 0 THEN s
      ELSE LET p == BestOf(side, ps)
           IN  IF PriceStops(s.orders[t], p) THEN s
               ELSE LET s2 == FillQueue(s, t, side, p, 1)
                        s3 == IF s2.levels[side][p].queue = <<>>
                              THEN [s2 EXCEPT !.levels[side] = RemoveKey(@, p)]
                              ELSE s2
                    IN  SweepLevels(s3, t, ps \ {p})

ExecuteMatches(s, t) == SweepLevels(s, t, DOMAIN s.levels[Opp(s.orders[t].side)])

\* canFillEntireOrder: walk the opposite levels best first, stop beyond
\* the price (types LIMIT and FOK), add up level totals until they cover
\* the order's remaining quantity.
RECURSIVE Covers(_, _, _, _)
Covers(o, lv, ps, acc) ==
  IF ps = {} THEN FALSE
  ELSE LET p == BestOf(Opp(o.side), ps)
       IN  IF o.type \in {"LIMIT", "FOK"} /\ Beyond(o, p) THEN FALSE
           ELSE IF acc + lv[p].total >= o.rem THEN TRUE
           ELSE Covers(o, lv, ps \ {p}, acc + lv[p].total)

CanFillEntireOrder(s, t) ==
  LET lv == s.levels[Opp(s.orders[t].side)]
  IN  Covers(s.orders[t], lv, DOMAIN lv, 0)

\* Residual of a MARKET or IOC order is cancelled.
CancelResidual(s, t) ==
  IF s.orders[t].rem > 0 THEN [s EXCEPT !.orders[t].status = "CANCELLED"] ELSE s

MatchMarketOrder(s, t) == CancelResidual(ExecuteMatches(s, t), t)

MatchIOCOrder(s, t) == CancelResidual(ExecuteMatches(s, t), t)

\* Sweep, then rest what is left on the order's own side at its price.
MatchLimitOrder(s, t) ==
  LET s2 == ExecuteMatches(s, t)
      o  == s2.orders[t]
  IN  IF o.rem > 0 /\ IsActive(o)
      THEN [s2 EXCEPT !.levels[o.side] = AddToLevel(@, o.price, t, o.rem),
                      !.orderMap = @ \cup {t}]
      ELSE s2

MatchFOKOrder(s, t) ==
  IF ~CanFillEntireOrder(s, t)
  THEN [s EXCEPT !.orders[t].status = "CANCELLED"]
  ELSE ExecuteMatches(s, t)

\* OrderBook::matchOrder: dispatch on type; stop orders go the LIMIT way.
MatchOrderResult(s, t) ==
  CASE s.orders[t].type = "MARKET" -> MatchMarketOrder(s, t)
    [] s.orders[t].type = "IOC"    -> MatchIOCOrder(s, t)
    [] s.orders[t].type = "FOK"    -> MatchFOKOrder(s, t)
    [] OTHER                       -> MatchLimitOrder(s, t)

----------------------------------------------------------------------------
(* Operations                                                              *)

Book == [orders |-> orders, levels |-> levels, orderMap |-> orderMap, trades |-> <<>>]

Apply(s) ==
  /\ orders' = s.orders
  /\ levels' = s.levels
  /\ orderMap' = s.orderMap
  /\ trades' = s.trades

NextId == Cardinality(DOMAIN orders) + 1

\* OrderBook::matchOrder of a freshly constructed Order.
MatchOrder(side, type, price, qty) ==
  /\ NextId <= MaxOrders
  /\ LET t == NextId
     IN  Apply(MatchOrderResult([Book EXCEPT !.orders = @ @@ (t :> NewOrder(side, type, price, qty))], t))

\* OrderBook::addOrder: insert without matching (used by the tests).
AddOrder(side, price, qty) ==
  /\ NextId <= MaxOrders
  /\ LET t == NextId
     IN  /\ orders' = orders @@ (t :> NewOrder(side, "LIMIT", price, qty))
         /\ orderMap' = orderMap \cup {t}
         /\ levels' = [levels EXCEPT ![side] = AddToLevel(@, price, t, qty)]
         /\ trades' = <<>>

\* cancelOrder / modifyOrder of an id not in orderMap_: return false.
NotFound(id) ==
  /\ id \notin orderMap
  /\ trades' = <<>>
  /\ UNCHANGED <<orders, levels, orderMap>>

\* OrderBook::cancelOrder of a resting order: status CANCELLED, out of its
\* level (erased if empty), out of orderMap_.
CancelOrderResult(s, id) ==
  LET o == s.orders[id]
  IN  [s EXCEPT !.orders[id].status = "CANCELLED",
                !.levels[o.side] = RemoveFromLevel(@, o.price, id, o.rem),
                !.orderMap = @ \ {id}]

\* OrderBook::modifyOrder: take the order out of its level, set price and
\* quantity (remaining = quantity), status PENDING, append at the new price.
ModifyOrderResult(s, id, newPrice, newQty) ==
  LET o == s.orders[id]
  IN  [s EXCEPT !.orders[id] = [@ EXCEPT !.price = newPrice, !.quantity = newQty,
                                         !.rem = newQty, !.status = "PENDING"],
                !.levels[o.side] =
                  AddToLevel(RemoveFromLevel(@, o.price, id, o.rem), newPrice, id, newQty)]

CancelOrder(id) ==
  /\ id \in orderMap
  /\ Apply(CancelOrderResult(Book, id))

ModifyOrder(id, newPrice, newQty) ==
  /\ id \in orderMap
  /\ Apply(ModifyOrderResult(Book, id, newPrice, newQty))

Init ==
  /\ orders = <<>>
  /\ levels = [s \in Sides |-> <<>>]
  /\ orderMap = {}
  /\ trades = <<>>

\* The calls MatchingEngineCore makes on a book.
EngineNext ==
  \/ \E side \in Sides, type \in Types, p \in Prices, q \in Quantities : MatchOrder(side, type, p, q)
  \/ \E id \in DOMAIN orders : CancelOrder(id)
  \/ \E id \in Ids : NotFound(id)
  \/ \E id \in DOMAIN orders, p \in Prices, q \in Quantities : ModifyOrder(id, p, q)

\* The whole public interface, addOrder (called only by the tests) included.
Next ==
  \/ EngineNext
  \/ \E side \in Sides, p \in Prices, q \in Quantities : AddOrder(side, p, q)

Spec == Init /\ [][Next]_vars
EngineSpec == Init /\ [][EngineNext]_vars

----------------------------------------------------------------------------
(* Properties                                                              *)

\* PriceLevel's totalQuantity_ and orders_ (price_ is the key).
Level == [total : Int, queue : Seq(Ids)]

\* The members of Order that matching reads or writes; the id is the key,
\* symbol, stopPrice_, timestamp_ and clientId_ are left out.
OrderRec == [side : Sides, type : AllTypes, price : Prices, quantity : Nat,
             rem : Nat, status : Statuses]

\* The members of Trade, symbol and timestamp left out.
TradeRec == [buy : Ids, sell : Ids, price : Prices, qty : Nat]

\* Every variable holds a value of its type; level totals never go negative.
TypeOK ==
  /\ \E n \in 0..MaxOrders : orders \in [1..n -> OrderRec]
  /\ \A side \in Sides : \E ps \in SUBSET Prices : levels[side] \in [ps -> Level]
  /\ \A side \in Sides : \A p \in DOMAIN levels[side] : levels[side][p].total >= 0
  /\ orderMap \subseteq DOMAIN orders
  /\ trades \in Seq(TradeRec)

\* getBestBid / getBestAsk: first key of the map, 0 when it is empty.
BestBid == IF DOMAIN levels["BUY"] = {} THEN 0 ELSE Max(DOMAIN levels["BUY"])
BestAsk == IF DOMAIN levels["SELL"] = {} THEN 0 ELSE Min(DOMAIN levels["SELL"])

\* getBidQuantityAtLevel / getAskQuantityAtLevel: the level's total or 0.
QuantityAtLevel(side, p) == IF p \in DOMAIN levels[side] THEN levels[side][p].total ELSE 0

Crossed == DOMAIN levels["BUY"] # {} /\ DOMAIN levels["SELL"] # {} /\ BestBid >= BestAsk

\* The places (side, price, position) at which an id sits in some queue.
Placements(id) ==
  {<<side, p, i>> \in Sides \X Prices \X Ids :
     /\ p \in DOMAIN levels[side]
     /\ i \in DOMAIN levels[side][p].queue
     /\ levels[side][p].queue[i] = id}

\* orderMap_ and the level lists agree: an id is in orderMap_ iff it sits
\* exactly once in a level list, on its own side at its current price
\* (cancelOrder and modifyOrder find the level through order->getPrice(),
\* and the sweep erases a filled order from both).
IndexConsistency ==
  \A id \in DOMAIN orders :
    IF id \in orderMap
    THEN \E i \in Ids : Placements(id) = {<<orders[id].side, orders[id].price, i>>}
    ELSE Placements(id) = {}

\* No level in bids_ or asks_ has an empty list, so getBestBid/getBestAsk
\* name a price at which something rests.
NoEmptyLevels ==
  \A side \in Sides : \A p \in DOMAIN levels[side] : levels[side][p].queue # <<>>

\* Matching never leaves a crossed book behind: a matchOrder step that
\* starts from an uncrossed book ends in one (the sweep consumes every
\* crossing level before the residual rests).
MatchNeverCrosses ==
  [][(\E side \in Sides, type \in Types, p \in Prices, q \in Quantities :
        MatchOrder(side, type, p, q)) /\ ~Crossed => ~Crossed']_vars

\* The refinement mapping: a side of the book read as one priority
\* sequence, the level lists concatenated best price first (the order in
\* which std::map iterates bids_ with std::greater and asks_ with std::less).
LevelOrder(side) ==
  SetToSortSeq(DOMAIN levels[side], LAMBDA a, b : IF side = "BUY" THEN a > b ELSE a < b)

FlatBook ==
  [side \in Sides |->
     LET ps == LevelOrder(side)
     IN  FlattenSeq([i \in DOMAIN ps |-> levels[side][ps[i]].queue])]

Abstract == INSTANCE BookSpec WITH book <- FlatBook, orders <- orders, trades <- trades

\* The book implements BookSpec: every call (matchOrder, addOrder,
\* cancelOrder, modifyOrder) is a step of the price-time-priority book.
\* In particular a match consumes the opposite side strictly from the
\* head (best price, then earliest), every trade is at the maker's price,
\* the quantities the trades report are exactly what taker and makers
\* lose, and a resting or re-posted order goes behind every order at its
\* price that was there before it.
ImplementsBookSpec == Abstract!ASpec

----------------------------------------------------------------------------
(* Properties the spec states and the code does not keep (violation runs) *)

\* Spec 8.1: the quantity getAskQuantityAtLevel/getBidQuantityAtLevel
\* report for a level (totalQuantity_, which the FOK pre-check also adds
\* up) is the sum of the remaining quantities of the orders resting there.
AggregateConsistency ==
  \A side \in Sides : \A p \in DOMAIN levels[side] :
    QuantityAtLevel(side, p) =
      SumFunction([i \in DOMAIN levels[side][p].queue |-> orders[levels[side][p].queue[i]].rem])

\* Spec 4.3: LIMIT, IOC and FOK orders (and STOP_LIMIT, treated as LIMIT)
\* never trade at a price beyond their own limit.
TradesWithinLimit ==
  \A i \in DOMAIN trades :
    LET t == Cardinality(DOMAIN orders)
    IN  orders[t].type \in {"LIMIT", "IOC", "FOK", "STOP_LIMIT"} => ~Beyond(orders[t], trades[i].price)

====
