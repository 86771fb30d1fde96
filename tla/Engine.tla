------------------------------- MODULE Engine -------------------------------
(***************************************************************************)
(* MatchingEngineCore (src/src/MatchingEngine.cpp) called by concurrent    *)
(* threads (Server::handleClient runs one per connection).                *)
(*                                                                         *)
(* Each call is split at the points where it touches shared state under a  *)
(* different lock or under none:                                           *)
(*   submitOrder  atomic id allocation | getOrCreateOrderBook (no lock:    *)
(*                find, then maybe create-and-insert) | orderToSymbol_     *)
(*                under mutex_ | book->matchOrder under the book mutex |   *)
(*                trade counting and the final notifyOrder, which reads    *)
(*                the shared Order outside every lock                      *)
(*   cancelOrder  orderToSymbol_ lookup under mutex_ | orderBooks_.find    *)
(*                (no lock) | book->cancelOrder | erase under mutex_       *)
(*   modifyOrder  lookup | find | book->modifyOrder                        *)
(*   getOrder     lookup | find | book->getOrder, made by handleNewOrder   *)
(*                right after submitOrder when ServerCaller holds          *)
(* Book operations themselves are the atomic operators of OrderBook.       *)
(*                                                                         *)
(* A book is identified by <<symbol, generation>>: getOrCreateOrderBook    *)
(* racing with itself can replace the registered book of a symbol by a     *)
(* new one, and the replaced one lives on only in the threads that hold    *)
(* its pointer.                                                            *)
(***************************************************************************)
EXTENDS Integers, Sequences, FiniteSets, Functions, TLC

CONSTANTS
  Threads,     \* caller threads (model values)
  Symbols,     \* symbols (model values)
  PreOpened,   \* symbols whose book an earlier, completed submit created
  OpKinds,     \* the calls threads make: subset of {"submit","cancel","modify"}
  Prices, Quantities, Types,
  MaxOrders,   \* bound on order ids handed out
  ServerCaller \* submits come from Server::handleNewOrder, which calls
               \* getOrder(orderId) right after submitOrder returns

ASSUME PreOpened \subseteq Symbols
ASSUME ServerCaller \in BOOLEAN
ASSUME OpKinds \subseteq {"submit", "cancel", "modify"} /\ "submit" \in OpKinds

VARIABLES
  orders,         \* the Order objects (shared_ptr), id -> record
  nextOrderId,    \* std::atomic nextOrderId_
  totalOrders,    \* std::atomic totalOrders_
  totalTrades,    \* std::atomic totalTrades_
  registry,       \* orderBooks_: symbol -> book
  bookLevels,     \* book -> [BUY |-> bids_, SELL |-> asks_]
  bookIndex,      \* book -> orderMap_
  orderToSymbol,  \* orderToSymbol_: id -> symbol
  pc,             \* thread -> program point
  req,            \* thread -> the call in progress and its locals
  tbook,          \* thread -> the OrderBook* it holds
  execReports     \* ids handleNewOrder sent an EXECUTION_REPORT for

vars == <<orders, nextOrderId, totalOrders, totalTrades, registry, bookLevels,
          bookIndex, orderToSymbol, pc, req, tbook, execReports>>

OB == INSTANCE OrderBook
        WITH levels <- [s \in {"BUY", "SELL"} |-> <<>>], orderMap <- {}, trades <- <<>>

Ids == 1..MaxOrders
EmptyLevels == [s \in OB!Sides |-> <<>>]
NoBook == <<>>

\* The book state a book operation works on.
BookState(b) ==
  [orders |-> orders, levels |-> bookLevels[b], orderMap |-> bookIndex[b], trades |-> <<>>]

\* Write back the result r of a book operation on book b.
ApplyBook(b, r) ==
  /\ orders' = r.orders
  /\ bookLevels' = [bookLevels EXCEPT ![b] = r.levels]
  /\ bookIndex' = [bookIndex EXCEPT ![b] = r.orderMap]

Goto(t, l) == pc' = [pc EXCEPT ![t] = l]

\* The call returns: its locals (request, book pointer) go out of scope.
NoReq == [kind |-> "none", id |-> 0, sym |-> CHOOSE s \in Symbols : TRUE,
          price |-> 0, qty |-> 0, ntrades |-> 0]
Return(t) ==
  /\ pc' = [pc EXCEPT ![t] = "idle"]
  /\ req' = [req EXCEPT ![t] = NoReq]
  /\ tbook' = [tbook EXCEPT ![t] = NoBook]

----------------------------------------------------------------------------
(* submitOrder                                                             *)

\* orderId = nextOrderId_++; totalOrders_++; make_shared<Order>(...).
StartSubmit(t, sym, side, type, price, qty) ==
  /\ pc[t] = "idle"
  /\ nextOrderId <= MaxOrders
  /\ nextOrderId' = nextOrderId + 1
  /\ totalOrders' = totalOrders + 1
  /\ orders' = orders @@ (nextOrderId :> OB!NewOrder(side, type, price, qty))
  /\ req' = [req EXCEPT ![t] = [kind |-> "submit", id |-> nextOrderId, sym |-> sym,
                                price |-> price, qty |-> qty, ntrades |-> 0]]
  /\ Goto(t, "find")
  /\ UNCHANGED <<execReports, totalTrades, registry, bookLevels, bookIndex, orderToSymbol, tbook>>

\* Mutant: getOrCreateOrderBook without its find (always creates).
FindBookAlwaysCreate(t) ==
  /\ pc[t] = "find"
  /\ Goto(t, "create")
  /\ UNCHANGED <<execReports, orders, nextOrderId, totalOrders, totalTrades, registry, bookLevels,
                 bookIndex, orderToSymbol, req, tbook>>

\* getOrCreateOrderBook, first half: orderBooks_.find(symbol), no lock.
FindBook(t) ==
  /\ pc[t] = "find"
  /\ IF req[t].sym \in DOMAIN registry
     THEN tbook' = [tbook EXCEPT ![t] = registry[req[t].sym]] /\ Goto(t, "map")
     ELSE UNCHANGED tbook /\ Goto(t, "create")
  /\ UNCHANGED <<execReports, orders, nextOrderId, totalOrders, totalTrades, registry, bookLevels,
                 bookIndex, orderToSymbol, req>>

\* getOrCreateOrderBook, second half: make_unique<OrderBook>, then
\* orderBooks_[symbol] = std::move(book), no lock: replaces (and destroys)
\* whatever book another thread inserted meanwhile.
CreateBook(t) ==
  LET sym == req[t].sym
      b   == <<sym, Cardinality({x \in DOMAIN bookLevels : x[1] = sym}) + 1>>
  IN  /\ pc[t] = "create"
      /\ registry' = [s \in DOMAIN registry \cup {sym} |-> IF s = sym THEN b ELSE registry[s]]
      /\ bookLevels' = bookLevels @@ (b :> EmptyLevels)
      /\ bookIndex' = bookIndex @@ (b :> {})
      /\ tbook' = [tbook EXCEPT ![t] = b]
      /\ Goto(t, "map")
      /\ UNCHANGED <<execReports, orders, nextOrderId, totalOrders, totalTrades, orderToSymbol, req>>

\* Mutant: the index is keyed by the shared counter, not the local orderId.
MapSymbolNextId(t) ==
  /\ pc[t] = "map"
  /\ orderToSymbol' = (nextOrderId :> req[t].sym) @@ orderToSymbol
  /\ Goto(t, "match")
  /\ UNCHANGED <<execReports, orders, nextOrderId, totalOrders, totalTrades, registry, bookLevels,
                 bookIndex, req, tbook>>

\* { lock_guard(mutex_); orderToSymbol_[orderId] = symbol; }
MapSymbol(t) ==
  /\ pc[t] = "map"
  /\ orderToSymbol' = (req[t].id :> req[t].sym) @@ orderToSymbol
  /\ Goto(t, "match")
  /\ UNCHANGED <<execReports, orders, nextOrderId, totalOrders, totalTrades, registry, bookLevels,
                 bookIndex, req, tbook>>

\* trades = book->matchOrder(order), under the book mutex.
Match(t) ==
  LET r == OB!MatchOrderResult(BookState(tbook[t]), req[t].id)
  IN  /\ pc[t] = "match"
      /\ ApplyBook(tbook[t], r)
      /\ req' = [req EXCEPT ![t].ntrades = Len(r.trades)]
      /\ Goto(t, "notify")
      /\ UNCHANGED <<execReports, nextOrderId, totalOrders, totalTrades, registry, orderToSymbol, tbook>>

\* for each trade: totalTrades_++, notifyTrade; then notifyOrder(order),
\* which reads the shared Order with no lock held; return.  Called from
\* handleNewOrder, the thread goes on with getOrder(orderId), whose
\* lookup and find are those of cancelOrder.
Notify(t) ==
  /\ pc[t] = "notify"
  /\ totalTrades' = totalTrades + req[t].ntrades
  /\ IF ServerCaller
     THEN req' = [req EXCEPT ![t].kind = "get"] /\ Goto(t, "lookup") /\ UNCHANGED tbook
     ELSE Return(t)
  /\ UNCHANGED <<execReports, orders, nextOrderId, totalOrders, registry, bookLevels, bookIndex,
                 orderToSymbol>>

----------------------------------------------------------------------------
(* cancelOrder and modifyOrder                                             *)

StartCancel(t, id) ==
  /\ pc[t] = "idle"
  /\ req' = [req EXCEPT ![t] = [kind |-> "cancel", id |-> id, sym |-> NoReq.sym,
                                price |-> 0, qty |-> 0, ntrades |-> 0]]
  /\ Goto(t, "lookup")
  /\ UNCHANGED <<execReports, orders, nextOrderId, totalOrders, totalTrades, registry, bookLevels,
                 bookIndex, orderToSymbol, tbook>>

StartModify(t, id, price, qty) ==
  /\ pc[t] = "idle"
  /\ req' = [req EXCEPT ![t] = [kind |-> "modify", id |-> id, sym |-> NoReq.sym,
                                price |-> price, qty |-> qty, ntrades |-> 0]]
  /\ Goto(t, "lookup")
  /\ UNCHANGED <<execReports, orders, nextOrderId, totalOrders, totalTrades, registry, bookLevels,
                 bookIndex, orderToSymbol, tbook>>

\* { lock_guard(mutex_); find orderId in orderToSymbol_ } : false if absent.
Lookup(t) ==
  /\ pc[t] = "lookup"
  /\ IF req[t].id \in DOMAIN orderToSymbol
     THEN req' = [req EXCEPT ![t].sym = orderToSymbol[req[t].id]] /\ Goto(t, "locate")
          /\ UNCHANGED tbook
     ELSE Return(t)
  /\ UNCHANGED <<execReports, orders, nextOrderId, totalOrders, totalTrades, registry, bookLevels,
                 bookIndex, orderToSymbol>>

\* orderBooks_.find(symbol), no lock: false if absent.  The iterator, not
\* the book, is kept: bookIt->second is read when the book is called, and
\* by then a racing getOrCreateOrderBook may have assigned a new book to it.
Locate(t) ==
  /\ pc[t] = "locate"
  /\ IF req[t].sym \in DOMAIN registry
     THEN Goto(t, "book") /\ UNCHANGED <<req, tbook>>
     ELSE Return(t)
  /\ UNCHANGED <<execReports, orders, nextOrderId, totalOrders, totalTrades, registry, bookLevels,
                 bookIndex, orderToSymbol>>

\* bookIt->second: the book the symbol's entry holds now.
LocatedBook(t) == registry[req[t].sym]

\* if (success) erase under mutex_, else return false.
AfterCancel(success) == IF success THEN "erase" ELSE "idle"

\* bookIt->second->cancelOrder(orderId), under the book mutex.
BookCancel(t) ==
  LET b == LocatedBook(t)
      found == req[t].id \in bookIndex[b]
  IN  /\ pc[t] = "book" /\ req[t].kind = "cancel"
      /\ IF found THEN ApplyBook(b, OB!CancelOrderResult(BookState(b), req[t].id))
                  ELSE UNCHANGED <<orders, bookLevels, bookIndex>>
      /\ IF AfterCancel(found) = "erase" THEN Goto(t, "erase") /\ UNCHANGED <<req, tbook>>
                                         ELSE Return(t)
      /\ UNCHANGED <<execReports, nextOrderId, totalOrders, totalTrades, registry, orderToSymbol>>

\* { lock_guard(mutex_); orderToSymbol_.erase(orderId); } return true.
EraseSymbol(t) ==
  /\ pc[t] = "erase"
  /\ orderToSymbol' = Restrict(orderToSymbol, DOMAIN orderToSymbol \ {req[t].id})
  /\ Return(t)
  /\ UNCHANGED <<execReports, orders, nextOrderId, totalOrders, totalTrades, registry, bookLevels,
                 bookIndex>>

\* return bookIt->second->modifyOrder(orderId, newPrice, newQuantity).
BookModify(t) ==
  LET b == LocatedBook(t)
  IN  /\ pc[t] = "book" /\ req[t].kind = "modify"
      /\ IF req[t].id \in bookIndex[b]
         THEN ApplyBook(b, OB!ModifyOrderResult(BookState(b), req[t].id, req[t].price, req[t].qty))
         ELSE UNCHANGED <<orders, bookLevels, bookIndex>>
      /\ Return(t)
      /\ UNCHANGED <<execReports, nextOrderId, totalOrders, totalTrades, registry, orderToSymbol>>

\* OrderBook::getOrder: the order if orderMap_ holds it, else nullptr.
GetOrderFound(b, id) == id \in bookIndex[b]

\* getOrder's bookIt->second->getOrder(orderId), under the book mutex:
\* the shared_ptr if orderMap_ holds the order; handleNewOrder stops on
\* nullptr.
BookGetOrder(t) ==
  LET b == LocatedBook(t)
  IN  /\ pc[t] = "book" /\ req[t].kind = "get"
      /\ IF GetOrderFound(b, req[t].id) THEN Goto(t, "report") /\ UNCHANGED <<req, tbook>>
                                        ELSE Return(t)
      /\ UNCHANGED <<execReports, orders, nextOrderId, totalOrders, totalTrades, registry,
                     bookLevels, bookIndex, orderToSymbol>>

\* handleNewOrder's check and report, after the book mutex is released: an
\* order no longer PENDING gets an EXECUTION_REPORT built from its fields.
ReadReport(t) ==
  /\ pc[t] = "report"
  /\ execReports' = IF orders[req[t].id].status # "PENDING"
                    THEN execReports \cup {req[t].id} ELSE execReports
  /\ Return(t)
  /\ UNCHANGED <<orders, nextOrderId, totalOrders, totalTrades, registry, bookLevels,
                 bookIndex, orderToSymbol>>

----------------------------------------------------------------------------

\* MatchingEngineCore(): nextOrderId_ 1, counters 0.  The books of
\* PreOpened exist and are empty, as after a submit that created the book
\* and a cancel that emptied it.
Init ==
  /\ orders = <<>>
  /\ nextOrderId = 1
  /\ totalOrders = 0
  /\ totalTrades = 0
  /\ registry = [s \in PreOpened |-> <<s, 1>>]
  /\ bookLevels = [b \in {<<s, 1>> : s \in PreOpened} |-> EmptyLevels]
  /\ bookIndex = [b \in {<<s, 1>> : s \in PreOpened} |-> {}]
  /\ orderToSymbol = <<>>
  /\ pc = [t \in Threads |-> "idle"]
  /\ req = [t \in Threads |-> NoReq]
  /\ tbook = [t \in Threads |-> NoBook]
  /\ execReports = {}

Next ==
  \E t \in Threads :
    \/ "submit" \in OpKinds /\
         \E sym \in Symbols, side \in OB!Sides, type \in Types, p \in Prices, q \in Quantities :
           StartSubmit(t, sym, side, type, p, q)
    \/ "cancel" \in OpKinds /\ \E id \in Ids : StartCancel(t, id)
    \/ "modify" \in OpKinds /\ \E id \in Ids, p \in Prices, q \in Quantities : StartModify(t, id, p, q)
    \/ FindBook(t) \/ CreateBook(t) \/ MapSymbol(t) \/ Match(t) \/ Notify(t)
    \/ Lookup(t) \/ Locate(t) \/ BookCancel(t) \/ EraseSymbol(t) \/ BookModify(t)
    \/ BookGetOrder(t) \/ ReadReport(t)

\* Every thread keeps running: each step of a call in progress is taken.
Fairness == \A t \in Threads : WF_vars(FindBook(t) \/ CreateBook(t) \/ MapSymbol(t) \/ Match(t)
                                     \/ Notify(t) \/ Lookup(t) \/ Locate(t) \/ BookCancel(t)
                                     \/ EraseSymbol(t) \/ BookModify(t) \/ BookGetOrder(t)
                                     \/ ReadReport(t))

Spec == Init /\ [][Next]_vars /\ Fairness

----------------------------------------------------------------------------
(* Properties                                                              *)

Labels == {"idle", "find", "create", "map", "match", "notify",
           "lookup", "locate", "book", "erase", "report"}
Books == DOMAIN bookLevels

TypeOK ==
  /\ nextOrderId \in 1..MaxOrders + 1
  /\ totalOrders = nextOrderId - 1
  /\ totalTrades \in Nat
  /\ DOMAIN orders = 1..nextOrderId - 1
  /\ DOMAIN registry \subseteq Symbols /\ \A s \in DOMAIN registry : registry[s] \in Books
  /\ DOMAIN bookIndex = Books
  /\ \A b \in Books : bookIndex[b] \subseteq DOMAIN orders
  /\ DOMAIN orderToSymbol \subseteq 1..nextOrderId - 1
  /\ \A id \in DOMAIN orderToSymbol : orderToSymbol[id] \in Symbols
  /\ pc \in [Threads -> Labels]
  /\ \A t \in Threads : tbook[t] \in Books \cup {NoBook}
  /\ execReports \subseteq DOMAIN orders

\* A resting order can always be reached the way cancelOrder/modifyOrder
\* reach it: orderToSymbol_ names its symbol and orderBooks_ maps that
\* symbol to the very book it rests in.  Broken when getOrCreateOrderBook,
\* which runs with no lock, replaces a book another thread already uses.
ResolvableResting ==
  \A b \in Books : \A id \in bookIndex[b] :
    /\ id \in DOMAIN orderToSymbol
    /\ orderToSymbol[id] \in DOMAIN registry
    /\ registry[orderToSymbol[id]] = b

\* handleNewOrder's comment: "Get final order status and send execution
\* report if filled".  Every new order that traded in submitOrder gets an
\* EXECUTION_REPORT by the time handleNewOrder returns.
ReportsEveryFill ==
  [][\A t \in Threads :
       req[t].kind = "get" /\ pc'[t] = "idle" /\ req[t].ntrades > 0
         => req[t].id \in execReports']_vars

\* Two places read a shared Order with no lock held: notifyOrder(order)
\* after matchOrder, and handleNewOrder's report after getOrder returned
\* the pointer.  No other thread's step may change that order meanwhile.
UnlockedReadsStable ==
  [][\A t \in Threads :
       pc[t] \in {"notify", "report"} /\ pc'[t] = pc[t]
         => orders'[req[t].id] = orders[req[t].id]]_vars

====
