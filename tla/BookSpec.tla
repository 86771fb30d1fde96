------------------------------ MODULE BookSpec ------------------------------
(***************************************************************************)
(* What one symbol's order book promises (spec §4 "price-time priority",   *)
(* §5 matchOrder, cancelOrder, modifyOrder), without price levels.         *)
(*                                                                         *)
(* Each side of the book is ONE sequence of resting order ids in priority  *)
(* order: better price first, and at equal price earlier arrival first.    *)
(* A call that creates an order trades against a prefix of the opposite   *)
(* sequence only: the first k makers are filled and leave, the next one    *)
(* may be filled in part and stays at the head, nobody behind it is        *)
(* touched.  Every trade is at the maker's price and the quantities add    *)
(* up on both sides.  What is left of the taker may join its own side at   *)
(* the back of its price.  Cancel takes an order out; modify takes it out  *)
(* and puts it back at the back of its new price (loss of time priority).  *)
(*                                                                         *)
(* Which prefix is consumed, and whether the rest of the taker rests, is   *)
(* left open: those are the order-type rules, checked separately.          *)
(***************************************************************************)
EXTENDS Integers, Sequences, SequencesExt, Functions

VARIABLES
  book,    \* side -> sequence of resting ids, best first
  orders,  \* id -> [side, type, price, quantity, rem, status]
  trades   \* the trades returned by the last call

avars == <<book, orders, trades>>

BookSides == {"BUY", "SELL"}

Other(side) == IF side = "BUY" THEN "SELL" ELSE "BUY"

\* a is at least as good a price as b for a resting order of side.
NoWorse(side, a, b) == IF side = "BUY" THEN a >= b ELSE a <= b

\* Insert id behind every order whose price is no worse than its own.
InsertByPriority(s, id, ords) ==
  LET k == Cardinality({i \in DOMAIN s : NoWorse(ords[id].side, ords[s[i]].price, ords[id].price)})
  IN  InsertAt(s, k + 1, id)

Drop(s, id) == SelectSeq(s, LAMBDA x : x # id)

AInit ==
  /\ book = [s \in BookSides |-> <<>>]
  /\ orders = <<>>
  /\ trades = <<>>

\* A new order t trades against the first n orders of the opposite side, in
\* that order; the first k of them (k = n, or n - 1 when the last is only
\* partly filled) leave the book.
Take ==
  \E t \in DOMAIN orders' \ DOMAIN orders :
    LET o   == orders'[t]
        q   == book[Other(o.side)]
        n   == Len(trades')
        Qty(i) == orders[q[i]].rem - orders'[q[i]].rem
        k   == IF n > 0 /\ orders'[q[n]].rem > 0 THEN n - 1 ELSE n
    IN  /\ DOMAIN orders' = DOMAIN orders \cup {t}
        /\ n <= Len(q)
        /\ \A i \in 1..n :
             /\ trades'[i] = [buy   |-> IF o.side = "BUY" THEN t ELSE q[i],
                              sell  |-> IF o.side = "SELL" THEN t ELSE q[i],
                              price |-> orders[q[i]].price, qty |-> Qty(i)]
             /\ Qty(i) > 0
             /\ orders'[q[i]] = [orders[q[i]] EXCEPT
                                   !.rem = orders'[q[i]].rem,
                                   !.status = IF orders'[q[i]].rem = 0 THEN "FILLED"
                                              ELSE "PARTIAL_FILL"]
        /\ \A i \in 1..k : orders'[q[i]].rem = 0
        /\ \A id \in DOMAIN orders \ {q[i] : i \in 1..n} : orders'[id] = orders[id]
        /\ o.quantity - o.rem = SumFunction([i \in 1..n |-> trades'[i].qty])
        /\ book'[Other(o.side)] = SubSeq(q, k + 1, Len(q))
        /\ \/ book'[o.side] = book[o.side]
           \/ o.rem > 0 /\ book'[o.side] = InsertByPriority(book[o.side], t, orders')

\* A resting order is cancelled and leaves its side.
Cancel ==
  \E side \in BookSides : \E i \in DOMAIN book[side] :
    LET id == book[side][i]
    IN  /\ orders' = [orders EXCEPT ![id].status = "CANCELLED"]
        /\ book' = [book EXCEPT ![side] = Drop(@, id)]
        /\ trades' = <<>>

\* A resting order gets a new price and quantity and goes to the back of
\* its new price; it does not trade.
Modify ==
  \E side \in BookSides : \E i \in DOMAIN book[side] :
    LET id == book[side][i]
    IN  /\ DOMAIN orders' = DOMAIN orders
        /\ orders' = [orders EXCEPT ![id] = [@ EXCEPT !.price = orders'[id].price,
                                                     !.quantity = orders'[id].quantity,
                                                     !.rem = orders'[id].quantity,
                                                     !.status = "PENDING"]]
        /\ book' = [book EXCEPT ![side] = InsertByPriority(Drop(@, id), id, orders')]
        /\ trades' = <<>>

\* A call that finds nothing to act on returns no trades.
Idle ==
  /\ trades' = <<>>
  /\ UNCHANGED <<book, orders>>

ANext == Take \/ Cancel \/ Modify \/ Idle

ASpec == AInit /\ [][ANext]_avars

====
