------------------------- MODULE NewsPipelineProofs -------------------------
(***************************************************************************)
(* Proofs about NewsPipeline for every set of titles, tokens, contracts    *)
(* and prices, and every length of the channels: no title is lost, doubled *)
(* or overtaken, no token is ordered more often than it was listed, and    *)
(* the orders for contracts with limits are within them and paid for.      *)
(***************************************************************************)
EXTENDS NewsPipeline, QueueLemmas, FiniteSetTheorems

-----------------------------------------------------------------------------
(* The calls of OpenFuturesOrder. *)

\* The size of a call was computed from the contract and the price it was told,
\* and passed the contract's limits.
Computed(o) == /\ o.contract \in Contracts
               /\ o.last \in Lasts
               /\ o.size \in ContractSizes(o.contract, o.last)
               /\ SizeAllowed(o.contract, o.size)

\* What a call knows after each of its requests.
CallInv(o) == /\ o.at \in {"ticker", "size"} => o.contract \in Contracts
              /\ o.at = "size" => o.last \in Lasts
              /\ o.at = "create" => Computed(o)

Ended(o) == o.at \in {"failed", "done"}

\* An order comes from a call of its own, which has ended and computed its size.
OrdersInv ==
    /\ \A i \in DOMAIN orders : CallInv(orders[i])
    /\ \A n \in DOMAIN placed : LET o == orders[placed[n].call] IN
          Ended(o) /\ Computed(o) /\ placed[n].size = o.size
    /\ \A m, n \in DOMAIN placed : placed[m].call = placed[n].call => m = n

\* The whole of a positive amount divided by a positive value.
LEMMA Quotient ==
  ASSUME NEW u \in Nat, NEW v \in Nat \ {0}
  PROVE  u \div v \in 0..u /\ (u \div v) * v <= u
<1> DEFINE q == u \div v
           r == u % v
<1>1. q \in Int /\ r \in 0..(v - 1) /\ u = v * q + r
  OBVIOUS
<1> HIDE DEF q, r
<1>2. v * q = q * v
  BY <1>1
<1>3. q >= 0
  <2> SUFFICES ASSUME q <= -1 PROVE FALSE
    BY <1>1
  <2>1. v * q <= v * (-1)
    BY <1>1
  <2> QED
    BY <1>1, <2>1
<1>4. q <= u
  <2>1. q * 1 <= q * v
    BY <1>1, <1>3
  <2> QED
    BY <1>1, <1>2, <2>1
<1> QED
  BY <1>1, <1>2, <1>3, <1>4 DEF q

\* The price of a contract is infinite, or a natural number.
LEMMA PriceIs ==
  ASSUME NEW l \in Lasts
  PROVE  \/ CurrentPrice(l) = Infinite
         \/ CurrentPrice(l) = 0
         \/ CurrentPrice(l) = l.price /\ l.price \in Nat \ {0}
<1>1. /\ l.price \in Nat \ {0}
      /\ l.parsed = "number" \/ l.parsed = "malformed" \/ l.parsed = "outOfRange"
  BY ContractsAssumption
<1> QED
  BY <1>1 DEF CurrentPrice

\* A size is what an infinite or missing price makes of it, or the quotient.
LEMMA SizeIs ==
  ASSUME NEW k \in Contracts, NEW l \in Lasts, NEW size \in ContractSizes(k, l)
  PROVE  \/ size \in {MinInt64, MaxInt64, 1}
         \/ /\ CurrentPrice(l) = l.price
            /\ l.price * k.quanto \in Nat \ {0}
            /\ size = IF UsdtAmount < l.price * k.quanto THEN 1
                      ELSE UsdtAmount \div (l.price * k.quanto)
<1> DEFINE price == CurrentPrice(l)
<1>1. k.quanto \in Nat
  BY ContractsAssumption
<1>2. CASE price = Infinite
  BY <1>2 DEF ContractSizes
<1>3. CASE price # Infinite /\ price * k.quanto = 0
  BY <1>3 DEF ContractSizes
<1>4. CASE price # Infinite /\ price * k.quanto # 0
  <2>1. price # 0
    BY <1>1, <1>4
  <2>2. price = l.price /\ l.price \in Nat \ {0}
    BY <1>4, <2>1, PriceIs
  <2>3. size = IF UsdtAmount < price * k.quanto THEN 1 ELSE UsdtAmount \div (price * k.quanto)
    BY <1>4 DEF ContractSizes
  <2>4. l.price * k.quanto \in Nat
    BY <1>1, <2>2
  <2> QED
    BY <1>4, <2>2, <2>3, <2>4
<1> QED
  BY <1>2, <1>3, <1>4

\* A computed size fits an int64.
LEMMA SizeFits ==
  ASSUME NEW k \in Contracts, NEW l \in Lasts, NEW size \in ContractSizes(k, l)
  PROVE  size \in MinInt64..MaxInt64
<1> DEFINE value == l.price * k.quanto
<1>1. MaxInt64 \in Nat /\ UsdtAmount \in 1..MaxInt64
  BY AmountAssumption
<1>2. CASE size \in {MinInt64, MaxInt64, 1}
  BY <1>1, <1>2 DEF MinInt64
<1>3. CASE /\ value \in Nat \ {0}
           /\ size = IF UsdtAmount < value THEN 1 ELSE UsdtAmount \div value
  <2> HIDE DEF value
  <2>1. UsdtAmount \div value \in 0..UsdtAmount
    BY <1>1, <1>3, Quotient
  <2> QED
    BY <1>1, <1>3, <2>1 DEF MinInt64
<1> QED
  BY <1>2, <1>3, SizeIs

\* A step of a call changes what that call knows, and places an order only with
\* a size it has computed.
LEMMA StepOfCall ==
  ASSUME OrdersTypeOK, OrdersInv, NEW i \in DOMAIN orders, OrderStep(i)
  PROVE  \E o \in Calls :
            /\ orders' = [orders EXCEPT ![i] = o]
            /\ o.ticker = orders[i].ticker
            /\ ~Ended(orders[i])
            /\ CallInv(o)
            /\ \/ placed' = placed
               \/ /\ placed' = Append(placed, [call |-> i, size |-> o.size])
                  /\ Ended(o) /\ Computed(o)
<1> DEFINE c == orders[i]
           Stopped == [c EXCEPT !.at = "failed"]
<1>1. c \in Calls /\ CallInv(c)
  BY DEF OrdersTypeOK, OrdersInv
<1>2. Stopped \in Calls /\ CallInv(Stopped) /\ Ended(Stopped) /\ Stopped.ticker = c.ticker
  BY <1>1 DEF Calls, CallStates, CallInv, Ended
<1>3. Fail(i) => orders' = [orders EXCEPT ![i] = Stopped] /\ placed' = placed
  BY DEF Fail
<1>4. CASE UpdateLeverage(i)
  <2> DEFINE o == [c EXCEPT !.at = "contract"]
  <2>1. o \in Calls /\ CallInv(o) /\ o.ticker = c.ticker /\ ~Ended(c)
    BY <1>1, <1>4 DEF Calls, CallStates, CallInv, Ended, UpdateLeverage
  <2>2. CASE orders' = [orders EXCEPT ![i] = o] /\ placed' = placed
    BY <2>1, <2>2
  <2> QED
    BY <1>2, <1>3, <1>4, <2>1, <2>2 DEF UpdateLeverage
<1>5. CASE GetContract(i)
  <2>1. ~Ended(c)
    BY <1>5 DEF Ended, GetContract
  <2>2. ASSUME NEW k \in Contracts, placed' = placed,
               orders' = [orders EXCEPT ![i].at = "ticker", ![i].contract = k]
        PROVE  \E o \in Calls : /\ orders' = [orders EXCEPT ![i] = o]
                                /\ o.ticker = c.ticker /\ CallInv(o)
    <3> DEFINE o == [c EXCEPT !.at = "ticker", !.contract = k]
    <3>1. o \in Calls /\ CallInv(o) /\ o.ticker = c.ticker
      BY <1>1 DEF Calls, CallStates, CallInv
    <3>2. orders' = [orders EXCEPT ![i] = o]
      BY <2>2 DEF OrdersTypeOK
    <3> QED
      BY <3>1, <3>2
  <2> QED
    BY <1>2, <1>3, <1>5, <2>1, <2>2 DEF GetContract
<1>6. CASE ListTickers(i)
  <2>1. ~Ended(c) /\ c.contract \in Contracts
    BY <1>1, <1>6 DEF Ended, ListTickers, CallInv
  <2>2. ASSUME NEW l \in Lasts, placed' = placed,
               orders' = [orders EXCEPT ![i].at = "size", ![i].last = l]
        PROVE  \E o \in Calls : /\ orders' = [orders EXCEPT ![i] = o]
                                /\ o.ticker = c.ticker /\ CallInv(o)
    <3> DEFINE o == [c EXCEPT !.at = "size", !.last = l]
    <3>1. o \in Calls /\ CallInv(o) /\ o.ticker = c.ticker
      BY <1>1, <2>1 DEF Calls, CallStates, CallInv
    <3>2. orders' = [orders EXCEPT ![i] = o]
      BY <2>2 DEF OrdersTypeOK
    <3> QED
      BY <3>1, <3>2
  <2> QED
    BY <1>2, <1>3, <1>6, <2>1, <2>2 DEF ListTickers
<1>7. CASE ComputeSize(i)
  <2>1. ~Ended(c) /\ c.contract \in Contracts /\ c.last \in Lasts
    BY <1>1, <1>7 DEF Ended, ComputeSize, CallInv
  <2>2. ASSUME NEW size \in ContractSizes(c.contract, c.last), placed' = placed,
               SizeAllowed(c.contract, size),
               orders' = [orders EXCEPT ![i].at = "create", ![i].size = size]
        PROVE  \E o \in Calls : /\ orders' = [orders EXCEPT ![i] = o]
                                /\ o.ticker = c.ticker /\ CallInv(o)
    <3> DEFINE o == [c EXCEPT !.at = "create", !.size = size]
    <3>1. size \in MinInt64..MaxInt64
      BY <2>1, SizeFits
    <3>2. /\ o \in Calls /\ o.ticker = c.ticker /\ o.at = "create"
          /\ o.contract = c.contract /\ o.last = c.last /\ o.size = size
      BY <1>1, <3>1 DEF Calls, CallStates
    <3>3. CallInv(o)
      BY <2>1, <2>2, <3>2 DEF CallInv, Computed
    <3>4. orders' = [orders EXCEPT ![i] = o]
      BY <2>2 DEF OrdersTypeOK
    <3> QED
      BY <3>2, <3>3, <3>4
  <2> QED
    BY <1>2, <1>3, <1>7, <2>1, <2>2 DEF ComputeSize
<1>8. CASE CreateOrder(i)
  <2>1. ~Ended(c) /\ Computed(c)
    BY <1>1, <1>8 DEF Ended, CreateOrder, CallInv
  <2>2. ASSUME NEW s \in {"done", "failed"}, orders' = [orders EXCEPT ![i].at = s]
        PROVE  \E o \in Calls : /\ orders' = [orders EXCEPT ![i] = o]
                                /\ o.ticker = c.ticker /\ CallInv(o)
                                /\ Ended(o) /\ Computed(o) /\ o.size = c.size
    <3> DEFINE o == [c EXCEPT !.at = s]
    <3>1. /\ o \in Calls /\ o.ticker = c.ticker /\ o.at = s
          /\ o.contract = c.contract /\ o.last = c.last /\ o.size = c.size
      BY <1>1 DEF Calls, CallStates
    <3>2. CallInv(o) /\ Ended(o) /\ Computed(o)
      BY <2>1, <3>1 DEF CallInv, Ended, Computed
    <3>3. orders' = [orders EXCEPT ![i] = o]
      BY <2>2 DEF OrdersTypeOK
    <3> QED
      BY <3>1, <3>2, <3>3
  <2>3. /\ \E s \in {"done", "failed"} : orders' = [orders EXCEPT ![i].at = s]
        /\ \/ placed' = placed
           \/ placed' = Append(placed, [call |-> i, size |-> c.size])
    BY <1>8 DEF CreateOrder, AfterError
  <2> QED
    BY <2>1, <2>2, <2>3
<1> QED
  BY <1>4, <1>5, <1>6, <1>7, <1>8 DEF OrderStep

\* A step of a call keeps the types and what is known of the orders.
LEMMA StepKeepsOrders ==
  ASSUME OrdersTypeOK, OrdersInv, NEW i \in DOMAIN orders, OrderStep(i)
  PROVE  /\ OrdersTypeOK' /\ OrdersInv'
         /\ DOMAIN orders' = DOMAIN orders
         /\ \A j \in DOMAIN orders : orders'[j].ticker = orders[j].ticker
<1>1. PICK o \in Calls :
            /\ orders' = [orders EXCEPT ![i] = o]
            /\ o.ticker = orders[i].ticker
            /\ ~Ended(orders[i])
            /\ CallInv(o)
            /\ \/ placed' = placed
               \/ /\ placed' = Append(placed, [call |-> i, size |-> o.size])
                  /\ Ended(o) /\ Computed(o)
  BY StepOfCall
<1>2. /\ orders' \in Seq(Calls)
      /\ DOMAIN orders' = DOMAIN orders
      /\ orders'[i] = o
      /\ \A j \in DOMAIN orders : j # i => orders'[j] = orders[j]
  BY <1>1 DEF OrdersTypeOK
<1>3. \A j \in DOMAIN orders : orders'[j].ticker = orders[j].ticker
  BY <1>1, <1>2
<1>4. \A j \in DOMAIN orders' : CallInv(orders'[j])
  BY <1>1, <1>2 DEF OrdersInv
<1>5. \A n \in DOMAIN placed : placed[n].call \in DOMAIN orders /\ placed[n].call # i
  BY <1>1 DEF OrdersTypeOK, OrdersInv
<1>6. CASE placed' = placed
  BY <1>2, <1>3, <1>4, <1>5, <1>6 DEF OrdersTypeOK, OrdersInv
<1>7. CASE /\ placed' = Append(placed, [call |-> i, size |-> o.size])
           /\ Ended(o) /\ Computed(o)
  <2> DEFINE p == [call |-> i, size |-> o.size]
  <2>1. p \in Orders /\ p.call = i /\ p.size = o.size
    BY DEF Orders, Calls, OrdersTypeOK
  <2>2. /\ placed' \in Seq(Orders)
        /\ DOMAIN placed' = DOMAIN placed \union {Len(placed) + 1}
        /\ placed'[Len(placed) + 1] = p
        /\ \A n \in DOMAIN placed : n # Len(placed) + 1 /\ placed'[n] = placed[n]
    BY <1>7, <2>1, AppendProperties, LenProperties DEF OrdersTypeOK
  <2> HIDE DEF p
  <2>3. OrdersTypeOK'
    BY <1>2, <1>5, <2>1, <2>2 DEF OrdersTypeOK
  <2>4. \A n \in DOMAIN placed' :
           LET r == orders'[placed'[n].call] IN
           Ended(r) /\ Computed(r) /\ placed'[n].size = r.size
    BY <1>2, <1>5, <1>7, <2>1, <2>2 DEF OrdersInv
  <2>5. \A m, n \in DOMAIN placed' : placed'[m].call = placed'[n].call => m = n
    BY <1>5, <2>1, <2>2 DEF OrdersInv
  <2> QED
    BY <1>2, <1>3, <1>4, <2>3, <2>4, <2>5 DEF OrdersInv
<1> QED
  BY <1>1, <1>6, <1>7

\* A new call knows nothing yet and has placed nothing.
LEMMA CallKeepsOrders ==
  ASSUME OrdersTypeOK, OrdersInv, NEW ticker \in Tickers, OpenFuturesOrder(ticker)
  PROVE  /\ OrdersTypeOK' /\ OrdersInv'
         /\ DOMAIN orders' = DOMAIN orders \union {Len(orders) + 1}
         /\ Len(orders) + 1 \notin DOMAIN orders
         /\ orders'[Len(orders) + 1].ticker = ticker
         /\ \A j \in DOMAIN orders : orders'[j] = orders[j]
         /\ placed' = placed
<1> DEFINE o == [ticker |-> ticker, at |-> "leverage", contract |-> NoContract,
                 last |-> NoLast, size |-> 0]
<1>1. o \in Calls /\ o.ticker = ticker /\ CallInv(o)
  BY AmountAssumption DEF Calls, CallStates, CallInv, MinInt64
<1>2. orders' = Append(orders, o) /\ placed' = placed
  BY DEF OpenFuturesOrder
<1> HIDE DEF o
<1>3. /\ orders' \in Seq(Calls)
      /\ DOMAIN orders' = DOMAIN orders \union {Len(orders) + 1}
      /\ Len(orders) + 1 \notin DOMAIN orders
      /\ orders'[Len(orders) + 1] = o
      /\ \A j \in DOMAIN orders : orders'[j] = orders[j]
  BY <1>1, <1>2, AppendProperties, LenProperties DEF OrdersTypeOK
<1> QED
  BY <1>1, <1>2, <1>3 DEF OrdersTypeOK, OrdersInv
\* What a placed order with limits looks like.
LEMMA OrdersBound == OrdersTypeOK /\ OrdersInv => OrderIsBounded
<1> SUFFICES ASSUME OrdersTypeOK, OrdersInv,
                    NEW n \in DOMAIN placed,
                    orders[placed[n].call].contract.min > 0,
                    orders[placed[n].call].contract.max \in 1..(MaxInt64 - 1)
             PROVE  LET o == orders[placed[n].call]
                        k == o.contract
                    IN  /\ placed[n].size \in k.min..k.max
                        /\ \/ placed[n].size = 1
                           \/ placed[n].size * o.last.price * k.quanto <= UsdtAmount
  BY DEF OrderIsBounded
<1> DEFINE o == orders[placed[n].call]
           k == o.contract
           l == o.last
           size == placed[n].size
           value == l.price * k.quanto
<1>1. /\ k \in Contracts /\ l \in Lasts
      /\ size \in ContractSizes(k, l) /\ SizeAllowed(k, size)
      /\ k.min > 0 /\ k.max \in 1..(MaxInt64 - 1)
  BY DEF OrdersInv, Computed
<1> HIDE DEF o, k, l, size
<1>2. /\ k.min \in Nat /\ k.max \in Nat /\ k.quanto \in Nat
      /\ l.price \in Nat
      /\ MaxInt64 \in Nat /\ UsdtAmount \in 1..MaxInt64
  BY <1>1, ContractsAssumption, AmountAssumption
<1>3. value \in Nat
  BY <1>2
<1>4. size # MinInt64 /\ size # MaxInt64
  <2> SUFFICES ASSUME size = MinInt64 \/ size = MaxInt64 PROVE FALSE
    OBVIOUS
  <2>1. Abs(size) >= k.min /\ Abs(size) <= k.max
    BY <1>1, <1>2 DEF SizeAllowed
  <2> QED
    BY <1>1, <1>2, <2>1 DEF Abs, MinInt64
<1>5. \/ size = 1
      \/ /\ value # 0
         /\ size = IF UsdtAmount < value THEN 1 ELSE UsdtAmount \div value
  BY <1>1, <1>4, SizeIs
<1> HIDE DEF value
<1>7. size \in Nat /\ (size = 1 \/ size * value <= UsdtAmount)
  BY <1>2, <1>3, <1>5, Quotient
<1>8. size * value = size * l.price * k.quanto
  BY <1>2, <1>7 DEF value
<1>9. size \in k.min..k.max
  <2>1. Abs(size) = size
    BY <1>7 DEF Abs
  <2> QED
    BY <1>1, <1>2, <1>7, <2>1 DEF SizeAllowed
<1> QED
  BY <1>7, <1>8, <1>9 DEF o, k, l, size
-----------------------------------------------------------------------------
(* The titles. *)

\* The fetcher never repeats a title at once.
NoRepeats == \A i \in 1..(Len(emitted) - 1) : emitted[i] # emitted[i + 1]

\* The goroutine of streamNews remembers the title it took last: the one before
\* those that still wait for it.
LastTaken == LET taken == Len(emitted) - Len(noticeNews) IN
             lastNews = IF taken = 0 THEN NoTitle ELSE emitted[taken]

\* What the goroutine forwards is a title.
Held == mpc = "send" => lastNews \in Titles

\* The titles on the way are those the monitor is yet to receive.
OnTheWay == seen \o newsChan \o Forwarding \o noticeNews = emitted

\* Every call was opened for a title of its own that the monitor received.
Opened(f) == /\ f \in Injection(DOMAIN orders, DOMAIN seen)
             /\ \A i \in DOMAIN orders :
                   /\ OrderWorthy(seen[f[i]])
                   /\ Head(TickersOf[seen[f[i]]]) = orders[i].ticker

EachForItsNews == \E f \in Injection(DOMAIN orders, DOMAIN seen) : Opened(f)

PipelineInv == /\ TypeOK
               /\ NoRepeats /\ LastTaken /\ Held /\ OnTheWay
               /\ OrdersInv /\ EachForItsNews
LEMMA InitPipeline == Init => PipelineInv
<1> SUFFICES ASSUME Init PROVE PipelineInv
  OBVIOUS
<1> USE DEF Init, OrdersInit
<1>1. TypeOK
  <2>1. \A S : <<>> \in Seq(S) /\ Len(<<>>) = 0
    BY EmptySeq
  <2>2. OrdersTypeOK
    BY <2>1 DEF OrdersTypeOK
  <2>3. {monitoring, ctxDone, exited} \subseteq BOOLEAN
    BY Zenon
  <2> QED
    BY <2>1, <2>2, <2>3, SizesAssumption DEF TypeOK
<1>2. NoRepeats /\ LastTaken /\ Held /\ OrdersInv
  BY DEF NoRepeats, LastTaken, Held, OrdersInv
<1>3. OnTheWay
  <2>1. <<>> \o <<>> = <<>>
    OBVIOUS
  <2> QED
    BY <2>1 DEF OnTheWay, Forwarding
<1>4. EachForItsNews
  <2>1. <<>> \in Injection(DOMAIN orders, DOMAIN seen)
    BY DEF Injection, IsInjective
  <2> QED
    BY <2>1 DEF EachForItsNews, Opened
<1> QED
  BY <1>1, <1>2, <1>3, <1>4 DEF PipelineInv

\* The titles the monitor received come first, those in the fetcher's channel
\* last, of all that were emitted.
LEMMA Ends ==
  ASSUME TypeOK, Held, OnTheWay
  PROVE  /\ Len(seen) <= Len(emitted)
         /\ \A i \in DOMAIN seen : i \in DOMAIN emitted /\ emitted[i] = seen[i]
         /\ Len(noticeNews) <= Len(emitted)
         /\ \A i \in DOMAIN noticeNews :
               emitted[Len(emitted) - Len(noticeNews) + i] = noticeNews[i]
<1> DEFINE P == seen \o newsChan
           Q == P \o Forwarding
<1>1. /\ seen \in Seq(Titles) /\ newsChan \in Seq(Titles)
      /\ noticeNews \in Seq(Titles) /\ emitted \in Seq(Titles)
      /\ Forwarding \in Seq(Titles)
  BY DEF TypeOK, Held, Forwarding
<1>2. /\ P \in Seq(Titles) /\ Len(P) = Len(seen) + Len(newsChan)
      /\ \A i \in 1..Len(seen) : P[i] = seen[i]
  BY <1>1, InARow
<1> HIDE DEF P
<1>3. /\ Q \in Seq(Titles) /\ Len(Q) = Len(P) + Len(Forwarding)
      /\ \A i \in 1..Len(P) : Q[i] = P[i]
  BY <1>1, <1>2, InARow
<1>4. Q \o noticeNews = emitted
  BY DEF OnTheWay, P
<1> HIDE DEF Q
<1>5. /\ Len(emitted) = Len(Q) + Len(noticeNews)
      /\ \A i \in 1..Len(Q) : emitted[i] = Q[i]
      /\ \A i \in 1..Len(noticeNews) : emitted[Len(Q) + i] = noticeNews[i]
  <2>1. /\ Len(Q \o noticeNews) = Len(Q) + Len(noticeNews)
        /\ \A i \in 1..Len(Q) : (Q \o noticeNews)[i] = Q[i]
        /\ \A i \in 1..Len(noticeNews) : (Q \o noticeNews)[Len(Q) + i] = noticeNews[i]
    <3>1. Q \in Seq(Titles) /\ noticeNews \in Seq(Titles)
      BY <1>1, <1>3
    <3> QED
      BY <3>1, InARow
  <2> QED
    BY <1>4, <2>1
<1>6. /\ Len(seen) \in Nat /\ Len(newsChan) \in Nat /\ Len(Forwarding) \in Nat
      /\ Len(noticeNews) \in Nat /\ Len(emitted) \in Nat
      /\ DOMAIN seen = 1..Len(seen) /\ DOMAIN emitted = 1..Len(emitted)
      /\ DOMAIN noticeNews = 1..Len(noticeNews)
  BY <1>1, LenProperties
<1>7. Len(seen) <= Len(P) /\ Len(P) <= Len(Q) /\ Len(Q) \in Nat /\ Len(Q) <= Len(emitted)
  BY <1>2, <1>3, <1>5, <1>6
<1>8. \A i \in DOMAIN seen : i \in DOMAIN emitted /\ emitted[i] = seen[i]
  <2> SUFFICES ASSUME NEW i \in 1..Len(seen)
               PROVE  i \in 1..Len(emitted) /\ emitted[i] = seen[i]
    BY <1>6
  <2>1. i \in 1..Len(P) /\ i \in 1..Len(Q) /\ i \in 1..Len(emitted)
    BY <1>2, <1>6, <1>7
  <2> QED
    BY <1>2, <1>3, <1>5, <2>1
<1>9. Len(emitted) - Len(noticeNews) = Len(Q)
  BY <1>5, <1>6, <1>7
<1> QED
  BY <1>5, <1>6, <1>7, <1>8, <1>9

\* The title at the head of the fetcher's channel is not the one before it.
LEMMA NextIsNew ==
  ASSUME TypeOK, NoRepeats, LastTaken, Held, OnTheWay, noticeNews # <<>>
  PROVE  Head(noticeNews) # lastNews
<1> DEFINE taken == Len(emitted) - Len(noticeNews)
<1>1. /\ noticeNews \in Seq(Titles) /\ emitted \in Seq(Titles)
      /\ Len(noticeNews) \in Nat \ {0} /\ Len(emitted) \in Nat
      /\ 1 \in DOMAIN noticeNews /\ Head(noticeNews) = noticeNews[1]
      /\ Head(noticeNews) \in Titles
  BY EmptySeq, LenProperties, HeadTailProperties DEF TypeOK
<1>2. Len(noticeNews) <= Len(emitted) /\ emitted[taken + 1] = Head(noticeNews)
  BY <1>1, Ends
<1>3. lastNews = IF taken = 0 THEN NoTitle ELSE emitted[taken]
  BY DEF LastTaken
<1>4. CASE taken = 0
  BY <1>1, <1>3, <1>4, TitlesAssumption
<1>5. CASE taken # 0
  <2>1. taken \in 1..(Len(emitted) - 1)
    BY <1>1, <1>2, <1>5
  <2> QED
    BY <1>2, <1>3, <1>5, <2>1 DEF NoRepeats
<1> QED
  BY <1>4, <1>5
\* A step that leaves the orders and what the monitor received alone leaves what
\* is known of them alone.
LEMMA OrdersUntouched ==
  ASSUME OrdersTypeOK, OrdersInv, EachForItsNews, UNCHANGED <<orders, placed, seen>>
  PROVE  OrdersTypeOK' /\ OrdersInv' /\ EachForItsNews'
BY DEF OrdersTypeOK, OrdersInv, EachForItsNews, Opened

\* The monitor opens a call for the title it receives, and for no other.
LEMMA MonitorOpens ==
  ASSUME PipelineInv, Monitor
  PROVE  OrdersTypeOK' /\ OrdersInv' /\ EachForItsNews'
<1> DEFINE news == Head(newsChan)
           ticker == Head(TickersOf[news])
<1>1. PICK f \in Injection(DOMAIN orders, DOMAIN seen) : Opened(f)
  BY DEF PipelineInv, EachForItsNews
<1>2. /\ seen \in Seq(Titles) /\ news \in Titles
      /\ OrdersTypeOK /\ OrdersInv
  BY HeadTailProperties DEF PipelineInv, TypeOK, Monitor
<1>3. /\ DOMAIN seen' = DOMAIN seen \union {Len(seen) + 1}
      /\ Len(seen) + 1 \notin DOMAIN seen
      /\ seen'[Len(seen) + 1] = news
      /\ \A i \in DOMAIN seen : seen'[i] = seen[i]
  BY <1>2, AppendProperties, LenProperties DEF Monitor
<1>4. /\ f \in [DOMAIN orders -> DOMAIN seen]
      /\ \A i, j \in DOMAIN orders : f[i] = f[j] => i = j
      /\ \A i \in DOMAIN orders : /\ OrderWorthy(seen[f[i]])
                                  /\ Head(TickersOf[seen[f[i]]]) = orders[i].ticker
  BY <1>1 DEF Opened, Injection, IsInjective
<1> HIDE DEF news
<1>5. CASE ~OrderWorthy(news)
  <2>1. UNCHANGED <<orders, placed>>
    BY <1>5 DEF Monitor, news, orderVars
  <2>2. f \in Injection(DOMAIN orders, DOMAIN seen')
    BY <1>3, <1>4 DEF Injection, IsInjective
  <2>3. EachForItsNews'
    BY <1>3, <1>4, <2>1, <2>2 DEF EachForItsNews, Opened
  <2> QED
    BY <1>2, <2>1, <2>3 DEF OrdersTypeOK, OrdersInv
<1>6. CASE OrderWorthy(news)
  <2>1. ticker \in Tickers
    <3>1. TickersOf[news] \in Seq(Tickers) /\ TickersOf[news] # <<>>
      BY <1>2, <1>6, TitlesAssumption DEF OrderWorthy
    <3> QED
      BY <3>1, HeadTailProperties
  <2>2. OpenFuturesOrder(ticker)
    BY <1>6 DEF Monitor, news
  <2> DEFINE n == Len(orders) + 1
             g == [i \in DOMAIN orders \union {n} |->
                      IF i = n THEN Len(seen) + 1 ELSE f[i]]
  <2> HIDE DEF ticker
  <2>3. /\ OrdersTypeOK' /\ OrdersInv'
        /\ DOMAIN orders' = DOMAIN orders \union {n}
        /\ n \notin DOMAIN orders
        /\ orders'[n].ticker = ticker
        /\ \A j \in DOMAIN orders : orders'[j] = orders[j]
    BY <1>2, <2>1, <2>2, CallKeepsOrders
  <2> HIDE DEF n
  <2>4. g \in Injection(DOMAIN orders', DOMAIN seen')
    <3>1. g \in [DOMAIN orders' -> DOMAIN seen']
      BY <1>3, <1>4, <2>3
    <3>2. \A i, j \in DOMAIN orders' : g[i] = g[j] => i = j
      BY <1>3, <1>4, <2>3
    <3> QED
      BY <3>1, <3>2 DEF Injection, IsInjective
  <2>5. ASSUME NEW i \in DOMAIN orders'
        PROVE  /\ OrderWorthy(seen'[g[i]])
               /\ Head(TickersOf[seen'[g[i]]]) = orders'[i].ticker
    <3>1. CASE i = n
      BY <1>3, <1>6, <2>3, <3>1 DEF ticker
    <3>2. CASE i # n
      <4>1. i \in DOMAIN orders /\ g[i] = f[i] /\ f[i] \in DOMAIN seen
        BY <1>4, <2>3, <3>2
      <4> QED
        BY <1>3, <1>4, <2>3, <4>1
    <3> QED
      BY <3>1, <3>2
  <2> HIDE DEF g
  <2>6. EachForItsNews'
    BY <2>4, <2>5 DEF EachForItsNews, Opened, OrderWorthy
  <2> QED
    BY <2>3, <2>6
<1> QED
  BY <1>5, <1>6
LEMMA NextPipeline == PipelineInv /\ [Next]_vars => PipelineInv'
<1> SUFFICES ASSUME PipelineInv, [Next]_vars PROVE PipelineInv'
  OBVIOUS
<1>0. /\ TypeOK /\ NoRepeats /\ LastTaken /\ Held /\ OnTheWay
      /\ OrdersTypeOK /\ OrdersInv /\ EachForItsNews
      /\ seen \in Seq(Titles) /\ newsChan \in Seq(Titles)
      /\ noticeNews \in Seq(Titles) /\ emitted \in Seq(Titles)
      /\ Forwarding \in Seq(Titles)
      /\ seen \o newsChan \in Seq(Titles)
      /\ seen \o newsChan \o Forwarding \in Seq(Titles)
  <2>1. /\ TypeOK /\ NoRepeats /\ LastTaken /\ Held /\ OnTheWay
        /\ OrdersTypeOK /\ OrdersInv /\ EachForItsNews
        /\ seen \in Seq(Titles) /\ newsChan \in Seq(Titles)
        /\ noticeNews \in Seq(Titles) /\ emitted \in Seq(Titles)
        /\ Forwarding \in Seq(Titles)
    BY DEF PipelineInv, TypeOK, Held, Forwarding
  <2>2. seen \o newsChan \in Seq(Titles)
    BY <2>1, InARow
  <2> QED
    BY <2>1, <2>2, InARow
<1> DEFINE P == seen \o newsChan
<1>1. ASSUME NEW title \in Titles, Emit(title) PROVE PipelineInv'
  <2>1. /\ noticeNews' = Append(noticeNews, title) /\ emitted' = Append(emitted, title)
        /\ title # LastEmitted
        /\ UNCHANGED <<seen, orders, placed, mpc, lastNews, newsChan, monitoring,
                       ctxDone, exited>>
    BY <1>1 DEF Emit, mainVars, orderVars
  <2>2. OrdersTypeOK' /\ OrdersInv' /\ EachForItsNews'
    BY <1>0, <2>1, OrdersUntouched
  <2>3. /\ noticeNews' \in Seq(Titles) /\ emitted' \in Seq(Titles)
        /\ Len(noticeNews) \in Nat /\ Len(emitted) \in Nat
        /\ Len(noticeNews') = Len(noticeNews) + 1 /\ Len(emitted') = Len(emitted) + 1
        /\ \A i \in 1..Len(emitted) : emitted'[i] = emitted[i]
        /\ emitted'[Len(emitted) + 1] = title
    BY <1>0, <2>1, AppendProperties, LenProperties
  <2>4. TypeOK'
    BY <1>0, <1>1, <2>1, <2>2, <2>3, SizesAssumption DEF Emit, TypeOK
  <2>5. NoRepeats'
    <3> SUFFICES ASSUME NEW i \in 1..Len(emitted) PROVE emitted'[i] # emitted'[i + 1]
      BY <2>3 DEF NoRepeats
    <3>1. CASE i < Len(emitted)
      <4>1. i \in 1..(Len(emitted) - 1) /\ i + 1 \in 1..Len(emitted)
        BY <2>3, <3>1
      <4> QED
        BY <1>0, <2>3, <4>1 DEF NoRepeats
    <3>2. CASE i = Len(emitted)
      <4>1. emitted # <<>>
        BY <2>3, <3>2
      <4> QED
        BY <2>1, <2>3, <3>2, <4>1 DEF LastEmitted
    <3> QED
      BY <2>3, <3>1, <3>2
  <2>6. LastTaken'
    <3>1. Len(noticeNews) <= Len(emitted)
      BY <1>0, Ends
    <3>2. /\ Len(emitted') - Len(noticeNews') = Len(emitted) - Len(noticeNews)
          /\ Len(emitted) - Len(noticeNews) # 0 =>
                Len(emitted) - Len(noticeNews) \in 1..Len(emitted)
      BY <2>3, <3>1
    <3> QED
      BY <1>0, <2>1, <2>3, <3>2 DEF LastTaken
  <2>7. OnTheWay'
    <3>1. Forwarding' = Forwarding
      BY <2>1 DEF Forwarding
    <3>2. (P \o Forwarding) \o Append(noticeNews, title)
             = Append((P \o Forwarding) \o noticeNews, title)
      BY <1>0, SendLast
    <3> QED
      BY <1>0, <2>1, <3>1, <3>2 DEF OnTheWay
  <2>8. Held'
    BY <1>0, <2>1 DEF Held
  <2> QED
    BY <2>2, <2>4, <2>5, <2>6, <2>7, <2>8 DEF PipelineInv
<1>2. CASE TakeNotice
  <2> DEFINE news == Head(noticeNews)
  <2>1. /\ mpc = "select" /\ noticeNews # <<>> /\ noticeNews' = Tail(noticeNews)
        /\ mpc' = "send" /\ lastNews' = news
        /\ UNCHANGED <<seen, orders, placed, newsChan, monitoring, ctxDone, exited, emitted>>
    BY <1>0, <1>2, NextIsNew DEF TakeNotice, Repeats, orderVars
  <2>2. OrdersTypeOK' /\ OrdersInv' /\ EachForItsNews'
    BY <1>0, <2>1, OrdersUntouched
  <2>3. /\ news \in Titles /\ noticeNews' \in Seq(Titles)
        /\ Len(noticeNews) \in Nat /\ Len(noticeNews') = Len(noticeNews) - 1
    BY <1>0, <2>1, ReceiveFirst, LenProperties
  <2>4. TypeOK'
    BY <1>0, <2>1, <2>2, <2>3, SizesAssumption DEF TypeOK
  <2>5. LastTaken'
    <3>1. /\ Len(noticeNews) <= Len(emitted) /\ Len(emitted) \in Nat
          /\ emitted[Len(emitted) - Len(noticeNews) + 1] = noticeNews[1]
          /\ news = noticeNews[1]
      <4>1. 1 \in DOMAIN noticeNews /\ news = noticeNews[1]
        BY <1>0, <2>1, EmptySeq, LenProperties
      <4> QED
        BY <1>0, <4>1, Ends, LenProperties
    <3>2. /\ Len(emitted') - Len(noticeNews') = Len(emitted) - Len(noticeNews) + 1
          /\ Len(emitted') - Len(noticeNews') # 0
      <4>1. emitted' = emitted /\ Len(noticeNews') = Len(noticeNews) - 1
        BY <2>1, <2>3
      <4> QED
        BY <2>3, <3>1, <4>1
    <3> QED
      BY <2>1, <3>1, <3>2 DEF LastTaken
  <2>6. OnTheWay'
    <3>1. Forwarding = <<>> /\ Forwarding' = <<news>>
      BY <2>1 DEF Forwarding
    <3>2. (P \o <<news>>) \o Tail(noticeNews) = P \o noticeNews
      BY <1>0, <2>1, ReceiveFirst
    <3>3. P \o <<>> = P
      BY <1>0, ConcatEmptySeq
    <3> QED
      BY <1>0, <2>1, <3>1, <3>2, <3>3 DEF OnTheWay
  <2>7. Held' /\ NoRepeats'
    BY <1>0, <2>1, <2>3 DEF Held, NoRepeats
  <2> QED
    BY <2>2, <2>4, <2>5, <2>6, <2>7 DEF PipelineInv
<1>3. CASE Forward
  <2>1. /\ mpc = "send" /\ newsChan' = Append(newsChan, lastNews) /\ mpc' = "select"
        /\ Len(newsChan) < NewsChanSize
        /\ UNCHANGED <<seen, orders, placed, noticeNews, lastNews, monitoring, ctxDone,
                       exited, emitted>>
    BY <1>3 DEF Forward, NewsChanHasRoom, orderVars
  <2>2. OrdersTypeOK' /\ OrdersInv' /\ EachForItsNews'
    BY <1>0, <2>1, OrdersUntouched
  <2>3. /\ lastNews \in Titles /\ newsChan' \in Seq(Titles)
        /\ Len(newsChan) \in Nat /\ Len(newsChan') = Len(newsChan) + 1
    BY <1>0, <2>1, AppendProperties, LenProperties DEF Held
  <2>4. TypeOK'
    BY <1>0, <2>1, <2>2, <2>3, SizesAssumption DEF TypeOK
  <2>5. OnTheWay'
    <3>1. Forwarding = <<lastNews>> /\ Forwarding' = <<>>
      BY <2>1 DEF Forwarding
    <3>2. seen \o Append(newsChan, lastNews) = Append(P, lastNews)
      BY <1>0, <2>3, SendLast
    <3>3. Append(P, lastNews) = P \o <<lastNews>>
      BY <1>0, <2>3, AppendIsConcat
    <3>4. (P \o <<lastNews>>) \o <<>> = P \o <<lastNews>>
      BY <1>0, <3>1, ConcatEmptySeq
    <3> QED
      BY <1>0, <2>1, <3>1, <3>2, <3>3, <3>4 DEF OnTheWay
  <2>6. Held' /\ NoRepeats' /\ LastTaken'
    BY <1>0, <2>1 DEF Held, NoRepeats, LastTaken
  <2> QED
    BY <2>2, <2>4, <2>5, <2>6 DEF PipelineInv
<1>4. CASE Monitor
  <2>1. /\ newsChan # <<>> /\ newsChan' = Tail(newsChan)
        /\ seen' = Append(seen, Head(newsChan))
        /\ UNCHANGED <<noticeNews, mpc, lastNews, monitoring, ctxDone, exited, emitted>>
    BY <1>4 DEF Monitor, mainVars
  <2>2. OrdersTypeOK' /\ OrdersInv' /\ EachForItsNews'
    BY <1>4, MonitorOpens
  <2>3. /\ Head(newsChan) \in Titles /\ newsChan' \in Seq(Titles)
        /\ Len(newsChan) \in Nat /\ Len(newsChan') = Len(newsChan) - 1
        /\ Append(seen, Head(newsChan)) \o Tail(newsChan) = P
    BY <1>0, <2>1, ReceiveFirst, LenProperties
  <2>4. seen' \in Seq(Titles)
    BY <1>0, <2>1, <2>3, AppendProperties
  <2>5. TypeOK'
    BY <1>0, <2>1, <2>2, <2>3, <2>4, SizesAssumption DEF TypeOK
  <2>6. Forwarding' = Forwarding
    BY <2>1 DEF Forwarding
  <2>7. Held' /\ NoRepeats' /\ LastTaken' /\ OnTheWay'
    BY <1>0, <2>1, <2>3, <2>6 DEF Held, NoRepeats, LastTaken, OnTheWay
  <2> QED
    BY <2>2, <2>5, <2>7 DEF PipelineInv
<1>5. ASSUME NEW i \in DOMAIN orders, Order(i) PROVE PipelineInv'
  <2>1. /\ OrderStep(i)
        /\ UNCHANGED <<noticeNews, mpc, lastNews, newsChan, monitoring, ctxDone, exited,
                       emitted, seen>>
    BY <1>5 DEF Order, mainVars
  <2>2. /\ OrdersTypeOK' /\ OrdersInv'
        /\ DOMAIN orders' = DOMAIN orders
        /\ \A j \in DOMAIN orders : orders'[j].ticker = orders[j].ticker
    BY <1>0, <2>1, StepKeepsOrders
  <2>3. EachForItsNews'
    <3>1. PICK f \in Injection(DOMAIN orders, DOMAIN seen) : Opened(f)
      BY <1>0 DEF EachForItsNews
    <3>2. \A j \in DOMAIN orders' : /\ OrderWorthy(seen'[f[j]])
                                    /\ Head(TickersOf[seen'[f[j]]]) = orders'[j].ticker
      BY <2>1, <2>2, <3>1 DEF Opened
    <3> QED
      BY <2>1, <2>2, <3>1, <3>2 DEF EachForItsNews, Opened, OrderWorthy
  <2>4. TypeOK'
    BY <1>0, <2>1, <2>2 DEF TypeOK
  <2>5. NoRepeats' /\ LastTaken' /\ Held' /\ OnTheWay'
    BY <1>0, <2>1 DEF NoRepeats, LastTaken, Held, OnTheWay, Forwarding
  <2> QED
    BY <2>2, <2>3, <2>4, <2>5 DEF PipelineInv
<1>6. CASE /\ mpc' \in {mpc, "returned"} /\ (mpc' # mpc => mpc = "select")
           /\ {monitoring', ctxDone', exited'} \subseteq BOOLEAN
           /\ UNCHANGED <<noticeNews, lastNews, newsChan, emitted, seen, orders, placed>>
  <2>1. OrdersTypeOK' /\ OrdersInv' /\ EachForItsNews'
    BY <1>0, <1>6, OrdersUntouched
  <2>2. TypeOK'
    BY <1>0, <1>6, <2>1 DEF TypeOK
  <2>3. NoRepeats' /\ LastTaken' /\ Held' /\ OnTheWay'
    BY <1>0, <1>6 DEF NoRepeats, LastTaken, Held, OnTheWay, Forwarding
  <2> QED
    BY <2>1, <2>2, <2>3 DEF PipelineInv
<1>7. CASE StopForwarding \/ StopMonitoring \/ Cancel \/ Exit \/ UNCHANGED vars
  <2>1. /\ mpc' \in {mpc, "returned"} /\ (mpc' # mpc => mpc = "select")
        /\ UNCHANGED <<noticeNews, lastNews, newsChan, emitted, seen, orders, placed>>
    BY <1>7 DEF StopForwarding, StopMonitoring, Cancel, Exit, vars, mainVars, orderVars
  <2>2. {monitoring', ctxDone', exited'} \subseteq BOOLEAN
    <3>1. {monitoring, ctxDone, exited} \subseteq BOOLEAN
      BY <1>0 DEF TypeOK
    <3> QED
      BY <1>7, <3>1 DEF StopForwarding, StopMonitoring, Cancel, Exit, vars
  <2> QED
    BY <1>6, <2>1, <2>2
<1> QED
  BY <1>1, <1>2, <1>3, <1>4, <1>5, <1>7 DEF Next

\* The invariant on which the promises about titles and orders rest.
THEOREM PipelineInvariant == Spec => []PipelineInv
<1> QED
  BY InitPipeline, NextPipeline, PTL DEF Spec

\* Between the fetcher and the monitor no title is lost, doubled or overtaken.
THEOREM NothingLost == Spec => []NothingLostOnTheWay
<1>1. PipelineInv => NothingLostOnTheWay
  BY DEF PipelineInv, OnTheWay, NothingLostOnTheWay
<1> QED
  BY <1>1, PipelineInvariant, PTL

\* An order for a contract with limits buys within them and costs no more than
\* was asked for, unless it is the single contract the code falls back to.
THEOREM OrdersBounded == Spec => []OrderIsBounded
<1>1. PipelineInv => OrderIsBounded
  BY OrdersBound DEF PipelineInv, TypeOK
<1> QED
  BY <1>1, PipelineInvariant, PTL

\* The orders for a token are matched with the listings of it that were found.
LEMMA OrdersMatched == PipelineInv => NoOrderWithoutItsNews
<1> SUFFICES ASSUME PipelineInv, NEW ticker \in Tickers
             PROVE  Cardinality({n \in DOMAIN placed : orders[placed[n].call].ticker = ticker})
                      <= Cardinality(FoundFor(ticker))
  BY DEF NoOrderWithoutItsNews
<1> DEFINE N == {n \in DOMAIN placed : orders[placed[n].call].ticker = ticker}
           E == {i \in DOMAIN emitted : /\ OrderWorthy(emitted[i])
                                        /\ Head(TickersOf[emitted[i]]) = ticker}
<1>1. PICK f \in Injection(DOMAIN orders, DOMAIN seen) : Opened(f)
  BY DEF PipelineInv, EachForItsNews
<1> DEFINE g == [n \in N |-> f[placed[n].call]]
<1>2. /\ \A n \in DOMAIN placed : placed[n].call \in DOMAIN orders
      /\ \A m, n \in DOMAIN placed : placed[m].call = placed[n].call => m = n
  BY DEF PipelineInv, TypeOK, OrdersTypeOK, OrdersInv
<1>3. \A i \in DOMAIN seen : i \in DOMAIN emitted /\ emitted[i] = seen[i]
  BY Ends DEF PipelineInv
<1>4. /\ f \in [DOMAIN orders -> DOMAIN seen]
      /\ \A i, j \in DOMAIN orders : f[i] = f[j] => i = j
      /\ \A i \in DOMAIN orders : /\ OrderWorthy(seen[f[i]])
                                  /\ Head(TickersOf[seen[f[i]]]) = orders[i].ticker
  BY <1>1 DEF Opened, Injection, IsInjective
<1>5. g \in Injection(N, E)
  <2>1. g \in [N -> E]
    BY <1>2, <1>3, <1>4
  <2>2. \A m, n \in N : g[m] = g[n] => m = n
    BY <1>2, <1>4
  <2> HIDE DEF g
  <2> QED
    BY <2>1, <2>2 DEF Injection, IsInjective
<1>6. IsFiniteSet(E)
  <2>1. DOMAIN emitted = 1..Len(emitted) /\ Len(emitted) \in Nat
    BY LenProperties DEF PipelineInv, TypeOK
  <2>2. IsFiniteSet(1..Len(emitted))
    BY <2>1, FS_Interval
  <2> QED
    BY <2>1, <2>2, FS_Subset
<1> HIDE DEF g, N, E
<1>7. Cardinality(N) <= Cardinality(E)
  BY <1>5, <1>6, FS_Injection
<1> QED
  BY <1>7 DEF N, E, FoundFor

\* A token is never ordered more often than the fetcher found a listing for it.
THEOREM OrdersHaveNews == Spec => []NoOrderWithoutItsNews
<1> QED
  BY OrdersMatched, PipelineInvariant, PTL
=============================================================================
