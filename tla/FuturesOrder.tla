---------------------------- MODULE FuturesOrder ----------------------------
(***************************************************************************)
(* OpenFuturesOrder of pkg/gate/gate.go: each call runs in a goroutine of  *)
(* its own and makes four requests to the exchange, one after the other.   *)
(* Sizes are computed with floating point numbers and turned into an int64 *)
(* whose width matters: the error of parsing the price is ignored, so the  *)
(* price may be zero, with an infinite quotient, or infinite itself.       *)
(*                                                                         *)
(* The exchange is external.  It may refuse a request, the connection may  *)
(* break before or after it acted on one, and nothing bounds the time a    *)
(* request takes.  Prices and multipliers are whole numbers of some unit.  *)
(***************************************************************************)
EXTENDS Integers, Sequences

CONSTANTS Tickers,     \* the tokens
          Contracts,   \* what GetFuturesContract may say of a contract
          Lasts,       \* what ListFuturesTickers may say of the last price
          UsdtAmount,  \* usdtAmount
          MaxInt64     \* math.MaxInt64

ASSUME ContractsAssumption ==
    /\ \A k \in Contracts : k.min \in Nat /\ k.max \in Nat /\ k.quanto \in Nat
    /\ \A l \in Lasts : /\ l.price \in Nat \ {0}
                         /\ l.parsed \in {"number", "malformed", "outOfRange"}
ASSUME AmountAssumption == MaxInt64 \in Nat /\ UsdtAmount \in 1..MaxInt64

VARIABLES orders,  \* the calls of OpenFuturesOrder so far
          placed   \* external: the orders the exchange has taken

orderVars == <<orders, placed>>

MinInt64 == -MaxInt64 - 1

CallStates == {"leverage", "contract", "ticker", "size", "create", "failed", "done"}

NoContract == [quanto |-> 0, min |-> 0, max |-> 0]
NoLast == [price |-> 1, parsed |-> "malformed"]

OrdersInit == orders = <<>> /\ placed = <<>>

\* The call begins.
OpenFuturesOrder(ticker) ==
    /\ orders' = Append(orders, [ticker |-> ticker, at |-> "leverage",
                                 contract |-> NoContract, last |-> NoLast,
                                 size |-> 0])
    /\ UNCHANGED placed

\* A call that returns an error.
Fail(i) == /\ orders' = [orders EXCEPT ![i].at = "failed"]
           /\ UNCHANGED placed

\* UpdatePositionLeverage: only an answer with an error status stops the call;
\* without an answer it goes on.
UpdateLeverage(i) == /\ orders[i].at = "leverage"
                     /\ \/ /\ orders' = [orders EXCEPT ![i].at = "contract"]
                           /\ UNCHANGED placed
                        \/ Fail(i)

GetContract(i) == /\ orders[i].at = "contract"
                  /\ \/ /\ \E k \in Contracts :
                             orders' = [orders EXCEPT ![i].at = "ticker", ![i].contract = k]
                        /\ UNCHANGED placed
                     \/ Fail(i)

\* The price's own parse error is ignored, the multiplier's is an error.
ListTickers(i) == /\ orders[i].at = "ticker"
                  /\ \/ /\ \E l \in Lasts :
                             orders' = [orders EXCEPT ![i].at = "size", ![i].last = l]
                        /\ UNCHANGED placed
                     \/ Fail(i)

\* math.Inf(1)
Infinite == -1

\* What ParseFloat gives with an error: zero for what is no number, and an
\* infinity for a number too large.
CurrentPrice(last) == CASE last.parsed = "number" -> last.price
                        [] last.parsed = "malformed" -> 0
                        [] last.parsed = "outOfRange" -> Infinite

\* usdtAmount / (currentPrice * quantoMultiplier) as an int64: cut to a whole
\* number, and at least one contract.  An infinite quotient, and the one of an
\* infinity times zero, are what the processor makes of them.
ContractSizes(k, last) ==
    LET price == CurrentPrice(last) IN
    IF price = Infinite THEN IF k.quanto = 0 THEN {MinInt64, 1} ELSE {1}
    ELSE IF price * k.quanto = 0 THEN {MinInt64, MaxInt64}
    ELSE {IF UsdtAmount < price * k.quanto THEN 1 ELSE UsdtAmount \div (price * k.quanto)}

\* abs: the least number is its own negative.
Abs(n) == IF n < 0 /\ n # MinInt64 THEN -n ELSE n

\* Mutant: the greatest size is not looked at.
NotTooSmall(k, size) == k.min > 0 => Abs(size) >= k.min

\* "size too small" and "size too large"; a limit of zero is none.
SizeAllowed(k, size) == /\ k.min > 0 => Abs(size) >= k.min
                        /\ k.max > 0 => Abs(size) <= k.max

ComputeSize(i) ==
    LET k == orders[i].contract IN
    /\ orders[i].at = "size"
    /\ \E size \in ContractSizes(k, orders[i].last) :
          IF SizeAllowed(k, size)
          THEN /\ orders' = [orders EXCEPT ![i].at = "create", ![i].size = size]
               /\ UNCHANGED placed
          ELSE Fail(i)

\* Mutant: an order without an answer is sent again.
TryAgain == "create"

\* Where an error of CreateFuturesOrder leads: there is no second try.
AfterError == "failed"

\* CreateFuturesOrder: the exchange takes the order and says so, takes it but
\* the answer is lost, or does not take it.
CreateOrder(i) ==
    /\ orders[i].at = "create"
    /\ \E taken \in BOOLEAN, answered \in BOOLEAN :
          /\ placed' = IF taken THEN Append(placed, [call |-> i, size |-> orders[i].size])
                                ELSE placed
          /\ orders' = [orders EXCEPT ![i].at = IF taken /\ answered THEN "done"
                                               ELSE AfterError]

OrderStep(i) == \/ UpdateLeverage(i) \/ GetContract(i) \/ ListTickers(i)
                \/ ComputeSize(i) \/ CreateOrder(i)

-----------------------------------------------------------------------------
\* What a call of OpenFuturesOrder knows, and what the exchange has of it.
Calls == [ticker : Tickers, at : CallStates, contract : Contracts \union {NoContract},
          last : Lasts \union {NoLast}, size : MinInt64..MaxInt64]
Orders == [call : Nat, size : MinInt64..MaxInt64]

\* The types of the variables.
OrdersTypeOK == /\ orders \in Seq(Calls)
                /\ placed \in Seq(Orders)
                /\ \A n \in DOMAIN placed : placed[n].call \in DOMAIN orders

\* An order for a contract with limits, the upper one below the greatest number,
\* buys, stays within them, and is worth no more than the amount asked for unless
\* it is the single contract the code falls back to.  In particular a price that
\* is no number, whose quotient is infinite, never becomes an order, and one too
\* large for a float64 is an order for a single contract at most.
OrderIsBounded ==
    \A n \in DOMAIN placed :
        LET o == orders[placed[n].call]
            k == o.contract
        IN  k.min > 0 /\ k.max \in 1..(MaxInt64 - 1) =>
              /\ placed[n].size \in k.min..k.max
              /\ placed[n].size = 1 \/ placed[n].size * o.last.price * k.quanto <= UsdtAmount
=============================================================================
