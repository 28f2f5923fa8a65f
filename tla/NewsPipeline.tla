---------------------------- MODULE NewsPipeline ----------------------------
(***************************************************************************)
(* What happens to a title once a fetcher has found it (main.go and        *)
(* internal/core/news_monitor.go): a goroutine of streamNews drops a title *)
(* that repeats the one before it and forwards the others to the monitor,  *)
(* which opens an order, in a goroutine of its own, for the first ticker   *)
(* of every title that announces a listing.                                *)
(*                                                                         *)
(* The fetcher is NoticeByIDFetcher, of which NoRepeatInARow is taken over *)
(* here.  Cancelled, it closes its channel, from which the goroutine of    *)
(* streamNews then reads zero values without end; run returns and with it  *)
(* the process ends, wherever the other goroutines are.                    *)
(***************************************************************************)
EXTENDS FuturesOrder, FiniteSets

CONSTANTS Titles,       \* the titles of notices
          Listings,     \* those that containsKoreanListingPattern or the
                        \* English phrase recognise
          TickersOf,    \* ExtractKoreanTickers of each title
          NoticeChanSize, NewsChanSize,
          NoTitle,      \* the zero value of a title
          MaxNews       \* bound: titles in one behaviour

ASSUME TitlesAssumption == /\ Listings \subseteq Titles
                           /\ TickersOf \in [Titles -> Seq(Tickers)]
                           /\ NoTitle \notin Titles
ASSUME SizesAssumption == /\ NoticeChanSize \in Nat \ {0}
                          /\ NewsChanSize \in Nat \ {0}
                          /\ MaxNews \in Nat

VARIABLES noticeNews,  \* the fetcher's channel
          mpc,         \* the goroutine of streamNews: "select", "send", "returned"
          lastNews,
          newsChan,
          monitoring,  \* the monitor's goroutine has not returned
          ctxDone,     \* the context is cancelled
          exited,      \* the process has ended
          emitted,     \* history: the titles the fetcher has sent
          seen         \* history: the titles the monitor has received

mainVars == <<mpc, lastNews>>
vars == <<noticeNews, mainVars, newsChan, monitoring, ctxDone, exited, emitted,
          seen, orderVars>>

Init == /\ noticeNews = <<>> /\ mpc = "select" /\ lastNews = NoTitle
        /\ newsChan = <<>> /\ monitoring = TRUE
        /\ ctxDone = FALSE /\ exited = FALSE
        /\ emitted = <<>> /\ seen = <<>>
        /\ OrdersInit

-----------------------------------------------------------------------------
LastEmitted == IF emitted = <<>> THEN NoTitle ELSE emitted[Len(emitted)]

\* The fetcher hands a title on; it never repeats the last one.
Emit(title) == /\ Len(emitted) < MaxNews
               /\ Len(noticeNews) < NoticeChanSize
               /\ title # LastEmitted
               /\ noticeNews' = Append(noticeNews, title)
               /\ emitted' = Append(emitted, title)
               /\ UNCHANGED <<mainVars, newsChan, monitoring, ctxDone, exited, seen,
                              orderVars>>

\* Mutant: a title is dropped if it was ever in the news.
RepeatsEver(news) == news = lastNews \/ \E i \in DOMAIN seen : seen[i] = news

\* news == lastNews
Repeats(news) == news = lastNews

\* A title arrives in the goroutine of streamNews.
TakeNotice == LET news == Head(noticeNews) IN
    /\ mpc = "select" /\ noticeNews # <<>>
    /\ noticeNews' = Tail(noticeNews)
    /\ IF Repeats(news) THEN UNCHANGED mainVars
                        ELSE mpc' = "send" /\ lastNews' = news
    /\ UNCHANGED <<newsChan, monitoring, ctxDone, exited, emitted, seen, orderVars>>

\* A send on newsChan does not block.
NewsChanHasRoom == Len(newsChan) < NewsChanSize

\* newsChan <- news
Forward == /\ mpc = "send"
           /\ NewsChanHasRoom
           /\ newsChan' = Append(newsChan, lastNews)
           /\ mpc' = "select"
           /\ UNCHANGED <<noticeNews, lastNews, monitoring, ctxDone, exited, emitted,
                          seen, orderVars>>

\* The goroutine sees the cancelled context.
StopForwarding == /\ mpc = "select" /\ ctxDone
                  /\ mpc' = "returned"
                  /\ UNCHANGED <<noticeNews, lastNews, newsChan, monitoring, ctxDone,
                                 exited, emitted, seen, orderVars>>

\* The title announces a listing and names a ticker.
OrderWorthy(title) == title \in Listings /\ TickersOf[title] # <<>>

\* Mutant: the monitor waits for the order it has opened.
MonitorWaits == monitoring /\ \A i \in DOMAIN orders : orders[i].at \in {"done", "failed"}

\* The monitor is in its select, and not busy with an order.
MonitorReady == monitoring

\* The monitor receives a title and starts the order's goroutine.
Monitor == LET news == Head(newsChan) IN
    /\ MonitorReady /\ newsChan # <<>>
    /\ newsChan' = Tail(newsChan)
    /\ seen' = Append(seen, news)
    /\ IF OrderWorthy(news) THEN OpenFuturesOrder(Head(TickersOf[news]))
                            ELSE UNCHANGED orderVars
    /\ UNCHANGED <<noticeNews, mainVars, monitoring, ctxDone, exited, emitted>>

StopMonitoring == /\ monitoring /\ ctxDone
                  /\ monitoring' = FALSE
                  /\ UNCHANGED <<noticeNews, mainVars, newsChan, ctxDone, exited,
                                 emitted, seen, orderVars>>

\* An order's goroutine makes a step.
Order(i) == /\ OrderStep(i)
            /\ UNCHANGED <<noticeNews, mainVars, newsChan, monitoring, ctxDone,
                           exited, emitted, seen>>

\* An interrupt.
Cancel == /\ ~ctxDone
          /\ ctxDone' = TRUE
          /\ UNCHANGED <<noticeNews, mainVars, newsChan, monitoring, exited,
                         emitted, seen, orderVars>>

\* run returns after ctx.Done, and main with it.
Exit == /\ ctxDone
        /\ exited' = TRUE
        /\ UNCHANGED <<noticeNews, mainVars, newsChan, monitoring, ctxDone,
                       emitted, seen, orderVars>>

Next == /\ ~exited
        /\ \/ \E title \in Titles : Emit(title)
           \/ TakeNotice \/ Forward \/ StopForwarding
           \/ Monitor \/ StopMonitoring
           \/ \E i \in DOMAIN orders : Order(i)
           \/ Cancel \/ Exit

Spec == Init /\ [][Next]_vars

\* The goroutines of main and of the monitor are scheduled.  Nothing is assumed
\* of the exchange: a request may never return.
FairSpec == /\ Spec
            /\ WF_vars(~exited /\ TakeNotice)
            /\ WF_vars(~exited /\ Forward)
            /\ WF_vars(~exited /\ Monitor)

-----------------------------------------------------------------------------
\* The types of the variables.
TypeOK == /\ noticeNews \in Seq(Titles) /\ Len(noticeNews) <= NoticeChanSize
          /\ newsChan \in Seq(Titles) /\ Len(newsChan) <= NewsChanSize
          /\ mpc \in {"select", "send", "returned"}
          /\ lastNews \in Titles \union {NoTitle}
          /\ {monitoring, ctxDone, exited} \subseteq BOOLEAN
          /\ emitted \in Seq(Titles) /\ Len(emitted) <= MaxNews
          /\ seen \in Seq(Titles)
          /\ OrdersTypeOK

Forwarding == IF mpc = "send" THEN <<lastNews>> ELSE <<>>

\* Between the fetcher and the monitor no title is lost, doubled or overtaken,
\* even one that has been in the news before.
NothingLostOnTheWay == TypeOK /\ seen \o newsChan \o Forwarding \o noticeNews = emitted

\* The listings of a token the fetcher has found, and the orders opened for it.
FoundFor(ticker) == {i \in DOMAIN emitted : /\ OrderWorthy(emitted[i])
                                            /\ Head(TickersOf[emitted[i]]) = ticker}
OpenedFor(ticker) == {i \in DOMAIN orders : orders[i].ticker = ticker}

\* A token is never ordered more often than the fetcher has found a listing for
\* it, whatever answers of the exchange are lost and however the goroutines of
\* the orders overtake each other.
NoOrderWithoutItsNews ==
    \A ticker \in Tickers :
        Cardinality({n \in DOMAIN placed : orders[placed[n].call].ticker = ticker})
          <= Cardinality(FoundFor(ticker))

\* Until the process is interrupted, every listing of a token that a fetcher
\* finds opens an order for that token, even while the orders before it wait
\* for an exchange that never answers: again and again, and so in the end when
\* there are no more news, each token has as many orders as listings.
EveryListingOrdered ==
    []<>(ctxDone \/ \A ticker \in Tickers :
             Cardinality(OpenedFor(ticker)) = Cardinality(FoundFor(ticker)))
=============================================================================
