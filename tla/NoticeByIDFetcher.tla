-------------------------- MODULE NoticeByIDFetcher --------------------------
(***************************************************************************)
(* NoticeByIDFetcher of internal/core/notice_by_id_fetcher.go on top of    *)
(* the poller.  Notices have consecutive numbers; the page of a number     *)
(* that does not exist yet shows a default title.  The constructor looks   *)
(* for the first number without a notice and the poller polls its page;    *)
(* when the page shows a title the fetcher hands it on and moves the       *)
(* poller to the next page.                                                *)
(*                                                                         *)
(* The web site is external: Publish adds a notice, Page is what it shows. *)
(* The poller runs in working hours and without panics here, its other     *)
(* behaviour is the subject of ProxyRotatingPoller.                        *)
(***************************************************************************)
EXTENDS Integers, FiniteSets, Sequences, Functions

CONSTANTS Clients, Groups, MembersOf,  \* as in ProxyRotatingPoller
          MaxID,         \* bound: number of the last notice ever published
          Titles,        \* the titles of notices
          TitleOf,       \* the title of each notice
          DefaultTitle,  \* defaultNoticeTitle
          NewsChanSize,  \* noticeFetcherChanSize
          Failures       \* how requests may fail: of {"empty", "tooMany"}

ASSUME TitleAssumption == /\ MaxID \in Nat \ {0}
                          /\ TitleOf \in [1..MaxID -> Titles]
                          /\ DefaultTitle \notin Titles
ASSUME NewsChanAssumption == NewsChanSize \in Nat \ {0}

VARIABLES pc, running, ctxDone, working, idleGroups, tracked, worker, url,
          requestURL, writer, newURL, response, responses, faults, late
VARIABLES published,      \* external: number of the latest notice published
          fpc,            \* where the fetcher is
          nextNewsID,     \* f.nextNewsID
          lastNewsTitle,  \* f.lastNewsTitle
          pending,        \* the title updateAndNotify is about to send
          banned,         \* per proxy: "no", "recent", or "old": over an hour ago
          newsChan,       \* the channel of StreamNewNoticeTitles
          firstID,        \* history: nextNewsID when the polling started
          delivered       \* history: the titles taken from newsChan

\* The page numbers; the fetcher can run ahead of the web site.
URLs == Nat

PageReply(c, title) == [kind |-> "page", proxy |-> c, title |-> title]
TooMany(c) == [kind |-> "tooMany", proxy |-> c, title |-> DefaultTitle]
Empty == [kind |-> "empty", proxy |-> "none", title |-> DefaultTitle]

Replies == {PageReply(c, t) : c \in Clients, t \in Titles \union {DefaultTitle}}
             \union {TooMany(c) : c \in Clients}

P == INSTANCE ProxyRotatingPoller WITH MaxFaults <- 0

feedVars == <<fpc, nextNewsID, lastNewsTitle, pending, banned, newsChan,
              firstID, delivered>>
pollerVars == <<pc, running, ctxDone, working, idleGroups, tracked, worker, url,
                requestURL, writer, newURL, response, responses, faults, late>>
vars == <<pollerVars, feedVars, published>>

Page(id) == IF id \in 1..published THEN TitleOf[id] ELSE DefaultTitle

Init == /\ url = 0 /\ P!Init /\ working
        /\ published \in 1..MaxID
        /\ fpc = "listing"
        /\ nextNewsID = 0 /\ lastNewsTitle = DefaultTitle /\ pending = DefaultTitle
        /\ banned = [c \in Clients |-> "no"]
        /\ newsChan = <<>>
        /\ firstID = 0 /\ delivered = <<>>

-----------------------------------------------------------------------------
(* The constructor: initLatestNewsTitleAndNextNewsID and initPoller. *)

\* The list of notices, sorted by number: its last one may be behind what is
\* published.
ListNotices == /\ fpc = "listing"
               /\ \E n \in 1..published : /\ lastNewsTitle' = TitleOf[n]
                                          /\ nextNewsID' = n + 1
               /\ fpc' = "probing"
               /\ UNCHANGED <<pollerVars, published, pending, banned, newsChan,
                              firstID, delivered>>

\* A page that exists: try the next one.
ProbeExisting == /\ fpc = "probing"
                 /\ Page(nextNewsID) # DefaultTitle
                 /\ lastNewsTitle' = Page(nextNewsID)
                 /\ nextNewsID' = nextNewsID + 1
                 /\ UNCHANGED <<pollerVars, published, fpc, pending, banned, newsChan,
                                firstID, delivered>>

\* The first page that does not exist; the poller is built with its URL, and
\* StreamNewNoticeTitles starts it.
ProbeMissing == /\ fpc = "probing"
                /\ Page(nextNewsID) = DefaultTitle
                /\ fpc' = "built"
                /\ url' = nextNewsID
                /\ UNCHANGED <<pc, running, ctxDone, working, idleGroups, tracked, faults,
                               late, worker, requestURL, writer, newURL, response,
                               responses, published, nextNewsID, lastNewsTitle, pending, banned,
                               newsChan, firstID, delivered>>

\* Any error of the list or of a page makes the constructor fail.
InitFails == /\ fpc \in {"listing", "probing"}
             /\ Failures # {}
             /\ fpc' = "failed"
             /\ UNCHANGED <<pollerVars, published, nextNewsID, lastNewsTitle, pending,
                            banned, newsChan, firstID, delivered>>

Stream == /\ fpc = "built"
          /\ P!StartPolling
          /\ firstID' = nextNewsID
          /\ fpc' = "receive"
          /\ UNCHANGED <<published, nextNewsID, lastNewsTitle, pending, banned,
                         newsChan, delivered>>

-----------------------------------------------------------------------------
(* populateWithNewNews: one response at a time. *)

\* Mutant: the title just delivered is not skipped.
AnyTitle(title) == title # DefaultTitle

\* updateAndNotify goes on with this title.
IsNews(title) == title # DefaultTitle /\ title # lastNewsTitle

\* Mutant: the poller stays on the page.
SamePage(id) == id

\* f.nextNewsID += 1
FollowingPage(id) == id + 1

\* A response that is no news: it failed, its page does not exist or shows
\* the title delivered last.
ReceiveNoNews == /\ fpc = "receive"
                 /\ responses # <<>>
                 /\ Head(responses).kind # "tooMany"
                 /\ ~IsNews(Head(responses).title)
                 /\ P!Receive
                 /\ UNCHANGED <<published, feedVars>>

\* A 429: the first one of a proxy is reported, one within the hour is not,
\* and one after the hour only clears the mark.
ReceiveTooMany ==
    /\ fpc = "receive"
    /\ responses # <<>>
    /\ Head(responses).kind = "tooMany"
    /\ P!Receive
    /\ banned' = [banned EXCEPT ![Head(responses).proxy] =
                    IF @ = "old" THEN "no" ELSE "recent"]
    /\ UNCHANGED <<published, fpc, nextNewsID, lastNewsTitle, pending, newsChan,
                   firstID, delivered>>

\* News: under newsGuard the fetcher moves on before it sends.
ReceiveNews == LET title == Head(responses).title IN
    /\ fpc = "receive"
    /\ responses # <<>>
    /\ Head(responses).kind # "tooMany"
    /\ IsNews(title)
    /\ P!Receive
    /\ nextNewsID' = FollowingPage(nextNewsID)
    /\ lastNewsTitle' = title
    /\ pending' = title
    /\ fpc' = "send"
    /\ UNCHANGED <<published, banned, newsChan, firstID, delivered>>

\* A send on newsChan does not block.
NewsChanHasRoom == Len(newsChan) < NewsChanSize

\* newsChan <- title
SendNews == /\ fpc = "send"
            /\ NewsChanHasRoom
            /\ newsChan' = Append(newsChan, pending)
            /\ fpc' = "setURL"
            /\ UNCHANGED <<pollerVars, published, nextNewsID, lastNewsTitle, pending,
                           banned, firstID, delivered>>

\* f.poller.SetURL of the next page, from the call to the return.
CallSetURL == /\ fpc = "setURL"
              /\ P!SetURLCall(nextNewsID)
              /\ fpc' = "inSetURL"
              /\ UNCHANGED <<published, nextNewsID, lastNewsTitle, pending, banned,
                             newsChan, firstID, delivered>>

SetURLDone == /\ fpc = "inSetURL"
              /\ P!SetURLReturn
              /\ fpc' = "receive"
              /\ UNCHANGED <<published, nextNewsID, lastNewsTitle, pending, banned,
                             newsChan, firstID, delivered>>

FetcherStep == \/ ListNotices \/ ProbeExisting \/ ProbeMissing \/ Stream
               \/ ReceiveNoNews \/ ReceiveTooMany \/ ReceiveNews
               \/ SendNews \/ CallSetURL \/ SetURLDone

-----------------------------------------------------------------------------
(* The poller, the reader of the news and the web site. *)

PollerStep == \/ P!LoopStep
              \/ \E c \in Clients : P!WorkerStep(c)
              \/ \E g \in Groups : P!ReleaseGroup(g)

\* The page is read from the web site some time during the request.
Answered(c) == P!RequestDone(c, PageReply(c, Page(requestURL[c])))

Failed(c) == \/ "empty" \in Failures /\ (P!RequestDone(c, Empty) \/ P!RequestDropped(c))
             \/ "tooMany" \in Failures /\ P!RequestDone(c, TooMany(c))

TakeNews == /\ newsChan # <<>>
            /\ newsChan' = Tail(newsChan)
            /\ delivered' = Append(delivered, Head(newsChan))
            /\ UNCHANGED <<pollerVars, published, fpc, nextNewsID, lastNewsTitle,
                           pending, banned, firstID>>

Publish == /\ published < MaxID
           /\ published' = published + 1
           /\ UNCHANGED <<pollerVars, feedVars>>

\* An hour has passed since a proxy was banned.
HourPasses(c) == /\ banned[c] = "recent"
                 /\ banned' = [banned EXCEPT ![c] = "old"]
                 /\ UNCHANGED <<pollerVars, published, fpc, nextNewsID, lastNewsTitle,
                                pending, newsChan, firstID, delivered>>

Next == \/ FetcherStep
        \/ InitFails
        \/ PollerStep /\ UNCHANGED <<published, feedVars>>
        \/ \E c \in Clients : (Answered(c) \/ Failed(c)) /\ UNCHANGED <<published, feedVars>>
        \/ TakeNews
        \/ Publish
        \/ \E c \in Clients : HourPasses(c)

Spec == Init /\ [][Next]_vars

-----------------------------------------------------------------------------
\* The types of the fetcher's variables.
TypeOK ==
    /\ published \in 1..MaxID
    /\ fpc \in {"listing", "probing", "built", "failed", "receive", "send", "setURL",
                "inSetURL"}
    /\ nextNewsID \in URLs /\ firstID \in URLs
    /\ lastNewsTitle \in Titles \union {DefaultTitle}
    /\ pending \in Titles \union {DefaultTitle}
    /\ banned \in [Clients -> {"no", "recent", "old"}]
    /\ newsChan \in Seq(Titles) /\ Len(newsChan) <= NewsChanSize
    /\ delivered \in Seq(Titles)

\* The titles delivered or on their way to the reader.
Sent == delivered \o newsChan \o (IF fpc = "send" THEN <<pending>> ELSE <<>>)

\* However many clients poll and in whatever order their responses arrive, no
\* notice is handed on twice in a row and each one handed on moves the poller
\* exactly one page on.
NoRepeatInARow ==
    /\ firstID > 0 => Len(Sent) = nextNewsID - firstID
    /\ \A i \in 1..(Len(Sent) - 1) : Sent[i] # Sent[i + 1]

\* When the fetcher is back in its loop after a title, no request for an old
\* page is on the wire any more, whichever proxies were polling it: only
\* responses already received can still be late.
RequestsFollowNews ==
    fpc = "receive" => \A c \in Clients :
                          worker[c] = "requesting" => requestURL[c] = nextNewsID

\* A single client polls: the fetcher delivers the notices published since it
\* started in order, each once (the feed its name promises).
Feed == INSTANCE NoticeFeed
ImplementsFeed == Feed!Spec

\* README.md:36: "Thread-safe news detection with mutex locks": with several
\* proxies the titles handed on are those of the notices from the first on,
\* none twice and none left out.
NoDuplicatesNoGaps ==
    \A i \in 1..Len(Sent) : Sent[i] = Page(firstID + i - 1)
=============================================================================
