------------------------ MODULE AnnouncementFetchers ------------------------
(***************************************************************************)
(* AnnouncementByIDFetcher and AnnouncementsFetcher of internal/core, the  *)
(* two fetchers on the JSON interface, on top of the poller.  The first    *)
(* polls the announcement of one number after the other, the second the    *)
(* list, of which it asks for the newest entry only.  Their loops are that *)
(* of NoticeByIDFetcher, whose actions are used here, except that          *)
(*   - a 429 ends the loop and closes the channel of news, and nobody      *)
(*     receives the poller's responses any more;                           *)
(*   - the number comes from the announcement, not from counting.          *)
(* In one behaviour one of the fetchers runs, kind says which; that of     *)
(* NoticeByIDFetcher is the third, for the properties they share.          *)
(***************************************************************************)
EXTENDS NoticeByIDFetcher

VARIABLES kind,  \* "byID", "list" or "notice"
          sent   \* history: numbers of the announcements handed on

allVars == <<vars, kind, sent>>

\* An answer with an announcement; the others are those of NoticeByIDFetcher,
\* an unsuccessful or unreadable one being a page without a title.
Announcement(c, id) == [kind |-> "page", proxy |-> c, title |-> TitleOf[id], id |-> id]
Unsuccessful(c) == [kind |-> "page", proxy |-> c, title |-> DefaultTitle, id |-> 0]

AInit == Init /\ kind \in {"byID", "list", "notice"} /\ sent = {}

-----------------------------------------------------------------------------
(* The constructors and the start of the stream. *)

\* initLatestNewsTitleAndNextNewsID: the announcement with the highest number
\* of the list, which may be behind.
ByIDList == kind = "byID" /\ ListNotices

\* Success: the next number is tried, after a tick of the timer.
ByIDProbe == kind = "byID" /\ ProbeExisting

\* ErrorCode -1, "no more announcements": the poller is built on that number.
ByIDNoMore == kind = "byID" /\ ProbeMissing

\* StreamNewAnnouncementTitles; its SetURL sets the URL the poller has.
ByIDStream == kind = "byID" /\ url = nextNewsID /\ Stream

\* initLatestNotice and initPoller: the newest announcement, and the URL of
\* the list, 0 here.  nextNewsID follows lastNotice.ID.
ListInit == /\ kind = "list" /\ fpc = "listing"
            /\ lastNewsTitle' = TitleOf[published]
            /\ nextNewsID' = published + 1
            /\ fpc' = "built"
            /\ UNCHANGED <<pollerVars, published, pending, banned, newsChan,
                           firstID, delivered>>

\* StreamNewNewsTitles.
ListStream == kind = "list" /\ Stream

Construct == /\ \/ ByIDList \/ ByIDProbe \/ ByIDNoMore \/ ByIDStream
                \/ ListInit \/ ListStream
             /\ UNCHANGED sent

-----------------------------------------------------------------------------
(* The loops: populateWithNewNews and populateWithNewAnnouncements. *)

\* Mutant: a 429 leaves the select and not the loop.
BreakOnly == fpc \in {"receive", "ended"}

\* The goroutine is in its loop.
InLoop == fpc = "receive"

\* A 429 ends either loop: the goroutine returns and closes newsChan.
Receive429 == /\ InLoop
              /\ responses # <<>> /\ Head(responses).kind = "tooMany"
              /\ P!Receive
              /\ fpc' = "ended"
              /\ UNCHANGED <<published, nextNewsID, lastNewsTitle, pending, banned,
                             newsChan, firstID, delivered, sent>>

\* Any other status, an unsuccessful or unreadable answer, the title of last
\* time.
ReceiveOld == /\ InLoop
              /\ responses # <<>> /\ Head(responses).kind # "tooMany"
              /\ ~IsNews(Head(responses).title)
              /\ P!Receive
              /\ UNCHANGED <<published, feedVars, sent>>

\* Mutant: counts on from the number before, as NoticeByIDFetcher does.
CountOn(id) == nextNewsID + 1

\* Mutant: the fetcher stays where it is.
StayOn(id) == nextNewsID

\* announcement.Data.ID + 1
NextAfter(id) == id + 1

\* Both updateAndNotify, up to the send: a new title.
ReceiveNew(k) == LET answer == Head(responses) IN
    /\ kind = k
    /\ InLoop
    /\ responses # <<>> /\ answer.kind # "tooMany"
    /\ IsNews(answer.title)
    /\ P!Receive
    /\ nextNewsID' = NextAfter(answer.id)
    /\ lastNewsTitle' = answer.title
    /\ pending' = answer.title
    /\ fpc' = "send"
    /\ sent' = sent \union {answer.id}
    /\ UNCHANGED <<published, banned, newsChan, firstID, delivered>>

ByIDReceiveNew == ReceiveNew("byID")
ListReceiveNew == ReceiveNew("list")

\* newsChan <- title, and for the list fetcher that is all.
ByIDSend == kind = "byID" /\ SendNews /\ UNCHANGED sent

ListSend == /\ kind = "list" /\ fpc = "send"
            /\ NewsChanHasRoom
            /\ newsChan' = Append(newsChan, pending)
            /\ fpc' = "receive"
            /\ UNCHANGED <<pollerVars, published, nextNewsID, lastNewsTitle, pending,
                           banned, firstID, delivered, sent>>

\* f.poller.SetURL of the number after the announcement.
ByIDSetURL == /\ kind = "byID"
              /\ CallSetURL \/ SetURLDone
              /\ UNCHANGED sent

Loops == \/ Receive429 \/ ReceiveOld \/ ByIDReceiveNew \/ ListReceiveNew
         \/ ByIDSend \/ ListSend \/ ByIDSetURL

FetcherRuns == \/ kind # "notice" /\ (Construct \/ Loops)
               \/ kind = "notice" /\ FetcherStep /\ UNCHANGED sent

-----------------------------------------------------------------------------
(* The web site, the reader of the news and the poller. *)

\* The server's answer to the request of client c.
Answer(c) == CASE kind = "list" -> Announcement(c, published)
               [] kind = "notice" -> PageReply(c, Page(requestURL[c]))
               [] requestURL[c] \in 1..published -> Announcement(c, requestURL[c])
               [] OTHER -> Unsuccessful(c)

ServerAnswers(c) == P!RequestDone(c, Answer(c))

\* The reader; what the list fetcher delivers is not recorded.
TakesNews == IF kind # "list" THEN TakeNews
             ELSE /\ newsChan # <<>>
                  /\ newsChan' = Tail(newsChan)
                  /\ UNCHANGED <<pollerVars, published, fpc, nextNewsID, lastNewsTitle,
                                 pending, banned, firstID, delivered>>

\* The poller with its clients and the server; how a request fails is
\* independent of the fetcher.
PollerRuns == /\ PollerStep \/ \E c \in Clients : ServerAnswers(c)
              /\ UNCHANGED <<published, feedVars, sent>>

RequestFails == /\ \E c \in Clients : Failed(c)
                /\ UNCHANGED <<published, feedVars, sent>>

Elsewhere == /\ \/ InitFails \/ TakesNews \/ Publish
                \/ kind = "notice" /\ \E c \in Clients : HourPasses(c)
             /\ UNCHANGED sent

ANext == (FetcherRuns \/ PollerRuns \/ RequestFails \/ Elsewhere) /\ UNCHANGED kind

ASpec == AInit /\ [][ANext]_allVars

\* The poller with its clients makes progress, the fetcher and its reader run,
\* and a client does not fail forever.  Go's scheduler is fairer and serves each
\* goroutine; with one group, whose poll has an end, this is enough.
AFairness ==
    /\ WF_allVars(PollerRuns /\ UNCHANGED kind)
    /\ WF_allVars(FetcherRuns /\ UNCHANGED kind)
    /\ WF_allVars(TakesNews /\ UNCHANGED <<sent, kind>>)
    /\ \A c \in Clients :
          SF_allVars(ServerAnswers(c) /\ UNCHANGED <<published, feedVars, sent, kind>>)

AFairSpec == ASpec /\ AFairness

-----------------------------------------------------------------------------
\* The types of the variables the fetchers use.
ATypeOK ==
    /\ kind \in {"byID", "list", "notice"}
    /\ fpc = "ended" => kind # "notice"
    /\ fpc # "ended" => TypeOK
    /\ kind # "notice" => nextNewsID <= MaxID + 1
    /\ sent \subseteq 1..MaxID

\* The by-ID fetcher leaves no announcement out, whatever order the answers of
\* its proxies come in: a late answer takes it back to a number it had, never
\* past one it did not have.
NothingSkipped == kind = "byID" /\ firstID > 0 => firstID..(nextNewsID - 1) \subseteq sent

\* However often late answers take it back, a fetcher on the JSON interface
\* that gets no 429 comes to the newest announcement and stays there.
SettlesOnNewest ==
    <>[](kind = "notice" \/ fpc \in {"failed", "ended"} \/ lastNewsTitle = TitleOf[published])

\* After a 429 nobody receives: the poller goes on only until its channel is
\* full and every client is stuck, so no request is made any more.
EndedComesToRest ==
    fpc = "ended" ~> [](\A c \in Clients : worker[c] # "requesting")

\* README.md:3: the service "continuously monitors" and "detects new" notices:
\* with one proxy every notice published after the start is delivered by the
\* fetchers that ask for one number after the other, 429s apart.
EveryNoticeDelivered ==
    \A id \in 2..MaxID :
        (kind # "list" /\ firstID > 0 /\ firstID <= id /\ id <= published)
            ~> (fpc = "ended" \/ Len(delivered) >= id - firstID + 1)

\* What NoticeByIDFetcher promises with several proxies: NoRepeatInARow.
NoticesMoveOnce == kind = "notice" => NoRepeatInARow

\* Both by-ID fetchers, back in their loop after a title: no request for an
\* old page is on the wire.
FetcherIsFollowed == kind # "list" => RequestsFollowNews

\* Fetcher and poller keep step: each notice moves the poller one page on, and
\* its requests with it, however late the answers of its proxies are.
FetcherInStep == ATypeOK /\ NoticesMoveOnce /\ FetcherIsFollowed

\* What the user of a poller relies on, with the fetchers as its users: once
\* SetURL has returned no request to another URL is on the wire.
NoStaleRequest == P!NoStaleRequest

\* A group whose clients finish one after the other is back in the pool when the
\* last of them has, and not before: also while SetURL holds one of them up, or
\* the channel of responses another.
GroupsComeBackWhole ==
    /\ IsInjective(idleGroups)
    /\ \A g \in Groups : g \in Range(idleGroups)
                           <=> \A c \in MembersOf[g] : worker[c] = "idle"
=============================================================================
