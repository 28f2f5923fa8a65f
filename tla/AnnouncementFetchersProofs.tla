--------------------- MODULE AnnouncementFetchersProofs ---------------------
(***************************************************************************)
(* Proofs about AnnouncementFetchers, and with it NoticeByIDFetcher, for   *)
(* every number of proxies in groups of any size, every number of notices  *)
(* and titles, and every way in which requests may fail: the fetchers keep *)
(* step with their poller, and the by-ID one leaves no announcement out.   *)
(***************************************************************************)
EXTENDS AnnouncementFetchers, QueueLemmas

\* Where the goroutine of a client may be, and what it may have been answered.
WorkerStates == {"idle", "spawned", "requesting", "sending", "done"}
Answers == Replies \union {Empty}
             \union {Announcement(c, id) : c \in Clients, id \in 1..MaxID}
             \union {Unsuccessful(c) : c \in Clients}

Titled == Titles \union {DefaultTitle}

\* The types of the fetchers' variables, for every kind and in every state.
FeedTypes ==
    /\ kind \in {"byID", "list", "notice"}
    /\ published \in 1..MaxID
    /\ fpc \in {"listing", "probing", "built", "failed", "receive", "send", "setURL",
                "inSetURL", "ended"}
    /\ fpc = "ended" => kind # "notice"
    /\ nextNewsID \in Nat /\ firstID \in Nat
    /\ kind # "notice" => nextNewsID <= MaxID + 1
    /\ lastNewsTitle \in Titled
    /\ pending \in Titled /\ (fpc = "send" => pending \in Titles)
    /\ banned \in [Clients -> {"no", "recent", "old"}]
    /\ newsChan \in Seq(Titles) /\ Len(newsChan) <= NewsChanSize
    /\ delivered \in Seq(Titles)
    /\ sent \subseteq 1..MaxID

\* The types of the variables they share with the poller.
WireTypes ==
    /\ worker \in [Clients -> WorkerStates]
    /\ requestURL \in [Clients -> Nat]
    /\ url \in Nat /\ newURL \in Nat
    /\ response \in [Clients -> Answers]
    /\ responses \in Seq(Answers)

\* Nothing polls before the stream has started.
NotStarted == fpc \in {"listing", "probing", "built", "failed"}
QuietBefore ==
    NotStarted => /\ pc = "off"
                  /\ worker = [c \in Clients |-> "idle"]
                  /\ response = [c \in Clients |-> Empty]
                  /\ responses = <<>>
                  /\ firstID = 0 /\ newsChan = <<>> /\ delivered = <<>>

\* What a step of the poller, of its clients or of the server may change.
WireStep ==
    /\ UNCHANGED <<published, feedVars, sent, kind, url, writer, newURL>>
    /\ pc = "off" => pc' = "off"
    /\ worker' \in [Clients -> WorkerStates]
    /\ requestURL' \in [Clients -> Nat]
    /\ \A c \in Clients : worker'[c] = "requesting" =>
          requestURL'[c] = IF worker[c] = "requesting" THEN requestURL[c] ELSE url
    /\ response' \in [Clients -> Answers]
    /\ \A c \in Clients :
          \/ response'[c] \in {response[c], Empty, TooMany(c)}
          \/ worker[c] = "requesting" /\ response'[c] = Answer(c)
    /\ \/ responses' = responses
       \/ \E c \in Clients : worker[c] = "sending" /\ responses' = Append(responses, response[c])
    /\ pc = "off" /\ worker = [c \in Clients |-> "idle"] =>
          /\ worker' = worker /\ response' = response /\ responses' = responses

LEMMA AnswerType ==
  ASSUME FeedTypes, WireTypes, NEW c \in Clients
  PROVE  Answer(c) \in Answers
<1>1. \A id : Page(id) \in Titled
  BY TitleAssumption DEF FeedTypes, Page, Titled
<1>2. PageReply(c, Page(requestURL[c])) \in Answers
  BY <1>1 DEF Answers, Replies, Titled
<1>3. \A id \in 1..published : Announcement(c, id) \in Answers
  <2>1. \A id \in 1..published : id \in 1..MaxID
    BY TitleAssumption DEF FeedTypes
  <2> QED
    BY <2>1 DEF Answers
<1>4. Unsuccessful(c) \in Answers
  BY DEF Answers
<1> HIDE DEF Answers
<1>5. published \in 1..published
  BY TitleAssumption DEF FeedTypes
<1> QED
  BY <1>2, <1>3, <1>4, <1>5 DEF Answer

\* A request ends with an answer r.
LEMMA DoneIsWireStep ==
  ASSUME FeedTypes, WireTypes, NEW c \in Clients, NEW r \in Answers,
         r \in {Empty, TooMany(c), Answer(c)}, P!RequestDone(c, r),
         UNCHANGED <<published, feedVars, sent, kind>>
  PROVE  WireStep
<1>1. /\ worker[c] = "requesting"
      /\ worker' = [worker EXCEPT ![c] = "sending"]
      /\ response' = [response EXCEPT ![c] = r]
      /\ UNCHANGED <<pc, url, writer, newURL, requestURL, responses>>
  BY DEF P!RequestDone, P!loopVars, P!urlVars
<1>2. \A d \in Clients : d # c => worker'[d] = worker[d] /\ response'[d] = response[d]
  BY <1>1 DEF WireTypes
<1>3. worker'[c] = "sending" /\ response'[c] = r
  BY <1>1 DEF WireTypes
<1>4. worker' \in [Clients -> WorkerStates] /\ response' \in [Clients -> Answers]
  BY <1>1 DEF WireTypes, WorkerStates
<1>5. worker # [d \in Clients |-> "idle"]
  BY <1>1
<1> HIDE DEF Answers
<1> QED
  BY <1>1, <1>2, <1>3, <1>4, <1>5 DEF WireStep, WireTypes
\* Every step of the poller, its clients and the server is of that shape.
LEMMA PollerIsWireStep ==
  ASSUME FeedTypes, WireTypes, PollerRuns \/ RequestFails, UNCHANGED kind
  PROVE  WireStep
<1>0. UNCHANGED <<published, feedVars, sent>>
  BY DEF PollerRuns, RequestFails
<1> DEFINE AllIdle == worker = [c \in Clients |-> "idle"]
<1>1. CASE P!LoopStep
  <2>1. /\ UNCHANGED <<url, writer, newURL, requestURL, response, responses>>
        /\ pc # "off"
        /\ \/ worker' = worker
           \/ \E g \in {Head(idleGroups)} :
                 worker' = [c \in Clients |-> IF c \in MembersOf[g] THEN "spawned"
                                                                    ELSE worker[c]]
    BY <1>1 DEF P!LoopStep, P!Begin, P!CheckWork, P!WakeUp, P!Select, P!Drain, P!Acquire,
                P!Pace, P!urlVars, P!workerVars
  <2>2. worker' \in [Clients -> WorkerStates]
    BY <2>1 DEF WireTypes, WorkerStates
  <2>3. \A c \in Clients : worker'[c] = "requesting" => worker[c] = "requesting"
    BY <2>1 DEF WireTypes
  <2> QED
    BY <1>0, <2>1, <2>2, <2>3 DEF WireStep, WireTypes
<1>2. ASSUME NEW c \in Clients, P!SendRequest(c) PROVE WireStep
  <2>1. /\ worker[c] = "spawned"
        /\ worker' = [worker EXCEPT ![c] = "requesting"]
        /\ requestURL' = [requestURL EXCEPT ![c] = url]
        /\ UNCHANGED <<pc, url, writer, newURL, response, responses>>
    BY <1>2 DEF P!SendRequest, P!loopVars, P!urlVars
  <2>2. worker' \in [Clients -> WorkerStates] /\ requestURL' \in [Clients -> Nat]
    BY <2>1 DEF WireTypes, WorkerStates
  <2>3. \A d \in Clients : worker'[d] = "requesting" =>
           requestURL'[d] = IF worker[d] = "requesting" THEN requestURL[d] ELSE url
    BY <2>1 DEF WireTypes
  <2>4. ~AllIdle
    BY <2>1
  <2> QED
    BY <1>0, <2>1, <2>2, <2>3, <2>4 DEF WireStep, WireTypes
<1>3. ASSUME NEW c \in Clients, P!SendResponse(c) PROVE WireStep
  <2>1. /\ worker[c] = "sending"
        /\ worker' = [worker EXCEPT ![c] = "done"]
        /\ response' = [response EXCEPT ![c] = Empty]
        /\ responses' = Append(responses, response[c])
        /\ UNCHANGED <<pc, url, writer, newURL, requestURL>>
    BY <1>3 DEF P!SendResponse, P!loopVars, P!urlVars
  <2>2. worker' \in [Clients -> WorkerStates] /\ response' \in [Clients -> Answers]
    <3>1. Empty \in Answers
      BY DEF Answers
    <3> QED
      BY <2>1, <3>1 DEF WireTypes, WorkerStates
  <2>3. \A d \in Clients : worker'[d] = "requesting" => worker[d] = "requesting"
    BY <2>1 DEF WireTypes
  <2>4. \A d \in Clients : response'[d] \in {response[d], Empty}
    BY <2>1 DEF WireTypes
  <2>5. ~AllIdle
    BY <2>1
  <2> QED
    BY <1>0, <2>1, <2>2, <2>3, <2>4, <2>5 DEF WireStep, WireTypes
<1>4. ASSUME NEW g \in Groups, P!ReleaseGroup(g) PROVE WireStep
  <2>1. /\ worker' = [c \in Clients |-> IF c \in MembersOf[g] /\ worker[c] = "done"
                                        THEN "idle" ELSE worker[c]]
        /\ UNCHANGED <<pc, url, writer, newURL, requestURL, response, responses>>
    BY <1>4 DEF P!ReleaseGroup, P!urlVars
  <2>2. worker' \in [Clients -> WorkerStates]
    BY <2>1 DEF WireTypes, WorkerStates
  <2>3. \A c \in Clients : worker'[c] = "requesting" => worker[c] = "requesting"
    BY <2>1 DEF WireTypes
  <2>4. AllIdle => worker' = worker
    BY <2>1 DEF WireTypes
  <2> QED
    BY <1>0, <2>1, <2>2, <2>3, <2>4 DEF WireStep, WireTypes
<1>5. ASSUME NEW c \in Clients, ServerAnswers(c) PROVE WireStep
  <2>1. P!RequestDone(c, Answer(c)) /\ Answer(c) \in Answers
    BY <1>5, AnswerType DEF ServerAnswers
  <2> HIDE DEF Answers
  <2> QED
    BY <1>0, <2>1, DoneIsWireStep
<1>6. ASSUME NEW c \in Clients, Failed(c) PROVE WireStep
  <2>1. Empty \in Answers /\ TooMany(c) \in Answers
    BY DEF Answers, Replies
  <2>2. CASE P!RequestDropped(c)
    <3>1. /\ worker[c] = "requesting"
          /\ worker' = [worker EXCEPT ![c] = "done"]
          /\ UNCHANGED <<pc, url, writer, newURL, requestURL, response, responses>>
      BY <2>2 DEF P!RequestDropped, P!loopVars, P!urlVars
    <3>2. worker' \in [Clients -> WorkerStates] /\ ~AllIdle
      BY <3>1 DEF WireTypes, WorkerStates
    <3>3. \A d \in Clients : worker'[d] = "requesting" => worker[d] = "requesting"
      BY <3>1 DEF WireTypes
    <3> QED
      BY <1>0, <3>1, <3>2, <3>3 DEF WireStep, WireTypes
  <2> HIDE DEF Answers
  <2>3. CASE P!RequestDone(c, Empty) \/ P!RequestDone(c, TooMany(c))
    BY <1>0, <2>1, <2>3, DoneIsWireStep
  <2> QED
    BY <1>6, <2>2, <2>3 DEF Failed
<1> QED
  BY <1>1, <1>2, <1>3, <1>4, <1>5, <1>6
     DEF PollerRuns, RequestFails, PollerStep, P!WorkerStep
-----------------------------------------------------------------------------
(* The invariant. *)

\* Requests go to the URL of the poller, which is the page the fetchers that ask
\* for one number after the other are at, except while they move on.
UrlInv ==
    /\ NoStaleRequest
    /\ kind # "list" /\ fpc \in {"built", "receive"} => url = nextNewsID
    /\ fpc = "inSetURL" => newURL = nextNewsID

\* All announcements from the first to the one before this have been sent.
Reached(id) == firstID..(id - 1) \subseteq sent

\* What holds of an answer, however late it is received: an announcement was
\* published, and the by-ID fetcher asked for it when it had got there.
Good(answer) ==
    kind # "notice" /\ answer.title # DefaultTitle =>
        /\ answer.id \in 1..published
        /\ kind = "byID" => Reached(answer.id)

ReachInv ==
    /\ kind = "byID" /\ ~NotStarted => Reached(nextNewsID) /\ Reached(url)
    /\ \A c \in Clients : Good(response[c])
    /\ \A i \in DOMAIN responses : Good(responses[i])

\* The last title handed on is the one NoticeByIDFetcher remembers.
TitleInv ==
    kind = "notice" =>
        /\ ~NotStarted => Len(Sent) = nextNewsID - firstID
        /\ \A i \in 1..(Len(Sent) - 1) : Sent[i] # Sent[i + 1]
        /\ Sent # <<>> => Sent[Len(Sent)] = lastNewsTitle
        /\ fpc = "send" => pending = lastNewsTitle

FetcherInv == FeedTypes /\ WireTypes /\ QuietBefore /\ UrlInv /\ ReachInv /\ TitleInv
\* No title is handed on and nothing is asked before the stream has started.
LEMMA BeforeStart ==
  ASSUME FeedTypes, WireTypes, QuietBefore, NotStarted
  PROVE  /\ Sent = <<>>
         /\ \A c \in Clients : worker[c] = "idle" /\ response[c] = Empty
         /\ responses = <<>> /\ firstID = 0
<1>1. <<>> \o <<>> = <<>>
  OBVIOUS
<1> QED
  BY <1>1 DEF QuietBefore, NotStarted, Sent

\* Answers stay good as long as the site and the fetcher only move on.
LEMMA GoodStays ==
  ASSUME FeedTypes, published' \in Nat, published <= published', sent \subseteq sent',
         UNCHANGED <<firstID, kind>>
  PROVE  \A answer : Good(answer) =>
            (kind' # "notice" /\ answer.title # DefaultTitle =>
                /\ answer.id \in 1..published'
                /\ kind' = "byID" => firstID'..(answer.id - 1) \subseteq sent')
BY TitleAssumption DEF FeedTypes, Good, Reached

LEMMA EmptyIsGood == Empty.title = DefaultTitle /\ \A c : TooMany(c).title = DefaultTitle
BY DEF Empty, TooMany

LEMMA InitFetcher == AInit => FetcherInv
<1> SUFFICES ASSUME AInit PROVE FetcherInv
  OBVIOUS
<1>0. Init /\ P!Init /\ kind \in {"byID", "list", "notice"} /\ sent = {}
  BY DEF AInit, Init
<1>1. FeedTypes
  BY <1>0, TitleAssumption, NewsChanAssumption DEF Init, FeedTypes, Titled
<1>2. WireTypes
  <2>1. Empty \in Answers
    BY DEF Answers
  <2> HIDE DEF Answers
  <2> QED
    BY <1>0, <2>1 DEF P!Init, WireTypes, WorkerStates, URLs
<1>3. QuietBefore
  BY <1>0 DEF Init, P!Init, QuietBefore
<1>4. NotStarted
  BY <1>0 DEF Init, NotStarted
<1>5. UrlInv
  BY <1>0 DEF Init, P!Init, UrlInv, NoStaleRequest, P!NoStaleRequest
<1>6. ReachInv
  BY <1>1, <1>2, <1>3, <1>4, BeforeStart, EmptyIsGood DEF ReachInv, Good
<1>7. TitleInv
  BY <1>0, <1>1, <1>2, <1>3, <1>4, BeforeStart DEF TitleInv, Init
<1> QED
  BY <1>1, <1>2, <1>3, <1>5, <1>6, <1>7 DEF FetcherInv

-----------------------------------------------------------------------------
(* The steps. *)

\* The poller, its clients and the server.
LEMMA WireKeeps == FetcherInv /\ WireStep => FetcherInv'
<1> SUFFICES ASSUME FetcherInv, WireStep PROVE FetcherInv'
  OBVIOUS
<1>0. FeedTypes /\ WireTypes /\ QuietBefore /\ UrlInv /\ ReachInv /\ TitleInv
  BY DEF FetcherInv
<1>1. UNCHANGED <<published, fpc, nextNewsID, lastNewsTitle, pending, banned, newsChan,
                  firstID, delivered, sent, kind, url, writer, newURL>>
  BY DEF WireStep, feedVars
<1>2. FeedTypes'
  BY <1>0, <1>1 DEF FeedTypes
<1>3. WireTypes'
  <2>1. responses' \in Seq(Answers)
    <3>1. ASSUME NEW c \in Clients PROVE Append(responses, response[c]) \in Seq(Answers)
      BY <1>0, AppendProperties DEF WireTypes
    <3> QED
      BY <1>0, <3>1 DEF WireStep, WireTypes
  <2> QED
    BY <1>0, <1>1, <2>1 DEF WireStep, WireTypes
<1>4. QuietBefore'
  BY <1>0, <1>1 DEF WireStep, QuietBefore, NotStarted
<1>5. UrlInv'
  <2>1. NoStaleRequest'
    BY <1>0, <1>1 DEF WireStep, UrlInv, NoStaleRequest, P!NoStaleRequest
  <2> QED
    BY <1>0, <1>1, <2>1 DEF UrlInv
<1>6. ReachInv'
  <2>1. ASSUME NEW c \in Clients PROVE Good(response'[c])
    <3>1. CASE response'[c] = response[c]
      BY <1>0, <3>1 DEF ReachInv
    <3>2. CASE response'[c] \in {Empty, TooMany(c)}
      BY <3>2, EmptyIsGood DEF Good
    <3>3. CASE worker[c] = "requesting" /\ response'[c] = Answer(c)
      <4>1. CASE kind = "notice"
        BY <4>1 DEF Good
      <4>2. CASE kind = "list"
        BY <1>0, <3>3, <4>2, TitleAssumption DEF Good, Answer, Announcement, FeedTypes
      <4>3. CASE kind = "byID"
        <5>1. requestURL[c] = url /\ ~NotStarted
          BY <1>0, <3>3, BeforeStart DEF UrlInv, NoStaleRequest, P!NoStaleRequest
        <5>2. Reached(requestURL[c])
          BY <1>0, <4>3, <5>1 DEF ReachInv
        <5>3. CASE requestURL[c] \in 1..published
          <6>1. Answer(c) = Announcement(c, requestURL[c])
            BY <4>3, <5>3 DEF Answer
          <6> QED
            BY <3>3, <5>2, <5>3, <6>1 DEF Good, Announcement
        <5>4. CASE requestURL[c] \notin 1..published
          BY <3>3, <4>3, <5>4 DEF Good, Answer, Unsuccessful
        <5> QED
          BY <5>3, <5>4
      <4> QED
        BY <1>0, <4>1, <4>2, <4>3 DEF FeedTypes
    <3> QED
      BY <3>1, <3>2, <3>3 DEF WireStep
  <2>2. ASSUME NEW i \in DOMAIN responses' PROVE Good(responses'[i])
    <3>1. CASE responses' = responses
      BY <1>0, <3>1 DEF ReachInv
    <3>2. ASSUME NEW c \in Clients, responses' = Append(responses, response[c])
          PROVE  Good(responses'[i])
      <4>1. responses \in Seq(Answers) /\ response[c] \in Answers
        BY <1>0 DEF WireTypes
      <4>2. /\ DOMAIN responses' = DOMAIN responses \union {Len(responses) + 1}
            /\ responses'[Len(responses) + 1] = response[c]
            /\ \A j \in DOMAIN responses : responses'[j] = responses[j]
        BY <3>2, <4>1, AppendProperties, LenProperties
      <4> QED
        BY <1>0, <4>2 DEF ReachInv
    <3> QED
      BY <3>1, <3>2 DEF WireStep
  <2>3. (kind = "byID" /\ ~NotStarted => Reached(nextNewsID) /\ Reached(url))'
    BY <1>0, <1>1 DEF ReachInv, Reached, NotStarted
  <2> QED
    BY <1>1, <2>1, <2>2, <2>3 DEF ReachInv, Good, Reached
<1>7. TitleInv'
  BY <1>0, <1>1 DEF TitleInv, Sent, NotStarted
<1> QED
  BY <1>2, <1>3, <1>4, <1>5, <1>6, <1>7 DEF FetcherInv
\* The constructors: nothing polls, only where to begin is looked for.
StartStep ==
    /\ NotStarted /\ NotStarted'
    /\ UNCHANGED <<pc, worker, requestURL, response, responses, published, pending,
                   banned, newsChan, firstID, delivered, sent, kind>>
    /\ nextNewsID' \in Nat
    /\ kind # "notice" => nextNewsID' <= MaxID + 1
    /\ lastNewsTitle' \in Titled
    /\ url' \in Nat /\ newURL' \in Nat
    /\ fpc' = "built" /\ kind # "list" => url' = nextNewsID'

LEMMA ConstructIsStartStep ==
  ASSUME FeedTypes, WireTypes, UNCHANGED <<kind, sent>>,
         \/ ListNotices \/ ProbeExisting \/ ProbeMissing \/ ListInit \/ InitFails
  PROVE  StartStep
<1> USE DEF pollerVars, NotStarted
<1>0. /\ MaxID \in Nat /\ published \in 1..MaxID
      /\ \A n \in 1..published : n \in Nat /\ TitleOf[n] \in Titled
      /\ nextNewsID \in Nat /\ lastNewsTitle \in Titled /\ url \in Nat /\ newURL \in Nat
      /\ kind # "notice" => nextNewsID <= MaxID + 1
  BY TitleAssumption DEF FeedTypes, WireTypes, Titled
<1>1. CASE ListNotices
  BY <1>0, <1>1 DEF ListNotices, StartStep
<1>2. CASE ProbeExisting
  <2>1. nextNewsID \in 1..published
    BY <1>2 DEF ProbeExisting, Page
  <2> QED
    BY <1>0, <1>2, <2>1 DEF ProbeExisting, Page, StartStep
<1>3. CASE ProbeMissing
  BY <1>0, <1>3 DEF ProbeMissing, StartStep
<1>4. CASE ListInit
  <2>1. published \in 1..published
    BY <1>0
  <2> QED
    BY <1>0, <1>4, <2>1 DEF ListInit, StartStep
<1>5. CASE InitFails
  BY <1>0, <1>5 DEF InitFails, StartStep
<1> QED
  BY <1>1, <1>2, <1>3, <1>4, <1>5

LEMMA StartKeeps == FetcherInv /\ StartStep => FetcherInv'
<1> SUFFICES ASSUME FetcherInv, StartStep PROVE FetcherInv'
  OBVIOUS
<1>0. FeedTypes /\ WireTypes /\ QuietBefore /\ UrlInv /\ ReachInv /\ TitleInv
  BY DEF FetcherInv
<1>1. /\ Sent = <<>> /\ responses = <<>> /\ firstID = 0
      /\ \A c \in Clients : worker[c] = "idle" /\ response[c] = Empty
  BY <1>0, BeforeStart DEF StartStep
<1>2. FeedTypes'
  BY <1>0 DEF FeedTypes, StartStep, NotStarted
<1>3. WireTypes'
  BY <1>0 DEF WireTypes, StartStep
<1>4. QuietBefore'
  BY <1>0 DEF QuietBefore, StartStep
<1>5. UrlInv'
  BY <1>1 DEF UrlInv, NoStaleRequest, P!NoStaleRequest, StartStep, NotStarted
<1>6. ReachInv'
  BY <1>1, EmptyIsGood DEF ReachInv, Good, StartStep
<1>7. TitleInv'
  <2>1. Sent' = <<>>
    <3>1. <<>> \o <<>> = <<>>
      OBVIOUS
    <3> QED
      BY <1>0, <3>1 DEF QuietBefore, StartStep, NotStarted, Sent
  <2> QED
    BY <2>1 DEF TitleInv, StartStep, NotStarted
<1> QED
  BY <1>2, <1>3, <1>4, <1>5, <1>6, <1>7 DEF FetcherInv

\* The stream starts at the page the fetcher has come to.
LEMMA StreamKeeps ==
  ASSUME FetcherInv, Stream, UNCHANGED <<kind, sent>>, kind = "byID" => url = nextNewsID
  PROVE  FetcherInv'
<1>0. FeedTypes /\ WireTypes /\ QuietBefore /\ UrlInv /\ ReachInv /\ TitleInv
  BY DEF FetcherInv
<1>1. /\ fpc = "built" /\ fpc' = "receive" /\ firstID' = nextNewsID
      /\ UNCHANGED <<worker, requestURL, response, responses, url, newURL, writer,
                     published, nextNewsID, lastNewsTitle, pending, banned, newsChan,
                     delivered, kind, sent>>
  BY DEF Stream, P!StartPolling, P!urlVars, P!workerVars
<1>2. /\ NotStarted /\ ~NotStarted'
      /\ Sent = <<>> /\ responses = <<>>
      /\ \A c \in Clients : worker[c] = "idle" /\ response[c] = Empty
  <2>1. NotStarted /\ ~NotStarted'
    BY <1>1 DEF NotStarted
  <2> QED
    BY <1>0, <2>1, BeforeStart
<1>3. FeedTypes'
  BY <1>0, <1>1 DEF FeedTypes
<1>4. WireTypes' /\ QuietBefore'
  BY <1>0, <1>1, <1>2 DEF WireTypes, QuietBefore
<1>5. UrlInv'
  BY <1>0, <1>1, <1>2 DEF UrlInv, NoStaleRequest, P!NoStaleRequest
<1>6. ReachInv'
  <2>1. firstID'..(nextNewsID' - 1) = {}
    BY <1>0, <1>1 DEF FeedTypes
  <2>2. kind = "byID" => url' = nextNewsID'
    BY <1>1
  <2> QED
    BY <1>1, <1>2, <2>1, <2>2, EmptyIsGood DEF ReachInv, Good, Reached
<1>7. TitleInv'
  <2>1. Sent' = <<>>
    BY <1>1, <1>2 DEF Sent
  <2>2. nextNewsID' - firstID' = 0
    BY <1>0, <1>1 DEF FeedTypes
  <2> QED
    BY <1>1, <2>1, <2>2 DEF TitleInv
<1> QED
  BY <1>3, <1>4, <1>5, <1>6, <1>7 DEF FetcherInv

\* What a receive of a response leaves: the others, each as good as it was.
LEMMA ReceiveLeaves ==
  ASSUME WireTypes, ReachInv, P!Receive
  PROVE  /\ Head(responses) \in Answers /\ Good(Head(responses))
         /\ responses' \in Seq(Answers)
         /\ \A i \in DOMAIN responses' : Good(responses'[i])
         /\ UNCHANGED <<pc, worker, requestURL, response, url, newURL, writer>>
<1>1. /\ responses \in Seq(Answers) /\ responses # <<>> /\ responses' = Tail(responses)
      /\ UNCHANGED <<pc, worker, requestURL, response, url, newURL, writer>>
  BY DEF WireTypes, P!Receive, P!loopVars, P!urlVars, P!workerVars
<1>2. /\ Head(responses) \in Answers /\ responses' \in Seq(Answers)
      /\ Head(responses) = responses[1]
      /\ \A i \in 1..(Len(responses) - 1) : responses'[i] = responses[i + 1]
      /\ DOMAIN responses' = 1..(Len(responses) - 1)
      /\ DOMAIN responses = 1..Len(responses) /\ Len(responses) \in Nat \ {0}
  BY <1>1, HeadTailProperties, EmptySeq, LenProperties
<1>3. /\ 1 \in DOMAIN responses
      /\ \A i \in DOMAIN responses' : i + 1 \in DOMAIN responses
  BY <1>2
<1>4. Good(Head(responses)) /\ \A i \in DOMAIN responses' : Good(responses'[i])
  BY <1>2, <1>3 DEF ReachInv
<1> QED
  BY <1>1, <1>2, <1>4

\* A response that is no news, a 429 among them.
LEMMA DropKeeps ==
  ASSUME FetcherInv, fpc = "receive", P!Receive,
         fpc' = "receive" \/ (fpc' = "ended" /\ kind # "notice"),
         banned' \in [Clients -> {"no", "recent", "old"}],
         UNCHANGED <<published, nextNewsID, lastNewsTitle, pending, newsChan, firstID,
                     delivered, sent, kind>>
  PROVE  FetcherInv'
<1>0. FeedTypes /\ WireTypes /\ QuietBefore /\ UrlInv /\ ReachInv /\ TitleInv
  BY DEF FetcherInv
<1>1. /\ responses' \in Seq(Answers)
      /\ \A i \in DOMAIN responses' : Good(responses'[i])
      /\ UNCHANGED <<pc, worker, requestURL, response, url, newURL, writer>>
  BY <1>0, ReceiveLeaves
<1>2. ~NotStarted /\ ~NotStarted'
  BY DEF NotStarted
<1>3. FeedTypes'
  BY <1>0 DEF FeedTypes
<1>4. WireTypes' /\ QuietBefore'
  BY <1>0, <1>1, <1>2 DEF WireTypes, QuietBefore
<1>5. UrlInv'
  BY <1>0, <1>1 DEF UrlInv, NoStaleRequest, P!NoStaleRequest
<1>6. ReachInv'
  BY <1>0, <1>1, <1>2 DEF ReachInv, Good, Reached
<1>7. TitleInv'
  BY <1>0, <1>2 DEF TitleInv, Sent
<1> QED
  BY <1>3, <1>4, <1>5, <1>6, <1>7 DEF FetcherInv
LEMMA AnswerTitle == \A a \in Answers : a.title \in Titled
<1>1. \A id \in 1..MaxID : TitleOf[id] \in Titled
  BY TitleAssumption DEF Titled
<1>2. \A r \in Replies : r.title \in Titled
  BY DEF Replies, PageReply, TooMany, Titled
<1>3. Empty.title \in Titled /\ \A c : Unsuccessful(c).title \in Titled
  BY DEF Empty, Unsuccessful, Titled
<1>4. \A c : \A id \in 1..MaxID : Announcement(c, id).title \in Titled
  BY <1>1 DEF Announcement
<1> QED
  BY <1>2, <1>3, <1>4 DEF Answers

\* A title of the JSON interface: the fetcher goes on after its number.
LEMMA ReceiveNewKeeps ==
  ASSUME FetcherInv, NEW k \in {"byID", "list"}, ReceiveNew(k), UNCHANGED kind
  PROVE  FetcherInv'
<1> DEFINE answer == Head(responses)
<1>0. FeedTypes /\ WireTypes /\ QuietBefore /\ UrlInv /\ ReachInv /\ TitleInv
  BY DEF FetcherInv
<1>1. /\ kind = k /\ kind # "notice" /\ fpc = "receive" /\ fpc' = "send"
      /\ ~NotStarted /\ ~NotStarted'
      /\ P!Receive
      /\ answer.title # DefaultTitle
      /\ nextNewsID' = answer.id + 1
      /\ lastNewsTitle' = answer.title /\ pending' = answer.title
      /\ sent' = sent \union {answer.id}
      /\ UNCHANGED <<published, banned, newsChan, firstID, delivered, kind>>
  BY DEF ReceiveNew, InLoop, IsNews, NextAfter, NotStarted
<1>2. /\ answer \in Answers /\ Good(answer)
      /\ responses' \in Seq(Answers)
      /\ \A i \in DOMAIN responses' : Good(responses'[i])
      /\ UNCHANGED <<pc, worker, requestURL, response, url, newURL, writer>>
  BY <1>0, <1>1, ReceiveLeaves
<1>3. answer.id \in 1..published /\ (kind = "byID" => Reached(answer.id))
  BY <1>1, <1>2 DEF Good
<1>4. answer.title \in Titles
  BY <1>1, <1>2, AnswerTitle DEF Titled
<1>5. MaxID \in Nat /\ published \in 1..MaxID
  BY <1>0, TitleAssumption DEF FeedTypes
<1> HIDE DEF answer
<1>6. FeedTypes'
  <2>1. PICK id \in 1..MaxID : id = answer.id
    BY <1>3, <1>5
  <2>2. nextNewsID' \in Nat /\ nextNewsID' <= MaxID + 1
    BY <1>1, <1>5, <2>1
  <2>3. sent' \subseteq 1..MaxID
    BY <1>0, <1>1, <2>1 DEF FeedTypes
  <2>4. lastNewsTitle' \in Titled /\ pending' \in Titles
    BY <1>1, <1>4 DEF Titled
  <2> QED
    BY <1>0, <1>1, <2>2, <2>3, <2>4 DEF FeedTypes, Titled
<1>7. WireTypes' /\ QuietBefore'
  BY <1>0, <1>1, <1>2 DEF WireTypes, QuietBefore
<1>8. UrlInv'
  BY <1>0, <1>1, <1>2 DEF UrlInv, NoStaleRequest, P!NoStaleRequest
<1>9. ReachInv'
  <2>1. kind = "byID" => firstID'..(nextNewsID' - 1) \subseteq sent'
    <3>1. firstID \in Nat /\ answer.id \in Nat /\ (answer.id + 1) - 1 = answer.id
      BY <1>0, <1>3, <1>5 DEF FeedTypes
    <3>2. \A n \in firstID..answer.id : n \in firstID..(answer.id - 1) \/ n = answer.id
      BY <3>1
    <3> QED
      BY <1>1, <1>3, <3>1, <3>2 DEF Reached
  <2>2. kind = "byID" => firstID'..(url' - 1) \subseteq sent'
    BY <1>0, <1>1, <1>2 DEF ReachInv, Reached
  <2>3. \A a : Good(a) => (kind' # "notice" /\ a.title # DefaultTitle =>
                             /\ a.id \in 1..published'
                             /\ kind' = "byID" => firstID'..(a.id - 1) \subseteq sent')
    BY <1>1 DEF Good, Reached
  <2> QED
    BY <1>0, <1>1, <1>2, <2>1, <2>2, <2>3 DEF ReachInv, Good, Reached
<1>10. TitleInv'
  BY <1>1 DEF TitleInv
<1> QED
  BY <1>6, <1>7, <1>8, <1>9, <1>10 DEF FetcherInv

\* A title about to be sent is handed on after all the others.
LEMMA NewsGrows ==
  ASSUME FeedTypes, fpc = "receive", fpc' = "send", pending' \in Titles,
         UNCHANGED <<delivered, newsChan>>
  PROVE  /\ Len(Sent) \in Nat /\ Len(Sent') = Len(Sent) + 1
         /\ \A i \in 1..Len(Sent) : Sent'[i] = Sent[i]
         /\ Sent'[Len(Sent) + 1] = pending'
         /\ Len(Sent) > 0 => Sent # <<>>
<1> DEFINE q == delivered \o newsChan
<1>1. PICK title \in Titles : title = pending'
  OBVIOUS
<1>2. /\ q \in Seq(Titles) /\ Sent = q /\ Sent' = q \o <<title>>
  <2>1. delivered \in Seq(Titles) /\ newsChan \in Seq(Titles)
    BY DEF FeedTypes
  <2>2. q \in Seq(Titles)
    BY <2>1, InARow
  <2>3. q \o <<>> = q
    BY <2>2, ConcatEmptySeq
  <2> QED
    BY <1>1, <2>2, <2>3 DEF Sent
<1>3. <<title>> \in Seq(Titles) /\ Len(<<title>>) = 1 /\ <<title>>[1] = title
  OBVIOUS
<1> HIDE DEF q
<1>4. /\ Len(q) \in Nat /\ Len(q \o <<title>>) = Len(q) + 1
      /\ \A i \in 1..Len(q) : (q \o <<title>>)[i] = q[i]
      /\ \A i \in 1..1 : (q \o <<title>>)[Len(q) + i] = <<title>>[i]
  BY <1>2, <1>3, InARow
<1>5. 1 \in 1..1 /\ (q = <<>> => Len(q) = 0)
  BY <1>2, EmptySeq
<1> QED
  BY <1>1, <1>2, <1>3, <1>4, <1>5

\* A page with a title: NoticeByIDFetcher counts on by one.
LEMMA ReceiveNewsKeeps ==
  ASSUME FetcherInv, ReceiveNews, kind = "notice", UNCHANGED <<kind, sent>>
  PROVE  FetcherInv'
<1> DEFINE title == Head(responses).title
<1>0. FeedTypes /\ WireTypes /\ QuietBefore /\ UrlInv /\ ReachInv /\ TitleInv
  BY DEF FetcherInv
<1>1. /\ fpc = "receive" /\ fpc' = "send"
      /\ ~NotStarted /\ ~NotStarted'
      /\ P!Receive
      /\ title # DefaultTitle /\ title # lastNewsTitle
      /\ nextNewsID' = nextNewsID + 1
      /\ lastNewsTitle' = title /\ pending' = title
      /\ UNCHANGED <<published, banned, newsChan, firstID, delivered>>
  BY DEF ReceiveNews, IsNews, FollowingPage, NotStarted
<1>2. /\ Head(responses) \in Answers
      /\ responses' \in Seq(Answers)
      /\ UNCHANGED <<pc, worker, requestURL, response, url, newURL, writer>>
  BY <1>0, <1>1, ReceiveLeaves
<1>3. title \in Titles
  BY <1>1, <1>2, AnswerTitle DEF Titled
<1> HIDE DEF title
<1>4. FeedTypes'
  BY <1>0, <1>1, <1>3 DEF FeedTypes, Titled
<1>5. WireTypes' /\ QuietBefore'
  BY <1>0, <1>1, <1>2 DEF WireTypes, QuietBefore
<1>6. UrlInv'
  BY <1>0, <1>1, <1>2 DEF UrlInv, NoStaleRequest, P!NoStaleRequest
<1>7. ReachInv'
  BY <1>0, <1>1, <1>2 DEF ReachInv, Good
<1>8. TitleInv'
  <2>3. /\ Len(Sent) \in Nat /\ Len(Sent') = Len(Sent) + 1
        /\ \A i \in 1..Len(Sent) : Sent'[i] = Sent[i]
        /\ Sent'[Len(Sent) + 1] = title
        /\ Len(Sent) > 0 => Sent # <<>>
    BY <1>0, <1>1, <1>3, NewsGrows
  <2>4. /\ Len(Sent) = nextNewsID - firstID
        /\ \A i \in 1..(Len(Sent) - 1) : Sent[i] # Sent[i + 1]
        /\ Sent # <<>> => Sent[Len(Sent)] = lastNewsTitle
    BY <1>0, <1>1 DEF TitleInv
  <2>5. Len(Sent') = nextNewsID' - firstID'
    BY <1>0, <1>1, <2>3, <2>4 DEF FeedTypes
  <2>6. ASSUME NEW i \in 1..Len(Sent) PROVE Sent'[i] # Sent'[i + 1]
    <3>1. CASE i = Len(Sent)
      BY <1>1, <2>3, <2>4, <3>1
    <3>2. CASE i # Len(Sent)
      <4>1. i \in 1..(Len(Sent) - 1) /\ i + 1 \in 1..Len(Sent)
        BY <2>3, <3>2
      <4> QED
        BY <2>3, <2>4, <4>1
    <3> QED
      BY <3>1, <3>2
  <2>7. Sent'[Len(Sent')] = title /\ Len(Sent') - 1 = Len(Sent)
    BY <2>3
  <2> QED
    BY <1>1, <2>5, <2>6, <2>7 DEF TitleInv
<1> QED
  BY <1>4, <1>5, <1>6, <1>7, <1>8 DEF FetcherInv
\* A title that goes into the channel was handed on before.
LEMMA SendSame ==
  ASSUME FeedTypes, fpc = "send", fpc' # "send", newsChan' = Append(newsChan, pending),
         UNCHANGED <<delivered, pending>>
  PROVE  Sent' = Sent
<1>1. newsChan \in Seq(Titles) /\ pending \in Titles /\ delivered \in Seq(Titles)
  BY DEF FeedTypes
<1>2. /\ delivered \o newsChan \in Seq(Titles)
      /\ delivered \o Append(newsChan, pending) \in Seq(Titles)
      /\ delivered \o Append(newsChan, pending) = Append(delivered \o newsChan, pending)
      /\ Append(delivered \o newsChan, pending) = (delivered \o newsChan) \o <<pending>>
  <2>1. Append(newsChan, pending) \in Seq(Titles) /\ delivered \o newsChan \in Seq(Titles)
    BY <1>1, AppendProperties, InARow
  <2> QED
    BY <1>1, <2>1, InARow, SendLast, AppendIsConcat
<1>3. (delivered \o Append(newsChan, pending)) \o <<>>
        = delivered \o Append(newsChan, pending)
  BY <1>2, ConcatEmptySeq
<1> QED
  BY <1>2, <1>3 DEF Sent

\* A title that is taken from the channel comes right after the ones delivered.
LEMMA TakeSame ==
  ASSUME FeedTypes, newsChan # <<>>, newsChan' = Tail(newsChan),
         delivered' = Append(delivered, Head(newsChan)), UNCHANGED <<fpc, pending>>
  PROVE  Sent' = Sent
<1>1. newsChan \in Seq(Titles) /\ delivered \in Seq(Titles)
  BY DEF FeedTypes
<1>2. Append(delivered, Head(newsChan)) \o Tail(newsChan) = delivered \o newsChan
  BY <1>1, ReceiveFirst
<1> QED
  BY <1>2 DEF Sent

\* A title goes into the channel: what is handed on stays what it was.
LEMMA SendKeeps ==
  ASSUME FetcherInv, fpc = "send", NewsChanHasRoom,
         newsChan' = Append(newsChan, pending),
         fpc' = IF kind = "list" THEN "receive" ELSE "setURL",
         UNCHANGED <<pollerVars, published, nextNewsID, lastNewsTitle, pending, banned,
                     firstID, delivered, sent, kind>>
  PROVE  FetcherInv'
<1>0. FeedTypes /\ WireTypes /\ QuietBefore /\ UrlInv /\ ReachInv /\ TitleInv
  BY DEF FetcherInv
<1>1. /\ ~NotStarted /\ ~NotStarted'
      /\ UNCHANGED <<pc, worker, requestURL, response, responses, url, newURL, writer>>
  BY DEF NotStarted, pollerVars
<1>2. newsChan \in Seq(Titles) /\ pending \in Titles /\ delivered \in Seq(Titles)
  BY <1>0 DEF FeedTypes
<1>3. FeedTypes'
  <2>1. newsChan' \in Seq(Titles) /\ Len(newsChan') = Len(newsChan) + 1
    BY <1>2, AppendProperties
  <2>2. Len(newsChan') <= NewsChanSize
    BY <1>2, <2>1, NewsChanAssumption, LenProperties DEF NewsChanHasRoom
  <2> QED
    BY <1>0, <2>1, <2>2 DEF FeedTypes
<1>4. WireTypes' /\ QuietBefore'
  BY <1>0, <1>1 DEF WireTypes, QuietBefore
<1>5. UrlInv'
  BY <1>0, <1>1 DEF UrlInv, NoStaleRequest, P!NoStaleRequest
<1>6. ReachInv'
  BY <1>0, <1>1 DEF ReachInv, Good, Reached
<1>7. TitleInv'
  BY <1>0, <1>1, SendSame DEF TitleInv
<1> QED
  BY <1>3, <1>4, <1>5, <1>6, <1>7 DEF FetcherInv

\* SetURL, from the call to the return.
LEMMA SetURLKeeps ==
  ASSUME FetcherInv, CallSetURL \/ SetURLDone, kind # "list", UNCHANGED <<kind, sent>>
  PROVE  FetcherInv'
<1>0. FeedTypes /\ WireTypes /\ QuietBefore /\ UrlInv /\ ReachInv /\ TitleInv
  BY DEF FetcherInv
<1>1. /\ ~NotStarted /\ ~NotStarted'
      /\ UNCHANGED <<pc, worker, requestURL, response, responses, published, nextNewsID,
                     lastNewsTitle, pending, banned, newsChan, firstID, delivered>>
  BY DEF CallSetURL, SetURLDone, P!SetURLCall, P!SetURLReturn, P!loopVars, P!workerVars,
         NotStarted
<1>2. /\ nextNewsID \in Nat
      /\ \/ fpc = "setURL" /\ fpc' = "inSetURL" /\ newURL' = nextNewsID /\ url' = url
         \/ /\ fpc = "inSetURL" /\ fpc' = "receive" /\ url' = newURL /\ newURL' = newURL
            /\ newURL = nextNewsID
            /\ \A c \in Clients : worker[c] # "requesting"
  BY <1>0 DEF CallSetURL, SetURLDone, P!SetURLCall, P!SetURLReturn, P!Readers, FeedTypes,
              UrlInv
<1>3. FeedTypes'
  BY <1>0, <1>1, <1>2 DEF FeedTypes
<1>4. WireTypes' /\ QuietBefore'
  BY <1>0, <1>1, <1>2 DEF WireTypes, QuietBefore
<1>5. UrlInv'
  BY <1>0, <1>1, <1>2 DEF UrlInv, NoStaleRequest, P!NoStaleRequest
<1>6. ReachInv'
  <2>1. kind = "byID" => Reached(nextNewsID) /\ Reached(url)
    BY <1>0, <1>1 DEF ReachInv
  <2>2. url' = url \/ url' = nextNewsID
    BY <1>2
  <2> QED
    BY <1>0, <1>1, <2>1, <2>2 DEF ReachInv, Good, Reached
<1>7. TitleInv'
  <2>1. Sent' = Sent
    BY <1>1, <1>2 DEF Sent
  <2> QED
    BY <1>0, <1>1, <1>2, <2>1 DEF TitleInv
<1> QED
  BY <1>3, <1>4, <1>5, <1>6, <1>7 DEF FetcherInv

\* The reader takes a title.
LEMMA TakesNewsKeeps ==
  ASSUME FetcherInv, TakesNews, UNCHANGED <<kind, sent>>
  PROVE  FetcherInv'
<1>0. FeedTypes /\ WireTypes /\ QuietBefore /\ UrlInv /\ ReachInv /\ TitleInv
  BY DEF FetcherInv
<1>1. /\ newsChan # <<>> /\ newsChan' = Tail(newsChan)
      /\ delivered' = IF kind # "list" THEN Append(delivered, Head(newsChan)) ELSE delivered
      /\ UNCHANGED <<pc, worker, requestURL, response, responses, url, newURL, writer,
                     published, fpc, nextNewsID, lastNewsTitle, pending, banned, firstID>>
  BY DEF TakesNews, TakeNews, pollerVars
<1>2. ~NotStarted /\ ~NotStarted'
  BY <1>0, <1>1 DEF NotStarted, QuietBefore
<1>3. /\ newsChan \in Seq(Titles) /\ delivered \in Seq(Titles)
      /\ Head(newsChan) \in Titles /\ Tail(newsChan) \in Seq(Titles)
      /\ Len(Tail(newsChan)) = Len(newsChan) - 1 /\ Len(newsChan) \in Nat
  <2>1. newsChan \in Seq(Titles) /\ delivered \in Seq(Titles)
    BY <1>0 DEF FeedTypes
  <2> QED
    BY <1>1, <2>1, ReceiveFirst, LenProperties
<1>4. FeedTypes'
  <2>1. delivered' \in Seq(Titles)
    BY <1>1, <1>3, AppendProperties
  <2>2. Len(newsChan') <= NewsChanSize
    BY <1>0, <1>1, <1>3, NewsChanAssumption DEF FeedTypes
  <2> QED
    BY <1>0, <1>1, <1>3, <2>1, <2>2 DEF FeedTypes
<1>5. WireTypes' /\ QuietBefore'
  BY <1>0, <1>1, <1>2 DEF WireTypes, QuietBefore
<1>6. UrlInv'
  BY <1>0, <1>1 DEF UrlInv, NoStaleRequest, P!NoStaleRequest
<1>7. ReachInv'
  BY <1>0, <1>1, <1>2 DEF ReachInv, Good, Reached
<1>8. TitleInv'
  <2>1. CASE kind = "notice"
    <3>1. Sent' = Sent
      BY <1>0, <1>1, <2>1, TakeSame
    <3> QED
      BY <1>0, <1>1, <1>2, <3>1 DEF TitleInv
  <2> QED
    BY <2>1 DEF TitleInv
<1> QED
  BY <1>4, <1>5, <1>6, <1>7, <1>8 DEF FetcherInv

\* The web site publishes a notice.
LEMMA PublishKeeps ==
  ASSUME FetcherInv, Publish, UNCHANGED <<kind, sent>>
  PROVE  FetcherInv'
<1>0. FeedTypes /\ WireTypes /\ QuietBefore /\ UrlInv /\ ReachInv /\ TitleInv
  BY DEF FetcherInv
<1>1. /\ published' = published + 1 /\ published < MaxID
      /\ UNCHANGED <<pc, worker, requestURL, response, responses, url, newURL, writer,
                     fpc, nextNewsID, lastNewsTitle, pending, banned, newsChan, firstID,
                     delivered>>
  BY DEF Publish, pollerVars, feedVars
<1>2. /\ FeedTypes'
      /\ \A n : n \in 1..published => n \in 1..published'
  BY <1>0, <1>1, TitleAssumption DEF FeedTypes
<1>3. WireTypes' /\ QuietBefore' /\ UrlInv'
  BY <1>0, <1>1 DEF WireTypes, QuietBefore, UrlInv, NoStaleRequest, P!NoStaleRequest,
                    NotStarted
<1>4. ReachInv'
  BY <1>0, <1>1, <1>2 DEF ReachInv, Good, Reached, NotStarted
<1>5. TitleInv'
  BY <1>0, <1>1 DEF TitleInv, Sent, NotStarted
<1> QED
  BY <1>2, <1>3, <1>4, <1>5 DEF FetcherInv

\* Nothing happens, or an hour passes.
LEMMA IdleKeeps ==
  ASSUME FetcherInv,
         UNCHANGED <<pollerVars, published, fpc, nextNewsID, lastNewsTitle, pending,
                     newsChan, firstID, delivered, sent, kind>>,
         banned' \in [Clients -> {"no", "recent", "old"}]
  PROVE  FetcherInv'
<1>0. FeedTypes /\ WireTypes /\ QuietBefore /\ UrlInv /\ ReachInv /\ TitleInv
  BY DEF FetcherInv
<1>1. UNCHANGED <<pc, worker, requestURL, response, responses, url, newURL, writer>>
  BY DEF pollerVars
<1>2. FeedTypes' /\ WireTypes' /\ QuietBefore' /\ UrlInv'
  BY <1>0, <1>1 DEF FeedTypes, WireTypes, QuietBefore, UrlInv, NoStaleRequest,
                    P!NoStaleRequest, NotStarted
<1>3. ReachInv' /\ TitleInv'
  BY <1>0, <1>1 DEF ReachInv, Good, Reached, TitleInv, Sent, NotStarted
<1> QED
  BY <1>2, <1>3 DEF FetcherInv
-----------------------------------------------------------------------------
(* Every step, and what follows for every behaviour. *)

LEMMA FetcherKeeps ==
  ASSUME FetcherInv, FetcherRuns, UNCHANGED kind PROVE FetcherInv'
<1>0. /\ FeedTypes /\ WireTypes
      /\ kind \in {"byID", "list", "notice"}
      /\ banned \in [Clients -> {"no", "recent", "old"}]
  BY DEF FetcherInv, FeedTypes
<1>1. ASSUME Construct, kind # "notice" PROVE FetcherInv'
  <2>1. CASE ByIDStream \/ ListStream
    BY <1>1, <2>1, StreamKeeps DEF Construct, ByIDStream, ListStream
  <2>2. CASE ByIDList \/ ByIDProbe \/ ByIDNoMore \/ ListInit
    <3>1. StartStep
      BY <1>0, <1>1, <2>2, ConstructIsStartStep
         DEF Construct, ByIDList, ByIDProbe, ByIDNoMore
    <3> QED
      BY <3>1, StartKeeps
  <2> QED
    BY <1>1, <2>1, <2>2 DEF Construct
<1>2. ASSUME Loops, kind # "notice" PROVE FetcherInv'
  <2>1. CASE Receive429 \/ ReceiveOld
    <3>1. /\ fpc = "receive" /\ P!Receive /\ fpc' \in {"receive", "ended"}
          /\ UNCHANGED <<published, nextNewsID, lastNewsTitle, pending, banned, newsChan,
                         firstID, delivered, sent, kind>>
      BY <2>1 DEF Receive429, ReceiveOld, InLoop, feedVars
    <3> QED
      BY <1>0, <1>2, <3>1, DropKeeps
  <2>2. CASE ByIDReceiveNew
    BY <2>2, ReceiveNewKeeps DEF ByIDReceiveNew
  <2>3. CASE ListReceiveNew
    BY <2>3, ReceiveNewKeeps DEF ListReceiveNew
  <2>4. CASE ByIDSend
    BY <2>4, SendKeeps DEF ByIDSend, SendNews
  <2>5. CASE ListSend
    BY <2>5, SendKeeps DEF ListSend
  <2>6. CASE ByIDSetURL
    BY <2>6, SetURLKeeps DEF ByIDSetURL
  <2> QED
    BY <1>2, <2>1, <2>2, <2>3, <2>4, <2>5, <2>6 DEF Loops
<1>3. ASSUME FetcherStep, UNCHANGED sent, kind = "notice" PROVE FetcherInv'
  <2>1. CASE Stream
    BY <1>3, <2>1, StreamKeeps
  <2>2. CASE ListNotices \/ ProbeExisting \/ ProbeMissing
    <3>1. StartStep
      BY <1>0, <1>3, <2>2, ConstructIsStartStep
    <3> QED
      BY <3>1, StartKeeps
  <2>3. CASE ReceiveNoNews
    BY <1>0, <1>3, <2>3, DropKeeps DEF ReceiveNoNews, feedVars
  <2>4. CASE ReceiveTooMany
    <3>1. banned' \in [Clients -> {"no", "recent", "old"}]
      BY <1>0, <2>4 DEF ReceiveTooMany
    <3> QED
      BY <1>3, <2>4, <3>1, DropKeeps DEF ReceiveTooMany
  <2>5. CASE ReceiveNews
    BY <1>3, <2>5, ReceiveNewsKeeps
  <2>6. CASE SendNews
    BY <1>3, <2>6, SendKeeps DEF SendNews
  <2>7. CASE CallSetURL \/ SetURLDone
    BY <1>3, <2>7, SetURLKeeps
  <2> QED
    BY <1>3, <2>1, <2>2, <2>3, <2>4, <2>5, <2>6, <2>7 DEF FetcherStep
<1> QED
  BY <1>1, <1>2, <1>3 DEF FetcherRuns

LEMMA NextFetcher == FetcherInv /\ [ANext]_allVars => FetcherInv'
<1> SUFFICES ASSUME FetcherInv, [ANext]_allVars PROVE FetcherInv'
  OBVIOUS
<1>0. FeedTypes /\ WireTypes /\ banned \in [Clients -> {"no", "recent", "old"}]
  BY DEF FetcherInv, FeedTypes
<1>1. ASSUME FetcherRuns, UNCHANGED kind PROVE FetcherInv'
  BY <1>1, FetcherKeeps
<1>2. ASSUME PollerRuns \/ RequestFails, UNCHANGED kind PROVE FetcherInv'
  BY <1>0, <1>2, PollerIsWireStep, WireKeeps
<1>3. ASSUME Elsewhere, UNCHANGED kind PROVE FetcherInv'
  <2>1. UNCHANGED sent
    BY <1>3 DEF Elsewhere
  <2>2. CASE InitFails
    BY <1>0, <1>3, <2>1, <2>2, ConstructIsStartStep, StartKeeps
  <2>3. CASE TakesNews
    BY <1>3, <2>1, <2>3, TakesNewsKeeps
  <2>4. CASE Publish
    BY <1>3, <2>1, <2>4, PublishKeeps
  <2>5. ASSUME NEW c \in Clients, HourPasses(c) PROVE FetcherInv'
    <3>1. banned' \in [Clients -> {"no", "recent", "old"}]
      BY <1>0, <2>5 DEF HourPasses
    <3> QED
      BY <1>3, <2>1, <2>5, <3>1, IdleKeeps DEF HourPasses
  <2> QED
    BY <1>3, <2>2, <2>3, <2>4, <2>5 DEF Elsewhere
<1>4. CASE UNCHANGED allVars
  <2>1. UNCHANGED <<pollerVars, published, fpc, nextNewsID, lastNewsTitle, pending, banned,
                    newsChan, firstID, delivered, sent, kind>>
    BY <1>4 DEF allVars, vars, feedVars
  <2> QED
    BY <1>0, <2>1, IdleKeeps
<1> QED
  BY <1>1, <1>2, <1>3, <1>4 DEF ANext

\* The fetchers, their poller and what is on the way between them agree in every
\* state, for every number of proxies and notices: FetcherInv.
THEOREM FetcherInvariant == ASpec => []FetcherInv
<1> QED
  BY InitFetcher, NextFetcher, PTL DEF ASpec

\* Once SetURL has returned no request to another page is on the wire, with the
\* fetchers as the poller's users (SetURL takes the write lock of the URL).
THEOREM FetchersAskTheNewPage == ASpec => []NoStaleRequest
<1>1. FetcherInv => NoStaleRequest
  BY DEF FetcherInv, UrlInv
<1> QED
  BY <1>1, FetcherInvariant, PTL

\* The by-ID fetcher leaves no announcement out between its first and the one it
\* is at, however late the answers of its proxies are: nextNewsID is set from an
\* answer, which may be an old one, and still never jumps over a number.
THEOREM NothingIsSkipped == ASpec => []NothingSkipped
<1>1. FetcherInv => NothingSkipped
  <2> SUFFICES ASSUME FetcherInv, kind = "byID", firstID > 0
               PROVE  firstID..(nextNewsID - 1) \subseteq sent
    BY DEF NothingSkipped
  <2>1. ~NotStarted
    BY DEF FetcherInv, QuietBefore
  <2> QED
    BY <2>1 DEF FetcherInv, ReachInv, Reached
<1> QED
  BY <1>1, FetcherInvariant, PTL

\* Fetcher and poller keep step (the types, one page on per notice handed on and
\* no title twice in a row, no request for an old page once the loop is back).
THEOREM FetchersInStep == ASpec => []FetcherInStep
<1>1. FetcherInv => FetcherInStep
  <2> SUFFICES ASSUME FetcherInv PROVE FetcherInStep
    OBVIOUS
  <2>0. FeedTypes /\ QuietBefore /\ UrlInv /\ TitleInv
    BY DEF FetcherInv
  <2>1. ATypeOK
    BY <2>0 DEF ATypeOK, TypeOK, FeedTypes, Titled, URLs
  <2>2. NoticesMoveOnce
    <3>1. firstID > 0 => ~NotStarted
      BY <2>0 DEF QuietBefore
    <3> QED
      BY <2>0, <3>1 DEF NoticesMoveOnce, NoRepeatInARow, TitleInv
  <2>3. FetcherIsFollowed
    BY <2>0 DEF FetcherIsFollowed, RequestsFollowNews, UrlInv, NoStaleRequest,
                P!NoStaleRequest
  <2> QED
    BY <2>1, <2>2, <2>3 DEF FetcherInStep
<1> QED
  BY <1>1, FetcherInvariant, PTL
-----------------------------------------------------------------------------
(* A single client: the fetchers that ask for one number after the other   *)
(* implement NoticeFeed.  Its answers come in the order they were asked    *)
(* for, so that a late one can only repeat the title handed on last.       *)

SingleClient == \A c, d \in Clients : c = d

\* An answer whose title updateAndNotify will hand on, as things stand.
Fresh(answer) == answer.title # DefaultTitle /\ answer.title # lastNewsTitle

Asking == fpc \in {"receive", "send", "setURL", "inSetURL"}
MovingOn == fpc \in {"send", "setURL", "inSetURL"}

\* It is then the answer for the page the fetcher is at.
OnPage(answer) ==
    Fresh(answer) => /\ fpc = "receive"
                     /\ nextNewsID \in 1..published
                     /\ answer.title = TitleOf[nextNewsID]
                     /\ kind = "byID" => answer.id = nextNewsID

\* Behind it there is nothing older.
Before(first, second) == Fresh(first) /\ second.title # DefaultTitle => Fresh(second)

AnswersInv ==
    kind # "list" /\ Asking =>
        /\ \A c \in Clients : OnPage(response[c])
        /\ \A i \in DOMAIN responses : OnPage(responses[i])
        /\ \A i \in DOMAIN responses : \A j \in DOMAIN responses :
              i < j => Before(responses[i], responses[j])
        /\ \A i \in DOMAIN responses : \A c \in Clients : Before(responses[i], response[c])

\* The page that is asked for while the fetcher moves on is the one before.
PageInv ==
    kind # "list" /\ MovingOn =>
        url = nextNewsID - 1 /\ url \in 1..published /\ TitleOf[url] = lastNewsTitle

\* The titles handed on are those of the notices from the first on, and these
\* have been published.
SentInv ==
    /\ fpc \in {"probing", "built"} => nextNewsID \in 2..(published + 1)
    /\ kind = "list" => delivered = <<>>
    /\ ~NotStarted => firstID \in 2..(published + 1)
    /\ kind # "list" /\ ~NotStarted =>
          /\ nextNewsID \in firstID..(published + 1)
          /\ Len(Sent) = nextNewsID - firstID
          /\ \A i \in 1..Len(Sent) : Sent[i] = TitleOf[firstID + i - 1]

FeedInv == AnswersInv /\ PageInv /\ SentInv
\* The poller, its only client and the server.
LEMMA WireFeed ==
  ASSUME SingleClient, FetcherInv, FeedInv, WireStep
  PROVE  FeedInv'
<1>0. FeedTypes /\ WireTypes /\ QuietBefore /\ UrlInv /\ AnswersInv /\ PageInv /\ SentInv
  BY DEF FetcherInv, FeedInv
<1>1. UNCHANGED <<published, fpc, nextNewsID, lastNewsTitle, pending, newsChan, firstID,
                  delivered, kind, url>>
  BY DEF WireStep, feedVars
<1>2. PageInv'
  BY <1>0, <1>1 DEF PageInv, MovingOn
<1>3. SentInv'
  BY <1>0, <1>1 DEF SentInv, Sent, NotStarted
<1>4. AnswersInv'
  <2> SUFFICES ASSUME kind # "list", Asking PROVE AnswersInv'
    BY <1>1 DEF AnswersInv, Asking
  <2>0. /\ \A c \in Clients : OnPage(response[c])
        /\ \A i \in DOMAIN responses : OnPage(responses[i])
        /\ \A i \in DOMAIN responses : \A j \in DOMAIN responses :
              i < j => Before(responses[i], responses[j])
        /\ \A i \in DOMAIN responses : \A c \in Clients : Before(responses[i], response[c])
    BY <1>0 DEF AnswersInv
  <2>1. ASSUME NEW c \in Clients, worker[c] = "requesting"
        PROVE  OnPage(Answer(c)) /\ \A e : OnPage(e) => Before(e, Answer(c))
    <3>1. requestURL[c] = url
      BY <1>0, <2>1 DEF UrlInv, NoStaleRequest, P!NoStaleRequest
    <3>2. kind \in {"byID", "notice"}
      BY <1>0 DEF FeedTypes
    <3>3. Answer(c).title = IF url \in 1..published THEN TitleOf[url] ELSE DefaultTitle
      BY <3>1, <3>2 DEF Answer, PageReply, Page, Announcement, Unsuccessful
    <3>4. url \in 1..published /\ kind = "byID" => Answer(c).id = url
      BY <3>1, <3>2 DEF Answer, Announcement
    <3>5. CASE fpc = "receive"
      <4>1. url = nextNewsID
        BY <1>0, <3>5 DEF UrlInv
      <4> QED
        BY <3>3, <3>4, <3>5, <4>1 DEF OnPage, Before, Fresh
    <3>6. CASE MovingOn
      <4>1. Answer(c).title = lastNewsTitle /\ fpc # "receive"
        BY <1>0, <3>3, <3>6 DEF PageInv, MovingOn
      <4> QED
        BY <4>1 DEF OnPage, Before, Fresh
    <3> QED
      BY <3>5, <3>6 DEF Asking, MovingOn
  <2>2. ASSUME NEW c \in Clients
        PROVE  /\ OnPage(response'[c])
               /\ \A e : OnPage(e) /\ Before(e, response[c]) => Before(e, response'[c])
               /\ worker[c] = "sending" => Before(response[c], response'[c])
    <3>1. CASE response'[c] = response[c]
      BY <2>0, <3>1 DEF Before
    <3>2. CASE response'[c] \in {Empty, TooMany(c)}
      <4>1. response'[c].title = DefaultTitle
        BY <3>2, EmptyIsGood
      <4> QED
        BY <4>1 DEF OnPage, Before, Fresh
    <3>3. CASE worker[c] = "requesting" /\ response'[c] = Answer(c)
      BY <2>1, <3>3
    <3> QED
      BY <3>1, <3>2, <3>3 DEF WireStep
  <2>3. CASE responses' = responses
    <3>1. \A i \in DOMAIN responses : \A c \in Clients : Before(responses[i], response'[c])
      BY <2>0, <2>2
    <3> QED
      BY <1>1, <2>0, <2>2, <2>3, <3>1 DEF AnswersInv, OnPage, Before, Fresh
  <2>4. ASSUME NEW d \in Clients, worker[d] = "sending",
               responses' = Append(responses, response[d])
        PROVE  AnswersInv'
    <3>1. /\ DOMAIN responses' = DOMAIN responses \union {Len(responses) + 1}
          /\ responses'[Len(responses) + 1] = response[d]
          /\ \A j \in DOMAIN responses : responses'[j] = responses[j]
          /\ Len(responses) \in Nat /\ DOMAIN responses = 1..Len(responses)
      BY <1>0, <2>4, AppendProperties, LenProperties DEF WireTypes
    <3>2. \A i \in DOMAIN responses' : OnPage(responses'[i])
      BY <2>0, <3>1
    <3>3. ASSUME NEW i \in DOMAIN responses', NEW j \in DOMAIN responses', i < j
          PROVE  Before(responses'[i], responses'[j])
      <4>1. i \in DOMAIN responses
        BY <3>1, <3>3
      <4>2. CASE j \in DOMAIN responses
        BY <2>0, <3>1, <3>3, <4>1, <4>2
      <4>3. CASE j = Len(responses) + 1
        BY <2>0, <3>1, <4>1, <4>3
      <4> QED
        BY <3>1, <4>2, <4>3
    <3>4. ASSUME NEW i \in DOMAIN responses', NEW c \in Clients
          PROVE  Before(responses'[i], response'[c])
      <4>1. c = d
        BY DEF SingleClient
      <4>2. CASE i \in DOMAIN responses
        BY <2>0, <2>2, <3>1, <4>2
      <4>3. CASE i = Len(responses) + 1
        BY <2>2, <2>4, <3>1, <4>1, <4>3
      <4> QED
        BY <3>1, <4>2, <4>3
    <3> QED
      BY <1>1, <2>2, <3>2, <3>3, <3>4 DEF AnswersInv, OnPage, Before, Fresh
  <2> QED
    BY <2>3, <2>4 DEF WireStep
<1> QED
  BY <1>2, <1>3, <1>4 DEF FeedInv

\* The constructors come to the first page without a notice, or to one before.
LEMMA ConstructFeed ==
  ASSUME FeedTypes, SentInv, UNCHANGED <<kind, sent>>,
         \/ ListNotices \/ ProbeExisting \/ ProbeMissing \/ ListInit \/ InitFails
  PROVE  FeedInv'
<1> USE DEF NotStarted
<1>0. /\ MaxID \in Nat /\ published \in 1..MaxID /\ published' = published
      /\ fpc' \in {"probing", "built", "failed"}
      /\ UNCHANGED <<delivered, kind>>
      /\ fpc \in {"listing", "probing"}
  BY TitleAssumption DEF FeedTypes, ListNotices, ProbeExisting, ProbeMissing, ListInit,
                         InitFails
<1>1. fpc' \in {"probing", "built"} => nextNewsID' \in 2..(published + 1)
  <2>1. CASE ListNotices
    BY <1>0, <2>1 DEF ListNotices
  <2>2. CASE ProbeExisting
    <3>1. nextNewsID \in 1..published
      BY <2>2 DEF ProbeExisting, Page
    <3> QED
      BY <1>0, <2>2, <3>1 DEF ProbeExisting
  <2>3. CASE ProbeMissing
    BY <1>0, <2>3 DEF ProbeMissing, SentInv
  <2>4. CASE ListInit
    BY <1>0, <2>4 DEF ListInit
  <2>5. CASE InitFails
    BY <2>5 DEF InitFails
  <2> QED
    BY <2>1, <2>2, <2>3, <2>4, <2>5
<1>2. AnswersInv' /\ PageInv'
  BY <1>0 DEF AnswersInv, PageInv, Asking, MovingOn
<1>3. SentInv'
  BY <1>0, <1>1 DEF SentInv
<1> QED
  BY <1>2, <1>3 DEF FeedInv

\* The stream starts: the first title will be that of the page it has come to.
LEMMA StreamFeed ==
  ASSUME FetcherInv, FeedInv, Stream, UNCHANGED <<kind, sent>>
  PROVE  FeedInv' /\ Feed!Start
<1>0. FeedTypes /\ WireTypes /\ QuietBefore /\ SentInv
  BY DEF FetcherInv, FeedInv
<1>1. /\ fpc = "built" /\ fpc' = "receive" /\ firstID' = nextNewsID
      /\ UNCHANGED <<response, responses, published, nextNewsID, lastNewsTitle, newsChan,
                     delivered, kind>>
  BY DEF Stream, P!StartPolling, P!urlVars, P!workerVars
<1>2. /\ NotStarted /\ ~NotStarted'
      /\ Sent = <<>> /\ responses = <<>> /\ firstID = 0
      /\ delivered = <<>> /\ newsChan = <<>>
      /\ \A c \in Clients : response[c] = Empty
  <2>1. NotStarted /\ ~NotStarted'
    BY <1>1 DEF NotStarted
  <2> QED
    BY <1>0, <2>1, BeforeStart DEF QuietBefore
<1>3. nextNewsID \in 2..(published + 1)
  BY <1>0, <1>1 DEF SentInv
<1>4. AnswersInv' /\ PageInv'
  BY <1>1, <1>2, EmptyIsGood
     DEF AnswersInv, PageInv, MovingOn, OnPage, Before, Fresh
<1>5. SentInv'
  <2>1. Sent' = <<>>
    BY <1>1, <1>2 DEF Sent
  <2>2. /\ nextNewsID' - firstID' = 0 /\ nextNewsID' \in firstID'..(published' + 1)
        /\ firstID' \in 2..(published' + 1)
    BY <1>0, <1>1, <1>3 DEF FeedTypes
  <2> QED
    BY <1>1, <1>2, <2>1, <2>2 DEF SentInv
<1>6. Feed!Start
  BY <1>1, <1>2, <1>3 DEF Feed!Start
<1> QED
  BY <1>4, <1>5, <1>6 DEF FeedInv
\* What a receive leaves of the answers, in their order.
LEMMA ReceiveOrder ==
  ASSUME FetcherInv, FeedInv, P!Receive, kind # "list", fpc = "receive"
  PROVE  /\ OnPage(Head(responses))
         /\ \A i \in DOMAIN responses' : /\ OnPage(responses'[i])
                                         /\ Before(Head(responses), responses'[i])
         /\ \A i \in DOMAIN responses' : \A j \in DOMAIN responses' :
               i < j => Before(responses'[i], responses'[j])
         /\ \A i \in DOMAIN responses' : \A c \in Clients : Before(responses'[i], response[c])
         /\ \A c \in Clients : OnPage(response[c]) /\ Before(Head(responses), response[c])
<1>0. /\ \A c \in Clients : OnPage(response[c])
      /\ \A i \in DOMAIN responses : OnPage(responses[i])
      /\ \A i \in DOMAIN responses : \A j \in DOMAIN responses :
            i < j => Before(responses[i], responses[j])
      /\ \A i \in DOMAIN responses : \A c \in Clients : Before(responses[i], response[c])
  BY DEF FeedInv, AnswersInv, Asking
<1>1. responses \in Seq(Answers) /\ responses # <<>> /\ responses' = Tail(responses)
  BY DEF FetcherInv, WireTypes, P!Receive
<1>2. /\ Head(responses) = responses[1]
      /\ \A i \in 1..(Len(responses) - 1) : responses'[i] = responses[i + 1]
      /\ DOMAIN responses' = 1..(Len(responses) - 1)
      /\ DOMAIN responses = 1..Len(responses) /\ Len(responses) \in Nat \ {0}
  BY <1>1, HeadTailProperties, EmptySeq, LenProperties
<1>3. /\ 1 \in DOMAIN responses
      /\ \A i \in DOMAIN responses' : i + 1 \in DOMAIN responses /\ 1 < i + 1
      /\ \A i \in DOMAIN responses' : \A j \in DOMAIN responses' : i < j => i + 1 < j + 1
  BY <1>2
<1> QED
  BY <1>0, <1>2, <1>3

\* A response that is no news.
LEMMA DropFeed ==
  ASSUME FetcherInv, FeedInv, fpc = "receive", P!Receive, fpc' \in {"receive", "ended"},
         UNCHANGED <<published, nextNewsID, lastNewsTitle, pending, newsChan, firstID,
                     delivered, kind>>
  PROVE  FeedInv'
<1>0. PageInv /\ SentInv /\ ~NotStarted /\ ~NotStarted' /\ UNCHANGED response
  BY DEF FeedInv, NotStarted, P!Receive, P!workerVars
<1>1. AnswersInv'
  BY <1>0, ReceiveOrder DEF AnswersInv, Asking, OnPage, Before, Fresh
<1>2. PageInv' /\ SentInv'
  BY <1>0 DEF PageInv, SentInv, MovingOn, Sent
<1> QED
  BY <1>1, <1>2 DEF FeedInv

\* News: they are the title of the page the fetcher is at, and all that is on
\* the way behind them is the same title.
LEMMA NewsFeed ==
  ASSUME FetcherInv, FeedInv, fpc = "receive", P!Receive, kind # "list",
         Fresh(Head(responses)), fpc' = "send",
         nextNewsID' = nextNewsID + 1,
         lastNewsTitle' = Head(responses).title, pending' = Head(responses).title,
         UNCHANGED <<published, newsChan, firstID, delivered, kind>>
  PROVE  FeedInv'
<1> DEFINE answer == Head(responses)
<1>0. FeedTypes /\ UrlInv /\ SentInv /\ ~NotStarted /\ ~NotStarted'
  BY DEF FetcherInv, FeedInv, NotStarted
<1>1. /\ nextNewsID \in 1..published /\ answer.title = TitleOf[nextNewsID]
      /\ answer.title # DefaultTitle
  BY ReceiveOrder DEF OnPage, Fresh
<1>2. /\ UNCHANGED <<response, url>> /\ url = nextNewsID
  BY <1>0 DEF UrlInv, P!Receive, P!workerVars, P!urlVars
<1>3. AnswersInv'
  <2>1. ASSUME NEW e, OnPage(e), Before(answer, e)
        PROVE  e.title = DefaultTitle \/ e.title = answer.title
    BY <1>1, <2>1 DEF OnPage, Before, Fresh
  <2>2. /\ \A c \in Clients : response'[c].title \in {DefaultTitle, answer.title}
        /\ \A i \in DOMAIN responses' : responses'[i].title \in {DefaultTitle, answer.title}
    BY <1>2, <2>1, ReceiveOrder
  <2> QED
    BY <2>2 DEF AnswersInv, OnPage, Before, Fresh
<1>4. PageInv'
  <2>1. (nextNewsID + 1) - 1 = nextNewsID
    BY <1>0 DEF FeedTypes
  <2> QED
    BY <1>1, <1>2, <2>1 DEF PageInv
<1>5. SentInv'
  <2>1. pending' \in Titles
    BY <1>0, <1>1, TitleAssumption DEF FeedTypes
  <2>2. /\ Len(Sent) \in Nat /\ Len(Sent') = Len(Sent) + 1
        /\ \A i \in 1..Len(Sent) : Sent'[i] = Sent[i]
        /\ Sent'[Len(Sent) + 1] = pending'
    BY <1>0, <2>1, NewsGrows
  <2>3. /\ nextNewsID \in firstID..(published + 1) /\ firstID \in 2..(published + 1)
        /\ Len(Sent) = nextNewsID - firstID
        /\ \A i \in 1..Len(Sent) : Sent[i] = TitleOf[firstID + i - 1]
    BY <1>0 DEF SentInv
  <2>4. /\ published \in Nat /\ nextNewsID \in Nat /\ firstID \in Nat
    BY <1>0, TitleAssumption DEF FeedTypes
  <2>5. /\ nextNewsID' \in firstID..(published + 1)
        /\ Len(Sent') = nextNewsID' - firstID
        /\ firstID + (Len(Sent) + 1) - 1 = nextNewsID
    BY <1>1, <2>2, <2>3, <2>4
  <2>6. ASSUME NEW i \in 1..Len(Sent') PROVE Sent'[i] = TitleOf[firstID + i - 1]
    <3>1. CASE i \in 1..Len(Sent)
      BY <2>2, <2>3, <3>1
    <3>2. CASE i = Len(Sent) + 1
      BY <1>1, <2>2, <2>5, <3>2
    <3> QED
      BY <2>2, <3>1, <3>2
  <2> QED
    BY <1>0, <2>3, <2>5, <2>6 DEF SentInv
<1> QED
  BY <1>3, <1>4, <1>5 DEF FeedInv

\* A title goes into the channel.
LEMMA SendFeed ==
  ASSUME FetcherInv, FeedInv, fpc = "send",
         newsChan' = Append(newsChan, pending), kind # "list", fpc' = "setURL",
         UNCHANGED <<pollerVars, published, nextNewsID, lastNewsTitle, pending, firstID,
                     delivered, kind>>
  PROVE  FeedInv'
<1>0. /\ FeedTypes /\ AnswersInv /\ PageInv /\ SentInv
      /\ ~NotStarted /\ ~NotStarted' /\ UNCHANGED <<url, response, responses>>
  BY DEF FetcherInv, FeedInv, NotStarted, pollerVars
<1>1. AnswersInv' /\ PageInv'
  BY <1>0 DEF AnswersInv, PageInv, Asking, MovingOn, OnPage, Before, Fresh
<1>2. SentInv'
  BY <1>0, SendSame DEF SentInv
<1> QED
  BY <1>1, <1>2 DEF FeedInv

\* SetURL: nothing on the way is news when it is called, nor when it returns.
LEMMA SetURLFeed ==
  ASSUME FetcherInv, FeedInv, CallSetURL \/ SetURLDone, kind # "list", UNCHANGED kind
  PROVE  FeedInv'
<1>0. FeedTypes /\ AnswersInv /\ PageInv /\ SentInv
  BY DEF FetcherInv, FeedInv
<1>1. /\ ~NotStarted /\ ~NotStarted' /\ Asking /\ Asking' /\ fpc # "receive"
      /\ \/ fpc' = "inSetURL" /\ url' = url
         \/ fpc' = "receive"
      /\ fpc # "send" /\ fpc' # "send" /\ MovingOn
      /\ UNCHANGED <<response, responses, published, nextNewsID, lastNewsTitle, pending,
                     newsChan, firstID, delivered>>
  BY DEF CallSetURL, SetURLDone, P!SetURLCall, P!SetURLReturn, P!loopVars, P!workerVars,
         NotStarted, Asking, MovingOn
<1>2. AnswersInv' /\ PageInv'
  BY <1>0, <1>1 DEF AnswersInv, PageInv, MovingOn, OnPage, Before, Fresh
<1>3. SentInv'
  <2>1. Sent' = Sent
    BY <1>1 DEF Sent
  <2> QED
    BY <1>0, <1>1, <2>1 DEF SentInv
<1> QED
  BY <1>2, <1>3 DEF FeedInv

\* The list fetcher is no part of this: it delivers nothing here.
LEMMA ListFeed ==
  ASSUME FeedInv, kind = "list", ~NotStarted, ~NotStarted', published <= published',
         published \in Nat, published' \in Nat, UNCHANGED <<firstID, delivered, kind>>
  PROVE  FeedInv'
<1>1. fpc' \notin {"probing", "built"}
  BY DEF NotStarted
<1>2. firstID' \in 2..(published' + 1)
  BY DEF FeedInv, SentInv
<1> QED
  BY <1>1, <1>2 DEF FeedInv, AnswersInv, PageInv, SentInv
\* The reader takes a title: it is that of the next notice.
LEMMA TakesNewsFeed ==
  ASSUME FetcherInv, FeedInv, TakesNews, UNCHANGED kind
  PROVE  FeedInv' /\ [Feed!Next]_(Feed!vars)
<1>0. FeedTypes /\ QuietBefore /\ AnswersInv /\ PageInv /\ SentInv
  BY DEF FetcherInv, FeedInv
<1>1. /\ newsChan # <<>> /\ newsChan' = Tail(newsChan)
      /\ delivered' = IF kind # "list" THEN Append(delivered, Head(newsChan)) ELSE delivered
      /\ UNCHANGED <<response, responses, url, published, fpc, nextNewsID, lastNewsTitle,
                     pending, firstID>>
  BY DEF TakesNews, TakeNews, pollerVars
<1>2. ~NotStarted /\ ~NotStarted' /\ published \in Nat
  BY <1>0, <1>1, TitleAssumption DEF NotStarted, QuietBefore, FeedTypes
<1>3. CASE kind = "list"
  <2>1. FeedInv'
    BY <1>1, <1>2, <1>3, ListFeed
  <2> QED
    BY <1>1, <1>3, <2>1 DEF Feed!vars
<1>4. CASE kind # "list"
  <2>1. Sent' = Sent
    BY <1>0, <1>1, <1>4, TakeSame
  <2>2. SentInv'
    BY <1>0, <1>1, <1>2, <1>4, <2>1 DEF SentInv
  <2>3. AnswersInv' /\ PageInv'
    BY <1>0, <1>1 DEF AnswersInv, PageInv, Asking, MovingOn, OnPage, Before, Fresh
  <2>4. Feed!Deliver
    <3>1. /\ newsChan \in Seq(Titles) /\ delivered \in Seq(Titles)
          /\ (fpc = "send" => <<pending>> \in Seq(Titles))
      BY <1>0 DEF FeedTypes
    <3>2. /\ delivered \o newsChan \in Seq(Titles)
          /\ Len(delivered) \in Nat /\ Len(newsChan) \in Nat \ {0}
          /\ Len(delivered \o newsChan) = Len(delivered) + Len(newsChan)
          /\ (delivered \o newsChan)[Len(delivered) + 1] = newsChan[1]
          /\ Head(newsChan) = newsChan[1]
      <4>1. Len(newsChan) \in Nat \ {0} /\ Head(newsChan) = newsChan[1]
        BY <1>1, <3>1, EmptySeq, LenProperties
      <4>2. 1 \in 1..Len(newsChan)
        BY <4>1
      <4> QED
        BY <3>1, <4>1, <4>2, InARow
    <3>3. /\ Len(Sent) >= Len(delivered) + 1
          /\ Sent[Len(delivered) + 1] = Head(newsChan)
      <4> DEFINE q == delivered \o newsChan
                 rest == IF fpc = "send" THEN <<pending>> ELSE <<>>
      <4>1. q \in Seq(Titles) /\ rest \in Seq(Titles) /\ Sent = q \o rest
        BY <3>1, <3>2 DEF Sent
      <4>2. Len(delivered) + 1 \in 1..Len(q)
        BY <3>2
      <4>3. q[Len(delivered) + 1] = Head(newsChan)
        BY <3>2
      <4> HIDE DEF q, rest
      <4>4. /\ Len(q) \in Nat /\ Len(rest) \in Nat
            /\ Len(q \o rest) = Len(q) + Len(rest)
            /\ \A i \in 1..Len(q) : (q \o rest)[i] = q[i]
        BY <4>1, InARow
      <4> QED
        BY <3>2, <4>1, <4>2, <4>3, <4>4
    <3>4. /\ firstID \in 2..(published + 1) /\ nextNewsID \in firstID..(published + 1)
          /\ Len(Sent) = nextNewsID - firstID
          /\ \A i \in 1..Len(Sent) : Sent[i] = TitleOf[firstID + i - 1]
      BY <1>0, <1>2, <1>4 DEF SentInv
    <3>5. /\ Len(delivered) + 1 \in 1..Len(Sent)
          /\ firstID + (Len(delivered) + 1) - 1 = firstID + Len(delivered)
          /\ firstID + Len(delivered) <= published /\ firstID > 0
      BY <1>2, <3>2, <3>3, <3>4
    <3> QED
      BY <1>1, <1>4, <3>3, <3>4, <3>5 DEF Feed!Deliver
  <2> QED
    BY <2>2, <2>3, <2>4 DEF FeedInv, Feed!Next
<1> QED
  BY <1>3, <1>4

LEMMA PublishFeed ==
  ASSUME FetcherInv, FeedInv, Publish, UNCHANGED kind
  PROVE  FeedInv' /\ Feed!Publish
<1>0. FeedTypes /\ AnswersInv /\ PageInv /\ SentInv
  BY DEF FetcherInv, FeedInv
<1>1. /\ published' = published + 1 /\ published < MaxID /\ published \in Nat
      /\ UNCHANGED <<response, responses, url, fpc, nextNewsID, lastNewsTitle, pending,
                     newsChan, firstID, delivered>>
  BY <1>0, TitleAssumption DEF Publish, pollerVars, feedVars, FeedTypes
<1>2. AnswersInv' /\ PageInv'
  <2>1. \A n : n \in 1..published => n \in 1..published'
    BY <1>1
  <2> QED
    BY <1>0, <1>1, <2>1 DEF AnswersInv, PageInv, Asking, MovingOn, OnPage, Before, Fresh
<1>3. SentInv'
  <2>1. Sent' = Sent /\ NotStarted' = NotStarted
    BY <1>1 DEF Sent, NotStarted
  <2>2. /\ \A n : n \in 2..(published + 1) => n \in 2..(published' + 1)
        /\ \A m \in Nat : \A n : n \in m..(published + 1) => n \in m..(published' + 1)
        /\ firstID \in Nat
    BY <1>0, <1>1 DEF FeedTypes
  <2> QED
    BY <1>0, <1>1, <2>1, <2>2 DEF SentInv
<1>4. Feed!Publish
  BY <1>1 DEF Feed!Publish
<1> QED
  BY <1>2, <1>3, <1>4 DEF FeedInv

LEMMA IdleFeed ==
  ASSUME FeedInv,
         UNCHANGED <<pollerVars, published, fpc, nextNewsID, lastNewsTitle, pending,
                     newsChan, firstID, delivered, kind>>
  PROVE  FeedInv'
<1>1. UNCHANGED <<url, response, responses>>
  BY DEF pollerVars
<1>2. AnswersInv' /\ PageInv'
  BY <1>1 DEF FeedInv, AnswersInv, PageInv, Asking, MovingOn, OnPage, Before, Fresh
<1>3. SentInv'
  BY DEF FeedInv, SentInv, Sent, NotStarted
<1> QED
  BY <1>2, <1>3 DEF FeedInv

\* The fetcher's own steps: the stream starts the feed, the others do not show.
LEMMA FetcherFeed ==
  ASSUME FetcherInv, FeedInv, FetcherRuns, UNCHANGED kind
  PROVE  FeedInv' /\ [Feed!Next]_(Feed!vars)
<1> USE DEF Feed!vars
<1>0. FeedTypes /\ SentInv /\ published \in Nat /\ kind \in {"byID", "list", "notice"}
  BY TitleAssumption DEF FetcherInv, FeedInv, FeedTypes
<1>1. CASE Stream /\ UNCHANGED sent
  BY <1>1, StreamFeed DEF Feed!Next
<1>2. CASE /\ UNCHANGED sent
           /\ ListNotices \/ ProbeExisting \/ ProbeMissing \/ ListInit
  <2>1. UNCHANGED <<published, firstID, delivered>>
    BY <1>2 DEF ListNotices, ProbeExisting, ProbeMissing, ListInit
  <2> QED
    BY <1>0, <1>2, <2>1, ConstructFeed
<1>3. CASE Receive429 \/ ReceiveOld \/ ReceiveNoNews \/ ReceiveTooMany
  <2>1. /\ fpc = "receive" /\ P!Receive /\ fpc' \in {"receive", "ended"}
        /\ UNCHANGED <<published, nextNewsID, lastNewsTitle, pending, newsChan, firstID,
                       delivered>>
    BY <1>3 DEF Receive429, ReceiveOld, ReceiveNoNews, ReceiveTooMany, InLoop, feedVars
  <2> QED
    BY <2>1, DropFeed
<1>4. CASE ByIDReceiveNew
  <2> DEFINE answer == Head(responses)
  <2>1. /\ kind = "byID" /\ fpc = "receive" /\ P!Receive
        /\ Fresh(answer) /\ fpc' = "send"
        /\ nextNewsID' = answer.id + 1
        /\ lastNewsTitle' = answer.title /\ pending' = answer.title
        /\ UNCHANGED <<published, newsChan, firstID, delivered>>
    BY <1>4 DEF ByIDReceiveNew, ReceiveNew, InLoop, IsNews, NextAfter, Fresh
  <2>2. answer.id = nextNewsID
    BY <2>1, ReceiveOrder DEF OnPage
  <2> QED
    BY <2>1, <2>2, NewsFeed
<1>5. CASE kind = "notice" /\ ReceiveNews
  BY <1>5, NewsFeed DEF ReceiveNews, IsNews, FollowingPage, Fresh
<1>6. CASE ListReceiveNew \/ ListSend
  <2>1. /\ kind = "list" /\ ~NotStarted /\ ~NotStarted'
        /\ UNCHANGED <<published, firstID, delivered>>
    BY <1>6 DEF ListReceiveNew, ListSend, ReceiveNew, InLoop, NotStarted
  <2> QED
    BY <1>0, <2>1, ListFeed
<1>7. CASE kind # "list" /\ SendNews
  BY <1>7, SendFeed DEF SendNews
<1>8. CASE kind # "list" /\ (CallSetURL \/ SetURLDone)
  <2>1. UNCHANGED <<published, firstID, delivered>>
    BY <1>8 DEF CallSetURL, SetURLDone
  <2> QED
    BY <1>8, <2>1, SetURLFeed
<1>9. CASE Construct
  BY <1>1, <1>2, <1>9 DEF Construct, ByIDList, ByIDProbe, ByIDNoMore, ByIDStream, ListInit,
                          ListStream
<1>10. CASE Loops
  BY <1>3, <1>4, <1>6, <1>7, <1>8, <1>10 DEF Loops, ByIDSend, ByIDSetURL
<1>11. CASE kind = "notice" /\ FetcherStep /\ UNCHANGED sent
  BY <1>1, <1>2, <1>3, <1>5, <1>7, <1>8, <1>11 DEF FetcherStep
<1> QED
  BY <1>9, <1>10, <1>11 DEF FetcherRuns

LEMMA NextFeed ==
  ASSUME SingleClient, FetcherInv, FeedInv, [ANext]_allVars
  PROVE  FeedInv' /\ [Feed!Next]_(Feed!vars)
<1> USE DEF Feed!vars
<1>0. FeedTypes /\ WireTypes /\ SentInv
  BY DEF FetcherInv, FeedInv
<1>1. CASE FetcherRuns /\ UNCHANGED kind
  BY <1>1, FetcherFeed
<1>2. CASE (PollerRuns \/ RequestFails) /\ UNCHANGED kind
  <2>1. WireStep
    BY <1>0, <1>2, PollerIsWireStep
  <2>2. UNCHANGED <<published, firstID, delivered>>
    BY <2>1 DEF WireStep, feedVars
  <2> QED
    BY <2>1, <2>2, WireFeed
<1>3. CASE Elsewhere /\ UNCHANGED kind
  <2>1. CASE InitFails
    <3>1. UNCHANGED <<published, firstID, delivered, sent>>
      BY <1>3, <2>1 DEF InitFails, Elsewhere
    <3> QED
      BY <1>0, <1>3, <2>1, <3>1, ConstructFeed
  <2>2. CASE TakesNews
    BY <1>3, <2>2, TakesNewsFeed
  <2>3. CASE Publish
    BY <1>3, <2>3, PublishFeed DEF Feed!Next
  <2>4. ASSUME NEW c \in Clients, HourPasses(c) PROVE FeedInv' /\ UNCHANGED Feed!vars
    BY <1>3, <2>4, IdleFeed DEF HourPasses
  <2> QED
    BY <1>3, <2>1, <2>2, <2>3, <2>4 DEF Elsewhere
<1>4. CASE UNCHANGED allVars
  <2>1. UNCHANGED <<pollerVars, published, fpc, nextNewsID, lastNewsTitle, pending,
                    newsChan, firstID, delivered, kind>>
    BY <1>4 DEF allVars, vars, feedVars
  <2> QED
    BY <2>1, IdleFeed
<1> QED
  BY <1>1, <1>2, <1>3, <1>4 DEF ANext

\* With a single client the fetchers that ask for one number after the other
\* implement the feed their names promise: each step is one of NoticeFeed or does
\* not show, so the reader gets the titles from the first number on, in order, each
\* once and none before it is published, whatever requests fail.  The titles need
\* not be different.
THEOREM SingleClientImplementsFeed ==
  ASSUME SingleClient PROVE ASpec => ImplementsFeed
<1>1. AInit => FeedInv /\ Feed!Init
  <2> SUFFICES ASSUME AInit PROVE FeedInv /\ Feed!Init
    OBVIOUS
  <2>1. fpc = "listing" /\ delivered = <<>> /\ firstID = 0 /\ published \in 1..MaxID
    BY DEF AInit, Init
  <2> QED
    BY <2>1 DEF FeedInv, AnswersInv, PageInv, SentInv, Asking, MovingOn, NotStarted, Feed!Init
<1>2. FetcherInv /\ FeedInv /\ [ANext]_allVars => FeedInv' /\ [Feed!Next]_(Feed!vars)
  BY NextFeed
<1> QED
  BY <1>1, <1>2, FetcherInvariant, PTL DEF ASpec, ImplementsFeed, Feed!Spec
=============================================================================
