----------------------------- MODULE NoticeFeed -----------------------------
(***************************************************************************)
(* What NoticeByIDFetcher promises to its reader: the titles of the        *)
(* notices published since it started, in the order of their numbers, each *)
(* exactly once, and never before the notice is published.                 *)
(***************************************************************************)
EXTENDS Naturals, Sequences

CONSTANTS MaxID,    \* bound: number of the last notice ever published
          TitleOf   \* the title of each notice

VARIABLES published,  \* number of the latest notice published
          firstID,    \* number of the first notice the feed is to deliver
          delivered   \* the titles delivered

vars == <<published, firstID, delivered>>

Init == /\ published \in 1..MaxID
        /\ firstID = 0
        /\ delivered = <<>>

Publish == /\ published < MaxID
           /\ published' = published + 1
           /\ UNCHANGED <<firstID, delivered>>

\* The feed starts behind the notices that exist when it looks.
Start == /\ firstID = 0
         /\ firstID' \in 2..(published + 1)
         /\ UNCHANGED <<published, delivered>>

Deliver == /\ firstID > 0
           /\ LET id == firstID + Len(delivered)
              IN  /\ id <= published
                  /\ delivered' = Append(delivered, TitleOf[id])
           /\ UNCHANGED <<published, firstID>>

Next == Publish \/ Start \/ Deliver

Spec == Init /\ [][Next]_vars
=============================================================================
