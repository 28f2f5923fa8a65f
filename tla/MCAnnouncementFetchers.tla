----------------------- MODULE MCAnnouncementFetchers -----------------------
(* Small instances of AnnouncementFetchers for TLC. *)
EXTENDS AnnouncementFetchers, TLC

CONSTANTS a, b, g1, t1, t2, t3

\* One proxy, and two proxies in one group.
OneClient == [g \in {g1} |-> {a}]
TwoInOneGroup == [g \in {g1} |-> {a, b}]

\* Every announcement has a title of its own.
DistinctTitles == <<t1, t2, t3>>
=============================================================================
