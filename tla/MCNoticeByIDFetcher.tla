------------------------ MODULE MCNoticeByIDFetcher ------------------------
(* Small instances of NoticeByIDFetcher for TLC. *)
EXTENDS NoticeByIDFetcher, TLC

CONSTANTS a, b, g1, g2, t1, t2, t3

\* One proxy, and two proxies in one group.
OneClient == [g \in {g1} |-> {a}]
TwoInOneGroup == [g \in {g1} |-> {a, b}]

\* Every notice has a title of its own.
DistinctTitles == <<t1, t2, t3>>
=============================================================================
