--------------------------- MODULE MCHTTPClients ---------------------------
(* A small instance of HTTPClients for TLC. *)
EXTENDS HTTPClients

\* A good page, encoded or not, one that cannot be decoded, and a refusal.
MCReplies == {[status |-> 200, encoded |-> TRUE,  broken |-> FALSE],
              [status |-> 200, encoded |-> FALSE, broken |-> FALSE],
              [status |-> 200, encoded |-> TRUE,  broken |-> TRUE],
              [status |-> 429, encoded |-> TRUE, broken |-> FALSE]}
=============================================================================
