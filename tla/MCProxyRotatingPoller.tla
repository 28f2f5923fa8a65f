----------------------- MODULE MCProxyRotatingPoller -----------------------
(* Small instances of ProxyRotatingPoller for TLC. *)
EXTENDS ProxyRotatingPoller, TLC

CONSTANTS a, b, d, g1, g2

\* One client in each of two groups.
TwoClients == [g \in {g1, g2} |-> IF g = g1 THEN {a} ELSE {b}]
=============================================================================
