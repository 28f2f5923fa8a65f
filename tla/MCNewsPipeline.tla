--------------------------- MODULE MCNewsPipeline ---------------------------
(* A small instance of NewsPipeline for TLC. *)
EXTENDS NewsPipeline

CONSTANTS one, two, other, A, B

\* A listing of one token, one of two, and news without a ticker.
MCTickersOf == [t \in {one, two, other} |-> IF t = one THEN <<A>>
                                            ELSE IF t = two THEN <<B, A>> ELSE <<>>]

\* A contract with limits, and one without.
MCContracts == {[quanto |-> 2, min |-> 1, max |-> 3], [quanto |-> 1, min |-> 0, max |-> 0]}

\* A price that gives several contracts, one that gives less than one, and two
\* the code cannot read.
MCLasts == {[price |-> 1, parsed |-> "number"], [price |-> 9, parsed |-> "number"],
            [price |-> 1, parsed |-> "malformed"], [price |-> 9, parsed |-> "outOfRange"]}
=============================================================================
