------------------------- MODULE MCSequentialParts -------------------------
(***************************************************************************)
(* Small instances of the three parts that are one goroutine's own: Build  *)
(* with the constructor of the pool (ClientGroups), the pacing of the      *)
(* polling loop (PollPacing) and its work schedule (WorkSchedule).  They   *)
(* share no state, and a behaviour picks the one that runs.                *)
(***************************************************************************)
EXTENDS ClientGroups, PollPacing, WorkSchedule

VARIABLE part

\* A wait of a few intervals is what an exhausted pool or a pause amounts to.
MCWaits == 0..7

\* Started in hours, before them, and after them, when NextWorkSession returns
\* a negative duration.
MCStartDelays == {0, 4, -7}

\* From the first to the last instant of the day, inside the day, with a
\* preparation time, and with a preparation time that reaches over midnight.
MCEntries == {[start |-> 0, end |-> 5, preparation |-> 0],
              [start |-> 2, end |-> 3, preparation |-> 0],
              [start |-> 3, end |-> 4, preparation |-> 1],
              [start |-> 1, end |-> 5, preparation |-> 2]}

\* A part that does not run has one initial state.
PartsInit ==
    /\ part \in {"build", "pacing", "hours"}
    /\ BuildInit
    /\ part # "build" => usable /\ proxies = 0 /\ targetRPS = 0 /\ singleProxyMaxRPS = 0
    /\ Init
    /\ part # "pacing" => startDelay = 0
    /\ HoursInit
    /\ part # "hours" => schedule = [d \in Days |-> NoWork] /\ day = 0 /\ clock = 0

Builds == part = "build"  /\ BuildNext /\ UNCHANGED <<part, vars, hoursVars>>
Paces  == part = "pacing" /\ Next      /\ UNCHANGED <<part, buildVars, hoursVars>>
Works  == part = "hours"  /\ HoursNext /\ UNCHANGED <<part, buildVars, vars>>

PartsSpec == PartsInit /\ [][Builds \/ Paces \/ Works]_<<part, buildVars, vars, hoursVars>>
=============================================================================
