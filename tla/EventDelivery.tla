---------------------------- MODULE EventDelivery ----------------------------
(***************************************************************************)
(* What the realtime connection promises to the rest of the client, with   *)
(* sockets, timers and sequence numbers left out.  The server publishes    *)
(* events 1, 2, 3, ...  A logged-in client is handed events one by one; it *)
(* may also be told to refresh over HTTP, which accounts for every event   *)
(* published so far.  It is never handed an event out of order, twice, or  *)
(* past a gap that no refresh accounts for.                                *)
(***************************************************************************)
EXTENDS Naturals

CONSTANT MaxEvents          \* bound: number of events the server publishes

VARIABLES
    issued,     \* number of events published by the server
    last,       \* the latest event handed over in this session, 0 if none
    covered,    \* events 1..covered are accounted for by a refresh
    session     \* TRUE while the user is logged in

vars == <<issued, last, covered, session>>

Init ==
    /\ issued = 0
    /\ last = 0
    /\ covered = 0
    /\ session = FALSE

Publish ==
    /\ issued < MaxEvents
    /\ issued' = issued + 1
    /\ UNCHANGED <<last, covered, session>>

\* A new session starts with nothing handed over.
Login ==
    /\ ~session
    /\ session' = TRUE
    /\ last' = 0
    /\ UNCHANGED <<issued, covered>>

Logout ==
    /\ session
    /\ session' = FALSE
    /\ UNCHANGED <<issued, last, covered>>

\* The client starts from, or is told to fetch again, the history so far.
Refresh ==
    /\ session
    /\ covered' = issued
    /\ UNCHANGED <<issued, last, session>>

\* Event e is handed over: it is new, and everything between the previous one
\* and e is accounted for by a refresh.
Handle ==
    /\ session
    /\ \E e \in last + 1 .. issued :
          /\ \A f \in last + 1 .. e - 1 : f <= covered
          /\ last' = e
    /\ UNCHANGED <<issued, covered, session>>

Next == Publish \/ Login \/ Logout \/ Refresh \/ Handle

Spec == Init /\ [][Next]_vars
==============================================================================
