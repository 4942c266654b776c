---------------------------- MODULE HTTPConnector ----------------------------
(***************************************************************************)
(* The HTTP transport: every component owns an HTTPConnector with a queue  *)
(* of each priority, and all connectors share one limit on the requests    *)
(* that are out.  A connector can be reset (end of a session), restarted   *)
(* (the network route changed) and destroyed (a dialog is closed).         *)
(*                                                                         *)
(* Everything runs in the main thread, but not atomically: a response      *)
(* handler may make calls and reset connectors, and a restart aborts its   *)
(* replies one by one, each abort running the handler of a write.  While   *)
(* they run, the event loop delivers nothing.                              *)
(*                                                                         *)
(* A request stands for one call of get, post, put or del.  A reply is     *)
(* known by its request; one that was started before the last reset of its *)
(* connector, that is, with another generation, is in old.                 *)
(***************************************************************************)
EXTENDS SequencesExt

CONSTANTS
    Connectors,
    Requests,
    Owner,          \* Owner[r]: the connector r is made through
    Gets,           \* the requests made with get
    Low,            \* the requests with LowPriority
    MaxConcurrentRequests,
    MaxRestarts,    \* bound: calls of restartTransport and restartAllTransports
    MaxResets       \* bound: calls of reset

ASSUME HTTPAssumption ==
    /\ IsFiniteSet(Requests)
    /\ Owner \in [Requests -> Connectors]
    /\ Gets \subseteq Requests /\ Low \subseteq Requests
    /\ MaxConcurrentRequests \in Nat \ {0}
    /\ MaxRestarts \in Nat /\ MaxResets \in Nat

VARIABLES
    connectors,     \* the connectors that exist
    high, low,      \* highPriorityRequests and lowPriorityRequests of each connector
    active,         \* activeReplies of all connectors
    activeRequests, globalActiveRequests,
    restarting,     \* connectors with restartingTransport set
    toRestart,      \* the rest of the snapshot of restartAllTransports
    aborting,       \* the rest of the snapshot of restartTransport
    handling,       \* the request whose response handler runs, if any
    old,            \* replies and running handlers of an earlier generation
    outcome,        \* history: what became of each request
    sends,          \* history: how often it was handed to the network
    restarts, resets \* budgets used

control == <<restarting, toRestart, aborting>>
budgets == <<restarts, resets>>
limiter == <<high, low, active, activeRequests, globalActiveRequests, sends>>
vars == <<connectors, limiter, control, handling, old, outcome, budgets>>

Of(c, S) == {r \in S : Owner[r] = c}
Leading(q, k) == {q[i] : i \in 1 .. k}

TypeOK ==
    /\ connectors \subseteq Connectors
    /\ high \in [Connectors -> Seq(Requests)] /\ low \in [Connectors -> Seq(Requests)]
    /\ active \subseteq Requests /\ old \subseteq Requests
    /\ activeRequests \in [Connectors -> Nat] /\ globalActiveRequests \in Nat
    /\ restarting \subseteq Connectors /\ toRestart \subseteq Connectors
    /\ aborting \subseteq active /\ handling \subseteq Requests
    /\ outcome \in [Requests -> {"none", "pending", "answered", "cancelled", "dropped"}]
    /\ sends \in [Requests -> Nat]
    /\ restarts \in 0 .. MaxRestarts /\ resets \in 0 .. MaxResets

Init ==
    /\ connectors = Connectors
    /\ high = [c \in Connectors |-> <<>>] /\ low = [c \in Connectors |-> <<>>]
    /\ active = {} /\ old = {}
    /\ activeRequests = [c \in Connectors |-> 0] /\ globalActiveRequests = 0
    /\ restarting = {} /\ toRestart = {} /\ aborting = {}
    /\ handling = {}
    /\ outcome = [r \in Requests |-> "none"]
    /\ sends = [r \in Requests |-> 0]
    /\ restarts = 0 /\ resets = 0

\* Nothing is on the stack: events are delivered.
EventLoop == handling = {} /\ restarting = {} /\ toRestart = {}

\* The application runs: from the event loop, or in a response handler.
Application == EventLoop \/ handling # {}

-------------------------------------------------------------------------------
(* The limiter                                                                *)

\* processQueues, with the queues h and l, the replies a, and the counters already
\* changed by its caller: the connectors in serving start requests while a slot is
\* free, in any order of connectors, a low one only when no high one is left.
processQueues(serving, h, l, a, count, total) ==
    \E m, n \in [Connectors -> 0 .. MaxConcurrentRequests] :
      LET started == UNION {Leading(h[c], m[c]) \cup Leading(l[c], n[c]) : c \in Connectors} IN
      /\ \A c \in Connectors :
           /\ m[c] =< Len(h[c]) /\ n[c] =< Len(l[c])
           /\ c \notin serving => m[c] = 0 /\ n[c] = 0
      /\ high' = [c \in Connectors |-> SubSeq(h[c], m[c] + 1, Len(h[c]))]
      /\ low' = [c \in Connectors |-> SubSeq(l[c], n[c] + 1, Len(l[c]))]
      /\ active' = a \cup started
      /\ activeRequests' = [c \in Connectors |-> count[c] + Cardinality(Of(c, started))]
      /\ globalActiveRequests' = total + Cardinality(started)
      /\ started # {} => globalActiveRequests' =< MaxConcurrentRequests
      /\ \/ globalActiveRequests' >= MaxConcurrentRequests
         \/ \A c \in serving : high'[c] = <<>> /\ low'[c] = <<>>
      /\ \A c, d \in serving : n[c] > 0 => high'[d] = <<>>
      /\ sends' = [r \in Requests |-> sends[r] + IF r \in started THEN 1 ELSE 0]

Serving == connectors \ restarting

\* qMax(0, n - k).
Minus(n, k) == IF n > k THEN n - k ELSE 0

Release(c) == [activeRequests EXCEPT ![c] = Minus(@, 1)]

-------------------------------------------------------------------------------
(* Calls                                                                      *)

\* get, post, put and del.
enqueue(r) ==
    LET c == Owner[r] IN
    /\ Application
    /\ c \in connectors
    /\ outcome[r] = "none"
    /\ outcome' = [outcome EXCEPT ![r] = "pending"]
    /\ processQueues(Serving,
                     IF r \in Low THEN high ELSE [high EXCEPT ![c] = Append(@, r)],
                     IF r \in Low THEN [low EXCEPT ![c] = Append(@, r)] ELSE low,
                     active, activeRequests, globalActiveRequests)
    /\ UNCHANGED <<connectors, control, handling, old, budgets>>

-------------------------------------------------------------------------------
(* Replies                                                                    *)

\* The reply has finished or failed: its response handler starts, its slot held.
finished(r) ==
    /\ EventLoop
    /\ r \in active
    /\ active' = active \ {r}
    /\ handling' = {r}
    /\ outcome' = [outcome EXCEPT ![r] = "answered"]
    /\ UNCHANGED <<connectors, high, low, activeRequests, globalActiveRequests, sends,
                   control, old, budgets>>

handlerReturnedTwice(r) ==                                              \* mutant
    /\ r \in handling
    /\ handling' = {}
    /\ old' = old \ {r}
    /\ processQueues(Serving, high, low, active, Release(Owner[r]),
                     Minus(globalActiveRequests, 1))
    /\ UNCHANGED <<connectors, control, outcome, budgets>>

\* A handler that has reset its connector has released the slot with it. One that was
\* run by an abort leaves the queues to the restart.
handlerReturned(r) ==
    /\ r \in handling
    /\ handling' = {}
    /\ IF r \in old
       THEN /\ old' = old \ {r}
            /\ UNCHANGED limiter
       ELSE /\ UNCHANGED old
            /\ IF Owner[r] \in restarting
               THEN /\ activeRequests' = Release(Owner[r])
                    /\ globalActiveRequests' = Minus(globalActiveRequests, 1)
                    /\ UNCHANGED <<high, low, active, sends>>
               ELSE processQueues(Serving, high, low, active, Release(Owner[r]),
                                  Minus(globalActiveRequests, 1))
    /\ UNCHANGED <<connectors, control, outcome, budgets>>

lateFinishedCounted(r) ==                                               \* mutant
    /\ EventLoop
    /\ r \in old
    /\ old' = old \ {r}
    /\ processQueues(Serving, high, low, active, Release(Owner[r]),
                     Minus(globalActiveRequests, 1))
    /\ UNCHANGED <<connectors, control, handling, outcome, budgets>>

\* A reply of an earlier generation: nobody is told, no slot is released.
lateFinished(r) ==
    /\ EventLoop
    /\ r \in old
    /\ old' = old \ {r}
    /\ UNCHANGED <<connectors, limiter, control, handling, outcome, budgets>>

-------------------------------------------------------------------------------
(* Restarting the transport                                                   *)

\* restartTransport of one connector, or restartAllTransports.
restart(S) ==
    /\ EventLoop
    /\ restarts < MaxRestarts
    /\ restarts' = restarts + 1
    /\ toRestart' = S
    /\ UNCHANGED <<connectors, limiter, restarting, aborting, handling, old, outcome,
                   resets>>

ReplayedAll(S) == S                                                     \* mutant
Replayed(S) == S \cap Gets

\* The reads that are out go back to the front of their queues, in any order.
restartTransport(c) ==
    /\ c \in toRestart
    /\ restarting = {} /\ handling = {}
    /\ toRestart' = toRestart \ {c}
    /\ restarting' = {c}
    /\ aborting' = Of(c, active)
    /\ \E h \in SetToSeqs(Replayed(Of(c, active)) \ Low) :
         high' = [high EXCEPT ![c] = h \o @]
    /\ \E l \in SetToSeqs(Replayed(Of(c, active)) \cap Low) :
         low' = [low EXCEPT ![c] = l \o @]
    /\ UNCHANGED <<connectors, active, activeRequests, globalActiveRequests, sends,
                   handling, old, outcome, budgets>>

abortTold(r) ==                                                         \* mutant
    /\ r \in aborting /\ handling = {}
    /\ aborting' = aborting \ {r}
    /\ active' = active \ {r}
    /\ handling' = {r}
    /\ outcome' = [outcome EXCEPT ![r] = "cancelled"]
    /\ UNCHANGED <<connectors, high, low, activeRequests, globalActiveRequests, sends,
                   restarting, toRestart, old, budgets>>

\* The next reply of the snapshot is aborted and finishes at once: a read silently, a
\* write with OperationCanceledError.
abort(r) ==
    /\ r \in aborting /\ handling = {}
    /\ aborting' = aborting \ {r}
    /\ active' = active \ {r}
    /\ IF r \in Replayed({r})
       THEN /\ activeRequests' = Release(Owner[r])
            /\ globalActiveRequests' = Minus(globalActiveRequests, 1)
            /\ UNCHANGED <<handling, outcome>>
       ELSE /\ handling' = {r}
            /\ outcome' = [outcome EXCEPT ![r] = "cancelled"]
            /\ UNCHANGED <<activeRequests, globalActiveRequests>>
    /\ UNCHANGED <<connectors, high, low, sends, restarting, toRestart, old, budgets>>

restartFinishedIdle(c) ==                                               \* mutant
    /\ c \in restarting
    /\ aborting = {} /\ handling = {}
    /\ restarting' = {}
    /\ UNCHANGED <<connectors, limiter, toRestart, aborting, handling, old, outcome,
                   budgets>>

\* A new manager, and the queues are served again.
restartFinished(c) ==
    /\ c \in restarting
    /\ aborting = {} /\ handling = {}
    /\ restarting' = {}
    /\ processQueues(connectors, high, low, active, activeRequests, globalActiveRequests)
    /\ UNCHANGED <<connectors, toRestart, aborting, handling, old, outcome, budgets>>

-------------------------------------------------------------------------------
(* Giving a connector up                                                      *)

\* Queue, replies and slots of c are given up; the connectors in serving go on.
GiveUp(c, serving) ==
    /\ outcome' = [r \in Requests |->
                     IF Owner[r] = c /\ outcome[r] = "pending" THEN "dropped"
                     ELSE outcome[r]]
    /\ processQueues(serving,
                     [high EXCEPT ![c] = <<>>], [low EXCEPT ![c] = <<>>],
                     active \ Of(c, active),
                     [activeRequests EXCEPT ![c] = 0],
                     Minus(globalActiveRequests, activeRequests[c]))

resetKeepsRestarting(c) ==                                              \* mutant
    /\ Application
    /\ c \in connectors
    /\ resets < MaxResets
    /\ resets' = resets + 1
    /\ old' = old \cup Of(c, active) \cup Of(c, handling)
    /\ GiveUp(c, Serving)
    /\ UNCHANGED <<connectors, control, handling, restarts>>

\* In a handler that a restart of c runs, reset ends the restart too: nothing is left
\* to abort.
reset(c) ==
    /\ Application
    /\ c \in connectors
    /\ resets < MaxResets
    /\ resets' = resets + 1
    /\ old' = old \cup Of(c, active) \cup Of(c, handling)
    /\ restarting' = restarting \ {c}
    /\ aborting' = aborting \ Of(c, aborting)
    /\ GiveUp(c, connectors \ restarting')
    /\ UNCHANGED <<connectors, toRestart, handling, restarts>>

\* ~HTTPConnector: the replies go with the manager, their signals with the connector.
destroy(c) ==
    /\ EventLoop
    /\ c \in connectors
    /\ connectors' = connectors \ {c}
    /\ old' = old \ Of(c, old)
    /\ GiveUp(c, connectors')
    /\ UNCHANGED <<control, handling, budgets>>

Next ==
    \/ \E r \in Requests : \/ enqueue(r) \/ finished(r) \/ handlerReturned(r)
                           \/ lateFinished(r) \/ abort(r)
    \/ \E c \in connectors : restart({c}) \/ reset(c) \/ destroy(c)
    \/ restart(connectors)
    \/ \E c \in Connectors : restartTransport(c) \/ restartFinished(c)

Spec == Init /\ [][Next]_vars

\* Every reply finishes or fails (there is no time limit in the code: this is what the
\* network stack must do), and what has begun in the main thread is carried on.
FairSpec ==
    /\ Spec
    /\ \A r \in Requests : WF_vars(finished(r)) /\ WF_vars(handlerReturned(r)) /\ WF_vars(abort(r))
    /\ \A c \in Connectors : WF_vars(restartTransport(c)) /\ WF_vars(restartFinished(c))

-------------------------------------------------------------------------------
(* Properties                                                                 *)

\* The requests that hold a slot: replies that are out, and the one being handled
\* unless its connector was reset meanwhile.
Occupied == active \cup (handling \ old)

\* The counters tell the slots held exactly: through replays, cancelled writes, late
\* replies and resets from inside a handler, no slot leaks and none is released twice.
SlotsMatch ==
    /\ \A c \in Connectors : activeRequests[c] = Cardinality(Of(c, Occupied))
    /\ globalActiveRequests = Cardinality(Occupied)

\* However connectors come and go, the requests that are out stay below the limit.
LimitKept == Cardinality(Occupied) =< MaxConcurrentRequests

\* The places where the outcome of r is still to come: a queue, or a reply that is not
\* about to be replayed.
Queued(r) == \E c \in Connectors : r \in Range(high[c]) \cup Range(low[c])
Out(r) == r \in active /\ ~(r \in aborting /\ Queued(r))

\* A call that is pending is queued or out, never both and never neither, and no other
\* is: a replay neither loses a read nor makes a second one of it.
Accounted ==
    \A r \in Requests : /\ outcome[r] = "pending" <=> Queued(r) \/ Out(r)
                        /\ ~(Queued(r) /\ Out(r))

\* A write is handed to the network at most once: the server may have carried it out
\* although its reply was lost.
WritesSentOnce == \A r \in Requests \ Gets : sends[r] =< 1

\* Back in the event loop, no request waits while a slot is free, although restarts and
\* aborted replies put off serving the queues.
NoIdleSlot ==
    EventLoop /\ globalActiveRequests < MaxConcurrentRequests
        => \A c \in connectors : high[c] = <<>> /\ low[c] = <<>>

\* The slots are counted exactly, never more than the limit are held, and none lies idle
\* while a request waits (HTTPConnector.cpp:460, :470).
SlotsServed == SlotsMatch /\ LimitKept /\ NoIdleSlot

\* The caller of a request hears of it in the end, unless its connector is given up.
EveryCallReturns == \A r \in Requests : outcome[r] = "pending" ~> outcome[r] # "pending"

=============================================================================
