--------------------------- MODULE RealtimeFallback ---------------------------
(***************************************************************************)
(* How new posts of the current channel reach the user: as events while    *)
(* the WebSocket is up, by RealtimeFallbackService polling over HTTP while *)
(* it is down, and by the acknowledgement of the user's own posts.         *)
(*                                                                         *)
(* Posts are the root posts of one channel, numbered in the order of their *)
(* creation.  The socket is reduced to the two signals of Backend.  A      *)
(* server that resumes the stream sends the events of the outage; one that *)
(* starts a new stream does not, and Backend refreshes the channel.  That  *)
(* refresh always succeeds here, for nothing repeats it; polls may fail.   *)
(* Posts are neither deleted nor evicted, and a poll finds less than a     *)
(* page.                                                                   *)
(***************************************************************************)
EXTENDS Naturals, Sequences, FiniteSets, FiniteSetsExt

CONSTANTS
    MaxPosts,       \* bound: posts of the channel
    MaxOwn,         \* bound: of these, posts of the user
    MaxOutages,     \* bound: times the socket goes down
    MaxPolls        \* bound: poll requests that are never answered with success

ASSUME FallbackAssumption ==
    MaxPosts \in Nat /\ MaxOwn \in Nat /\ MaxOutages \in Nat /\ MaxPolls \in Nat

VARIABLES
    \* server and network
    created,        \* posts 1..created exist
    own,            \* those of the user, the acknowledgement still on its way
    ownCount,       \* posts the user has sent
    stream,         \* posted events the server has not yet got through
    socket,         \* "up" after onWebSocketConnect, "down" after onWebSocketDisconnect
    refresh,        \* Backend::retrieveChannelPosts: "none", "sent"
    outages, failures, \* budgets used
    \* client
    opened,         \* backend.getCurrentChannel() # nullptr
    resident,       \* channel->postIdToPost
    polling, requestInFlight,
    polls,          \* poll requests: posts known when they left, and the answer
    \* history
    polled          \* polled[p]: times a poll published p as new

fallbackVars == <<created, own, ownCount, stream, socket, refresh, outages, failures, opened,
                  resident, polling, requestInFlight, polls, polled>>

server == <<created, own, ownCount>>
budgets == <<outages, failures>>

Roots == 1 .. MaxPosts
Poll == [state : {"sent", "answered", "failed"}, known : SUBSET Roots,
         after : 0 .. MaxPosts, reply : SUBSET Roots]

FallbackTypeOK ==
    /\ created \in 0 .. MaxPosts /\ ownCount \in 0 .. MaxOwn
    /\ own \subseteq 1 .. created
    /\ stream \in Seq(Roots)
    /\ socket \in {"up", "down"}
    /\ refresh \in {"none", "sent"}
    /\ outages \in 0 .. MaxOutages /\ failures \in 0 .. MaxPolls
    /\ opened \in BOOLEAN /\ polling \in BOOLEAN /\ requestInFlight \in BOOLEAN
    /\ resident \subseteq 1 .. created
    /\ polls \in SUBSET Poll
    /\ polled \in [Roots -> Nat]

\* The socket is connected, and the channel, if one is open, shows what there is.
FallbackInit ==
    /\ created \in {0, 1} \cap 0 .. MaxPosts
    /\ own = {} /\ ownCount = 0 /\ stream = <<>>
    /\ socket = "up" /\ refresh = "none"
    /\ outages = 0 /\ failures = 0
    /\ opened \in BOOLEAN
    /\ resident = IF opened THEN 1 .. created ELSE {}
    /\ polling = FALSE /\ requestInFlight = FALSE
    /\ polls = {}
    /\ polled = [p \in Roots |-> 0]

-------------------------------------------------------------------------------
(* RealtimeFallbackService                                                    *)

pollNowUnguarded ==                                                     \* mutant
    IF ~opened THEN UNCHANGED <<requestInFlight, polls>>
    ELSE /\ requestInFlight' = TRUE
         /\ polls' = polls \cup {[state |-> "sent", known |-> resident,
                                  after |-> Max(resident \cup {0}), reply |-> {}]}

pollNowSkips ==                                                         \* mutant
    IF requestInFlight \/ ~opened THEN UNCHANGED <<requestInFlight, polls>>
    ELSE /\ requestInFlight' = TRUE
         /\ polls' = polls \cup {[state |-> "sent", known |-> resident,
                                  after |-> Max(resident \cup {0}) + 1, reply |-> {}]}

\* With polling' set: ask for what is newer than the newest resident root, or, with
\* none, for the newest page.
pollNow ==
    IF requestInFlight \/ ~opened THEN UNCHANGED <<requestInFlight, polls>>
    ELSE /\ requestInFlight' = TRUE
         /\ polls' = polls \cup {[state |-> "sent", known |-> resident,
                                  after |-> Max(resident \cup {0}), reply |-> {}]}

\* onWebSocketDisconnect.
startPolling ==
    IF polling THEN UNCHANGED <<polling, requestInFlight, polls>>
    ELSE polling' = TRUE /\ pollNow

pollTimeout ==
    /\ polling
    /\ pollNow
    /\ UNCHANGED <<server, stream, socket, refresh, budgets, opened, resident, polling,
                   polled>>

deliverSticky(r) ==                                                     \* mutant
    /\ r.state # "sent"
    /\ polls' = polls \ {r}
    /\ requestInFlight' = (r.state = "failed")
    /\ resident' = resident \cup r.reply
    /\ polled' = [p \in Roots |-> polled[p] + IF p \in r.reply \ r.known THEN 1 ELSE 0]
    /\ UNCHANGED <<server, stream, socket, refresh, budgets, opened, polling>>

\* The answer to a poll: PostRepository merges the posts, then those are published
\* that were not known when the poll started.
deliver(r) ==
    /\ r.state # "sent"
    /\ polls' = polls \ {r}
    /\ requestInFlight' = FALSE
    /\ resident' = resident \cup r.reply
    /\ polled' = [p \in Roots |-> polled[p] + IF p \in r.reply \ r.known THEN 1 ELSE 0]
    /\ UNCHANGED <<server, stream, socket, refresh, budgets, opened, polling>>

-------------------------------------------------------------------------------
(* Backend, WebSocketEventHandler, PostCreateService                          *)

disconnected ==
    /\ socket = "up" /\ outages < MaxOutages
    /\ outages' = outages + 1
    /\ socket' = "down"
    /\ startPolling
    /\ UNCHANGED <<server, stream, refresh, failures, opened, resident, polled>>

\* stopPolling leaves a poll that is out alone. A new stream loses the events of the
\* outage; if a channel is open it is refreshed.
connected ==
    /\ socket = "down"
    /\ socket' = "up"
    /\ polling' = FALSE
    /\ \/ UNCHANGED <<stream, refresh>>
       \/ /\ stream' = <<>>
          /\ refresh' = IF opened THEN "sent" ELSE refresh
    /\ UNCHANGED <<server, budgets, opened, resident, requestInFlight, polls, polled>>

\* The refresh is answered and merged; its posts are not published as new.
refreshed ==
    /\ refresh = "sent"
    /\ refresh' = "none"
    /\ resident' = resident \cup 1 .. created
    /\ UNCHANGED <<server, stream, socket, budgets, opened, polling, requestInFlight,
                   polls, polled>>

\* A posted event: the channel that is open is hot, so the post enters memory.
postedEvent ==
    /\ socket = "up" /\ stream # <<>>
    /\ stream' = Tail(stream)
    /\ resident' = IF opened THEN resident \cup {Head(stream)} ELSE resident
    /\ UNCHANGED <<server, socket, refresh, budgets, opened, polling, requestInFlight,
                   polls, polled>>

\* ingestCreatedPost.
ownPostCreated(p) ==
    /\ p \in own
    /\ own' = own \ {p}
    /\ resident' = resident \cup {p}
    /\ UNCHANGED <<created, ownCount, stream, socket, refresh, budgets, opened, polling,
                   requestInFlight, polls, polled>>

\* The user opens the channel and its page loads.
openChannel ==
    /\ ~opened
    /\ opened' = TRUE
    /\ resident' = resident \cup 1 .. created
    /\ UNCHANGED <<server, stream, socket, refresh, budgets, polling, requestInFlight,
                   polls, polled>>

-------------------------------------------------------------------------------
(* The server (external)                                                      *)

create ==
    /\ created < MaxPosts
    /\ created' = created + 1
    /\ stream' = Append(stream, created')
    /\ \/ UNCHANGED <<own, ownCount>>
       \/ /\ opened /\ ownCount < MaxOwn
          /\ ownCount' = ownCount + 1
          /\ own' = own \cup {created'}
    /\ UNCHANGED <<socket, refresh, budgets, opened, resident, polling, requestInFlight,
                   polls, polled>>

Answered(r, answer) ==
    /\ r.state = "sent"
    /\ polls' = (polls \ {r}) \cup {answer}
    /\ UNCHANGED <<server, stream, socket, refresh, outages, opened, resident, polling,
                   requestInFlight, polled>>

answer(r) ==
    /\ Answered(r, [r EXCEPT !.state = "answered", !.reply = r.after + 1 .. created])
    /\ UNCHANGED failures

fail(r) ==
    /\ failures < MaxPolls
    /\ failures' = failures + 1
    /\ Answered(r, [r EXCEPT !.state = "failed"])

FallbackNext ==
    \/ pollTimeout \/ disconnected \/ connected \/ refreshed \/ postedEvent
    \/ openChannel \/ create
    \/ \E p \in own : ownPostCreated(p)
    \/ \E r \in polls : deliver(r) \/ answer(r) \/ fail(r)

FallbackSpec == FallbackInit /\ [][FallbackNext]_fallbackVars

\* The timer fires, the event loop runs, HTTP requests are answered. Nothing says
\* that the socket comes up again.
FairFallbackSpec ==
    /\ FallbackSpec
    /\ WF_fallbackVars(pollTimeout) /\ WF_fallbackVars(refreshed) /\ WF_fallbackVars(postedEvent)
    /\ WF_fallbackVars(\E p \in own : ownPostCreated(p))
    /\ WF_fallbackVars(\E r \in polls : deliver(r)) /\ WF_fallbackVars(\E r \in polls : answer(r))

-------------------------------------------------------------------------------
(* Properties                                                                 *)

\* However often the socket comes and goes while a poll is out, the polls together
\* publish a post as new at most once: each announcement notifies the user.
PolledAtMostOnce == \A p \in Roots : polled[p] =< 1

\* A poll that failed does not leave the service waiting for an answer for ever:
\* requestInFlight is set exactly while one request is out.
NeverWedged == Cardinality(polls) = IF requestInFlight THEN 1 ELSE 0

\* Polls come one at a time, and each announces what no other has.
OnePoll == PolledAtMostOnce /\ NeverWedged

\* "Keeps the active channel usable when WebSocket transport is unavailable": a post
\* of the open channel is shown in the end, even if the socket stays down.
EveryPostShown ==
    \A p \in Roots : opened /\ p =< created ~> p \in resident

\* It is, provided that the user sends nothing: no poll that fails, crosses a change of
\* the socket or finds the channel still closed leaves a post out for good.
ShownUnlessOwn == [](ownCount = 0) => EveryPostShown

=============================================================================
