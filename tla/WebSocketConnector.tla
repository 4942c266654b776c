-------------------------- MODULE WebSocketConnector --------------------------
(***************************************************************************)
(* The realtime connection of the client: WebSocketConnector.cpp with the  *)
(* server and the network it talks to.                                     *)
(*                                                                         *)
(* The client runs on one thread; an action is one call from the event     *)
(* loop (a timer, a socket signal, a packet, a call of Backend) with every *)
(* call it makes, the socket's synchronous disconnected signal included.   *)
(*                                                                         *)
(* Abstractions.  waitingForPong and heartbeatReplyTimer are set and       *)
(* cleared together with pendingPingSequence, so one variable stands for   *)
(* the three (0: no probe outstanding).  immediateReconnectPending is set  *)
(* only around abort(), which emits disconnected before it returns; it is  *)
(* the argument "immediate" of SocketGone.  A packet is an answer to a     *)
(* request of the client or an entry of the stream; other packets change   *)
(* no state here.  Delays are left out: an armed timer may fire, subject   *)
(* to InTime.                                                              *)
(***************************************************************************)
EXTENDS Naturals, Sequences

CONSTANTS
    MaxEvents,      \* bound: events the server publishes
    MaxStreams,     \* bound: streams the server starts
    MaxFaults,      \* bound: network and server faults
    MaxLogins,      \* bound: calls of open
    MaxNudges,      \* bound: network-change notices and user retries
    MaxRequest,     \* request numbers of one connection are 1..MaxRequest
    Lossy           \* TRUE: the server may fail to write an event to a live socket

ASSUME BoundsAssumption ==
    /\ MaxEvents \in Nat /\ MaxStreams \in Nat /\ MaxFaults \in Nat
    /\ MaxLogins \in Nat /\ MaxNudges \in Nat
    /\ MaxRequest \in Nat /\ MaxRequest >= 3
    /\ Lossy \in BOOLEAN

VARIABLES
    \* WebSocketConnector::Private
    token,              \* TRUE while a token is held
    endpoint,           \* the configGeneration endpointUrl was resolved for, 0 when empty
    generation,         \* configGeneration
    connectionState,
    connectionId,       \* 0 when empty
    serverSequence,     \* the sequence number expected next
    responseSequence,   \* number of the next request
    pendingPing,        \* pendingPingSequence, 0 unless waitingForPong
    pendingAuth,        \* pendingAuthenticationSequence
    heartbeat,          \* heartbeatTimer is active
    reconnectTimer,     \* reconnectTimer is active
    attemptTimer,       \* connectionAttemptTimer is active
    hasReconnect,
    resumeFailed,
    connectNotified,
    suppressReconnect,
    socket,             \* webSocket.state()
    configReplies,      \* generations whose config reply has not finished
    \* the network
    link,               \* what is behind the socket: nothing, a peer, silence
    up,                 \* requests the server has not answered
    down,               \* packets on their way to the client
    \* the server
    issued,             \* events published so far: 1..issued
    stream,             \* id of the stream the server holds for this client, 0 if none
    streams,            \* ids given out so far
    log,                \* the stream: entry k has sequence number k - 1
    \* history
    handled,            \* events given to WebSocketEventHandler in this session
    covered,            \* events 1..covered are accounted for by an HTTP refresh
    faults, nudges      \* budgets used

client == <<token, endpoint, generation, connectionState, connectionId,
            serverSequence, responseSequence, pendingPing, pendingAuth,
            heartbeat, reconnectTimer, attemptTimer, hasReconnect,
            resumeFailed, connectNotified, suppressReconnect, socket,
            configReplies>>
server == <<issued, stream, streams, log>>
history == <<handled, covered>>
vars == <<client, link, up, down, server, history, faults, nudges>>

Hello == 0              \* the entry every new stream starts with
Entries == 0 .. MaxEvents
Requests == 1 .. MaxRequest

Packets ==
    [kind : {"answer"}, seq : Requests, failed : BOOLEAN]
        \cup [kind : {"entry"}, seq : Nat, entry : Entries, id : 1 .. MaxStreams]

Answer(n, failed) == [kind |-> "answer", seq |-> n, failed |-> failed]
Entry(k, id, entry) == [kind |-> "entry", seq |-> k - 1, entry |-> entry, id |-> id]

FlagsType ==
    /\ token \in BOOLEAN
    /\ heartbeat \in BOOLEAN
    /\ reconnectTimer \in BOOLEAN
    /\ attemptTimer \in BOOLEAN
    /\ hasReconnect \in BOOLEAN
    /\ resumeFailed \in BOOLEAN
    /\ connectNotified \in BOOLEAN
    /\ suppressReconnect \in BOOLEAN

ValuesType ==
    /\ generation \in Nat
    /\ endpoint \in Nat
    /\ connectionState \in {"Disconnected", "Connecting", "Connected", "WaitingForReconnect"}
    /\ connectionId \in 0 .. MaxStreams
    /\ serverSequence \in Nat
    /\ responseSequence \in Requests
    /\ pendingPing \in 0 .. MaxRequest
    /\ pendingAuth \in 0 .. MaxRequest
    /\ socket \in {"Unconnected", "Connecting", "Connected", "Closing"}
    /\ configReplies \in SUBSET (Nat \ {0})

WorldType ==
    /\ link \in {"none", "live", "dead"}
    /\ up \in Seq(Requests)
    /\ down \in Seq(Packets)
    /\ issued \in Entries
    /\ stream \in 0 .. MaxStreams
    /\ streams \in 0 .. MaxStreams
    /\ log \in Seq(Entries)
    /\ handled \in Seq(Entries)
    /\ covered \in Entries
    /\ faults \in 0 .. MaxFaults
    /\ nudges \in 0 .. MaxNudges

TypeOK == FlagsType /\ ValuesType /\ WorldType

Init ==
    /\ token = FALSE
    /\ endpoint = 0
    /\ generation = 0
    /\ connectionState = "Disconnected"
    /\ connectionId = 0
    /\ serverSequence = 0
    /\ responseSequence = 1
    /\ pendingPing = 0
    /\ pendingAuth = 0
    /\ heartbeat = FALSE
    /\ reconnectTimer = FALSE
    /\ attemptTimer = FALSE
    /\ hasReconnect = FALSE
    /\ resumeFailed = FALSE
    /\ connectNotified = FALSE
    /\ suppressReconnect = FALSE
    /\ socket = "Unconnected"
    /\ configReplies = {}
    /\ link = "none"
    /\ up = <<>>
    /\ down = <<>>
    /\ issued = 0
    /\ stream = 0
    /\ streams = 0
    /\ log = <<>>
    /\ handled = <<>>
    /\ covered = 0
    /\ faults = 0
    /\ nudges = 0

Fault == faults < MaxFaults /\ faults' = faults + 1
Nudge == nudges < MaxNudges /\ nudges' = nudges + 1

\* A timeout is much longer than a round trip: it beats a live peer only when
\* the network is at fault.
InTime == IF link = "live" THEN Fault ELSE UNCHANGED faults

-------------------------------------------------------------------------------
(* Calls the handlers share.  Each says what becomes of the variables named   *)
(* above it; arguments are values the caller has already changed.             *)

\* heartbeat, pendingPing
stopHeartbeatKeepsTimer == heartbeat' = heartbeat /\ pendingPing' = 0    \* mutant
stopHeartbeat == heartbeat' = FALSE /\ pendingPing' = 0

\* Request numbers grow without bound in the code; here one is used again once
\* nothing under that number is on its way.
NextRequestRunsOn(n) == n + 1                                           \* mutant
NextRequest(n) == IF n = MaxRequest THEN 2 ELSE n + 1
Unused(n) ==
    /\ \A i \in DOMAIN up : up[i] # n
    /\ \A i \in DOMAIN down : down[i].kind = "answer" => down[i].seq # n

\* hasReconnect, connectionState, reconnectTimer: the socket is Unconnected, and
\* "timer" says whether the reconnect timer is already running.
scheduleReconnectNoTimer(timer, state) ==                               \* mutant
    /\ reconnectTimer' = timer
    /\ IF timer
       THEN connectionState' = state /\ UNCHANGED hasReconnect
       ELSE connectionState' = "WaitingForReconnect" /\ hasReconnect' = TRUE
scheduleReconnectUnmarked(timer, state) ==                              \* mutant
    /\ reconnectTimer' = TRUE
    /\ connectionState' = IF timer THEN state ELSE "WaitingForReconnect"
    /\ UNCHANGED hasReconnect
scheduleReconnect(timer, state) ==
    /\ reconnectTimer' = TRUE
    /\ IF timer
       THEN connectionState' = state /\ UNCHANGED hasReconnect
       ELSE connectionState' = "WaitingForReconnect" /\ hasReconnect' = TRUE

\* connectionState, attemptTimer, socket, link, hasReconnect, reconnectTimer,
\* faults: QWebSocket::open replaces whatever transport there was, silently.
\* The URL may be refused on the spot, which emits errorOccurred; the peer may
\* never answer.  Without a token or an endpoint the socket, Unconnected at
\* every such call, stays so.
openSocket(url, timer, attempt) ==
    \/ /\ ~token \/ url = 0
       /\ attemptTimer' = attempt /\ reconnectTimer' = timer
       /\ socket' = "Unconnected" /\ link' = "none"
       /\ UNCHANGED <<connectionState, hasReconnect, faults>>
    \/ /\ token /\ url # 0
       /\ attemptTimer' = TRUE /\ reconnectTimer' = timer
       /\ socket' = "Connecting" /\ connectionState' = "Connecting"
       /\ UNCHANGED hasReconnect
       /\ \/ link' = "live" /\ UNCHANGED faults
          \/ link' = "dead" /\ Fault
    \/ /\ token /\ url # 0
       /\ attemptTimer' = TRUE
       /\ socket' = "Unconnected" /\ link' = "none"
       /\ scheduleReconnect(timer, "Connecting")
       /\ Fault

\* The disconnected signal, and errorOccurred after it, which finds nothing
\* left to do.  Changes all but the variables of goneKeeps, resumeFailed,
\* connectionId, serverSequence, pendingAuth, history and nudges.
\* immediate: reconnectNow is under way and has stopped both timers;
\* otherwise the caller says what becomes of faults.
socketGone(immediate) ==
    /\ stopHeartbeat
    /\ responseSequence' = 1
    /\ suppressReconnect' = FALSE
    /\ connectNotified' = FALSE
    /\ up' = <<>> /\ down' = <<>>
    /\ \/ immediate /\ openSocket(endpoint, FALSE, FALSE)
       \/ /\ ~immediate
          /\ attemptTimer' = FALSE
          /\ socket' = "Unconnected" /\ link' = "none"
          /\ \/ /\ token /\ ~suppressReconnect
                /\ scheduleReconnect(reconnectTimer, connectionState)
             \/ /\ ~token \/ suppressReconnect
                /\ connectionState' = "Disconnected"
                /\ UNCHANGED <<hasReconnect, reconnectTimer>>

goneKeeps == <<token, endpoint, generation, configReplies, server>>

\* responseSequence, pendingPing, up: the socket is connected and no probe is
\* outstanding.
sendPing ==
    /\ Unused(responseSequence)
    /\ pendingPing' = responseSequence
    /\ responseSequence' = NextRequest(responseSequence)
    /\ up' = IF link = "live" THEN Append(up, responseSequence) ELSE up

\* pendingAuth, pendingPing, responseSequence, heartbeat, up: request 1 of a new
\* connection is the authentication challenge, request 2 the first ping.
doHandshake == pendingAuth' = 1
startHeartbeatOnce ==                                                   \* mutant
    /\ pendingPing' = 2 /\ responseSequence' = NextRequest(2)
    /\ up' = <<1, 2>> /\ heartbeat' = FALSE
startHeartbeat ==
    /\ pendingPing' = 2 /\ responseSequence' = NextRequest(2)
    /\ up' = <<1, 2>> /\ heartbeat' = TRUE

-------------------------------------------------------------------------------
(* Calls of Backend and of the user                                           *)

\* loginSuccess: called only when no token is held.
open ==
    /\ ~token /\ generation < 2 * MaxLogins
    /\ token' = TRUE
    /\ connectionId' = 0 /\ serverSequence' = 0
    /\ responseSequence' = 1 /\ pendingAuth' = 0
    /\ hasReconnect' = FALSE /\ resumeFailed' = FALSE
    /\ connectNotified' = FALSE /\ suppressReconnect' = FALSE
    /\ reconnectTimer' = FALSE /\ attemptTimer' = FALSE
    /\ stopHeartbeat
    /\ endpoint' = 0
    /\ connectionState' = "Connecting"
    /\ generation' = generation + 1
    /\ configReplies' = configReplies \cup {generation'}
    /\ handled' = <<>>
    /\ UNCHANGED <<socket, link, up, down, server, covered, faults, nudges>>

\* reset() after the token is gone.  QWebSocket::close may finish at once or
\* leave the socket closing; disconnected is then suppressed.
close ==
    /\ token
    /\ token' = FALSE
    /\ generation' = generation + 1
    /\ connectionId' = 0 /\ serverSequence' = 0
    /\ responseSequence' = 1 /\ pendingAuth' = 0
    /\ hasReconnect' = FALSE /\ resumeFailed' = FALSE /\ connectNotified' = FALSE
    /\ reconnectTimer' = FALSE /\ attemptTimer' = FALSE
    /\ stopHeartbeat
    /\ connectionState' = "Disconnected"
    /\ \/ socket' = "Unconnected" /\ suppressReconnect' = FALSE
       \/ socket # "Unconnected" /\ socket' = "Closing" /\ suppressReconnect' = TRUE
    /\ link' = "none" /\ up' = <<>> /\ down' = <<>>
    /\ UNCHANGED <<endpoint, configReplies, server, history, faults, nudges>>

\* The retry button, and a network change while the connection is down.
reconnectNow ==
    /\ token /\ ~suppressReconnect /\ connectionState # "Connected"
    /\ Nudge
    /\ \/ /\ socket = "Unconnected"
          /\ openSocket(endpoint, FALSE, FALSE)
          /\ UNCHANGED <<heartbeat, pendingPing, responseSequence,
                         suppressReconnect, connectNotified, up, down>>
       \/ /\ socket # "Unconnected"
          /\ socketGone(TRUE)
    /\ UNCHANGED <<goneKeeps, connectionId, serverSequence, pendingAuth,
                   resumeFailed, history>>

-------------------------------------------------------------------------------
(* Signals, timers and replies                                                *)

\* The config reply of a login.  Failure falls back to the login URL, so both
\* outcomes resolve the endpoint; a reply of an earlier login is dropped.
configFinishedAnyLogin(g) ==                                            \* mutant
    /\ g \in configReplies
    /\ configReplies' = configReplies \ {g}
    /\ \/ /\ ~token
          /\ UNCHANGED <<endpoint, connectionState, attemptTimer, socket, link,
                         hasReconnect, reconnectTimer, faults>>
       \/ /\ token
          /\ endpoint' = g
          /\ openSocket(g, reconnectTimer, attemptTimer)
    /\ UNCHANGED <<token, generation, connectionId, serverSequence,
                   responseSequence, pendingPing, pendingAuth, heartbeat,
                   resumeFailed, connectNotified, suppressReconnect, up, down,
                   server, history, nudges>>
configFinished(g) ==
    /\ g \in configReplies
    /\ configReplies' = configReplies \ {g}
    /\ \/ /\ g # generation \/ ~token
          /\ UNCHANGED <<endpoint, connectionState, attemptTimer, socket, link,
                         hasReconnect, reconnectTimer, faults>>
       \/ /\ g = generation /\ token
          /\ endpoint' = g
          /\ openSocket(g, reconnectTimer, attemptTimer)
    /\ UNCHANGED <<token, generation, connectionId, serverSequence,
                   responseSequence, pendingPing, pendingAuth, heartbeat,
                   resumeFailed, connectNotified, suppressReconnect, up, down,
                   server, history, nudges>>

\* The connection attempt succeeds.  The server resumes the stream it is
\* asked for when it still holds it, with or without a hello that keeps the
\* id, and starts a new one otherwise.
connected ==
    /\ socket = "Connecting" /\ link = "live"
    /\ socket' = "Connected"
    /\ reconnectTimer' = FALSE
    /\ connectNotified' = FALSE /\ resumeFailed' = FALSE
    /\ doHandshake /\ startHeartbeat
    /\ \/ /\ stream # 0 /\ connectionId = stream
          /\ \E again \in {<<>>, <<Hello>>} :
                /\ log' = log \o again
                /\ down' = [k \in 1 .. Len(log') - serverSequence |->
                              Entry(serverSequence + k, stream, log'[serverSequence + k])]
          /\ UNCHANGED <<stream, streams>>
       \/ /\ stream = 0 \/ connectionId # stream
          /\ streams < MaxStreams
          /\ streams' = streams + 1 /\ stream' = streams'
          /\ log' = <<Hello>>
          /\ down' = <<Entry(1, stream', Hello)>>
    /\ UNCHANGED <<token, endpoint, generation, connectionState, connectionId,
                   serverSequence, attemptTimer, hasReconnect, suppressReconnect,
                   configReplies, link, issued, history, faults, nudges>>

\* The socket ends without a call of the client: refused, reset, or closed at last.
disconnected ==
    /\ socket # "Unconnected"
    /\ \/ socket = "Closing" /\ UNCHANGED faults
       \/ socket # "Closing" /\ InTime
    /\ socketGone(FALSE)
    /\ UNCHANGED <<goneKeeps, connectionId, serverSequence, pendingAuth,
                   resumeFailed, history, nudges>>

heartbeatTimeout ==
    /\ heartbeat /\ socket = "Connected"
    /\ pendingPing = 0
    /\ sendPing
    /\ UNCHANGED <<token, endpoint, generation, connectionState, connectionId,
                   serverSequence, pendingAuth, heartbeat, reconnectTimer,
                   attemptTimer, hasReconnect, resumeFailed, connectNotified,
                   suppressReconnect, socket, configReplies, link, down, server,
                   history, faults, nudges>>

\* abort() of a connected socket.
heartbeatReplyTimeout ==
    /\ pendingPing # 0 /\ socket = "Connected"
    /\ InTime
    /\ socketGone(FALSE)
    /\ UNCHANGED <<goneKeeps, connectionId, serverSequence, pendingAuth,
                   resumeFailed, history, nudges>>

reconnectTimeout ==
    /\ reconnectTimer
    /\ \/ /\ ~token \/ suppressReconnect \/ socket # "Unconnected"
          /\ reconnectTimer' = FALSE
          /\ UNCHANGED <<connectionState, attemptTimer, socket, link, hasReconnect, faults>>
       \/ /\ token /\ ~suppressReconnect /\ socket = "Unconnected"
          /\ openSocket(endpoint, FALSE, attemptTimer)
    /\ UNCHANGED <<token, endpoint, generation, connectionId, serverSequence,
                   responseSequence, pendingPing, pendingAuth, heartbeat,
                   resumeFailed, connectNotified, suppressReconnect,
                   configReplies, up, down, server, history, nudges>>

attemptTimeout ==
    /\ attemptTimer
    /\ \/ /\ ~token \/ suppressReconnect \/ connectionState = "Connected"
          /\ attemptTimer' = FALSE
          /\ UNCHANGED <<connectionState, hasReconnect, reconnectTimer, heartbeat,
                         pendingPing, responseSequence, suppressReconnect,
                         connectNotified, socket, link, up, down, faults>>
       \/ /\ token /\ ~suppressReconnect /\ connectionState # "Connected"
          /\ socket = "Unconnected"
          /\ attemptTimer' = FALSE
          /\ stopHeartbeat
          /\ scheduleReconnect(reconnectTimer, connectionState)
          /\ UNCHANGED <<responseSequence, suppressReconnect, connectNotified,
                         socket, link, up, down, faults>>
       \/ /\ token /\ ~suppressReconnect /\ connectionState # "Connected"
          /\ socket # "Unconnected"
          /\ InTime
          /\ socketGone(FALSE)
    /\ UNCHANGED <<goneKeeps, connectionId, serverSequence, pendingAuth,
                   resumeFailed, history, nudges>>

\* The route changed under a connected socket: the old probe no longer counts.
networkChanged ==
    /\ connectionState = "Connected" /\ socket = "Connected"
    /\ Nudge
    /\ sendPing
    /\ UNCHANGED <<token, endpoint, generation, connectionState, connectionId,
                   serverSequence, pendingAuth, heartbeat, reconnectTimer,
                   attemptTimer, hasReconnect, resumeFailed, connectNotified,
                   suppressReconnect, socket, configReplies, link, down, server,
                   history, faults>>

-------------------------------------------------------------------------------
(* onNewPacket                                                                *)

packetKeeps == <<token, endpoint, generation, configReplies, server, nudges>>

\* What a connection that stays up keeps when a packet arrives.
stillUp == <<heartbeat, reconnectTimer, suppressReconnect, socket, link, up,
             responseSequence, faults>>

\* A packet with seq_reply: a pong, or the answer to the handshake.
answerReceived ==
    /\ socket = "Connected" /\ down # <<>>
    /\ LET p == Head(down) IN
       /\ p.kind = "answer"
       /\ \/ /\ p.seq = pendingAuth /\ p.failed
             /\ pendingAuth' = 0
             /\ socketGone(FALSE)
             /\ UNCHANGED <<covered, faults>>
          \/ /\ ~(p.seq = pendingAuth /\ p.failed)
             /\ down' = Tail(down)
             /\ pendingPing' = IF p.seq = pendingPing THEN 0 ELSE pendingPing
             /\ pendingAuth' = IF p.seq = pendingAuth THEN 0 ELSE pendingAuth
             /\ \/ /\ p.seq = pendingAuth /\ ~connectNotified
                   /\ connectNotified' = TRUE
                   /\ attemptTimer' = FALSE
                   /\ connectionState' = "Connected"
                   /\ covered' = IF hasReconnect THEN covered ELSE issued
                \/ /\ ~(p.seq = pendingAuth /\ ~connectNotified)
                   /\ UNCHANGED <<connectNotified, attemptTimer, connectionState, covered>>
             /\ UNCHANGED <<stillUp, hasReconnect>>
    /\ UNCHANGED <<packetKeeps, connectionId, serverSequence, resumeFailed, handled>>

\* A hello of another stream, or of the first one, after a reconnect: the events
\* missed in between cannot be replayed.
resumeRejectedNever(id) == FALSE                                        \* mutant
resumeRejected(id) == connectionId = 0 \/ id # connectionId

outOfSequenceNever(seq, expected) == FALSE                              \* mutant
outOfSequence(seq, expected) == seq # expected

\* An entry of the stream.  A hello with another id restarts the numbering; an
\* entry out of sequence ends the connection; the first entry that fits proves
\* the connection live, and after a reconnect settles whether the resume failed.
\* onConnect(FALSE, _) starts the session's history, and onConnect(TRUE, TRUE)
\* and reliableResumeFailed make Backend fetch it again: both account for
\* everything published so far.
entryReceived ==
    /\ socket = "Connected" /\ down # <<>>
    /\ LET p == Head(down)
           hello == p.entry = Hello
           renumber == hello /\ connectionId # 0 /\ p.id # connectionId
           expected == IF renumber THEN 0 ELSE serverSequence
           failed == IF hello /\ hasReconnect
                     THEN resumeRejected(p.id)
                     ELSE resumeFailed
           settles == ~connectNotified \/ hasReconnect
           refresh == \/ ~connectNotified /\ (~hasReconnect \/ failed)
                      \/ connectNotified /\ hasReconnect /\ hello /\ failed
       IN
       /\ p.kind = "entry"
       /\ connectionId' = IF hello THEN p.id ELSE connectionId
       /\ \/ /\ outOfSequence(p.seq, expected)
             /\ serverSequence' = expected
             /\ resumeFailed' = failed
             /\ socketGone(FALSE)
             /\ UNCHANGED <<history, faults>>
          \/ /\ ~outOfSequence(p.seq, expected)
             /\ down' = Tail(down)
             /\ serverSequence' = p.seq + 1
             /\ hasReconnect' = FALSE
             /\ resumeFailed' = IF settles THEN FALSE ELSE failed
             /\ connectNotified' = TRUE
             /\ \/ /\ ~connectNotified
                   /\ attemptTimer' = FALSE /\ connectionState' = "Connected"
                \/ /\ connectNotified
                   /\ UNCHANGED <<attemptTimer, connectionState>>
             /\ covered' = IF refresh THEN issued ELSE covered
             /\ handled' = IF hello THEN handled ELSE Append(handled, p.entry)
             /\ UNCHANGED <<stillUp, pendingPing>>
    /\ UNCHANGED <<packetKeeps, pendingAuth>>

-------------------------------------------------------------------------------
(* The server and the network (external)                                      *)

\* An event joins the stream and, when a connection is up, the wire.
Publish ==
    /\ issued < MaxEvents
    /\ issued' = issued + 1
    /\ log' = IF stream = 0 THEN log ELSE Append(log, issued')
    /\ \/ /\ socket = "Connected" /\ link = "live" /\ stream # 0
          /\ \/ /\ down' = Append(down, Entry(Len(log'), stream, issued'))
                /\ UNCHANGED faults
             \/ /\ Lossy /\ Fault
                /\ UNCHANGED down
       \/ /\ ~(socket = "Connected" /\ link = "live" /\ stream # 0)
          /\ UNCHANGED <<down, faults>>
    /\ UNCHANGED <<client, link, up, stream, streams, history, nudges>>

\* The server answers the oldest request; it may refuse the handshake, and what
\* accepts it may go ahead of the hello, and the replay, that the stream begins with.
ServerAnswers ==
    /\ up # <<>> /\ link = "live"
    /\ up' = Tail(up)
    /\ \/ down' = Append(down, Answer(Head(up), FALSE)) /\ UNCHANGED faults
       \/ Head(up) = 1 /\ down' = <<Answer(1, FALSE)>> \o down /\ UNCHANGED faults
       \/ Head(up) = 1 /\ down' = Append(down, Answer(1, TRUE)) /\ Fault
    /\ UNCHANGED <<client, link, server, history, nudges>>

\* A route change, sleep or lost peer: nothing more arrives, and nobody says so.
LinkDies ==
    /\ link = "live"
    /\ link' = "dead"
    /\ Fault
    /\ up' = <<>> /\ down' = <<>>
    /\ UNCHANGED <<client, server, history, nudges>>

\* The server restarts, or gives up a stream kept too long.
ServerForgets ==
    /\ stream # 0 /\ streams < MaxStreams
    /\ Fault
    /\ stream' = 0 /\ log' = <<>>
    /\ link' = IF link = "live" THEN "dead" ELSE link
    /\ up' = <<>> /\ down' = <<>>
    /\ UNCHANGED <<client, issued, streams, history, nudges>>

Next ==
    \/ open \/ close \/ reconnectNow
    \/ \E g \in configReplies : configFinished(g)
    \/ connected \/ disconnected
    \/ heartbeatTimeout \/ heartbeatReplyTimeout
    \/ reconnectTimeout \/ attemptTimeout \/ networkChanged
    \/ answerReceived \/ entryReceived
    \/ Publish \/ ServerAnswers \/ LinkDies \/ ServerForgets

Spec == Init /\ [][Next]_vars

\* Everything the event loop, the network stack and the server do by themselves
\* is done eventually; calls, faults and publications need not happen, and a
\* dead peer need not be reported by anything but the client's own timers.
Fairness ==
    /\ WF_vars(\E g \in configReplies : configFinished(g))
    /\ WF_vars(connected)
    /\ WF_vars(socket = "Closing" /\ disconnected)
    /\ WF_vars(heartbeatTimeout)
    /\ WF_vars(heartbeatReplyTimeout)
    /\ WF_vars(reconnectTimeout)
    /\ WF_vars(attemptTimeout)
    /\ WF_vars(answerReceived)
    /\ WF_vars(entryReceived)
    /\ WF_vars(ServerAnswers)

FairSpec == Spec /\ Fairness

-------------------------------------------------------------------------------
(* Properties                                                                 *)

\* The connection delivers events as EventDelivery promises: whatever drops,
\* restarts and log-ins happen, events reach their handlers in order, once, with
\* no gap that no HTTP refresh accounts for, and none after log-out.
Delivery == INSTANCE EventDelivery WITH
    last <- IF handled = <<>> THEN 0 ELSE handled[Len(handled)],
    session <- token

DeliversInOrder == Delivery!Spec

\* A client that holds a stream id and is not connected knows it is
\* reconnecting: else the hello of a new stream would pass for a first login and
\* no HTTP refresh would follow.
ReconnectRemembered ==
    connectionId # 0 /\ connectionState # "Connected" => hasReconnect

\* While the user is logged in and not connected, something is armed that will
\* drive the connection on: a config reply of this login or a timer.
NeverStranded ==
    token /\ connectionState # "Connected" =>
        generation \in configReplies \/ reconnectTimer \/ attemptTimer

\* A connected socket is always probed, and only a connected one: no connection
\* can go silent without heartbeatReplyTimer noticing.
ProbeArmed == (socket = "Connected") <=> heartbeat

\* The endpoint is the one the present login resolved; a late config reply of an
\* earlier login never redirects the socket.
EndpointCurrent == token => endpoint \in {0, generation}

\* What the four properties above rest on: which socket states go with which
\* connection states, flags and timers.  Inductive together with TypeOK and them.
Consistent ==
    /\ token <=> connectionState # "Disconnected"
    /\ suppressReconnect => ~token /\ socket = "Closing"
    /\ socket \in {"Connecting", "Connected"} => token /\ endpoint # 0
    /\ connectionState = "Connected" <=> socket = "Connected" /\ connectNotified
    /\ connectNotified => socket = "Connected"
    /\ socket = "Connected" => ~reconnectTimer
    /\ socket \in {"Connecting", "Connected"} /\ connectionState # "Connected" => attemptTimer
    /\ socket = "Closing" /\ token => endpoint = 0
    /\ token => (endpoint = 0 <=> generation \in configReplies)

\* A connection that is lost, or was never made, is always on its way back: nothing that
\* aborts, timers, late replies and log-outs do in any order leaves the client without a
\* next attempt, without a probe, or with the lost stream taken for a first one
\* (scheduleReconnect, WebSocketConnector.cpp:499).
Recovers == ReconnectRemembered /\ NeverStranded /\ ProbeArmed

\* An event neither handled nor covered by a refresh is still on its way: it is
\* ahead of the client in the stream the client follows, or the client follows
\* another stream and will be refreshed when it learns so.
Pending(e) == e > covered /\ \A i \in DOMAIN handled : handled[i] # e
AheadInStream(e) == \E k \in DOMAIN log : k > serverSequence /\ log[k] = e
NothingForgotten ==
    token /\ connectionId # 0 =>
        \A e \in 1 .. issued : Pending(e) =>
            \/ connectionId = stream /\ AheadInStream(e)
            \/ connectionId # stream /\ (hasReconnect \/ link # "live")

\* An event the server failed to write to a live socket, with nothing behind it: only the
\* next event or the next reconnect tells the client.
LostAlone(e) ==
    /\ connectionState = "Connected" /\ connectionId = stream /\ link = "live"
    /\ AheadInStream(e) /\ \A i \in DOMAIN down : down[i].kind = "answer"

\* However often links die, peers fall silent, streams are forgotten and attempts fail, a
\* client that stays logged in comes to be connected over a live link, with every event
\* handled or covered by a refresh, unless it is lost and nothing follows it (the timers,
\* reconnects and resumptions of WebSocketConnector together).
ComesBack ==
    []<>(token =>
        /\ connectionState = "Connected" /\ link = "live"
        /\ \A e \in 1 .. issued : Pending(e) => LostAlone(e))
==============================================================================
