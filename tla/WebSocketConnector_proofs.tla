---------------------- MODULE WebSocketConnector_proofs ----------------------
(***************************************************************************)
(* Invariance proofs for WebSocketConnector, for every value of the        *)
(* bounds: type correctness, and the connection discipline that keeps a    *)
(* logged-in connector from being stranded or from forgetting that it is   *)
(* reconnecting.                                                           *)
(***************************************************************************)
EXTENDS WebSocketConnector, SequenceTheorems, TLAPS

USE BoundsAssumption

\* Answers and stream entries the server writes are packets.
LEMMA PacketTypes ==
    /\ \A n \in Requests, failed \in BOOLEAN : Answer(n, failed) \in Packets
    /\ \A k \in Nat \ {0}, id \in 1 .. MaxStreams, e \in Entries : Entry(k, id, e) \in Packets
BY DEF Answer, Entry, Packets, Requests, Entries

\* A packet appended to a sequence of packets.
LEMMA AppendType == \A s \in Seq(Packets), p \in Packets : Append(s, p) \in Seq(Packets)
OBVIOUS

\* Request numbers stay in range.
LEMMA NextRequestType == \A n \in Requests : NextRequest(n) \in Requests
BY DEF NextRequest, Requests

\* What a server that resumes a stream writes back is a sequence of packets.
LEMMA ReplayType ==
    ASSUME NEW entries \in Seq(Entries), NEW from \in Nat, NEW id \in 1 .. MaxStreams
    PROVE  [k \in 1 .. Len(entries) - from |-> Entry(from + k, id, entries[from + k])]
             \in Seq(Packets)
<1>1. \A k \in 1 .. Len(entries) - from : Entry(from + k, id, entries[from + k]) \in Packets
  <2> TAKE k \in 1 .. Len(entries) - from
  <2>1. from + k \in Nat \ {0} /\ from + k \in 1 .. Len(entries)
    OBVIOUS
  <2>2. entries[from + k] \in Entries
    BY <2>1
  <2> QED BY <2>1, <2>2, PacketTypes
<1>2. CASE Len(entries) >= from
  BY <1>1, <1>2, Len(entries) - from \in Nat
<1>3. CASE Len(entries) < from
  <2>1. 1 .. Len(entries) - from = 1 .. 0
    BY <1>3
  <2> QED BY <1>1, <2>1
<1> QED BY <1>2, <1>3

\* The initial states have the types.
THEOREM InitType == Init => TypeOK
<1> SUFFICES ASSUME Init PROVE TypeOK
  OBVIOUS
<1>1. FlagsType
  BY DEF Init, FlagsType
<1>2. ValuesType
  BY DEF Init, ValuesType, Requests
<1>3. WorldType
  BY DEF Init, WorldType, Entries
<1> QED BY <1>1, <1>2, <1>3 DEF TypeOK

\* openSocket keeps the types of what it changes.
LEMMA OpenSocketType ==
    ASSUME TypeOK, NEW url, NEW timer \in BOOLEAN, NEW attempt \in BOOLEAN,
           openSocket(url, timer, attempt)
    PROVE  /\ reconnectTimer' \in BOOLEAN /\ attemptTimer' \in BOOLEAN /\ hasReconnect' \in BOOLEAN
           /\ connectionState' \in {"Disconnected", "Connecting", "Connected", "WaitingForReconnect"}
           /\ socket' \in {"Unconnected", "Connecting", "Connected", "Closing"}
           /\ link' \in {"none", "live", "dead"}
           /\ faults' \in 0 .. MaxFaults
<1>1. reconnectTimer' \in BOOLEAN /\ attemptTimer' \in BOOLEAN /\ hasReconnect' \in BOOLEAN
  BY DEF TypeOK, FlagsType, openSocket, scheduleReconnect
<1>2. connectionState' \in {"Disconnected", "Connecting", "Connected", "WaitingForReconnect"}
  BY DEF TypeOK, ValuesType, openSocket, scheduleReconnect
<1>3. socket' \in {"Unconnected", "Connecting", "Connected", "Closing"} /\ link' \in {"none", "live", "dead"}
  BY DEF openSocket
<1>4. faults' \in 0 .. MaxFaults
  BY DEF TypeOK, WorldType, openSocket, Fault
<1> QED BY <1>1, <1>2, <1>3, <1>4

\* So does the disconnected signal.
LEMMA GoneType ==
    ASSUME TypeOK, NEW immediate \in BOOLEAN, socketGone(immediate)
    PROVE  /\ heartbeat' \in BOOLEAN /\ connectNotified' \in BOOLEAN /\ suppressReconnect' \in BOOLEAN
           /\ reconnectTimer' \in BOOLEAN /\ attemptTimer' \in BOOLEAN /\ hasReconnect' \in BOOLEAN
           /\ connectionState' \in {"Disconnected", "Connecting", "Connected", "WaitingForReconnect"}
           /\ socket' \in {"Unconnected", "Connecting", "Connected", "Closing"}
           /\ link' \in {"none", "live", "dead"}
           /\ responseSequence' \in Requests /\ pendingPing' \in 0 .. MaxRequest
           /\ up' \in Seq(Requests) /\ down' \in Seq(Packets)
           /\ immediate => faults' \in 0 .. MaxFaults
<1>1. heartbeat' \in BOOLEAN /\ connectNotified' \in BOOLEAN /\ suppressReconnect' \in BOOLEAN
  BY DEF socketGone, stopHeartbeat
<1>2. responseSequence' \in Requests /\ pendingPing' \in 0 .. MaxRequest
  BY DEF socketGone, stopHeartbeat, Requests
<1>3. up' \in Seq(Requests) /\ down' \in Seq(Packets)
  BY DEF socketGone
<1>4. CASE immediate
  <2>1. openSocket(endpoint, FALSE, FALSE)
    BY <1>4 DEF socketGone
  <2> QED BY <1>1, <1>2, <1>3, <2>1, OpenSocketType
<1>5. CASE ~immediate
  <2>1. attemptTimer' \in BOOLEAN /\ reconnectTimer' \in BOOLEAN /\ hasReconnect' \in BOOLEAN
    BY <1>5 DEF socketGone, scheduleReconnect, TypeOK, FlagsType
  <2>2. /\ socket' \in {"Unconnected", "Connecting", "Connected", "Closing"}
        /\ link' \in {"none", "live", "dead"}
    BY <1>5 DEF socketGone
  <2>3. connectionState' \in {"Disconnected", "Connecting", "Connected", "WaitingForReconnect"}
    BY <1>5 DEF socketGone, scheduleReconnect, TypeOK, ValuesType
  <2> QED BY <1>1, <1>2, <1>3, <1>5, <2>1, <2>2, <2>3
<1> QED BY <1>4, <1>5

\* Every action keeps the flags in their types.
LEMMA FlagsStep == TypeOK /\ [Next]_vars => FlagsType'
<1> SUFFICES ASSUME TypeOK, [Next]_vars PROVE FlagsType'
  OBVIOUS
<1>1. CASE open
  BY <1>1 DEF TypeOK, FlagsType, open, stopHeartbeat
<1>2. CASE close
  BY <1>2 DEF TypeOK, FlagsType, close, stopHeartbeat
<1>3. CASE reconnectNow
  <2>1. CASE socket # "Unconnected"
    <3>1. socketGone(TRUE)
      BY <1>3, <2>1 DEF reconnectNow
    <3> QED BY <1>3, <2>1, <3>1, GoneType DEF TypeOK, FlagsType, reconnectNow, goneKeeps
  <2>2. CASE socket = "Unconnected"
    <3>1. openSocket(endpoint, FALSE, FALSE)
      BY <1>3, <2>2 DEF reconnectNow, socketGone
    <3> QED BY <1>3, <2>2, <3>1, OpenSocketType DEF TypeOK, FlagsType, reconnectNow, socketGone, goneKeeps
  <2> QED BY <2>1, <2>2
<1>4. CASE \E g \in configReplies : configFinished(g)
  <2> PICK g \in configReplies : configFinished(g)
    BY <1>4
  <2>1. CASE openSocket(g, reconnectTimer, attemptTimer)
    BY <2>1, OpenSocketType DEF TypeOK, FlagsType, ValuesType, FlagsType, configFinished
  <2>2. CASE g # generation \/ ~token
    BY <2>2 DEF TypeOK, ValuesType, FlagsType, configFinished
  <2> QED BY <2>1, <2>2 DEF configFinished
<1>5. CASE connected
  BY <1>5 DEF TypeOK, FlagsType, connected, startHeartbeat
<1>6. CASE disconnected
  <2>1. socketGone(FALSE)
    BY <1>6 DEF disconnected
  <2> QED BY <1>6, <2>1, GoneType DEF TypeOK, FlagsType, disconnected, goneKeeps
<1>7. CASE heartbeatTimeout
  BY <1>7 DEF TypeOK, FlagsType, heartbeatTimeout, sendPing
<1>8. CASE heartbeatReplyTimeout
  <2>1. socketGone(FALSE)
    BY <1>8 DEF heartbeatReplyTimeout
  <2> QED BY <1>8, <2>1, GoneType DEF TypeOK, FlagsType, heartbeatReplyTimeout, goneKeeps
<1>9. CASE reconnectTimeout
  <2>1. CASE openSocket(endpoint, FALSE, attemptTimer)
    BY <1>9, <2>1, OpenSocketType DEF TypeOK, FlagsType, FlagsType, reconnectTimeout
  <2>2. CASE ~token \/ suppressReconnect \/ socket # "Unconnected"
    BY <1>9, <2>2 DEF TypeOK, FlagsType, reconnectTimeout
  <2> QED BY <1>9, <2>1, <2>2 DEF reconnectTimeout
<1>10. CASE attemptTimeout
  <2>1. CASE token /\ ~suppressReconnect /\ connectionState # "Connected" /\ socket # "Unconnected"
    <3>1. socketGone(FALSE)
      BY <1>10, <2>1 DEF attemptTimeout
    <3> QED BY <1>10, <2>1, <3>1, GoneType DEF TypeOK, FlagsType, attemptTimeout, goneKeeps
  <2>2. CASE ~(token /\ ~suppressReconnect /\ connectionState # "Connected" /\ socket # "Unconnected")
    BY <1>10, <2>2 DEF TypeOK, FlagsType, attemptTimeout, scheduleReconnect, stopHeartbeat, goneKeeps
  <2> QED BY <2>1, <2>2
<1>11. CASE networkChanged
  BY <1>11 DEF TypeOK, FlagsType, networkChanged, sendPing
<1>12. CASE answerReceived
  <2>1. CASE socketGone(FALSE) /\ UNCHANGED <<covered, faults>>
    BY <1>12, <2>1, GoneType DEF TypeOK, FlagsType, answerReceived, packetKeeps
  <2>2. CASE ~(Head(down).seq = pendingAuth /\ Head(down).failed)
    BY <1>12, <2>2 DEF TypeOK, FlagsType, answerReceived, packetKeeps, stillUp
  <2> QED BY <1>12, <2>1, <2>2 DEF answerReceived
<1>13. CASE entryReceived
  <2>1. resumeFailed' \in BOOLEAN
    BY <1>13 DEF TypeOK, FlagsType, entryReceived, resumeRejected
  <2>2. CASE socketGone(FALSE) /\ UNCHANGED <<history, faults>>
    BY <1>13, <2>1, <2>2, GoneType DEF TypeOK, FlagsType, entryReceived, packetKeeps
  <2>3. CASE ~(socketGone(FALSE) /\ UNCHANGED <<history, faults>>)
    <3>1. hasReconnect' = FALSE /\ connectNotified' = TRUE /\ attemptTimer' \in {FALSE, attemptTimer}
          /\ UNCHANGED stillUp /\ UNCHANGED packetKeeps
      BY <1>13, <2>3 DEF entryReceived
    <3> QED BY <2>1, <3>1 DEF TypeOK, FlagsType, packetKeeps, stillUp
  <2> QED BY <2>2, <2>3
<1>14. CASE Publish
  BY <1>14 DEF TypeOK, FlagsType, Publish, client
<1>15. CASE ServerAnswers
  BY <1>15 DEF TypeOK, FlagsType, ServerAnswers, client
<1>16. CASE LinkDies
  BY <1>16 DEF TypeOK, FlagsType, LinkDies, client
<1>17. CASE ServerForgets
  BY <1>17 DEF TypeOK, FlagsType, ServerForgets, client
<1>18. CASE UNCHANGED vars
  BY <1>18 DEF TypeOK, FlagsType, vars, client
<1> QED BY <1>1, <1>2, <1>3, <1>4, <1>5, <1>6, <1>7, <1>8, <1>9, <1>10, <1>11, <1>12, <1>13, <1>14, <1>15, <1>16, <1>17, <1>18 DEF Next

\* The client's other variables.
LEMMA ValuesStep == TypeOK /\ [Next]_vars => ValuesType'
<1> SUFFICES ASSUME TypeOK, [Next]_vars PROVE ValuesType'
  OBVIOUS
<1>1. CASE open
  BY <1>1 DEF TypeOK, ValuesType, open, stopHeartbeat, Requests
<1>2. CASE close
  <2>1. generation' \in Nat /\ endpoint' \in Nat
        /\ configReplies' \in SUBSET (Nat \ {0})
    BY <1>2 DEF TypeOK, ValuesType, close, stopHeartbeat, Requests
  <2>2. connectionState' \in {"Disconnected", "Connecting", "Connected", "WaitingForReconnect"}
        /\ socket' \in {"Unconnected", "Connecting", "Connected", "Closing"}
    BY <1>2 DEF TypeOK, ValuesType, close, stopHeartbeat, Requests
  <2>3. connectionId' \in 0 .. MaxStreams /\ serverSequence' \in Nat
        /\ responseSequence' \in Requests /\ pendingPing' \in 0 .. MaxRequest /\ pendingAuth' \in 0 .. MaxRequest
    BY <1>2 DEF TypeOK, ValuesType, close, stopHeartbeat, Requests
  <2> QED BY <2>1, <2>2, <2>3 DEF ValuesType
<1>3. CASE reconnectNow
  <2>1. CASE socket # "Unconnected"
    <3>1. socketGone(TRUE)
      BY <1>3, <2>1 DEF reconnectNow
    <3> QED BY <1>3, <2>1, <3>1, GoneType DEF TypeOK, ValuesType, reconnectNow, goneKeeps
  <2>2. CASE socket = "Unconnected"
    <3>1. openSocket(endpoint, FALSE, FALSE)
      BY <1>3, <2>2 DEF reconnectNow, socketGone
    <3> QED BY <1>3, <2>2, <3>1, OpenSocketType DEF TypeOK, ValuesType, reconnectNow, socketGone, goneKeeps
  <2> QED BY <2>1, <2>2
<1>4. CASE \E g \in configReplies : configFinished(g)
  <2> PICK g \in configReplies : configFinished(g)
    BY <1>4
  <2>1. CASE openSocket(g, reconnectTimer, attemptTimer)
    BY <2>1, OpenSocketType DEF TypeOK, FlagsType, ValuesType, ValuesType, configFinished
  <2>2. CASE g # generation \/ ~token
    BY <2>2 DEF TypeOK, ValuesType, ValuesType, configFinished
  <2> QED BY <2>1, <2>2 DEF configFinished
<1>5. CASE connected
  <2>1. generation' \in Nat /\ endpoint' \in Nat
        /\ configReplies' \in SUBSET (Nat \ {0})
    BY <1>5, NextRequestType DEF TypeOK, ValuesType, connected, doHandshake, startHeartbeat, Requests
  <2>2. connectionState' \in {"Disconnected", "Connecting", "Connected", "WaitingForReconnect"}
        /\ socket' \in {"Unconnected", "Connecting", "Connected", "Closing"}
    BY <1>5, NextRequestType DEF TypeOK, ValuesType, connected, doHandshake, startHeartbeat, Requests
  <2>3. connectionId' \in 0 .. MaxStreams /\ serverSequence' \in Nat
        /\ responseSequence' \in Requests /\ pendingPing' \in 0 .. MaxRequest /\ pendingAuth' \in 0 .. MaxRequest
    <3>1. 2 \in Requests /\ 1 \in Requests
      BY DEF Requests
    <3>2. pendingPing' = 2 /\ pendingAuth' = 1 /\ responseSequence' = NextRequest(2)
          /\ UNCHANGED <<connectionId, serverSequence>>
      BY <1>5 DEF connected, doHandshake, startHeartbeat
    <3> QED BY <3>1, <3>2, NextRequestType DEF TypeOK, ValuesType, Requests
  <2> QED BY <2>1, <2>2, <2>3 DEF ValuesType
<1>6. CASE disconnected
  <2>1. socketGone(FALSE)
    BY <1>6 DEF disconnected
  <2> QED BY <1>6, <2>1, GoneType DEF TypeOK, ValuesType, disconnected, goneKeeps
<1>7. CASE heartbeatTimeout
  BY <1>7, NextRequestType DEF TypeOK, ValuesType, heartbeatTimeout, sendPing, Requests
<1>8. CASE heartbeatReplyTimeout
  <2>1. socketGone(FALSE)
    BY <1>8 DEF heartbeatReplyTimeout
  <2> QED BY <1>8, <2>1, GoneType DEF TypeOK, ValuesType, heartbeatReplyTimeout, goneKeeps
<1>9. CASE reconnectTimeout
  <2>1. CASE openSocket(endpoint, FALSE, attemptTimer)
    BY <1>9, <2>1, OpenSocketType DEF TypeOK, FlagsType, ValuesType, reconnectTimeout
  <2>2. CASE ~token \/ suppressReconnect \/ socket # "Unconnected"
    BY <1>9, <2>2 DEF TypeOK, ValuesType, reconnectTimeout
  <2> QED BY <1>9, <2>1, <2>2 DEF reconnectTimeout
<1>10. CASE attemptTimeout
  <2>1. CASE token /\ ~suppressReconnect /\ connectionState # "Connected" /\ socket # "Unconnected"
    <3>1. socketGone(FALSE)
      BY <1>10, <2>1 DEF attemptTimeout
    <3> QED BY <1>10, <2>1, <3>1, GoneType DEF TypeOK, ValuesType, attemptTimeout, goneKeeps
  <2>2. CASE ~(token /\ ~suppressReconnect /\ connectionState # "Connected" /\ socket # "Unconnected")
    <3>1. generation' \in Nat /\ endpoint' \in Nat
          /\ configReplies' \in SUBSET (Nat \ {0})
      BY <1>10, <2>2 DEF TypeOK, ValuesType, attemptTimeout, scheduleReconnect, stopHeartbeat, goneKeeps
    <3>2. connectionState' \in {"Disconnected", "Connecting", "Connected", "WaitingForReconnect"}
          /\ socket' \in {"Unconnected", "Connecting", "Connected", "Closing"}
      BY <1>10, <2>2 DEF TypeOK, ValuesType, attemptTimeout, scheduleReconnect, stopHeartbeat, goneKeeps
    <3>3. connectionId' \in 0 .. MaxStreams /\ serverSequence' \in Nat
          /\ responseSequence' \in Requests /\ pendingPing' \in 0 .. MaxRequest /\ pendingAuth' \in 0 .. MaxRequest
      <4>1. pendingPing' \in {0, pendingPing} /\ responseSequence' = responseSequence
            /\ UNCHANGED <<connectionId, serverSequence, pendingAuth>>
        BY <1>10, <2>2 DEF attemptTimeout, stopHeartbeat
      <4> QED BY <4>1 DEF TypeOK, ValuesType
    <3> QED BY <3>1, <3>2, <3>3 DEF ValuesType
  <2> QED BY <2>1, <2>2
<1>11. CASE networkChanged
  BY <1>11, NextRequestType DEF TypeOK, ValuesType, networkChanged, sendPing, Requests
<1>12. CASE answerReceived
  <2>1. CASE socketGone(FALSE) /\ UNCHANGED <<covered, faults>>
    <3>1. generation' \in Nat /\ endpoint' \in Nat
          /\ configReplies' \in SUBSET (Nat \ {0})
      BY <1>12, <2>1, GoneType DEF TypeOK, ValuesType, answerReceived, packetKeeps
    <3>2. connectionState' \in {"Disconnected", "Connecting", "Connected", "WaitingForReconnect"}
          /\ socket' \in {"Unconnected", "Connecting", "Connected", "Closing"}
      BY <1>12, <2>1, GoneType DEF TypeOK, ValuesType, answerReceived, packetKeeps
    <3>3. connectionId' \in 0 .. MaxStreams /\ serverSequence' \in Nat
          /\ responseSequence' \in Requests /\ pendingPing' \in 0 .. MaxRequest /\ pendingAuth' \in 0 .. MaxRequest
      <4>1. responseSequence' \in Requests /\ pendingPing' \in 0 .. MaxRequest
        BY <2>1, GoneType
      <4>2. pendingAuth' \in {0, pendingAuth} /\ UNCHANGED <<connectionId, serverSequence>>
        BY <1>12 DEF answerReceived
      <4> QED BY <4>1, <4>2 DEF TypeOK, ValuesType
    <3> QED BY <3>1, <3>2, <3>3 DEF ValuesType
  <2>2. CASE ~(Head(down).seq = pendingAuth /\ Head(down).failed)
    <3>1. generation' \in Nat /\ endpoint' \in Nat
          /\ configReplies' \in SUBSET (Nat \ {0})
      BY <1>12, <2>2 DEF TypeOK, ValuesType, answerReceived, packetKeeps, stillUp, Requests
    <3>2. connectionState' \in {"Disconnected", "Connecting", "Connected", "WaitingForReconnect"}
          /\ socket' \in {"Unconnected", "Connecting", "Connected", "Closing"}
      BY <1>12, <2>2 DEF TypeOK, ValuesType, answerReceived, packetKeeps, stillUp, Requests
    <3>3. connectionId' \in 0 .. MaxStreams /\ serverSequence' \in Nat
          /\ responseSequence' \in Requests /\ pendingPing' \in 0 .. MaxRequest /\ pendingAuth' \in 0 .. MaxRequest
      <4>1. pendingPing' \in {0, pendingPing} /\ pendingAuth' \in {0, pendingAuth}
            /\ UNCHANGED <<connectionId, serverSequence, responseSequence>>
        BY <1>12, <2>2 DEF answerReceived, stillUp
      <4> QED BY <4>1 DEF TypeOK, ValuesType
    <3> QED BY <3>1, <3>2, <3>3 DEF ValuesType
  <2> QED BY <1>12, <2>1, <2>2 DEF answerReceived
<1>13. CASE entryReceived
  <2> DEFINE p == Head(down)
  <2>1. p \in Packets /\ down # <<>> /\ p.kind = "entry" /\ Tail(down) \in Seq(Packets)
    BY <1>13 DEF TypeOK, WorldType, entryReceived
  <2>2. p.seq \in Nat /\ p.entry \in Entries /\ p.id \in 1 .. MaxStreams
    BY <2>1 DEF Packets
  <2>3. connectionId' \in 0 .. MaxStreams /\ serverSequence' \in Nat
    <3>1. connectionId' \in {connectionId, p.id}
      BY <1>13 DEF entryReceived
    <3>2. serverSequence' \in {0, serverSequence, p.seq + 1}
      BY <1>13 DEF entryReceived
    <3> QED BY <2>2, <3>1, <3>2 DEF TypeOK, ValuesType
  <2>4. CASE socketGone(FALSE) /\ UNCHANGED <<history, faults>>
    BY <1>13, <2>3, <2>4, GoneType DEF TypeOK, ValuesType, entryReceived, packetKeeps
  <2>5. CASE ~(socketGone(FALSE) /\ UNCHANGED <<history, faults>>)
    BY <1>13, <2>3, <2>5 DEF TypeOK, ValuesType, entryReceived, packetKeeps, stillUp
  <2> QED BY <2>4, <2>5
<1>14. CASE Publish
  BY <1>14 DEF TypeOK, ValuesType, Publish, client, Requests
<1>15. CASE ServerAnswers
  BY <1>15 DEF TypeOK, ValuesType, ServerAnswers, client, Requests
<1>16. CASE LinkDies
  BY <1>16 DEF TypeOK, ValuesType, LinkDies, client, Requests
<1>17. CASE ServerForgets
  BY <1>17 DEF TypeOK, ValuesType, ServerForgets, client, Requests
<1>18. CASE UNCHANGED vars
  BY <1>18 DEF TypeOK, ValuesType, vars, client, Requests
<1> QED BY <1>1, <1>2, <1>3, <1>4, <1>5, <1>6, <1>7, <1>8, <1>9, <1>10, <1>11, <1>12, <1>13, <1>14, <1>15, <1>16, <1>17, <1>18 DEF Next

\* The network, the server and the history.
LEMMA WorldStep == TypeOK /\ [Next]_vars => WorldType'
<1> SUFFICES ASSUME TypeOK, [Next]_vars PROVE WorldType'
  OBVIOUS
<1>1. CASE open
  BY <1>1 DEF TypeOK, WorldType, open, stopHeartbeat, Requests, Entries, server, history
<1>2. CASE close
  BY <1>2 DEF TypeOK, WorldType, close, stopHeartbeat, Requests, Entries, server, history
<1>3. CASE reconnectNow
  <2>1. CASE socket # "Unconnected"
    <3>1. socketGone(TRUE)
      BY <1>3, <2>1 DEF reconnectNow
    <3> QED
      <4>1. faults' \in 0 .. MaxFaults /\ nudges' \in 0 .. MaxNudges
        <5>1. nudges \in 0 .. MaxNudges
          BY DEF TypeOK, WorldType
        <5>2. nudges' \in 0 .. MaxNudges
          BY <1>3, <5>1 DEF reconnectNow, Nudge
        <5> QED BY <3>1, <5>2, GoneType
      <4>2. link' \in {"none", "live", "dead"} /\ up' \in Seq(Requests) /\ down' \in Seq(Packets)
        BY <3>1, GoneType
      <4>3. issued' \in Entries /\ covered' \in Entries
        BY <1>3, <2>1, <3>1, GoneType DEF TypeOK, WorldType, reconnectNow, goneKeeps, server, history, Nudge
      <4>4. stream' \in 0 .. MaxStreams /\ streams' \in 0 .. MaxStreams
            /\ log' \in Seq(Entries) /\ handled' \in Seq(Entries)
        BY <1>3, <2>1, <3>1, GoneType DEF TypeOK, WorldType, reconnectNow, goneKeeps, server, history, Nudge
      <4> QED BY <4>1, <4>2, <4>3, <4>4 DEF WorldType
  <2>2. CASE socket = "Unconnected"
    <3>1. openSocket(endpoint, FALSE, FALSE)
      BY <1>3, <2>2 DEF reconnectNow, socketGone
    <3> QED
      <4>1. faults' \in 0 .. MaxFaults /\ nudges' \in 0 .. MaxNudges
        <5>1. nudges \in 0 .. MaxNudges
          BY DEF TypeOK, WorldType
        <5>2. nudges' \in 0 .. MaxNudges
          BY <1>3, <5>1 DEF reconnectNow, Nudge
        <5> QED BY <3>1, <5>2, OpenSocketType
      <4>2. link' \in {"none", "live", "dead"} /\ up' \in Seq(Requests) /\ down' \in Seq(Packets)
        BY <1>3, <2>2, <3>1, OpenSocketType DEF TypeOK, WorldType, reconnectNow, socketGone, goneKeeps, server, history, Nudge
      <4>3. issued' \in Entries /\ covered' \in Entries
        BY <1>3, <2>2, <3>1, OpenSocketType DEF TypeOK, WorldType, reconnectNow, socketGone, goneKeeps, server, history, Nudge
      <4>4. stream' \in 0 .. MaxStreams /\ streams' \in 0 .. MaxStreams
            /\ log' \in Seq(Entries) /\ handled' \in Seq(Entries)
        BY <1>3, <2>2, <3>1, OpenSocketType DEF TypeOK, WorldType, reconnectNow, socketGone, goneKeeps, server, history, Nudge
      <4> QED BY <4>1, <4>2, <4>3, <4>4 DEF WorldType
  <2> QED BY <2>1, <2>2
<1>4. CASE \E g \in configReplies : configFinished(g)
  <2> PICK g \in configReplies : configFinished(g)
    BY <1>4
  <2>1. CASE openSocket(g, reconnectTimer, attemptTimer)
    BY <2>1, OpenSocketType DEF TypeOK, FlagsType, ValuesType, WorldType, configFinished, server, history
  <2>2. CASE g # generation \/ ~token
    BY <2>2 DEF TypeOK, ValuesType, WorldType, configFinished, server, history
  <2> QED BY <2>1, <2>2 DEF configFinished
<1>5. CASE connected
  <2>1. up' \in Seq(Requests)
    BY <1>5 DEF connected, startHeartbeat, Requests
  <2>2. stream' \in 0 .. MaxStreams /\ streams' \in 0 .. MaxStreams
        /\ log' \in Seq(Entries) /\ down' \in Seq(Packets)
    <3>1. CASE stream # 0 /\ connectionId = stream
      <4>1. stream \in 1 .. MaxStreams /\ serverSequence \in Nat
        BY <3>1 DEF TypeOK, ValuesType, WorldType
      <4>6. stream' = stream /\ streams' = streams
        BY <1>5, <3>1 DEF connected
      <4>2. PICK again \in {<<>>, <<Hello>>} :
              /\ log' = log \o again
              /\ down' = [k \in 1 .. Len(log') - serverSequence |->
                            Entry(serverSequence + k, stream, log'[serverSequence + k])]
        BY <1>5, <3>1 DEF connected
      <4>3. Hello \in Entries
        BY DEF Hello, Entries
      <4>4. log' \in Seq(Entries)
        <5>1. log \in Seq(Entries)
          BY DEF TypeOK, WorldType
        <5>2. CASE again = <<>>
          BY <4>2, <5>1, <5>2
        <5>3. CASE again = <<Hello>>
          BY <4>2, <4>3, <5>1, <5>3
        <5> QED BY <4>2, <5>2, <5>3
      <4>5. down' \in Seq(Packets)
        BY <4>1, <4>2, <4>4, ReplayType
      <4> QED BY <4>4, <4>5, <4>6 DEF TypeOK, WorldType
    <3>2. CASE stream = 0 \/ connectionId # stream
      <4>1. /\ streams' = streams + 1 /\ stream' = streams' /\ streams < MaxStreams
            /\ log' = <<Hello>> /\ down' = <<Entry(1, stream', Hello)>>
        BY <1>5, <3>2 DEF connected
      <4>2. stream' \in 1 .. MaxStreams /\ Hello \in Entries
        BY <4>1 DEF TypeOK, WorldType, Hello, Entries
      <4>3. Entry(1, stream', Hello) \in Packets
        BY <4>2, PacketTypes
      <4> QED BY <4>1, <4>2, <4>3
    <3> QED BY <3>1, <3>2
  <2> QED BY <1>5, <2>1, <2>2 DEF TypeOK, WorldType, connected, history
<1>6. CASE disconnected
  <2>1. socketGone(FALSE)
    BY <1>6 DEF disconnected
  <2> QED
    <3>1. faults' \in 0 .. MaxFaults /\ nudges' \in 0 .. MaxNudges
      BY <1>6, <2>1, GoneType DEF TypeOK, WorldType, disconnected, goneKeeps, server, history, InTime, Fault
    <3>2. link' \in {"none", "live", "dead"} /\ up' \in Seq(Requests) /\ down' \in Seq(Packets)
      BY <2>1, GoneType
    <3>3. issued' \in Entries /\ covered' \in Entries
      BY <1>6, <2>1, GoneType DEF TypeOK, WorldType, disconnected, goneKeeps, server, history, InTime, Fault
    <3>4. stream' \in 0 .. MaxStreams /\ streams' \in 0 .. MaxStreams
          /\ log' \in Seq(Entries) /\ handled' \in Seq(Entries)
      BY <1>6, <2>1, GoneType DEF TypeOK, WorldType, disconnected, goneKeeps, server, history, InTime, Fault
    <3> QED BY <3>1, <3>2, <3>3, <3>4 DEF WorldType
<1>7. CASE heartbeatTimeout
  <2>1. up' \in Seq(Requests)
    BY <1>7 DEF TypeOK, ValuesType, WorldType, heartbeatTimeout, sendPing
  <2> QED BY <1>7, <2>1 DEF TypeOK, WorldType, heartbeatTimeout, Nudge, server, history
<1>8. CASE heartbeatReplyTimeout
  <2>1. socketGone(FALSE)
    BY <1>8 DEF heartbeatReplyTimeout
  <2> QED
    <3>1. faults' \in 0 .. MaxFaults /\ nudges' \in 0 .. MaxNudges
      BY <1>8, <2>1, GoneType DEF TypeOK, WorldType, heartbeatReplyTimeout, goneKeeps, server, history, InTime, Fault
    <3>2. link' \in {"none", "live", "dead"} /\ up' \in Seq(Requests) /\ down' \in Seq(Packets)
      BY <2>1, GoneType
    <3>3. issued' \in Entries /\ covered' \in Entries
      BY <1>8, <2>1, GoneType DEF TypeOK, WorldType, heartbeatReplyTimeout, goneKeeps, server, history, InTime, Fault
    <3>4. stream' \in 0 .. MaxStreams /\ streams' \in 0 .. MaxStreams
          /\ log' \in Seq(Entries) /\ handled' \in Seq(Entries)
      BY <1>8, <2>1, GoneType DEF TypeOK, WorldType, heartbeatReplyTimeout, goneKeeps, server, history, InTime, Fault
    <3> QED BY <3>1, <3>2, <3>3, <3>4 DEF WorldType
<1>9. CASE reconnectTimeout
  <2>1. CASE openSocket(endpoint, FALSE, attemptTimer)
    BY <1>9, <2>1, OpenSocketType DEF TypeOK, FlagsType, WorldType, reconnectTimeout, server, history
  <2>2. CASE ~token \/ suppressReconnect \/ socket # "Unconnected"
    BY <1>9, <2>2 DEF TypeOK, WorldType, reconnectTimeout, server, history
  <2> QED BY <1>9, <2>1, <2>2 DEF reconnectTimeout
<1>10. CASE attemptTimeout
  <2>1. CASE token /\ ~suppressReconnect /\ connectionState # "Connected" /\ socket # "Unconnected"
    <3>1. socketGone(FALSE)
      BY <1>10, <2>1 DEF attemptTimeout
    <3> QED
      <4>1. faults' \in 0 .. MaxFaults /\ nudges' \in 0 .. MaxNudges
        <5>1. faults \in 0 .. MaxFaults /\ nudges \in 0 .. MaxNudges
          BY DEF TypeOK, WorldType
        <5>2. nudges' = nudges /\ InTime
          BY <1>10, <2>1 DEF attemptTimeout
        <5> QED BY <5>1, <5>2 DEF InTime, Fault
      <4>2. link' \in {"none", "live", "dead"} /\ up' \in Seq(Requests) /\ down' \in Seq(Packets)
        BY <3>1, GoneType
      <4>3. issued' \in Entries /\ covered' \in Entries
        BY <1>10, <2>1, <3>1, GoneType DEF TypeOK, WorldType, attemptTimeout, goneKeeps, server, history, InTime, Fault
      <4>4. stream' \in 0 .. MaxStreams /\ streams' \in 0 .. MaxStreams
            /\ log' \in Seq(Entries) /\ handled' \in Seq(Entries)
        BY <1>10, <2>1, <3>1, GoneType DEF TypeOK, WorldType, attemptTimeout, goneKeeps, server, history, InTime, Fault
      <4> QED BY <4>1, <4>2, <4>3, <4>4 DEF WorldType
  <2>2. CASE ~(token /\ ~suppressReconnect /\ connectionState # "Connected" /\ socket # "Unconnected")
    BY <1>10, <2>2 DEF TypeOK, WorldType, attemptTimeout, scheduleReconnect, stopHeartbeat, goneKeeps, server, history
  <2> QED BY <2>1, <2>2
<1>11. CASE networkChanged
  <2>1. up' \in Seq(Requests)
    BY <1>11 DEF TypeOK, ValuesType, WorldType, networkChanged, sendPing
  <2> QED BY <1>11, <2>1 DEF TypeOK, WorldType, networkChanged, Nudge, server, history
<1>12. CASE answerReceived
  <2>1. CASE socketGone(FALSE) /\ UNCHANGED <<covered, faults>>
    <3>1. faults' \in 0 .. MaxFaults /\ nudges' \in 0 .. MaxNudges
      BY <1>12, <2>1, GoneType DEF TypeOK, WorldType, answerReceived, packetKeeps, server
    <3>2. link' \in {"none", "live", "dead"} /\ up' \in Seq(Requests) /\ down' \in Seq(Packets)
      BY <2>1, GoneType
    <3>3. issued' \in Entries /\ covered' \in Entries
      BY <1>12, <2>1, GoneType DEF TypeOK, WorldType, answerReceived, packetKeeps, server
    <3>4. stream' \in 0 .. MaxStreams /\ streams' \in 0 .. MaxStreams
          /\ log' \in Seq(Entries) /\ handled' \in Seq(Entries)
      BY <1>12, <2>1, GoneType DEF TypeOK, WorldType, answerReceived, packetKeeps, server
    <3> QED BY <3>1, <3>2, <3>3, <3>4 DEF WorldType
  <2>2. CASE ~(Head(down).seq = pendingAuth /\ Head(down).failed)
    <3>1. faults' \in 0 .. MaxFaults /\ nudges' \in 0 .. MaxNudges
      BY <1>12, <2>2 DEF TypeOK, WorldType, answerReceived, packetKeeps, stillUp, server
    <3>2. link' \in {"none", "live", "dead"} /\ up' \in Seq(Requests) /\ down' \in Seq(Packets)
      <4>1. down' = Tail(down) /\ UNCHANGED <<link, up>>
        BY <1>12, <2>2 DEF answerReceived, stillUp
      <4> QED BY <1>12, <4>1 DEF TypeOK, WorldType, answerReceived
    <3>3. issued' \in Entries /\ covered' \in Entries
      BY <1>12, <2>2 DEF TypeOK, WorldType, answerReceived, packetKeeps, stillUp, server
    <3>4. stream' \in 0 .. MaxStreams /\ streams' \in 0 .. MaxStreams
          /\ log' \in Seq(Entries) /\ handled' \in Seq(Entries)
      BY <1>12, <2>2 DEF TypeOK, WorldType, answerReceived, packetKeeps, stillUp, server
    <3> QED BY <3>1, <3>2, <3>3, <3>4 DEF WorldType
  <2> QED BY <1>12, <2>1, <2>2 DEF answerReceived
<1>13. CASE entryReceived
  <2> DEFINE p == Head(down)
  <2>1. p \in Packets /\ down # <<>> /\ p.kind = "entry" /\ Tail(down) \in Seq(Packets)
    BY <1>13 DEF TypeOK, WorldType, entryReceived
  <2>2. p.seq \in Nat /\ p.entry \in Entries /\ p.id \in 1 .. MaxStreams
    BY <2>1 DEF Packets
  <2>4. CASE socketGone(FALSE) /\ UNCHANGED <<history, faults>>
    <3>1. faults' \in 0 .. MaxFaults /\ nudges' \in 0 .. MaxNudges
      BY <1>13, <2>4, GoneType DEF TypeOK, WorldType, entryReceived, packetKeeps, server, history
    <3>2. link' \in {"none", "live", "dead"} /\ up' \in Seq(Requests) /\ down' \in Seq(Packets)
      BY <2>4, GoneType
    <3>3. issued' \in Entries /\ covered' \in Entries
      BY <1>13, <2>4, GoneType DEF TypeOK, WorldType, entryReceived, packetKeeps, server, history
    <3>4. stream' \in 0 .. MaxStreams /\ streams' \in 0 .. MaxStreams
          /\ log' \in Seq(Entries) /\ handled' \in Seq(Entries)
      BY <1>13, <2>4, GoneType DEF TypeOK, WorldType, entryReceived, packetKeeps, server, history
    <3> QED BY <3>1, <3>2, <3>3, <3>4 DEF WorldType
  <2>5. CASE ~(socketGone(FALSE) /\ UNCHANGED <<history, faults>>)
    <3>1. down' = Tail(down) /\ covered' \in {issued, covered}
          /\ handled' = (IF p.entry = Hello THEN handled ELSE Append(handled, p.entry))
          /\ UNCHANGED stillUp /\ UNCHANGED packetKeeps
      BY <1>13, <2>5 DEF entryReceived
    <3> QED BY <2>1, <2>2, <3>1 DEF TypeOK, WorldType, packetKeeps, stillUp, server
  <2> QED BY <2>4, <2>5
<1>14. CASE Publish
  <2>1. issued' \in Entries /\ log' \in Seq(Entries)
    <3>1. issued' \in Entries
      BY <1>14 DEF TypeOK, WorldType, Publish, Entries
    <3> QED BY <1>14, <3>1 DEF TypeOK, WorldType, Publish
  <2>2. down' \in Seq(Packets) /\ faults' \in 0 .. MaxFaults
    <3>1. CASE down' = Append(down, Entry(Len(log'), stream, issued')) /\ UNCHANGED faults /\ stream # 0
      <4>1. Len(log') \in Nat \ {0} /\ stream \in 1 .. MaxStreams
        BY <1>14, <2>1, <3>1 DEF TypeOK, WorldType, Publish
      <4>2. Entry(Len(log'), stream, issued') \in Packets
        BY <2>1, <4>1, PacketTypes
      <4> QED BY <3>1, <4>2 DEF TypeOK, WorldType
    <3>2. CASE down' = down /\ (Fault \/ UNCHANGED faults)
      BY <3>2 DEF TypeOK, WorldType, Fault
    <3> QED BY <1>14, <3>1, <3>2 DEF Publish
  <2> QED BY <1>14, <2>1, <2>2 DEF TypeOK, WorldType, Publish, history
<1>15. CASE ServerAnswers
  <2>1. Head(up) \in Requests /\ Tail(up) \in Seq(Requests)
    BY <1>15 DEF TypeOK, WorldType, ServerAnswers
  <2>2. Answer(Head(up), FALSE) \in Packets /\ (Head(up) = 1 => Answer(1, TRUE) \in Packets)
    BY <2>1, PacketTypes
  <2>3. down' \in Seq(Packets) /\ up' \in Seq(Requests)
    <3>1. up \in Seq(Requests) /\ down \in Seq(Packets)
      BY DEF TypeOK, WorldType
    <3>2. up' = Tail(up)
      BY <1>15 DEF ServerAnswers
    <3>3. CASE down' = Append(down, Answer(Head(up), FALSE))
      BY <2>1, <2>2, <3>1, <3>2, <3>3, AppendType
    <3>4. CASE Head(up) = 1 /\ down' = Append(down, Answer(1, TRUE))
      BY <2>1, <2>2, <3>1, <3>2, <3>4, AppendType
    <3>5. CASE Head(up) = 1 /\ down' = <<Answer(1, FALSE)>> \o down
      <4>1. Answer(1, FALSE) \in Packets
        BY <2>2, <3>5, Zenon
      <4>2. \A q \in Packets : <<q>> \in Seq(Packets)
        OBVIOUS
      <4>3. \A s, t \in Seq(Packets) : s \o t \in Seq(Packets)
        BY ConcatProperties
      <4> QED BY <2>1, <3>1, <3>2, <3>5, <4>1, <4>2, <4>3
    <3> QED BY <1>15, <3>3, <3>4, <3>5 DEF ServerAnswers
  <2> QED
    <3>1. faults' \in 0 .. MaxFaults /\ nudges' \in 0 .. MaxNudges
      <4>1. faults \in 0 .. MaxFaults /\ nudges \in 0 .. MaxNudges
        BY DEF TypeOK, WorldType
      <4>2. nudges' = nudges /\ (faults' = faults \/ Fault)
        BY <1>15 DEF ServerAnswers
      <4> QED BY <4>1, <4>2 DEF Fault
    <3>2. link' \in {"none", "live", "dead"} /\ up' \in Seq(Requests) /\ down' \in Seq(Packets)
      BY <1>15, <2>3 DEF TypeOK, WorldType, ServerAnswers, Fault, client, server, history
    <3>3. issued' \in Entries /\ covered' \in Entries
      BY <1>15, <2>3 DEF TypeOK, WorldType, ServerAnswers, Fault, client, server, history
    <3>4. stream' \in 0 .. MaxStreams /\ streams' \in 0 .. MaxStreams
          /\ log' \in Seq(Entries) /\ handled' \in Seq(Entries)
      BY <1>15, <2>3 DEF TypeOK, WorldType, ServerAnswers, Fault, client, server, history
    <3> QED BY <3>1, <3>2, <3>3, <3>4 DEF WorldType
<1>16. CASE LinkDies
  BY <1>16 DEF TypeOK, WorldType, LinkDies, client, Fault, server, history, client
<1>17. CASE ServerForgets
  BY <1>17 DEF TypeOK, WorldType, ServerForgets, client, Fault, server, history, client
<1>18. CASE UNCHANGED vars
  BY <1>18 DEF TypeOK, WorldType, vars, client, Requests, Entries, server, history
<1> QED BY <1>1, <1>2, <1>3, <1>4, <1>5, <1>6, <1>7, <1>8, <1>9, <1>10, <1>11, <1>12, <1>13, <1>14, <1>15, <1>16, <1>17, <1>18 DEF Next

\* Every step keeps the types.
THEOREM StepType == TypeOK /\ [Next]_vars => TypeOK'
BY FlagsStep, ValuesStep, WorldStep DEF TypeOK

\* Type correctness.
THEOREM TypeCorrect == Spec => []TypeOK
<1>1. Init => TypeOK
  BY InitType
<1>2. TypeOK /\ [Next]_vars => TypeOK'
  BY StepType
<1> QED BY <1>1, <1>2, PTL DEF Spec

-------------------------------------------------------------------------------
(* The connection discipline.                                                 *)

Discipline ==
    Consistent /\ ReconnectRemembered /\ NeverStranded /\ ProbeArmed /\ EndpointCurrent

\* What an attempt to connect leaves behind, when a token is held and the
\* endpoint is known or its config reply is still to come.
LEMMA OpenSocketDiscipline ==
    ASSUME TypeOK, NEW url, NEW timer \in BOOLEAN, NEW attempt \in BOOLEAN,
           token, openSocket(url, timer, attempt)
    PROVE  /\ socket' \in {"Unconnected", "Connecting"}
           /\ connectionState' \in {"Connecting", "WaitingForReconnect", connectionState}
           /\ hasReconnect => hasReconnect'
           /\ socket' = "Connecting" => url # 0 /\ attemptTimer'
           /\ url # 0 => /\ attemptTimer'
                         /\ connectionState' \in {"Connecting", "WaitingForReconnect"}
BY DEF openSocket, scheduleReconnect, TypeOK, FlagsType

\* The disconnected signal of a socket that was not closed by reset().
LEMMA GoneDiscipline ==
    ASSUME TypeOK, Discipline, token, socketGone(FALSE),
           UNCHANGED <<token, endpoint, generation, configReplies>>,
           connectionId' # 0 => connectionId # 0 \/ socket = "Connected"
    PROVE  Discipline'
<1>1. ~suppressReconnect
  BY DEF Discipline, Consistent
<1>2. /\ socket' = "Unconnected" /\ attemptTimer' = FALSE /\ heartbeat' = FALSE
      /\ suppressReconnect' = FALSE /\ connectNotified' = FALSE /\ reconnectTimer' = TRUE
  BY <1>1 DEF socketGone, stopHeartbeat, scheduleReconnect
<1>3. connectionState' # "Connected" /\ connectionState' # "Disconnected"
  BY <1>1 DEF socketGone, scheduleReconnect, Discipline, Consistent
<1>4. Consistent'
  BY <1>2, <1>3 DEF Discipline, Consistent
<1>5. ReconnectRemembered'
  <2>1. CASE reconnectTimer
    BY <1>1, <2>1 DEF socketGone, scheduleReconnect, Discipline, Consistent, ReconnectRemembered
  <2>2. CASE ~reconnectTimer
    BY <1>1, <2>2 DEF socketGone, scheduleReconnect, ReconnectRemembered
  <2> QED BY <2>1, <2>2
<1>6. NeverStranded' /\ ProbeArmed' /\ EndpointCurrent'
  BY <1>2 DEF NeverStranded, ProbeArmed, EndpointCurrent, Discipline
<1> QED BY <1>4, <1>5, <1>6 DEF Discipline

\* The discipline holds initially.
LEMMA InitDiscipline == Init => Discipline
BY DEF Init, Discipline, Consistent, ReconnectRemembered, NeverStranded, ProbeArmed, EndpointCurrent

\* A suppressed or logged-out disconnect: nothing is scheduled.
LEMMA SilentGoneDiscipline ==
    ASSUME TypeOK, Discipline, ~token, socketGone(FALSE),
           UNCHANGED <<token, endpoint, generation, configReplies, connectionId>>
    PROVE  Discipline'
<1>1. /\ socket' = "Unconnected" /\ heartbeat' = FALSE /\ suppressReconnect' = FALSE
      /\ connectNotified' = FALSE /\ connectionState' = "Disconnected" /\ ~token'
  BY DEF socketGone, stopHeartbeat
<1>2. connectionId' # 0 => hasReconnect'
  BY DEF socketGone, Discipline, Consistent, ReconnectRemembered
<1> QED BY <1>1, <1>2 DEF Discipline, Consistent, ReconnectRemembered, NeverStranded, ProbeArmed, EndpointCurrent

\* Every step keeps the discipline.
LEMMA DisciplineStep == TypeOK /\ Discipline /\ [Next]_vars => Discipline'
<1> SUFFICES ASSUME TypeOK, Discipline, [Next]_vars PROVE Discipline'
  OBVIOUS
<1>1. CASE open
  <2>1. /\ token' = TRUE /\ connectionState' = "Connecting" /\ endpoint' = 0
        /\ connectionId' = 0 /\ heartbeat' = FALSE /\ reconnectTimer' = FALSE
        /\ connectNotified' = FALSE /\ suppressReconnect' = FALSE /\ attemptTimer' = FALSE
        /\ socket' = socket /\ ~token
    BY <1>1 DEF open, stopHeartbeat
  <2>2. generation' \in configReplies'
    BY <1>1 DEF open
  <2> QED BY <2>1, <2>2 DEF Discipline, Consistent, ReconnectRemembered, NeverStranded,
       ProbeArmed, EndpointCurrent
<1>2. CASE close
  <2>1. /\ token' = FALSE /\ connectionState' = "Disconnected" /\ connectionId' = 0
        /\ heartbeat' = FALSE /\ reconnectTimer' = FALSE /\ attemptTimer' = FALSE
        /\ connectNotified' = FALSE
        /\ \/ socket' = "Unconnected" /\ suppressReconnect' = FALSE
           \/ socket' = "Closing" /\ suppressReconnect' = TRUE
    BY <1>2 DEF close, stopHeartbeat
  <2> QED BY <2>1 DEF Discipline, Consistent, ReconnectRemembered, NeverStranded,
       ProbeArmed, EndpointCurrent
<1>3. CASE reconnectNow
  <2>1. /\ openSocket(endpoint, FALSE, FALSE) /\ token /\ connectionState # "Connected"
        /\ UNCHANGED <<token, endpoint, generation, configReplies, connectionId>>
    BY <1>3 DEF reconnectNow, socketGone, goneKeeps
  <2>2. /\ heartbeat' = FALSE /\ suppressReconnect' = FALSE /\ connectNotified' = FALSE
    BY <1>3 DEF reconnectNow, socketGone, stopHeartbeat, Discipline, Consistent, ProbeArmed, TypeOK, FlagsType
  <2>3. /\ socket' \in {"Unconnected", "Connecting"}
        /\ connectionState' # "Connected" /\ connectionState' # "Disconnected"
        /\ hasReconnect => hasReconnect'
        /\ socket' = "Connecting" => endpoint # 0 /\ attemptTimer'
        /\ endpoint # 0 => attemptTimer'
    <3>1. connectionState # "Disconnected"
      BY <2>1 DEF Discipline, Consistent
    <3>2. FALSE \in BOOLEAN
      OBVIOUS
    <3>3. connectionState' \in {"Connecting", "WaitingForReconnect", connectionState}
      BY <2>1, <3>2, OpenSocketDiscipline
    <3>4. connectionState' # "Connected" /\ connectionState' # "Disconnected"
      BY <2>1, <3>1, <3>3
    <3> QED BY <2>1, <3>2, <3>4, OpenSocketDiscipline
  <2> QED BY <2>1, <2>2, <2>3 DEF Discipline, Consistent, ReconnectRemembered, NeverStranded,
       ProbeArmed, EndpointCurrent
<1>4. CASE \E g \in configReplies : configFinished(g)
  <2> PICK g \in configReplies : configFinished(g)
    BY <1>4
  <2>1. /\ UNCHANGED <<token, generation, connectionId, heartbeat, connectNotified, suppressReconnect>>
        /\ configReplies' = configReplies \ {g}
    BY DEF configFinished
  <2>2. CASE /\ g # generation \/ ~token
             /\ UNCHANGED <<endpoint, connectionState, attemptTimer, socket, hasReconnect, reconnectTimer>>
    BY <2>1, <2>2 DEF Discipline, Consistent, ReconnectRemembered, NeverStranded,
       ProbeArmed, EndpointCurrent
  <2>3. CASE g = generation /\ token /\ endpoint' = g /\ openSocket(g, reconnectTimer, attemptTimer)
    <3>1. g # 0
      BY DEF TypeOK, ValuesType
    <3>2. /\ socket' \in {"Unconnected", "Connecting"}
          /\ connectionState' # "Connected" /\ connectionState' # "Disconnected" /\ attemptTimer'
          /\ hasReconnect => hasReconnect'
      <4>1. reconnectTimer \in BOOLEAN /\ attemptTimer \in BOOLEAN
        BY DEF TypeOK, FlagsType
      <4>2. connectionState' \in {"Connecting", "WaitingForReconnect"} /\ attemptTimer'
        BY <2>3, <3>1, <4>1, OpenSocketDiscipline
      <4>3. socket' \in {"Unconnected", "Connecting"} /\ (hasReconnect => hasReconnect')
        BY <2>3, <4>1, OpenSocketDiscipline
      <4> QED BY <4>2, <4>3
    <3>3. endpoint = 0 /\ socket # "Connected"
      BY <2>3 DEF Discipline, Consistent
    <3> QED BY <2>1, <2>3, <3>1, <3>2, <3>3 DEF Discipline, Consistent, ReconnectRemembered,
         NeverStranded, ProbeArmed, EndpointCurrent
  <2> QED BY <2>2, <2>3 DEF configFinished
<1>5. CASE connected
  <2>1. /\ socket = "Connecting" /\ socket' = "Connected" /\ reconnectTimer' = FALSE
        /\ connectNotified' = FALSE /\ heartbeat' = TRUE
        /\ UNCHANGED <<token, endpoint, generation, connectionState, connectionId,
                       attemptTimer, hasReconnect, suppressReconnect, configReplies>>
    BY <1>5 DEF connected, startHeartbeat
  <2> QED BY <2>1 DEF Discipline, Consistent, ReconnectRemembered, NeverStranded,
       ProbeArmed, EndpointCurrent
<1>6. CASE disconnected
  <2>1. /\ socketGone(FALSE) /\ connectionId' = connectionId
        /\ UNCHANGED <<token, endpoint, generation, configReplies>>
    BY <1>6 DEF disconnected, goneKeeps
  <2> QED BY <2>1, GoneDiscipline, SilentGoneDiscipline
<1>7. CASE heartbeatTimeout
  <2>1. UNCHANGED <<token, endpoint, generation, connectionState, connectionId, heartbeat,
                    reconnectTimer, attemptTimer, hasReconnect, connectNotified,
                    suppressReconnect, socket, configReplies>>
    BY <1>7 DEF heartbeatTimeout
  <2> QED BY <2>1 DEF Discipline, Consistent, ReconnectRemembered, NeverStranded,
       ProbeArmed, EndpointCurrent
<1>8. CASE heartbeatReplyTimeout
  <2>1. /\ socketGone(FALSE) /\ connectionId' = connectionId
        /\ UNCHANGED <<token, endpoint, generation, configReplies>>
    BY <1>8 DEF heartbeatReplyTimeout, goneKeeps
  <2> QED BY <2>1, GoneDiscipline, SilentGoneDiscipline
<1>9. CASE reconnectTimeout
  <2>1. UNCHANGED <<token, endpoint, generation, connectionId, heartbeat, connectNotified,
                    suppressReconnect, configReplies>>
    BY <1>9 DEF reconnectTimeout
  <2>2. CASE /\ ~token \/ suppressReconnect \/ socket # "Unconnected"
             /\ reconnectTimer' = FALSE
             /\ UNCHANGED <<connectionState, attemptTimer, socket, hasReconnect>>
    BY <2>1, <2>2 DEF Discipline, Consistent, ReconnectRemembered, NeverStranded,
       ProbeArmed, EndpointCurrent, TypeOK, ValuesType
  <2>3. CASE token /\ socket = "Unconnected" /\ openSocket(endpoint, FALSE, attemptTimer)
    <3>1. connectionState # "Connected" /\ connectionState # "Disconnected"
      BY <2>3 DEF Discipline, Consistent
    <3>2. /\ socket' \in {"Unconnected", "Connecting"}
          /\ connectionState' # "Connected" /\ connectionState' # "Disconnected"
          /\ hasReconnect => hasReconnect'
          /\ socket' = "Connecting" => endpoint # 0 /\ attemptTimer'
          /\ endpoint # 0 => attemptTimer'
      <4>1. attemptTimer \in BOOLEAN /\ FALSE \in BOOLEAN
        BY DEF TypeOK, FlagsType
      <4>2. connectionState' \in {"Connecting", "WaitingForReconnect", connectionState}
        BY <2>3, <4>1, OpenSocketDiscipline
      <4>3. connectionState' # "Connected" /\ connectionState' # "Disconnected"
        BY <3>1, <4>2
      <4> QED BY <2>3, <4>1, <4>3, OpenSocketDiscipline
    <3> QED BY <2>1, <2>3, <3>1, <3>2 DEF Discipline, Consistent, ReconnectRemembered,
         NeverStranded, ProbeArmed, EndpointCurrent
  <2> QED BY <1>9, <2>2, <2>3 DEF reconnectTimeout
<1>10. CASE attemptTimeout
  <2>1. UNCHANGED <<token, endpoint, generation, connectionId, configReplies>>
    BY <1>10 DEF attemptTimeout, goneKeeps
  <2>2. CASE /\ ~token \/ suppressReconnect \/ connectionState = "Connected"
             /\ attemptTimer' = FALSE
             /\ UNCHANGED <<connectionState, hasReconnect, reconnectTimer, heartbeat,
                            suppressReconnect, connectNotified, socket>>
    BY <2>1, <2>2 DEF Discipline, Consistent, ReconnectRemembered, NeverStranded,
       ProbeArmed, EndpointCurrent
  <2>3. CASE /\ token /\ connectionState # "Connected" /\ socket = "Unconnected"
             /\ stopHeartbeat
             /\ scheduleReconnect(reconnectTimer, connectionState)
             /\ UNCHANGED <<suppressReconnect, connectNotified, socket>>
    <3>1. /\ heartbeat' = FALSE /\ reconnectTimer' = TRUE
          /\ connectionState' # "Connected" /\ connectionState' # "Disconnected"
          /\ hasReconnect => hasReconnect'
      BY <2>3 DEF stopHeartbeat, scheduleReconnect, Discipline, Consistent
    <3> QED BY <2>1, <2>3, <3>1 DEF Discipline, Consistent, ReconnectRemembered,
         NeverStranded, ProbeArmed, EndpointCurrent
  <2>4. CASE token /\ socketGone(FALSE)
    BY <2>1, <2>4, GoneDiscipline
  <2> QED BY <1>10, <2>2, <2>3, <2>4 DEF attemptTimeout
<1>11. CASE networkChanged
  <2>1. UNCHANGED <<token, endpoint, generation, connectionState, connectionId, heartbeat,
                    reconnectTimer, attemptTimer, hasReconnect, connectNotified,
                    suppressReconnect, socket, configReplies>>
    BY <1>11 DEF networkChanged
  <2> QED BY <2>1 DEF Discipline, Consistent, ReconnectRemembered, NeverStranded,
       ProbeArmed, EndpointCurrent
<1>12. CASE answerReceived
  <2>1. /\ UNCHANGED <<token, endpoint, generation, configReplies, connectionId>>
        /\ socket = "Connected" /\ token
    BY <1>12 DEF answerReceived, packetKeeps, Discipline, Consistent
  <2>2. CASE socketGone(FALSE)
    BY <2>1, <2>2, GoneDiscipline
  <2>3. CASE /\ \/ connectNotified' = TRUE /\ attemptTimer' = FALSE /\ connectionState' = "Connected"
                \/ UNCHANGED <<connectNotified, attemptTimer, connectionState>>
             /\ UNCHANGED <<heartbeat, reconnectTimer, suppressReconnect, socket, hasReconnect>>
    BY <2>1, <2>3 DEF Discipline, Consistent, ReconnectRemembered, NeverStranded,
       ProbeArmed, EndpointCurrent
  <2> QED BY <1>12, <2>2, <2>3 DEF answerReceived, stillUp
<1>13. CASE entryReceived
  <2>1. /\ UNCHANGED <<token, endpoint, generation, configReplies>>
        /\ socket = "Connected" /\ token
    BY <1>13 DEF entryReceived, packetKeeps, Discipline, Consistent
  <2>2. CASE socketGone(FALSE)
    BY <2>1, <2>2, GoneDiscipline
  <2>3. CASE /\ connectNotified' = TRUE
             /\ \/ ~connectNotified /\ attemptTimer' = FALSE /\ connectionState' = "Connected"
                \/ connectNotified /\ UNCHANGED <<attemptTimer, connectionState>>
             /\ UNCHANGED <<heartbeat, reconnectTimer, suppressReconnect, socket>>
    BY <2>1, <2>3 DEF Discipline, Consistent, ReconnectRemembered, NeverStranded,
       ProbeArmed, EndpointCurrent
  <2> QED BY <1>13, <2>2, <2>3 DEF entryReceived, stillUp
<1>14. CASE UNCHANGED client
  BY <1>14 DEF client, Discipline, Consistent, ReconnectRemembered, NeverStranded,
     ProbeArmed, EndpointCurrent
<1> QED BY <1>1, <1>2, <1>3, <1>4, <1>5, <1>6, <1>7, <1>8, <1>9, <1>10, <1>11, <1>12,
        <1>13, <1>14 DEF Next, vars, Publish, ServerAnswers, LinkDies, ServerForgets

\* The discipline holds in every reachable state.
LEMMA DisciplineInvariant == Spec => [](TypeOK /\ Discipline)
<1>1. Init => TypeOK /\ Discipline
  BY InitType, InitDiscipline
<1>2. TypeOK /\ Discipline /\ [Next]_vars => TypeOK' /\ Discipline'
  BY StepType, DisciplineStep
<1> QED BY <1>1, <1>2, PTL DEF Spec

\* A client that holds a stream id and is not connected knows it is reconnecting.
THEOREM RemembersReconnect == Spec => []ReconnectRemembered
<1>1. Discipline => ReconnectRemembered
  BY DEF Discipline
<1> QED BY <1>1, DisciplineInvariant, PTL

\* A logged-in client that is not connected always has something armed.
THEOREM NotStranded == Spec => []NeverStranded
<1>1. Discipline => NeverStranded
  BY DEF Discipline
<1> QED BY <1>1, DisciplineInvariant, PTL

\* Exactly the connected socket is probed.
THEOREM Probed == Spec => []ProbeArmed
<1>1. Discipline => ProbeArmed
  BY DEF Discipline
<1> QED BY <1>1, DisciplineInvariant, PTL

\* The client always recovers: the three together.
THEOREM AlwaysRecovers == Spec => []Recovers
<1>1. Discipline => Recovers
  BY DEF Discipline, Recovers
<1> QED BY <1>1, DisciplineInvariant, PTL

\* A late config reply never redirects the socket.
THEOREM EndpointNeverStale == Spec => []EndpointCurrent
<1>1. Discipline => EndpointCurrent
  BY DEF Discipline
<1> QED BY <1>1, DisciplineInvariant, PTL

\* Socket state, connection state, flags and timers agree in every reachable state.
THEOREM StatesAgree == Spec => []Consistent
<1>1. Discipline => Consistent
  BY DEF Discipline
<1> QED BY <1>1, DisciplineInvariant, PTL

-----------------------------------------------------------------------------
(***************************************************************************)
(* WebSocketConnector implements EventDelivery and forgets no event, for   *)
(* every value of the bounds.  The argument follows the stream: what the   *)
(* wire carries is what the server's log holds at the same number, the     *)
(* client's place in the log separates what was handled from what is to    *)
(* come, and everything before that place is handled or was fetched again. *)
(***************************************************************************)

\* The latest event handed over in this session.
Latest == IF handled = <<>> THEN 0 ELSE handled[Len(handled)]

\* The client's place in the server's log; a client that follows another stream, or
\* none yet, has all of the log before it.
Place == IF connectionId = stream THEN serverSequence ELSE 0

\* Stream ids are given out in order, and a log belongs to a stream.
StreamIds ==
    /\ stream <= streams /\ connectionId <= streams
    /\ stream = 0 => log = <<>>
    /\ connectionId = 0 => serverSequence = 0
    /\ connectionId # 0 => token
    /\ connectionId = stream => serverSequence <= Len(log)

\* The log holds events in the order they were published.
LogOrdered ==
    /\ \A i \in DOMAIN log : log[i] <= issued
    /\ \A i, j \in DOMAIN log : i < j /\ log[i] # Hello /\ log[j] # Hello => log[i] < log[j]

\* Packets come over a live connection only, and an entry is the log's entry of that number.
WireFaithful ==
    /\ down # <<>> => socket = "Connected" /\ link = "live"
    /\ up # <<>> => socket = "Connected"
    /\ socket = "Connected" /\ link = "live" => stream # 0
    /\ \A i \in DOMAIN down : down[i].kind = "entry" =>
          /\ down[i].id = stream
          /\ down[i].seq + 1 \in DOMAIN log
          /\ down[i].entry = log[down[i].seq + 1]

\* A connection that got a new stream has that stream's hello before it, with nothing but
\* answers in between, and knows that it resumes one unless it never had any.
HelloWaits(d, id) ==
    \E i \in DOMAIN d : /\ d[i] = Entry(1, id, Hello)
                        /\ \A j \in 1 .. i - 1 : d[j].kind = "answer"
HelloFirst ==
    socket = "Connected" /\ link = "live" /\ connectionId # stream =>
        (connectionId # 0 => hasReconnect) /\ HelloWaits(down, stream)

\* What lies ahead in the log was not handled, and what was missed is covered or ahead.
AheadIsNew == token => \A k \in DOMAIN log : k > Place /\ log[k] # Hello => log[k] > Latest
\* The first log-in began with the answer to the handshake: its history is fetched from there.
Begun ==
    /\ connectionId = 0 /\ connectNotified /\ ~hasReconnect
    /\ socket = "Connected" /\ link = "live"
MissedIsAhead ==
    (connectionId = stream \/ Begun) /\ stream # 0 =>
        \A e \in Latest + 1 .. issued : e <= covered \/ AheadInStream(e)

\* What lies behind was handled or covered.
BehindIsDone ==
    /\ Latest <= issued /\ covered <= issued
    /\ \A e \in 1 .. Latest : e <= covered \/ \E i \in DOMAIN handled : handled[i] = e

\* A failed resume is settled with the hello that tells of it.
ResumeSettled == socket = "Connected" => ~resumeFailed

Delivering ==
    /\ StreamIds /\ LogOrdered /\ WireFaithful /\ HelloFirst
    /\ AheadIsNew /\ MissedIsAhead /\ BehindIsDone /\ ResumeSettled

-------------------------------------------------------------------------------
(* Kinds of steps.  Most actions do nothing to the stream, or end the          *)
(* connection and lose what was on the wire.                                   *)

Idle ==
    /\ UNCHANGED <<token, connectionId, serverSequence, connectNotified, resumeFailed,
                   socket, link, down, server, history>>
    /\ socket = "Connected" => hasReconnect' = hasReconnect
    /\ up' # <<>> => up # <<>> \/ socket = "Connected"

Dropped ==
    /\ UNCHANGED <<token, connectionId, serverSequence, server, history>>
    /\ up' = <<>> /\ down' = <<>>
    /\ socket' # "Connected" \/ link' # "live"
    /\ socket' = "Connected" => socket = "Connected" /\ resumeFailed' = resumeFailed

\* The entry read is the next of the stream the client follows.
Advance ==
    /\ connectionId = stream /\ connectionId' = connectionId
    /\ serverSequence + 1 \in DOMAIN log
    /\ serverSequence' = serverSequence + 1
    /\ covered' = covered
    /\ handled' = IF log[serverSequence + 1] = Hello THEN handled
                  ELSE Append(handled, log[serverSequence + 1])

\* The entry read is the hello of a new stream, and everything is fetched again, unless
\* the session has just begun.
Adopt ==
    /\ connectionId # stream /\ connectionId' = stream
    /\ 1 \in DOMAIN log /\ log[1] = Hello
    /\ serverSequence' = 1
    /\ covered' = issued \/ (Begun /\ covered' = covered)
    /\ handled' = handled

Read ==
    /\ socket = "Connected" /\ link = "live" /\ token
    /\ down # <<>> /\ down' = Tail(down)
    /\ UNCHANGED <<token, socket, link, up, server>>
    /\ resumeFailed' = FALSE
    /\ Advance \/ Adopt

\* The answer read tells of no stream; the one to the handshake may start the history.
Answered ==
    /\ socket = "Connected" /\ token
    /\ down # <<>> /\ down' = Tail(down) /\ Head(down).kind = "answer"
    /\ UNCHANGED <<token, connectionId, serverSequence, resumeFailed, socket, link, up,
                   server, handled, hasReconnect>>
    /\ \/ UNCHANGED <<connectNotified, covered>>
       \/ ~hasReconnect /\ covered' = issued
       \/ hasReconnect /\ covered' = covered

\* The disconnected signal takes the wire with it.
LEMMA GoneDrops ==
    ASSUME TypeOK, NEW immediate \in BOOLEAN, socketGone(immediate)
    PROVE  up' = <<>> /\ down' = <<>> /\ socket' # "Connected"
BY DEF socketGone, openSocket

\* So does an attempt to connect, as the socket had no peer yet.
LEMMA OpenDrops ==
    ASSUME Delivering, socket # "Connected", UNCHANGED <<up, down>>,
           NEW url, NEW timer, NEW attempt, openSocket(url, timer, attempt)
    PROVE  up' = <<>> /\ down' = <<>> /\ socket' # "Connected"
BY DEF Delivering, WireFaithful, openSocket

\* What the head of the wire is when it is an entry.
LEMMA HeadEntry ==
    ASSUME TypeOK, Delivering, down # <<>>, Head(down).kind = "entry"
    PROVE  /\ Head(down) \in Packets /\ Head(down).id = stream /\ stream # 0
           /\ Head(down).seq \in Nat /\ Head(down).seq + 1 \in DOMAIN log
           /\ Head(down).entry = log[Head(down).seq + 1]
           /\ connectionId # stream =>
                 Head(down).seq = 0 /\ Head(down).entry = Hello
                 /\ (connectionId # 0 => hasReconnect)
<1>1. /\ 1 \in DOMAIN down /\ Head(down) = down[1] /\ down[1] \in Packets
      /\ socket = "Connected" /\ link = "live"
  BY DEF TypeOK, WorldType, Delivering, WireFaithful
<1>2. down[1].id = stream /\ stream # 0 /\ down[1].seq + 1 \in DOMAIN log
      /\ down[1].entry = log[down[1].seq + 1]
  BY <1>1 DEF Delivering, WireFaithful
<1>3. down[1].seq \in Nat
  BY <1>1 DEF Packets
<1>4. connectionId # stream =>
         down[1] = Entry(1, stream, Hello) /\ (connectionId # 0 => hasReconnect)
  <2> SUFFICES ASSUME connectionId # stream
               PROVE  down[1] = Entry(1, stream, Hello) /\ (connectionId # 0 => hasReconnect)
    OBVIOUS
  <2>1. PICK i \in DOMAIN down : /\ down[i] = Entry(1, stream, Hello)
                                 /\ \A j \in 1 .. i - 1 : down[j].kind = "answer"
    BY <1>1 DEF Delivering, HelloFirst, HelloWaits
  <2>2. i = 1
    <3>1. down \in Seq(Packets) /\ down[1].kind = "entry"
      BY <1>1 DEF TypeOK, WorldType
    <3>2. i \in Nat /\ i >= 1
      BY <3>1
    <3>3. 1 \notin 1 .. i - 1
      BY <2>1, <3>1
    <3> QED BY <3>2, <3>3
  <2> QED BY <1>1, <2>1, <2>2 DEF Delivering, HelloFirst
<1>5. Entry(1, stream, Hello).seq = 0 /\ Entry(1, stream, Hello).entry = Hello
  BY DEF Entry
<1> QED BY <1>1, <1>2, <1>3, <1>4, <1>5

\* An entry moves the client along the stream, makes it adopt a new one, or ends the
\* connection.
LEMMA EntryKinds ==
    ASSUME TypeOK, Discipline, Delivering, entryReceived
    PROVE  Read \/ Dropped
<1> DEFINE p == Head(down)
           hello == p.entry = Hello
           renumber == hello /\ connectionId # 0 /\ p.id # connectionId
           expected == IF renumber THEN 0 ELSE serverSequence
           failed == IF hello /\ hasReconnect THEN resumeRejected(p.id) ELSE resumeFailed
           settles == ~connectNotified \/ hasReconnect
           refresh == \/ ~connectNotified /\ (~hasReconnect \/ failed)
                      \/ connectNotified /\ hasReconnect /\ hello /\ failed
<1>1. /\ p.kind = "entry" /\ down # <<>> /\ socket = "Connected" /\ link = "live" /\ token
      /\ ~resumeFailed
  BY DEF entryReceived, Delivering, WireFaithful, ResumeSettled, Discipline, Consistent
<1>2. /\ p.id = stream /\ stream # 0 /\ p.seq \in Nat /\ p.seq + 1 \in DOMAIN log
      /\ p.entry = log[p.seq + 1]
      /\ connectionId # stream =>
            p.seq = 0 /\ p.entry = Hello /\ (connectionId # 0 => hasReconnect)
  BY <1>1, HeadEntry
<1>3. /\ connectionId' = IF hello THEN p.id ELSE connectionId
      /\ UNCHANGED <<token, server>>
  BY DEF entryReceived, packetKeeps
<1>4. CASE outOfSequence(p.seq, expected)
  <2>1. serverSequence' = expected /\ socketGone(FALSE) /\ UNCHANGED history
    BY <1>4, <1>1 DEF entryReceived, outOfSequence
  <2>2. connectionId = stream
    <3> SUFFICES ASSUME connectionId # stream PROVE FALSE
      OBVIOUS
    <3>1. CASE connectionId = 0
      <4>1. serverSequence = 0
        BY <3>1 DEF Delivering, StreamIds
      <4> QED BY <1>2, <1>4, <3>1, <4>1 DEF outOfSequence
    <3>2. CASE connectionId # 0
      BY <1>2, <1>4, <3>2 DEF outOfSequence
    <3> QED BY <3>1, <3>2
  <2>3. connectionId' = connectionId /\ serverSequence' = serverSequence
    BY <1>2, <1>3, <2>1, <2>2
  <2> QED BY <1>3, <2>1, <2>3, GoneDrops DEF Dropped
<1>5. CASE ~outOfSequence(p.seq, expected)
  <2>1. /\ p.seq = expected
        /\ down' = Tail(down) /\ serverSequence' = p.seq + 1
        /\ resumeFailed' = IF settles THEN FALSE ELSE failed
        /\ covered' = IF refresh THEN issued ELSE covered
        /\ handled' = IF hello THEN handled ELSE Append(handled, p.entry)
        /\ UNCHANGED <<socket, link, up>>
    BY <1>5 DEF entryReceived, outOfSequence, stillUp
  <2>2. resumeFailed' = FALSE
    <3>1. ~settles => failed = resumeFailed
      OBVIOUS
    <3> QED BY <1>1, <2>1, <3>1 DEF TypeOK, FlagsType
  <2>3. CASE connectionId = stream
    <3>1. ~renumber /\ expected = serverSequence /\ connectionId' = connectionId
      BY <1>2, <1>3, <2>3
    <3>2. ~failed
      BY <1>1, <1>2, <2>3 DEF resumeRejected
    <3>3. ~connectNotified => hasReconnect
      BY <1>1, <1>2, <2>3 DEF Discipline, Consistent, ReconnectRemembered
    <3>4. ~refresh
      BY <3>2, <3>3
    <3>5. Advance
      BY <1>2, <2>1, <2>3, <3>1, <3>4 DEF Advance
    <3> QED BY <1>1, <1>3, <2>1, <2>2, <3>5 DEF Read
  <2>4. CASE connectionId # stream
    <3>1. hello /\ p.seq = 0 /\ p.id # connectionId /\ (connectionId # 0 => hasReconnect)
      BY <1>2, <2>4
    <3>2. hasReconnect => failed
      BY <3>1 DEF resumeRejected
    <3>3. refresh \/ Begun
      BY <1>1, <3>1, <3>2 DEF Begun, TypeOK, FlagsType
    <3>4. 1 \in DOMAIN log /\ log[1] = Hello /\ connectionId' = stream
      BY <1>2, <1>3, <3>1
    <3>5. /\ serverSequence' = 1 /\ handled' = handled
          /\ covered' = issued \/ (Begun /\ covered' = covered)
      BY <2>1, <3>1, <3>3
    <3>6. Adopt
      BY <2>4, <3>4, <3>5 DEF Adopt
    <3> QED BY <1>1, <1>3, <2>1, <2>2, <3>6 DEF Read
  <2> QED BY <2>3, <2>4
<1> QED BY <1>4, <1>5

\* Every step is of one of these kinds.
LEMMA StepKinds ==
    ASSUME TypeOK, Discipline, Delivering, [Next]_vars
    PROVE  open \/ close \/ connected \/ Read \/ Answered \/ Publish \/ ServerAnswers
             \/ ServerForgets \/ Idle \/ Dropped
<1>1. CASE reconnectNow
  <2>1. UNCHANGED <<token, connectionId, serverSequence, server, history>>
    BY <1>1 DEF reconnectNow, goneKeeps
  <2>2. up' = <<>> /\ down' = <<>> /\ socket' # "Connected"
    BY <1>1, GoneDrops, OpenDrops DEF reconnectNow
  <2> QED BY <2>1, <2>2 DEF Dropped
<1>2. CASE \E g \in configReplies : configFinished(g)
  <2> PICK g \in configReplies : configFinished(g)
    BY <1>2
  <2>1. /\ UNCHANGED <<token, connectionId, serverSequence, server, history>>
        /\ UNCHANGED <<up, down, connectNotified, resumeFailed>>
    BY DEF configFinished
  <2>2. CASE UNCHANGED <<socket, link>>
    <3>1. socket = "Connected" => hasReconnect' = hasReconnect
      BY <2>2 DEF configFinished, openSocket
    <3> QED BY <2>1, <2>2, <3>1 DEF Idle
  <2>3. CASE g = generation /\ token /\ openSocket(g, reconnectTimer, attemptTimer)
    <3>1. socket # "Connected"
      BY <2>3 DEF Discipline, Consistent, TypeOK, ValuesType
    <3> QED BY <2>1, <2>3, <3>1, OpenDrops DEF Dropped
  <2> QED BY <2>2, <2>3 DEF configFinished
<1>3. CASE disconnected \/ heartbeatReplyTimeout
  BY <1>3, GoneDrops DEF disconnected, heartbeatReplyTimeout, goneKeeps, Dropped
<1>4. CASE heartbeatTimeout \/ networkChanged
  BY <1>4 DEF heartbeatTimeout, networkChanged, Idle
<1>5. CASE reconnectTimeout
  <2>1. UNCHANGED <<token, connectionId, serverSequence, server, history, up, down,
                    connectNotified, resumeFailed>>
    BY <1>5 DEF reconnectTimeout
  <2>2. CASE UNCHANGED <<socket, link>>
    <3>1. socket = "Connected" => hasReconnect' = hasReconnect
      BY <1>5, <2>2 DEF reconnectTimeout
    <3> QED BY <2>1, <2>2, <3>1 DEF Idle
  <2>3. CASE socket = "Unconnected" /\ openSocket(endpoint, FALSE, attemptTimer)
    BY <2>1, <2>3, OpenDrops DEF Dropped
  <2> QED BY <1>5, <2>2, <2>3 DEF reconnectTimeout
<1>6. CASE attemptTimeout
  <2>1. UNCHANGED <<token, connectionId, serverSequence, server, history, resumeFailed>>
    BY <1>6 DEF attemptTimeout, goneKeeps
  <2>2. CASE UNCHANGED <<connectNotified, socket, link, up, down>>
    <3>1. socket = "Connected" => hasReconnect' = hasReconnect
      BY <1>6, <2>2, GoneDrops DEF attemptTimeout
    <3> QED BY <2>1, <2>2, <3>1 DEF Idle
  <2>3. CASE socketGone(FALSE)
    BY <2>1, <2>3, GoneDrops DEF Dropped
  <2> QED BY <1>6, <2>2, <2>3 DEF attemptTimeout
<1>7. CASE answerReceived
  <2>1. /\ UNCHANGED <<token, server, connectionId, serverSequence, resumeFailed, handled>>
        /\ socket = "Connected" /\ down # <<>> /\ Head(down).kind = "answer" /\ token
    BY <1>7 DEF answerReceived, packetKeeps, Discipline, Consistent
  <2>2. CASE socketGone(FALSE) /\ UNCHANGED covered
    BY <2>1, <2>2, GoneDrops DEF Dropped, history
  <2>3. CASE /\ down' = Tail(down) /\ UNCHANGED <<socket, link, up>>
             /\ UNCHANGED hasReconnect
             /\ \/ UNCHANGED <<connectNotified, covered>>
                \/ covered' = IF hasReconnect THEN covered ELSE issued
    BY <2>1, <2>3 DEF Answered
  <2> QED BY <1>7, <2>2, <2>3 DEF answerReceived, stillUp
<1>8. CASE entryReceived
  BY <1>8, EntryKinds
<1>9. CASE LinkDies
  BY <1>9 DEF LinkDies, client, Dropped
<1>10. CASE UNCHANGED vars
  BY <1>10 DEF vars, client, Idle
<1> QED BY <1>1, <1>2, <1>3, <1>4, <1>5, <1>6, <1>7, <1>8, <1>9, <1>10 DEF Next

\* A connection resumes the stream it asked for or starts a new one; either way what comes
\* down the wire is what the log says.
LEMMA ConnectedKinds ==
    ASSUME TypeOK, connected
    PROVE  /\ socket' = "Connected" /\ link = "live" /\ link' = "live" /\ connectNotified' = FALSE
           /\ resumeFailed' = FALSE /\ socket = "Connecting"
           /\ UNCHANGED <<token, connectionId, serverSequence, issued, history>>
           /\ \/ /\ stream # 0 /\ connectionId = stream /\ UNCHANGED <<stream, streams>>
                 /\ log' = log \/ log' = Append(log, Hello)
                 /\ down' = [k \in 1 .. Len(log') - serverSequence |->
                               Entry(serverSequence + k, stream, log'[serverSequence + k])]
              \/ /\ stream = 0 \/ connectionId # stream
                 /\ streams' = streams + 1 /\ stream' = streams + 1
                 /\ log' = <<Hello>> /\ down' = <<Entry(1, stream', Hello)>>
<1>1. /\ socket' = "Connected" /\ link = "live" /\ link' = "live" /\ connectNotified' = FALSE
      /\ resumeFailed' = FALSE /\ socket = "Connecting"
      /\ UNCHANGED <<token, connectionId, serverSequence, issued, history>>
  BY DEF connected
<1>2. CASE stream # 0 /\ connectionId = stream
  <2>1. PICK again \in {<<>>, <<Hello>>} :
          /\ log' = log \o again
          /\ down' = [k \in 1 .. Len(log') - serverSequence |->
                        Entry(serverSequence + k, stream, log'[serverSequence + k])]
    BY <1>2 DEF connected
  <2>2. UNCHANGED <<stream, streams>>
    BY <1>2 DEF connected
  <2>3. log' = log \/ log' = Append(log, Hello)
    <3>1. log \in Seq(Entries)
      BY DEF TypeOK, WorldType
    <3> QED BY <2>1, <3>1
  <2> QED BY <1>1, <1>2, <2>1, <2>2, <2>3
<1>3. CASE stream = 0 \/ connectionId # stream
  BY <1>1, <1>3 DEF connected
<1> QED BY <1>1, <1>2, <1>3

\* Every step keeps the ids, and the client within its log.
LEMMA StreamIdsStep ==
    ASSUME TypeOK, Discipline, Delivering, [Next]_vars
    PROVE  StreamIds'
<1> USE DEF StreamIds
<1>0. StreamIds /\ log \in Seq(Entries) /\ stream \in Nat /\ streams \in Nat
      /\ connectionId \in Nat /\ serverSequence \in Nat
  BY DEF Delivering, TypeOK, WorldType, ValuesType
<1>1. CASE open
  BY <1>0, <1>1 DEF open, server
<1>2. CASE close
  BY <1>0, <1>2 DEF close, server
<1>3. CASE connected
  <2>1. token
    BY <1>3 DEF connected, Discipline, Consistent
  <2> QED BY <1>0, <1>3, <2>1, ConnectedKinds
<1>4. CASE Read
  <2>1. CASE Advance
    BY <1>0, <1>4, <2>1 DEF Read, Advance, server
  <2>2. CASE Adopt
    BY <1>0, <1>4, <2>2 DEF Read, Adopt, server
  <2> QED BY <1>4, <2>1, <2>2 DEF Read
<1>5. CASE Answered
  BY <1>0, <1>5 DEF Answered, server
<1>6. CASE Publish
  <2>1. log' = log \/ log' = Append(log, issued')
    BY <1>6 DEF Publish
  <2>2. stream = 0 => log' = log
    BY <1>6 DEF Publish
  <2>3. issued' \in Entries
    BY StepType DEF TypeOK, WorldType
  <2> QED BY <1>0, <1>6, <2>1, <2>2, <2>3 DEF Publish, client
<1>7. CASE ServerAnswers \/ Idle \/ Dropped
  BY <1>0, <1>7 DEF ServerAnswers, client, server, Idle, Dropped
<1>8. CASE ServerForgets
  BY <1>0, <1>8 DEF ServerForgets, client
<1> QED BY StepKinds, <1>1, <1>2, <1>3, <1>4, <1>5, <1>6, <1>7, <1>8

\* An event or a hello joins the log.
LEMMA AppendFacts ==
    ASSUME NEW S, NEW s \in Seq(S), NEW e \in S
    PROVE  /\ Append(s, e) \in Seq(S) /\ Len(Append(s, e)) = Len(s) + 1
           /\ DOMAIN Append(s, e) = 1 .. Len(s) + 1
           /\ \A i \in 1 .. Len(s) : Append(s, e)[i] = s[i]
           /\ Append(s, e)[Len(s) + 1] = e
OBVIOUS

\* The types of the log and of the history, as the proofs below use them.
LEMMA LogFacts ==
    ASSUME TypeOK
    PROVE  /\ log \in Seq(Nat) /\ Len(log) \in Nat /\ DOMAIN log = 1 .. Len(log)
           /\ \A i \in 1 .. Len(log) : log[i] \in Nat
           /\ handled \in Seq(Nat) /\ Len(handled) \in Nat /\ DOMAIN handled = 1 .. Len(handled)
           /\ \A i \in 1 .. Len(handled) : handled[i] \in Nat
           /\ Latest \in Nat
           /\ issued \in Nat /\ covered \in Nat /\ serverSequence \in Nat
<1>1. log \in Seq(Entries) /\ handled \in Seq(Entries) /\ issued \in Entries
      /\ covered \in Entries /\ serverSequence \in Nat
  BY DEF TypeOK, WorldType, ValuesType
<1>2. \A s \in Seq(Entries) : /\ s \in Seq(Nat) /\ Len(s) \in Nat /\ DOMAIN s = 1 .. Len(s)
                              /\ \A i \in 1 .. Len(s) : s[i] \in Nat
  <2> TAKE s \in Seq(Entries)
  <2>1. Len(s) \in Nat /\ DOMAIN s = 1 .. Len(s)
    OBVIOUS
  <2>2. \A i \in 1 .. Len(s) : s[i] \in Entries
    OBVIOUS
  <2>3. Entries \subseteq Nat
    BY DEF Entries
  <2>4. \A i \in 1 .. Len(s) : s[i] \in Nat
    BY <2>2, <2>3
  <2>5. s \in Seq(Nat)
    BY <2>3, SeqMonotonic
  <2> QED BY <2>1, <2>4, <2>5
<1>3. Latest \in Nat
  <2>1. handled # <<>> => Len(handled) \in 1 .. Len(handled)
    BY <1>1
  <2> QED BY <1>1, <1>2, <2>1 DEF Latest
<1> QED BY <1>1, <1>2, <1>3 DEF Entries

\* Every step keeps the log in the order of publication.
LEMMA LogOrderedStep ==
    ASSUME TypeOK, Discipline, Delivering, [Next]_vars
    PROVE  LogOrdered'
<1> USE DEF LogOrdered, Hello
<1>0. /\ LogOrdered /\ log \in Seq(Nat) /\ issued \in Nat
      /\ DOMAIN log = 1 .. Len(log) /\ Len(log) \in Nat /\ \A i \in 1 .. Len(log) : log[i] \in Nat
  BY LogFacts DEF Delivering
<1>1. CASE UNCHANGED <<log, issued>>
  BY <1>0, <1>1
<1>2. CASE connected
  <2>1. CASE log' = Append(log, Hello)
    <3>1. /\ DOMAIN log' = 1 .. Len(log) + 1 /\ log'[Len(log) + 1] = Hello
          /\ \A i \in 1 .. Len(log) : log'[i] = log[i]
      BY <1>0, <2>1, AppendFacts
    <3>2. issued' = issued
      BY <1>2, ConnectedKinds
    <3> QED BY <1>0, <3>1, <3>2
  <2>2. CASE log' = <<Hello>>
    BY <1>0, <1>2, <2>2, ConnectedKinds
  <2> QED BY <1>1, <1>2, <2>1, <2>2, ConnectedKinds
<1>3. CASE Publish
  <2>1. issued' = issued + 1 /\ (log' = log \/ log' = Append(log, issued + 1))
    BY <1>3 DEF Publish
  <2>2. CASE log' = log
    BY <1>0, <2>1, <2>2
  <2>3. CASE log' = Append(log, issued + 1)
    <3>1. /\ DOMAIN log' = 1 .. Len(log) + 1 /\ log'[Len(log) + 1] = issued + 1
          /\ \A i \in 1 .. Len(log) : log'[i] = log[i]
      BY <1>0, <2>3, AppendFacts
    <3>2. \A i \in DOMAIN log' : log'[i] <= issued'
      BY <1>0, <2>1, <3>1
    <3>3. ASSUME NEW i \in DOMAIN log', NEW j \in DOMAIN log', i < j,
                 log'[i] # Hello, log'[j] # Hello
          PROVE  log'[i] < log'[j]
      <4>1. i \in 1 .. Len(log) /\ log'[i] = log[i] /\ log[i] <= issued
        BY <1>0, <3>1, <3>3
      <4>2. CASE j = Len(log) + 1
        BY <1>0, <3>1, <4>1, <4>2
      <4>3. CASE j # Len(log) + 1
        BY <1>0, <3>1, <3>3, <4>1, <4>3
      <4> QED BY <4>2, <4>3
    <3> QED BY <3>2, <3>3
  <2> QED BY <2>1, <2>2, <2>3
<1>4. CASE ServerForgets
  BY <1>0, <1>4 DEF ServerForgets
<1>5. CASE open \/ close
  BY <1>1, <1>5 DEF open, close, server
<1>6. CASE Read \/ Answered \/ ServerAnswers \/ Idle \/ Dropped
  BY <1>1, <1>6 DEF Read, Answered, ServerAnswers, Idle, Dropped, server
<1> QED BY StepKinds, <1>2, <1>3, <1>4, <1>5, <1>6

\* The tail of the wire is the wire, one place on.
LEMMA TailFacts ==
    ASSUME TypeOK, down # <<>>
    PROVE  /\ Tail(down) \in Seq(Packets) /\ down \in Seq(Packets) /\ Head(down) = down[1]
           /\ \A i \in DOMAIN Tail(down) : i + 1 \in DOMAIN down /\ Tail(down)[i] = down[i + 1]
<1>1. down \in Seq(Packets)
  BY DEF TypeOK, WorldType
<1> QED BY <1>1

\* What goes ahead of all that is on the wire moves each of it by one.
LEMMA PrependFacts ==
    ASSUME NEW S, NEW s \in Seq(S), NEW e
    PROVE  /\ DOMAIN (<<e>> \o s) = 1 .. Len(s) + 1
           /\ (<<e>> \o s)[1] = e
           /\ \A i \in 1 .. Len(s) : (<<e>> \o s)[i + 1] = s[i]
           /\ \A i \in 1 .. Len(s) + 1 : i = 1 \/ (i - 1 \in 1 .. Len(s) /\ (<<e>> \o s)[i] = s[i - 1])
<1>1. <<e>> \in Seq(S \cup {e}) /\ s \in Seq(S \cup {e}) /\ Len(<<e>>) = 1 /\ <<e>>[1] = e
  BY SeqMonotonic
<1> QED BY <1>1

\* Every step keeps the wire faithful to the log: what is replayed, published or answered
\* joins it as the log has it, and whatever ends the connection empties it.
LEMMA WireFaithfulStep ==
    ASSUME TypeOK, Discipline, Delivering, [Next]_vars
    PROVE  WireFaithful'
<1>0. /\ WireFaithful /\ down \in Seq(Packets) /\ StreamIds /\ StreamIds'
      /\ \A i \in DOMAIN down : down[i].kind = "entry" => down[i].seq \in Nat
      /\ DOMAIN log = 1 .. Len(log) /\ Len(log) \in Nat
  BY StreamIdsStep, LogFacts DEF Delivering, TypeOK, WorldType, Packets
<1>1. CASE open
  <2>1. socket' = socket /\ down' = down /\ up' = up /\ link' = link /\ UNCHANGED server
    BY <1>1 DEF open
  <2> QED BY <1>0, <2>1 DEF WireFaithful, server
<1>2. CASE close
  <2>1. socket' # "Connected" /\ down' = <<>> /\ up' = <<>>
    BY <1>2 DEF close
  <2> QED BY <2>1 DEF WireFaithful
<1>3. CASE connected
  <2>1. socket' = "Connected" /\ link' = "live"
    BY <1>3, ConnectedKinds
  <2>2. CASE /\ stream # 0 /\ connectionId = stream /\ UNCHANGED <<stream, streams>>
             /\ log' = log \/ log' = Append(log, Hello)
             /\ down' = [k \in 1 .. Len(log') - serverSequence |->
                           Entry(serverSequence + k, stream, log'[serverSequence + k])]
    <3>1. serverSequence \in Nat
      BY LogFacts
    <3>2. DOMAIN log' = 1 .. Len(log') /\ Len(log') \in Nat
      BY StepType, LogFacts DEF TypeOK, WorldType
    <3>3. ASSUME NEW k \in DOMAIN down'
          PROVE  /\ down'[k].id = stream' /\ down'[k].seq + 1 \in DOMAIN log'
                 /\ down'[k].entry = log'[down'[k].seq + 1]
      <4>1. k \in 1 .. Len(log') - serverSequence
            /\ down'[k] = Entry(serverSequence + k, stream, log'[serverSequence + k])
        BY <2>2, <3>3
      <4>2. down'[k].seq + 1 = serverSequence + k /\ down'[k].id = stream
            /\ down'[k].entry = log'[serverSequence + k]
        BY <3>1, <4>1 DEF Entry
      <4>3. serverSequence + k \in 1 .. Len(log')
        BY <3>1, <3>2, <4>1
      <4> QED BY <2>2, <3>2, <4>2, <4>3
    <3> QED BY <2>1, <2>2, <3>3 DEF WireFaithful
  <2>3. CASE /\ streams' = streams + 1 /\ stream' = streams + 1
             /\ log' = <<Hello>> /\ down' = <<Entry(1, stream', Hello)>>
    <3>1. DOMAIN down' = {1} /\ down'[1].seq + 1 = 1 /\ down'[1].id = stream'
          /\ down'[1].entry = Hello /\ log'[1] = Hello /\ 1 \in DOMAIN log'
      BY <2>3 DEF Entry
    <3>2. stream' # 0
      BY <2>3 DEF TypeOK, WorldType
    <3> QED BY <2>1, <3>1, <3>2 DEF WireFaithful
  <2> QED BY <1>3, <2>2, <2>3, ConnectedKinds
<1>4. CASE Read \/ Answered
  <2>1. down # <<>> /\ down' = Tail(down) /\ UNCHANGED <<socket, link, up, stream, log>>
    BY <1>4 DEF Read, Answered, server
  <2> QED BY <1>0, <2>1, TailFacts DEF WireFaithful
<1>5. CASE Publish
  <2>1. UNCHANGED <<socket, link, up, stream>> /\ issued' = issued + 1
        /\ log' = (IF stream = 0 THEN log ELSE Append(log, issued'))
    BY <1>5 DEF Publish, client
  <2>2. issued' \in Entries /\ log \in Seq(Entries)
    BY StepType DEF TypeOK, WorldType
  <2>3. /\ \A i \in DOMAIN log : i \in DOMAIN log' /\ log'[i] = log[i]
        /\ stream # 0 => Len(log') = Len(log) + 1 /\ Len(log') \in DOMAIN log'
                         /\ log'[Len(log')] = issued'
    BY <1>0, <2>1, <2>2, AppendFacts
  <2>4. CASE down' = down
    BY <1>0, <2>1, <2>3, <2>4 DEF WireFaithful
  <2>5. CASE /\ socket = "Connected" /\ link = "live" /\ stream # 0
             /\ down' = Append(down, Entry(Len(log'), stream, issued'))
    <3> DEFINE q == Entry(Len(log'), stream, issued')
    <3>1. q.id = stream /\ q.seq + 1 = Len(log') /\ q.entry = log'[Len(log')]
      BY <1>0, <2>3, <2>5 DEF Entry
    <3>2. \A i \in DOMAIN down' : (i \in DOMAIN down /\ down'[i] = down[i]) \/ down'[i] = q
      BY <1>0, <2>5
    <3> QED BY <1>0, <2>1, <2>3, <2>5, <3>1, <3>2 DEF WireFaithful
  <2> QED BY <1>5, <2>4, <2>5 DEF Publish
<1>6. CASE ServerAnswers
  <2>1. PICK n \in {Head(up), 1}, failed \in BOOLEAN :
           down' = Append(down, Answer(n, failed)) \/ down' = <<Answer(n, failed)>> \o down
    BY <1>6 DEF ServerAnswers
  <2>2. UNCHANGED <<socket, link, stream, log>> /\ socket = "Connected" /\ link = "live"
    BY <1>0, <1>6 DEF ServerAnswers, client, server, WireFaithful
  <2>3. \A i \in DOMAIN down' : \/ i \in DOMAIN down /\ down'[i] = down[i]
                                \/ i - 1 \in DOMAIN down /\ down'[i] = down[i - 1]
                                \/ down'[i].kind = "answer"
    <3>1. CASE down' = Append(down, Answer(n, failed))
      <4>1. \A q : down' = Append(down, q) =>
                \A i \in DOMAIN down' : (i \in DOMAIN down /\ down'[i] = down[i]) \/ down'[i] = q
        BY <1>0
      <4> QED BY <3>1, <4>1 DEF Answer
    <3>2. CASE down' = <<Answer(n, failed)>> \o down
      <4>1. \A q : down' = <<q>> \o down =>
                \A i \in DOMAIN down' : (i - 1 \in DOMAIN down /\ down'[i] = down[i - 1]) \/ down'[i] = q
        <5> SUFFICES ASSUME NEW q, down' = <<q>> \o down
                     PROVE  \A i \in DOMAIN down' :
                               (i - 1 \in DOMAIN down /\ down'[i] = down[i - 1]) \/ down'[i] = q
          OBVIOUS
        <5> QED BY <1>0, PrependFacts
      <4> QED BY <3>2, <4>1 DEF Answer
    <3> QED BY <2>1, <3>1, <3>2
  <2> QED BY <1>0, <2>2, <2>3 DEF WireFaithful
<1>7. CASE ServerForgets
  <2>1. down' = <<>> /\ up' = <<>> /\ link' # "live"
    BY <1>7 DEF ServerForgets
  <2> QED BY <2>1 DEF WireFaithful
<1>8. CASE Idle
  BY <1>0, <1>8 DEF Idle, server, WireFaithful
<1>9. CASE Dropped
  BY <1>9 DEF Dropped, WireFaithful
<1> QED BY StepKinds, <1>1, <1>2, <1>3, <1>4, <1>5, <1>6, <1>7, <1>8, <1>9

\* What the server writes next does not come between a new stream's hello and its reader.
LEMMA HelloStays ==
    ASSUME down \in Seq(Packets), NEW id, HelloWaits(down, id), NEW q,
           down' = Append(down, q) \/ (q.kind = "answer" /\ down' = <<q>> \o down)
    PROVE  HelloWaits(down', id)
<1>1. PICK i \in DOMAIN down : /\ down[i] = Entry(1, id, Hello)
                               /\ \A j \in 1 .. i - 1 : down[j].kind = "answer"
  BY DEF HelloWaits
<1>2. i \in 1 .. Len(down) /\ Len(down) \in Nat
  BY <1>1
<1>3. CASE down' = Append(down, q)
  <2>1. /\ DOMAIN down' = 1 .. Len(down) + 1
        /\ \A j \in 1 .. Len(down) : down'[j] = down[j]
    <3>1. down \in Seq(Packets \cup {q}) /\ q \in Packets \cup {q}
      BY SeqMonotonic
    <3> QED BY <1>3, <3>1, AppendFacts
  <2> QED BY <1>1, <1>2, <2>1 DEF HelloWaits
<1>4. CASE q.kind = "answer" /\ down' = <<q>> \o down
  <2>1. /\ DOMAIN down' = 1 .. Len(down) + 1 /\ down'[1] = q
        /\ \A j \in 1 .. Len(down) : down'[j + 1] = down[j]
        /\ \A j \in 1 .. Len(down) + 1 : j = 1 \/ (j - 1 \in 1 .. Len(down) /\ down'[j] = down[j - 1])
    BY <1>4, PrependFacts
  <2>2. i + 1 \in DOMAIN down' /\ down'[i + 1] = Entry(1, id, Hello)
    BY <1>1, <1>2, <2>1
  <2>3. ASSUME NEW j \in 1 .. (i + 1) - 1 PROVE down'[j].kind = "answer"
    <3>1. CASE j = 1
      BY <1>4, <2>1, <3>1
    <3>2. CASE j # 1
      <4>1. j \in 1 .. Len(down) + 1 /\ j - 1 \in 1 .. i - 1
        BY <1>2, <2>3, <3>2
      <4> QED BY <1>1, <2>1, <3>2, <4>1
    <3> QED BY <3>1, <3>2
  <2> QED BY <2>2, <2>3 DEF HelloWaits
<1> QED BY <1>3, <1>4

\* An answer read leaves the hello of a new stream on the wire.
LEMMA HelloComes ==
    ASSUME TypeOK, down # <<>>, Head(down).kind = "answer", NEW id, HelloWaits(down, id)
    PROVE  HelloWaits(Tail(down), id)
<1>1. PICK i \in DOMAIN down : /\ down[i] = Entry(1, id, Hello)
                               /\ \A j \in 1 .. i - 1 : down[j].kind = "answer"
  BY DEF HelloWaits
<1>2. /\ down \in Seq(Packets) /\ Len(down) \in Nat /\ i \in 1 .. Len(down)
      /\ DOMAIN Tail(down) = 1 .. Len(down) - 1
      /\ \A j \in 1 .. Len(down) - 1 : Tail(down)[j] = down[j + 1]
  BY <1>1, TailFacts
<1>3. i # 1
  <2>1. Entry(1, id, Hello).kind = "entry"
    BY DEF Entry
  <2> QED BY <1>1, <2>1, TailFacts
<1>4. i - 1 \in DOMAIN Tail(down) /\ Tail(down)[i - 1] = Entry(1, id, Hello)
  BY <1>1, <1>2, <1>3
<1>5. ASSUME NEW j \in 1 .. (i - 1) - 1 PROVE Tail(down)[j].kind = "answer"
  <2>1. j \in 1 .. Len(down) - 1 /\ j + 1 \in 1 .. i - 1
    BY <1>2, <1>3
  <2> QED BY <1>1, <1>2, <2>1
<1> QED BY <1>4, <1>5 DEF HelloWaits

\* Every step keeps the hello of a new stream before its reader until it is read.
LEMMA HelloFirstStep ==
    ASSUME TypeOK, Discipline, Delivering, [Next]_vars
    PROVE  HelloFirst'
<1>0. HelloFirst /\ WireFaithful /\ StreamIds /\ down \in Seq(Packets)
  BY DEF Delivering, TypeOK, WorldType
<1>1. CASE open \/ close
  BY <1>1 DEF open, close, HelloFirst, Discipline, Consistent
<1>2. CASE connected
  <2>1. stream' = connectionId' \/ down' = <<Entry(1, stream', Hello)>>
    BY <1>2, ConnectedKinds
  <2>2. down' = <<Entry(1, stream', Hello)>> => HelloWaits(down', stream')
    BY DEF HelloWaits
  <2>3. connectionId' # 0 => hasReconnect'
    <3>1. connectionId' = connectionId /\ hasReconnect' = hasReconnect /\ socket = "Connecting"
      BY <1>2 DEF connected
    <3> QED BY <3>1 DEF Discipline, Consistent, ReconnectRemembered
  <2> QED BY <2>1, <2>2, <2>3 DEF HelloFirst
<1>3. CASE Read
  BY <1>3 DEF Read, Advance, Adopt, server, HelloFirst
<1>4. CASE Answered
  <2>1. UNCHANGED <<socket, link, connectionId, stream, hasReconnect>> /\ down' = Tail(down)
        /\ down # <<>> /\ Head(down).kind = "answer"
    BY <1>4 DEF Answered, server
  <2>2. HelloWaits(down, stream) => HelloWaits(Tail(down), stream)
    BY <2>1, HelloComes
  <2> QED BY <1>0, <2>1, <2>2 DEF HelloFirst
<1>5. CASE Publish \/ ServerAnswers
  <2>1. UNCHANGED <<socket, link, connectionId, stream, hasReconnect>>
    BY <1>5 DEF Publish, ServerAnswers, client, server
  <2>2. \/ down' = down
        \/ \E q : down' = Append(down, q) \/ (q.kind = "answer" /\ down' = <<q>> \o down)
    <3>1. Answer(1, FALSE).kind = "answer"
      BY DEF Answer
    <3> QED BY <1>5, <3>1 DEF Publish, ServerAnswers
  <2>3. HelloWaits(down, stream) => HelloWaits(down', stream)
    BY <1>0, <2>2, HelloStays
  <2> QED BY <1>0, <2>1, <2>3 DEF HelloFirst
<1>6. CASE ServerForgets
  BY <1>6 DEF ServerForgets, HelloFirst
<1>7. CASE Idle \/ Dropped
  BY <1>0, <1>7 DEF Idle, Dropped, server, HelloFirst
<1> QED BY StepKinds, <1>1, <1>2, <1>3, <1>4, <1>5, <1>6, <1>7

\* No step of a connection that stays up leaves a failed resume unsettled.
LEMMA ResumeSettledStep ==
    ASSUME TypeOK, Discipline, Delivering, [Next]_vars
    PROVE  ResumeSettled'
<1>0. ResumeSettled
  BY DEF Delivering
<1>1. CASE open \/ close
  BY <1>1 DEF open, close, ResumeSettled
<1>2. CASE connected
  BY <1>2, ConnectedKinds DEF ResumeSettled
<1>3. CASE Read \/ Answered \/ Idle \/ Dropped
  BY <1>0, <1>3 DEF Read, Answered, Idle, Dropped, ResumeSettled
<1>4. CASE Publish \/ ServerAnswers \/ ServerForgets
  BY <1>0, <1>4 DEF Publish, ServerAnswers, ServerForgets, client, ResumeSettled
<1> QED BY StepKinds, <1>1, <1>2, <1>3, <1>4

\* The entry the client reads is new, and nothing between it and the latest is missing.
LEMMA NextEntry ==
    ASSUME TypeOK, Delivering, token, Advance, log[serverSequence + 1] # Hello
    PROVE  LET e == log[serverSequence + 1] IN
           /\ e \in Nat /\ Latest < e /\ e <= issued /\ e \in Entries
           /\ \A f \in Latest + 1 .. e - 1 : f <= covered
           /\ \A k \in DOMAIN log : k > serverSequence + 1 /\ log[k] # Hello => log[k] > e
           /\ handled' = Append(handled, e) /\ Latest' = e
<1> DEFINE e == log[serverSequence + 1]
<1>0. /\ DOMAIN log = 1 .. Len(log) /\ \A i \in 1 .. Len(log) : log[i] \in Nat
      /\ serverSequence \in Nat /\ Latest \in Nat /\ issued \in Nat /\ Len(log) \in Nat
  BY LogFacts
<1>1. serverSequence + 1 \in DOMAIN log /\ connectionId = stream /\ Place = serverSequence
  BY DEF Advance, Place
<1>2. e \in Nat /\ e # Hello /\ e <= issued
  BY <1>0, <1>1 DEF Delivering, LogOrdered
<1>3. Latest < e
  BY <1>0, <1>1, <1>2 DEF Delivering, AheadIsNew
<1>4. \A k \in DOMAIN log : k > serverSequence + 1 /\ log[k] # Hello => log[k] > e
  BY <1>0, <1>1, <1>2 DEF Delivering, LogOrdered
<1>5. stream # 0
  BY <1>0, <1>1 DEF Delivering, StreamIds
<1>6. ASSUME NEW f \in Latest + 1 .. e - 1
      PROVE  f <= covered
  <2>1. f \in Latest + 1 .. issued
    BY <1>0, <1>2, <1>6
  <2>2. CASE AheadInStream(f)
    <3>1. PICK k \in DOMAIN log : k > serverSequence /\ log[k] = f
      BY <2>2 DEF AheadInStream
    <3>2. f # Hello /\ f < e /\ f \in Nat
      BY <1>0, <1>2, <1>6 DEF Hello
    <3>3. CASE k = serverSequence + 1
      BY <3>1, <3>2, <3>3, <1>2
    <3>4. CASE k # serverSequence + 1
      <4>1. k > serverSequence + 1
        BY <1>0, <3>1, <3>4
      <4> QED BY <1>2, <1>4, <3>1, <3>2, <4>1
    <3> QED BY <3>3, <3>4
  <2> QED BY <1>1, <1>5, <2>1, <2>2 DEF Delivering, MissedIsAhead
<1>7. e \in Entries /\ handled \in Seq(Entries)
  BY <1>1 DEF TypeOK, WorldType
<1>8. handled' = Append(handled, e) /\ Latest' = e
  <2>1. handled' = Append(handled, e)
    BY DEF Advance
  <2>2. Len(handled') = Len(handled) + 1 /\ handled'[Len(handled) + 1] = e /\ handled' # <<>>
    BY <1>7, <2>1, AppendFacts
  <2> QED BY <2>1, <2>2 DEF Latest
<1> QED BY <1>2, <1>3, <1>4, <1>6, <1>7, <1>8

\* Every step keeps what lies ahead in the log newer than what was handled.
LEMMA AheadIsNewStep ==
    ASSUME TypeOK, Discipline, Delivering, [Next]_vars
    PROVE  AheadIsNew'
<1>0. /\ AheadIsNew /\ StreamIds /\ StreamIds' /\ BehindIsDone
      /\ DOMAIN log = 1 .. Len(log) /\ \A i \in 1 .. Len(log) : log[i] \in Nat
      /\ serverSequence \in Nat /\ Latest \in Nat /\ issued \in Nat /\ Len(log) \in Nat
      /\ log \in Seq(Nat) /\ Place \in Nat
  BY StreamIdsStep, LogFacts DEF Delivering, Place
<1>1. CASE open
  <2>1. handled' = <<>> /\ log' = log
    BY <1>1 DEF open, server
  <2>2. Latest' = 0
    BY <2>1 DEF Latest
  <2> QED BY <1>0, <2>1, <2>2 DEF AheadIsNew, Hello
<1>2. CASE close
  BY <1>2 DEF close, AheadIsNew
<1>3. CASE connected
  <2>1. UNCHANGED <<token, connectionId, serverSequence, handled>>
    BY <1>3, ConnectedKinds DEF history
  <2>2. Latest' = Latest
    BY <2>1 DEF Latest
  <2>3. CASE log' = log /\ stream' = stream
    BY <1>0, <2>1, <2>2, <2>3 DEF AheadIsNew, Place
  <2>4. CASE log' = Append(log, Hello) /\ stream' = stream
    <3>1. /\ DOMAIN log' = 1 .. Len(log) + 1 /\ log'[Len(log) + 1] = Hello
          /\ \A i \in 1 .. Len(log) : log'[i] = log[i]
      BY <1>0, <2>4, AppendFacts DEF Hello
    <3>2. Place' = Place
      BY <2>1, <2>4 DEF Place
    <3> QED BY <1>0, <2>1, <2>2, <3>1, <3>2 DEF AheadIsNew
  <2>5. CASE log' = <<Hello>>
    BY <2>5 DEF AheadIsNew
  <2> QED BY <1>3, <2>3, <2>4, <2>5, ConnectedKinds
<1>4. CASE Read
  <2>1. token' = token /\ log' = log /\ stream' = stream
    BY <1>4 DEF Read, server
  <2>2. CASE Advance /\ log[serverSequence + 1] = Hello
    <3>1. Latest' = Latest /\ Place' = Place + 1
      BY <2>1, <2>2 DEF Advance, Latest, Place
    <3> QED BY <1>0, <2>1, <3>1 DEF AheadIsNew
  <2>3. CASE Advance /\ log[serverSequence + 1] # Hello
    <3>1. Place' = serverSequence + 1 /\ token
      BY <1>4, <2>1, <2>3 DEF Advance, Place, Read
    <3> QED BY <1>0, <2>1, <2>3, <3>1, NextEntry DEF AheadIsNew
  <2>4. CASE Adopt
    <3>1. Latest' = Latest /\ Place' = 1 /\ Place = 0
      BY <2>1, <2>4 DEF Adopt, Latest, Place
    <3> QED BY <1>0, <2>1, <3>1 DEF AheadIsNew
  <2> QED BY <1>4, <2>2, <2>3, <2>4 DEF Read
<1>5. CASE Publish
  <2>1. /\ UNCHANGED <<token, connectionId, serverSequence, handled, stream>>
        /\ issued' = issued + 1
        /\ log' = (IF stream = 0 THEN log ELSE Append(log, issued'))
    BY <1>5 DEF Publish, client, history
  <2>2. Latest' = Latest /\ Place' = Place /\ Latest <= issued
    BY <1>0, <2>1 DEF Latest, Place, BehindIsDone
  <2>3. \A k \in DOMAIN log' : (k \in DOMAIN log /\ log'[k] = log[k]) \/ log'[k] = issued + 1
    BY <1>0, <2>1, AppendFacts
  <2> QED BY <1>0, <2>1, <2>2, <2>3 DEF AheadIsNew
<1>6. CASE ServerForgets
  BY <1>6 DEF ServerForgets, AheadIsNew
<1>7. CASE Answered \/ ServerAnswers \/ Idle \/ Dropped
  <2>1. UNCHANGED <<token, connectionId, serverSequence, handled, stream, log>>
    BY <1>7 DEF Answered, ServerAnswers, Idle, Dropped, server, history, client
  <2> QED BY <1>0, <2>1 DEF AheadIsNew, Latest, Place
<1> QED BY StepKinds, <1>1, <1>2, <1>3, <1>4, <1>5, <1>6, <1>7

\* Every step keeps what was missed covered or ahead.
LEMMA MissedIsAheadStep ==
    ASSUME TypeOK, Discipline, Delivering, [Next]_vars
    PROVE  MissedIsAhead'
<1>0. /\ MissedIsAhead /\ StreamIds /\ StreamIds' /\ BehindIsDone
      /\ DOMAIN log = 1 .. Len(log) /\ \A i \in 1 .. Len(log) : log[i] \in Nat
      /\ serverSequence \in Nat /\ Latest \in Nat /\ issued \in Nat /\ Len(log) \in Nat
      /\ log \in Seq(Nat) /\ covered \in Nat /\ stream \in Nat /\ connectionId \in Nat
  BY StreamIdsStep, LogFacts DEF Delivering, TypeOK, WorldType, ValuesType
<1>1. CASE open \/ close
  <2>1. connectionId' = 0 /\ connectNotified' = FALSE
    BY <1>1 DEF open, close
  <2> QED BY <2>1 DEF MissedIsAhead, Begun
<1>2. CASE connected
  <2>1. UNCHANGED <<token, connectionId, serverSequence, issued, handled, covered>> /\ ~Begun'
    BY <1>2, ConnectedKinds DEF history, Begun
  <2>2. Latest' = Latest
    BY <2>1 DEF Latest
  <2>3. CASE log' = log /\ stream' = stream
    BY <1>0, <2>1, <2>2, <2>3 DEF MissedIsAhead, AheadInStream
  <2>4. CASE log' = Append(log, Hello) /\ stream' = stream
    <3>1. /\ DOMAIN log' = 1 .. Len(log) + 1
          /\ \A i \in 1 .. Len(log) : log'[i] = log[i]
      BY <1>0, <2>4, AppendFacts DEF Hello
    <3>2. \A e : AheadInStream(e) => AheadInStream(e)'
      BY <1>0, <2>1, <3>1 DEF AheadInStream
    <3> QED BY <1>0, <2>1, <2>2, <2>4, <3>2 DEF MissedIsAhead
  <2>5. CASE stream' = streams + 1
    <3>1. connectionId' # stream'
      BY <1>0, <2>1, <2>5 DEF StreamIds, TypeOK, WorldType
    <3> QED BY <2>1, <3>1 DEF MissedIsAhead
  <2> QED BY <1>2, <2>3, <2>4, <2>5, ConnectedKinds
<1>3. CASE Read
  <2>1. token' = token /\ log' = log /\ stream' = stream /\ issued' = issued /\ token
    BY <1>3 DEF Read, server
  <2>2. CASE Advance /\ log[serverSequence + 1] = Hello
    <3>1. /\ Latest' = Latest /\ serverSequence' = serverSequence + 1 /\ covered' = covered
          /\ connectionId = stream /\ connectionId' = stream
      BY <2>2 DEF Advance, Latest
    <3>2. ASSUME NEW e \in Latest + 1 .. issued, AheadInStream(e)
          PROVE  AheadInStream(e)'
      <4>1. PICK k \in DOMAIN log : k > serverSequence /\ log[k] = e
        BY <3>2 DEF AheadInStream
      <4>2. k # serverSequence + 1
        BY <1>0, <2>2, <3>2, <4>1 DEF Hello
      <4>3. k > serverSequence + 1
        BY <1>0, <4>1, <4>2
      <4> QED BY <2>1, <3>1, <4>1, <4>3 DEF AheadInStream
    <3> QED BY <1>0, <2>1, <3>1, <3>2 DEF MissedIsAhead
  <2>3. CASE Advance /\ log[serverSequence + 1] # Hello
    <3> DEFINE n == log[serverSequence + 1]
    <3>1. /\ serverSequence' = serverSequence + 1 /\ covered' = covered
          /\ connectionId = stream /\ connectionId' = stream
      BY <2>3 DEF Advance
    <3>2. Latest' = n /\ n \in Nat /\ Latest < n
      BY <2>1, <2>3, NextEntry
    <3>3. ASSUME NEW e \in n + 1 .. issued, AheadInStream(e)
          PROVE  AheadInStream(e)'
      <4>1. PICK k \in DOMAIN log : k > serverSequence /\ log[k] = e
        BY <3>3 DEF AheadInStream
      <4>2. k # serverSequence + 1
        BY <1>0, <3>2, <3>3, <4>1
      <4>3. k > serverSequence + 1
        BY <1>0, <4>1, <4>2
      <4> QED BY <2>1, <3>1, <4>1, <4>3 DEF AheadInStream
    <3>4. \A e \in n + 1 .. issued : e \in Latest + 1 .. issued
      BY <1>0, <3>2
    <3> QED BY <1>0, <2>1, <3>1, <3>2, <3>3, <3>4 DEF MissedIsAhead
  <2>4. CASE Adopt /\ covered' = issued
    <3>1. Latest' = Latest
      BY <2>4 DEF Adopt, Latest
    <3> QED BY <1>0, <2>1, <2>4, <3>1 DEF MissedIsAhead
  <2>5. CASE Adopt /\ Begun /\ covered' = covered
    <3>1. /\ Latest' = Latest /\ serverSequence = 0 /\ serverSequence' = 1
          /\ log[1] = Hello /\ connectionId' = stream
      BY <1>0, <2>5 DEF Adopt, Latest, Begun, StreamIds
    <3>2. ASSUME NEW e \in Latest + 1 .. issued, AheadInStream(e)
          PROVE  AheadInStream(e)'
      <4>1. PICK k \in DOMAIN log : k > 0 /\ log[k] = e
        BY <3>1, <3>2 DEF AheadInStream
      <4>2. k # 1
        BY <1>0, <3>1, <3>2, <4>1 DEF Hello
      <4>3. k > 1
        BY <1>0, <4>1, <4>2
      <4> QED BY <2>1, <3>1, <4>1, <4>3 DEF AheadInStream
    <3> QED BY <1>0, <2>1, <2>5, <3>1, <3>2 DEF MissedIsAhead
  <2> QED BY <1>3, <2>2, <2>3, <2>4, <2>5 DEF Read, Adopt
<1>4. CASE Publish
  <2>1. /\ UNCHANGED <<token, connectionId, serverSequence, handled, stream, covered>>
        /\ issued' = issued + 1
        /\ log' = (IF stream = 0 THEN log ELSE Append(log, issued'))
        /\ Begun' = Begun
    BY <1>4 DEF Publish, client, history, Begun
  <2>2. Latest' = Latest
    BY <2>1 DEF Latest
  <2>3. CASE stream # 0 /\ (connectionId = stream \/ Begun)
    <3>1. /\ DOMAIN log' = 1 .. Len(log) + 1 /\ log'[Len(log) + 1] = issued + 1
          /\ \A i \in 1 .. Len(log) : log'[i] = log[i]
      BY <1>0, <2>1, <2>3, AppendFacts
    <3>2. \A e : AheadInStream(e) => AheadInStream(e)'
      BY <1>0, <2>1, <3>1 DEF AheadInStream
    <3>3. AheadInStream(issued)'
      <4>1. Len(log) + 1 \in DOMAIN log' /\ Len(log) + 1 > serverSequence'
        BY <1>0, <2>1, <2>3, <3>1 DEF StreamIds, Begun
      <4> QED BY <2>1, <3>1, <4>1 DEF AheadInStream
    <3>4. \A e \in Latest + 1 .. issued + 1 : e \in Latest + 1 .. issued \/ e = issued + 1
      BY <1>0
    <3> QED BY <1>0, <2>1, <2>2, <2>3, <3>2, <3>3, <3>4 DEF MissedIsAhead
  <2>4. CASE ~(stream # 0 /\ (connectionId = stream \/ Begun))
    BY <2>1, <2>4 DEF MissedIsAhead
  <2> QED BY <2>3, <2>4
<1>5. CASE ServerForgets
  BY <1>5 DEF ServerForgets, MissedIsAhead
<1>6. CASE Answered
  <2>1. /\ UNCHANGED <<token, connectionId, serverSequence, handled, stream, log, issued>>
        /\ covered' = issued \/ (covered' = covered /\ (Begun' => Begun))
    <3>1. /\ UNCHANGED <<token, connectionId, serverSequence, handled, hasReconnect>>
          /\ UNCHANGED <<stream, log, issued, socket, link>>
          /\ \/ UNCHANGED <<connectNotified, covered>>
             \/ ~hasReconnect /\ covered' = issued
             \/ hasReconnect /\ covered' = covered
      BY <1>6 DEF Answered, server
    <3> QED BY <3>1 DEF Begun
  <2>2. Latest' = Latest
    BY <2>1 DEF Latest
  <2>3. CASE covered' = issued
    BY <1>0, <2>1, <2>2, <2>3 DEF MissedIsAhead
  <2>4. CASE covered' = covered /\ (Begun' => Begun)
    BY <1>0, <2>1, <2>2, <2>4 DEF MissedIsAhead, AheadInStream
  <2> QED BY <2>1, <2>3, <2>4
<1>7. CASE ServerAnswers \/ Idle \/ Dropped
  <2>1. UNCHANGED <<token, connectionId, serverSequence, handled, stream, log, issued, covered>>
    BY <1>7 DEF ServerAnswers, Idle, Dropped, server, history, client
  <2>2. Begun' => Begun
    BY <1>7 DEF ServerAnswers, Idle, Dropped, client, Begun
  <2> QED BY <1>0, <2>1, <2>2 DEF MissedIsAhead, AheadInStream, Latest
<1> QED BY StepKinds, <1>1, <1>2, <1>3, <1>4, <1>5, <1>6, <1>7

\* Every step keeps what lies behind handled or covered.
LEMMA BehindIsDoneStep ==
    ASSUME TypeOK, Discipline, Delivering, [Next]_vars
    PROVE  BehindIsDone'
<1>0. /\ BehindIsDone /\ handled \in Seq(Nat) /\ Len(handled) \in Nat
      /\ DOMAIN handled = 1 .. Len(handled)
      /\ Latest \in Nat /\ issued \in Nat /\ covered \in Nat
  BY LogFacts DEF Delivering
<1>1. CASE open
  <2>1. handled' = <<>> /\ UNCHANGED <<issued, covered>>
    BY <1>1 DEF open, server
  <2>2. Latest' = 0
    BY <2>1 DEF Latest
  <2> QED BY <1>0, <2>1, <2>2 DEF BehindIsDone
<1>2. CASE Read /\ Advance /\ log[serverSequence + 1] # Hello
  <2> DEFINE n == log[serverSequence + 1]
  <2>1. /\ n \in Nat /\ Latest < n /\ n <= issued
        /\ \A f \in Latest + 1 .. n - 1 : f <= covered
        /\ handled' = Append(handled, n) /\ Latest' = n
    BY <1>2, NextEntry DEF Read
  <2>2. issued' = issued /\ covered' = covered
    BY <1>2 DEF Read, Advance, server
  <2>3. /\ DOMAIN handled' = 1 .. Len(handled) + 1 /\ handled'[Len(handled) + 1] = n
        /\ \A i \in 1 .. Len(handled) : handled'[i] = handled[i]
    BY <1>0, <2>1, AppendFacts
  <2>4. ASSUME NEW e \in 1 .. n
        PROVE  e <= covered \/ \E i \in DOMAIN handled' : handled'[i] = e
    <3>1. e \in 1 .. Latest \/ e \in Latest + 1 .. n - 1 \/ e = n
      BY <1>0, <2>1, <2>4
    <3>2. CASE e \in 1 .. Latest
      BY <1>0, <2>3, <3>2 DEF BehindIsDone
    <3>3. CASE e = n
      <4>1. Len(handled) + 1 \in DOMAIN handled'
        BY <1>0, <2>3
      <4> QED BY <2>3, <3>3, <4>1
    <3> QED BY <2>1, <3>1, <3>2, <3>3
  <2> QED BY <1>0, <2>1, <2>2, <2>4 DEF BehindIsDone
<1>3. CASE UNCHANGED handled /\ issued' \in {issued, issued + 1} /\ covered' \in {covered, issued}
  <2>1. Latest' = Latest
    BY <1>3 DEF Latest
  <2> QED BY <1>0, <1>3, <2>1 DEF BehindIsDone
<1>4. CASE close \/ connected
  BY <1>3, <1>4, ConnectedKinds DEF close, server, history
<1>5. CASE Read /\ ~(Advance /\ log[serverSequence + 1] # Hello)
  BY <1>3, <1>5 DEF Read, Advance, Adopt, server
<1>6. CASE Answered \/ Idle \/ Dropped
  BY <1>3, <1>6 DEF Answered, Idle, Dropped, server, history
<1>7. CASE Publish \/ ServerAnswers \/ ServerForgets
  BY <1>3, <1>7 DEF Publish, ServerAnswers, ServerForgets, server, history
<1> QED BY StepKinds, <1>1, <1>2, <1>4, <1>5, <1>6, <1>7

\* The argument starts with an empty log.
LEMMA DeliveringInit == Init => Delivering
<1> SUFFICES ASSUME Init PROVE Delivering
  OBVIOUS
<1> USE DEF Init
<1>1. StreamIds /\ LogOrdered /\ WireFaithful /\ HelloFirst
  BY DEF StreamIds, LogOrdered, WireFaithful, HelloFirst
<1>2. Latest = 0
  BY DEF Latest
<1>3. AheadIsNew /\ MissedIsAhead /\ BehindIsDone /\ ResumeSettled
  BY <1>2 DEF AheadIsNew, MissedIsAhead, BehindIsDone, ResumeSettled
<1> QED BY <1>1, <1>3 DEF Delivering

\* The parts together are inductive.
LEMMA DeliveringStep == TypeOK /\ Discipline /\ Delivering /\ [Next]_vars => Delivering'
BY StreamIdsStep, LogOrderedStep, WireFaithfulStep, HelloFirstStep, AheadIsNewStep,
   MissedIsAheadStep, BehindIsDoneStep, ResumeSettledStep DEF Delivering

\* They hold in every reachable state.
LEMMA DeliveringInvariant == Spec => [](TypeOK /\ Discipline /\ Delivering)
<1>1. Init => Delivering
  BY DeliveringInit
<1>2. TypeOK /\ Discipline /\ Delivering /\ [Next]_vars => Delivering'
  BY DeliveringStep
<1> QED BY <1>1, <1>2, DisciplineInvariant, PTL DEF Spec

-------------------------------------------------------------------------------
(* The two results.                                                            *)

\* An event neither handled nor covered by a refresh is still on its way: ahead of the
\* client in its stream, or the client will be told to fetch it (the numbering and the
\* resume of WebSocketConnector.cpp against every drop, restart and late log-in).
THEOREM NothingIsForgotten == Spec => []NothingForgotten
<1>1. TypeOK /\ Discipline /\ Delivering => NothingForgotten
  <2> SUFFICES ASSUME TypeOK, Discipline, Delivering, token, connectionId # 0,
                      NEW e \in 1 .. issued, Pending(e)
               PROVE  \/ connectionId = stream /\ AheadInStream(e)
                      \/ connectionId # stream /\ (hasReconnect \/ link # "live")
    BY DEF NothingForgotten
  <2>0. Latest \in Nat /\ issued \in Nat /\ covered \in Nat
    BY LogFacts
  <2>1. ~(e <= covered) /\ ~(\E i \in DOMAIN handled : handled[i] = e)
    BY <2>0 DEF Pending
  <2>2. e \in Latest + 1 .. issued
    BY <2>0, <2>1 DEF Delivering, BehindIsDone
  <2>3. CASE connectionId = stream
    BY <2>1, <2>2, <2>3 DEF Delivering, MissedIsAhead
  <2>4. CASE connectionId # stream
    BY <2>4 DEF Delivering, HelloFirst, Discipline, Consistent, ReconnectRemembered
  <2> QED BY <2>3, <2>4
<1> QED BY <1>1, DeliveringInvariant, PTL

\* Every step of the connection is a step of EventDelivery or changes nothing it knows.
LEMMA DeliveryStep ==
    TypeOK /\ Discipline /\ Delivering /\ [Next]_vars => [Delivery!Next]_(Delivery!vars)
<1> SUFFICES ASSUME TypeOK, Discipline, Delivering, [Next]_vars
             PROVE  [Delivery!Next]_(Delivery!vars)
  OBVIOUS
<1> USE DEF Delivery!Next, Delivery!vars
<1>1. CASE open
  <2>1. ~token /\ token' /\ handled' = <<>> /\ issued' = issued /\ covered' = covered
    BY <1>1 DEF open, server
  <2> QED BY <2>1 DEF Delivery!Login
<1>2. CASE close
  BY <1>2 DEF close, server, history, Delivery!Logout
<1>3. CASE Publish
  <2>1. issued < MaxEvents /\ issued' = issued + 1 /\ UNCHANGED <<handled, covered, token>>
    BY <1>3 DEF Publish, client, history
  <2> QED BY <2>1 DEF Delivery!Publish
<1>4. CASE Answered
  <2>1. token /\ UNCHANGED <<issued, handled, token>> /\ covered' \in {covered, issued}
    BY <1>4 DEF Answered, server
  <2> QED BY <2>1 DEF Delivery!Refresh
<1>5. CASE Read
  <2>1. token /\ token' = token /\ issued' = issued
    BY <1>5 DEF Read, server
  <2>2. CASE Adopt
    BY <2>1, <2>2 DEF Adopt, Delivery!Refresh
  <2>3. CASE Advance /\ log[serverSequence + 1] = Hello
    BY <2>1, <2>3 DEF Advance
  <2>4. CASE Advance /\ log[serverSequence + 1] # Hello
    <3> DEFINE n == log[serverSequence + 1]
    <3>1. /\ n \in Nat /\ Latest < n /\ n <= issued /\ Latest' = n
          /\ \A f \in Latest + 1 .. n - 1 : f <= covered
      BY <2>1, <2>4, NextEntry
    <3>2. n \in Latest + 1 .. issued /\ covered' = covered
      BY <2>4, <3>1, LogFacts DEF Advance
    <3> QED BY <2>1, <3>1, <3>2 DEF Delivery!Handle, Latest
  <2> QED BY <1>5, <2>2, <2>3, <2>4 DEF Read
<1>6. CASE connected
  BY <1>6, ConnectedKinds DEF history
<1>7. CASE ServerAnswers \/ ServerForgets \/ Idle \/ Dropped
  BY <1>7 DEF ServerAnswers, ServerForgets, Idle, Dropped, client, server, history
<1> QED BY StepKinds, <1>1, <1>2, <1>3, <1>4, <1>5, <1>6, <1>7

\* The connection delivers events as EventDelivery promises: in order, once, with no gap
\* that no refresh accounts for and none after log-out (onNewPacket and its callers).
THEOREM Delivers == Spec => DeliversInOrder
<1>1. Init => Delivery!Init
  BY DEF Init, Delivery!Init
<1> QED BY <1>1, DeliveryStep, DeliveringInvariant, PTL DEF Spec, DeliversInOrder, Delivery!Spec
==============================================================================
