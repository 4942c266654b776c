-------------------------- MODULE ThreadReads_proofs --------------------------
(***************************************************************************)
(* ThreadReads: type correctness, the mark and the read calls, and that    *)
(* the entry of a thread agrees with the server once nothing is under way, *)
(* for every value of the bounds.                                          *)
(***************************************************************************)
EXTENDS ThreadReads, FiniteSetTheorems, TLAPS

-------------------------------------------------------------------------------
(* The inductive invariants.                                                   *)

\* The client has no post the server did not create, and what refers to posts refers to
\* posts it had; a query runs exactly while a refresh is in flight; an answer that failed
\* was counted as a fault.
CallShape ==
    \A c \in calls :
        /\ c.upTo <= created
        /\ c.kind \in {"read", "unread"} => c.post \in 1 .. delivered
        /\ c.state = "failed" => faults > 0

Shape ==
    /\ TypeOK /\ CallShape
    /\ inFlight <=> query.stage # "none"
    /\ entry.through <= delivered /\ gate.highWater <= delivered

\* A mark stands together with the attention key, until a read call; a read call that is
\* unconfirmed has read through the mark.
Marked ==
    /\ marker <= delivered
    /\ marker # 0 => attentionKey
    /\ attentionKey => delivered > 0
    /\ entry.pending => delivered > 0 /\ marker = 0

Reading == \E c \in calls : c.kind = "read"

\* With no fault so far, an unconfirmed read call is at work: the server has read as far as
\* the entry, or is about to, or an answer to "mark as unread" is about to take the entry
\* back.  Attention that the user asked for is shown, or a read call is about to end it.
Backed ==
    faults = 0 =>
        /\ entry.pending =>
            \/ entry.ackAt <= serverRead
            \/ \E c \in calls : c.kind = "read" /\ c.state = "sent" /\ entry.ackAt <= c.upTo
            \/ \E c \in calls : c.kind = "unread" /\ c.state = "ok"
        /\ attentionKey /\ entry.pending => Reading
        /\ attentionKey /\ entry.present => entry.replies > 0 \/ Reading

\* No refresh has to come: the thread is followed, every post is announced, and no answer
\* that asks for a refresh is on its way.
Calm ==
    /\ follows /\ faults = 0 /\ delivered = created /\ ~timer
    /\ \A c \in calls : c.state = "sent"

\* A thread is listed when it has replies, and shown when it is listed or was announced.
Listed ==
    /\ query.result.present => created > 1
    /\ entry.present => created > 1 \/ delivered > 0

\* A snapshot under way that no other will follow tells what the server would tell now.
QueryCurrent ==
    Calm /\ inFlight /\ ~requested /\ ~dirty /\ query.stage \in {"unread", "answered"} =>
        /\ query.result.present <=> created > 1
        /\ created > 1 =>
            /\ query.result.lastReply = created
            /\ query.result.replies = IF query.stage = "unread" THEN 0 ELSE ServerUnread

\* So does the entry when no snapshot is under way.
EntryCurrent ==
    Calm /\ ~inFlight =>
        /\ created > 1 => entry.present /\ ~entry.synthetic
        /\ ~Reading /\ ~entry.synthetic =>
            (requiresAttention(entry) <=> ServerUnread > 0 \/ (attentionKey /\ entry.present))

Current == Listed /\ QueryCurrent /\ EntryCurrent

-------------------------------------------------------------------------------
(* The operators the model is built from.                                      *)

\* Of two numbers, the greater.
LEMMA MaxPair ==
    ASSUME NEW a \in Int, NEW b \in Int
    PROVE  Max({a, b}) = IF a >= b THEN a ELSE b
<1>1. CASE a >= b
  <2>1. a \in {a, b} /\ \A y \in {a, b} : a >= y
    BY <1>1
  <2>2. \A x \in {a, b} : (\A y \in {a, b} : x >= y) => x = a
    BY <1>1
  <2> QED BY <1>1, <2>1, <2>2 DEF Max
<1>2. CASE ~(a >= b)
  <2>1. b \in {a, b} /\ \A y \in {a, b} : b >= y
    BY <1>2
  <2>2. \A x \in {a, b} : (\A y \in {a, b} : x >= y) => x = b
    BY <1>2
  <2> QED BY <1>2, <2>1, <2>2 DEF Max
<1> QED BY <1>1, <1>2

\* The bounds are numbers, and 0 and the posts are marks.
LEMMA Numbers == /\ MaxPosts \in Nat \ {0} /\ MaxCalls \in Nat /\ MaxMarks \in Nat
                 /\ MaxDisturbances \in Nat
                 /\ \A m \in Marks : m \in Nat /\ m \in Int
                 /\ 0 \in Marks /\ 1 \in Marks
                 /\ Posts \subseteq Marks
BY ThreadReadsAssumption DEF Marks, Posts

LEMMA MaxMark ==
    ASSUME NEW a \in Marks, NEW b \in Marks
    PROVE  Max({a, b}) \in Marks /\ Max({a, b}) >= a /\ Max({a, b}) >= b
<1>1. a \in Int /\ b \in Int
  BY Numbers
<1>2. Max({a, b}) = IF a >= b THEN a ELSE b
  BY <1>1, MaxPair
<1> QED BY <1>1, <1>2

\* The server counts unread replies when it has a reply after the last one read.
LEMMA UnreadCount ==
    ASSUME NEW n \in Posts, NEW r \in Marks
    PROVE  LET U == {p \in 2 .. n : p > r} IN
           /\ Cardinality(U) \in 0 .. n
           /\ Cardinality(U) > 0 <=> n > 1 /\ n > r
<1> DEFINE U == {p \in 2 .. n : p > r}
<1>1. n \in Nat /\ n >= 1 /\ r \in Nat
  BY Numbers DEF Posts
<1>2. IsFiniteSet(1 .. n) /\ Cardinality(1 .. n) = n
  BY <1>1, FS_Interval
<1>3. U \subseteq 1 .. n
  BY <1>1
<1>4. IsFiniteSet(U) /\ Cardinality(U) <= n /\ Cardinality(U) \in Nat
  BY <1>2, <1>3, FS_Subset, FS_CardinalityType
<1>5. Cardinality(U) = 0 <=> U = {}
  BY <1>4, FS_EmptySet
<1>6. U = {} <=> ~(n > 1 /\ n > r)
  <2>1. n > 1 /\ n > r => n \in U
    BY <1>1
  <2>2. \A p \in U : n > 1 /\ n > r
    BY <1>1
  <2> QED BY <2>1, <2>2
<1> HIDE DEF U
<1>7. Cardinality(U) \in 0 .. n /\ (Cardinality(U) > 0 <=> n > 1 /\ n > r)
  BY <1>1, <1>4, <1>5, <1>6
<1> QED BY <1>7 DEF U

\* The entries the events, the log and the answers make of an entry are entries.
LEMMA EntryTypes ==
    ASSUME NEW e \in Entry, NEW p \in Posts
    PROVE  /\ NoEntry \in Entry
           /\ noteIncomingForResume(e, p) \in Entry /\ noteSyntheticMention(e, p) \in Entry
           /\ markThreadRead(e) \in Entry /\ unreadModel(e, p) \in Entry
           /\ [e EXCEPT !.pending = FALSE, !.ackAt = 0] \in Entry
<1>1. NoEntry \in Entry
  BY Numbers DEF NoEntry, Entry
<1>2. noteIncomingForResume(e, p) \in Entry /\ noteSyntheticMention(e, p) \in Entry
  BY Numbers DEF noteIncomingForResume, noteSyntheticMention, Entry
<1>3. markThreadRead(e) \in Entry /\ [e EXCEPT !.pending = FALSE, !.ackAt = 0] \in Entry
  BY Numbers DEF markThreadRead, Entry
<1>4. unreadModel(e, p) \in Entry
  <2>1. e.replies \in Marks /\ e.lastReply \in Marks
    BY DEF Entry
  <2>2. Max({1, e.replies}) \in Marks /\ Max({p, e.lastReply}) \in Marks
    BY <2>1, Numbers, MaxMark
  <2> QED BY <2>2, Numbers DEF unreadModel, Entry
<1> QED BY <1>1, <1>2, <1>3, <1>4

\* A snapshot leaves an entry.
LEMMA SnapshotType ==
    ASSUME TypeOK, NEW s \in Summary
    PROVE  snapshotEntry(s) \in Entry
<1>1. entry \in Entry /\ marker \in Marks
  BY DEF TypeOK
<1> DEFINE e0 == [entry EXCEPT !.present = TRUE, !.synthetic = FALSE, !.replies = s.replies,
                               !.mention = FALSE, !.lastReply = s.lastReply]
<1>2. e0 \in Entry
  BY <1>1 DEF Entry, Summary
<1>3. \A e \in Entry : restoreMark(e) \in Entry
  <2> SUFFICES ASSUME NEW e \in Entry PROVE restoreMark(e) \in Entry
    OBVIOUS
  <2>1. e.replies \in Marks
    BY DEF Entry
  <2>2. Max({1, e.replies}) \in Marks
    BY <2>1, Numbers, MaxMark
  <2> QED BY <1>1, <2>2, Numbers DEF restoreMark, Entry
<1>4. \A e \in Entry : settlePending(e) \in Entry
  BY Numbers DEF settlePending, Entry
<1>5. NoEntry \in Entry
  BY Numbers DEF NoEntry, Entry
<1>6. snapshotEntry(s) = IF s.present THEN settlePending(restoreMark(e0))
                         ELSE IF entry.present /\ (attentionKey \/ entry.synthetic)
                              THEN entry ELSE NoEntry
  BY DEF snapshotEntry
<1> HIDE DEF e0
<1> QED BY <1>1, <1>2, <1>3, <1>4, <1>5, <1>6

-------------------------------------------------------------------------------
(* Type correctness.                                                           *)

LEMMA ShapeInit == Init => Shape
<1> SUFFICES ASSUME Init PROVE Shape
  OBVIOUS
<1>1. NoQuery \in Query /\ NoGate \in Gate /\ NoEntry \in Entry
  BY Numbers DEF NoQuery, NoSummary, Query, Summary, NoGate, Gate, NoEntry, Entry
<1>2. TypeOK
  <2>1. {timer, inFlight, requested, dirty} \subseteq BOOLEAN /\ follows \in BOOLEAN
        /\ attentionKey \in BOOLEAN
    BY Zenon DEF Init
  <2>2. created \in Posts /\ serverRead \in Marks /\ delivered \in 0 .. created
        /\ marker \in Marks
    BY Numbers DEF Init, Posts, Marks
  <2>3. calls \in SUBSET Call /\ entry \in Entry /\ query \in Query /\ gate \in Gate
    BY <1>1 DEF Init
  <2>4. issued \in 0 .. MaxCalls /\ marks \in 0 .. MaxMarks
        /\ disturbances \in 0 .. MaxDisturbances /\ faults \in 0 .. disturbances
    BY Numbers DEF Init
  <2> QED BY <2>1, <2>2, <2>3, <2>4 DEF TypeOK
<1> QED BY <1>2 DEF Init, Shape, CallShape, NoQuery, NoEntry, NoGate

\* A call that leaves is well formed.
LEMMA IssueShape ==
    ASSUME Shape, NEW kind \in {"read", "unread", "follow", "unfollow"}, NEW post \in Marks,
           kind \in {"read", "unread"} => post \in 1 .. delivered, issue(kind, post),
           UNCHANGED <<created, delivered, faults>>
    PROVE  /\ calls' \in SUBSET Call /\ issued' \in 0 .. MaxCalls
           /\ CallShape'
<1> DEFINE c == [id |-> issued + 1, kind |-> kind, post |-> post, upTo |-> created,
                 state |-> "sent"]
<1>1. issued \in 0 .. MaxCalls /\ issued < MaxCalls /\ issued' = issued + 1
  BY DEF issue, Shape, TypeOK
<1>2. created \in Marks /\ created \in Nat /\ calls \in SUBSET Call
  BY Numbers DEF Shape, TypeOK
<1>3. c \in Call
  BY <1>1, <1>2, Numbers DEF Call
<1>4. calls' = calls \cup {c}
  BY DEF issue
<1>5. c.upTo = created /\ c.kind = kind /\ c.post = post /\ c.state = "sent"
  OBVIOUS
<1> HIDE DEF c
<1>6. calls' \in SUBSET Call
  BY <1>2, <1>3, <1>4
<1>7. CallShape'
  BY <1>2, <1>4, <1>5 DEF Shape, CallShape
<1> QED BY <1>1, <1>6, <1>7, Numbers

\* A fault is counted once and stays within its bound.
LEMMA FaultShape ==
    ASSUME Shape, NEW happens \in BOOLEAN, fault(happens)
    PROVE  /\ disturbances' \in 0 .. MaxDisturbances /\ faults' \in 0 .. disturbances'
           /\ faults' >= faults /\ (happens => faults' > 0)
           /\ ~happens => UNCHANGED faults
<1>1. disturbances \in 0 .. MaxDisturbances /\ faults \in 0 .. disturbances
  BY DEF Shape, TypeOK
<1> QED BY <1>1, Numbers DEF fault, disturb

\* A refresh that is asked for starts, or is noted.
LEMMA RefreshShape ==
    ASSUME Shape, refreshThreads
    PROVE  /\ inFlight' \in BOOLEAN /\ requested' \in BOOLEAN /\ dirty' \in BOOLEAN
           /\ query' \in Query /\ (inFlight' <=> query'.stage # "none")
<1>1. NoSummary \in Summary
  BY Numbers DEF NoSummary, Summary
<1>2. [stage |-> "followed", result |-> NoSummary] \in Query
  BY <1>1 DEF Query
<1>3. CASE inFlight
  BY <1>3 DEF refreshThreads, Shape, TypeOK
<1>4. CASE ~inFlight
  <2>1. /\ inFlight' = TRUE /\ requested' = FALSE /\ dirty' = FALSE
        /\ query' = [stage |-> "followed", result |-> NoSummary]
    BY <1>4, Zenon DEF refreshThreads
  <2>2. inFlight' \in BOOLEAN /\ requested' \in BOOLEAN /\ dirty' \in BOOLEAN
    BY <2>1, Zenon
  <2>3. query'.stage # "none"
    BY <2>1
  <2> QED BY <1>2, <2>1, <2>2, <2>3
<1> QED BY <1>3, <1>4

LEMMA GateShape ==
    ASSUME Shape, NEW visible \in BOOLEAN, NEW hi \in 1 .. delivered
    PROVE  /\ gateUpdate(visible) \in Gate /\ gateUpdate(visible).highWater <= delivered
           /\ LET g == gateUpdate(visible) IN
                  /\ [g EXCEPT !.highWater = Max({hi, @})] \in Gate
                  /\ [g EXCEPT !.highWater = Max({hi, @})].highWater <= delivered
           /\ gate.phase = "Idle" => gateUpdate(visible) = gate
<1>1. gate \in Gate /\ delivered \in Nat /\ gate.highWater <= delivered
      /\ created \in Marks /\ delivered <= MaxPosts
  BY Numbers DEF Shape, TypeOK, Posts
<1> DEFINE g == gateUpdate(visible)
<1>2. g \in Gate /\ g.highWater <= delivered /\ (gate.phase = "Idle" => g = gate)
  <2>1. NoGate \in Gate /\ NoGate.highWater = 0
    BY Numbers DEF NoGate, Gate
  <2>2. CASE gate.phase = "WaitForExit" /\ ~visible
    <3>1. g = [gate EXCEPT !.phase = "WaitForEntry", !.exited = TRUE]
      BY <2>2 DEF gateUpdate
    <3> HIDE DEF g
    <3> QED BY <1>1, <2>2, <3>1 DEF Gate
  <2>3. CASE gate.phase = "WaitForEntry" /\ visible
    <3>1. g = NoGate
      BY <2>3 DEF gateUpdate
    <3> HIDE DEF g
    <3> QED BY <1>1, <2>1, <2>3, <3>1
  <2>4. CASE ~(gate.phase = "WaitForExit" /\ ~visible) /\ ~(gate.phase = "WaitForEntry" /\ visible)
    BY <1>1, <2>4 DEF gateUpdate
  <2> QED BY <2>2, <2>3, <2>4
<1> HIDE DEF g
<1>3. hi \in Marks /\ g.highWater \in Marks /\ hi \in Int /\ hi <= delivered
  BY <1>1, <1>2, Numbers DEF Gate, Marks
<1>4. Max({hi, g.highWater}) \in Marks /\ Max({hi, g.highWater}) <= delivered
  <2>1. g.highWater \in Int
    BY <1>1, <1>3, Numbers DEF Marks
  <2>2. Max({hi, g.highWater}) \in {hi, g.highWater}
    BY <1>3, <2>1, MaxPair
  <2> QED BY <1>2, <1>3, <2>2
<1>5. /\ [g EXCEPT !.highWater = Max({hi, @})] \in Gate
      /\ [g EXCEPT !.highWater = Max({hi, @})].highWater <= delivered
  BY <1>2, <1>4 DEF Gate
<1> QED BY <1>2, <1>5 DEF g

\* The log reads a post of those the client holds, and the entry follows.
LEMMA ReadThroughShape ==
    ASSUME Shape, NEW p \in Posts, p <= delivered
    PROVE  /\ observeReadThrough(p) \in Entry /\ observeReadThrough(p).through <= delivered
           /\ observeReadThrough(p).present = entry.present
<1>1. entry \in Entry /\ delivered \in Nat /\ delivered <= MaxPosts /\ entry.through <= delivered
  BY Numbers DEF Shape, TypeOK, Posts
<1>2. p \in Marks /\ (p < delivered => p + 1 \in Marks) /\ 0 \in Marks
  BY <1>1, Numbers DEF Posts, Marks
<1> QED BY <1>1, <1>2 DEF observeReadThrough, Entry

\* What the viewport reads is a post the client holds.
LEMMA ReadTo ==
    ASSUME Shape, NEW hi \in 1 .. delivered
    PROVE  LET p == IF gate.phase = "Idle" THEN hi ELSE Max({hi, gate.highWater})
           IN p \in Posts /\ p <= delivered
<1>1. /\ gate.highWater \in Marks /\ gate.highWater <= delivered /\ delivered \in Nat
      /\ hi \in Marks /\ hi \in Posts /\ hi <= delivered
  BY Numbers DEF Shape, TypeOK, Gate, Posts, Marks
<1>2. hi \in Int /\ gate.highWater \in Int
  BY <1>1, Numbers
<1>3. Max({hi, gate.highWater}) = IF hi >= gate.highWater THEN hi ELSE gate.highWater
  BY <1>2, MaxPair
<1> QED BY <1>1, <1>2, <1>3, Numbers DEF Posts, Marks

\* The viewport updates the cursor.
LEMMA CursorShape == Shape /\ UpdateReadCursor => Shape'
<1> SUFFICES ASSUME Shape, UpdateReadCursor PROVE Shape'
  OBVIOUS
<1>1. PICK lo \in 1 .. delivered, hi \in 1 .. delivered :
        lo <= hi /\ updateReadCursorFromViewport(lo, hi)
  BY DEF UpdateReadCursor
<1>2. UNCHANGED <<server, delivered, refresh, marks, disturbances, faults>>
  BY DEF UpdateReadCursor
<1> DEFINE g == gateUpdate(gate.post \in lo .. hi)
           p == IF gate.phase = "Idle" THEN hi ELSE Max({hi, gate.highWater})
           seen == observeReadThrough(p)
<1>3. /\ g \in Gate /\ g.highWater <= delivered
      /\ [g EXCEPT !.highWater = Max({hi, @})] \in Gate
      /\ [g EXCEPT !.highWater = Max({hi, @})].highWater <= delivered
  <2>1. (gate.post \in lo .. hi) \in BOOLEAN
    OBVIOUS
  <2> QED BY <2>1, GateShape
<1>4. p \in Posts /\ p <= delivered
  BY ReadTo
<1>5. seen \in Entry /\ seen.through <= delivered
  BY <1>4, ReadThroughShape
<1>6. TypeOK /\ CallShape
  BY DEF Shape
<1> HIDE DEF g, p, seen
<1>7. gate' \in Gate /\ gate'.highWater <= delivered
  BY <1>1, <1>3 DEF updateReadCursorFromViewport, g, p
<1>8. marker' \in Marks /\ attentionKey' = attentionKey
  BY <1>1, <1>6, Numbers DEF updateReadCursorFromViewport, model, p, TypeOK
<1>9. \/ entry' = entry /\ UNCHANGED <<calls, issued>>
      \/ entry' = seen /\ UNCHANGED <<calls, issued>>
      \/ entry' = markThreadRead(seen) /\ issue("read", p)
  BY <1>1 DEF updateReadCursorFromViewport, model, p, seen
<1>10. entry' \in Entry /\ entry'.through <= delivered
  <2>1. markThreadRead(seen) \in Entry
    BY <1>4, <1>5, EntryTypes
  <2>2. markThreadRead(seen).through = seen.through
    BY <1>5 DEF markThreadRead, Entry
  <2> QED BY <1>5, <1>9, <2>1, <2>2 DEF Shape, TypeOK
<1>11. calls' \in SUBSET Call /\ issued' \in 0 .. MaxCalls /\ CallShape'
  <2>1. CASE UNCHANGED <<calls, issued>>
    BY <1>2, <1>6, <2>1 DEF TypeOK, CallShape, server
  <2>2. CASE issue("read", p)
    <3>1. p \in Marks /\ p \in 1 .. delivered
      BY <1>4, <1>6, Numbers DEF TypeOK, Posts
    <3> QED BY <1>2, <2>2, <3>1, IssueShape DEF server
  <2> QED BY <1>9, <2>1, <2>2
<1>12. TypeOK'
  <2>1. /\ UNCHANGED <<created, follows, serverRead, delivered, timer, inFlight, requested>>
        /\ UNCHANGED <<dirty, query, marks, disturbances, faults>>
    BY <1>2 DEF server, refresh
  <2> QED BY <1>6, <1>7, <1>8, <1>10, <1>11, <2>1 DEF TypeOK
<1> QED BY <1>2, <1>7, <1>10, <1>11, <1>12 DEF Shape, server, refresh

\* What a snapshot leaves was read no further than the entry before.
LEMMA SnapshotThrough ==
    ASSUME Shape, NEW s \in Summary
    PROVE  snapshotEntry(s).through \in {0, entry.through}
<1>1. entry \in Entry
  BY DEF Shape, TypeOK
<1> DEFINE e0 == [entry EXCEPT !.present = TRUE, !.synthetic = FALSE, !.replies = s.replies,
                               !.mention = FALSE, !.lastReply = s.lastReply]
<1>2. e0 \in Entry /\ e0.through = entry.through
  BY <1>1 DEF Entry, Summary
<1>3. \A e \in Entry : restoreMark(e).through \in {0, e.through}
                       /\ DOMAIN restoreMark(e) = DOMAIN e
  BY DEF restoreMark, Entry
<1>4. \A e : DOMAIN e = DOMAIN e0 => settlePending(e).through = e.through
  BY <1>2 DEF settlePending, Entry
<1>5. snapshotEntry(s) = IF s.present THEN settlePending(restoreMark(e0))
                         ELSE IF entry.present /\ (attentionKey \/ entry.synthetic)
                              THEN entry ELSE NoEntry
  BY DEF snapshotEntry
<1>6. NoEntry.through = 0
  BY DEF NoEntry
<1> HIDE DEF e0
<1>7. settlePending(restoreMark(e0)).through = restoreMark(e0).through
  BY <1>2, <1>3, <1>4
<1> QED BY <1>2, <1>3, <1>5, <1>6, <1>7

\* A call is served, or fails.
LEMMA ServeShape ==
    ASSUME Shape, NEW c \in calls, NEW outcome \in {"served", "unanswered", "refused"},
           ServeCall(c, outcome)
    PROVE  Shape'
<1>1. TypeOK /\ CallShape /\ c \in Call
  BY DEF Shape, TypeOK
<1>2. /\ UNCHANGED <<created, delivered, entry, marker, attentionKey, gate, issued, marks>>
      /\ UNCHANGED <<timer, inFlight, requested, dirty, query>>
  BY DEF ServeCall, model, refresh
<1>3. /\ disturbances' \in 0 .. MaxDisturbances /\ faults' \in 0 .. disturbances'
      /\ faults' >= faults /\ (outcome # "served" => faults' > 0)
  <2>1. (outcome # "served") \in BOOLEAN /\ fault(outcome # "served")
    BY DEF ServeCall
  <2> QED BY <2>1, FaultShape
<1>4. calls' \in SUBSET Call /\ CallShape'
  <2> DEFINE st == IF outcome = "served" THEN "ok" ELSE "failed"
             d == [c EXCEPT !.state = st]
  <2>1. /\ d \in Call /\ d.upTo = c.upTo /\ d.kind = c.kind /\ d.post = c.post
        /\ d.state = st
    BY <1>1 DEF Call
  <2>2. calls' = (calls \ {c}) \cup (IF c.kind = "unfollow" THEN {} ELSE {d})
    BY DEF ServeCall
  <2>3. d.state = "failed" => faults' > 0
    BY <1>3, <2>1
  <2>4. faults \in Nat /\ faults' \in Nat
    BY <1>1, <1>3 DEF TypeOK
  <2> HIDE DEF d
  <2>5. calls' \in SUBSET Call
    BY <1>1, <2>1, <2>2 DEF TypeOK
  <2>6. CallShape'
    BY <1>1, <1>2, <1>3, <2>1, <2>2, <2>3, <2>4 DEF CallShape
  <2> QED BY <2>5, <2>6
<1>5. follows' \in BOOLEAN /\ serverRead' \in Marks
  <2>1. CASE outcome = "refused"
    BY <1>1, <2>1 DEF ServeCall, TypeOK
  <2>2. CASE outcome # "refused"
    <3>1. Max({c.upTo, serverRead}) \in Marks
      BY <1>1, MaxMark DEF TypeOK, Call
    <3>2. c.kind = "unread" => c.post - 1 \in Marks
      BY <1>1, Numbers DEF CallShape, TypeOK, Call, Marks, Posts
    <3>3. serverRead' = CASE c.kind = "read" -> Max({c.upTo, serverRead})
                          [] c.kind = "unread" -> c.post - 1
                          [] OTHER -> serverRead
      BY <2>2 DEF ServeCall
    <3>4. follows' = CASE c.kind = "follow" -> TRUE
                       [] c.kind = "unfollow" -> FALSE
                       [] OTHER -> follows
      BY <2>2 DEF ServeCall
    <3>5. serverRead' \in Marks
      BY <1>1, <3>1, <3>2, <3>3 DEF TypeOK
    <3>6. follows' \in BOOLEAN
      BY <1>1, <3>4 DEF TypeOK
    <3> QED BY <3>5, <3>6
  <2> QED BY <2>1, <2>2
<1>6. TypeOK'
  BY <1>1, <1>2, <1>3, <1>4, <1>5 DEF TypeOK
<1> QED BY <1>2, <1>4, <1>6 DEF Shape

\* An answer is taken: one call less.
LEMMA TakeShape ==
    ASSUME Shape, NEW c \in calls, NEW kind, take(c, kind), UNCHANGED <<created, delivered, faults>>
    PROVE  calls' \in SUBSET Call /\ CallShape'
BY DEF Shape, TypeOK, CallShape, take

LEMMA AnswerShape ==
    ASSUME Shape, NEW c \in calls, readAnswered(c) \/ unreadAnswered(c) \/ followAnswered(c)
    PROVE  Shape'
<1>1. TypeOK /\ CallShape /\ c \in Call /\ entry \in Entry /\ delivered \in Nat
  BY Numbers DEF Shape, TypeOK, Posts
<1>2. /\ UNCHANGED <<created, follows, serverRead, delivered>>
      /\ UNCHANGED <<issued, marks, disturbances, faults>>
  BY DEF readAnswered, unreadAnswered, followAnswered, server, budgets
<1>3. calls' \in SUBSET Call /\ CallShape'
  BY <1>2, TakeShape DEF readAnswered, unreadAnswered, followAnswered
<1>4. CASE readAnswered(c)
  <2>1. UNCHANGED <<inFlight, requested, query, gate>> /\ dirty' = TRUE /\ timer' = TRUE
    BY <1>4 DEF readAnswered, scheduleThreadRefresh
  <2>2. entry' \in Entry /\ entry'.through = entry.through
        /\ marker' \in Marks /\ attentionKey' \in BOOLEAN
    <3>1. CASE c.state = "ok"
      BY <1>1, <1>4, <3>1, Numbers DEF readAnswered, TypeOK
    <3>2. CASE c.state # "ok"
      <4>1. entry' = [entry EXCEPT !.pending = FALSE, !.ackAt = 0]
            /\ UNCHANGED <<marker, attentionKey>>
        BY <1>4, <3>2 DEF readAnswered
      <4>2. entry' \in Entry /\ entry'.through = entry.through
        BY <1>1, <4>1, Numbers DEF Entry
      <4> QED BY <1>1, <4>1, <4>2 DEF TypeOK
    <3> QED BY <3>1, <3>2
  <2>3. TypeOK'
    BY <1>1, <1>2, <1>3, <2>1, <2>2 DEF TypeOK
  <2> QED BY <1>2, <1>3, <2>1, <2>2, <2>3 DEF Shape
<1>5. CASE unreadAnswered(c)
  <2>1. UNCHANGED timer
    BY <1>5 DEF unreadAnswered
  <2>2. CASE c.state = "ok"
    <3>1. /\ marker' = c.post /\ attentionKey' = TRUE /\ entry' = unreadModel(entry, c.post)
          /\ refreshThreads /\ UNCHANGED gate
      BY <1>5, <2>2 DEF unreadAnswered
    <3>2. c.post \in 1 .. delivered /\ c.post \in Posts /\ c.post \in Marks
      <4>1. c.kind = "unread"
        BY <1>5 DEF unreadAnswered, take
      <4>2. c.post \in 1 .. delivered
        BY <1>1, <4>1 DEF CallShape
      <4>3. delivered <= MaxPosts /\ MaxPosts \in Nat
        BY <1>1, Numbers DEF TypeOK, Posts
      <4> QED BY <1>1, <4>2, <4>3 DEF Posts, Marks
    <3>3. entry' \in Entry /\ entry'.through = 0
      <4>1. unreadModel(entry, c.post) \in Entry
        BY <1>1, <3>2, EntryTypes
      <4>2. unreadModel(entry, c.post).through = 0
        BY <1>1 DEF unreadModel, Entry
      <4> QED BY <3>1, <4>1, <4>2
    <3>4. /\ inFlight' \in BOOLEAN /\ requested' \in BOOLEAN /\ dirty' \in BOOLEAN
          /\ query' \in Query /\ (inFlight' <=> query'.stage # "none")
      BY <3>1, RefreshShape
    <3>5. TypeOK'
      BY <1>1, <1>2, <1>3, <2>1, <3>1, <3>2, <3>3, <3>4 DEF TypeOK
    <3> QED BY <1>1, <1>2, <1>3, <3>1, <3>3, <3>4, <3>5 DEF Shape
  <2>3. CASE c.state # "ok"
    <3>1. /\ gate' = IF gate.post = c.post THEN NoGate ELSE gate
          /\ UNCHANGED <<entry, marker, attentionKey, inFlight, requested, dirty, query>>
      BY <1>5, <2>3 DEF unreadAnswered, model
    <3>2. NoGate \in Gate /\ NoGate.highWater = 0
      BY Numbers DEF NoGate, Gate
    <3>3. gate' \in Gate /\ gate'.highWater <= delivered
      BY <1>1, <3>1, <3>2 DEF Shape, TypeOK
    <3>4. TypeOK'
      BY <1>1, <1>2, <1>3, <2>1, <3>1, <3>3 DEF TypeOK
    <3> QED BY <1>2, <1>3, <3>1, <3>3, <3>4 DEF Shape
  <2> QED BY <2>2, <2>3
<1>6. CASE followAnswered(c)
  <2>1. UNCHANGED <<entry, marker, attentionKey, inFlight, requested, query, gate>>
    BY <1>6 DEF followAnswered, model
  <2>2. dirty' \in BOOLEAN /\ timer' \in BOOLEAN
    BY <1>1, <1>6 DEF followAnswered, scheduleThreadRefresh, TypeOK
  <2>3. TypeOK'
    BY <1>1, <1>2, <1>3, <2>1, <2>2 DEF TypeOK
  <2> QED BY <1>2, <1>3, <2>1, <2>3 DEF Shape
<1> QED BY <1>4, <1>5, <1>6

\* Every step keeps the shape.
LEMMA ShapeStep == Shape /\ [Next]_vars => Shape'
<1> SUFFICES ASSUME Shape, [Next]_vars PROVE Shape'
  OBVIOUS
<1>0. TypeOK /\ CallShape /\ entry \in Entry /\ delivered \in Nat /\ created \in Nat
      /\ delivered <= created /\ created <= MaxPosts
  BY Numbers DEF Shape, TypeOK, Posts
<1>1. CASE CreateReply
  <2>1. /\ created < MaxPosts /\ created' = created + 1
        /\ UNCHANGED <<follows, serverRead, calls, delivered, entry, marker, attentionKey, gate>>
        /\ UNCHANGED <<timer, inFlight, requested, dirty, query>>
        /\ UNCHANGED <<issued, marks, disturbances, faults>>
    BY <1>1 DEF CreateReply, model, refresh, budgets
  <2>2. created' \in Posts /\ delivered' \in 0 .. created'
    BY <1>0, <2>1, Numbers DEF Posts
  <2>3. TypeOK'
    BY <1>0, <2>1, <2>2 DEF TypeOK
  <2>4. CallShape'
    <3>1. \A c \in calls : c.upTo \in Nat
      BY <1>0, Numbers DEF TypeOK, Call
    <3> QED BY <1>0, <2>1, <3>1 DEF CallShape
  <2> QED BY <2>1, <2>3, <2>4 DEF Shape
<1>2. CASE Outage
  <2>1. /\ disturbances < MaxDisturbances /\ disturbances' = disturbances + 1
        /\ delivered' = created /\ dirty' = TRUE /\ timer' = TRUE
        /\ UNCHANGED <<created, follows, serverRead, calls, entry, marker, attentionKey, gate>>
        /\ UNCHANGED <<inFlight, requested, query>>
        /\ UNCHANGED <<issued, marks, faults>>
    BY <1>2 DEF Outage, disturb, scheduleThreadRefresh, server, model
  <2>2. disturbances' \in 0 .. MaxDisturbances /\ faults' \in 0 .. disturbances'
    BY <1>0, <2>1, Numbers DEF TypeOK
  <2>3. delivered' \in 0 .. created'
    BY <1>0, <2>1
  <2>4. TypeOK'
    BY <1>0, <2>1, <2>2, <2>3 DEF TypeOK
  <2>5. CallShape'
    BY <1>0, <2>1 DEF CallShape
  <2>6. entry.through \in Nat /\ gate.highWater \in Nat
    BY <1>0, Numbers DEF TypeOK, Entry, Gate
  <2>7. entry'.through <= delivered' /\ gate'.highWater <= delivered'
    BY <1>0, <2>1, <2>6 DEF Shape
  <2> QED BY <2>1, <2>4, <2>5, <2>7 DEF Shape
<1>3. ASSUME NEW mentions \in BOOLEAN, noteIncomingPost(mentions)
      PROVE  Shape'
  <2> DEFINE p == delivered + 1
             e == IF p > 1 THEN noteIncomingForResume(entry, p) ELSE entry
  <2>1. /\ delivered < created /\ delivered' = p
        /\ entry' = IF mentions THEN noteSyntheticMention(e, p) ELSE e
        /\ UNCHANGED <<created, follows, serverRead, calls, marker, attentionKey>>
        /\ UNCHANGED <<inFlight, requested, query, gate, issued, marks, faults>>
    BY <1>3 DEF noteIncomingPost, server
  <2>2. p \in Posts /\ p \in 0 .. created
    BY <1>0, <2>1, Numbers DEF Posts
  <2>3. e \in Entry /\ e.through = entry.through
    BY <1>0, <2>2, EntryTypes DEF noteIncomingForResume, Entry
  <2>4. entry' \in Entry /\ entry'.through = entry.through
    <3>1. noteSyntheticMention(e, p).through = e.through
      BY <2>3 DEF noteSyntheticMention, Entry
    <3>2. noteSyntheticMention(e, p) \in Entry
      BY <2>2, <2>3, EntryTypes
    <3> QED BY <2>1, <2>3, <3>1, <3>2
  <2>5. disturbances' \in 0 .. MaxDisturbances /\ faults' \in 0 .. disturbances'
    BY <1>0, <1>3, <2>1, Numbers DEF noteIncomingPost, disturb, TypeOK
  <2>6. dirty' \in BOOLEAN /\ timer' \in BOOLEAN
    BY <1>0, <1>3 DEF noteIncomingPost, scheduleThreadRefresh, TypeOK
  <2>7. TypeOK'
    BY <1>0, <2>1, <2>2, <2>4, <2>5, <2>6 DEF TypeOK
  <2>8. CallShape'
    BY <1>0, <2>1 DEF CallShape
  <2>9. entry.through \in Nat /\ gate.highWater \in Nat
    BY <1>0, Numbers DEF TypeOK, Entry, Gate
  <2>10. entry'.through <= delivered' /\ gate'.highWater <= delivered'
    BY <1>0, <2>1, <2>4, <2>9 DEF Shape
  <2> QED BY <2>1, <2>7, <2>8, <2>10 DEF Shape
<1>4. CASE clearSyntheticMentions
  <2>1. /\ entry' = NoEntry
        /\ UNCHANGED <<created, follows, serverRead, calls, delivered, marker, attentionKey, gate>>
        /\ UNCHANGED <<timer, inFlight, requested, dirty, query>>
        /\ UNCHANGED <<issued, marks, disturbances, faults>>
    BY <1>4 DEF clearSyntheticMentions, server, refresh, budgets
  <2>2. NoEntry \in Entry /\ NoEntry.through = 0
    BY Numbers DEF NoEntry, Entry
  <2>3. TypeOK' /\ CallShape'
    BY <1>0, <2>1, <2>2 DEF TypeOK, CallShape
  <2> QED BY <1>0, <2>1, <2>2, <2>3 DEF Shape
<1>5. CASE threadRefreshTimeout
  <2>1. /\ timer' = FALSE /\ refreshThreads
        /\ UNCHANGED <<created, follows, serverRead, calls, delivered, entry, marker>>
        /\ UNCHANGED <<attentionKey, gate, issued, marks, disturbances, faults>>
    BY <1>5 DEF threadRefreshTimeout, server, model, budgets
  <2>2. /\ inFlight' \in BOOLEAN /\ requested' \in BOOLEAN /\ dirty' \in BOOLEAN
        /\ query' \in Query /\ (inFlight' <=> query'.stage # "none")
    BY <2>1, RefreshShape
  <2>3. TypeOK' /\ CallShape'
    BY <1>0, <2>1, <2>2 DEF TypeOK, CallShape
  <2> QED BY <2>1, <2>2, <2>3 DEF Shape
<1>6. CASE ensureThreadsFresh
  <2>1. /\ dirty' = TRUE /\ timer' = TRUE
        /\ UNCHANGED <<created, follows, serverRead, calls, delivered, entry, marker>>
        /\ UNCHANGED <<attentionKey, gate, inFlight, requested, query>>
        /\ UNCHANGED <<issued, marks, disturbances, faults>>
    BY <1>6 DEF ensureThreadsFresh, scheduleThreadRefresh, server, model, budgets
  <2>2. TypeOK' /\ CallShape'
    BY <1>0, <2>1 DEF TypeOK, CallShape
  <2> QED BY <2>1, <2>2 DEF Shape
<1>7. ASSUME NEW failed \in BOOLEAN, queryFollowingThreads(failed)
      PROVE  Shape'
  <2>1. PICK summary \in Summary : queryTeamPage(failed, summary)
                                   /\ query.stage \in {"followed", "unread"}
    <3>1. /\ [present |-> follows /\ created > 1, replies |-> 0, lastReply |-> created] \in Summary
          /\ [present |-> TRUE, replies |-> ServerUnread, lastReply |-> created] \in Summary
          /\ query.result \in Summary
      <4>1. created \in Marks /\ created \in Posts /\ serverRead \in Marks
        BY <1>0, Numbers DEF TypeOK
      <4>2. ServerUnread \in 0 .. created
        BY <4>1, UnreadCount DEF ServerUnread
      <4>3. ServerUnread \in Marks
        BY <1>0, <4>2, Numbers DEF Marks
      <4> HIDE DEF ServerUnread
      <4> QED BY <1>0, <4>1, <4>3, Numbers DEF Summary, TypeOK, Query
    <3> QED BY <1>7, <3>1 DEF queryFollowingThreads
  <2>2. /\ disturbances' \in 0 .. MaxDisturbances /\ faults' \in 0 .. disturbances'
        /\ faults' >= faults
    BY <2>1, FaultShape DEF queryTeamPage
  <2>3. /\ UNCHANGED <<created, follows, serverRead, calls, delivered, entry, marker>>
        /\ UNCHANGED <<attentionKey, timer, inFlight, requested, dirty, gate, issued, marks>>
        /\ query' = [stage |-> IF query.stage = "followed" THEN "unread" ELSE "answered",
                     result |-> IF failed THEN query.result ELSE summary]
    BY <2>1 DEF queryTeamPage, server, model
  <2>4. query' \in Query /\ query'.stage # "none" /\ inFlight
    BY <1>0, <2>1, <2>3 DEF Query, Shape, TypeOK
  <2>5. TypeOK'
    BY <1>0, <2>2, <2>3, <2>4 DEF TypeOK
  <2>6. faults \in Nat /\ faults' \in Nat
    BY <1>0, <2>2 DEF TypeOK
  <2>7. CallShape'
    BY <1>0, <2>2, <2>3, <2>6 DEF CallShape
  <2> QED BY <2>3, <2>4, <2>5, <2>7 DEF Shape
<1>8. CASE applyThreadSnapshot
  <2>1. /\ entry' = snapshotEntry(query.result) /\ query' = NoQuery
        /\ inFlight' = FALSE /\ requested' = FALSE
        /\ UNCHANGED <<created, follows, serverRead, calls, delivered, marker, attentionKey>>
        /\ UNCHANGED <<gate, issued, marks, disturbances, faults>>
    BY <1>8 DEF applyThreadSnapshot, server, budgets
  <2>2. query.result \in Summary
    BY <1>0 DEF TypeOK, Query
  <2>3. entry' \in Entry /\ entry'.through \in {0, entry.through}
    BY <1>0, <2>1, <2>2, SnapshotType, SnapshotThrough
  <2>4. NoQuery \in Query /\ NoQuery.stage = "none"
    BY Numbers DEF NoQuery, NoSummary, Query, Summary
  <2>5. timer' \in BOOLEAN /\ dirty' \in BOOLEAN
    BY <1>0, <1>8 DEF applyThreadSnapshot, scheduleThreadRefresh, TypeOK
  <2>6. TypeOK' /\ CallShape'
    BY <1>0, <2>1, <2>3, <2>4, <2>5 DEF TypeOK, CallShape
  <2> QED BY <1>0, <2>1, <2>3, <2>4, <2>6 DEF Shape
<1>9. CASE UpdateReadCursor
  BY <1>9, CursorShape
<1>10. ASSUME NEW p \in 1 .. delivered, NEW visible \in BOOLEAN, markPostUnread(p, visible)
       PROVE  Shape'
  <2>1. /\ marks < MaxMarks /\ marks' = marks + 1 /\ issue("unread", p)
        /\ gate' = [NoGate EXCEPT !.phase = IF visible THEN "WaitForExit" ELSE "WaitForEntry",
                                  !.post = p]
        /\ UNCHANGED <<created, follows, serverRead, delivered, entry, marker, attentionKey>>
        /\ UNCHANGED <<timer, inFlight, requested, dirty, query, disturbances, faults>>
    BY <1>10 DEF markPostUnread, server, model, refresh
  <2>2. p \in Marks
    BY <1>0, Numbers DEF Marks
  <2>3. calls' \in SUBSET Call /\ issued' \in 0 .. MaxCalls /\ CallShape'
    BY <2>1, <2>2, IssueShape
  <2>4. gate' \in Gate /\ gate'.highWater = 0
    BY <2>1, <2>2, Numbers DEF NoGate, Gate
  <2>5. TypeOK'
    BY <1>0, <2>1, <2>3, <2>4, Numbers DEF TypeOK
  <2> QED BY <1>0, <2>1, <2>3, <2>4, <2>5 DEF Shape
<1>11. ASSUME NEW following \in BOOLEAN, setFollowing(following)
       PROVE  Shape'
  <2>1. /\ UNCHANGED <<created, follows, serverRead, delivered, marker, attentionKey>>
        /\ UNCHANGED <<inFlight, requested, query, gate, marks, faults>>
        /\ disturbances < MaxDisturbances /\ disturbances' = disturbances + 1
    BY <1>11 DEF setFollowing, disturb, server
  <2>2. calls' \in SUBSET Call /\ issued' \in 0 .. MaxCalls /\ CallShape'
    <3>1. CASE following
      BY <1>11, <2>1, <3>1, Numbers, IssueShape DEF setFollowing
    <3>2. CASE ~following
      BY <1>11, <2>1, <3>2, Numbers, IssueShape DEF setFollowing
    <3> QED BY <3>1, <3>2
  <2>3. entry' \in Entry /\ entry'.through \in {0, entry.through}
    <3>1. entry' = entry \/ entry' = NoEntry
      BY <1>11 DEF setFollowing
    <3>2. NoEntry \in Entry /\ NoEntry.through = 0
      BY Numbers DEF NoEntry, Entry
    <3> QED BY <1>0, <3>1, <3>2
  <2>4. timer' \in BOOLEAN /\ dirty' \in BOOLEAN
    BY <1>0, <1>11 DEF setFollowing, scheduleThreadRefresh, TypeOK
  <2>5. disturbances' \in 0 .. MaxDisturbances /\ faults' \in 0 .. disturbances'
    BY <1>0, <2>1, Numbers DEF TypeOK
  <2>6. TypeOK'
    BY <1>0, <2>1, <2>2, <2>3, <2>4, <2>5 DEF TypeOK
  <2> QED BY <1>0, <2>1, <2>2, <2>3, <2>6 DEF Shape
<1>12. ASSUME NEW c \in calls, NEW outcome \in {"served", "unanswered", "refused"},
              ServeCall(c, outcome)
       PROVE  Shape'
  BY <1>12, ServeShape
<1>13. ASSUME NEW c \in calls, readAnswered(c) \/ unreadAnswered(c) \/ followAnswered(c)
       PROVE  Shape'
  BY <1>13, AnswerShape
<1>14. CASE UNCHANGED vars
  BY <1>0, <1>14 DEF vars, server, model, refresh, budgets, Shape, TypeOK, CallShape
<1> QED BY <1>1, <1>2, <1>3, <1>4, <1>5, <1>6, <1>7, <1>8, <1>9, <1>10, <1>11, <1>12, <1>13,
           <1>14 DEF Next

\* Type correctness: a thread's entry, the read calls and the snapshots have their types.
THEOREM TypeCorrect == Spec => []TypeOK
<1>1. Shape => TypeOK
  BY DEF Shape
<1> QED BY <1>1, ShapeInit, ShapeStep, PTL DEF Spec

-------------------------------------------------------------------------------
(* The mark and the read calls.                                                *)

MarkSafe == Marked /\ ReadHeld /\ MarkShown

LEMMA MarkInit == Init => MarkSafe
BY DEF Init, MarkSafe, Marked, ReadHeld, MarkShown, NoEntry

\* What a snapshot leaves keeps a mark, and asks for no attention while a read call is
\* unconfirmed.
LEMMA SnapshotMark ==
    ASSUME Shape, MarkSafe, NEW s \in Summary
    PROVE  LET e == snapshotEntry(s) IN
           /\ e.pending => entry.pending /\ ~requiresAttention(e)
           /\ marker # 0 /\ e.present =>
                e.replies > 0 /\ e.resume = "FirstUnread" /\ e.first \in 1 .. marker
<1>1. entry \in Entry /\ marker \in Marks /\ (entry.pending => marker = 0)
      /\ (marker # 0 => attentionKey)
  BY DEF Shape, TypeOK, MarkSafe, Marked
<1> DEFINE e0 == [entry EXCEPT !.present = TRUE, !.synthetic = FALSE, !.replies = s.replies,
                               !.mention = FALSE, !.lastReply = s.lastReply]
           e1 == restoreMark(e0)
           e2 == settlePending(e1)
<1>2. e0 \in Entry /\ e0.pending = entry.pending
  BY <1>1 DEF Entry, Summary
<1>3. /\ e1 \in Entry /\ e1.pending = entry.pending /\ e1.mention = FALSE
      /\ marker # 0 => e1.replies > 0 /\ e1.resume = "FirstUnread" /\ e1.first = marker
  <2> DEFINE one == Max({1, e0.replies})
  <2>1. one \in Marks /\ one >= 1
    BY <1>2, Numbers, MaxMark DEF Entry
  <2>2. CASE ~attentionKey
    BY <1>1, <1>2, <2>2 DEF restoreMark, Summary, Entry
  <2>3. CASE attentionKey
    <3>1. e1 = [e0 EXCEPT !.replies = one,
                   !.resume = IF marker # 0 THEN "FirstUnread" ELSE @,
                   !.first = IF marker # 0 THEN marker ELSE @,
                   !.through = IF marker # 0 THEN 0 ELSE @]
      BY <2>3 DEF restoreMark
    <3>2. e0.mention = FALSE
      BY <1>1 DEF Entry
    <3> HIDE DEF e0, e1, one
    <3>3. e1 \in Entry /\ e1.pending = e0.pending /\ e1.mention = e0.mention
          /\ e1.replies = one
      BY <1>1, <1>2, <2>1, <3>1, Numbers DEF Entry
    <3>4. marker # 0 => e1.resume = "FirstUnread" /\ e1.first = marker
      BY <1>1, <1>2, <2>1, <3>1, Numbers DEF Entry
    <3>5. one > 0
      BY <2>1, Numbers
    <3> QED BY <1>2, <3>2, <3>3, <3>4, <3>5
  <2> QED BY <2>2, <2>3
<1>4. \/ s.present /\ snapshotEntry(s) = e2
      \/ snapshotEntry(s) = entry
      \/ snapshotEntry(s) = NoEntry
  BY DEF snapshotEntry
<1> HIDE DEF e0, e1
<1>5. /\ e2.pending => entry.pending /\ ~requiresAttention(e2)
      /\ ~entry.pending => e2 = e1
  BY <1>3 DEF settlePending, requiresAttention, Entry
<1>6. CASE snapshotEntry(s) = e2
  BY <1>1, <1>3, <1>5, <1>6, Numbers
<1>7. CASE snapshotEntry(s) = entry
  BY <1>7 DEF MarkSafe, ReadHeld, MarkShown
<1>8. CASE snapshotEntry(s) = NoEntry
  BY <1>8 DEF NoEntry
<1> QED BY <1>4, <1>6, <1>7, <1>8

\* The cursor: a mark that is read through goes, and only then can the thread be read to
\* its end.
LEMMA CursorMark == Shape /\ MarkSafe /\ UpdateReadCursor => MarkSafe'
<1> SUFFICES ASSUME Shape, MarkSafe, UpdateReadCursor PROVE MarkSafe'
  OBVIOUS
<1>1. PICK lo \in 1 .. delivered, hi \in 1 .. delivered :
        lo <= hi /\ updateReadCursorFromViewport(lo, hi)
  BY DEF UpdateReadCursor
<1>2. UNCHANGED delivered
  BY DEF UpdateReadCursor
<1> DEFINE p == IF gate.phase = "Idle" THEN hi ELSE Max({hi, gate.highWater})
           seen == observeReadThrough(p)
<1>3. p \in Posts /\ p <= delivered
  BY <1>1, ReadTo
<1>4. /\ entry \in Entry /\ marker \in Marks /\ marker \in Nat /\ delivered \in Nat
      /\ marker <= delivered /\ (marker # 0 => attentionKey)
      /\ (attentionKey => delivered > 0) /\ (entry.pending => delivered > 0 /\ marker = 0)
  BY Numbers DEF Shape, TypeOK, MarkSafe, Marked, Posts
<1> HIDE DEF p, seen
<1>5. \/ UNCHANGED <<entry, marker, attentionKey>>
      \/ /\ marker' = IF entry.present /\ ConsumesMarker(p) THEN 0 ELSE marker
         /\ UNCHANGED attentionKey
         /\ \/ entry' = seen
            \/ /\ p = delivered /\ entry.present
               /\ entry' = markThreadRead(seen)
  BY <1>1 DEF updateReadCursorFromViewport, model, p, seen, requiresAttention
<1>6. CASE UNCHANGED <<entry, marker, attentionKey>>
  BY <1>2, <1>6 DEF MarkSafe, Marked, ReadHeld, MarkShown, requiresAttention
<1>7. CASE /\ marker' = IF entry.present /\ ConsumesMarker(p) THEN 0 ELSE marker
           /\ UNCHANGED attentionKey
           /\ \/ entry' = seen
              \/ /\ p = delivered /\ entry.present
                 /\ entry' = markThreadRead(seen)
  <2>1. /\ marker' \in {0, marker}
        /\ marker' # 0 /\ entry.present => p < marker
    BY <1>3, <1>4, <1>7, Numbers DEF ConsumesMarker, Posts
  <2>2. /\ seen \in Entry /\ seen.present = entry.present /\ seen.pending = entry.pending
        /\ seen.replies = entry.replies /\ seen.mention = entry.mention
    <3>1. seen \in Entry
      BY <1>3, ReadThroughShape DEF seen
    <3>2. /\ seen.present = entry.present /\ seen.pending = entry.pending
          /\ seen.replies = entry.replies /\ seen.mention = entry.mention
      BY <1>4 DEF seen, observeReadThrough, Entry
    <3> QED BY <3>1, <3>2
  <2>3. marker' # 0 /\ entry.present =>
          seen.resume = "FirstUnread" /\ seen.first \in 1 .. marker
    <3> SUFFICES ASSUME marker' # 0, entry.present
                 PROVE  seen.resume = "FirstUnread" /\ seen.first \in 1 .. marker
      OBVIOUS
    <3>1. p < marker /\ p < delivered /\ p \in Nat
      BY <1>3, <1>4, <2>1, Numbers DEF Posts
    <3>2. \/ seen = entry
          \/ seen.resume = "FirstUnread" /\ seen.first = p + 1
      BY <1>4, <3>1 DEF seen, observeReadThrough, Entry
    <3>3. entry.resume = "FirstUnread" /\ entry.first \in 1 .. marker
      BY <2>1 DEF MarkSafe, MarkShown
    <3> QED BY <1>4, <3>1, <3>2, <3>3
  <2>4. CASE entry' = seen
    <3>1. ReadHeld'
      BY <2>2, <2>4 DEF MarkSafe, ReadHeld, requiresAttention
    <3>2. MarkShown'
      BY <2>1, <2>2, <2>3, <2>4 DEF MarkSafe, MarkShown
    <3>3. Marked'
      BY <1>2, <1>4, <1>7, <2>1, <2>2, <2>4 DEF Marked
    <3> QED BY <3>1, <3>2, <3>3 DEF MarkSafe
  <2>5. CASE p = delivered /\ entry.present /\ entry' = markThreadRead(seen)
    <3>1. /\ entry'.replies = 0 /\ entry'.mention = FALSE
          /\ delivered > 0 /\ delivered \in Nat
      BY <1>3, <1>4, <2>2, <2>5, Numbers DEF markThreadRead, Entry, Posts
    <3>2. marker' = 0
      BY <1>3, <1>4, <2>1, <2>5, Numbers DEF Posts
    <3>3. ReadHeld'
      <4>1. ~(entry'.replies > 0) /\ ~entry'.mention
        BY <3>1
      <4> QED BY <4>1, Zenon DEF ReadHeld, requiresAttention
    <3>4. MarkShown'
      BY <3>2 DEF MarkShown
    <3>5. Marked'
      BY <1>2, <1>4, <1>7, <3>1, <3>2 DEF Marked
    <3> QED BY <3>3, <3>4, <3>5 DEF MarkSafe
  <2> QED BY <1>7, <2>4, <2>5
<1> QED BY <1>5, <1>6, <1>7

\* Every step keeps the mark and holds the read calls.
LEMMA MarkStep == Shape /\ MarkSafe /\ [Next]_vars => MarkSafe'
<1> SUFFICES ASSUME Shape, MarkSafe, [Next]_vars PROVE MarkSafe'
  OBVIOUS
<1>0. /\ entry \in Entry /\ marker \in Nat /\ delivered \in Nat /\ delivered <= created
      /\ created \in Nat /\ CallShape /\ ReadHeld /\ MarkShown
      /\ marker <= delivered /\ (marker # 0 => attentionKey)
      /\ (attentionKey => delivered > 0) /\ (entry.pending => delivered > 0 /\ marker = 0)
  BY Numbers DEF Shape, TypeOK, MarkSafe, Marked, Posts
<1>1. CASE UNCHANGED <<delivered, entry, marker, attentionKey>>
  BY <1>1 DEF MarkSafe, Marked, ReadHeld, MarkShown, requiresAttention
<1>2. CASE \/ CreateReply \/ threadRefreshTimeout \/ ensureThreadsFresh
           \/ \E failed \in BOOLEAN : queryFollowingThreads(failed)
           \/ \E p \in 1 .. delivered, visible \in BOOLEAN : markPostUnread(p, visible)
           \/ \E c \in calls, outcome \in {"served", "unanswered", "refused"} :
                  ServeCall(c, outcome)
           \/ \E c \in calls : followAnswered(c)
           \/ UNCHANGED vars
  <2>1. UNCHANGED <<delivered, entry, marker, attentionKey>>
    BY <1>2 DEF CreateReply, threadRefreshTimeout, ensureThreadsFresh, queryFollowingThreads,
                queryTeamPage, markPostUnread, ServeCall, followAnswered, vars, model
  <2> QED BY <1>1, <2>1
<1>3. CASE Outage
  <2>1. UNCHANGED <<entry, marker, attentionKey>> /\ delivered' = created
    BY <1>3 DEF Outage, model
  <2> QED BY <1>0, <2>1 DEF MarkSafe, Marked, ReadHeld, MarkShown, requiresAttention
<1>4. ASSUME NEW mentions \in BOOLEAN, noteIncomingPost(mentions)
      PROVE  MarkSafe'
  <2> DEFINE p == delivered + 1
             e == IF p > 1 THEN noteIncomingForResume(entry, p) ELSE entry
  <2>1. /\ delivered < created /\ delivered' = p /\ (mentions => delivered = 0)
        /\ entry' = IF mentions THEN noteSyntheticMention(e, p) ELSE e
        /\ UNCHANGED <<marker, attentionKey>>
    BY <1>4 DEF noteIncomingPost
  <2>2. CASE mentions
    <3>1. ~entry.pending /\ marker = 0 /\ ~attentionKey /\ e = entry
      BY <1>0, <2>1, <2>2
    <3>2. ~entry'.pending
      BY <1>0, <2>1, <2>2, <3>1 DEF noteSyntheticMention, Entry
    <3> QED BY <1>0, <2>1, <3>1, <3>2 DEF MarkSafe, Marked, ReadHeld, MarkShown
  <2>3. CASE ~mentions
    <3>1. entry' = entry \/ entry' = noteIncomingForResume(entry, p)
      BY <2>1, <2>3
    <3>2. /\ entry'.pending = entry.pending /\ entry'.present = entry.present
          /\ entry'.replies = entry.replies /\ entry'.mention = entry.mention
          /\ entry.resume = "FirstUnread" => entry' = entry
      BY <1>0, <3>1 DEF noteIncomingForResume, Entry
    <3>3. Marked'
      BY <1>0, <2>1, <3>2 DEF Marked
    <3>4. ReadHeld'
      BY <1>0, <3>2 DEF ReadHeld, requiresAttention
    <3>5. MarkShown'
      BY <1>0, <2>1, <3>2 DEF MarkShown
    <3> QED BY <3>3, <3>4, <3>5 DEF MarkSafe
  <2> QED BY <2>2, <2>3
<1>5. CASE clearSyntheticMentions \/ \E following \in BOOLEAN : setFollowing(following)
  <2>1. UNCHANGED <<delivered, marker, attentionKey>> /\ entry' \in {entry, NoEntry}
    BY <1>5 DEF clearSyntheticMentions, setFollowing
  <2>2. CASE entry' = NoEntry
    BY <1>0, <2>1, <2>2 DEF NoEntry, MarkSafe, Marked, ReadHeld, MarkShown
  <2> QED BY <1>1, <2>1, <2>2
<1>6. CASE applyThreadSnapshot
  <2>1. query.result \in Summary
    BY DEF Shape, TypeOK, Query
  <2>2. UNCHANGED <<delivered, marker, attentionKey>> /\ entry' = snapshotEntry(query.result)
    BY <1>6 DEF applyThreadSnapshot
  <2>3. /\ entry'.pending => entry.pending /\ ~requiresAttention(entry')
        /\ marker # 0 /\ entry'.present =>
              entry'.replies > 0 /\ entry'.resume = "FirstUnread" /\ entry'.first \in 1 .. marker
    BY <2>1, <2>2, SnapshotMark
  <2>4. ReadHeld'
    BY <2>3, Zenon DEF ReadHeld, requiresAttention
  <2>5. MarkShown'
    BY <2>2, <2>3 DEF MarkShown
  <2> QED BY <1>0, <2>2, <2>3, <2>4, <2>5 DEF MarkSafe, Marked
<1>7. CASE UpdateReadCursor
  BY <1>7, CursorMark
<1>8. ASSUME NEW c \in calls, readAnswered(c)
      PROVE  MarkSafe'
  <2>1. UNCHANGED delivered
    BY <1>8 DEF readAnswered
  <2>2. CASE marker' = 0 /\ attentionKey' = FALSE /\ entry' = entry
    BY <1>0, <2>1, <2>2 DEF MarkSafe, Marked, ReadHeld, MarkShown, requiresAttention
  <2>3. CASE /\ entry' = [entry EXCEPT !.pending = FALSE, !.ackAt = 0]
             /\ UNCHANGED <<marker, attentionKey>>
    <3>1. /\ ~entry'.pending /\ entry'.present = entry.present /\ entry'.replies = entry.replies
          /\ entry'.resume = entry.resume /\ entry'.first = entry.first
      BY <1>0, <2>3 DEF Entry
    <3> QED BY <1>0, <2>1, <2>3, <3>1 DEF MarkSafe, Marked, ReadHeld, MarkShown
  <2> QED BY <1>8, <2>2, <2>3 DEF readAnswered
<1>9. ASSUME NEW c \in calls, unreadAnswered(c)
      PROVE  MarkSafe'
  <2>1. UNCHANGED delivered /\ c.kind = "unread"
    BY <1>9 DEF unreadAnswered, take
  <2>2. CASE /\ marker' = c.post /\ attentionKey' = TRUE
             /\ entry' = unreadModel(entry, c.post)
    <3>1. c.post \in 1 .. delivered
      BY <1>0, <2>1 DEF CallShape
    <3> DEFINE m == Max({1, entry.replies})
    <3>a. entry.replies \in Marks
      BY <1>0 DEF Entry
    <3>b. m \in Marks /\ m >= 1
      BY <3>a, Numbers, MaxMark
    <3>2. m \in Nat /\ m > 0
      BY <3>b, Numbers
    <3>3. /\ ~entry'.pending /\ entry'.replies = m
          /\ entry'.resume = "FirstUnread" /\ entry'.first = c.post
      BY <1>0, <2>2 DEF unreadModel, Entry
    <3> HIDE DEF m
    <3> QED BY <1>0, <2>1, <2>2, <3>1, <3>2, <3>3 DEF MarkSafe, Marked, ReadHeld, MarkShown
  <2>3. CASE UNCHANGED <<entry, marker, attentionKey>>
    BY <1>1, <2>1, <2>3
  <2> QED BY <1>9, <2>2, <2>3 DEF unreadAnswered, model
<1> QED BY <1>2, <1>3, <1>4, <1>5, <1>6, <1>7, <1>8, <1>9 DEF Next

\* While a mark set by the user has not been read through, a thread that is shown asks for
\* attention and resumes at the mark or before it (FollowingModel.cpp:508-519, 546-565).
THEOREM MarkStands == Spec => []MarkShown
<1>1. MarkSafe => MarkShown
  BY DEF MarkSafe
<1> QED BY <1>1, ShapeInit, ShapeStep, MarkInit, MarkStep, PTL DEF Spec

\* While a read call stands unconfirmed the thread asks for no attention, whatever snapshot
\* comes in (FollowingModel.cpp:521-536).
THEOREM ReadStands == Spec => []ReadHeld
<1>1. MarkSafe => ReadHeld
  BY DEF MarkSafe
<1> QED BY <1>1, ShapeInit, ShapeStep, MarkInit, MarkStep, PTL DEF Spec

-------------------------------------------------------------------------------
(* Read calls are backed.                                                      *)

LEMMA BackedInit == Init => Backed
BY DEF Init, Backed, NoEntry

\* What is needed to keep it: the entry takes up no read call, the server does not go back,
\* and no call that matters is dropped.
LEMMA BackedKept ==
    ASSUME Backed, faults' = 0 => faults = 0, serverRead' = serverRead,
           attentionKey' => attentionKey,
           entry'.pending => entry.pending /\ entry'.ackAt = entry.ackAt,
           attentionKey' /\ entry'.present =>
               \/ entry.present /\ entry'.replies = entry.replies
               \/ entry'.replies > 0
               \/ entry.pending,
           \A c \in calls : c \in calls' \/ c.kind \in {"follow", "unfollow"}
                                         \/ (c.kind = "read" /\ c.state # "sent" /\ ~attentionKey')
    PROVE  Backed'
<1> SUFFICES ASSUME faults' = 0
             PROVE  /\ entry'.pending =>
                        \/ entry'.ackAt <= serverRead'
                        \/ \E c \in calls' : c.kind = "read" /\ c.state = "sent"
                                             /\ entry'.ackAt <= c.upTo
                        \/ \E c \in calls' : c.kind = "unread" /\ c.state = "ok"
                    /\ attentionKey' /\ entry'.pending => Reading'
                    /\ attentionKey' /\ entry'.present => entry'.replies > 0 \/ Reading'
  BY DEF Backed
<1>1. /\ entry.pending =>
            \/ entry.ackAt <= serverRead
            \/ \E c \in calls : c.kind = "read" /\ c.state = "sent" /\ entry.ackAt <= c.upTo
            \/ \E c \in calls : c.kind = "unread" /\ c.state = "ok"
      /\ attentionKey /\ entry.pending => Reading
      /\ attentionKey /\ entry.present => entry.replies > 0 \/ Reading
  BY DEF Backed
<1>2. attentionKey' /\ Reading => Reading'
  BY DEF Reading
<1>3. \A c \in calls : c.kind = "read" /\ c.state = "sent" => c \in calls'
  OBVIOUS
<1>4. \A c \in calls : c.kind = "unread" => c \in calls'
  OBVIOUS
<1>5. CASE entry'.pending
  <2>1. CASE entry.ackAt <= serverRead
    BY <1>1, <1>2, <1>5, <2>1
  <2>2. CASE \E c \in calls : c.kind = "read" /\ c.state = "sent" /\ entry.ackAt <= c.upTo
    BY <1>1, <1>2, <1>3, <1>5, <2>2
  <2>3. CASE \E c \in calls : c.kind = "unread" /\ c.state = "ok"
    BY <1>1, <1>2, <1>4, <1>5, <2>3
  <2> QED BY <1>1, <1>5, <2>1, <2>2, <2>3
<1>6. CASE ~entry'.pending
  BY <1>1, <1>2, <1>6
<1> QED BY <1>5, <1>6

\* The server serves a call.
LEMMA ServeBacked ==
    ASSUME Shape, Backed, NEW c \in calls, NEW outcome \in {"served", "unanswered", "refused"},
           ServeCall(c, outcome)
    PROVE  Backed'
<1>1. UNCHANGED <<entry, attentionKey>> /\ c \in Call /\ serverRead \in Nat /\ c.upTo \in Nat
      /\ entry.ackAt \in Nat
  BY Numbers DEF ServeCall, model, Shape, TypeOK, Call, Entry
<1>2. CASE outcome # "served"
  <2>1. faults \in Nat /\ faults' = faults + 1
    BY <1>2, Numbers DEF ServeCall, fault, Shape, TypeOK
  <2> QED BY <2>1 DEF Backed
<1>3. CASE outcome = "served"
  <2>1. /\ UNCHANGED faults
        /\ serverRead' = CASE c.kind = "read" -> Max({c.upTo, serverRead})
                           [] c.kind = "unread" -> c.post - 1
                           [] OTHER -> serverRead
        /\ calls' = (calls \ {c}) \cup
             (IF c.kind = "unfollow" THEN {} ELSE {[c EXCEPT !.state = "ok"]})
        /\ c.state = "sent"
    BY <1>3 DEF ServeCall, fault
  <2> DEFINE d == [c EXCEPT !.state = "ok"]
  <2>2. d.kind = c.kind /\ d.state = "ok"
    BY <1>1 DEF Call
  <2>3. /\ c.kind # "unfollow" => d \in calls'
        /\ \A k \in calls : k # c => k \in calls'
    BY <2>1
  <2> HIDE DEF d
  <2>4. Reading => Reading'
    BY <2>2, <2>3 DEF Reading
  <2> SUFFICES ASSUME faults = 0, Backed PROVE Backed'
    BY <2>1 DEF Backed
  <2>5. CASE c.kind = "unread"
    BY <1>1, <2>2, <2>3, <2>4, <2>5 DEF Backed
  <2>6. CASE c.kind = "read"
    <3>1. serverRead' = Max({c.upTo, serverRead})
      BY <2>1, <2>6
    <3>2. serverRead' \in Nat /\ serverRead' >= serverRead /\ serverRead' >= c.upTo
      BY <1>1, <3>1, MaxPair
    <3> QED BY <1>1, <2>1, <2>3, <2>4, <2>6, <3>2 DEF Backed
  <2>7. CASE c.kind \notin {"read", "unread"}
    <3>1. serverRead' = serverRead
      BY <2>1, <2>7
    <3> QED BY <1>1, <2>1, <2>3, <2>4, <2>7, <3>1 DEF Backed
  <2> QED BY <2>5, <2>6, <2>7
<1> QED BY <1>2, <1>3

\* The cursor issues a read call with the entry's boundary.
LEMMA CursorBacked == Shape /\ Backed /\ UpdateReadCursor => Backed'
<1> SUFFICES ASSUME Shape, Backed, UpdateReadCursor PROVE Backed'
  OBVIOUS
<1>1. PICK lo \in 1 .. delivered, hi \in 1 .. delivered :
        lo <= hi /\ updateReadCursorFromViewport(lo, hi)
  BY DEF UpdateReadCursor
<1>2. UNCHANGED <<serverRead, delivered, faults>>
  BY DEF UpdateReadCursor, server
<1> DEFINE p == IF gate.phase = "Idle" THEN hi ELSE Max({hi, gate.highWater})
           seen == observeReadThrough(p)
<1>3. p \in Posts /\ p <= delivered
  BY <1>1, ReadTo
<1>4. entry \in Entry /\ delivered \in Nat /\ created \in Nat /\ delivered <= created
      /\ p \in Nat /\ p > 0
  BY <1>3, Numbers DEF Shape, TypeOK, Posts
<1>5. seen \in Entry /\ seen.through <= delivered /\ seen.through \in Nat
  BY <1>3, ReadThroughShape, Numbers DEF Entry
<1>6. /\ seen.present = entry.present /\ seen.pending = entry.pending
      /\ seen.replies = entry.replies /\ seen.ackAt = entry.ackAt
  BY <1>4 DEF observeReadThrough, Entry
<1>7. entry.present => seen.through # 0
  BY <1>4 DEF observeReadThrough, Entry
<1> HIDE DEF p, seen
<1>8. \/ entry' = entry /\ UNCHANGED <<calls, attentionKey>>
      \/ entry' = seen /\ UNCHANGED <<calls, attentionKey>>
      \/ entry.present /\ entry' = markThreadRead(seen) /\ issue("read", p)
  BY <1>1 DEF updateReadCursorFromViewport, model, p, seen, requiresAttention
<1>9. CASE entry' \in {entry, seen} /\ UNCHANGED <<calls, attentionKey>>
  <2>1. /\ entry'.pending = entry.pending /\ entry'.ackAt = entry.ackAt
        /\ entry'.present = entry.present /\ entry'.replies = entry.replies
    BY <1>6, <1>9
  <2> QED BY <1>2, <1>9, <2>1, BackedKept
<1>10. CASE entry.present /\ entry' = markThreadRead(seen) /\ issue("read", p)
  <2>1. entry'.ackAt = seen.through
    BY <1>5, <1>7, <1>10 DEF markThreadRead, Entry
  <2> DEFINE c == [id |-> issued + 1, kind |-> "read", post |-> p, upTo |-> created,
                   state |-> "sent"]
  <2>2. c \in calls' /\ c.kind = "read" /\ c.state = "sent" /\ c.upTo = created
    BY <1>10 DEF issue
  <2> HIDE DEF c
  <2>3. entry'.ackAt <= c.upTo
    BY <1>4, <1>5, <2>1, <2>2
  <2>4. Reading'
    BY <2>2 DEF Reading
  <2> QED BY <2>2, <2>3, <2>4 DEF Backed
<1> QED BY <1>8, <1>9, <1>10

\* What a snapshot leaves, by what it says and by what the entry waits for.
LEMMA SnapshotFields ==
    ASSUME Shape, NEW s \in Summary
    PROVE  LET e == snapshotEntry(s) IN
           \/ /\ s.present /\ e.present /\ ~e.synthetic /\ ~e.mention
              /\ \E n \in Nat :
                    /\ IF attentionKey THEN n > 0 ELSE n = s.replies
                    /\ \/ ~e.pending /\ e.replies = n
                       \/ /\ entry.pending /\ e.pending /\ e.ackAt = entry.ackAt
                          /\ e.replies = 0 /\ s.lastReply <= entry.ackAt
           \/ ~s.present /\ e = entry /\ (attentionKey \/ entry.synthetic)
           \/ ~s.present /\ e = NoEntry
<1>1. entry \in Entry /\ marker \in Marks
  BY DEF Shape, TypeOK
<1> DEFINE e0 == [entry EXCEPT !.present = TRUE, !.synthetic = FALSE, !.replies = s.replies,
                               !.mention = FALSE, !.lastReply = s.lastReply]
           e1 == restoreMark(e0)
           e2 == settlePending(e1)
           n == IF attentionKey THEN Max({1, s.replies}) ELSE s.replies
<1>2. /\ e0 \in Entry /\ e0.present = TRUE /\ e0.synthetic = FALSE /\ e0.mention = FALSE
      /\ e0.replies = s.replies /\ e0.lastReply = s.lastReply
      /\ e0.pending = entry.pending /\ e0.ackAt = entry.ackAt
  BY <1>1 DEF Entry, Summary
<1>3. n \in Marks /\ n \in Nat /\ (IF attentionKey THEN n > 0 ELSE n = s.replies)
  <2>1. s.replies \in Marks
    BY DEF Summary
  <2>2. Max({1, s.replies}) \in Marks /\ Max({1, s.replies}) >= 1
    BY <2>1, Numbers, MaxMark
  <2> QED BY <2>1, <2>2, Numbers
<1> HIDE DEF e0
<1>4. /\ e1 \in Entry /\ e1.present = TRUE /\ e1.synthetic = FALSE /\ e1.mention = FALSE
      /\ e1.replies = n /\ e1.lastReply = s.lastReply
      /\ e1.pending = entry.pending /\ e1.ackAt = entry.ackAt
  <2>1. CASE ~attentionKey
    BY <1>2, <2>1 DEF restoreMark
  <2>2. CASE attentionKey
    <3>1. e1 = [e0 EXCEPT !.replies = n,
                   !.resume = IF marker # 0 THEN "FirstUnread" ELSE @,
                   !.first = IF marker # 0 THEN marker ELSE @,
                   !.through = IF marker # 0 THEN 0 ELSE @]
      BY <1>2, <2>2 DEF restoreMark
    <3> HIDE DEF e1, n
    <3> QED BY <1>1, <1>2, <1>3, <3>1, Numbers DEF Entry
  <2> QED BY <2>1, <2>2
<1> HIDE DEF e1, n
<1>5. /\ e2.present = TRUE /\ e2.synthetic = FALSE /\ e2.mention = FALSE
      /\ \/ ~e2.pending /\ e2.replies = n
         \/ /\ entry.pending /\ e2.pending /\ e2.ackAt = entry.ackAt
            /\ e2.replies = 0 /\ s.lastReply <= entry.ackAt
  BY <1>4 DEF settlePending, Entry
<1> HIDE DEF e2
<1>6. \/ s.present /\ snapshotEntry(s) = e2
      \/ ~s.present /\ snapshotEntry(s) = entry /\ (attentionKey \/ entry.synthetic)
      \/ ~s.present /\ snapshotEntry(s) = NoEntry
  BY DEF snapshotEntry, e0, e1, e2
<1>7. CASE s.present /\ snapshotEntry(s) = e2
  BY <1>3, <1>5, <1>7
<1> QED BY <1>6, <1>7

\* Every step keeps the read calls backed.
LEMMA BackedStep == Shape /\ MarkSafe /\ Backed /\ [Next]_vars => Backed'
<1> SUFFICES ASSUME Shape, MarkSafe, Backed, [Next]_vars PROVE Backed'
  OBVIOUS
<1>0. /\ entry \in Entry /\ delivered \in Nat /\ faults \in Nat /\ CallShape
      /\ (attentionKey => delivered > 0) /\ (entry.pending => delivered > 0)
  BY Numbers DEF Shape, TypeOK, MarkSafe, Marked, Posts
<1>1. CASE \/ CreateReply \/ Outage \/ threadRefreshTimeout \/ ensureThreadsFresh
           \/ \E failed \in BOOLEAN : queryFollowingThreads(failed)
           \/ \E p \in 1 .. delivered, visible \in BOOLEAN : markPostUnread(p, visible)
           \/ \E c \in calls : followAnswered(c)
           \/ UNCHANGED vars
  <2>1. UNCHANGED <<serverRead, entry, attentionKey>>
    BY <1>1 DEF CreateReply, Outage, threadRefreshTimeout, ensureThreadsFresh,
                queryFollowingThreads, queryTeamPage, markPostUnread, followAnswered, vars,
                server, model
  <2>2. faults' \in {faults, faults + 1}
    BY <1>1 DEF CreateReply, Outage, threadRefreshTimeout, ensureThreadsFresh,
                queryFollowingThreads, queryTeamPage, fault, markPostUnread, followAnswered,
                vars, budgets
  <2>3. \A c \in calls : c \in calls' \/ c.kind = "follow"
    BY <1>1 DEF CreateReply, Outage, threadRefreshTimeout, ensureThreadsFresh,
                queryFollowingThreads, queryTeamPage, markPostUnread, issue, followAnswered,
                take, vars
  <2>4. faults' = 0 => faults = 0
    BY <1>0, <2>2
  <2> QED BY <2>1, <2>3, <2>4, BackedKept
<1>2. ASSUME NEW mentions \in BOOLEAN, noteIncomingPost(mentions)
      PROVE  Backed'
  <2> DEFINE p == delivered + 1
             e == IF p > 1 THEN noteIncomingForResume(entry, p) ELSE entry
  <2>1. /\ mentions => delivered = 0
        /\ entry' = IF mentions THEN noteSyntheticMention(e, p) ELSE e
        /\ UNCHANGED <<serverRead, calls, attentionKey, faults>>
    BY <1>2 DEF noteIncomingPost, server
  <2>2. CASE mentions
    <3>1. ~entry.pending /\ ~attentionKey /\ e = entry
      BY <1>0, <2>1, <2>2
    <3>2. ~entry'.pending
      BY <1>0, <2>1, <2>2, <3>1 DEF noteSyntheticMention, Entry
    <3> QED BY <2>1, <3>1, <3>2 DEF Backed
  <2>3. CASE ~mentions
    <3>1. entry' = entry \/ entry' = noteIncomingForResume(entry, p)
      BY <2>1, <2>3
    <3>2. /\ entry'.pending = entry.pending /\ entry'.ackAt = entry.ackAt
          /\ entry'.present = entry.present /\ entry'.replies = entry.replies
      BY <1>0, <3>1 DEF noteIncomingForResume, Entry
    <3> QED BY <2>1, <3>2, BackedKept
  <2> QED BY <2>2, <2>3
<1>3. CASE clearSyntheticMentions \/ \E following \in BOOLEAN : setFollowing(following)
  <2>1. UNCHANGED <<serverRead, attentionKey, faults>> /\ entry' \in {entry, NoEntry}
        /\ \A c \in calls : c \in calls'
    BY <1>3 DEF clearSyntheticMentions, setFollowing, issue, server, budgets
  <2>2. ~NoEntry.pending /\ ~NoEntry.present
    BY DEF NoEntry
  <2> QED BY <2>1, <2>2, BackedKept
<1>4. CASE applyThreadSnapshot
  <2>1. query.result \in Summary
    BY DEF Shape, TypeOK, Query
  <2>2. UNCHANGED <<serverRead, calls, attentionKey, faults>>
        /\ entry' = snapshotEntry(query.result)
    BY <1>4 DEF applyThreadSnapshot, server, budgets
  <2>3. ~NoEntry.pending /\ ~NoEntry.present
    BY DEF NoEntry
  <2>4. /\ entry'.pending => entry.pending /\ entry'.ackAt = entry.ackAt
        /\ attentionKey /\ entry'.present =>
               \/ entry.present /\ entry'.replies = entry.replies
               \/ entry'.replies > 0
               \/ entry.pending
    BY <2>1, <2>2, <2>3, SnapshotFields
  <2> QED BY <2>2, <2>4, BackedKept
<1>5. CASE UpdateReadCursor
  BY <1>5, CursorBacked
<1>6. ASSUME NEW c \in calls, NEW outcome \in {"served", "unanswered", "refused"},
             ServeCall(c, outcome)
      PROVE  Backed'
  BY <1>6, ServeBacked
<1>7. ASSUME NEW c \in calls, readAnswered(c)
      PROVE  Backed'
  <2>1. /\ UNCHANGED <<serverRead, faults>> /\ c.kind = "read" /\ c.state # "sent"
        /\ calls' = calls \ {c}
    BY <1>7 DEF readAnswered, take, server, budgets
  <2>2. CASE c.state = "ok"
    <3>1. attentionKey' = FALSE /\ entry' = entry
      BY <1>7, <2>2 DEF readAnswered
    <3> QED BY <2>1, <3>1, BackedKept
  <2>3. CASE c.state # "ok"
    <3>1. c.state = "failed"
      BY <2>1, <2>3 DEF Shape, TypeOK, Call
    <3> QED BY <1>0, <2>1, <3>1 DEF CallShape, Backed
  <2> QED BY <2>2, <2>3
<1>8. ASSUME NEW c \in calls, unreadAnswered(c)
      PROVE  Backed'
  <2>1. UNCHANGED faults /\ c.kind = "unread" /\ c.state # "sent"
    BY <1>8 DEF unreadAnswered, take, budgets
  <2>2. CASE c.state = "ok"
    <3>1. entry' = unreadModel(entry, c.post)
      BY <1>8, <2>2 DEF unreadAnswered
    <3> DEFINE m == Max({1, entry.replies})
    <3>a. entry.replies \in Marks
      BY <1>0 DEF Entry
    <3>b. m \in Marks /\ m >= 1
      BY <3>a, Numbers, MaxMark
    <3>2. m \in Nat /\ m > 0
      BY <3>b, Numbers
    <3>3. ~entry'.pending /\ entry'.replies = m
      BY <1>0, <3>1 DEF unreadModel, Entry
    <3> HIDE DEF m
    <3> QED BY <3>2, <3>3 DEF Backed
  <2>3. CASE c.state # "ok"
    <3>1. c.state = "failed"
      BY <2>1, <2>3 DEF Shape, TypeOK, Call
    <3> QED BY <1>0, <2>1, <3>1 DEF CallShape, Backed
  <2> QED BY <2>2, <2>3
<1> QED BY <1>1, <1>2, <1>3, <1>4, <1>5, <1>6, <1>7, <1>8 DEF Next

-------------------------------------------------------------------------------
(* At rest the entry agrees with the server.                                   *)

LEMMA CurrentInit == Init => Current
BY DEF Init, Current, Listed, QueryCurrent, EntryCurrent, Calm, NoEntry, NoQuery, NoSummary

\* The server has unread replies when the last one was not read.
LEMMA ServerUnreadCount ==
    ASSUME Shape
    PROVE  /\ ServerUnread \in Marks /\ ServerUnread \in Nat
           /\ ServerUnread > 0 <=> created > 1 /\ created > serverRead
<1>1. created \in Posts /\ serverRead \in Marks /\ created \in Nat /\ created <= MaxPosts
  BY Numbers DEF Shape, TypeOK, Posts
<1>2. ServerUnread \in 0 .. created /\ (ServerUnread > 0 <=> created > 1 /\ created > serverRead)
  BY <1>1, UnreadCount DEF ServerUnread
<1> HIDE DEF ServerUnread
<1>3. ServerUnread \in Marks
  BY <1>1, <1>2, Numbers DEF Marks
<1> QED BY <1>2, <1>3, Numbers

\* Between two calm moments nothing that calm rests on was given up.
LEMMA CalmBefore ==
    ASSUME Calm', UNCHANGED <<follows, faults, delivered, created, timer>>,
           \A c \in calls : c \in calls'
    PROVE  Calm /\ (Reading => Reading')
BY DEF Calm, Reading

\* A thread is listed or announced before it is shown.
LEMMA ListedStep == Shape /\ Listed /\ [Next]_vars => Listed'
<1> SUFFICES ASSUME Shape, Listed, [Next]_vars PROVE Listed'
  OBVIOUS
<1>0. /\ entry \in Entry /\ delivered \in Nat /\ created \in Nat /\ created > 0 /\ CallShape
      /\ delivered <= created /\ query \in Query
  BY Numbers DEF Shape, TypeOK, Posts
<1>1. CASE UNCHANGED <<query, created, delivered>> /\ (entry'.present => entry.present)
  BY <1>1 DEF Listed
<1>2. CASE CreateReply \/ Outage
  <2>1. UNCHANGED <<query, entry>> /\ created' >= created /\ created' \in Nat
        /\ delivered' >= delivered /\ delivered' \in Nat
    BY <1>0, <1>2 DEF CreateReply, Outage, model, refresh, server
  <2> QED BY <1>0, <2>1 DEF Listed
<1>3. CASE \E mentions \in BOOLEAN : noteIncomingPost(mentions)
  <2>1. UNCHANGED <<query, created>> /\ delivered' = delivered + 1
    BY <1>3 DEF noteIncomingPost, server
  <2> QED BY <1>0, <2>1 DEF Listed
<1>4. CASE \/ ensureThreadsFresh \/ UNCHANGED vars
           \/ \E p \in 1 .. delivered, visible \in BOOLEAN : markPostUnread(p, visible)
           \/ \E c \in calls, outcome \in {"served", "unanswered", "refused"} :
                  ServeCall(c, outcome)
           \/ \E c \in calls : followAnswered(c)
  <2>1. UNCHANGED <<query, created, delivered, entry>>
    BY <1>4 DEF ensureThreadsFresh, vars, markPostUnread, ServeCall, followAnswered, model,
                server, refresh
  <2> QED BY <1>1, <2>1
<1>5. CASE clearSyntheticMentions \/ \E following \in BOOLEAN : setFollowing(following)
  <2>1. UNCHANGED <<query, created, delivered>> /\ entry' \in {entry, NoEntry}
    BY <1>5 DEF clearSyntheticMentions, setFollowing, server, refresh
  <2> QED BY <1>1, <2>1 DEF NoEntry
<1>6. CASE threadRefreshTimeout
  <2>1. UNCHANGED <<created, delivered, entry>> /\ query'.result \in {query.result, NoSummary}
    BY <1>6 DEF threadRefreshTimeout, refreshThreads, server, model
  <2> QED BY <2>1 DEF Listed, NoSummary
<1>7. ASSUME NEW failed \in BOOLEAN, queryFollowingThreads(failed)
      PROVE  Listed'
  <2>1. UNCHANGED <<created, delivered, entry>>
    BY <1>7 DEF queryFollowingThreads, queryTeamPage, server, model
  <2>2. query'.result.present => query.result.present \/ created > 1
    <3>1. ServerUnread > 0 => created > 1
      BY ServerUnreadCount
    <3> QED BY <1>7, <3>1 DEF queryFollowingThreads, queryTeamPage
  <2> QED BY <2>1, <2>2 DEF Listed
<1>8. CASE applyThreadSnapshot
  <2>1. query.result \in Summary
    BY <1>0 DEF Query
  <2>2. UNCHANGED <<created, delivered>> /\ query' = NoQuery
        /\ entry' = snapshotEntry(query.result)
    BY <1>8 DEF applyThreadSnapshot, server
  <2>3. entry'.present => query.result.present \/ entry.present
    BY <2>1, <2>2, SnapshotFields DEF NoEntry
  <2> QED BY <2>2, <2>3 DEF Listed, NoQuery, NoSummary
<1>9. CASE UpdateReadCursor
  <2>1. PICK lo \in 1 .. delivered, hi \in 1 .. delivered : lo <= hi
    BY <1>9 DEF UpdateReadCursor
  <2>2. UNCHANGED <<query, created, delivered>>
    BY <1>9 DEF UpdateReadCursor, server, refresh
  <2> QED BY <1>0, <2>1, <2>2 DEF Listed
<1>10. ASSUME NEW c \in calls, readAnswered(c)
       PROVE  Listed'
  <2>1. UNCHANGED <<query, created, delivered>>
        /\ entry' \in {entry, [entry EXCEPT !.pending = FALSE, !.ackAt = 0]}
    BY <1>10 DEF readAnswered, server
  <2>2. entry'.present = entry.present
    BY <1>0, <2>1 DEF Entry
  <2> QED BY <1>1, <2>1, <2>2
<1>11. ASSUME NEW c \in calls, unreadAnswered(c)
       PROVE  Listed'
  <2>1. UNCHANGED <<created, delivered>> /\ query'.result \in {query.result, NoSummary}
    BY <1>11 DEF unreadAnswered, refreshThreads, server
  <2>2. c.post \in 1 .. delivered
    BY <1>0, <1>11 DEF CallShape, unreadAnswered, take
  <2> QED BY <1>0, <2>1, <2>2 DEF Listed, NoSummary
<1> QED BY <1>2, <1>3, <1>4, <1>5, <1>6, <1>7, <1>8, <1>9, <1>10, <1>11 DEF Next

\* The steps after which it is not calm, and those that keep what calm rests on.
LEMMA CalmSteps ==
    ASSUME Shape, Next, Calm'
    PROVE  \/ noteIncomingPost(FALSE) /\ delivered = 0 /\ created = 1 /\ entry' = entry
           \/ /\ Calm /\ (Reading => Reading')
              /\ UNCHANGED <<follows, faults, created, delivered, serverRead, timer>>
              /\ \/ clearSyntheticMentions \/ queryFollowingThreads(FALSE)
                 \/ applyThreadSnapshot \/ UpdateReadCursor
                 \/ UNCHANGED <<entry, attentionKey, inFlight, requested, dirty, query>>
           \/ threadRefreshTimeout
           \/ \E c \in calls : unreadAnswered(c) /\ refreshThreads
<1>0. /\ delivered \in Nat /\ created \in Nat /\ delivered <= created /\ faults \in Nat
      /\ CallShape /\ calls \in SUBSET Call
  BY Numbers DEF Shape, TypeOK, Posts
<1>1. CASE CreateReply
  <2>1. created' = created + 1 /\ delivered' = delivered
    BY <1>1 DEF CreateReply
  <2> QED BY <1>0, <2>1 DEF Calm
<1>2. CASE Outage \/ ensureThreadsFresh \/ \E c \in calls : readAnswered(c)
  <2>1. timer' = TRUE
    BY <1>2 DEF Outage, ensureThreadsFresh, readAnswered, scheduleThreadRefresh
  <2> QED BY <2>1 DEF Calm
<1>3. ASSUME NEW mentions \in BOOLEAN, noteIncomingPost(mentions)
      PROVE  noteIncomingPost(FALSE) /\ delivered = 0 /\ created = 1 /\ entry' = entry
  <2>1. /\ delivered' = delivered + 1 /\ created' = created
        /\ delivered + 1 > 1 \/ mentions => timer' = TRUE
    BY <1>3 DEF noteIncomingPost, scheduleThreadRefresh, server
  <2>2. ~mentions /\ ~(delivered + 1 > 1) /\ delivered + 1 = created
    BY <2>1 DEF Calm
  <2>3. noteIncomingPost(FALSE) /\ delivered = 0 /\ created = 1
    <3>1. mentions = FALSE
      BY <2>2
    <3>2. noteIncomingPost(FALSE)
      BY <1>3, <3>1, Zenon
    <3>3. delivered = 0 /\ created = 1
      BY <1>0, <2>2
    <3> QED BY <3>2, <3>3, Zenon
  <2>4. entry' = entry
    BY <2>3 DEF noteIncomingPost
  <2> QED BY <2>3, <2>4
<1>4. CASE clearSyntheticMentions
  <2>1. UNCHANGED <<follows, faults, created, delivered, serverRead, timer, calls>>
    BY <1>4 DEF clearSyntheticMentions, server, refresh, budgets
  <2> QED BY <1>4, <2>1, CalmBefore
<1>5. ASSUME NEW failed \in BOOLEAN, queryFollowingThreads(failed)
      PROVE  /\ Calm /\ (Reading => Reading') /\ queryFollowingThreads(FALSE)
             /\ UNCHANGED <<follows, faults, created, delivered, serverRead, timer>>
  <2>1. UNCHANGED <<follows, created, delivered, serverRead, timer, calls>> /\ fault(failed)
    BY <1>5 DEF queryFollowingThreads, queryTeamPage, server
  <2>2. failed = FALSE /\ UNCHANGED faults
    BY <1>0, <2>1 DEF fault, Calm
  <2> QED BY <1>5, <2>1, <2>2, CalmBefore
<1>6. CASE applyThreadSnapshot
  <2>1. UNCHANGED <<follows, faults, created, delivered, serverRead, calls>>
        /\ (timer' = timer \/ timer' = TRUE)
    BY <1>6 DEF applyThreadSnapshot, scheduleThreadRefresh, server, budgets
  <2>2. UNCHANGED timer
    BY <2>1 DEF Calm
  <2> QED BY <1>6, <2>1, <2>2, CalmBefore
<1>7. CASE UpdateReadCursor
  <2>1. UNCHANGED <<follows, faults, created, delivered, serverRead, timer>>
        /\ \A c \in calls : c \in calls'
    BY <1>7 DEF UpdateReadCursor, updateReadCursorFromViewport, issue, server, refresh
  <2> QED BY <1>7, <2>1, CalmBefore
<1>8. CASE \E p \in 1 .. delivered, visible \in BOOLEAN : markPostUnread(p, visible)
  <2>1. /\ UNCHANGED <<follows, faults, created, delivered, serverRead, timer>>
        /\ UNCHANGED <<entry, attentionKey, inFlight, requested, dirty, query>>
        /\ \A c \in calls : c \in calls'
    BY <1>8 DEF markPostUnread, issue, server, refresh, model
  <2> QED BY <2>1, CalmBefore
<1>9. ASSUME NEW following \in BOOLEAN, setFollowing(following)
      PROVE  /\ Calm /\ (Reading => Reading')
             /\ UNCHANGED <<follows, faults, created, delivered, serverRead, timer>>
             /\ UNCHANGED <<entry, attentionKey, inFlight, requested, dirty, query>>
  <2>1. following
    BY <1>9 DEF setFollowing, scheduleThreadRefresh, Calm
  <2>2. /\ UNCHANGED <<follows, faults, created, delivered, serverRead, timer>>
        /\ UNCHANGED <<entry, attentionKey, inFlight, requested, dirty, query>>
        /\ \A c \in calls : c \in calls'
    BY <1>9, <2>1 DEF setFollowing, issue, server, model, refresh
  <2> QED BY <2>2, CalmBefore
<1>10. ASSUME NEW c \in calls, NEW outcome \in {"served", "unanswered", "refused"},
              ServeCall(c, outcome)
       PROVE  FALSE
  <2>1. CASE outcome # "served"
    BY <1>0, <1>10, <2>1 DEF ServeCall, fault, Calm
  <2>2. CASE outcome = "served" /\ c.kind = "unfollow"
    BY <1>10, <2>2 DEF ServeCall, Calm
  <2>3. CASE outcome = "served" /\ c.kind # "unfollow"
    <3>1. [c EXCEPT !.state = "ok"] \in calls'
      BY <1>10, <2>3 DEF ServeCall
    <3>2. [c EXCEPT !.state = "ok"].state = "ok"
      BY <1>0 DEF Call
    <3> QED BY <3>1, <3>2 DEF Calm
  <2> QED BY <2>1, <2>2, <2>3
<1>11. ASSUME NEW c \in calls, unreadAnswered(c)
       PROVE  unreadAnswered(c) /\ refreshThreads
  <2>1. c.state # "ok" => c.state = "failed"
    BY <1>0, <1>11 DEF unreadAnswered, take, Call
  <2>2. c.state = "failed" => faults > 0 /\ faults' = faults
    BY <1>0, <1>11 DEF CallShape, unreadAnswered, budgets
  <2> QED BY <1>0, <1>11, <2>1, <2>2 DEF unreadAnswered, Calm
<1>12. ASSUME NEW c \in calls, followAnswered(c)
       PROVE  FALSE
  <2>1. c.state # "ok" => c.state = "failed"
    BY <1>0, <1>12 DEF followAnswered, take, Call
  <2>2. c.state = "failed" => faults > 0 /\ faults' = faults
    BY <1>0, <1>12 DEF CallShape, followAnswered, budgets
  <2>3. c.state = "ok" => timer' = TRUE
    BY <1>12 DEF followAnswered, scheduleThreadRefresh
  <2> QED BY <1>0, <2>1, <2>2, <2>3 DEF Calm
<1> QED BY <1>1, <1>2, <1>3, <1>4, <1>5, <1>6, <1>7, <1>8, <1>9, <1>10, <1>11, <1>12 DEF Next

\* Pages that are read in calm moments say what the server says.
LEMMA QueryStep == Shape /\ Listed /\ QueryCurrent /\ [Next]_vars => QueryCurrent'
<1> SUFFICES ASSUME Shape, Listed, QueryCurrent, [Next]_vars,
                    Calm', inFlight', ~requested', ~dirty', query'.stage \in {"unread", "answered"}
             PROVE  /\ query'.result.present <=> created' > 1
                    /\ created' > 1 =>
                        /\ query'.result.lastReply = created'
                        /\ query'.result.replies =
                             IF query'.stage = "unread" THEN 0 ELSE ServerUnread'
  BY DEF QueryCurrent
<1>0. query \in Query /\ created \in Nat
  BY Numbers DEF Shape, TypeOK, Posts
<1>1. CASE UNCHANGED vars
  BY <1>1 DEF vars, QueryCurrent, Calm, ServerUnread
<1>2. CASE noteIncomingPost(FALSE) /\ delivered = 0 /\ created = 1
  <2>1. UNCHANGED <<query, created>>
    BY <1>2 DEF noteIncomingPost, server
  <2> QED BY <1>2, <2>1 DEF Listed
<1>3. CASE threadRefreshTimeout \/ (\E c \in calls : unreadAnswered(c) /\ refreshThreads)
  <2>1. refreshThreads
    BY <1>3 DEF threadRefreshTimeout
  <2>2. CASE inFlight
    BY <2>1, <2>2, Zenon DEF refreshThreads
  <2>3. CASE ~inFlight
    <3>1. query' = [stage |-> "followed", result |-> NoSummary]
      BY <2>1, <2>3, Zenon DEF refreshThreads
    <3> QED BY <3>1
  <2> QED BY <2>2, <2>3
<1>4. CASE /\ Calm /\ UNCHANGED <<created, serverRead>>
           /\ \/ clearSyntheticMentions \/ UpdateReadCursor
              \/ UNCHANGED <<entry, attentionKey, inFlight, requested, dirty, query>>
  <2>1. UNCHANGED <<inFlight, requested, dirty, query>>
    BY <1>4 DEF clearSyntheticMentions, UpdateReadCursor, refresh
  <2>2. ServerUnread' = ServerUnread
    BY <1>4 DEF ServerUnread
  <2> HIDE DEF ServerUnread
  <2> QED BY <1>4, <2>1, <2>2 DEF QueryCurrent
<1>5. CASE Calm /\ UNCHANGED <<created, serverRead>> /\ applyThreadSnapshot
  BY <1>5 DEF applyThreadSnapshot
<1>6. CASE Calm /\ UNCHANGED <<created, serverRead>> /\ queryFollowingThreads(FALSE)
  <2>1. ServerUnread' = ServerUnread /\ ServerUnread \in Nat
        /\ (ServerUnread > 0 => created > 1) /\ follows
    BY <1>6, ServerUnreadCount DEF ServerUnread, Calm
  <2> HIDE DEF ServerUnread
  <2>2. CASE query.stage = "followed"
    <3>1. /\ query'.stage = "unread"
          /\ query'.result = [present |-> follows /\ created > 1, replies |-> 0,
                              lastReply |-> created]
      BY <1>6, <2>2 DEF queryFollowingThreads, queryTeamPage
    <3> DEFINE b == follows /\ created > 1
    <3>2. b <=> created > 1
      BY <2>1, Zenon
    <3> HIDE DEF b
    <3>3. query'.result = [present |-> b, replies |-> 0, lastReply |-> created]
      BY <3>1, Zenon DEF b
    <3>4. query'.result.present = b /\ query'.result.replies = 0
          /\ query'.result.lastReply = created
      BY <3>3
    <3>5. query'.result.present <=> created > 1
      BY <3>2, <3>4, Zenon
    <3> QED BY <1>6, <3>1, <3>4, <3>5
  <2>3. CASE query.stage = "unread"
    <3>1. /\ query'.stage = "answered"
          /\ query'.result = IF follows /\ ServerUnread > 0
                                THEN [present |-> TRUE, replies |-> ServerUnread,
                                      lastReply |-> created]
                                ELSE query.result
          /\ UNCHANGED <<inFlight, requested, dirty>>
      <4> DEFINE s == IF follows /\ ServerUnread > 0
                      THEN [present |-> TRUE, replies |-> ServerUnread, lastReply |-> created]
                      ELSE query.result
      <4>1. queryTeamPage(FALSE, s)
        BY <1>6, <2>3 DEF queryFollowingThreads
      <4> HIDE DEF s
      <4>2. /\ query' = [stage |-> IF query.stage = "followed" THEN "unread" ELSE "answered",
                         result |-> IF FALSE THEN query.result ELSE s]
            /\ UNCHANGED <<inFlight, requested, dirty>>
        BY <4>1, Zenon DEF queryTeamPage
      <4>3. query'.stage = "answered" /\ query'.result = s
        BY <2>3, <4>2
      <4> QED BY <4>2, <4>3, Zenon DEF s
    <3>2. /\ query.result.present <=> created > 1
          /\ created > 1 => query.result.lastReply = created /\ query.result.replies = 0
      BY <1>6, <2>3, <3>1 DEF QueryCurrent
    <3>3. CASE ServerUnread > 0
      BY <1>6, <2>1, <3>1, <3>3
    <3>4. CASE ~(ServerUnread > 0)
      BY <1>6, <2>1, <3>1, <3>2, <3>4
    <3> QED BY <3>3, <3>4
  <2> QED BY <1>6, <2>2, <2>3 DEF queryFollowingThreads
<1>7. CASE Next
  <2>1. \/ noteIncomingPost(FALSE) /\ delivered = 0 /\ created = 1 /\ entry' = entry
        \/ /\ Calm /\ (Reading => Reading')
           /\ UNCHANGED <<follows, faults, created, delivered, serverRead, timer>>
           /\ \/ clearSyntheticMentions \/ queryFollowingThreads(FALSE)
              \/ applyThreadSnapshot \/ UpdateReadCursor
              \/ UNCHANGED <<entry, attentionKey, inFlight, requested, dirty, query>>
        \/ threadRefreshTimeout
        \/ \E c \in calls : unreadAnswered(c) /\ refreshThreads
    BY <1>7, CalmSteps
  <2> QED BY <2>1, <1>2, <1>3, <1>4, <1>5, <1>6
<1> QED BY <1>1, <1>7

\* A snapshot that is current leaves an entry that is.
LEMMA SnapshotCurrent ==
    ASSUME Shape, Backed, Calm, NEW s \in Summary, s.present <=> created > 1,
           created > 1 => s.lastReply = created /\ s.replies = ServerUnread
    PROVE  LET e == snapshotEntry(s) IN
           /\ created > 1 => e.present /\ ~e.synthetic
           /\ ~Reading /\ ~e.synthetic =>
                (requiresAttention(e) <=> ServerUnread > 0 \/ (attentionKey /\ e.present))
<1>5. PICK e : e = snapshotEntry(s)
  OBVIOUS
<1> SUFFICES /\ created > 1 => e.present /\ ~e.synthetic
             /\ ~Reading /\ ~e.synthetic =>
                  (requiresAttention(e) <=> ServerUnread > 0 \/ (attentionKey /\ e.present))
  BY <1>5
<1>0. /\ entry \in Entry /\ created \in Nat /\ serverRead \in Nat /\ entry.ackAt \in Nat
      /\ ServerUnread \in Nat /\ (ServerUnread > 0 <=> created > 1 /\ created > serverRead)
  BY ServerUnreadCount, Numbers DEF Shape, TypeOK, Posts, Entry
<1> HIDE DEF ServerUnread
<1>1. CASE /\ s.present /\ e.present /\ ~e.synthetic /\ ~e.mention
           /\ \E n \in Nat :
                 /\ IF attentionKey THEN n > 0 ELSE n = s.replies
                 /\ \/ ~e.pending /\ e.replies = n
                    \/ /\ entry.pending /\ e.pending /\ e.ackAt = entry.ackAt
                       /\ e.replies = 0 /\ s.lastReply <= entry.ackAt
  <2>1. PICK n \in Nat :
          /\ IF attentionKey THEN n > 0 ELSE n = s.replies
          /\ \/ ~e.pending /\ e.replies = n
             \/ /\ entry.pending /\ e.pending /\ e.ackAt = entry.ackAt
                /\ e.replies = 0 /\ s.lastReply <= entry.ackAt
    BY <1>1
  <2>2. requiresAttention(e) <=> e.replies > 0
    BY <1>1 DEF requiresAttention
  <2>3. CASE e.replies = n
    <3>1. CASE attentionKey
      BY <1>1, <2>1, <2>2, <2>3, <3>1
    <3>2. CASE ~attentionKey
      <4>1. n = s.replies /\ s.replies = ServerUnread
        BY <1>1, <2>1, <3>2
      <4> QED BY <1>1, <2>2, <2>3, <3>2, <4>1
    <3> QED BY <3>1, <3>2
  <2>4. CASE entry.pending /\ e.replies = 0 /\ s.lastReply <= entry.ackAt
    <3>1. ~requiresAttention(e)
      BY <2>2, <2>4
    <3>2. ~Reading => ~attentionKey
      BY <2>4 DEF Backed, Calm
    <3>3. ~Reading => entry.ackAt <= serverRead
      BY <2>4 DEF Backed, Calm, Reading
    <3>4. ~Reading => created <= serverRead
      BY <1>0, <1>1, <2>4, <3>3
    <3>5. ~Reading => ~(ServerUnread > 0)
      BY <1>0, <3>4
    <3> QED BY <1>1, <3>1, <3>2, <3>5, Zenon
  <2> QED BY <2>1, <2>3, <2>4
<1>2. CASE ~s.present /\ e = entry /\ (attentionKey \/ entry.synthetic)
  <2>1. ~(ServerUnread > 0) /\ ~(created > 1)
    BY <1>0, <1>2
  <2>2. ~Reading /\ attentionKey /\ entry.present => entry.replies > 0
    BY DEF Backed, Calm
  <2>3. ~Reading /\ ~e.synthetic =>
          (requiresAttention(e) <=> attentionKey /\ e.present)
    BY <1>2, <2>2 DEF requiresAttention
  <2> QED BY <2>1, <2>3
<1>3. CASE ~s.present /\ e = NoEntry
  <2>1. ~(ServerUnread > 0) /\ ~(created > 1)
    BY <1>0, <1>3
  <2>2. ~requiresAttention(e) /\ ~e.present
    BY <1>3 DEF NoEntry, requiresAttention
  <2> QED BY <2>1, <2>2
<1>4. \/ /\ s.present /\ e.present /\ ~e.synthetic /\ ~e.mention
         /\ \E n \in Nat :
               /\ IF attentionKey THEN n > 0 ELSE n = s.replies
               /\ \/ ~e.pending /\ e.replies = n
                  \/ /\ entry.pending /\ e.pending /\ e.ackAt = entry.ackAt
                     /\ e.replies = 0 /\ s.lastReply <= entry.ackAt
      \/ ~s.present /\ e = entry /\ (attentionKey \/ entry.synthetic)
      \/ ~s.present /\ e = NoEntry
  BY <1>5, SnapshotFields
<1> QED BY <1>1, <1>2, <1>3, <1>4

\* The cursor touches neither whether the thread is listed nor what it asks for, unless it
\* issues a read call.
LEMMA CursorCurrent ==
    ASSUME Shape, UpdateReadCursor
    PROVE  /\ UNCHANGED attentionKey
           /\ entry'.present = entry.present /\ entry'.synthetic = entry.synthetic
           /\ ~Reading' => entry'.replies = entry.replies /\ entry'.mention = entry.mention
<1>1. PICK lo \in 1 .. delivered, hi \in 1 .. delivered :
        lo <= hi /\ updateReadCursorFromViewport(lo, hi)
  BY DEF UpdateReadCursor
<1> DEFINE p == IF gate.phase = "Idle" THEN hi ELSE Max({hi, gate.highWater})
           seen == observeReadThrough(p)
<1>2. p \in Posts /\ p <= delivered
  BY <1>1, ReadTo
<1>3. entry \in Entry /\ seen \in Entry
  BY <1>2, ReadThroughShape DEF Shape, TypeOK
<1>4. /\ seen.present = entry.present /\ seen.synthetic = entry.synthetic
      /\ seen.replies = entry.replies /\ seen.mention = entry.mention
  BY <1>3 DEF observeReadThrough, Entry
<1> HIDE DEF p, seen
<1>5. /\ UNCHANGED attentionKey
      /\ \/ entry' = entry
         \/ entry' = seen
         \/ entry' = markThreadRead(seen) /\ issue("read", p)
  BY <1>1 DEF updateReadCursorFromViewport, model, p, seen
<1>6. CASE entry' \in {entry, seen}
  BY <1>4, <1>5, <1>6
<1>7. CASE entry' = markThreadRead(seen) /\ issue("read", p)
  <2>1. entry'.present = seen.present /\ entry'.synthetic = seen.synthetic
    BY <1>3, <1>7 DEF markThreadRead, Entry
  <2>2. Reading'
    <3> DEFINE c == [id |-> issued + 1, kind |-> "read", post |-> p, upTo |-> created,
                     state |-> "sent"]
    <3>1. c \in calls' /\ c.kind = "read"
      BY <1>7 DEF issue
    <3> QED BY <3>1 DEF Reading
  <2> QED BY <1>4, <1>5, <2>1, <2>2
<1> QED BY <1>5, <1>6, <1>7

\* The entry is what the last snapshot made of it, and what was done since.
LEMMA EntryStep ==
    Shape /\ Backed /\ Listed /\ QueryCurrent /\ EntryCurrent /\ [Next]_vars => EntryCurrent'
<1> SUFFICES ASSUME Shape, Backed, Listed, QueryCurrent, EntryCurrent, [Next]_vars,
                    Calm', ~inFlight'
             PROVE  /\ created' > 1 => entry'.present /\ ~entry'.synthetic
                    /\ ~Reading' /\ ~entry'.synthetic =>
                         (requiresAttention(entry') <=>
                             ServerUnread' > 0 \/ (attentionKey' /\ entry'.present))
  BY DEF EntryCurrent, requiresAttention
<1>0. /\ entry \in Entry /\ created \in Nat /\ delivered \in Nat
      /\ ServerUnread \in Nat /\ (ServerUnread > 0 => created > 1)
      /\ (UNCHANGED <<created, serverRead>> => ServerUnread' = ServerUnread)
  BY ServerUnreadCount, Numbers DEF Shape, TypeOK, Posts, ServerUnread
<1> HIDE DEF ServerUnread
<1>1. CASE /\ Calm /\ ~inFlight /\ UNCHANGED <<created, serverRead, entry, attentionKey>>
           /\ (Reading => Reading')
  BY <1>0, <1>1 DEF EntryCurrent, requiresAttention
<1>2. CASE UNCHANGED vars
  <2>1. Calm /\ ~inFlight /\ (Reading => Reading')
    BY <1>2 DEF vars, Calm, Reading
  <2> QED BY <1>1, <1>2, <2>1 DEF vars
<1>3. CASE noteIncomingPost(FALSE) /\ delivered = 0 /\ created = 1 /\ entry' = entry
  <2>1. UNCHANGED <<created, serverRead>>
    BY <1>3 DEF noteIncomingPost, server
  <2>2. ~entry'.present /\ ~requiresAttention(entry')
    BY <1>0, <1>3 DEF Listed, requiresAttention
  <2>3. ~(created' > 1) /\ ~(ServerUnread' > 0)
    BY <1>0, <1>3, <2>1
  <2> QED BY <2>2, <2>3, Zenon
<1>4. CASE threadRefreshTimeout \/ (\E c \in calls : unreadAnswered(c) /\ refreshThreads)
  <2>1. refreshThreads
    BY <1>4 DEF threadRefreshTimeout
  <2> QED BY <2>1, Zenon DEF refreshThreads
<1>5. CASE Calm /\ clearSyntheticMentions /\ UNCHANGED <<created, serverRead>>
  <2>1. entry.synthetic /\ entry' = NoEntry /\ ~inFlight
    BY <1>5 DEF clearSyntheticMentions, refresh
  <2>2. ~(created > 1)
    BY <1>5, <2>1 DEF EntryCurrent
  <2>3. ~entry'.present /\ ~requiresAttention(entry')
    BY <2>1 DEF NoEntry, requiresAttention
  <2>4. ~(created' > 1) /\ ~(ServerUnread' > 0)
    BY <1>0, <1>5, <2>2
  <2> QED BY <2>3, <2>4, Zenon
<1>6. CASE queryFollowingThreads(FALSE)
  <2>1. query.stage \in {"followed", "unread"} /\ UNCHANGED inFlight
    BY <1>6 DEF queryFollowingThreads, queryTeamPage
  <2> QED BY <2>1 DEF Shape
<1>7. CASE Calm /\ (Reading => Reading') /\ UNCHANGED <<created, serverRead>>
           /\ applyThreadSnapshot
  <2>1. /\ query.stage = "answered" /\ entry' = snapshotEntry(query.result)
        /\ UNCHANGED attentionKey /\ inFlight
    BY <1>7 DEF applyThreadSnapshot, Shape
  <2>2. ~requested /\ ~dirty
    BY <1>7 DEF applyThreadSnapshot, scheduleThreadRefresh, Calm
  <2>3. /\ query.result.present <=> created > 1
        /\ created > 1 => query.result.lastReply = created /\ query.result.replies = ServerUnread
    BY <1>7, <2>1, <2>2 DEF QueryCurrent
  <2>4. query.result \in Summary
    BY DEF Shape, TypeOK, Query
  <2>5. PICK e : e = snapshotEntry(query.result)
    OBVIOUS
  <2>6. /\ created > 1 => e.present /\ ~e.synthetic
        /\ ~Reading /\ ~e.synthetic =>
             (requiresAttention(e) <=> ServerUnread > 0 \/ (attentionKey /\ e.present))
    BY <1>7, <2>3, <2>4, <2>5, SnapshotCurrent
  <2>7. entry' = e /\ created' = created /\ ServerUnread' = ServerUnread
        /\ attentionKey' = attentionKey
    BY <1>0, <1>7, <2>1, <2>5
  <2> QED BY <1>7, <2>6, <2>7, Zenon
<1>8. CASE Calm /\ (Reading => Reading') /\ UNCHANGED <<created, serverRead>>
           /\ UpdateReadCursor
  <2>1. UNCHANGED inFlight
    BY <1>8 DEF UpdateReadCursor, refresh
  <2>2. /\ UNCHANGED attentionKey
        /\ entry'.present = entry.present /\ entry'.synthetic = entry.synthetic
        /\ ~Reading' => entry'.replies = entry.replies /\ entry'.mention = entry.mention
    BY <1>8, CursorCurrent
  <2>3. ~Reading' => (requiresAttention(entry') <=> requiresAttention(entry))
    BY <2>2 DEF requiresAttention
  <2>4. /\ created > 1 => entry.present /\ ~entry.synthetic
        /\ ~Reading /\ ~entry.synthetic =>
             (requiresAttention(entry) <=> ServerUnread > 0 \/ (attentionKey /\ entry.present))
    BY <1>8, <2>1 DEF EntryCurrent
  <2>5. ServerUnread' = ServerUnread /\ created' = created
    BY <1>0, <1>8
  <2> QED BY <1>8, <2>2, <2>3, <2>4, <2>5, Zenon
<1>9. CASE Next
  <2>1. \/ noteIncomingPost(FALSE) /\ delivered = 0 /\ created = 1 /\ entry' = entry
        \/ /\ Calm /\ (Reading => Reading')
           /\ UNCHANGED <<follows, faults, created, delivered, serverRead, timer>>
           /\ \/ clearSyntheticMentions \/ queryFollowingThreads(FALSE)
              \/ applyThreadSnapshot \/ UpdateReadCursor
              \/ UNCHANGED <<entry, attentionKey, inFlight, requested, dirty, query>>
        \/ threadRefreshTimeout
        \/ \E c \in calls : unreadAnswered(c) /\ refreshThreads
    BY <1>9, CalmSteps
  <2>2. CASE /\ Calm /\ (Reading => Reading')
             /\ UNCHANGED <<follows, faults, created, delivered, serverRead, timer>>
             /\ UNCHANGED <<entry, attentionKey, inFlight, requested, dirty, query>>
    <3>1. ~inFlight
      BY <2>2, Zenon
    <3>2. UNCHANGED <<created, serverRead, entry, attentionKey>>
      BY <2>2, Zenon
    <3> QED BY <1>1, <2>2, <3>1, <3>2
  <2>3. UNCHANGED <<follows, faults, created, delivered, serverRead, timer>>
          => UNCHANGED <<created, serverRead>>
    BY Zenon
  <2> QED BY <2>1, <2>2, <2>3, <1>3, <1>4, <1>5, <1>6, <1>7, <1>8, Zenon
<1> QED BY <1>2, <1>9

LEMMA CurrentStep == Shape /\ Backed /\ Current /\ [Next]_vars => Current'
BY ListedStep, QueryStep, EntryStep DEF Current

\* With no call, refresh or post under way, and none ever failed, a followed thread asks for
\* attention exactly when the server counts unread replies or the user's own mark stands
\* (FollowingModel.cpp:422-451).
THEOREM Settles == Spec => []AttentionSettles
<1>1. Backed /\ Current => AttentionSettles
  <2> SUFFICES ASSUME EntryCurrent, AtRest, follows, faults = 0, ~entry.synthetic
               PROVE  requiresAttention(entry) <=>
                        ServerUnread > 0 \/ (attentionKey /\ entry.present)
    BY DEF AttentionSettles, Current
  <2>1. Calm /\ ~inFlight /\ ~Reading
    BY DEF AtRest, Calm, Reading
  <2> QED BY <2>1 DEF EntryCurrent
<1> QED BY <1>1, ShapeInit, ShapeStep, MarkInit, MarkStep, BackedInit, BackedStep, CurrentInit,
           CurrentStep, PTL DEF Spec
==============================================================================
