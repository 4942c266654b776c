------------------------------ MODULE ThreadReads ------------------------------
(***************************************************************************)
(* What is read in one followed thread: the entry FollowingModel keeps for *)
(* it, the snapshots and the read, unread, follow and unfollow calls of    *)
(* ThreadFollowService, and the read cursor of the chat log with the gate  *)
(* that holds it back after "mark as unread".                              *)
(*                                                                         *)
(* Posts are numbered in the order of their creation: 1 is the root, the   *)
(* others are replies, all by other users.  The server counts the replies  *)
(* after serverRead; it is reached over parallel connections, so that two  *)
(* calls may be served in either order; a read call never moves serverRead *)
(* back.  The last post the client holds is the tail of the log.  Texts,   *)
(* mutes, the mentions the server counts and the times attention began are *)
(* left out.                                                               *)
(***************************************************************************)
EXTENDS Naturals, FiniteSets, FiniteSetsExt

CONSTANTS
    MaxPosts,       \* bound: posts of the thread, the root included
    MaxCalls,       \* bound: read, unread, follow and unfollow calls
    MaxMarks,       \* bound: of these, "mark as unread"
    MaxDisturbances \* bound: times the root mentions the user, events are lost, calls or
                    \* pages fail or lose their answer, the user follows or unfollows

ASSUME ThreadReadsAssumption ==
    /\ MaxPosts \in Nat \ {0} /\ MaxCalls \in Nat /\ MaxMarks \in Nat
    /\ MaxDisturbances \in Nat

VARIABLES
    \* server and network
    created, follows, serverRead,
    calls,          \* calls under way or answered, the answer not yet taken
    delivered,      \* posts the client holds: 1 .. delivered
    \* FollowingModel
    entry, marker, attentionKey,
    timer, inFlight, requested, dirty,
    query,          \* ThreadFollowService::queryFollowingThreads
    \* ChatLogWidget
    gate,
    \* budgets
    issued, marks, disturbances, faults

vars == <<created, follows, serverRead, calls, delivered, entry, marker, attentionKey,
          timer, inFlight, requested, dirty, query, gate, issued, marks,
          disturbances, faults>>

server == <<created, follows, serverRead>>
model == <<entry, marker, attentionKey>>
refresh == <<timer, inFlight, requested, dirty, query>>
budgets == <<issued, marks, disturbances, faults>>

Posts == 1 .. MaxPosts
Marks == 0 .. MaxPosts      \* a post, or 0 for none

Entry == [present : BOOLEAN, synthetic : BOOLEAN, replies : Marks, mention : BOOLEAN,
          lastReply : Marks, resume : {"Unknown", "FirstUnread", "AtEnd"},
          first : Marks, through : Marks, pending : BOOLEAN, ackAt : Marks]
NoEntry == [present |-> FALSE, synthetic |-> FALSE, replies |-> 0, mention |-> FALSE,
            lastReply |-> 0, resume |-> "Unknown", first |-> 0, through |-> 0,
            pending |-> FALSE, ackAt |-> 0]
Gate == [phase : {"Idle", "WaitForExit", "WaitForEntry"}, post : Marks,
         highWater : Marks, exited : BOOLEAN]
NoGate == [phase |-> "Idle", post |-> 0, highWater |-> 0, exited |-> FALSE]
Summary == [present : BOOLEAN, replies : Marks, lastReply : Marks]
NoSummary == [present |-> FALSE, replies |-> 0, lastReply |-> 0]
Query == [stage : {"none", "followed", "unread", "answered"}, result : Summary]
NoQuery == [stage |-> "none", result |-> NoSummary]
Call == [id : 1 .. MaxCalls, kind : {"read", "unread", "follow", "unfollow"},
         post : Marks, upTo : Marks, state : {"sent", "ok", "failed"}]

TypeOK ==
    /\ created \in Posts /\ follows \in BOOLEAN /\ serverRead \in Marks
    /\ delivered \in 0 .. created
    /\ calls \in SUBSET Call
    /\ entry \in Entry /\ marker \in Marks /\ attentionKey \in BOOLEAN
    /\ {timer, inFlight, requested, dirty} \subseteq BOOLEAN
    /\ query \in Query /\ gate \in Gate
    /\ issued \in 0 .. MaxCalls /\ marks \in 0 .. MaxMarks
    /\ disturbances \in 0 .. MaxDisturbances /\ faults \in 0 .. disturbances

\* The client has started before the root is announced; the model is dirty.
Init ==
    /\ created = 1 /\ follows = TRUE /\ serverRead = 1 /\ calls = {} /\ delivered = 0
    /\ entry = NoEntry /\ marker = 0 /\ attentionKey = FALSE
    /\ timer = FALSE /\ inFlight = FALSE /\ requested = FALSE /\ dirty = TRUE
    /\ query = NoQuery /\ gate = NoGate
    /\ issued = 0 /\ marks = 0 /\ disturbances = 0 /\ faults = 0

requiresAttention(e) == e.present /\ (e.replies > 0 \/ e.mention)
ServerUnread == Cardinality({r \in 2 .. created : r > serverRead})

-------------------------------------------------------------------------------
(* Posts and their announcement                                               *)

disturb == disturbances < MaxDisturbances /\ disturbances' = disturbances + 1
fault(happens) ==
    IF happens THEN disturb /\ faults' = faults + 1 ELSE UNCHANGED <<disturbances, faults>>

CreateReply ==
    /\ created < MaxPosts
    /\ created' = created + 1
    /\ UNCHANGED <<follows, serverRead, calls, delivered, model, refresh, gate,
                   budgets>>

scheduleThreadRefresh == dirty' = TRUE /\ timer' = TRUE

noteIncomingForResume(e, p) ==
    IF e.present /\ e.resume = "AtEnd" /\ (e.through # 0 => p > e.through)
    THEN [e EXCEPT !.resume = "FirstUnread", !.first = p]
    ELSE e

\* A root post that mentions the user stands in Following until the server lists it.
noteSyntheticMention(e, p) ==
    IF p # 1 \/ (e.present /\ ~e.synthetic) THEN e
    ELSE [e EXCEPT !.present = TRUE, !.synthetic = TRUE, !.lastReply = p,
                   !.mention = TRUE]

\* onNewPost of the next post; the root mentions the user or not.
noteIncomingPost(mentions) ==
    /\ delivered < created
    /\ mentions => delivered = 0
    /\ IF mentions THEN disturb ELSE UNCHANGED disturbances
    /\ delivered' = delivered + 1
    /\ LET p == delivered + 1
           e == IF p > 1 THEN noteIncomingForResume(entry, p) ELSE entry
       IN /\ entry' = IF mentions THEN noteSyntheticMention(e, p) ELSE e
          /\ IF p > 1 \/ mentions THEN scheduleThreadRefresh ELSE UNCHANGED <<dirty, timer>>
    /\ UNCHANGED <<server, calls, marker, attentionKey, inFlight, requested, query, gate,
                   issued, marks, faults>>

\* Events are lost; after onWebSocketConnect the posts come over HTTP, unannounced.
Outage ==
    /\ disturb
    /\ delivered' = created
    /\ scheduleThreadRefresh
    /\ UNCHANGED <<server, calls, model, inFlight, requested, query, gate, issued,
                   marks, faults>>

\* onChannelViewed: the channel was read, here or elsewhere.
clearSyntheticMentions ==
    /\ entry.synthetic
    /\ entry' = NoEntry
    /\ UNCHANGED <<server, calls, delivered, marker, attentionKey, refresh, gate, budgets>>

-------------------------------------------------------------------------------
(* Snapshots of the followed threads                                          *)

\* The 300 ms timer runs out.
refreshThreads ==
    IF inFlight
    THEN requested' = TRUE /\ dirty' = TRUE /\ UNCHANGED <<inFlight, query>>
    ELSE /\ inFlight' = TRUE /\ requested' = FALSE /\ dirty' = FALSE
         /\ query' = [stage |-> "followed", result |-> NoSummary]

threadRefreshTimeout ==
    /\ timer /\ timer' = FALSE
    /\ refreshThreads
    /\ UNCHANGED <<server, calls, delivered, model, gate, budgets>>

\* A view opens and finds the model stale.
ensureThreadsFresh ==
    /\ dirty /\ ~timer
    /\ scheduleThreadRefresh
    /\ UNCHANGED <<server, calls, delivered, model, inFlight, requested, query, gate,
                   budgets>>

\* The server answers a page; a failed page counts as an empty one.
queryTeamPage(failed, summary) ==
    /\ fault(failed)
    /\ query' = [stage |-> IF query.stage = "followed" THEN "unread" ELSE "answered",
                 result |-> IF failed THEN query.result ELSE summary]
    /\ UNCHANGED <<server, calls, delivered, model, timer, inFlight, requested, dirty,
                   gate, issued, marks>>

\* The list comes first, its counters set to zero; the unread threads are laid over it.
queryFollowingThreads(failed) ==
    \/ /\ query.stage = "followed"
       /\ queryTeamPage(failed, [present |-> follows /\ created > 1, replies |-> 0,
                                 lastReply |-> created])
    \/ /\ query.stage = "unread"
       /\ queryTeamPage(failed, IF follows /\ ServerUnread > 0
                                THEN [present |-> TRUE, replies |-> ServerUnread,
                                      lastReply |-> created]
                                ELSE query.result)

\* A snapshot that left before the read call reached the server does not undo it.
settlePendingTrusting(e) == e                                           \* mutant

settlePending(e) ==
    IF ~e.pending THEN e
    ELSE IF e.replies = 0 THEN [e EXCEPT !.pending = FALSE, !.ackAt = 0]
    ELSE IF e.lastReply <= e.ackAt THEN [e EXCEPT !.replies = 0, !.mention = FALSE]
    ELSE [e EXCEPT !.pending = FALSE, !.ackAt = 0]

restoreMarkDropped(e) == e                                              \* mutant

restoreMark(e) ==
    IF ~attentionKey THEN e
    ELSE [e EXCEPT !.replies = Max({1, @}),
                   !.resume = IF marker # 0 THEN "FirstUnread" ELSE @,
                   !.first = IF marker # 0 THEN marker ELSE @,
                   !.through = IF marker # 0 THEN 0 ELSE @]

snapshotEntry(s) ==
    IF s.present
    THEN settlePending(restoreMark([entry EXCEPT !.present = TRUE, !.synthetic = FALSE,
             !.replies = s.replies, !.mention = FALSE, !.lastReply = s.lastReply]))
    ELSE IF entry.present /\ (attentionKey \/ entry.synthetic) THEN entry ELSE NoEntry

applyThreadSnapshotOnce ==                                              \* mutant
    /\ query.stage = "answered"
    /\ entry' = snapshotEntry(query.result)
    /\ query' = NoQuery /\ inFlight' = FALSE /\ requested' = FALSE
    /\ UNCHANGED <<timer, dirty, server, calls, delivered, marker, attentionKey, gate,
                   budgets>>

applyThreadSnapshot ==
    /\ query.stage = "answered"
    /\ entry' = snapshotEntry(query.result)
    /\ query' = NoQuery /\ inFlight' = FALSE /\ requested' = FALSE
    /\ IF requested \/ dirty THEN scheduleThreadRefresh ELSE UNCHANGED <<timer, dirty>>
    /\ UNCHANGED <<server, calls, delivered, marker, attentionKey, gate, budgets>>

-------------------------------------------------------------------------------
(* The read cursor of the chat log                                            *)

issue(kind, post) ==
    /\ issued < MaxCalls /\ issued' = issued + 1
    /\ calls' = calls \cup {[id |-> issued + 1, kind |-> kind, post |-> post,
                             upTo |-> created, state |-> "sent"]}

\* The marker goes when a post at or after it is read through; the boundary never moves
\* back.  All posts the client holds are cached, so the next one is known.
ConsumesMarker(p) == marker # 0 /\ p >= marker

observeReadThrough(p) ==
    IF ~entry.present \/ (entry.through # 0 /\ p < entry.through) THEN entry
    ELSE [entry EXCEPT !.through = p,
              !.resume = IF p < delivered THEN "FirstUnread" ELSE "AtEnd",
              !.first = IF p < delivered THEN p + 1 ELSE 0]

\* The read call asks for everything up to now; the entry forgets its counters at once.
markThreadRead(e) ==
    [e EXCEPT !.replies = 0, !.mention = FALSE, !.pending = TRUE,
              !.ackAt = IF e.through # 0 THEN e.through ELSE e.lastReply]

\* The gate blocks until the marked post has left the viewport and come back.
gateUpdate(visible) ==
    CASE gate.phase = "WaitForExit" /\ ~visible ->
            [gate EXCEPT !.phase = "WaitForEntry", !.exited = TRUE]
      [] gate.phase = "WaitForEntry" /\ visible -> NoGate
      [] OTHER -> gate

\* The posts lo .. hi show their lower edge; the newest is read unless the gate blocks.
updateReadCursorFromViewport(lo, hi) ==
    LET g == gateUpdate(gate.post \in lo .. hi)
        blocked == g.phase # "Idle"
        p == IF gate.phase = "Idle" THEN hi ELSE Max({hi, gate.highWater})
        due == /\ p = delivered
               /\ requiresAttention(entry) \/ (entry.present /\ entry.resume = "FirstUnread")
        seen == observeReadThrough(p)
    IN IF blocked
       THEN /\ gate' = IF g.exited /\ hi > gate.post
                       THEN [g EXCEPT !.highWater = Max({hi, @})] ELSE g
            /\ UNCHANGED <<calls, model, issued>>
       ELSE /\ gate' = g
            /\ marker' = IF entry.present /\ ConsumesMarker(p) THEN 0 ELSE marker
            /\ IF due /\ seen.resume = "AtEnd"
               THEN /\ entry' = markThreadRead(seen)
                    /\ issue("read", p)
               ELSE entry' = seen /\ UNCHANGED <<calls, issued>>
            /\ UNCHANGED attentionKey

UpdateReadCursor ==
    /\ \E lo, hi \in 1 .. delivered : lo <= hi /\ updateReadCursorFromViewport(lo, hi)
    /\ UNCHANGED <<server, delivered, refresh, marks, disturbances, faults>>

\* "Mark as unread" on a post the log shows; nothing changes in the model before the answer.
markPostUnread(p, visible) ==
    /\ marks < MaxMarks /\ marks' = marks + 1
    /\ gate' = [NoGate EXCEPT !.phase = IF visible THEN "WaitForExit" ELSE "WaitForEntry",
                              !.post = p]
    /\ issue("unread", p)
    /\ UNCHANGED <<server, delivered, model, refresh, disturbances, faults>>

\* setFollowing(false) forgets the entry at once, setFollowing(true) asks first.
setFollowing(following) ==
    /\ IF following
       THEN issue("follow", 0) /\ UNCHANGED <<entry, dirty, timer>>
       ELSE /\ issue("unfollow", 0)
            /\ entry' = NoEntry
            /\ scheduleThreadRefresh
    /\ disturb
    /\ UNCHANGED <<server, delivered, marker, attentionKey, inFlight, requested, query,
                   gate, marks, faults>>

-------------------------------------------------------------------------------
(* Calls: the server serves them, and the client takes the answers            *)

ServeCall(c, outcome) ==
    /\ c.state = "sent"
    /\ fault(outcome # "served")
    /\ calls' = (calls \ {c}) \cup
           (IF c.kind = "unfollow" THEN {}
            ELSE {[c EXCEPT !.state = IF outcome = "served" THEN "ok" ELSE "failed"]})
    /\ IF outcome = "refused" THEN UNCHANGED <<follows, serverRead>>
       ELSE /\ serverRead' = CASE c.kind = "read" -> Max({c.upTo, serverRead})
                               [] c.kind = "unread" -> c.post - 1
                               [] OTHER -> serverRead
            /\ follows' = CASE c.kind = "follow" -> TRUE
                            [] c.kind = "unfollow" -> FALSE
                            [] OTHER -> follows
    /\ UNCHANGED <<created, delivered, model, refresh, gate, issued, marks>>

take(c, kind) == c.kind = kind /\ c.state # "sent" /\ calls' = calls \ {c}

readAnswered(c) ==
    /\ take(c, "read")
    /\ IF c.state = "ok"
       THEN marker' = 0 /\ attentionKey' = FALSE /\ UNCHANGED <<entry>>
       ELSE /\ entry' = [entry EXCEPT !.pending = FALSE, !.ackAt = 0]
            /\ UNCHANGED <<marker, attentionKey>>
    /\ scheduleThreadRefresh
    /\ UNCHANGED <<server, delivered, inFlight, requested, query, gate, budgets>>

unreadModel(e, p) ==
    [e EXCEPT !.present = TRUE, !.replies = Max({1, @}), !.resume = "FirstUnread",
              !.first = p, !.through = 0, !.pending = FALSE, !.ackAt = 0,
              !.lastReply = Max({p, @})]

\* FollowingModel::markPostUnread and a snapshot at once, or the gate is released.
unreadAnswered(c) ==
    /\ take(c, "unread")
    /\ IF c.state = "ok"
       THEN /\ marker' = c.post /\ attentionKey' = TRUE
            /\ entry' = unreadModel(entry, c.post)
            /\ refreshThreads /\ UNCHANGED gate
       ELSE /\ gate' = IF gate.post = c.post THEN NoGate ELSE gate
            /\ UNCHANGED <<model, inFlight, requested, dirty, query>>
    /\ UNCHANGED <<server, delivered, timer, budgets>>

followAnswered(c) ==
    /\ take(c, "follow")
    /\ IF c.state = "ok" THEN scheduleThreadRefresh ELSE UNCHANGED <<dirty, timer>>
    /\ UNCHANGED <<server, delivered, model, inFlight, requested, query, gate, budgets>>

-------------------------------------------------------------------------------
Next ==
    \/ CreateReply \/ Outage
    \/ \E mentions \in BOOLEAN : noteIncomingPost(mentions)
    \/ clearSyntheticMentions
    \/ threadRefreshTimeout \/ ensureThreadsFresh
    \/ \E failed \in BOOLEAN : queryFollowingThreads(failed)
    \/ applyThreadSnapshot
    \/ UpdateReadCursor
    \/ \E p \in 1 .. delivered, visible \in BOOLEAN : markPostUnread(p, visible)
    \/ \E following \in BOOLEAN : setFollowing(following)
    \/ \E c \in calls, outcome \in {"served", "unanswered", "refused"} :
           ServeCall(c, outcome)
    \/ \E c \in calls : readAnswered(c) \/ unreadAnswered(c) \/ followAnswered(c)

Spec == Init /\ [][Next]_vars

-------------------------------------------------------------------------------
(* Properties                                                                 *)

\* While a mark set by the user has not been read through, a thread that is shown asks
\* for attention and resumes at the mark or before it: neither a snapshot that left
\* earlier, nor a read call still under way, nor a reply event hides it
\* (FollowingModel.cpp:508-519, 546-565).
MarkShown ==
    marker # 0 /\ entry.present =>
        /\ entry.replies > 0
        /\ entry.resume = "FirstUnread" /\ entry.first \in 1 .. marker

\* While a read call stands unconfirmed the thread asks for no attention, whatever
\* snapshot comes in: pages fetched before the call was served still count its replies
\* (FollowingModel.cpp:521-536).
ReadHeld == entry.pending => ~requiresAttention(entry)

\* At rest a followed thread asks for attention exactly when the server counts unread
\* replies or the user's own mark stands: no refresh asked for during another one is
\* forgotten (FollowingModel.cpp:422-451).
AtRest == calls = {} /\ ~inFlight /\ ~timer /\ delivered = created
AttentionSettles ==
    AtRest /\ follows /\ faults = 0 /\ ~entry.synthetic =>
        (requiresAttention(entry) <=> ServerUnread > 0 \/ (attentionKey /\ entry.present))

\* "Suppress a CRT response that predates an already-issued local read"
\* (FollowingModel.h:70): with no call or page failing, a reply that a read call
\* under way covers is not shown as unread.
ReadNotUndone ==
    \A c \in calls :
        c.kind = "read" /\ c.state = "sent" /\ entry.resume = "AtEnd"
            /\ entry.through = c.post /\ ~attentionKey /\ faults = 0 /\ (\A d \in calls : d.kind # "unread")
        => ~(requiresAttention(entry) /\ entry.lastReply <= c.post)
===============================================================================
