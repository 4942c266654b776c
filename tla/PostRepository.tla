---------------------------- MODULE PostRepository ----------------------------
(***************************************************************************)
(* What the client believes a post says.  PostRepository, the resident     *)
(* bodies of one BackendChannel, the post events of WebSocketEventHandler, *)
(* the cache worker, and the server whose posts they all reflect.          *)
(*                                                                         *)
(* Snapshots reach the client by three roads that are not ordered with     *)
(* respect to each other: HTTP replies, WebSocket events and cache reads.  *)
(* An observation sequence taken when a request leaves and when an event   *)
(* arrives decides which of them may overwrite what.                       *)
(*                                                                         *)
(* The stream of events is the one WebSocketConnector delivers: in order   *)
(* and complete, until the server starts a new stream and the connector    *)
(* asks for a refresh.  Reaction events carry no body, only the reaction.  *)
(* More roads lead past the sequence: that refresh, which Backend merges   *)
(* itself, and the answers to PostCreateService and to the resolver of     *)
(* AppNavigationService, which take theirs when they arrive.  The load callbacks of the page  *)
(* are left out: its reply changes the resident bodies and the disk, and   *)
(* answers nobody.                                                         *)
(***************************************************************************)
EXTENDS PostCacheWorker

CONSTANTS
    Root,           \* Root[p]: the root p replies to, p itself for a root post
    Page,           \* the path of the channel page
    MaxDispatch,    \* bound: observation sequences given to requests and reads
    MaxLoads,       \* bound: calls of loadPost
    MaxEvictions,   \* bound: resident bodies evicted
    MaxRestarts,    \* bound: ends of the process
    MaxRefreshes,   \* bound: streams lost
    MaxCalls,      \* bound: posts, edits and permalinks of the user
    Horizons        \* bound: the degrees of interest in the channel that occur

ASSUME RepositoryAssumption ==
    /\ Root \in [Posts -> Posts]
    /\ Page \notin Posts
    /\ Reads = Posts \cup {Page}
    /\ MaxRev \in Nat /\ MaxDispatch \in Nat /\ MaxLoads \in Nat
    /\ MaxEvictions \in Nat /\ MaxRestarts \in Nat
    /\ MaxRefreshes \in Nat /\ MaxCalls \in Nat
    /\ Horizons \subseteq {"hot", "warm", "cold"}

VARIABLES
    \* the server
    post,           \* the current state of each post
    events,         \* WebSocket events on their way
    \* PostRepository and BackendChannel
    sequence,       \* observationSequence
    observed,       \* residentObservations[p].sequence, 0 if none
    resident,       \* postIdToPost, None when the body is not in memory
    tombstone,      \* posts whose resident body isDeleted
    inFlight,       \* inFlightGets: one request for each path
    loads,          \* DirectPostState of every loadPost
    refreshes,      \* requests of Backend::retrieveChannelPosts
    calls,          \* requests of PostCreateService and NavigationPostResolver
    \* history
    seen,           \* newest snapshot that came by an event
    gone,           \* posts whose deletion was handled in this session
    cached,         \* resident bodies that came from disk and were not refreshed since
    unfenced,       \* resident bodies that came past the sequence, likewise
    evictions, restarts \* budgets used

repository == <<sequence, observed, resident, tombstone, inFlight, loads>>
history == <<seen, gone, cached, unfenced>>
budgets == <<evictions, restarts>>
others == <<refreshes, calls>>
vars == <<interest, worker, post, events, repository, others, history, budgets>>

Paths == Posts \cup {Page}
Idle == [state |-> "idle", seq |-> 0, reply |-> Empty, waiting |-> {}]
CallKinds == {"post", "edit", "visit"}
Kinds == {"posted", "edited", "reacted", "deleted"}

TypeOK ==
    /\ WorkerTypeOK
    /\ post \in [Posts -> [at : 0 .. MaxRev, text : 0 .. MaxRev,
                           liked : BOOLEAN, alive : BOOLEAN]]
    /\ events \in Seq([kind : Kinds, id : Posts, body : Body])
    /\ sequence \in Nat
    /\ observed \in [Posts -> Nat]
    /\ resident \in [Posts -> Body \cup {None}]
    /\ tombstone \subseteq {p \in Posts : resident[p] # None}
    /\ inFlight \in [Paths -> [state : {"idle", "sent", "answered", "failed"},
                               seq : Nat, reply : PostsObject,
                               waiting : SUBSET (1 .. MaxLoads)]]
    /\ loads \in Seq([post : Posts, cacheDone : BOOLEAN, httpDone : BOOLEAN,
                      delivered : {"no", "success", "failure"}])
    /\ seen \in [Posts -> 0 .. MaxRev]
    /\ refreshes \in Seq([state : {"sent", "answered", "done"}, reply : PostsObject])
    /\ calls \in Seq([id : Posts, state : {"sent", "answered", "done"},
                      kind : CallKinds, body : Body \cup {None}])
    /\ gone \subseteq Posts /\ cached \subseteq Posts /\ unfenced \subseteq Posts
    /\ evictions \in 0 .. MaxEvictions /\ restarts \in 0 .. MaxRestarts

\* The state of a session that starts with what an earlier one left on disk: rows
\* of posts as they were then, of posts since edited or deleted too.
Init ==
    /\ interest \in Horizons
    /\ queue = <<>> /\ callbacks = <<>>
    /\ post \in [Posts -> {[at |-> 0, text |-> 0, liked |-> FALSE, alive |-> FALSE],
                           [at |-> 1, text |-> 1, liked |-> FALSE, alive |-> TRUE],
                           [at |-> 2, text |-> 2, liked |-> FALSE, alive |-> TRUE]}]
    /\ disk \in [Posts -> {None, [at |-> 1, text |-> 1, liked |-> FALSE]}]
    /\ \A p \in Posts : disk[p].at =< post[p].at /\ post[p].at =< MaxRev
    /\ fence = [p \in Posts |-> 0]
    /\ purged = [p \in Posts |-> 0]
    /\ events = <<>>
    /\ sequence = 0
    /\ observed = [p \in Posts |-> 0]
    /\ resident = [p \in Posts |-> None]
    /\ tombstone = {}
    /\ inFlight = [path \in Paths |-> Idle]
    /\ loads = <<>>
    /\ seen = [p \in Posts |-> 0]
    /\ refreshes = <<>> /\ calls = <<>>
    /\ gone = {} /\ cached = {} /\ unfenced = {}
    /\ evictions = 0 /\ restarts = 0

-------------------------------------------------------------------------------
(* Shared steps of the handlers                                               *)

Newest(m, n) == IF m < n THEN n ELSE m

\* noteResidentObservation: a reply fences its root too.
Observed(ids, seq) ==
    [p \in Posts |-> IF \E q \in ids : p \in {q, Root[q]}
                     THEN Newest(observed[p], seq) ELSE observed[p]]
ObservedOnlyForgotten(p, seq) == observed                               \* mutant

ObservedOnly(p, seq) == [observed EXCEPT ![p] = Newest(@, seq)]

FreshAlways(p, seq) == TRUE                                             \* mutant

\* May a server snapshot asked for at seq overwrite the resident body of p?
Fresh(p, seq) == observed[p] =< seq

ingest(posts, seq) ==
    LET accepted == {p \in DOMAIN posts : Fresh(p, seq)} IN
    /\ observed' = Observed(accepted, seq)
    /\ resident' = [p \in Posts |-> IF p \in accepted THEN posts[p] ELSE resident[p]]
    /\ tombstone' = tombstone \ accepted
    /\ cached' = cached \ accepted
    /\ unfenced' = unfenced \ accepted

FillsUnfenced(p, seq) == resident[p] = None                             \* mutant
FillsPresence(p, seq) == observed[p] =< seq                             \* mutant

\* May a row read at seq fill the absence of p?
Fills(p, seq) == resident[p] = None /\ observed[p] =< seq

ingestCached(posts, seq) ==
    LET accepted == {p \in DOMAIN posts : Fills(p, seq)} IN
    /\ resident' = [p \in Posts |-> IF p \in accepted THEN posts[p] ELSE resident[p]]
    /\ cached' = cached \cup accepted
    /\ UNCHANGED <<observed, tombstone, unfenced>>

DeliverSuccessOnly(load, success) ==                                    \* mutant
    IF load.delivered = "no" /\ success
    THEN [load EXCEPT !.delivered = "success"] ELSE load

\* deliverSuccess and deliverFailureIfDone of one loadPost.
Deliver(load, success) ==
    IF load.delivered # "no" THEN load
    ELSE IF success THEN [load EXCEPT !.delivered = "success"]
    ELSE IF load.cacheDone /\ load.httpDone
         THEN [load EXCEPT !.delivered = "failure"] ELSE load

coalescedGetRenews(path, waiting, seq) ==                               \* mutant
    /\ inFlight' = [inFlight EXCEPT
            ![path] = [@ EXCEPT !.seq = seq, !.waiting = @ \cup waiting,
                                !.state = IF @ = "idle" THEN "sent" ELSE @]]
    /\ sequence' = seq

\* coalescedGet: a request already in flight is joined and keeps its sequence.
coalescedGet(path, waiting, seq) ==
    IF inFlight[path].state = "idle"
    THEN /\ inFlight' = [inFlight EXCEPT ![path] =
                [state |-> "sent", seq |-> seq, reply |-> Empty, waiting |-> waiting]]
         /\ sequence' = seq
    ELSE /\ inFlight' = [inFlight EXCEPT ![path].waiting = @ \cup waiting]
         /\ sequence' = seq - 1

-------------------------------------------------------------------------------
(* Calls of the post sources                                                  *)

loadPost(p) ==
    LET read == sequence + 1 IN
    /\ Len(loads) < MaxLoads
    /\ sequence + 2 =< MaxDispatch
    /\ loads' = Append(loads, [post |-> p, cacheDone |-> FALSE, httpDone |-> FALSE,
                               delivered |-> "no"])
    /\ queue' = Append(queue, LoadPosts(p, read, Len(loads) + 1))
    /\ coalescedGet(p, {Len(loads) + 1}, read + 1)
    /\ UNCHANGED <<interest, callbacks, disk, fence, purged, post, events, observed,
                   resident, tombstone, others, history, budgets>>

loadChannelPage ==
    /\ sequence < MaxDispatch
    /\ coalescedGet(Page, {}, sequence + 1)
    /\ UNCHANGED <<interest, worker, post, events, observed, resident, tombstone,
                   loads, others, history, budgets>>

loadCachedChannelTail ==
    /\ sequence < MaxDispatch
    /\ sequence' = sequence + 1
    /\ queue' = Append(queue, LoadPosts(Page, sequence + 1, 0))
    /\ UNCHANGED <<interest, callbacks, disk, fence, purged, post, events, observed,
                   resident, tombstone, inFlight, loads, others, history,
                   budgets>>

-------------------------------------------------------------------------------
(* Answers                                                                    *)

\* The reply of a physical request: first the disk, then memory, then the callers.
httpFinished(path) ==
    LET get == inFlight[path] IN
    /\ get.state = "answered"
    /\ inFlight' = [inFlight EXCEPT ![path] = Idle]
    /\ queue' = IF get.reply = Empty THEN queue
                ELSE Append(queue, StorePosts(get.reply, get.seq))
    /\ ingest(get.reply, get.seq)
    /\ loads' = [l \in DOMAIN loads |->
                   IF l \notin get.waiting THEN loads[l]
                   ELSE Deliver([loads[l] EXCEPT !.httpDone = TRUE],
                                path \in DOMAIN get.reply /\ resident'[path] # None)]
    /\ UNCHANGED <<interest, callbacks, disk, fence, purged, post, events, sequence,
                   others, seen, gone, budgets>>

\* The result of a cache read; a miss leaves the caller to the request.
readFinished ==
    /\ callbacks # <<>>
    /\ callbacks' = Tail(callbacks)
    /\ LET r == Head(callbacks) IN
       /\ ingestCached(r.posts, r.seq)
       /\ loads' = [l \in DOMAIN loads |->
                      IF l # r.load THEN loads[l]
                      ELSE Deliver([loads[l] EXCEPT !.cacheDone = TRUE],
                                   r.what \in DOMAIN r.posts /\ resident'[r.what] # None)]
    /\ UNCHANGED <<interest, queue, disk, fence, purged, post, events, sequence,
                   inFlight, others, seen, gone, budgets>>

-------------------------------------------------------------------------------
(* WebSocketEventHandler                                                      *)

\* A full snapshot is noted for memory in any case, for disk while the channel is
\* of interest there.
cachePostObject(p, body) ==
    /\ sequence' = sequence + 1
    /\ observed' = Observed({p}, sequence')
    /\ queue' = IF interest = "cold" THEN queue
                ELSE Append(queue, StorePosts([q \in {p} |-> body], sequence'))

invalidateCachedPostGated(p, at) ==                                     \* mutant
    /\ sequence' = sequence + 1
    /\ observed' = ObservedOnly(p, sequence')
    /\ queue' = IF interest = "cold" THEN queue
                ELSE Append(queue, RemovePost(p, sequence', at))

\* A mutation without a body takes the row away in any case.
invalidateCachedPost(p, at) ==
    /\ sequence' = sequence + 1
    /\ observed' = ObservedOnly(p, sequence')
    /\ queue' = Append(queue, RemovePost(p, sequence', at))

\* A body enters memory while the channel is hot, or as the reply in a thread
\* whose root is leased; addPost leaves one that is there as it is.
postedEvent(e) ==
    /\ cachePostObject(e.id, e.body)
    /\ \E leased \in BOOLEAN :
         LET admitted == interest = "hot" \/ (leased /\ Root[e.id] # e.id) IN
         resident' = IF admitted /\ resident[e.id] = None
                     THEN [resident EXCEPT ![e.id] = e.body] ELSE resident
    /\ seen' = [seen EXCEPT ![e.id] = e.body.at]
    /\ UNCHANGED <<tombstone, gone, cached, unfenced>>

editedEvent(e) ==
    /\ cachePostObject(e.id, e.body)
    /\ IF resident[e.id] = None THEN UNCHANGED <<resident, tombstone, cached, unfenced>>
       ELSE /\ resident' = [resident EXCEPT ![e.id] = e.body]
            /\ tombstone' = tombstone \ {e.id}
            /\ cached' = cached \ {e.id}
            /\ unfenced' = unfenced \ {e.id}
    /\ seen' = [seen EXCEPT ![e.id] = e.body.at]
    /\ UNCHANGED gone

reactedEvent(e) ==
    /\ invalidateCachedPost(e.id, e.body.at)
    /\ resident' = IF resident[e.id] = None THEN resident
                   ELSE [resident EXCEPT ![e.id].liked = e.body.liked]
    /\ UNCHANGED <<tombstone, seen, gone, cached, unfenced>>

deletedEvent(e) ==
    /\ invalidateCachedPost(e.id, e.body.at)
    /\ tombstone' = IF resident[e.id] = None THEN tombstone ELSE tombstone \cup {e.id}
    /\ gone' = gone \cup {e.id}
    /\ UNCHANGED <<resident, seen, cached, unfenced>>

handleEvent ==
    /\ events # <<>>
    /\ events' = Tail(events)
    /\ LET e == Head(events) IN
         \/ e.kind = "posted" /\ postedEvent(e)
         \/ e.kind = "edited" /\ editedEvent(e)
         \/ e.kind = "reacted" /\ reactedEvent(e)
         \/ e.kind = "deleted" /\ deletedEvent(e)
    /\ UNCHANGED <<interest, callbacks, disk, fence, purged, post, inFlight, loads,
                   others, budgets>>

-------------------------------------------------------------------------------
(* The roads past the sequence                                                *)

\* The server has started a new stream, with the events under way lost: Backend asks
\* for the newest page. On a reconnect it first restarts its HTTP transport, and a
\* request that is out is asked again.
streamLost ==
    /\ Len(refreshes) < MaxRefreshes
    /\ events' = <<>>
    /\ \E reconnect \in BOOLEAN :
         refreshes' = Append([r \in DOMAIN refreshes |->
                                IF reconnect /\ refreshes[r].state = "answered"
                                THEN [state |-> "sent", reply |-> Empty] ELSE refreshes[r]],
                             [state |-> "sent", reply |-> Empty])
    /\ UNCHANGED <<interest, worker, post, repository, calls, history, budgets>>

\* The reply goes to mergePostContext as it is.
refreshFinished(r) ==
    LET reply == refreshes[r].reply IN
    /\ refreshes[r].state = "answered"
    /\ refreshes' = [refreshes EXCEPT ![r] = [state |-> "done", reply |-> Empty]]
    /\ resident' = [p \in Posts |-> IF p \in DOMAIN reply THEN reply[p] ELSE resident[p]]
    /\ tombstone' = tombstone \ DOMAIN reply
    /\ cached' = cached \ DOMAIN reply
    /\ unfenced' = unfenced \cup DOMAIN reply
    /\ UNCHANGED <<interest, worker, post, events, sequence, observed, inFlight, loads,
                   calls, seen, gone, budgets>>

\* createPost, editPost of a post that is shown, openPost of one that is not here.
call(p, kind) ==
    /\ Len(calls) < MaxCalls
    /\ \/ kind = "post" /\ post[p].at = 0 /\ \A w \in DOMAIN calls : calls[w].id # p
       \/ kind = "edit" /\ resident[p] # None /\ p \notin tombstone
       \/ kind = "visit" /\ resident[p] = None
    /\ calls' = Append(calls, [id |-> p, state |-> "sent", kind |-> kind, body |-> None])
    /\ UNCHANGED <<interest, worker, post, events, repository, refreshes, history, budgets>>

\* ingestCreatedPost, ingestEditedPost, ingestFetchedPost: only the first spares a
\* body that is there.
callFinished(w) ==
    LET p == calls[w].id
        written == calls[w].kind # "post" \/ resident[p] = None IN
    /\ calls[w].state = "answered"
    /\ calls' = [calls EXCEPT ![w].state = "done", ![w].body = None]
    /\ cachePostObject(p, calls[w].body)
    /\ IF written
       THEN /\ resident' = [resident EXCEPT ![p] = calls[w].body]
            /\ tombstone' = tombstone \ {p}
            /\ cached' = cached \ {p}
            /\ unfenced' = unfenced \cup {p}
       ELSE UNCHANGED <<resident, tombstone, cached, unfenced>>
    /\ UNCHANGED <<interest, callbacks, disk, fence, purged, post, events, inFlight,
                   loads, refreshes, seen, gone, budgets>>

-------------------------------------------------------------------------------
(* Residency, the worker, the user and the process                            *)

evictPostBodyKeepsFlag(p) ==                                            \* mutant
    /\ evictions < MaxEvictions
    /\ evictions' = evictions + 1
    /\ resident[p] # None
    /\ resident' = [resident EXCEPT ![p] = None]
    /\ cached' = cached \ {p}
    /\ unfenced' = unfenced \ {p}
    /\ UNCHANGED <<interest, worker, post, events, sequence, observed, tombstone,
                   inFlight, loads, others, seen, gone, restarts>>

\* The sweep takes a body; a root stays while one of its replies is resident.
evictPostBody(p) ==
    /\ evictions < MaxEvictions
    /\ evictions' = evictions + 1
    /\ resident[p] # None
    /\ \A q \in Posts \ {p} : Root[q] = p => resident[q] = None
    /\ resident' = [resident EXCEPT ![p] = None]
    /\ tombstone' = tombstone \ {p}
    /\ cached' = cached \ {p}
    /\ unfenced' = unfenced \ {p}
    /\ UNCHANGED <<interest, worker, post, events, sequence, observed, inFlight, loads,
                   others, seen, gone, restarts>>

\* The user opens the channel, or time passes since it was opened.
recordChannelOpened ==
    /\ interest' \in Horizons \ {interest}
    /\ UNCHANGED <<worker, post, events, repository, others, history, budgets>>

workerStep ==
    /\ execute \/ \E p \in Posts : dropRow(p)
    /\ UNCHANGED <<interest, post, events, repository, others, history, budgets>>

\* The process ends, with the commands the worker has not executed; only the rows
\* survive. An orderly end lets the worker execute them first.
restart ==
    /\ restarts < MaxRestarts
    /\ restarts' = restarts + 1
    /\ queue' = <<>> /\ callbacks' = <<>> /\ events' = <<>>
    /\ fence' = [p \in Posts |-> 0] /\ purged' = [p \in Posts |-> 0]
    /\ sequence' = 0
    /\ observed' = [p \in Posts |-> 0]
    /\ resident' = [p \in Posts |-> None]
    /\ tombstone' = {}
    /\ inFlight' = [path \in Paths |-> Idle]
    /\ loads' = <<>>
    /\ refreshes' = [r \in DOMAIN refreshes |-> [refreshes[r] EXCEPT !.state = "done"]]
    /\ calls' = [w \in DOMAIN calls |-> [calls[w] EXCEPT !.state = "done"]]
    /\ seen' = [p \in Posts |-> 0] /\ gone' = {} /\ cached' = {} /\ unfenced' = {}
    /\ UNCHANGED <<interest, disk, post, evictions>>

-------------------------------------------------------------------------------
(* The server (external)                                                      *)

Snapshot(p) == [at |-> post[p].at, text |-> post[p].text, liked |-> post[p].liked]

\* One revision of p: the state after it, and the event that tells of it.
Revise(p, state, kind) ==
    /\ post' = [post EXCEPT ![p] = state]
    /\ events' = Append(events, [kind |-> kind, id |-> p,
                                 body |-> [at |-> state.at, text |-> state.text,
                                           liked |-> state.liked]])

Mutate(p) ==
    LET at == post[p].at + 1 IN
    /\ post[p].at < MaxRev
    /\ \/ /\ post[p].at = 0
          /\ Revise(p, [at |-> 1, text |-> 1, liked |-> FALSE, alive |-> TRUE], "posted")
       \/ /\ post[p].alive
          /\ \/ Revise(p, [post[p] EXCEPT !.at = at, !.text = at], "edited")
             \/ Revise(p, [post[p] EXCEPT !.at = at, !.liked = ~@], "reacted")
             \/ Revise(p, [post[p] EXCEPT !.at = at, !.alive = FALSE], "deleted")
    /\ UNCHANGED <<interest, worker, repository, others, history, budgets>>

\* The posts a request for path is answered with.
PostsAt(path) ==
    [p \in {q \in Posts : post[q].alive /\ path \in {q, Page}} |-> Snapshot(p)]

\* A request is answered from the posts as they are now, or fails.
Answer(path) ==
    /\ inFlight[path].state = "sent"
    /\ \E reply \in {Empty, PostsAt(path)} :
         inFlight' = [inFlight EXCEPT ![path].state = "answered", ![path].reply = reply]
    /\ UNCHANGED <<interest, worker, post, events, sequence, observed, resident,
                   tombstone, loads, others, history, budgets>>

AnswerRefresh(r) ==
    /\ refreshes[r].state = "sent"
    /\ \E reply \in {Empty, PostsAt(Page)} :
         refreshes' = [refreshes EXCEPT ![r] = [state |-> "answered", reply |-> reply]]
    /\ UNCHANGED <<interest, worker, post, events, repository, calls, history, budgets>>

\* The user's own change is published like any other, and acknowledged; or refused.
AnswerCall(w) ==
    LET p == calls[w].id
        at == post[p].at + 1
        new == [at |-> at, text |-> at, liked |-> post[p].liked, alive |-> TRUE]
        Reply(body) == calls' = [calls EXCEPT ![w].state = "answered", ![w].body = body] IN
    /\ calls[w].state = "sent"
    /\ \/ /\ calls[w].kind # "visit" /\ at =< MaxRev
          /\ IF calls[w].kind = "post" THEN post[p].at = 0 ELSE post[p].alive
          /\ Revise(p, new, IF calls[w].kind = "post" THEN "posted" ELSE "edited")
          /\ Reply([at |-> at, text |-> at, liked |-> new.liked])
       \/ /\ calls[w].kind = "visit" /\ post[p].alive
          /\ Reply(Snapshot(p))
          /\ UNCHANGED <<post, events>>
       \/ /\ calls' = [calls EXCEPT ![w].state = "done"]
          /\ UNCHANGED <<post, events>>
    /\ UNCHANGED <<interest, worker, repository, refreshes, history, budgets>>

Next ==
    \/ \E p \in Posts : loadPost(p) \/ evictPostBody(p) \/ Mutate(p)
    \/ loadChannelPage \/ loadCachedChannelTail
    \/ \E path \in Paths : httpFinished(path) \/ Answer(path)
    \/ readFinished \/ handleEvent \/ workerStep
    \/ recordChannelOpened \/ restart
    \/ streamLost
    \/ \E r \in DOMAIN refreshes : refreshFinished(r) \/ AnswerRefresh(r)
    \/ \E p \in Posts, kind \in CallKinds : call(p, kind)
    \/ \E w \in DOMAIN calls : callFinished(w) \/ AnswerCall(w)

Spec == Init /\ [][Next]_vars

-------------------------------------------------------------------------------
(* Properties                                                                 *)

\* An HTTP reply asked for before a full snapshot arrived by an event does not take
\* a resident body back behind that snapshot, however late it comes, whatever it
\* shares a request with.  Bodies from disk are provisional and exempt, and so are
\* those that came past the sequence.
ResidentNotBehind ==
    \A p \in Posts : resident[p] # None /\ p \notin cached \cup unfenced
                      => resident[p].at >= seen[p]

\* Posts the user wrote, edited or followed a permalink to: such an answer takes its
\* sequence when it arrives, so the row it leaves may be older than it claims to be.
Called == {calls[w].id : w \in DOMAIN calls}

\* Once its deletion was handled, neither a late reply, nor a row, nor a read that
\* was under way brings a post back to life in this session.
NoResurrection ==
    \A p \in gone \ Called : resident[p] = None \/ p \in tombstone \cup unfenced

\* The rows never go back behind a deletion or reaction the worker has executed.
RowsNotBehindInvalidation ==
    \A p \in Posts \ Called : disk[p] # None => disk[p].at >= purged[p]

\* A body that a server snapshot established is never replaced by one from disk:
\* reads fill absence, whatever happened while they were under way.
CacheFillsOnlyAbsence ==
    [][\A p \in Posts :
         resident[p] # None /\ p \in cached' => p \in cached /\ restarts' = restarts]_vars

Quiet ==
    /\ events = <<>> /\ queue = <<>> /\ callbacks = <<>>
    /\ \A path \in Paths : inFlight[path].state = "idle"
    /\ \A r \in DOMAIN refreshes : refreshes[r].state = "done"
    /\ \A w \in DOMAIN calls : calls[w].state = "done"

\* When everything under way has arrived, and no stream was lost, the bodies the server
\* established say what the server says: replies and events that crossed each other left
\* no trace.
Converges ==
    Quiet /\ refreshes = <<>> =>
      \A p \in Posts \ Called : resident[p] # None /\ p \notin cached =>
        IF post[p].alive
        THEN /\ resident[p].text = post[p].text /\ resident[p].liked = post[p].liked
             /\ p \notin tombstone
        ELSE p \in tombstone

\* A load whose two sources have both reported has reported too.
NoLoadForgotten ==
    \A l \in DOMAIN loads : loads[l].cacheDone /\ loads[l].httpDone
                              => loads[l].delivered # "no"

=============================================================================
