# Verification of MatterLeast

MatterLeast (`src/`, repository mattermost-qt) is a desktop client for Mattermost
written in C++ with Qt. This directory holds TLA+ models of the parts of it that
carry state and protocol, TLC configurations that check them on small instances,
and TLAPS proofs of what matters most for every value of the constants.

- [The system](#the-system): components, state, how they interact, what is hard
- [The modules](#the-modules): which module models what, and how it corresponds to the code
- [The runs](#the-runs): what TLC checks, with which bounds, and what it shows
- [Fairness](#fairness)
- [The proofs](#the-proofs)
- [Known deviations](#known-deviations): what the properties except, and why
- [Not modelled](#not-modelled)
- [Plan](#plan)

To run everything by hand: `tlc -config X.cfg M` with the module and configuration
of a line of the table of runs, `tlapm M.tla` for a module of proofs. `PROJECT.json`
lists components, runs, a mutant of the model for each checked property, the map from
definitions to lines of source, hazards and theorems.

## The system

The client has one main thread with an event loop, and one worker thread for the
post cache. Nothing in the main thread is preempted, but very little is atomic: each
HTTP request, cache read and timer splits an operation into a part before and a part
after, and anything may happen between. That is where the bugs of such a program live,
and what the models are about.

| Component | State | Operations | Correct when |
|---|---|---|---|
| **WebSocketConnector** | token, endpoint, socket, connection id and sequence of the stream, reconnect, attempt and two heartbeat timers, flags | log-in, log-out, retry; socket signals; timers; packets | events are handed on in order, once and without an unnoticed gap; never stuck without a timer |
| **HTTPConnector** (one per service) | two queues each, replies that are out, counters, generation; one limit of six for all | get/post/put/delete; reply; reset; restart; destruction | slots counted exactly, every call ends once, writes never repeated, no idle slot |
| **PostRepository** | observation sequence, resident watermarks, requests in flight, leases | loads of a post, page, window, thread, cached tail; notes from events | an old snapshot never replaces a newer one; a deleted post stays deleted; each caller hears once |
| **PostCacheService / PostCacheStore** | command queue, invalidation watermarks, rows | store, remove, load, maintenance | no row older than an executed invalidation |
| **BackendChannel, BackendPost** | resident bodies, reply relations | add, edit, delete, merge of pages, eviction | one body per id; summaries count each reply once |
| **WebSocketEventHandler** | posts of direct channels being resolved | one handler per event | every event applied to memory, disk and counters alike |
| **Backend, Storage** | session, current channel, teams, channels, users | log-in, log-out, refresh after a lost stream, many calls | nothing of one session reaches the next |
| **RealtimeFallbackService** | polling, one request | start, stop, timer, reply | posts arrive without the socket, announced once |
| **PostCreateService, OutgoingPostCreator** | pending posts, retries | create, edit, delete, retry | a post is created once however often it is sent, a poll once for each press of Send |
| **FollowingModel, ThreadFollowService** | followed threads, read boundary, manual unread marks, refresh state | read, unread, follow, snapshot | the last wish of the user wins; no snapshot undoes it |
| **SidebarService, ChannelActivityTracker** | memberships, unread counters | membership, event, view, mark unread | the counters agree with the server once it is quiet |
| **Post sources, LongListWidget** | islands of posts, gaps, requests, heights | ranges, pages, live posts, jumps | each post at one place, in order; what is shown gets loaded |
| **AppNavigationService** | generation of the navigation | open channel, thread, post | only the latest navigation moves the view |
| **UserProfileService, MentionGroupService, RequestTracker** | wanted and known ids, waiters | ensure, flush, reply | each waiter is answered, nothing asked twice |

How they interact. `Backend` owns a `WebSocketConnector` and an `HTTPConnector`; each
service has an `HTTPConnector` of its own. `WebSocketConnector` emits `onConnect(isReconnect,
reliableResumeFailed)`, `onDisconnect` and `reliableResumeFailed` to `Backend`, and gives
events to `WebSocketEventHandler`. On a lost stream `Backend` fetches the current channel
again (`retrieveChannelPosts`). `RealtimeFallbackService` listens to the same two signals.
Handlers and HTTP replies reach resident bodies through `PostRepository`, which numbers them,
and the disk through `PostCacheService`, whose worker runs beside the main thread. A change
of network makes `WebSocketConnector` restart all HTTP transports (WebSocketConnector.cpp:336).

What is hard. *Three unordered roads*: events, replies and cache reads carry snapshots of the
same posts and arrive in any order. *Silence*: a peer that is gone does not say so.
*Re-entrancy*: a response handler may call the connector it was called from, an abort runs
handlers, `QWebSocket::abort` emits `disconnected` before it returns. *Restart of the process*
with commands queued. *Optimism*: read marks, follows and own posts are shown before the server
agrees. The list of hazards in `PROJECT.json` gives the line of each and the properties that
watch it. Where the code does the harm itself and a property therefore exempts it, or where the harm is
intended, the hazard has no property but a note that says so, and the deviations below tell what follows.

## The modules

```
WebSocketConnector ---refines--> EventDelivery        HTTPConnector <- MCHTTPConnector
                                      :
                                      : (assumed by)
                                      :
PostCacheWorker <- PostRepository <- MCPostRepository      RealtimeFallback

ThreadReads   ChannelReads      ChannelPosts <- MCChannelPosts   ThreadPosts
Composer      UserProfiles      Navigation <- MCNavigation
```

A component's theorems are in the module `<component>_proofs`, which EXTENDS it:
`WebSocketConnector_proofs`, `PostRepository_proofs`, `ThreadReads_proofs`, `ThreadPosts_proofs` and
`Composer_proofs`; those of `RealtimeFallback` and `ChannelPosts` share `ChannelRoots_proofs`, those of
`HTTPConnector` and `UserProfiles` `Services_proofs`, those of `ChannelReads` and `Navigation`
`Sidebar_proofs`. They are described under [The proofs](#the-proofs).

Arrows `<-` are EXTENDS. Definitions keep the names of the functions and members they
stand for; `PROJECT.json`, "map", gives the lines. Operators whose comment begins with
"mutant" are changed forms of the definition that follows them; no specification uses them.
The modules of the first group are about how posts and events reach the client, those
of the second about what the user sees and does with them. The latter take what the former
show for granted: events of a live stream arrive in order, and every call of `HTTPConnector`
ends once, in any order with the others.

### WebSocketConnector, EventDelivery

`WebSocketConnector` has the members of `WebSocketConnector::Private` as variables, and with
them the network (`link`, `up`, `down`) and the server's stream (`stream`, `log`). One action
is one call from the event loop with all it calls: `open`, `close`, `reconnectNow`,
`configFinished`, `connected`, `disconnected`, four timers, `networkChanged`, `answerReceived`
and `entryReceived` (the two kinds of packet of `onNewPacket`). The environment publishes
events (and may lose one on a live socket when `Lossy`), answers requests, kills the link
without notice, and restarts the server, which forgets the stream.

Decisions worth knowing:
- `abort()` emits `disconnected` synchronously, so `immediateReconnectPending`, set only around
  it, is the argument `immediate` of `socketGone`.
- `waitingForPong` and `heartbeatReplyTimer` change with `pendingPingSequence` and are that one
  variable. `helloReceived` is never read and left out.
- A delay is an armed timer that may fire at any time; one that beats a live peer costs a fault
  (`InTime`), because the code's delays are far longer than a round trip.
- The answer to the authentication is in the server's queue before or after the hello of a new stream
  (`ServerAnswers`), so either may report the connection (WebSocketConnector.cpp:668, 745-753).
- Request numbers are reused cyclically, and only when nothing under that number is on its way.
- The first report of a connection starts the history of the session. An event published between
  Backend's first HTTP load and the start of the stream is outside the model.

`EventDelivery` is what the rest of the client relies on: the last event handled, what a
refresh accounts for, whether a session is on, and three rules: events are handled in order,
gaps only where a refresh covers them, nothing outside a session. `DeliversInOrder`
instantiates it with `last` mapped to the last element of `handled` and `session` to `token`.

### PostCacheWorker, PostRepository

`PostCacheWorker` is the worker thread: a first-in first-out queue of store, remove and load
commands, the rows, the fence of each post, and results on their way back. `PostRepository`
EXTENDS it with the server's posts, the stream of events that `EventDelivery` promises, the
resident bodies and fences, one coalesced request per path, loads with their two sources, and
the roads that lead past the sequence.

A body is abstracted to what can be told apart: `at` (the revision it is a snapshot of), `text`
(the revision of the last edit it shows) and `liked` (one reaction). Reaction events carry no
body, as in the code. `interest` (hot, warm, cold) is the time since the channel was opened
measured against the two horizons of the cache policy. A row may vanish at any moment: this
stands for limits, expiry and corrupt payloads. The history variables `seen`, `gone`, `purged`,
`cached` and `unfenced` record what the properties compare with and influence no step. `Init`
includes every state an earlier session may have left on disk, stale rows included.

| Action | Code |
|---|---|
| `loadPost`, `loadChannelPage`, `loadCachedChannelTail` | calls of the same name; `coalescedGet` joins a request in flight and keeps its sequence |
| `httpFinished` | the reply: first `cachePosts`, then `ingest`, then the callers |
| `readFinished` | a cache result: `ingestCached` fills absence only |
| `handleEvent` | `handleEvent` of posted, edited, deleted and reaction events |
| `streamLost`, `refreshFinished` | `onConnect(true, true)` or `reliableResumeFailed`, and `Backend::retrieveChannelPosts` |
| `call`, `callFinished` | `createPost`, `editPost` and the permalink resolver, with `ingestCreatedPost`, `ingestEditedPost`, `ingestFetchedPost` |
| `evictPostBody`, `recordChannelOpened`, `restart` | the sweep, the passing of time, the end of the process |
| `workerStep` | the worker executes its oldest command, or a row goes |

### RealtimeFallback

Root posts of one channel, numbered by creation; the socket reduced to Backend's two signals;
polls as records of what was known when they left and what they will return. `pollNow`,
`startPolling`, `deliver` and `pollTimeout` are the service; `connected`, `refreshed`,
`postedEvent`, `ownPostCreated`, `openChannel` are what else puts posts into the channel. A
resumed stream still delivers the events of the outage, a new one does not and is followed by
Backend's refresh, which always succeeds here.

### HTTPConnector

Several connectors and one limit. The state is that of `HTTPConnector` (queues, counters,
replies that are out) and the control state that a stack of calls holds in the code:
`handling` (a response handler runs), `restarting`, `aborting` and `toRestart` (the snapshots
of `restartTransport` and `restartAllTransports`). While any of them is set the event loop
delivers nothing (`EventLoop`), but a handler may make calls and reset connectors
(`Application`). A reply of an earlier generation is a member of `old`. `processQueues` says
declaratively what the loop of the code achieves: slots are filled while any queue has a
request, low priority only when no high one waits. Each request is one call and is used once.

### ThreadReads

One followed thread: the entry of `FollowingModel`, the snapshots and calls of
`ThreadFollowService`, and the read cursor of the open thread with the gate that holds it back
after "mark as unread". The server serves calls in either order, a snapshot is a list of pages
fetched at different moments, and replies are announced by events meanwhile.

| Action | Code |
|---|---|
| `noteIncomingPost`, `clearSyntheticMentions` | a reply's event; the channel is viewed |
| `threadRefreshTimeout`, `ensureThreadsFresh`, `queryFollowingThreads`, `applyThreadSnapshot` | the debounced refresh, its pages, and what one snapshot does to the entry |
| `UpdateReadCursor`, `markPostUnread`, `setFollowing` | what the user does, shown before the server agrees |
| `ServeCall`, `readAnswered`, `unreadAnswered`, `followAnswered` | the server acts; the answer arrives, fails or comes late |

### ChannelReads

One channel's entry in `ChannelActivityTracker` and the five roads by which `SidebarService`
feeds it: membership pages, the list of channels, posted events, viewed events, answers to
"mark as unread". At start-up these come in any order with the client configuration and the
preferences, which decide whether replies count (`rootMode`).

### ChannelPosts

`ChannelPostSource` over `IndexedPostSource`, with `PostSourceRequestGate` and
`ChannelGapReconciliation`. The channel of the server is a growing `history` of versions; every
reply is a page of some version between the request and its delivery. A slot holds a post or
nothing. `RequestRange`, `requestBeforeFirst`, `NavigateTo` and `hydrateCachedTail` are the calls,
`Answer` the replies to each kind of request: absolute pages, pages beside a known post, probes of
the search for the oldest page, the run around a jump's target. `ServerChanges` and `EventArrives`
are the rest of the world. The first probe of a search writes what it found over what is known, the later ones combine
it (`initialAnswered`, `existsAnswered`). `MCChannelPosts` names the channels that are opened: their real length,
and the count the client was given, which may be too small, too large or missing.

### ThreadPosts

`ThreadPostSource` with its islands. Slot 0 is the root, the others are as many as the root says
it has replies. A page that continues a confirmed slot is authoritative; the replies around a
target of unknown rank are an island until a page joins it. `Request`, `Navigate`,
`hydrateCachedTail` and `onNewPost` are the calls, `Answer` and `Continue` what a reply and the
continuation of an island's load do. The reply count follows `BackendChannel` (events and
snapshots of the root). Replies are numbered by creation, so a reply's true rank is its number.

### Composer

`OutgoingPostCreator` with `PostCreateService` and `Backend::uploadFile`. What was composed is
frozen as one outgoing operation (a post, an edit, a poll command); files that are missing are
uploaded again first. The server recognises a `pending_post_id` it has seen; a poll command carries nothing to be
recognised by, so that each one that is run makes a poll, and `press` counts the presses of Send to tell them apart. Answers, failures and
events end the operation, in any order and also when they belong to an earlier one, because the
code's callbacks do not say which operation they are about.

### Navigation

`AppNavigationService` with the permalink resolver, `MainWindow::openChannelPost`,
`ChannelTree::openStoredChannel` with the refresh of categories and the joining of a channel, and
the placement of the view by `ChatArea`. `Later` is the queue of `QTimer::singleShot(0)`;
`nextTurn` runs its head. The generations of the two gates always move together and are one.
`Strange` are channels the client has no row for until they are fetched, and `ui.foreign`, chosen
at the start, those of them in teams it has no row for either. A placement whose area has moved on, by
`preparePostNavigation` or because it was closed, stays in the queue as a turn that does nothing (`Dropped`), as the
timer of the code does; what was put off by a drag is opened in any order, in one step (`activateChannelItems`).
A jump may fail, when the view cannot be locked to the post (MainWindowNavigation.cpp:181, 225-239): it counts as a
target that is not reached, like a request that fails (`refused`).

### UserProfiles

`UserProfileService` with the users of `Storage` and the `user_updated` event. Views show users by
id; for those not known the service fills batches after a short wait, and tells each view when all
it asked for have been answered. The picture is fetched for the version the profile names, and
after an outage the changed ones of the known users are asked for. One answer runs many callbacks,
some of which ask again from within: the operators take the state of the client as a record `c`, and
`Finish` runs them over the users of the answer in each order the server may return them. What the code
does in a loop whose turns do not depend on each other (the views told of one user, the pictures
asked for) is done at once. A profile is the
version of its picture. That the window of a refresh (`safeSince`) reaches back to every event that
was on its way when the stream broke is an assumption; the code allows five minutes.

## The runs

| Run | Shows | States |
|---|---|---|
| `connector` | never stranded, probe armed, reconnect remembered; endpoint current; states agree; nothing forgotten; implements `EventDelivery`; comes back after silence | 612 k |
| `repository` | root and reply, two revisions: every crossing of load, page, cached tail, events, worker and eviction | 2.6 M |
| `repository_roads` | one post, with a lost stream, a call of the user and a restart of the process, cold and hot | 3.9 M |
| `fallback` | one poll at a time, announced once; every post shown while the user sends nothing | 171 k |
| `http` | slots served and exact; calls accounted; writes sent once; every call returns | 212 k |
| `threads` | a mark is shown, a read stays while its call is pending, attention agrees with the server at rest | 1.4 M |
| `channel_reads` | once all has arrived, the channel is shown unread exactly when the server says so | 3.9 M |
| `channel_posts` | known posts at exact distances; every waiting range owned; the search narrows; known posts stay | 693 k |
| `thread_posts` | confirmed replies at their rank; no false neighbours; demands owned; confirmed replies stay | 184 k |
| `composer` | what was composed is kept until it is sent; a message is posted once, a poll at most once a press; an operation waits for something | 2.7 M |
| `navigation` | at rest the view is where the latest navigation led; nothing older moves it | 2.7 M |
| `users` | every view is told; profiles and pictures settle at the server's | 1.6 M |

Why the bounds are enough to be interesting:

- *connector*: two faults allow a lost link during the attempt that follows another loss, or a
  lost event and a forgotten stream; two log-ins make a config reply stale; three events make a
  replay overlap what was handled; one nudge covers a retry at each state. `MaxRequest = 3` is
  authentication and two pings in flight. `MaxStreams` is no smaller than log-ins, faults and
  nudges together, else the server could run out of streams to start and liveness fail for that.
- *repository*: two revisions and three sequences allow a load, a page and a tail with replies older
  and newer than the events; root and reply are needed where the fence of a root is raised by its
  reply; `ReplyOnce` keeps each reply from being created again. `repository_roads` trades the second
  post for one each of refresh, call and restart. Deadlock is not checked, here and in the other runs: a
  quiet client whose bounds are used up stops.
- *fallback*: four posts and three outages let a poll survive from one outage into the next,
  with one failure; liveness asks nothing of the socket.
- *http*: two connectors, five requests of all four kinds (read or write, high or low) and a
  limit of two: queues form, a restart finds replies to replay and a write to cancel, one reset
  falls into any handler. The proofs lift these bounds.
- *threads*: two calls overlap, so that a read and an unread are out together and are served in
  either order while a snapshot of two pages is on its way; one mark, one disturbance (a lost
  stream or a failed page).
- *channel_reads*: two posts, root or reply, mentioning or not; two views and a mark cross one
  another and the four requests of start-up. Only the default configuration and the two preferences
  that change its meaning are enumerated: the others fold into them.
- *channel_posts*: `PageSize = 2` instead of 200 keeps every boundary of a page within reach of six
  posts; five channels have counts too small, exact, too large and missing; two or three calls and
  changes each. The properties follow a behaviour until the count has `drifted` or a guess has `misled` (see below).
- *thread_posts*: four replies with a fetch of two: an island can lie before, after and between
  confirmed slots, and touch one; two demands share an island, one jump makes it. The constraint
  `Followed` ends a behaviour after four moves.
- *composer*: two operations, so that the first one's answer can be late; two files, so that one can
  be taken for the other; two faults, so that a delivery is uncertain and its retry fails.
- *navigation*: three channels (in the sidebar, fetched, to be joined), two navigations and a click.
- *users*: two batches' worth of ids with `BatchSize = 2` (100 in the code), one id the server does
  not have, one view that asks again when told. One change, one outage, one failure, one search; the
  run also holds with two changes and no search (3.5 M states).

Every property has a mutant in `PROJECT.json`: a change of one definition, of the kind a
plausible slip in the code would be, under which TLC finds the property violated. Type
invariants are not among the properties of the configurations. `TypeOK` of eight modules holds under the
constants of their runs (replace the INVARIANTS of a configuration by `TypeOK` to see it) and is proved
in all of them but `ChannelPosts` and `ThreadPosts`; those of the fallback, navigation and users are stated in their proof modules and proved.

## Fairness

- *connector*: timers that stay armed fire, packets that have arrived are received, the server
  answers, a config request finishes, `connected` is signalled, a closing socket closes: the
  event loop and the network stack do these by themselves. Nothing is assumed about a dead peer:
  that its silence is noticed is to be shown. Faults, log-ins and publications need not happen.
- *fallback*: the poll timer fires, events are handled, requests are answered or fail. **Not**
  that the socket comes up again.
- *http*: replies finish or fail, handlers return, restarts go on. The code sets no time limit on
  a request, so the first is an assumption about the network stack (see hazards).
- The other specifications state no fairness. What must happen in the end is stated there as what
  holds at rest (`AttentionSettles`, `UnreadShown`, `LatestWins`, `ProfilesSettle`), or as an owner
  for everything that waits (`NoLoadForgotten`, `RequestsOwned`, `DemandsOwned`, `WaitsForSomething`,
  `ViewsServed`): a step that will come is what the waiting one needs.

## The proofs

All are checked by `tlapm` with no assumption beyond the named ASSUMEs of the constants, which
state types, that the limit of HTTP and the size of a batch of profiles are positive, that the
requests and the users are finite, that a page of a thread holds at least one reply, and that the root of a
reply is no reply, with channels, posts and the marks of the model apart. Each inductive invariant was first checked by TLC on the
configuration of the component's run. Every proof module has the same plan: the invariant as named
parts, lemmas about the operators, one lemma per action (and under it a step per part the action
can disturb), and theorems that combine them.

| Module | Theorem | States | Run |
|---|---|---|---|
| `WebSocketConnector_proofs` | `AlwaysRecovers` (with its parts `RemembersReconnect`, `NotStranded`, `Probed`) | `Recovers` | `connector` |
| | `EndpointNeverStale` | `EndpointCurrent` | `connector` |
| | `StatesAgree` | `Consistent` | `connector` |
| | `NothingIsForgotten` | `NothingForgotten` | `connector` |
| | `Delivers` | `DeliversInOrder`, the refinement of `EventDelivery` | `connector` |
| `Services_proofs` | `SlotsAlwaysServed` (with `SlotsExact`, `LimitHolds`, `NoSlotIdle`) | `SlotsServed` | `http` |
| | `CallsAccounted`, `WritesNotRepeated` | `Accounted`, `WritesSentOnce` | `http` |
| | `EveryViewServed`, `EveryProfileSettles` (with `ProfilesTyped`) | `ViewsServed`, `ProfilesSettle` | `users` |
| `ChannelRoots_proofs` | `PollsOnce` | `OnePoll` | `fallback` |
| | `EveryRangeOwned`, `SearchStaysNarrow` | `RequestsOwned`, `SearchNarrows` | `channel_posts` |
| `PostRepository_proofs` | `EveryLoadReports`, `FillsOnlyAbsence` | `NoLoadForgotten`, `CacheFillsOnlyAbsence` | `repository`, `repository_roads` |
| | `RowsHold`, `ResidentHolds` | `RowsNotBehindInvalidation`, `ResidentNotBehind` | the same |
| | `StaysGone`, `Agreement` | `NoResurrection`, `Converges` | the same |
| `ThreadReads_proofs` | `MarkStands`, `ReadStands`, `Settles` | `MarkShown`, `ReadHeld`, `AttentionSettles` | `threads` |
| `Sidebar_proofs` | `ShownWhenBehind`, `QuietWhenRead` | `UnreadShown`, `ReadShown` | `channel_reads` |
| | `LatestShown`, `OnlyLatestMoves` (with `NavigationTyped`) | `LatestWins`, `MovesForLatest` | `navigation` |
| `ThreadPosts_proofs` | `EveryDemandIsOwned` | `DemandsOwned` | `thread_posts` |
| | `RanksAreExact` | `ExactRanks` | `thread_posts` |
| | `ConfirmedRepliesStay` | `ConfirmedStays` | `thread_posts` |
| `Composer_proofs` | `KeepsUntilSent`, `PostsOnce`, `AlwaysWaits` | `KeptUntilSent`, `PostedOnce`, `WaitsForSomething` | `composer` |

All but `ThreadPosts_proofs` also have `TypeCorrect`; in `ChannelRoots_proofs` it is that of `RealtimeFallback`.

**WebSocketConnector_proofs**, for any numbers of events, streams, faults, log-ins and requests.
*The connection.* That a reconnect timer is armed depends on which socket states go with which
connection states, so no property of recovery is inductive by itself. The invariant is `TypeOK /\
Discipline`, where `Discipline` joins them with `Consistent` (token against connection state,
`suppressReconnect` only while a socket is closing after log-out, an attempt timer whenever a
socket is on its way, and so on). The calls the handlers share (`openSocket`, `socketGone`,
`scheduleReconnect`) have lemmas that the actions cite.
*The stream.* `Delivering` says what is on the wire and how it stands to the server's log:
packets are entries of the server's log, which is ordered (`WireFaithful`, `LogOrdered`, `StreamIds`);
a connection that got a new stream finds its hello before any event (`HelloFirst`); what lies ahead in the log was not
handled (`AheadIsNew`), what was missed is covered by a refresh or lies ahead (`MissedIsAhead`), what lies
behind was handled or covered (`BehindIsDone`); a failed resume is settled with the hello that tells of
it (`ResumeSettled`). Most actions do nothing to the stream or cut the wire; the steps
are therefore sorted into a few kinds (`Idle`, `Dropped`, `Advance`, ...), each of which preserves
`Delivering`, and every action is shown to be of one kind. The refinement is a step simulation:
under `Delivering` each step is a step of `EventDelivery` or leaves its variables as they are.

**Services_proofs**, `HTTPConnector`, for any connectors, any finite set of requests, any limit.
The inductive invariant `IInv` joins `TypeOK`, `SlotsMatch` and `LimitKept` with
- `Places`: queues hold only requests of their connector and priority, each once; a call is
  pending exactly when queued or out; a request is both queued and out only while its reply is
  about to be aborted for a replay;
- `Control`: one handler and one restart at a time, and aborts belong to the restart;
- `Sent`: a write still waiting has never been sent;
- `Served`: unless a restart is on or the slots are full, the queues are empty.

The key lemma is `Serve`: from any state that is `Ready` (all the invariant but `Served`, which
is what callers of `processQueues` have broken), `processQueues` re-establishes everything.
Each action then shows that it hands `processQueues` a ready state, or leaves the queues alone
for a reason `Control` names. Counting uses the cardinality theorems of the library.

`UserProfiles`, for any finite set of users, any views and layouts, any size of a batch. The invariant has two parts.
`Books`: who is waited for is queued or in flight and never both, who is in flight is in exactly one request, each view has
as many answers left as there are users it waits for, and a queue that is not empty has its timer or a request (`Timed`).
It is kept call by call (`Kept`), since one answer runs `finishProfile` for each of its users and a view
told by one may ask again before the next: `FinishKeeps` goes along the answer by the least counterexample.
`News`: the profile of a known user is the server's, or its version is *on its way* (`Coming`): in an event, or in a refresh that will
tell it (`Refreshes`), with all that this needs: the last event of a user tells the server's version (`EventsOf`); a change
whose event may be lost fell into the outage a refresh will reach back to (`StreamOf`); a reply tells versions the server had
(`RepliesOf`); a wanted picture is there, being fetched, or given up (`Pictures`). `ConnectNews`, where lost events turn into a refresh,
and `AnsweredNews`, where what a refresh was to tell has been told, goes on into the next batch or is given up, are
the heart of it. When nothing is on its way, `News` is the property.

**ChannelRoots_proofs**, `RealtimeFallback`. The flag `requestInFlight` and the set of polls agree (`OneOut`), and
a post that was announced is in memory and known to the poll that is out (`PollsKnow`). That the newest post of a set exists is an induction over finite sets, done as an
argument about a smallest counterexample.

`ChannelPosts`: the invariant `Accounts`. For every demand the calls it is owed equal its requests under way,
plus its place at the gate, plus its calls that wait for the search (`Balanced`); the gate is closed by exactly one gated
request (`Gating`); a search that is on is waited for and has exactly one request under way, of a page above the greatest
known to be written and below the least known to be empty unless an empty page has joined it (`Searching`); nobody waits
for a demand that is still to come (`Fresh`). Most of the proof is that the placing of posts (`placePage`, `publishAfter`,
`publishBefore`, `growWindow`, `placeNavigationContext` and what they call) touches none of this (`Placed`), and that each
decision of `probeOldestBoundary` asks within those bounds or ends the search (`ProbeGoesOn`). While a reply is handled
the books are open: `Balanced(s, d)` says that demand `d` is owed one call that no request carries, and
each handler is shown to start there and to end with closed books. `requestRange` is the same for a demand that is being made.

**PostRepository_proofs**, for any posts, revisions and sequences. Nothing here is inductive alone:
an answer in flight carries the sequence of its request, an event raises the fence in memory at
once and the fence of the worker when the removal it queued is executed. The argument is the code's own:
whoever handles an event of a post raises `observed` above the sequence of everything that is out,
so an answer that still passes left afterwards and is at least as new. `Shape` bounds every sequence,
`Follows` orders the events that are to come against what was handled, `RowsRight` carries the
bound through the worker's queue, `AnswersNotBehind` and `AnswersGone` through the answers, `RowsGone` says
that each row of a deleted post has a removal before it is read, `Agrees` says that a body
differs from the server's only where an event that repairs it is still to come.

**ThreadReads_proofs**. `MarkSafe` is the mark with the attention key, the read calls under way
and the gate of the cursor. `Settles` needs more: `Backed` (an unconfirmed read is at work) and `Current`: when no refresh
is due any more, a snapshot under way tells what the server would tell now, and otherwise the entry does.

**Sidebar_proofs**, `ChannelReads`. Each post behind the server's read mark is *accounted* for: its event is
still to come after the last view, or it is noted, or marked, or among the totals and not among what the
entry counts as read (`AllAccounted`); and everything shown as unread is backed by such a post (`NotedBehind`,
`StreamBehind`, `MembershipHeld`). `Alone` says that a mark the properties speak of crosses nothing.
The invariant holds through every order in which channels, memberships, configuration and preferences arrive.

`Navigation`, for any channels, posts, threads and numbers of navigations, clicks, failures and drags. That the window ends at
what was chosen last says nothing of the steps before, so the invariant follows the navigation through them (`Chased`).
*Whatever the latest navigation has left to be done is what the user chose last* (`Aimed`): each retry that waits for a channel,
each turn of the queue and each look-up of its generation has the wish as its target, or a thread that is open and
only to be shown (`OnlyShown`). *And it has not been lost*: the channel is among the refused, or a look-up is out, or it
is `Underway`: a turn will open it, or it waits for an admission or the end of a drag that is really pending (`Waiting`), or it has
`Arrived`, where a jump still in the queue counts if no placement the view takes by itself is in the queue with it (`Weak`). That is
why `preparePostNavigation` is needed: the jump stands behind the placements that activating the channel has left.
Older generations are covered by what they cannot do: `Aimed` speaks only of the turns of the latest (`Due`), so that a turn, retry
or answer of another leaves the window as it is, or only places a view that is at rest. The calls that open things
(`openChannelPost`, `openThreadArea`, `openStoredChannel`, `storedChannelOpenFinished`) have lemmas of two kinds, which
fields they leave alone (`But`) and that opening what is sought keeps to it (`OpenedChased`); each action is then a step of the
window that keeps the wish (`ChaseKept`), a new navigation (`Begins`) or a click that finds nothing left to be
done (`NotBusy`). `MovesForLatest` comes out of the same steps (`StepOK`), so it needs no proof of its own.

**Composer_proofs**. An operation carries its number, files and pending id unchanged (`Started`), and so does each
request for it (`Owned`); the server makes one post per pending id and one poll per command, and
what was made is announced (`Made`); no two commands, and no command still to be run and poll, are of one press of
Send (`Pressed`); a post is sent only when no file is missing (`Attached`); an operation that waits has a request
or an event to wait for (`Waits`).

**ThreadPosts_proofs**. The demands and what is under way for them match one to one: the waiters of two
requests are disjoint, every waiter is a demand, every demand has one (`Matched`). `continueDemand`
breaks this on entry, since the demand it goes on with has no request: `Going(w, d)` is the invariant
with just that demand loose, `Gone` that it is finished or owned again. Every call below it (`pageDemand`,
`islandDemand`, `sendPage`) is shown to lead from `Going` to `Gone`, and every answer to hand on a `Going` state.
That a free identity exists for a new demand is the pigeonhole principle over the calls made.

*Ranks.* A placement can only go wrong through a later one: an island that is put somewhere today is moved,
merged and confirmed by pages that arrive much later. What holds of the timeline throughout is `Fine`:
confirmed replies are at their ranks (`Ranked`); no island shares a reply with them (`Unconfirmed`), so a
merge never drags a confirmed reply along; an island that shares replies with an earlier one lies in it
(`Nested`), so moving the islands one by one never shows a reply twice; and no island takes all the slots
(`Fits`, `Small`), since a window as long as the thread would be ranked by its length. `Tidy` adds what an
answer relies on: the islands are of known replies, a request under way continues from a slot that is
still what it was or says so, and was served by a server that had all the root counts (`Ready`).
Each way to write (`SettleExact`, `SettleFree`, `ExactPlaced`, `FreePlaced`, `PagePlaced`,
`IslandPlaced`, `GrownFine`, `LiveFine`, `CachedFine`, `SinglePlaced`) is shown to keep `Fine` and what is
confirmed (`Keeps`), and each action to be made of those. `OriginsTell` is the heart of it: every proof of
rank that `placeIsland` accepts (an end of the thread, its length, a confirmed reply) gives the same
slot, or one the last confirmed slot refuses. `makeRoom` and `placeExactWindow` go through the islands by
recursive functions; their inductions are done over the islands looked at (`Upward`, from the least
counterexample). Both theorems except states in which the count has been out of step (`drifted`), as the properties do.

*What the proofs changed.* Looking for inductive invariants showed what the runs had not. Of the
models: `Init` of the fallback, the repository and the channel reads admitted states beyond their bounds (a post
created although `MaxPosts = 0`, a revision above `MaxRev`, more posts than `MaxPosts`); now they do not.
In `ThreadPosts` a merge joined only what shares replies with the window itself, where the code goes on until nothing
grows; islands in the way of an exact placement moved alone, where the code merges them again; and the test that excepts
a window placed by the count looked at the answer instead of the merged window. In `ChannelPosts` slots
were inserted where asked, where `insertEmptyLogicalSlots` clamps the position (IndexedPostSource.cpp:137), and
`ExactDistances` was stated without `misled`. Of the code:
an answer to an own edit or a permalink lookup that arrives after the deletion of its post brings the post back from the
cache (`Called`), and an empty page that joins a search makes it ask for one page for ever (`Joined`); both are
under [Known deviations](#known-deviations), and the properties now except exactly them.

*Checked by TLC only.*
- `ExactDistances` and `KnownPostsStay` of `ChannelPosts`: they need what each page in flight says about the
  version it was cut from.
- `NoFalseAdjacency` of `ThreadPosts`: it needs the empty slot that each placement keeps on both sides to
  survive all others, which `Fine` does not say.
- Out of the prover's reach: liveness under fairness (`ComesBack`, `ShownUnlessOwn`, `EveryCallReturns`) and ENABLED.
  The theorems of the library that do induction take an operator, which the installed provers cannot instantiate; where a proof
  needs an induction, it argues about the least counterexample instead (`Least`, `MaxExists`).

No module uses RECURSIVE operators.

## Known deviations

Where the code does something else than its comments or a reader would expect, the properties
except exactly that, by a history variable named for it, and only until the state has recovered.
Configurations that show a deviation as a counterexample are kept beside those of the runs:
`Composer_lost.cfg` (`NothingLost`), `ChannelPosts_search.cfg` (`SearchProvesCount`),
`ChannelPosts_joined.cfg` (`Narrow`), `RealtimeFallback_own.cfg` (`EveryPostShown`),
`ThreadReads_undone.cfg` (`ReadNotUndone`) and `Navigation_stuck.cfg` (`AdmissionsEnd`).

*Repository* (`unfenced`, `cached`, `Called`). A body shown from a stale row keeps its old text when a reaction
arrives while the validating request is out: the reaction raises the fence, the reply is dropped, and
nothing asks again (PostRepository.cpp:1004; docs/post-cache.md:286-287). The refresh after a lost
stream is merged past the fence (Backend.cpp:852; docs/post-cache-runtime.md:150). Replies to own edits
and permalink lookups are numbered on arrival and so pass the worker's fence (PostCreateService.cpp:291;
docs/post-cache-runtime.md:143,179): one that arrives after the deletion of its post was handled stores
a row above every fence, and once the body is evicted a read of the cache shows the deleted post again.
`Called` are the posts such a call was about.

*Fallback*. A post of the user's own, acknowledged during an outage, hides the posts of others created
before it from every later poll (RealtimeFallbackService.cpp:120; RealtimeFallbackService.h:11).

*ThreadReads*. The first snapshot that counts nothing, or that holds a newer reply, ends the suppression of
older ones, so that a reply covered by a read under way can show as unread again (FollowingModel.cpp:522),
although FollowingModel.h:70 says "Suppress a CRT response that predates an already-issued local read". Viewing the channel erases an entry made from a mention
even if it was marked unread (:344). The late success of an older read removes a newer mark (:750). The
call names the present moment, so it also reads replies that were never shown. A failed page looks like
an empty one. That two read calls are served out of order is excluded.

*ChannelReads* (`missed`, `crossed`). Events of a channel not known yet are dropped at start-up. A
membership page that left before a view brings its mentions back. A manual mark is lost to a view under
way, or to memberships or a configuration that arrive later. A second log-in in one process, which the
windows do not offer today, would find `SidebarService` cut off from `Backend` and without
configuration. `retrieveTeam` counts `nonFilledTeams` down without counting it up (Backend.cpp:632-715).

*ChannelPosts* (`drifted`, `misled`, `Joined`). A post announced while the oldest page is searched for makes
`reconcileRootCount` cut off the oldest post, although the comment at ChannelPostSource.cpp:1007 says
that the pages prove the count. A jump that reaches the oldest post fixes it at slot 0 although the
count is an estimate. A first page served before a live post is placed one slot too new (:1853). Deleting
a post that has no slot leaves the count off. A window guessed on the wrong side of known posts stands in the way of
the runs between them: slots are put beside it (ChannelPostSource.cpp:318) and stay too many once the guess is gone,
a deletion takes its slot at the guessed place, and a page that holds its posts but would begin it before the first slot
is written without it, so that a slide of the window can write a post again that was deleted meanwhile (:353). These
need a channel longer than those of the run; random behaviours of channels of 9 to 12 posts, with counts of 9 to 14
and six inputs, show them, and nothing else that breaks `ExactDistances`. An ordinary page that comes back empty joins the search
(ChannelPostSource.cpp:945) and lowers the empty boundary without a look at the page known to be
written, although the channel may have grown meanwhile: the search then believes one page both written
and empty and asks for the one after it for ever, until a request fails or the channel grows again. Deletions by others are not modelled.

*ThreadPosts* (`drifted`). The cached tail stands next to an island without a free slot until it is confirmed. A reply
that the root's snapshot already counts is counted again by its event (BackendChannel.cpp:146), and one
whose body was known before its event is not counted. Assumed: the server answers in order, nothing is
deleted, bodies stay resident. Making room for one island that a page confirms can move another, looked at before, into the
page; its slots are then taken while it is kept as an island, which no property here forbids (ThreadPostSource.cpp:1157).

*Composer* (`crossed`, `unheard`). `onPostReceived` takes any change of the edited post for the
acknowledgement of the edit, also one made by a deleted reply (BackendChannelDeletion.cpp:46) or by a page
(BackendChannel.cpp:265): the editor is cleared and a later failure finds nothing outgoing
(OutgoingPostCreator.cpp:654), although OutgoingPostCreator.h:88 says "Once an edit has been submitted,
keep the immutable request data until the HTTP transaction succeeds or the user explicitly retries it."
The late answer of an earlier operation acts on the present one; that of an upload can fill another
operation's slot. A poll ends only when the bot's post is seen: PostCreateService.cpp:247-250 says "A successful command HTTP
response is not a reliable poll acknowledgement" and reports failures only, whereas OutgoingPostCreator.cpp:657-660
says of a poll that "Its HTTP submit response is therefore the acknowledgement for this operation". A command that the
bot refuses, or whose post is not seen, thus leaves the composer waiting for ever (`unheard`), and a command
sent again after an uncertain delivery makes a second poll, of which `PostedOnce` says only that the
user must have pressed Send for it. Files attached meanwhile are dropped when a poll ends. Assumed: the server
recognises a pending id for ever.

*Navigation* (`overtaken`). NavigationRequestGate.h:12 says "Every user navigation starts a new
generation"; clicks on rows, closing threads and picks of the quick list do not, so that a navigation
under way still moves the view after them, and an unread-post lookup of the quick list begins a
navigation over a newer choice. A dragged row puts an opening off and drops its jump; a jump that cannot be locked leaves the view where the
opening put it, and nothing tells the user. A category request
that fails leaves the admission pending for ever, because openStoredChannel gives no error callback
(ChannelTreeNavigation.cpp:149, 212). A channel of a team that has no row, of which the user is a member,
makes it ask for categories without end.

*UserProfiles* (`late`, `unrefreshed`, `denied`, `overtaken`). Profiles carry no fence: an answer that
left before a change and arrives after its event brings the old profile back. A refresh that fails is not
repeated, and the next asks only from the next outage on. A picture that failed is fetched again only
when someone asks. When the version changes while a user's first picture is on its way, the answer is
dropped (UserProfileService.cpp:212) and nobody asks again, because the handler looks only whether a
picture was loaded (WebSocketEventHandler.cpp:388). A list that asks again when told does so up to ten times a
second for an id the server does not have (AttentionList.cpp:409, ThreadSummaryWidget.cpp:257).

## Not modelled

- Widgets, dialogs, painting, settings, formatting: presentation.
- JSON parsing of events and types: the models work on the parsed records.
- Generated emoji tables, `sources/deprecated` (excluded from the build by CMakeLists.txt:161),
  `third_party`, `tools`.
- Lifetimes of C++ objects: a dangling pointer is not a state of these models.
- `UserProfileService::clear`, which drops queues, requests and waiters when a main window is made (mainwindow.cpp:162): `UserProfiles`
  is one session, in which views that are waiting are not forgotten.
- `PostCollectionView`, `FilteredPostSource`, `MentionGroupService`, presence, the history stacks of
  `NavigationUiController`, detached threads, the heights of `LongListWidget`, categories of the sidebar.
- Within the modelled parts: several accounts and channels in the repository, pruning of
  watermarks (thousands of posts and an hour), the callbacks of a page load, log-out in the
  fallback, delays and backoff; assumptions under "Known deviations".

## Plan

1. *Done*: the connection, the repository with its worker, the fallback, the HTTP transport, with proofs
   for the first and the last; read state of threads and channels; the post sources of channels and
   threads; outgoing posts; navigation; users.
2. *Done*: proofs for every module that is run (see [The proofs](#the-proofs)).
   **Still to prove**, in this order: `KnownPostsStay` (a post leaves the timeline only by being deleted or with the island it was
   guessed in) and `ExactDistances` (what a page in flight says of the version it was cut from); `NoFalseAdjacency` (the empty
   slots around each island, on top of `Tidy`).
3. **Still to model**: the history stacks of `NavigationUiController`; `PostCollectionView`, whose pages
   shift when a saved post is removed; direct channels being resolved with their queue of 32;
   `MentionGroupService`; `FilteredPostSource`; leases, the sweep and the limits of `PostCacheStore`; the
   height tree of `LongListWidget` against sums.
