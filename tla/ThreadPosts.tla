---------------------------- MODULE ThreadPosts ----------------------------
(* The post source of a thread: ThreadPostSource with IndexedPostSource and   *)
(* ThreadNavigationPlacement. A thread is a list of slots, as many as the     *)
(* root says it has replies; slot 0 is the root. Slots are filled by pages of *)
(* the server that continue a confirmed slot, by islands of replies around a  *)
(* target whose rank is not known yet, by the cached tail and by live         *)
(* replies.                                                                   *)
(*                                                                            *)
(* Replies are numbered by creation, so the rank of a reply is its number.    *)
(* Nothing is deleted, so a page of the server is an interval of numbers, and *)
(* so is an island. Bodies that were fetched stay resident.                   *)
EXTENDS Naturals, Sequences, FiniteSets

CONSTANTS
    MaxReplies,     \* replies the thread ever has
    Opened,         \* replies it has when it is opened
    Block,          \* ServerBlockSize, the smallest page
    MaxFetch,       \* the largest page
    Context,        \* replies asked for on each side of a target
    SeekDistance,   \* a seek that is further from what is known goes by time
    MaxAsks,        \* calls of requestRange
    MaxTargets,     \* calls of ensurePostIndex
    MaxMoves        \* calls, new replies and reads of the cached tail together

ASSUME ThreadPostsAssumption ==
    /\ {MaxReplies, Opened, Block, MaxFetch, Context, SeekDistance, MaxAsks, MaxTargets, MaxMoves} \subseteq Nat
    /\ Opened <= MaxReplies /\ Block > 0 /\ MaxFetch >= Block

VARIABLES
    server,     \* replies on the server
    seen,       \* replies whose event was handled
    root,       \* reply_count and last_reply_at of the resident root
    bodies,     \* replies whose relation to the root the channel knows
    timeline,   \* postIds, provisionalPostIds, islands, navigationPlacement
    epoch,      \* islandEpoch
    latest,     \* latestGeneration
    work,       \* unfinished demands, what is under way for them, islandLoad
    tail,       \* "reading" until the cached tail has been read
    asked, targeted,    \* calls made, counted against the bounds
    drifted     \* history: the count and the timeline have been out of step

vars == <<server, seen, root, bodies, timeline, epoch, latest, work, tail, asked, targeted, drifted>>

----------------------------------------------------------------------------
(* The timeline.                                                              *)

MaxOf(a, b) == IF a > b THEN a ELSE b
MinOf(a, b) == IF a < b THEN a ELSE b
Clamp(x, low, high) == MaxOf(low, MinOf(x, high))

NoTarget == [post |-> 0, estimated |-> FALSE]

Size(t) == Len(t.slots)
Mapped(t) == {t.slots[i] : i \in DOMAIN t.slots} \ {0}
indexOfPost(t, r) == IF r \in Mapped(t) THEN CHOOSE i \in DOMAIN t.slots : t.slots[i] = r ELSE 0

isAuthoritativeIndex(t, i) ==
    i = 0 \/ (i \in DOMAIN t.slots /\ t.slots[i] # 0 /\ t.slots[i] \notin t.provisional)
blocksMaterialization(t, r) == t.nav.estimated /\ t.nav.post = r
isAvailable(t, i) ==
    i = 0 \/ (i \in DOMAIN t.slots /\ t.slots[i] # 0 /\ ~blocksMaterialization(t, t.slots[i]))

(* An island: the replies lo..hi, shown from slot "first".                    *)
Ids(island) == island.lo .. island.hi
Count(island) == island.hi - island.lo + 1
LastSlot(island) == island.first + Count(island) - 1
Single(r, i) ==
    [target |-> r, lo |-> r, hi |-> r, first |-> i, ready |-> FALSE, oldest |-> FALSE, newest |-> FALSE]

\* The first island that has the reply, if there is one.
islandForPost(t, r) ==
    LET having == {k \in DOMAIN t.islands : r \in Ids(t.islands[k])}
    IN IF having = {} THEN <<>> ELSE <<t.islands[CHOOSE k \in having : \A j \in having : k <= j]>>

Touching(island, first, last) == island.first <= last + 1 /\ first <= LastSlot(island) + 1

Pruned(t) == [t EXCEPT !.provisional = @ \cap Mapped(t)]

currentLogicalCount(t, count) ==
    LET held == {i \in DOMAIN t.slots : t.slots[i] # 0 /\ isAuthoritativeIndex(t, i)}
    IN CHOOSE n \in held \cup {count} : \A m \in held \cup {count} : m <= n

resizeLogicalTail(t, n) ==
    [t EXCEPT !.slots = [i \in 1..n |-> IF i \in DOMAIN t.slots THEN t.slots[i] ELSE 0]]

syncLogicalCount(t, count) ==
    IF currentLogicalCount(t, count) = Size(t) THEN t
    ELSE Pruned(resizeLogicalTail(t, currentLogicalCount(t, count)))

(* Replies lo..hi get the slots from first on, and no others.                 *)
assignExactWindow(t, first, lo, hi) ==
    [t EXCEPT !.slots = [i \in DOMAIN t.slots |->
        IF i >= first /\ i + lo <= first + hi THEN lo + i - first
        ELSE IF t.slots[i] \in lo..hi THEN 0 ELSE t.slots[i]]]

Nearest(free, preferred) ==
    LET Far(i) == IF i < preferred THEN preferred - i ELSE i - preferred
    IN IF free = {} THEN 0
       ELSE CHOOSE i \in free : \A j \in free : Far(i) < Far(j) \/ (Far(i) = Far(j) /\ i <= j)

nearestEmptyIndex(t, preferred) == Nearest({i \in DOMAIN t.slots : t.slots[i] = 0}, preferred)

----------------------------------------------------------------------------
(* placeIsland: merge what shares replies, find out whether that fixes the    *)
(* rank, and put the result there or at a free place with an empty slot on    *)
(* both sides. "ok" is what the function returns; a refusal may come after    *)
(* other islands have moved.                                                  *)

\* What shares a reply with "next", or with an island that does, and so on.
Sharing(t, next) ==
    LET stored == {t.islands[k] : k \in DOMAIN t.islands}
        Closed(some) == \A island \in stored :
            (\E other \in some \cup {next} : Ids(island) \cap Ids(other) # {}) => island \in some
    IN {island \in stored : \A some \in SUBSET stored : Closed(some) => island \in some}

Merge(t, next) ==
    LET all == {next} \cup Sharing(t, next)
        lo == CHOOSE n \in {island.lo : island \in all} : \A island \in all : n <= island.lo
        hi == CHOOSE n \in {island.hi : island \in all} : \A island \in all : n >= island.hi
    IN [next EXCEPT !.lo = lo, !.hi = hi,
                    !.first = IF @ + lo >= next.lo THEN @ + lo - next.lo ELSE 0,
                    !.oldest = \E island \in all : island.oldest,
                    !.newest = \E island \in all : island.newest]

(* The first slots that a proof of rank allows: at most one, or no placement. *)
Origins(t, whole, given) ==
    given
    \cup (IF Count(whole) = Size(t) \/ whole.oldest THEN {1} ELSE {})
    \cup (IF whole.newest THEN {Size(t) + 1 - Count(whole)} ELSE {})
    \cup {indexOfPost(t, r) - (r - whole.lo) :
            r \in {q \in Ids(whole) : q \in Mapped(t) /\ isAuthoritativeIndex(t, indexOfPost(t, q))}}

Without(t, targets) ==
    LET gone == UNION {Ids(t.islands[k]) : k \in {j \in DOMAIN t.islands : t.islands[j].target \in targets}}
    IN [i \in DOMAIN t.slots |-> IF t.slots[i] \in gone \cap t.provisional THEN 0 ELSE t.slots[i]]

\* The islands but for those of the targets, in their order.
Others(islands, targets) ==
    LET After[k \in 0..Len(islands)] ==
            IF k = 0 THEN <<>>
            ELSE IF islands[k].target \in targets THEN After[k - 1] ELSE Append(After[k - 1], islands[k])
    IN After[Len(islands)]

settle(t, whole, targets, first, exact) ==
    LET ids == Ids(whole)
        left == Without(t, targets)
        others == Others(t.islands, targets)
    IN Pruned([slots |-> assignExactWindow([t EXCEPT !.slots = left], first, whole.lo, whole.hi).slots,
               provisional |-> IF exact THEN t.provisional \ ids ELSE t.provisional \cup ids,
               islands |-> IF exact THEN others ELSE Append(others, [whole EXCEPT !.first = first]),
               nav |-> IF t.nav.post \notin ids THEN t.nav
                       ELSE IF exact THEN NoTarget
                       ELSE [post |-> t.nav.post, estimated |-> ~whole.ready]])

(* mutant: an island keeps no empty slot to its neighbours. *)
freeSlotsTight(t, whole, targets, reserved) ==
    LET left == Without(t, targets)
    IN {s \in 1..Size(t) : /\ s + Count(whole) <= Size(t) + 1
                           /\ \A i \in s..(s + Count(whole) - 1) : left[i] = 0 /\ i \notin reserved}

freeSlots(t, whole, targets, reserved) ==
    LET left == Without(t, targets)
    IN {s \in 2..Size(t) : /\ s + Count(whole) <= Size(t)
                           /\ \A i \in (s - 1)..(s + Count(whole)) : left[i] = 0 /\ i \notin reserved}

placeFree(t, whole, targets, reserved) ==
    LET preferred == Clamp(whole.first, 1, MaxOf(1, Size(t) + 1 - Count(whole)))
        first == Nearest(freeSlots(t, whole, targets, reserved), preferred)
    IN IF first = 0 THEN [ok |-> FALSE, t |-> t]
       ELSE [ok |-> TRUE, t |-> settle(t, whole, targets, first, FALSE)]

\* The targets of the islands that a placement of "next" replaces.
Replaced(t, next) == {island.target : island \in Sharing(t, next)}

(* Islands in the way of exact replies move as a whole, or the placement fails. *)
MakeWay(room, island, targets, first, last) ==
    IF ~room.ok \/ island.target \in targets \/ ~Touching(island, first, last) THEN room
    ELSE placeFree(room.t, Merge(room.t, island), Replaced(room.t, island), first..last)

makeRoom(t, targets, first, last) ==
    LET After[k \in 0..Len(t.islands)] ==
            IF k = 0 THEN [ok |-> TRUE, t |-> t]
            ELSE MakeWay(After[k - 1], t.islands[k], targets, first, last)
    IN After[Len(t.islands)]

(* The rank is known, and "room" is what is left when others have moved.      *)
placeAt(room, whole, targets, first) ==
    LET left == Without(room.t, targets)
        taken == \E i \in first .. (first + Count(whole) - 1) :
                    /\ left[i] \notin {0, whole.lo + (i - first)}
                    /\ left[i] \notin room.t.provisional
    IN IF ~room.ok \/ taken THEN [room EXCEPT !.ok = FALSE]
       ELSE [ok |-> TRUE, t |-> settle(room.t, whole, targets, first, TRUE)]

placeWhole(t, whole, targets, origins, reserved) ==
    LET first == CHOOSE o \in origins : TRUE
        refused == \/ Cardinality(origins) > 1
                   \/ \E o \in origins : o < 1 \/ o + Count(whole) > Size(t) + 1
    IN IF refused THEN [ok |-> FALSE, t |-> t]
       ELSE IF origins = {} THEN placeFree(t, whole, targets, reserved)
       ELSE placeAt(makeRoom(t, targets, first, first + Count(whole) - 1), whole, targets, first)

placeIsland(t, next, given, reserved) ==
    LET whole == Merge(t, next)
    IN placeWhole(t, whole, Replaced(t, next),
                  Origins(t, whole, {o + whole.lo - next.lo : o \in given}), reserved)

(* mutant: islands are not moved out of the way of an exact page. *)
placeExactWindowOver(t, first, lo, hi) ==
    [ok |-> TRUE, t |-> Pruned(assignExactWindow([t EXCEPT !.provisional = @ \ (lo..hi)], first, lo, hi))]

(* Replies lo..hi at their confirmed ranks: islands that share a reply become *)
(* exact with them, islands that only touch the window move away.             *)
MoveAside(moved, islands, first, lo, hi) ==
    IF ~moved.ok \/ islands = <<>> THEN moved
    ELSE IF Ids(islands[1]) \cap lo..hi # {}
    THEN placeIsland(moved.t, islands[1], {first + islands[1].lo - lo}, {})
    ELSE IF Touching(islands[1], first, first + hi - lo)
    THEN placeIsland(moved.t, islands[1], {}, first..(first + hi - lo))
    ELSE moved

Confirm(moved, first, lo, hi) ==
    IF ~moved.ok THEN moved
    ELSE [ok |-> TRUE,
          t |-> Pruned(assignExactWindow([moved.t EXCEPT !.provisional = @ \ (lo..hi),
                                                         !.nav = IF @.post \in lo..hi THEN NoTarget ELSE @],
                                         first, lo, hi))]

placeExactWindow(t, first, lo, hi) ==
    LET After[k \in 0..Len(t.islands)] ==
            IF k = 0 THEN [ok |-> TRUE, t |-> t]
            ELSE MoveAside(After[k - 1], islandForPost(After[k - 1].t, t.islands[k].target), first, lo, hi)
    IN Confirm(After[Len(t.islands)], first, lo, hi)

----------------------------------------------------------------------------
(* Demands. A call of requestRange is one demand, or joins one whose page     *)
(* will reach it; a demand lives until it reports that it has finished.       *)
(* "under way" are requests of the server, and continuations that wait for    *)
(* the event loop. What a request returns is decided when it is answered.     *)

finishDemand(w, ids) == [w EXCEPT !.demands = {d \in @ : d.id \notin ids}]

(* "waiters": demands that end with the request; "since": what the server had *)
(* when it left; "sent" orders what is under way; "fenced": the root in it is *)
(* out of date. Each kind of request uses its own of the other fields.        *)
Ask(kind, demand) ==
    [kind |-> kind, demand |-> demand, waiters |-> {demand}, target |-> 0, bootstrap |-> FALSE,
     backward |-> FALSE, newest |-> FALSE, whole |-> FALSE, at |-> 0, anchor |-> 0, n |-> 0,
     epoch |-> 0, generation |-> 0, since |-> server, sent |-> 0, fenced |-> FALSE]

send(w, request) ==
    LET later == {r.sent + 1 : r \in w.underway} \cup {1}
        n == CHOOSE n \in later : \A m \in later : m <= n
    IN [w EXCEPT !.underway = @ \cup {[request EXCEPT !.sent = n]}]

Update(w, d) == [finishDemand(w, {d.id}) EXCEPT !.demands = @ \cup {d}]

(* The page request that continues slot left or right, both confirmed, over   *)
(* the missing slots from..to: the nearer, where a slot after the last stands *)
(* for the newest end. A seek to the middle goes by time when both are far.   *)
sendPage(w, t, d, from, to, left, right, middle) ==
    LET backward == right - to < from - left
        newest == backward /\ right = Size(t) + 1
        at == IF backward THEN right ELSE left
        anchor == IF newest \/ at = 0 THEN 0 ELSE t.slots[at]
        n == MinOf(MaxFetch, MaxOf(Block, IF backward THEN at - from ELSE to - at))
        key == <<backward, newest, anchor>>
    IN IF d.seek /\ MinOf(from - left, right - to) > SeekDistance
       THEN send(w, [Ask("seek", d.id) EXCEPT !.at = Clamp(middle, 1, Size(t)), !.epoch = epoch])
       ELSE IF key \in d.cursors THEN finishDemand(w, {d.id})
       ELSE send(Update(w, [d EXCEPT !.cursors = @ \cup {key},
                                     !.expected = IF backward THEN MaxOf(1, IF at > n THEN at - n ELSE 1)..(at - 1)
                                                  ELSE (at + 1)..MinOf(Size(t), at + n)]),
                 [Ask("page", d.id) EXCEPT !.backward = backward, !.newest = newest,
                                           !.at = at, !.anchor = anchor, !.n = n])

continueRun(w, t, d, from, to, middle) ==
    sendPage(w, t, d, from, to,
             CHOOSE i \in 0..(from - 1) :
                 isAuthoritativeIndex(t, i) /\ \A j \in (i + 1)..(from - 1) : ~isAuthoritativeIndex(t, j),
             CHOOSE i \in (to + 1)..(Size(t) + 1) :
                 /\ i = Size(t) + 1 \/ isAuthoritativeIndex(t, i)
                 /\ \A j \in (to + 1)..(i - 1) : ~isAuthoritativeIndex(t, j),
             middle)

(* The first run of missing slots in first..last. *)
pageDemand(w, t, d, first, last) ==
    LET missing == {i \in first..last : ~(isAvailable(t, i) /\ isAuthoritativeIndex(t, i))}
        from == CHOOSE i \in missing : \A j \in missing : i <= j
        to == CHOOSE i \in from..last : from..i \subseteq missing /\ i + 1 \notin missing
    IN IF missing = {} THEN finishDemand(w, {d.id})
       ELSE continueRun(w, t, d, from, to, (first + last) \div 2)

(* A demand for an island: joins the load that is under way, or starts one.   *)
islandDemand(w, t, d, generation) ==
    LET island == islandForPost(t, d.target)[1]
        joined == {r \in w.underway : /\ r.kind = "island" /\ r.demand = w.load /\ r.epoch = epoch
                                      /\ r.target = island.target /\ r.generation = generation}
        backward == island.ready /\ d.first < island.first
        forward == island.ready /\ d.last > LastSlot(island)
    IN IF islandForPost(t, d.target) = <<>> THEN finishDemand(w, {d.id})
       ELSE IF joined # {}
       THEN [w EXCEPT !.underway = (@ \ joined) \cup {[r EXCEPT !.waiters = @ \cup {d.id}] : r \in joined}]
       ELSE IF island.ready /\ ~backward /\ ~forward THEN finishDemand(w, {d.id})
       ELSE [send(w, [Ask("island", d.id) EXCEPT
                        !.target = island.target, !.epoch = epoch, !.generation = generation,
                        !.bootstrap = ~island.ready, !.backward = backward,
                        !.anchor = IF ~island.ready THEN island.target
                                   ELSE IF backward THEN island.lo ELSE island.hi,
                        !.n = IF ~island.ready THEN Context
                              ELSE Clamp(IF backward THEN island.first - d.first ELSE d.last - LastSlot(island),
                                         Block, MaxFetch)])
             EXCEPT !.load = d.id]

continueDemand(w, t, d, generation) ==
    LET confirmed == d.target # 0 /\ d.target \in Mapped(t)
                     /\ isAuthoritativeIndex(t, indexOfPost(t, d.target))
        i == indexOfPost(t, d.target)
        first == IF confirmed THEN IF i > Context THEN i - Context ELSE 0 ELSE d.first
        last == MinOf(Size(t), IF confirmed THEN i + Context ELSE d.last)
    IN IF d.generation < generation THEN finishDemand(w, {d.id})
       ELSE IF d.target # 0 /\ ~confirmed THEN islandDemand(w, t, d, generation)
       ELSE IF first > last THEN finishDemand(w, {d.id})
       ELSE pageDemand(w, t, IF confirmed THEN [d EXCEPT !.target = 0, !.first = first, !.last = last] ELSE d,
                       first, last)

----------------------------------------------------------------------------
(* The view.                                                                  *)

(* seedCachedPosts: the rows are placed at once only when they are all there. *)
Init ==
    /\ server = Opened
    /\ seen = server
    /\ root = [count |-> server, last |-> server]
    /\ bodies \in {{}, 1..server}
    /\ timeline = [slots |-> [i \in 1..server |-> IF bodies = 1..server THEN i ELSE 0],
                   provisional |-> {}, islands |-> <<>>, nav |-> NoTarget]
    /\ epoch = 0
    /\ latest = 0
    /\ work = [demands |-> {}, underway |-> {}, load |-> 0]
    /\ tail = "reading"
    /\ asked = 0
    /\ targeted = 0
    /\ drifted = FALSE

Interested(t, first, last) ==
    LET Reached(island) ==
            /\ Touching(island, first, last)
            /\ ~(first + 1 < island.first /\ first > 0 /\ isAuthoritativeIndex(t, first - 1))
    IN SelectSeq(t.islands, Reached)

requestRange(first, last, reason, generation) ==
    LET interested == Interested(timeline, first, last)
        target == IF interested # <<>> THEN interested[1].target
                  ELSE IF reason = "visible" THEN timeline.nav.post ELSE 0
        joins == {d \in work.demands :
                    /\ reason # "seek" /\ target = 0
                    /\ d.generation = generation /\ d.target = 0 /\ d.expected # {}
                    /\ \E i \in d.expected : first <= i + 1
                    /\ \E i \in d.expected : last + 1 >= i}
        new == [id |-> CHOOSE n \in 1..MaxAsks : n \notin {d.id : d \in work.demands},
                first |-> first, last |-> last, generation |-> generation, target |-> target,
                expected |-> {}, seek |-> reason = "seek", cursors |-> {}]
    IN /\ asked < MaxAsks
       /\ asked' = asked + 1
       /\ latest' = generation
       /\ IF joins # {}
          THEN \E d \in joins : work' = Update(work, [d EXCEPT !.first = MinOf(@, first), !.last = MaxOf(@, last)])
          ELSE work' = continueDemand(Update(work, new), timeline, new, generation)
       /\ UNCHANGED <<server, seen, root, bodies, timeline, epoch, tail, targeted, drifted>>

(* LongListWidget asks for runs it cannot show; a seek starts a generation.   *)
Request ==
    \E first \in 0..Size(timeline), reason \in {"scroll", "seek", "visible"} :
        \E last \in first..MinOf(first + 1, Size(timeline)) :
            /\ \A i \in first..last : ~isAvailable(timeline, i)
            /\ reason = "visible" => timeline.nav.post # 0
            /\ requestRange(first, last, reason, IF reason = "seek" THEN latest + 1 ELSE latest)

(* The body of the target has been fetched; where it is put is an estimate.   *)
ensurePostIndex(r) ==
    LET at == indexOfPost(timeline, r)
    IN /\ targeted < MaxTargets
       /\ targeted' = targeted + 1
       /\ bodies' = bodies \cup {r}
       /\ \/ /\ at # 0 /\ r \in timeline.provisional
             /\ timeline' = [timeline EXCEPT
                    !.nav = IF @.post = r THEN @ ELSE [post |-> r, estimated |-> FALSE],
                    !.islands = IF islandForPost(timeline, r) = <<>> THEN Append(@, Single(r, at)) ELSE @]
             /\ epoch' = epoch
          \/ /\ at = 0
             /\ \E estimate \in DOMAIN timeline.slots :
                    LET i == nearestEmptyIndex(timeline, estimate)
                    IN /\ i # 0
                       /\ timeline' = [timeline EXCEPT !.slots[i] = r,
                                                       !.provisional = @ \cup {r},
                                                       !.nav = [post |-> r, estimated |-> TRUE],
                                                       !.islands = Append(@, Single(r, i))]
             /\ epoch' = epoch + 1
       /\ UNCHANGED <<server, seen, root, latest, work, tail, asked, drifted>>

Navigate == \E r \in 1..server : ensurePostIndex(r)

----------------------------------------------------------------------------
(* Answers. What the server returned is what it had at some moment since the  *)
(* request left. The root in it is taken unless a reply was announced since,  *)
(* or the root in the answer to a later request.                              *)

Ingested(request, held) ==
    IF request.fenced THEN root ELSE [count |-> held, last |-> held]

ingest(request, held, lo, hi) ==
    /\ root' = Ingested(request, held)
    /\ bodies' = bodies \cup lo..hi
    /\ UNCHANGED <<server, seen, epoch, latest, tail, asked, targeted>>

Forget(request) == [work EXCEPT !.underway = @ \ {request}]

(* The server answers in the order of the requests, as the repository's fence *)
(* supposes: what was sent later is not answered with less.                   *)
Done(request, held) ==
    LET Seen(r) == IF r.sent > request.sent THEN [r EXCEPT !.since = MaxOf(@, held)]
                   ELSE [r EXCEPT !.fenced = @ \/ ~request.fenced]
    IN [work EXCEPT !.underway = {Seen(r) : r \in @ \ {request}}]

(* The last reply of what is placed by the count is not the last of the       *)
(* timeline, because the count is of another moment, and no confirmed reply   *)
(* there tells.                                                               *)
OutOfStep(t, last) == last # Size(t) /\ ~isAuthoritativeIndex(t, Size(t))
ByTheCount(t, next) == next.newest \/ Count(Merge(t, next)) = Size(t)

(* The continuation of a demand, in the next turn of the event loop.          *)
Turn(d) == [Ask("continue", d.id) EXCEPT !.since = 0, !.fenced = TRUE]

Before(anchor, n) == IF anchor > n THEN anchor - n ELSE 1

(* mutant: a page is placed by its cursor whatever other ranks are confirmed. *)
ConflictNever(t, first, lo, hi) == FALSE

Conflict(t, first, lo, hi) ==
    \E r \in lo..hi :
        LET i == first + (r - lo)
        IN \/ r \in Mapped(t) /\ isAuthoritativeIndex(t, indexOfPost(t, r)) /\ indexOfPost(t, r) # i
           \/ isAuthoritativeIndex(t, i) /\ t.slots[i] # r

pageAnswered(request, held, t) ==
    LET d == CHOOSE x \in work.demands : x.id = request.demand
        lo == IF request.newest THEN Before(held + 1, request.n)
              ELSE IF request.backward THEN Before(request.anchor, request.n) ELSE request.anchor + 1
        hi == IF request.newest THEN held
              ELSE IF request.backward THEN request.anchor - 1 ELSE MinOf(held, request.anchor + request.n)
        first == IF request.newest THEN Size(t) + lo - hi
                 ELSE IF request.backward THEN request.at + lo - hi - 1 ELSE request.at + 1
        moved == ~request.newest /\ ~(/\ isAuthoritativeIndex(t, request.at)
                                      /\ request.at = 0 \/ t.slots[request.at] = request.anchor)
        empty == hi < lo
        outside == empty \/ first < 1 \/ first + hi - lo > Size(t)
        placed == placeExactWindow(t, first, lo, hi)
    IN /\ ingest(request, held, lo, hi)
       /\ IF d.generation < latest \/ moved
          THEN timeline' = t /\ work' = finishDemand(Done(request, held), {d.id})
          ELSE IF empty /\ d.first > Size(t)
          THEN timeline' = t /\ work' = continueDemand(Done(request, held), t, d, latest)
          ELSE IF outside \/ Conflict(t, first, lo, hi)
          THEN timeline' = t /\ work' = finishDemand(Done(request, held), {d.id})
          ELSE /\ timeline' = placed.t
               /\ work' = IF placed.ok THEN [Done(request, held) EXCEPT !.underway = @ \cup {Turn(d)}]
                          ELSE finishDemand(Done(request, held), {d.id})
       /\ drifted' = (drifted \/ (request.newest /\ OutOfStep(t, held)))

(* mutant: only the demand that started the load of an island hears of its end. *)
WaitersFirst(request) == {request.demand}

Waiters(request) == request.waiters

islandAnswered(request, held, known, t) ==
    LET before == request.bootstrap \/ request.backward
        after == request.bootstrap \/ ~request.backward
        lo == IF before THEN Before(request.anchor, request.n) ELSE request.anchor
        hi == IF after THEN MinOf(held, request.anchor + request.n) ELSE request.anchor
        island == islandForPost(t, request.target)[1]
        stale == \/ request.epoch # epoch \/ request.generation # latest
                 \/ islandForPost(t, request.target) = <<>>
        refused == \/ ~request.bootstrap /\ lo = hi /\ ~known
                   \/ request.bootstrap /\ lo = hi /\ Size(t) > 1
        next == [island EXCEPT !.lo = MinOf(@, lo), !.hi = MaxOf(@, hi),
                               !.ready = TRUE,
                               !.oldest = @ \/ (before /\ known /\ lo = 1),
                               !.newest = @ \/ (after /\ known /\ hi = held)]
        at == indexOfPost(t, island.target) + next.lo
        placed == placeIsland(t, [next EXCEPT !.first = IF at > island.target THEN at - island.target ELSE 0], {}, {})
        over == finishDemand([Done(request, held) EXCEPT !.load = IF @ = request.demand THEN 0 ELSE @], Waiters(request))
    IN /\ ingest(request, held, lo, hi)
       /\ timeline' = IF stale \/ refused THEN t ELSE placed.t
       /\ work' = over
       /\ drifted' = (drifted \/ (~stale /\ ByTheCount(t, next) /\ OutOfStep(t, Merge(t, next).hi)))

seekAnswered(request, held, known, t) ==
    \E lo \in 1..held :
        LET d == CHOOSE x \in work.demands : x.id = request.demand
            hi == MinOf(held, lo + MaxFetch - 1)
            middle == (hi + 1 - lo) \div 2
            next == [target |-> lo + middle, lo |-> lo, hi |-> hi,
                     first |-> IF request.at > middle THEN request.at - middle ELSE 0,
                     ready |-> TRUE, oldest |-> FALSE, newest |-> known /\ hi = held]
        IN /\ ingest(request, held, lo, hi)
           /\ timeline' = IF d.generation # latest \/ request.epoch # epoch THEN t
                          ELSE placeIsland(t, next, {}, {}).t
           /\ work' = finishDemand(Done(request, held), {d.id})
           /\ drifted' = (drifted \/ (ByTheCount(t, next) /\ OutOfStep(t, Merge(t, next).hi)))

failed(request) ==
    /\ work' = finishDemand([Forget(request) EXCEPT
                                !.load = IF request.kind = "island" /\ @ = request.demand THEN 0 ELSE @],
                            Waiters(request))
    /\ UNCHANGED <<server, seen, root, bodies, timeline, epoch, latest, tail, asked, targeted, drifted>>

(* The page that confirms the cached tail goes to the end, or to the start if *)
(* it is the whole thread; nothing is compared with the ranks that are known. *)
validated(request, held, t) ==
    LET lo == IF request.whole THEN 1 ELSE Before(held + 1, Block)
        hi == IF request.whole THEN MinOf(held, Block) ELSE held
        n == MinOf(hi + 1 - lo, Size(t))
    IN /\ ingest(request, held, lo, hi)
       /\ timeline' = IF n = 0 THEN t
                      ELSE IF request.whole THEN placeExactWindow(t, 1, 1, n).t
                      ELSE placeExactWindow(t, Size(t) + 1 - n, hi + 1 - n, hi).t
       /\ work' = Done(request, held)
       /\ drifted' = (drifted \/ (~request.whole /\ held # Size(t)))

Answer ==
    \E request \in work.underway :
        \/ /\ request.kind # "continue"
           /\ failed(request)
        \/ \E held \in IF request.kind = "continue" THEN {} ELSE request.since..server :
            LET t == syncLogicalCount(timeline, Ingested(request, held).count)
            IN \/ request.kind = "page" /\ pageAnswered(request, held, t)
               \/ request.kind = "validate" /\ validated(request, held, t)
               \/ \E known \in BOOLEAN :
                   \/ request.kind = "island" /\ islandAnswered(request, held, known, t)
                   \/ request.kind = "seek" /\ seekAnswered(request, held, known, t)

(* The next turn of the event loop after a page was placed.                   *)
Continue ==
    \E request \in work.underway :
        /\ request.kind = "continue"
        /\ work' = continueDemand(Forget(request), timeline,
                                  CHOOSE d \in work.demands : d.id = request.demand, latest)
        /\ UNCHANGED <<server, seen, root, bodies, timeline, epoch, latest, tail, asked, targeted, drifted>>

(* hydrateCachedTail: replies read from disk are shown while the server is    *)
(* asked, if they end with the reply the root calls its last.                 *)
hydrateCachedTail ==
    /\ tail = "reading"
    /\ tail' = "read"
    /\ \/ UNCHANGED <<bodies, timeline, work>>
       \/ \E lo \in 1..root.last :
            LET hi == root.last
                t == timeline
                first == Size(t) + lo - hi
                target == indexOfPost(t, t.nav.post)
                ids == lo..hi
            IN /\ root.count > 0 /\ hi <= server
               /\ hi - lo < MinOf(Block, Size(t))
               /\ bodies' = bodies \cup ids
               /\ IF \/ t.nav.estimated /\ target \in first..Size(t)
                     \/ \E r \in ids : \/ r \in Mapped(t) /\ indexOfPost(t, r) # first + (r - lo)
                                       \/ t.slots[first + (r - lo)] \notin {0, r}
                  THEN UNCHANGED <<timeline, work>>
                  ELSE /\ timeline' = assignExactWindow([t EXCEPT !.provisional = @ \cup (ids \ Mapped(t))],
                                                        first, lo, hi)
                       /\ work' = send(work, [Ask("validate", 0) EXCEPT !.waiters = {}, !.whole = Size(t) <= Block])
    /\ UNCHANGED <<server, seen, root, epoch, latest, asked, targeted, drifted>>

----------------------------------------------------------------------------
(* A live reply: the summary of the root counts it unless its body was known, *)
(* then the source puts it into the last slot, or a new one.                  *)

(* mutant: a reply gets a slot of its own after the summary has reserved one. *)
appendLiveReplyTwice(t, count, r) ==
    IF r \in Mapped(t) THEN t
    ELSE assignExactWindow(resizeLogicalTail(t, Size(t) + 1), Size(t) + 1, r, r)

appendLiveReply(t, count, r) ==
    LET n == currentLogicalCount(t, count)
        reserved == n = Size(t) /\ n > 0 /\ t.slots[n] = 0
        grown == IF n > Size(t) THEN resizeLogicalTail(t, n)
                 ELSE IF reserved THEN t ELSE resizeLogicalTail(t, Size(t) + 1)
    IN IF r \in Mapped(t) THEN t ELSE assignExactWindow(grown, Size(grown), r, r)

onNewPost ==
    LET r == seen + 1
        known == r \in bodies
        summary == IF known THEN root ELSE [count |-> root.count + 1, last |-> MaxOf(root.last, r)]
        t == IF known THEN timeline ELSE syncLogicalCount(timeline, summary.count)
    IN /\ seen < server
       /\ seen' = r
       /\ bodies' = bodies \cup {r}
       /\ root' = summary
       /\ timeline' = appendLiveReply(t, summary.count, r)
       /\ work' = [work EXCEPT !.underway = {[q EXCEPT !.fenced = TRUE] : q \in @}]
       /\ drifted' = (drifted \/ summary.count # r \/ (known /\ r \notin Mapped(t)))
       /\ UNCHANGED <<server, epoch, latest, tail, asked, targeted>>

CreateReply ==
    /\ server < MaxReplies
    /\ server' = server + 1
    /\ UNCHANGED <<seen, root, bodies, timeline, epoch, latest, work, tail, asked, targeted, drifted>>

Next == Request \/ Navigate \/ Answer \/ Continue \/ hydrateCachedTail \/ onNewPost \/ CreateReply

Spec == Init /\ [][Next]_vars

(* A bound: behaviours are followed until the count is out of step.            *)
Followed ==
    /\ ~drifted
    /\ asked + targeted + (server - Opened) + (IF tail = "read" THEN 1 ELSE 0) <= MaxMoves

----------------------------------------------------------------------------
TypeOK ==
    /\ timeline.slots \in Seq(0..MaxReplies)
    /\ timeline.provisional \subseteq Mapped(timeline)
    /\ \A i, j \in DOMAIN timeline.slots : timeline.slots[i] = timeline.slots[j] /\ timeline.slots[i] # 0 => i = j
    /\ \A k \in DOMAIN timeline.islands :
        LET island == timeline.islands[k]
        IN /\ island.target \in Ids(island)
           /\ ~island.oldest /\ ~island.newest
           /\ \A r \in Ids(island) : r \notin Mapped(timeline) \/ r \in timeline.provisional

(* A confirmed reply is at its rank, whatever pages, islands, cached rows and *)
(* live replies have been placed in whatever order (ThreadPostSource.cpp:774). *)
ExactRanks ==
    drifted \/ \A i \in DOMAIN timeline.slots :
        timeline.slots[i] # 0 /\ isAuthoritativeIndex(timeline, i) => timeline.slots[i] = i

(* Replies shown next to each other follow each other in the thread: contact  *)
(* of slot numbers is never taken for proof (placeIsland, placeExactWindow).  *)
(* Rows of the cached tail are exempt until the server has confirmed them:    *)
(* hydrateCachedTail keeps no distance to the islands that are there.         *)
Cached(t, r) ==
    r \in t.provisional /\ ~\E k \in DOMAIN t.islands : t.islands[k].ready /\ r \in Ids(t.islands[k])

NoFalseAdjacency ==
    drifted \/ \A i \in 1..(Size(timeline) - 1) :
        LET r == timeline.slots[i]
            next == timeline.slots[i + 1]
        IN isAvailable(timeline, i) /\ isAvailable(timeline, i + 1)
              => Cached(timeline, r) \/ Cached(timeline, next) \/ next = r + 1

(* Every demand that has not reported is waited for: by one request, one load *)
(* of an island, or one continuation, never by none and never by two.         *)
DemandsOwned ==
    \A d \in work.demands :
        Cardinality({r \in work.underway : d.id \in r.waiters}) = 1

(* A confirmed reply stays confirmed at its slot: no page, failed demand,     *)
(* change of the count or navigation forgets it.                              *)
ConfirmedStays ==
    [][drifted' \/ \A i \in DOMAIN timeline.slots :
        timeline.slots[i] # 0 /\ isAuthoritativeIndex(timeline, i)
            => /\ i \in DOMAIN timeline'.slots
               /\ timeline'.slots[i] = timeline.slots[i]
               /\ isAuthoritativeIndex(timeline', i)]_vars

=============================================================================
