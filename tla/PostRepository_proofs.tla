------------------------- MODULE PostRepository_proofs -------------------------
(***************************************************************************)
(* PostRepository: type correctness, and what the client believes of a     *)
(* post, for every value of the bounds.                                    *)
(*                                                                         *)
(* The argument is the one of the code.  Whoever handles an event of p     *)
(* raises observed[p], or has a removal of p stand in the queue of the     *)
(* worker, above the sequence of every request and read that is out.  So   *)
(* an answer that still passes observed[p], or a row that passes fence[p], *)
(* left after all events of p that were handled, and is at least as new as *)
(* they are; the events it does not show are still to come.                *)
(***************************************************************************)
EXTENDS PostRepository, SequenceTheorems, TLAPS

-------------------------------------------------------------------------------
(* The invariant.                                                              *)

\* A post that exists has a revision and a text.
PostShape ==
    \A p \in Posts : /\ post[p].alive => post[p].at >= 1
                     /\ post[p].at >= 1 => post[p].text >= 1

\* An answered call carries a body.
CallShape == \A w \in DOMAIN calls : calls[w].state = "answered" => calls[w].body \in Body

\* No sequence was given out that is greater than observationSequence.
SeqBound ==
    /\ \A p \in Posts : fence[p] <= sequence /\ observed[p] <= sequence
    /\ \A i \in DOMAIN queue : queue[i].seq <= sequence
    /\ \A i \in DOMAIN callbacks : callbacks[i].seq <= sequence
    /\ \A path \in Paths : inFlight[path].seq <= sequence

\* The events of a post arrive in the order of its revisions, its deletion last.
EventsOrdered ==
    /\ \A i \in DOMAIN events :
         /\ events[i].body.at <= post[events[i].id].at
         /\ events[i].kind = "posted" => events[i].body.at = 1
         /\ events[i].kind = "deleted" => ~post[events[i].id].alive
    /\ \A i, j \in DOMAIN events :
         i < j /\ events[i].id = events[j].id =>
           events[i].body.at <= events[j].body.at /\ events[i].kind # "deleted"

\* Removal i of the worker's queue is one of p.
Removal(i, p) == i \in DOMAIN queue /\ queue[i].op = "remove" /\ queue[i].id = p

\* What was handled of a post is behind the server, and not ahead of its events.
HandledFirst ==
    /\ \A p \in Posts : purged[p] <= post[p].at /\ seen[p] <= post[p].at
    /\ \A i \in DOMAIN events : purged[events[i].id] <= events[i].body.at
    /\ \A p \in Posts, k \in DOMAIN queue : Removal(k, p) => queue[k].at <= post[p].at
    /\ \A i \in DOMAIN events, k \in DOMAIN queue :
         Removal(k, events[i].id) => queue[k].at <= events[i].body.at

\* To the worker, a snapshot of p that left at seq and shows revision at is not stale: it
\* is as new as every removal of p that does not fence it.
PassesAsNew(p, seq, at) ==
    /\ fence[p] < seq => purged[p] <= at
    /\ \A k \in DOMAIN queue : Removal(k, p) /\ queue[k].seq < seq => queue[k].at <= at

AnswersPass ==
    \A path \in Paths : \A p \in DOMAIN inFlight[path].reply :
        PassesAsNew(p, inFlight[path].seq, inFlight[path].reply[p].at)

StoresPass ==
    \A i \in DOMAIN queue : queue[i].op = "store" =>
        \A p \in DOMAIN queue[i].posts \ Called :
            PassesAsNew(p, queue[i].seq, queue[i].posts[p].at)

RowsRight == AnswersPass /\ StoresPass /\ RowsNotBehindInvalidation

\* An answer that may overwrite the body of p is as new as the newest event of p.
AnswersNotBehind ==
    \A path \in Paths : \A p \in DOMAIN inFlight[path].reply :
        observed[p] <= inFlight[path].seq => seen[p] <= inFlight[path].reply[p].at

\* A deleted post stays deleted, and no event of it is to come.
GoneIsDead ==
    /\ \A p \in gone : ~post[p].alive /\ post[p].at >= 1
    /\ \A i \in DOMAIN events : events[i].id \notin gone

\* An answer with a post that is gone may overwrite nothing, in memory or on disk.
AnswersGone ==
    \A path \in Paths : \A p \in gone \cap DOMAIN inFlight[path].reply :
        /\ inFlight[path].seq < observed[p]
        /\ \/ inFlight[path].seq <= fence[p]
           \/ \E k \in DOMAIN queue : Removal(k, p) /\ inFlight[path].seq <= queue[k].seq

\* Store i of the queue brings a row of p that no fence keeps out.
Brings(i, p) ==
    /\ queue[i].op = "store" /\ p \in DOMAIN queue[i].posts
    /\ fence[p] < queue[i].seq
    /\ \A j \in DOMAIN queue : j < i /\ Removal(j, p) => queue[j].seq < queue[i].seq

\* There may be a row of p once the commands before place k are executed.
RowBefore(k, p) ==
    \/ disk[p] # None /\ \A j \in DOMAIN queue : j < k => ~Removal(j, p)
    \/ \E i \in DOMAIN queue :
         /\ i < k /\ Brings(i, p)
         /\ \A j \in DOMAIN queue : i < j /\ j < k => ~Removal(j, p)

\* No row of it is left behind, and no read that finds one may fill the absence.
RowsGone ==
    /\ \A p \in gone \ Called : ~RowBefore(Len(queue) + 1, p)
    /\ \A p \in gone \ Called, k \in DOMAIN queue :
         queue[k].op = "load" /\ observed[p] <= queue[k].seq => ~RowBefore(k, p)
    /\ \A i \in DOMAIN callbacks :
         \A p \in (gone \ Called) \cap DOMAIN callbacks[i].posts :
           callbacks[i].seq < observed[p]

Gone == GoneIsDead /\ AnswersGone /\ RowsGone /\ NoResurrection

\* An event of this kind is to come.
Pending(p, kind) == \E i \in DOMAIN events : events[i].id = p /\ events[i].kind = kind

\* Event i is the last one of its post that could be of this kind.
LastOf(i, kind) ==
    \A j \in DOMAIN events : i < j /\ events[j].id = events[i].id => events[j].kind # kind

\* The last event to change something shows it as the server does.
EventsCurrent ==
    \A i \in DOMAIN events :
        LET e == events[i] IN
        /\ e.kind \in {"posted", "edited"} /\ LastOf(i, "edited")
             => e.body.text = post[e.id].text
        /\ LastOf(i, "reacted") => e.body.liked = post[e.id].liked
        /\ e.kind # "deleted" /\ LastOf(i, "deleted") => post[e.id].alive

\* A body differs from the server's only where an event is to come.
Current(p, body) ==
    /\ ~Pending(p, "edited") => body.text = post[p].text
    /\ ~Pending(p, "reacted") => body.liked = post[p].liked

AnswersCurrent ==
    \A path \in Paths : \A p \in DOMAIN inFlight[path].reply :
        observed[p] <= inFlight[path].seq =>
            /\ post[p].at >= 1 /\ Current(p, inFlight[path].reply[p])
            /\ ~Pending(p, "deleted") => post[p].alive

ResidentCurrent ==
    \A p \in Posts \ Called : resident[p] # None /\ p \notin cached =>
        /\ post[p].at >= 1 /\ Current(p, resident[p])
        /\ p \in tombstone => ~post[p].alive
        /\ p \notin tombstone /\ ~Pending(p, "deleted") => post[p].alive

\* All this while no stream was lost.
Agrees == refreshes = <<>> => EventsCurrent /\ AnswersCurrent /\ ResidentCurrent

Shape == TypeOK /\ PostShape /\ CallShape /\ SeqBound
Follows == EventsOrdered /\ HandledFirst

-------------------------------------------------------------------------------
(* Sequences and posts objects.                                                *)

\* What Append does to a sequence.
LEMMA AppendFacts ==
    ASSUME NEW S, NEW s \in Seq(S), NEW e \in S
    PROVE  /\ Append(s, e) \in Seq(S) /\ Len(s) \in Nat /\ Len(Append(s, e)) = Len(s) + 1
           /\ DOMAIN s = 1 .. Len(s) /\ DOMAIN Append(s, e) = 1 .. Len(s) + 1
           /\ \A i \in 1 .. Len(s) : Append(s, e)[i] = s[i]
           /\ Append(s, e)[Len(s) + 1] = e
OBVIOUS

\* What taking the first element does to one.
LEMMA TailFacts ==
    ASSUME NEW S, NEW s \in Seq(S), s # <<>>
    PROVE  /\ Head(s) \in S /\ Head(s) = s[1] /\ Len(s) \in Nat /\ Len(s) >= 1
           /\ Tail(s) \in Seq(S) /\ Len(Tail(s)) = Len(s) - 1
           /\ DOMAIN s = 1 .. Len(s) /\ DOMAIN Tail(s) = 1 .. Len(s) - 1
           /\ \A i \in 1 .. Len(s) - 1 : Tail(s)[i] = s[i + 1]
<1>1. /\ Head(s) \in S /\ Tail(s) \in Seq(S) /\ Len(Tail(s)) = Len(s) - 1
      /\ \A i \in 1 .. Len(Tail(s)) : Tail(s)[i] = s[i + 1]
  BY HeadTailProperties
<1>2. Len(s) \in Nat /\ Len(s) >= 1 /\ DOMAIN s = 1 .. Len(s) /\ Head(s) = s[1]
  BY EmptySeq, LenProperties
<1>3. DOMAIN Tail(s) = 1 .. Len(s) - 1
  BY <1>1, LenProperties
<1> QED BY <1>1, <1>2, <1>3

\* What stands in a sequence.
LEMMA PlaceFacts ==
    ASSUME NEW S, NEW s \in Seq(S), NEW i \in DOMAIN s
    PROVE  s[i] \in S /\ i \in 1 .. Len(s) /\ Len(s) \in Nat
OBVIOUS

\* A function over the places of a sequence is a sequence.
LEMMA OverPlaces ==
    ASSUME NEW S, NEW T, NEW s \in Seq(S), NEW f, f = [i \in DOMAIN s |-> f[i]],
           \A i \in DOMAIN s : f[i] \in T
    PROVE  f \in Seq(T)
<1>1. Len(s) \in Nat /\ DOMAIN s = 1 .. Len(s)
  BY LenProperties
<1>2. f \in [1 .. Len(s) -> T]
  BY <1>1
<1> QED BY <1>1, <1>2, SeqDef

\* A posts object gives some posts their bodies.
LEMMA PostsObjectType ==
    \A posts : posts \in PostsObject <=>
                 posts \in [DOMAIN posts -> Body] /\ DOMAIN posts \subseteq Posts
BY DEF PostsObject

\* No post stands in the empty object, and None is no body.
LEMMA EmptyFacts == /\ Empty \in PostsObject /\ DOMAIN Empty = {}
                    /\ None \notin Body
<1>1. Empty \in [{} -> Body] /\ DOMAIN Empty = {}
  BY DEF Empty
<1>2. None \notin Body
  BY DEF None, Body, Revisions
<1> QED BY <1>1, <1>2 DEF PostsObject

\* What a body is made of.
LEMMA BodyFacts ==
    ASSUME NEW b \in Body
    PROVE  /\ b.at \in 1 .. MaxRev /\ b.text \in 1 .. MaxRev /\ b.liked \in BOOLEAN
           /\ b.at \in Nat /\ b.at >= 1
<1>1. MaxRev \in Nat
  BY RepositoryAssumption
<1> QED BY <1>1 DEF Body, Revisions

-------------------------------------------------------------------------------
(* Which action touches what.                                                  *)

Load == \E p \in Posts : loadPost(p)
Reply == \E path \in Paths : httpFinished(path)
Evict == \E p \in Posts : evictPostBody(p)
Refresh == \E r \in DOMAIN refreshes : refreshFinished(r)
Call == \E p \in Posts, kind \in CallKinds : call(p, kind)
CallTaken == \E w \in DOMAIN calls : callFinished(w)
ServerReplies == \E path \in Paths : Answer(path)
ServerRefreshes == \E r \in DOMAIN refreshes : AnswerRefresh(r)
ServerMutates == \E p \in Posts : Mutate(p)
ServerServes == \E w \in DOMAIN calls : AnswerCall(w)

\* The actions of the next-state relation, by name.
LEMMA Actions ==
    [Next]_vars <=>
      \/ Load \/ Reply \/ Evict \/ Refresh \/ Call \/ CallTaken
      \/ ServerReplies \/ ServerRefreshes \/ ServerMutates \/ ServerServes
      \/ loadChannelPage \/ loadCachedChannelTail \/ readFinished \/ handleEvent
      \/ workerStep \/ recordChannelOpened \/ restart \/ streamLost \/ UNCHANGED vars
BY DEF Next, Load, Reply, Evict, Refresh, Call, CallTaken, ServerReplies, ServerRefreshes,
       ServerMutates, ServerServes

\* Every variable with the actions that may change it.
Frame ==
    /\ \/ UNCHANGED post
       \/ ServerMutates \/ ServerServes
    /\ \/ UNCHANGED events
       \/ handleEvent \/ streamLost \/ restart \/ ServerMutates \/ ServerServes
    /\ \/ UNCHANGED queue
       \/ Load \/ loadCachedChannelTail \/ Reply \/ handleEvent \/ CallTaken
       \/ workerStep \/ restart
    /\ \/ UNCHANGED callbacks
       \/ readFinished \/ workerStep \/ restart
    /\ \/ UNCHANGED <<disk, fence, purged>>
       \/ workerStep \/ restart
    /\ \/ UNCHANGED sequence
       \/ Load \/ loadChannelPage \/ loadCachedChannelTail \/ handleEvent \/ CallTaken
       \/ restart
    /\ \/ UNCHANGED observed
       \/ Reply \/ handleEvent \/ CallTaken \/ restart
    /\ \/ UNCHANGED <<resident, tombstone, cached, unfenced>>
       \/ Reply \/ readFinished \/ handleEvent \/ Refresh \/ CallTaken \/ Evict \/ restart
    /\ \/ UNCHANGED inFlight
       \/ Load \/ loadChannelPage \/ Reply \/ ServerReplies \/ restart
    /\ \/ UNCHANGED loads
       \/ Load \/ Reply \/ readFinished \/ restart
    /\ \/ UNCHANGED <<seen, gone>>
       \/ handleEvent \/ restart
    /\ \/ UNCHANGED refreshes
       \/ streamLost \/ Refresh \/ ServerRefreshes \/ restart
    /\ \/ UNCHANGED calls
       \/ Call \/ CallTaken \/ ServerServes \/ restart
    /\ \/ UNCHANGED interest
       \/ recordChannelOpened
    /\ \/ UNCHANGED <<evictions, restarts>>
       \/ Evict \/ restart

\* Nothing else changes it.
LEMMA Framed == [Next]_vars => Frame
<1> USE DEF worker, repository, others, history, budgets, Frame
<1>1. Load => Frame
  BY Zenon DEF Load, loadPost
<1>2. Reply => Frame
  BY Zenon DEF Reply, httpFinished
<1>3. Evict => Frame
  BY DEF Evict, evictPostBody
<1>4. Refresh => Frame
  BY Zenon DEF Refresh, refreshFinished
<1>5. Call => Frame
  BY Zenon DEF Call, call
<1>6. CallTaken => Frame
  BY Zenon DEF CallTaken, callFinished
<1>7. ServerReplies => Frame
  BY DEF ServerReplies, Answer
<1>8. ServerRefreshes => Frame
  BY DEF ServerRefreshes, AnswerRefresh
<1>9. ServerMutates => Frame
  BY DEF ServerMutates, Mutate
<1>10. ServerServes => Frame
  BY DEF ServerServes, AnswerCall
<1>11. loadChannelPage => Frame
  BY DEF loadChannelPage
<1>12. loadCachedChannelTail => Frame
  BY DEF loadCachedChannelTail
<1>13. readFinished => Frame
  BY DEF readFinished, ingestCached
<1>14. handleEvent => Frame
  BY DEF handleEvent
<1>15. workerStep => Frame
  BY DEF workerStep
<1>16. recordChannelOpened => Frame
  BY DEF recordChannelOpened
<1>17. restart => Frame
  BY DEF restart
<1>18. streamLost => Frame
  BY DEF streamLost
<1>19. UNCHANGED vars => Frame
  BY DEF vars
<1> HIDE DEF Frame
<1> QED BY Actions, <1>1, <1>2, <1>3, <1>4, <1>5, <1>6, <1>7, <1>8, <1>9, <1>10, <1>11, <1>12,
           <1>13, <1>14, <1>15, <1>16, <1>17, <1>18, <1>19

-------------------------------------------------------------------------------
(* Type correctness.  The steps first: what an action puts into the variables  *)
(* it changes.                                                                 *)

EventSet == [kind : Kinds, id : Posts, body : Body]
PostSet == [at : 0 .. MaxRev, text : 0 .. MaxRev, liked : BOOLEAN, alive : BOOLEAN]
GetSet == [state : {"idle", "sent", "answered", "failed"}, seq : Nat, reply : PostsObject,
           waiting : SUBSET (1 .. MaxLoads)]
LoadSet == [post : Posts, cacheDone : BOOLEAN, httpDone : BOOLEAN,
            delivered : {"no", "success", "failure"}]
RefreshSet == [state : {"sent", "answered", "done"}, reply : PostsObject]
CallSet == [id : Posts, state : {"sent", "answered", "done"}, kind : CallKinds,
            body : Body \cup {None}]

\* The types, one group of variables at a time.
LEMMA Types ==
    TypeOK <=>
      /\ interest \in {"hot", "warm", "cold"}
      /\ queue \in Seq(Commands) /\ callbacks \in Seq(Results)
      /\ disk \in [Posts -> Body \cup {None}]
      /\ fence \in [Posts -> Nat] /\ purged \in [Posts -> 0 .. MaxRev]
      /\ post \in [Posts -> PostSet] /\ events \in Seq(EventSet)
      /\ sequence \in Nat /\ observed \in [Posts -> Nat]
      /\ resident \in [Posts -> Body \cup {None}]
      /\ tombstone \subseteq {p \in Posts : resident[p] # None}
      /\ inFlight \in [Paths -> GetSet] /\ loads \in Seq(LoadSet)
      /\ seen \in [Posts -> 0 .. MaxRev]
      /\ refreshes \in Seq(RefreshSet) /\ calls \in Seq(CallSet)
      /\ gone \subseteq Posts /\ cached \subseteq Posts /\ unfenced \subseteq Posts
      /\ evictions \in 0 .. MaxEvictions /\ restarts \in 0 .. MaxRestarts
BY DEF TypeOK, WorkerTypeOK, EventSet, PostSet, GetSet, LoadSet, RefreshSet, CallSet

\* A snapshot of a post that is there is a body; so the answers are posts objects.
LEMMA SnapshotType ==
    ASSUME TypeOK, PostShape
    PROVE  /\ \A p \in Posts : post[p].alive => Snapshot(p) \in Body
           /\ \A path \in Paths :
                /\ PostsAt(path) \in PostsObject
                /\ \A p \in DOMAIN PostsAt(path) :
                     p \in Posts /\ post[p].alive /\ PostsAt(path)[p] = Snapshot(p)
<1>1. ASSUME NEW p \in Posts, post[p].alive PROVE Snapshot(p) \in Body
  <2>1. post[p] \in PostSet /\ MaxRev \in Nat
    BY Types, RepositoryAssumption
  <2>2. post[p].at \in 1 .. MaxRev /\ post[p].text \in 1 .. MaxRev /\ post[p].liked \in BOOLEAN
    BY <1>1, <2>1 DEF PostShape, PostSet
  <2> QED BY <2>2 DEF Snapshot, Body, Revisions
<1>2. ASSUME NEW path \in Paths
      PROVE  /\ PostsAt(path) \in PostsObject
             /\ \A p \in DOMAIN PostsAt(path) :
                  p \in Posts /\ post[p].alive /\ PostsAt(path)[p] = Snapshot(p)
  <2>1. \A p \in DOMAIN PostsAt(path) :
          p \in Posts /\ post[p].alive /\ PostsAt(path)[p] = Snapshot(p)
    BY DEF PostsAt
  <2>2. PostsAt(path) \in [DOMAIN PostsAt(path) -> Body]
    BY <1>1 DEF PostsAt
  <2> QED BY <2>1, <2>2, PostsObjectType
<1> QED BY <1>1, <1>2

\* The commands are commands.
LEMMA CommandType ==
    /\ \A posts \in PostsObject, seq \in Nat : StorePosts(posts, seq) \in Commands
    /\ \A p \in Posts, seq \in Nat, at \in Revisions : RemovePost(p, seq, at) \in Commands
    /\ \A what \in Reads, seq \in Nat, load \in Nat : LoadPosts(what, seq, load) \in Commands
BY DEF Commands, StorePosts, RemovePost, LoadPosts

\* What can be read off a command of the queue, or a result.
LEMMA CommandFacts ==
    ASSUME NEW c \in Commands
    PROVE  /\ c.seq \in Nat
           /\ c.op \in {"store", "remove", "load"}
           /\ c.op = "store" => c.posts \in PostsObject
           /\ c.op = "remove" => c.id \in Posts /\ c.at \in Revisions
           /\ c.op = "load" => c.what \in Reads /\ c.load \in Nat
BY DEF Commands

\* The rows of some posts are a posts object.
LEMMA RowsType ==
    ASSUME TypeOK, NEW ids \in SUBSET Posts
    PROVE  /\ Rows(ids) \in PostsObject
           /\ \A p \in DOMAIN Rows(ids) : p \in ids /\ disk[p] # None
<1>1. disk \in [Posts -> Body \cup {None}]
  BY Types
<1>2. \A p \in DOMAIN Rows(ids) : p \in ids /\ disk[p] # None /\ Rows(ids)[p] = disk[p]
  BY DEF Rows
<1>3. Rows(ids) \in [DOMAIN Rows(ids) -> Body]
  <2>1. Rows(ids) = [p \in DOMAIN Rows(ids) |-> Rows(ids)[p]]
    BY DEF Rows
  <2>2. \A p \in DOMAIN Rows(ids) : Rows(ids)[p] \in Body
    BY <1>1, <1>2
  <2> QED BY <2>1, <2>2
<1> QED BY <1>2, <1>3, PostsObjectType

\* A physical request and what joining it does.
LEMMA GetFacts ==
    ASSUME TypeOK, NEW path \in Paths
    PROVE  /\ inFlight[path] \in GetSet
           /\ inFlight[path].seq \in Nat /\ inFlight[path].reply \in PostsObject
           /\ DOMAIN inFlight[path].reply \subseteq Posts
           /\ \A p \in DOMAIN inFlight[path].reply : inFlight[path].reply[p] \in Body
<1>1. inFlight[path] \in GetSet
  BY Types
<1>2. inFlight[path].seq \in Nat /\ inFlight[path].reply \in PostsObject
  BY <1>1 DEF GetSet
<1> QED BY <1>1, <1>2, PostsObjectType

-------------------------------------------------------------------------------
(* The effect of the shared steps.                                             *)

\* noteResidentObservation raises sequences, up to the one it is given.
LEMMA Noted ==
    ASSUME TypeOK, NEW ids \in SUBSET Posts, NEW seq \in Nat
    PROVE  /\ Observed(ids, seq) \in [Posts -> Nat]
           /\ \A p \in Posts :
                /\ observed[p] <= Observed(ids, seq)[p]
                /\ Observed(ids, seq)[p] \in {observed[p], seq}
                /\ p \in ids => seq <= Observed(ids, seq)[p]
<1>1. observed \in [Posts -> Nat]
  BY Types
<1>2. \A p \in Posts : Observed(ids, seq)[p] = IF \E q \in ids : p \in {q, Root[q]}
                                                THEN Newest(observed[p], seq) ELSE observed[p]
  BY DEF Observed
<1>3. \A p \in Posts : /\ Newest(observed[p], seq) \in {observed[p], seq}
                       /\ observed[p] <= Newest(observed[p], seq)
                       /\ seq <= Newest(observed[p], seq)
  BY <1>1 DEF Newest
<1>4. \A p \in Posts : /\ observed[p] <= Observed(ids, seq)[p]
                       /\ Observed(ids, seq)[p] \in {observed[p], seq}
                       /\ p \in ids => seq <= Observed(ids, seq)[p]
  <2> TAKE p \in Posts
  <2>1. observed[p] \in Nat
    BY <1>1
  <2>2. CASE \E q \in ids : p \in {q, Root[q]}
    <3>1. Observed(ids, seq)[p] = Newest(observed[p], seq)
      BY <1>2, <2>2
    <3> QED BY <1>3, <3>1
  <2>3. CASE ~ \E q \in ids : p \in {q, Root[q]}
    <3>1. Observed(ids, seq)[p] = observed[p] /\ p \notin ids
      BY <1>2, <2>3
    <3> QED BY <2>1, <3>1
  <2> QED BY <2>2, <2>3
<1>5. Observed(ids, seq) \in [Posts -> Nat]
  BY <1>1, <1>4 DEF Observed
<1> QED BY <1>4, <1>5

\* cachePostObject: above all that was given out, for memory, and maybe for disk.
LEMMA SnapshotNoted ==
    ASSUME TypeOK, SeqBound, NEW p \in Posts, NEW body \in Body, cachePostObject(p, body)
    PROVE  /\ sequence' = sequence + 1 /\ observed' \in [Posts -> Nat]
           /\ \A q \in Posts : observed[q] <= observed'[q] /\ observed'[q] <= sequence'
           /\ observed'[p] = sequence'
           /\ [q \in {p} |-> body] \in PostsObject
           /\ \/ queue' = queue
              \/ queue' = Append(queue, StorePosts([q \in {p} |-> body], sequence + 1))
<1>1. /\ sequence \in Nat /\ sequence' = sequence + 1 /\ observed' = Observed({p}, sequence')
      /\ \/ queue' = queue
         \/ queue' = Append(queue, StorePosts([q \in {p} |-> body], sequence + 1))
  BY Types DEF cachePostObject
<1>2. \A q \in Posts : observed[q] \in Nat /\ observed[q] <= sequence
  BY Types DEF SeqBound
<1>3. /\ observed' \in [Posts -> Nat]
      /\ \A q \in Posts : observed[q] <= observed'[q] /\ observed'[q] \in {observed[q], sequence'}
      /\ sequence' <= observed'[p]
  <2>1. sequence' \in Nat /\ {p} \in SUBSET Posts /\ p \in {p}
    BY <1>1
  <2>2. observed' = Observed({p}, sequence')
    BY <1>1
  <2> QED BY <2>1, <2>2, Noted
<1>4. \A q \in Posts : observed'[q] \in Nat /\ observed'[q] <= sequence'
  <2> TAKE q \in Posts
  <2>1. sequence \in Nat /\ sequence' = sequence + 1
    BY <1>1
  <2>2. observed'[q] = observed[q] \/ observed'[q] = sequence'
    BY <1>3
  <2> QED BY <1>2, <2>1, <2>2
<1>5. observed'[p] = sequence'
  <2>1. sequence' \in Nat
    BY <1>1
  <2>2. sequence' <= observed'[p] /\ observed'[p] <= sequence' /\ observed'[p] \in Nat
    BY <1>3, <1>4
  <2> QED BY <2>1, <2>2
<1>6. [q \in {p} |-> body] \in PostsObject
  BY PostsObjectType
<1> QED BY <1>1, <1>3, <1>4, <1>5, <1>6

\* invalidateCachedPost: the same, and the row is taken away in any case.
LEMMA InvalidationNoted ==
    ASSUME TypeOK, SeqBound, NEW p \in Posts, NEW at, invalidateCachedPost(p, at)
    PROVE  /\ sequence' = sequence + 1 /\ observed' \in [Posts -> Nat]
           /\ \A q \in Posts : observed[q] <= observed'[q] /\ observed'[q] <= sequence'
           /\ observed'[p] = sequence'
           /\ queue' = Append(queue, RemovePost(p, sequence + 1, at))
<1>1. /\ sequence \in Nat /\ sequence' = sequence + 1
      /\ observed' = [observed EXCEPT ![p] = Newest(@, sequence')]
      /\ queue' = Append(queue, RemovePost(p, sequence + 1, at))
  BY Types DEF invalidateCachedPost, ObservedOnly
<1>2. \A q \in Posts : observed[q] \in Nat /\ observed[q] <= sequence
  BY Types DEF SeqBound
<1>3. Newest(observed[p], sequence') = sequence'
  BY <1>1, <1>2 DEF Newest
<1>4. observed' = [observed EXCEPT ![p] = sequence']
  BY <1>1, <1>3
<1>5. observed \in [Posts -> Nat]
  BY Types
<1> QED BY <1>1, <1>2, <1>4, <1>5

\* The event at the head: how it is noted, whatever its kind.
LEMMA EventNoted ==
    ASSUME Shape, handleEvent
    PROVE  LET e == events[1] IN
           /\ events # <<>> /\ e \in EventSet /\ e.id \in Posts /\ e.body \in Body
           /\ events' = Tail(events)
           /\ sequence' = sequence + 1 /\ observed' \in [Posts -> Nat]
           /\ \A q \in Posts : observed[q] <= observed'[q] /\ observed'[q] <= sequence'
           /\ observed'[e.id] = sequence'
           /\ [q \in {e.id} |-> e.body] \in PostsObject
           /\ \/ e.kind = "posted" /\ postedEvent(e)
              \/ e.kind = "edited" /\ editedEvent(e)
              \/ e.kind = "reacted" /\ reactedEvent(e)
              \/ e.kind = "deleted" /\ deletedEvent(e)
           /\ \/ e.kind \in {"posted", "edited"} /\ queue' = queue
              \/ /\ e.kind \in {"posted", "edited"}
                 /\ queue' = Append(queue, StorePosts([q \in {e.id} |-> e.body], sequence + 1))
              \/ /\ e.kind \in {"reacted", "deleted"}
                 /\ queue' = Append(queue, RemovePost(e.id, sequence + 1, e.body.at))
<1> DEFINE e == events[1]
<1>0. TypeOK /\ SeqBound
  BY DEF Shape
<1>1. events # <<>> /\ events \in Seq(EventSet) /\ events' = Tail(events) /\ Head(events) = e
      /\ e \in EventSet
  BY <1>0, Types, TailFacts DEF handleEvent
<1>2. e.id \in Posts /\ e.body \in Body
  BY <1>1 DEF EventSet
<1>3. \/ e.kind = "posted" /\ postedEvent(e)
      \/ e.kind = "edited" /\ editedEvent(e)
      \/ e.kind = "reacted" /\ reactedEvent(e)
      \/ e.kind = "deleted" /\ deletedEvent(e)
  BY <1>1 DEF handleEvent
<1>4. [q \in {e.id} |-> e.body] \in PostsObject
  BY <1>2, PostsObjectType
<1>5. CASE e.kind \in {"posted", "edited"}
  <2>1. cachePostObject(e.id, e.body)
    BY <1>3, <1>5 DEF postedEvent, editedEvent
  <2> HIDE DEF e
  <2> QED BY <1>0, <1>1, <1>2, <1>3, <1>4, <1>5, <2>1, SnapshotNoted DEF e
<1>6. CASE e.kind \in {"reacted", "deleted"}
  <2>1. invalidateCachedPost(e.id, e.body.at)
    BY <1>3, <1>6 DEF reactedEvent, deletedEvent
  <2> HIDE DEF e
  <2> QED BY <1>0, <1>1, <1>2, <1>3, <1>4, <1>6, <2>1, InvalidationNoted DEF e
<1>7. e.kind \in {"posted", "edited", "reacted", "deleted"}
  BY <1>3
<1> HIDE DEF e
<1> QED BY <1>5, <1>6, <1>7

\* The posts of an answer that may overwrite what memory holds.
Accepted(path) == {p \in DOMAIN inFlight[path].reply : observed[p] <= inFlight[path].seq}

\* The answer to a request: disk, then memory.
LEMMA ReplyTaken ==
    ASSUME Shape, NEW path \in Paths, httpFinished(path)
    PROVE  LET get == inFlight[path] IN
           /\ inFlight' = [inFlight EXCEPT ![path] = Idle]
           /\ \/ queue' = queue
              \/ queue' = Append(queue, StorePosts(get.reply, get.seq))
           /\ Accepted(path) \subseteq Posts
           /\ observed' \in [Posts -> Nat]
           /\ \A q \in Posts : observed[q] <= observed'[q] /\ observed'[q] <= sequence
           /\ resident' = [p \in Posts |-> IF p \in Accepted(path) THEN get.reply[p]
                                           ELSE resident[p]]
           /\ tombstone' = tombstone \ Accepted(path)
           /\ cached' = cached \ Accepted(path)
           /\ unfenced' = unfenced \ Accepted(path)
<1> DEFINE get == inFlight[path]
<1>0. TypeOK /\ SeqBound
  BY DEF Shape
<1>1. Accepted(path) = {p \in DOMAIN get.reply : Fresh(p, get.seq)}
  BY DEF Accepted, Fresh
<1>2. /\ inFlight' = [inFlight EXCEPT ![path] = Idle]
      /\ \/ queue' = queue
         \/ queue' = Append(queue, StorePosts(get.reply, get.seq))
      /\ observed' = Observed(Accepted(path), get.seq)
      /\ resident' = [p \in Posts |-> IF p \in Accepted(path) THEN get.reply[p] ELSE resident[p]]
      /\ tombstone' = tombstone \ Accepted(path) /\ cached' = cached \ Accepted(path)
      /\ unfenced' = unfenced \ Accepted(path)
  BY <1>1 DEF httpFinished, ingest
<1>3. Accepted(path) \subseteq Posts /\ get.seq \in Nat /\ get.seq <= sequence
  BY <1>0, GetFacts DEF Accepted, SeqBound
<1>4. \A q \in Posts : observed[q] \in Nat /\ observed[q] <= sequence
  BY <1>0, Types DEF SeqBound
<1>5. /\ observed' \in [Posts -> Nat]
      /\ \A q \in Posts : observed[q] <= observed'[q] /\ observed'[q] \in {observed[q], get.seq}
  BY <1>0, <1>2, <1>3, Noted
<1>6. \A q \in Posts : observed'[q] <= sequence
  BY <1>3, <1>4, <1>5
<1> QED BY <1>2, <1>3, <1>5, <1>6

\* The posts a result fills in, of those memory does not hold.
Filled(r) == {p \in DOMAIN r.posts : resident[p] = None /\ observed[p] <= r.seq}

\* The result of a read fills absence.
LEMMA ReadTaken ==
    ASSUME Shape, readFinished
    PROVE  LET r == callbacks[1] IN
           /\ callbacks # <<>> /\ callbacks' = Tail(callbacks)
           /\ r \in Results /\ Filled(r) \subseteq Posts
           /\ \A p \in Filled(r) : r.posts[p] \in Body
           /\ resident' = [p \in Posts |-> IF p \in Filled(r) THEN r.posts[p] ELSE resident[p]]
           /\ cached' = cached \cup Filled(r)
           /\ UNCHANGED <<tombstone, unfenced>>
<1> DEFINE r == callbacks[1]
<1>1. callbacks # <<>> /\ callbacks' = Tail(callbacks) /\ Head(callbacks) = r /\ r \in Results
  BY Types, TailFacts DEF Shape, readFinished
<1>2. Filled(r) = {p \in DOMAIN r.posts : Fills(p, r.seq)}
  BY DEF Filled, Fills
<1>3. r.posts \in PostsObject
  BY <1>1 DEF Results
<1>4. Filled(r) \subseteq Posts /\ \A p \in Filled(r) : r.posts[p] \in Body
  BY <1>3, PostsObjectType DEF Filled
<1>5. /\ resident' = [p \in Posts |-> IF p \in Filled(r) THEN r.posts[p] ELSE resident[p]]
      /\ cached' = cached \cup Filled(r)
      /\ UNCHANGED <<tombstone, unfenced>>
  BY <1>1, <1>2 DEF readFinished, ingestCached
<1> QED BY <1>1, <1>4, <1>5

\* One revision of p by the server, as its events tell of it.
Revised(p, state, kind) ==
    /\ post' = [post EXCEPT ![p] = state]
    /\ events' = Append(events, [kind |-> kind, id |-> p,
                                 body |-> [at |-> state.at, text |-> state.text,
                                           liked |-> state.liked]])
    /\ state \in PostSet /\ state.at = post[p].at + 1 /\ state.text >= 1
    /\ state.alive <=> kind # "deleted"
    /\ kind = "posted" => post[p].at = 0 /\ state.at = 1 /\ state.text = 1
    /\ kind # "posted" => post[p].alive
    /\ kind \in {"reacted", "deleted"} => state.text = post[p].text
    /\ kind \in {"edited", "deleted"} => state.liked = post[p].liked

\* Whoever makes it, a change on the server is one revision of one post.
LEMMA ServerRevises ==
    ASSUME Shape, ServerMutates \/ ServerServes
    PROVE  \/ UNCHANGED <<post, events>>
           \/ \E p \in Posts, state \in PostSet, kind \in Kinds : Revised(p, state, kind)
<1>0. TypeOK /\ PostShape /\ MaxRev \in Nat /\ post \in [Posts -> PostSet]
  BY Types, RepositoryAssumption DEF Shape
<1>1. ASSUME NEW p \in Posts, Mutate(p)
      PROVE  \E state \in PostSet, kind \in Kinds : Revised(p, state, kind)
  <2> DEFINE at == post[p].at + 1
  <2>1. /\ post[p].at \in 0 .. MaxRev /\ post[p].text \in 0 .. MaxRev /\ post[p].liked \in BOOLEAN
        /\ at \in 0 .. MaxRev /\ at >= 1 /\ post[p] \in PostSet
    BY <1>0, <1>1 DEF Mutate, PostSet
  <2>2. CASE post[p].at = 0 /\ Revise(p, [at |-> 1, text |-> 1, liked |-> FALSE, alive |-> TRUE], "posted")
    <3> DEFINE state == [at |-> 1, text |-> 1, liked |-> FALSE, alive |-> TRUE]
    <3>1. state \in PostSet /\ "posted" \in Kinds
      BY <2>1, <2>2, <1>0 DEF PostSet, Kinds
    <3>2. Revised(p, state, "posted")
      BY <1>0, <2>1, <2>2, <3>1 DEF Revise, Revised
    <3> QED BY <3>1, <3>2
  <2>3. CASE post[p].alive /\ Revise(p, [post[p] EXCEPT !.at = at, !.text = at], "edited")
    <3> DEFINE state == [post[p] EXCEPT !.at = at, !.text = at]
    <3>1. /\ state \in PostSet /\ "edited" \in Kinds /\ state.at = at /\ state.text = at
          /\ state.liked = post[p].liked /\ state.alive = post[p].alive
      BY <1>0, <2>1 DEF PostSet, Kinds
    <3>2. Revised(p, state, "edited")
      BY <1>0, <2>1, <2>3, <3>1 DEF Revise, Revised
    <3> QED BY <3>1, <3>2
  <2>4. CASE post[p].alive /\ Revise(p, [post[p] EXCEPT !.at = at, !.liked = ~@], "reacted")
    <3> DEFINE state == [post[p] EXCEPT !.at = at, !.liked = ~@]
    <3>1. /\ state \in PostSet /\ "reacted" \in Kinds /\ state.at = at
          /\ state.text = post[p].text /\ state.alive = post[p].alive
      BY <1>0, <2>1 DEF PostSet, Kinds
    <3>2. Revised(p, state, "reacted")
      BY <1>0, <2>1, <2>4, <3>1 DEF Revise, Revised, PostShape
    <3> QED BY <3>1, <3>2
  <2>5. CASE post[p].alive /\ Revise(p, [post[p] EXCEPT !.at = at, !.alive = FALSE], "deleted")
    <3> DEFINE state == [post[p] EXCEPT !.at = at, !.alive = FALSE]
    <3>1. /\ state \in PostSet /\ "deleted" \in Kinds /\ state.at = at
          /\ state.text = post[p].text /\ state.liked = post[p].liked /\ state.alive = FALSE
      BY <1>0, <2>1 DEF PostSet, Kinds
    <3>2. Revised(p, state, "deleted")
      BY <1>0, <2>1, <2>5, <3>1 DEF Revise, Revised, PostShape
    <3> QED BY <3>1, <3>2
  <2> QED BY <1>1, <2>2, <2>3, <2>4, <2>5 DEF Mutate
<1>2. ASSUME NEW w \in DOMAIN calls, AnswerCall(w)
      PROVE  \/ UNCHANGED <<post, events>>
             \/ \E p \in Posts, state \in PostSet, kind \in Kinds : Revised(p, state, kind)
  <2> DEFINE p == calls[w].id
             at == post[p].at + 1
             state == [at |-> at, text |-> at, liked |-> post[p].liked, alive |-> TRUE]
             kind == IF calls[w].kind = "post" THEN "posted" ELSE "edited"
  <2>1. p \in Posts /\ calls[w] \in CallSet
    <3>1. calls[w] \in CallSet
      BY <1>0, Types, PlaceFacts
    <3> QED BY <3>1 DEF CallSet
  <2>2. CASE UNCHANGED <<post, events>>
    BY <2>2
  <2>3. CASE /\ at =< MaxRev
             /\ IF calls[w].kind = "post" THEN post[p].at = 0 ELSE post[p].alive
             /\ Revise(p, state, kind)
    <3>1. post[p].at \in 0 .. MaxRev /\ post[p].text \in 0 .. MaxRev /\ post[p].liked \in BOOLEAN
      BY <1>0, <2>1 DEF PostSet
    <3>2. state \in PostSet /\ kind \in Kinds
      BY <1>0, <2>3, <3>1 DEF PostSet, Kinds
    <3>3. Revised(p, state, kind)
      BY <1>0, <2>3, <3>1, <3>2 DEF Revise, Revised
    <3> HIDE DEF p, state, kind
    <3> QED BY <2>1, <3>2, <3>3
  <2> QED BY <1>2, <2>2, <2>3 DEF AnswerCall
<1> QED BY <1>1, <1>2 DEF ServerMutates, ServerServes

\* The server and its events keep their types.
LEMMA TypeServer ==
    ASSUME Shape, [Next]_vars
    PROVE  post' \in [Posts -> PostSet] /\ events' \in Seq(EventSet) /\ PostShape'
<1>0. TypeOK /\ PostShape /\ MaxRev \in Nat /\ post \in [Posts -> PostSet] /\ events \in Seq(EventSet)
  BY Types, RepositoryAssumption DEF Shape
<1>1. ASSUME NEW p \in Posts, NEW state \in PostSet, NEW kind \in Kinds, Revised(p, state, kind)
      PROVE  post' \in [Posts -> PostSet] /\ events' \in Seq(EventSet) /\ PostShape'
  <2> DEFINE b == [at |-> state.at, text |-> state.text, liked |-> state.liked]
  <2>1. post[p].at \in 0 .. MaxRev
    BY <1>0 DEF PostSet
  <2>2. state.at \in 1 .. MaxRev /\ state.text \in 1 .. MaxRev /\ state.liked \in BOOLEAN
    BY <1>0, <1>1, <2>1 DEF Revised, PostSet
  <2>3. b \in Body
    BY <2>2 DEF Body, Revisions
  <2>4. [kind |-> kind, id |-> p, body |-> b] \in EventSet
    BY <2>3 DEF EventSet
  <2>5. events' \in Seq(EventSet)
    BY <1>0, <1>1, <2>4, AppendFacts DEF Revised
  <2>6. post' \in [Posts -> PostSet]
    BY <1>0, <1>1 DEF Revised
  <2>7. \A q \in Posts : (q # p => post'[q] = post[q]) /\ (q = p => post'[q] = state)
    BY <1>0, <1>1 DEF Revised
  <2>8. PostShape'
    BY <1>0, <2>2, <2>7 DEF PostShape
  <2> QED BY <2>5, <2>6, <2>8
<1>2. CASE ServerMutates \/ ServerServes
  <2>1. CASE UNCHANGED <<post, events>>
    BY <1>0, <2>1 DEF PostShape
  <2> QED BY <1>1, <1>2, <2>1, ServerRevises
<1>3. CASE UNCHANGED post /\ (UNCHANGED events \/ handleEvent \/ streamLost \/ restart)
  <2>1. PostShape' /\ post' \in [Posts -> PostSet]
    BY <1>0, <1>3 DEF PostShape
  <2>2. CASE handleEvent
    BY <1>0, <2>1, <2>2, TailFacts DEF handleEvent
  <2>3. CASE events' = <<>>
    BY <2>1, <2>3
  <2>4. streamLost \/ restart => events' = <<>>
    BY DEF streamLost, restart
  <2> QED BY <1>0, <1>3, <2>1, <2>2, <2>3, <2>4
<1> QED BY <1>2, <1>3, Framed DEF Frame

\* A command of the worker, and what it does: the effect of executing the head.
LEMMA Executed ==
    ASSUME Shape, workerStep
    PROVE  \/ /\ queue # <<>> /\ queue' = Tail(queue)
              /\ queue[1] \in Commands
              /\ \/ queue[1].op = "store" /\ storePosts(queue[1])
                 \/ queue[1].op = "remove" /\ removePost(queue[1])
                 \/ queue[1].op = "load" /\ loadPosts(queue[1])
           \/ \E p \in Posts : dropRow(p)
<1>1. queue \in Seq(Commands)
  BY Types DEF Shape
<1>2. CASE execute
  BY <1>1, <1>2, TailFacts DEF execute
<1> QED BY <1>2 DEF workerStep

\* The worker keeps its types, and its fences within what was given out.
LEMMA TypeWorker ==
    ASSUME Shape, workerStep
    PROVE  /\ queue' \in Seq(Commands) /\ callbacks' \in Seq(Results)
           /\ disk' \in [Posts -> Body \cup {None}]
           /\ fence' \in [Posts -> Nat] /\ purged' \in [Posts -> 0 .. MaxRev]
           /\ \A p \in Posts : fence'[p] <= sequence
           /\ \A i \in DOMAIN queue' : queue'[i].seq <= sequence
           /\ \A i \in DOMAIN callbacks' : callbacks'[i].seq <= sequence
<1>0. /\ queue \in Seq(Commands) /\ callbacks \in Seq(Results)
      /\ disk \in [Posts -> Body \cup {None}] /\ sequence \in Nat
      /\ fence \in [Posts -> Nat] /\ purged \in [Posts -> 0 .. MaxRev]
      /\ \A p \in Posts : fence[p] <= sequence
      /\ \A i \in DOMAIN queue : queue[i].seq <= sequence
      /\ \A i \in DOMAIN callbacks : callbacks[i].seq <= sequence
      /\ MaxRev \in Nat /\ TypeOK
  BY Types, RepositoryAssumption DEF Shape, SeqBound
<1> DEFINE c == queue[1]
<1>1. CASE queue # <<>> /\ queue' = Tail(queue) /\ c \in Commands
  <2>1. /\ queue' \in Seq(Commands) /\ 1 \in DOMAIN queue
        /\ \A i \in DOMAIN queue' : i + 1 \in DOMAIN queue /\ queue'[i] = queue[i + 1]
    BY <1>0, <1>1, TailFacts
  <2>2. /\ queue' \in Seq(Commands) /\ c.seq \in Nat /\ c.seq <= sequence
        /\ \A i \in DOMAIN queue' : queue'[i].seq <= sequence
    BY <1>0, <1>1, <2>1, CommandFacts
  <2>3. CASE c.op = "store" /\ storePosts(c)
    <3>1. c.posts \in [DOMAIN c.posts -> Body]
      BY <1>1, <2>3, CommandFacts, PostsObjectType
    <3>2. disk' \in [Posts -> Body \cup {None}]
      BY <1>0, <2>3, <3>1 DEF storePosts
    <3> QED BY <1>0, <2>2, <2>3, <3>2 DEF storePosts
  <2>4. CASE c.op = "remove" /\ removePost(c)
    <3>1. c.id \in Posts /\ c.at \in 0 .. MaxRev
      BY <1>0, <1>1, <2>4, CommandFacts DEF Revisions
    <3>2. /\ disk' \in [Posts -> Body \cup {None}] /\ purged' \in [Posts -> 0 .. MaxRev]
          /\ callbacks' = callbacks
      BY <1>0, <2>4, <3>1 DEF removePost
    <3>3. /\ fence' \in [Posts -> Nat] /\ \A p \in Posts : fence'[p] <= sequence
      BY <1>0, <2>2, <2>4, <3>1 DEF removePost
    <3> QED BY <1>0, <2>2, <3>2, <3>3
  <2>5. CASE c.op = "load" /\ loadPosts(c)
    <3>1. PICK ids \in SUBSET Posts :
            callbacks' = Append(callbacks, [what |-> c.what, posts |-> Rows(ids),
                                            seq |-> c.seq, load |-> c.load])
      BY <2>5 DEF loadPosts
    <3> DEFINE r == [what |-> c.what, posts |-> Rows(ids), seq |-> c.seq, load |-> c.load]
    <3>2. r \in Results /\ r.seq = c.seq
      BY <1>0, <1>1, <2>2, <2>5, RowsType, CommandFacts DEF Results
    <3>3. /\ callbacks' \in Seq(Results) /\ DOMAIN callbacks' = 1 .. Len(callbacks) + 1
          /\ DOMAIN callbacks = 1 .. Len(callbacks)
          /\ \A i \in 1 .. Len(callbacks) : callbacks'[i] = callbacks[i]
          /\ callbacks'[Len(callbacks) + 1] = r /\ Len(callbacks) \in Nat
      <4> HIDE DEF r
      <4> QED BY <1>0, <3>1, <3>2, AppendFacts DEF r
    <3>4. \A i \in DOMAIN callbacks' : callbacks'[i].seq <= sequence
      <4> HIDE DEF r
      <4>1. \A i \in DOMAIN callbacks' : i \in 1 .. Len(callbacks) \/ i = Len(callbacks) + 1
        BY <3>3
      <4> QED BY <1>0, <2>2, <3>2, <3>3, <4>1
    <3> QED BY <1>0, <2>2, <2>5, <3>3, <3>4 DEF loadPosts
  <2> QED BY <1>0, <1>1, <2>3, <2>4, <2>5, Executed DEF dropRow
<1>2. CASE \E p \in Posts : dropRow(p)
  BY <1>0, <1>2 DEF dropRow
<1> QED BY <1>1, <1>2, Executed

\* coalescedGet: a request with nothing to show yet, or one more caller of one.
LEMMA Coalesced ==
    ASSUME Shape, NEW path \in Paths, NEW waiting \in SUBSET (1 .. MaxLoads), NEW seq \in Nat,
           seq = sequence + 1 \/ seq = sequence + 2, coalescedGet(path, waiting, seq)
    PROVE  /\ sequence' \in Nat /\ sequence <= sequence' /\ sequence' <= seq /\ seq - 1 <= sequence'
           /\ inFlight' \in [Paths -> GetSet]
           /\ \A q \in Paths : inFlight'[q].seq <= sequence'
           /\ \A q \in Paths : \/ inFlight'[q].reply = Empty
                               \/ /\ inFlight'[q].reply = inFlight[q].reply
                                  /\ inFlight'[q].seq = inFlight[q].seq
<1>0. /\ inFlight \in [Paths -> GetSet] /\ sequence \in Nat
      /\ \A q \in Paths : inFlight[q].seq <= sequence /\ inFlight[q].seq \in Nat
  BY Types, GetFacts DEF Shape, SeqBound
<1>1. CASE inFlight[path].state = "idle"
  <2> DEFINE get == [state |-> "sent", seq |-> seq, reply |-> Empty, waiting |-> waiting]
  <2>1. get \in GetSet
    BY EmptyFacts DEF GetSet
  <2>2. inFlight' = [inFlight EXCEPT ![path] = get] /\ sequence' = seq
    BY <1>1 DEF coalescedGet
  <2>3. /\ inFlight'[path] = get /\ \A q \in Paths : q # path => inFlight'[q] = inFlight[q]
        /\ inFlight' \in [Paths -> GetSet]
    BY <1>0, <2>1, <2>2
  <2>4. sequence <= sequence' /\ sequence' <= seq /\ seq - 1 <= sequence'
    BY <1>0, <2>2
  <2> QED BY <1>0, <2>2, <2>3, <2>4
<1>2. CASE inFlight[path].state # "idle"
  <2>1. /\ inFlight' = [inFlight EXCEPT ![path].waiting = @ \cup waiting] /\ sequence' = seq - 1
    BY <1>2 DEF coalescedGet
  <2>2. \A q \in Paths : /\ inFlight'[q].reply = inFlight[q].reply
                         /\ inFlight'[q].seq = inFlight[q].seq
    BY <1>0, <2>1 DEF GetSet
  <2>3. inFlight' \in [Paths -> GetSet]
    BY <1>0, <2>1 DEF GetSet
  <2>4. sequence' \in Nat /\ sequence <= sequence' /\ sequence' <= seq /\ seq - 1 <= sequence'
    BY <1>0, <2>1
  <2> QED BY <1>0, <2>2, <2>3, <2>4
<1> QED BY <1>1, <1>2

\* A load: the read first, then the request.
LEMMA Loaded ==
    ASSUME Shape, NEW p \in Posts, loadPost(p)
    PROVE  /\ queue' = Append(queue, LoadPosts(p, sequence + 1, Len(loads) + 1))
           /\ LoadPosts(p, sequence + 1, Len(loads) + 1) \in Commands
           /\ loads' \in Seq(LoadSet)
           /\ sequence' \in Nat /\ sequence + 1 <= sequence'
           /\ inFlight' \in [Paths -> GetSet]
           /\ \A q \in Paths : inFlight'[q].seq <= sequence'
           /\ \A q \in Paths : \/ inFlight'[q].reply = Empty
                               \/ /\ inFlight'[q].reply = inFlight[q].reply
                                  /\ inFlight'[q].seq = inFlight[q].seq
<1>0. /\ sequence \in Nat /\ loads \in Seq(LoadSet) /\ Len(loads) \in Nat /\ MaxLoads \in Nat
      /\ p \in Paths /\ p \in Reads
  BY Types, RepositoryAssumption DEF Shape, Paths
<1>1. /\ Len(loads) < MaxLoads
      /\ queue' = Append(queue, LoadPosts(p, sequence + 1, Len(loads) + 1))
      /\ coalescedGet(p, {Len(loads) + 1}, sequence + 1 + 1)
      /\ loads' = Append(loads, [post |-> p, cacheDone |-> FALSE, httpDone |-> FALSE,
                                 delivered |-> "no"])
  BY DEF loadPost
<1>2. /\ {Len(loads) + 1} \in SUBSET (1 .. MaxLoads) /\ sequence + 1 + 1 = sequence + 2
      /\ sequence + 1 + 1 \in Nat
  BY <1>0, <1>1
<1>3. /\ sequence' \in Nat /\ sequence + 1 + 1 - 1 <= sequence' /\ inFlight' \in [Paths -> GetSet]
      /\ \A q \in Paths : inFlight'[q].seq <= sequence'
      /\ \A q \in Paths : \/ inFlight'[q].reply = Empty
                          \/ /\ inFlight'[q].reply = inFlight[q].reply
                             /\ inFlight'[q].seq = inFlight[q].seq
  BY <1>0, <1>1, <1>2, Coalesced
<1>4. loads' \in Seq(LoadSet)
  BY <1>0, <1>1, AppendFacts DEF LoadSet
<1>5. LoadPosts(p, sequence + 1, Len(loads) + 1) \in Commands
  BY <1>0, CommandType
<1>6. sequence + 1 <= sequence'
  BY <1>0, <1>3
<1> QED BY <1>1, <1>3, <1>4, <1>5, <1>6

\* The request for the channel page.
LEMMA PageLoaded ==
    ASSUME Shape, loadChannelPage
    PROVE  /\ sequence' \in Nat /\ sequence <= sequence'
           /\ inFlight' \in [Paths -> GetSet]
           /\ \A q \in Paths : inFlight'[q].seq <= sequence'
           /\ \A q \in Paths : \/ inFlight'[q].reply = Empty
                               \/ /\ inFlight'[q].reply = inFlight[q].reply
                                  /\ inFlight'[q].seq = inFlight[q].seq
<1>1. sequence \in Nat /\ Page \in Paths /\ {} \in SUBSET (1 .. MaxLoads) /\ sequence + 1 \in Nat
  BY Types DEF Shape, Paths
<1>2. coalescedGet(Page, {}, sequence + 1)
  BY DEF loadChannelPage
<1> QED BY <1>1, <1>2, Coalesced

\* What joins the queue of the worker, and from where.
LEMMA Queued ==
    ASSUME Shape, [Next]_vars
    PROVE  \/ workerStep \/ restart \/ queue' = queue
           \/ \E c \in Commands :
                /\ queue' = Append(queue, c) /\ c.seq <= sequence'
                /\ \/ \E path \in Paths : /\ httpFinished(path)
                                          /\ c = StorePosts(inFlight[path].reply, inFlight[path].seq)
                   \/ /\ handleEvent /\ events[1].kind \in {"posted", "edited"}
                      /\ c = StorePosts([q \in {events[1].id} |-> events[1].body], sequence + 1)
                   \/ /\ handleEvent /\ events[1].kind \in {"reacted", "deleted"}
                      /\ c = RemovePost(events[1].id, sequence + 1, events[1].body.at)
                   \/ /\ CallTaken
                      /\ \E p \in Called, body \in Body :
                           c = StorePosts([q \in {p} |-> body], sequence + 1)
                   \/ /\ Load \/ loadCachedChannelTail
                      /\ c.op = "load" /\ c.seq = sequence + 1
<1>0. sequence \in Nat /\ sequence + 1 \in Nat /\ Page \in Reads /\ TypeOK /\ SeqBound
  BY Types, RepositoryAssumption DEF Shape
<1>1. CASE Load
  <2>1. PICK p \in Posts : loadPost(p)
    BY <1>1 DEF Load
  <2> DEFINE c == LoadPosts(p, sequence + 1, Len(loads) + 1)
  <2>2. c \in Commands /\ queue' = Append(queue, c) /\ sequence + 1 <= sequence'
    BY <2>1, Loaded
  <2>3. c.op = "load" /\ c.seq = sequence + 1
    BY DEF LoadPosts
  <2> HIDE DEF c
  <2> QED BY <1>1, <2>2, <2>3
<1>2. CASE loadCachedChannelTail
  <2> DEFINE c == LoadPosts(Page, sequence + 1, 0)
  <2>1. c \in Commands /\ queue' = Append(queue, c) /\ sequence' = sequence + 1
    BY <1>0, <1>2, CommandType DEF loadCachedChannelTail
  <2>2. c.op = "load" /\ c.seq = sequence + 1
    BY DEF LoadPosts
  <2> HIDE DEF c
  <2> QED BY <1>0, <1>2, <2>1, <2>2
<1>3. CASE Reply
  <2>1. PICK path \in Paths : httpFinished(path)
    BY <1>3 DEF Reply
  <2> DEFINE c == StorePosts(inFlight[path].reply, inFlight[path].seq)
  <2>2. /\ inFlight[path].reply \in PostsObject /\ inFlight[path].seq \in Nat
        /\ inFlight[path].seq <= sequence /\ sequence' = sequence
    BY <1>0, <2>1, GetFacts DEF SeqBound, httpFinished
  <2>3. c \in Commands /\ c.seq <= sequence'
    BY <2>2, CommandType DEF StorePosts
  <2>4. queue' = queue \/ queue' = Append(queue, c)
    BY <2>1, ReplyTaken
  <2> HIDE DEF c
  <2> QED BY <2>1, <2>3, <2>4 DEF c
<1>4. CASE handleEvent
  <2> DEFINE e == events[1]
             s == StorePosts([q \in {e.id} |-> e.body], sequence + 1)
             r == RemovePost(e.id, sequence + 1, e.body.at)
  <2>1. /\ e.id \in Posts /\ e.body \in Body /\ [q \in {e.id} |-> e.body] \in PostsObject
        /\ sequence' = sequence + 1
        /\ \/ e.kind \in {"posted", "edited"} /\ queue' = queue
           \/ e.kind \in {"posted", "edited"} /\ queue' = Append(queue, s)
           \/ e.kind \in {"reacted", "deleted"} /\ queue' = Append(queue, r)
    BY <1>4, EventNoted
  <2>2. e.body.at \in Revisions
    BY <2>1 DEF Body
  <2>3. s \in Commands /\ r \in Commands
    BY <1>0, <2>1, <2>2, CommandType
  <2>4. s.seq <= sequence' /\ r.seq <= sequence'
    BY <1>0, <2>1 DEF StorePosts, RemovePost
  <2> HIDE DEF e, s, r
  <2> QED BY <1>4, <2>1, <2>3, <2>4 DEF e, s, r
<1>5. CASE CallTaken
  <2>1. PICK w \in DOMAIN calls : callFinished(w)
    BY <1>5 DEF CallTaken
  <2> DEFINE p == calls[w].id
             c == StorePosts([q \in {p} |-> calls[w].body], sequence + 1)
  <2>2. p \in Posts /\ p \in Called /\ calls[w].body \in Body
    <3>1. calls[w] \in CallSet
      BY <1>0, Types, PlaceFacts
    <3> QED BY <2>1, <3>1 DEF CallSet, Called, Shape, CallShape, callFinished
  <2>3. cachePostObject(p, calls[w].body)
    BY <2>1 DEF callFinished
  <2>4. /\ [q \in {p} |-> calls[w].body] \in PostsObject /\ sequence' = sequence + 1
        /\ queue' = queue \/ queue' = Append(queue, c)
    BY <1>0, <2>2, <2>3, SnapshotNoted
  <2>5. c \in Commands /\ c.seq <= sequence'
    BY <1>0, <2>4, CommandType DEF StorePosts
  <2> HIDE DEF c, p
  <2> QED BY <1>5, <2>2, <2>4, <2>5 DEF c
<1> QED BY <1>1, <1>2, <1>3, <1>4, <1>5, Framed DEF Frame

\* The end of the process.
LEMMA Restarted ==
    ASSUME restart
    PROVE  /\ queue' = <<>> /\ callbacks' = <<>> /\ events' = <<>> /\ sequence' = 0
           /\ fence' = [p \in Posts |-> 0] /\ purged' = [p \in Posts |-> 0]
           /\ observed' = [p \in Posts |-> 0] /\ resident' = [p \in Posts |-> None]
           /\ inFlight' = [path \in Paths |-> Idle] /\ loads' = <<>>
           /\ seen' = [p \in Posts |-> 0]
           /\ tombstone' = {} /\ gone' = {} /\ cached' = {} /\ unfenced' = {}
           /\ UNCHANGED <<post, disk>>
BY DEF restart

\* Sequences only grow, until the process ends.
LEMMA Sequenced ==
    ASSUME Shape, [Next]_vars
    PROVE  sequence' \in Nat /\ (restart \/ sequence <= sequence')
<1>0. sequence \in Nat /\ TypeOK /\ SeqBound
  BY Types DEF Shape
<1>1. CASE Load
  BY <1>0, <1>1, Loaded DEF Load
<1>2. CASE loadChannelPage
  BY <1>0, <1>2, PageLoaded
<1>3. CASE loadCachedChannelTail
  BY <1>0, <1>3 DEF loadCachedChannelTail
<1>4. CASE handleEvent
  BY <1>0, <1>4, EventNoted
<1>5. CASE CallTaken
  BY <1>0, <1>5 DEF CallTaken, callFinished, cachePostObject
<1>6. CASE restart
  BY <1>6, Restarted
<1> QED BY <1>0, <1>1, <1>2, <1>3, <1>4, <1>5, <1>6, Framed DEF Frame

\* The requests keep their types and their bound.
LEMMA TypeGets ==
    ASSUME Shape, [Next]_vars
    PROVE  inFlight' \in [Paths -> GetSet] /\ \A q \in Paths : inFlight'[q].seq <= sequence'
<1>0. /\ inFlight \in [Paths -> GetSet] /\ TypeOK /\ PostShape /\ sequence \in Nat
      /\ \A q \in Paths : inFlight[q].seq <= sequence /\ inFlight[q].seq \in Nat
      /\ sequence' \in Nat /\ (restart \/ sequence <= sequence')
  BY Types, GetFacts, Sequenced DEF Shape, SeqBound
<1>1. CASE Load
  BY <1>1, Loaded DEF Load
<1>2. CASE loadChannelPage
  BY <1>2, PageLoaded
<1>3. Idle \in GetSet /\ Idle.seq = 0
  BY EmptyFacts DEF Idle, GetSet
<1>4. CASE Reply
  <2>1. PICK path \in Paths : httpFinished(path)
    BY <1>4 DEF Reply
  <2>2. inFlight' = [inFlight EXCEPT ![path] = Idle] /\ sequence' = sequence
    BY <2>1 DEF httpFinished
  <2> QED BY <1>0, <1>3, <2>2
<1>5. CASE ServerReplies
  <2>0. PICK path \in Paths : Answer(path)
    BY <1>5 DEF ServerReplies
  <2>1. PICK reply \in {Empty, PostsAt(path)} :
          inFlight' = [inFlight EXCEPT ![path].state = "answered", ![path].reply = reply]
    BY <2>0 DEF Answer
  <2>2. reply \in PostsObject /\ sequence' = sequence
    BY <1>0, <2>0, <2>1, EmptyFacts, SnapshotType DEF Answer
  <2>3. inFlight' \in [Paths -> GetSet]
    BY <1>0, <2>1, <2>2 DEF GetSet
  <2>4. \A q \in Paths : inFlight'[q].seq = inFlight[q].seq
    BY <1>0, <2>1 DEF GetSet
  <2> QED BY <1>0, <2>2, <2>3, <2>4
<1>6. CASE restart
  BY <1>3, <1>6, Restarted
<1>7. CASE UNCHANGED inFlight /\ ~restart
  BY <1>0, <1>7
<1> QED BY <1>1, <1>2, <1>4, <1>5, <1>6, <1>7, Framed DEF Frame

\* The sequences of the posts and of the results keep their types and their bound.
LEMMA TypeSequences ==
    ASSUME Shape, [Next]_vars
    PROVE  /\ observed' \in [Posts -> Nat] /\ fence' \in [Posts -> Nat]
           /\ purged' \in [Posts -> 0 .. MaxRev] /\ disk' \in [Posts -> Body \cup {None}]
           /\ queue' \in Seq(Commands) /\ callbacks' \in Seq(Results)
           /\ SeqBound'
<1>0. /\ TypeOK /\ SeqBound /\ sequence \in Nat /\ MaxRev \in Nat
      /\ queue \in Seq(Commands) /\ callbacks \in Seq(Results)
      /\ observed \in [Posts -> Nat] /\ fence \in [Posts -> Nat]
      /\ purged \in [Posts -> 0 .. MaxRev] /\ disk \in [Posts -> Body \cup {None}]
      /\ \A p \in Posts : fence[p] <= sequence /\ observed[p] <= sequence
      /\ \A i \in DOMAIN queue : queue[i].seq <= sequence /\ queue[i].seq \in Nat
      /\ \A i \in DOMAIN callbacks : callbacks[i].seq <= sequence /\ callbacks[i].seq \in Nat
  <2>1. TypeOK /\ SeqBound
    BY DEF Shape
  <2>2. queue \in Seq(Commands) /\ callbacks \in Seq(Results)
    BY <2>1, Types
  <2>3. /\ \A i \in DOMAIN queue : queue[i].seq \in Nat
        /\ \A i \in DOMAIN callbacks : callbacks[i].seq \in Nat
    <3>1. \A i \in DOMAIN queue : queue[i] \in Commands
      BY <2>2, PlaceFacts
    <3>2. \A i \in DOMAIN callbacks : callbacks[i] \in Results
      BY <2>2, PlaceFacts
    <3>3. \A i \in DOMAIN callbacks : callbacks[i].seq \in Nat
      BY <3>2 DEF Results
    <3> QED BY <3>1, <3>3, CommandFacts
  <2> QED BY <2>1, <2>2, <2>3, Types, RepositoryAssumption DEF SeqBound
<1>s. sequence' \in Nat /\ (restart \/ sequence <= sequence')
  BY Sequenced
<1>1. CASE restart
  <2>1. DOMAIN queue' = {} /\ DOMAIN callbacks' = {} /\ queue' \in Seq(Commands)
        /\ callbacks' \in Seq(Results) /\ sequence' = 0
    BY <1>1, Restarted
  <2>2. /\ observed' \in [Posts -> Nat] /\ fence' \in [Posts -> Nat]
        /\ purged' \in [Posts -> 0 .. MaxRev] /\ disk' \in [Posts -> Body \cup {None}]
        /\ \A p \in Posts : fence'[p] = 0 /\ observed'[p] = 0
    BY <1>0, <1>1, Restarted
  <2> QED BY <2>1, <2>2, TypeGets DEF SeqBound
<1>2. CASE ~restart
  <2>1. observed' \in [Posts -> Nat] /\ \A p \in Posts : observed'[p] <= sequence'
    <3>1. CASE Reply
      <4>1. PICK path \in Paths : httpFinished(path)
        BY <3>1 DEF Reply
      <4>2. sequence' = sequence
        BY <4>1 DEF httpFinished
      <4> QED BY <4>1, <4>2, ReplyTaken
    <3>2. CASE handleEvent
      BY <3>2, EventNoted
    <3>3. CASE CallTaken
      <4>1. PICK w \in DOMAIN calls : callFinished(w)
        BY <3>3 DEF CallTaken
      <4>2. calls[w] \in CallSet
        BY <1>0, Types, PlaceFacts
      <4>3. calls[w].id \in Posts /\ calls[w].body \in Body
        BY <4>1, <4>2 DEF CallSet, Shape, CallShape, callFinished
      <4>4. cachePostObject(calls[w].id, calls[w].body)
        BY <4>1 DEF callFinished
      <4> QED BY <1>0, <4>3, <4>4, SnapshotNoted
    <3>4. CASE UNCHANGED observed
      BY <1>0, <1>2, <1>s, <3>4
    <3> QED BY <1>2, <3>1, <3>2, <3>3, <3>4, Framed DEF Frame
  <2>2. CASE workerStep
    <3>1. sequence' = sequence
      BY <2>2 DEF workerStep, repository
    <3>2. /\ queue' \in Seq(Commands) /\ callbacks' \in Seq(Results)
          /\ disk' \in [Posts -> Body \cup {None}]
          /\ fence' \in [Posts -> Nat] /\ purged' \in [Posts -> 0 .. MaxRev]
          /\ \A p \in Posts : fence'[p] <= sequence'
          /\ \A i \in DOMAIN queue' : queue'[i].seq <= sequence'
          /\ \A i \in DOMAIN callbacks' : callbacks'[i].seq <= sequence'
      BY <2>2, <3>1, TypeWorker
    <3> QED BY <2>1, <3>2, TypeGets DEF SeqBound
  <2>3. CASE ~workerStep
    <3>1. UNCHANGED <<disk, fence, purged>> /\ \A p \in Posts : fence'[p] <= sequence'
      <4>1. UNCHANGED <<disk, fence, purged>>
        BY <1>2, <2>3, Framed DEF Frame
      <4> QED BY <1>0, <1>2, <1>s, <4>1
    <3>2. /\ callbacks' \in Seq(Results)
          /\ \A i \in DOMAIN callbacks' : callbacks'[i].seq <= sequence'
      <4>1. CASE readFinished
        <5>1. callbacks # <<>> /\ callbacks' = Tail(callbacks) /\ sequence' = sequence
          BY <4>1 DEF readFinished
        <5> QED BY <1>0, <5>1, TailFacts
      <4>2. CASE UNCHANGED callbacks
        BY <1>0, <1>2, <1>s, <4>2
      <4> QED BY <1>2, <2>3, <4>1, <4>2, Framed DEF Frame
    <3>3. /\ queue' \in Seq(Commands) /\ \A i \in DOMAIN queue' : queue'[i].seq <= sequence'
      <4>1. CASE UNCHANGED queue
        BY <1>0, <1>2, <1>s, <4>1
      <4>2. ASSUME NEW c \in Commands, queue' = Append(queue, c), c.seq <= sequence'
            PROVE  queue' \in Seq(Commands) /\ \A i \in DOMAIN queue' : queue'[i].seq <= sequence'
        <5>1. /\ queue' \in Seq(Commands) /\ DOMAIN queue = 1 .. Len(queue)
              /\ DOMAIN queue' = 1 .. Len(queue) + 1 /\ Len(queue) \in Nat
              /\ \A i \in 1 .. Len(queue) : queue'[i] = queue[i]
              /\ queue'[Len(queue) + 1] = c
          BY <1>0, <4>2, AppendFacts
        <5>2. \A i \in DOMAIN queue' : i \in DOMAIN queue \/ i = Len(queue) + 1
          BY <5>1
        <5> QED BY <1>0, <1>2, <1>s, <4>2, <5>1, <5>2
      <4> QED BY <1>2, <2>3, <4>1, <4>2, Queued
    <3> QED BY <1>0, <2>1, <3>1, <3>2, <3>3, TypeGets DEF SeqBound
  <2> QED BY <2>2, <2>3
<1> QED BY <1>1, <1>2

\* The bodies in memory, and what is noted of them, keep their types.
LEMMA TypeResident ==
    ASSUME Shape, [Next]_vars
    PROVE  /\ resident' \in [Posts -> Body \cup {None}]
           /\ tombstone' \subseteq {p \in Posts : resident'[p] # None}
           /\ cached' \subseteq Posts /\ unfenced' \subseteq Posts
           /\ seen' \in [Posts -> 0 .. MaxRev] /\ gone' \subseteq Posts
<1>0. /\ TypeOK /\ resident \in [Posts -> Body \cup {None}]
      /\ tombstone \subseteq {p \in Posts : resident[p] # None}
      /\ cached \subseteq Posts /\ unfenced \subseteq Posts
      /\ seen \in [Posts -> 0 .. MaxRev] /\ gone \subseteq Posts
      /\ MaxRev \in Nat /\ None \notin Body
  BY Types, EmptyFacts, RepositoryAssumption DEF Shape
<1>1. CASE restart
  BY <1>0, <1>1, Restarted
<1>2. CASE handleEvent
  <2> DEFINE e == events[1]
  <2>1. /\ e.id \in Posts /\ e.body \in Body
        /\ \/ postedEvent(e) \/ editedEvent(e) \/ reactedEvent(e) \/ deletedEvent(e)
    BY <1>2, EventNoted
  <2>2. e.body.at \in 0 .. MaxRev /\ e.body.liked \in BOOLEAN
    BY <1>0, <2>1, BodyFacts
  <2> HIDE DEF e
  <2>3. CASE postedEvent(e)
    <3>1. resident' = resident \/ (resident[e.id] = None /\ resident' = [resident EXCEPT ![e.id] = e.body])
      BY <2>3 DEF postedEvent
    <3>2. /\ UNCHANGED <<tombstone, gone, cached, unfenced>>
          /\ seen' = [seen EXCEPT ![e.id] = e.body.at]
      BY <2>3 DEF postedEvent
    <3>3. resident' \in [Posts -> Body \cup {None}]
      BY <1>0, <2>1, <3>1
    <3>4. \A p \in Posts : resident[p] # None => resident'[p] # None
      BY <1>0, <2>1, <3>1
    <3>5. tombstone' \subseteq {p \in Posts : resident'[p] # None}
      BY <1>0, <3>2, <3>4
    <3>6. seen' \in [Posts -> 0 .. MaxRev]
      BY <1>0, <2>1, <2>2, <3>2
    <3> QED BY <1>0, <3>2, <3>3, <3>5, <3>6
  <2>4. CASE editedEvent(e)
    <3>1. seen' = [seen EXCEPT ![e.id] = e.body.at] /\ gone' = gone
      BY <2>4 DEF editedEvent
    <3>2. CASE resident[e.id] = None
      <4>1. UNCHANGED <<resident, tombstone, cached, unfenced>>
        BY <2>4, <3>2 DEF editedEvent
      <4> QED BY <1>0, <2>1, <2>2, <3>1, <4>1
    <3>3. CASE resident[e.id] # None
      <4>1. /\ resident' = [resident EXCEPT ![e.id] = e.body]
            /\ tombstone' = tombstone \ {e.id} /\ cached' = cached \ {e.id}
            /\ unfenced' = unfenced \ {e.id}
        BY <2>4, <3>3 DEF editedEvent
      <4>2. resident' \in [Posts -> Body \cup {None}]
        BY <1>0, <2>1, <4>1
      <4>3. \A p \in tombstone' : p \in Posts /\ resident'[p] # None
        BY <1>0, <4>1
      <4>4. seen' \in [Posts -> 0 .. MaxRev]
        BY <1>0, <2>1, <2>2, <3>1
      <4> QED BY <1>0, <3>1, <4>1, <4>2, <4>3, <4>4
    <3> QED BY <3>2, <3>3
  <2>5. CASE reactedEvent(e)
    <3>1. /\ UNCHANGED <<tombstone, seen, gone, cached, unfenced>>
          /\ resident' = IF resident[e.id] = None THEN resident
                         ELSE [resident EXCEPT ![e.id].liked = e.body.liked]
      BY <2>5 DEF reactedEvent
    <3>2. CASE resident[e.id] = None
      BY <1>0, <3>1, <3>2
    <3>3. CASE resident[e.id] # None
      <4> DEFINE b == [resident[e.id] EXCEPT !.liked = e.body.liked]
      <4>1. resident[e.id] \in Body
        BY <1>0, <2>1, <3>3
      <4>2. b \in Body
        BY <2>2, <4>1 DEF Body
      <4>3. resident' = [resident EXCEPT ![e.id] = b]
        BY <3>1, <3>3
      <4> HIDE DEF b
      <4>4. resident' \in [Posts -> Body \cup {None}] /\ resident'[e.id] # None
        BY <1>0, <2>1, <4>2, <4>3
      <4>5. \A p \in tombstone' : p \in Posts /\ resident'[p] # None
        BY <1>0, <3>1, <4>3, <4>4
      <4> QED BY <1>0, <3>1, <4>4, <4>5
    <3> QED BY <3>2, <3>3
  <2>6. CASE deletedEvent(e)
    <3>1. /\ UNCHANGED <<resident, seen, cached, unfenced>> /\ gone' = gone \cup {e.id}
          /\ tombstone' = IF resident[e.id] = None THEN tombstone ELSE tombstone \cup {e.id}
      BY <2>6 DEF deletedEvent
    <3> QED BY <1>0, <2>1, <3>1
  <2> QED BY <2>1, <2>3, <2>4, <2>5, <2>6
<1>3. CASE ~restart /\ ~handleEvent
  <2>1. seen' = seen /\ gone' = gone
    BY <1>3, Framed DEF Frame
  <2>2. ASSUME NEW S \in SUBSET Posts, NEW f,
               \A p \in S : f[p] \in Body,
               resident' = [p \in Posts |-> IF p \in S THEN f[p] ELSE resident[p]],
               tombstone' \subseteq tombstone
        PROVE  /\ resident' \in [Posts -> Body \cup {None}]
               /\ tombstone' \subseteq {p \in Posts : resident'[p] # None}
    <3>1. resident' \in [Posts -> Body \cup {None}]
      BY <1>0, <2>2
    <3>2. \A p \in Posts : resident[p] # None => resident'[p] # None
      BY <1>0, <2>2
    <3> QED BY <1>0, <2>2, <3>1, <3>2
  <2>3. CASE Reply
    <3>1. PICK path \in Paths : httpFinished(path)
      BY <2>3 DEF Reply
    <3> DEFINE S == Accepted(path)
               f == inFlight[path].reply
    <3>2. /\ S \in SUBSET Posts /\ tombstone' = tombstone \ S /\ cached' = cached \ S
          /\ unfenced' = unfenced \ S
          /\ resident' = [p \in Posts |-> IF p \in S THEN f[p] ELSE resident[p]]
      BY <3>1, ReplyTaken
    <3>3. \A p \in S : f[p] \in Body
      BY <1>0, GetFacts DEF Accepted
    <3> HIDE DEF S, f
    <3>4. tombstone' \subseteq tombstone /\ cached' \subseteq Posts /\ unfenced' \subseteq Posts
      BY <1>0, <3>2
    <3> QED BY <1>0, <2>1, <2>2, <3>2, <3>3, <3>4
  <2>4. CASE readFinished
    <3> DEFINE S == Filled(callbacks[1])
               f == callbacks[1].posts
    <3>1. /\ S \in SUBSET Posts /\ tombstone' = tombstone /\ cached' = cached \cup S
          /\ unfenced' = unfenced /\ \A p \in S : f[p] \in Body
          /\ resident' = [p \in Posts |-> IF p \in S THEN f[p] ELSE resident[p]]
      BY <2>4, ReadTaken
    <3> HIDE DEF S, f
    <3> QED BY <1>0, <2>1, <2>2, <3>1
  <2>5. CASE Refresh
    <3>1. PICK r \in DOMAIN refreshes : refreshFinished(r)
      BY <2>5 DEF Refresh
    <3> DEFINE f == refreshes[r].reply
               S == DOMAIN f
    <3>2. f \in PostsObject
      <4>1. refreshes[r] \in RefreshSet
        BY <1>0, Types, PlaceFacts
      <4> QED BY <4>1 DEF RefreshSet
    <3>3. S \in SUBSET Posts /\ \A p \in S : f[p] \in Body
      BY <3>2, PostsObjectType
    <3>4. /\ resident' = [p \in Posts |-> IF p \in S THEN f[p] ELSE resident[p]]
          /\ tombstone' = tombstone \ S /\ cached' = cached \ S /\ unfenced' = unfenced \cup S
      BY <3>1 DEF refreshFinished
    <3> HIDE DEF S, f
    <3>5. tombstone' \subseteq tombstone /\ cached' \subseteq Posts /\ unfenced' \subseteq Posts
      BY <1>0, <3>3, <3>4
    <3> QED BY <1>0, <2>1, <2>2, <3>3, <3>4, <3>5
  <2>6. CASE CallTaken
    <3>1. PICK w \in DOMAIN calls : callFinished(w)
      BY <2>6 DEF CallTaken
    <3> DEFINE p == calls[w].id
               b == calls[w].body
    <3>2. p \in Posts /\ b \in Body
      <4>1. calls[w] \in CallSet
        BY <1>0, Types, PlaceFacts
      <4> QED BY <3>1, <4>1 DEF CallSet, Shape, CallShape, callFinished
    <3>3. \/ UNCHANGED <<resident, tombstone, cached, unfenced>>
          \/ /\ resident' = [resident EXCEPT ![p] = b] /\ tombstone' = tombstone \ {p}
             /\ cached' = cached \ {p} /\ unfenced' = unfenced \cup {p}
      BY <3>1 DEF callFinished
    <3> HIDE DEF p, b
    <3>4. CASE UNCHANGED <<resident, tombstone, cached, unfenced>>
      BY <1>0, <2>1, <3>4
    <3>5. CASE /\ resident' = [resident EXCEPT ![p] = b] /\ tombstone' = tombstone \ {p}
               /\ cached' = cached \ {p} /\ unfenced' = unfenced \cup {p}
      <4>1. resident' \in [Posts -> Body \cup {None}]
        BY <1>0, <3>2, <3>5
      <4>2. \A q \in tombstone' : q \in Posts /\ resident'[q] # None
        BY <1>0, <3>5
      <4> QED BY <1>0, <2>1, <3>2, <3>5, <4>1, <4>2
    <3> QED BY <3>3, <3>4, <3>5
  <2>7. CASE Evict
    <3>1. PICK p \in Posts : evictPostBody(p)
      BY <2>7 DEF Evict
    <3>2. /\ resident' = [resident EXCEPT ![p] = None] /\ tombstone' = tombstone \ {p}
          /\ cached' = cached \ {p} /\ unfenced' = unfenced \ {p}
      BY <3>1 DEF evictPostBody
    <3>3. resident' \in [Posts -> Body \cup {None}]
      BY <1>0, <3>2
    <3>4. \A q \in tombstone' : q \in Posts /\ resident'[q] # None
      BY <1>0, <3>2
    <3> QED BY <1>0, <2>1, <3>2, <3>3, <3>4
  <2>8. CASE UNCHANGED <<resident, tombstone, cached, unfenced>>
    BY <1>0, <2>1, <2>8
  <2> QED BY <1>3, <2>3, <2>4, <2>5, <2>6, <2>7, <2>8, Framed DEF Frame
<1> QED BY <1>1, <1>2, <1>3

\* What reporting to a load leaves of it.
LEMMA Delivered ==
    ASSUME NEW load \in LoadSet, NEW success \in BOOLEAN
    PROVE  /\ Deliver(load, success) \in LoadSet
           /\ Deliver(load, success).cacheDone = load.cacheDone
           /\ Deliver(load, success).httpDone = load.httpDone
           /\ load.cacheDone /\ load.httpDone => Deliver(load, success).delivered # "no"
BY DEF Deliver, LoadSet

\* The loads: none loses its answer.
LEMMA TypeLoads ==
    ASSUME Shape, [Next]_vars
    PROVE  loads' \in Seq(LoadSet) /\ (NoLoadForgotten => NoLoadForgotten')
<1>0. TypeOK /\ loads \in Seq(LoadSet)
  BY Types DEF Shape
<1>1. CASE restart
  <2>1. loads' = <<>> /\ DOMAIN loads' = {}
    BY <1>1, Restarted
  <2> QED BY <2>1 DEF NoLoadForgotten
<1>2. CASE Load
  <2>1. PICK p \in Posts : loadPost(p)
    BY <1>2 DEF Load
  <2> DEFINE load == [post |-> p, cacheDone |-> FALSE, httpDone |-> FALSE, delivered |-> "no"]
  <2>2. loads' = Append(loads, load) /\ loads' \in Seq(LoadSet)
    BY <2>1, Loaded DEF loadPost
  <2>3. load \in LoadSet /\ ~load.cacheDone
    BY DEF LoadSet
  <2> HIDE DEF load
  <2>4. \A l \in DOMAIN loads' : (l \in DOMAIN loads /\ loads'[l] = loads[l]) \/ loads'[l] = load
    BY <1>0, <2>2, <2>3, AppendFacts
  <2> QED BY <2>2, <2>3, <2>4 DEF NoLoadForgotten
<1>3. CASE Reply
  <2>1. PICK path \in Paths : httpFinished(path)
    BY <1>3 DEF Reply
  <2> DEFINE get == inFlight[path]
             won == path \in DOMAIN get.reply /\ resident'[path] # None
             load(l) == [loads[l] EXCEPT !.httpDone = TRUE]
  <2>2. loads' = [l \in DOMAIN loads |-> IF l \notin get.waiting THEN loads[l]
                                         ELSE Deliver(load(l), won)]
    BY <2>1 DEF httpFinished
  <2>3. won \in BOOLEAN /\ \A l \in DOMAIN loads : loads[l] \in LoadSet
    BY <1>0, PlaceFacts
  <2> HIDE DEF won, get
  <2>4. \A l \in DOMAIN loads : load(l) \in LoadSet
    BY <2>3 DEF LoadSet
  <2>5. \A l \in DOMAIN loads :
          /\ Deliver(load(l), won) \in LoadSet
          /\ Deliver(load(l), won).cacheDone = load(l).cacheDone
          /\ Deliver(load(l), won).httpDone = load(l).httpDone
          /\ load(l).cacheDone /\ load(l).httpDone => Deliver(load(l), won).delivered # "no"
    BY <2>3, <2>4, Delivered
  <2> HIDE DEF load
  <2>6. loads' \in Seq(LoadSet)
    <3>1. \A l \in DOMAIN loads : loads'[l] \in LoadSet
      BY <2>2, <2>3, <2>5
    <3>2. loads' = [l \in DOMAIN loads |-> loads'[l]]
      BY <2>2
    <3> QED BY <1>0, <3>1, <3>2, OverPlaces
  <2>7. ASSUME NoLoadForgotten, NEW l \in DOMAIN loads', loads'[l].cacheDone, loads'[l].httpDone
        PROVE  loads'[l].delivered # "no"
    <3>1. l \in DOMAIN loads
      BY <2>2
    <3>2. CASE l \notin get.waiting
      BY <2>2, <2>7, <3>1, <3>2 DEF NoLoadForgotten
    <3>3. CASE l \in get.waiting
      <4>1. loads'[l] = Deliver(load(l), won)
        BY <2>2, <3>1, <3>3
      <4> QED BY <2>5, <2>7, <3>1, <4>1
    <3> QED BY <3>2, <3>3
  <2> QED BY <2>6, <2>7 DEF NoLoadForgotten
<1>4. CASE readFinished
  <2> DEFINE r == callbacks[1]
             won == r.what \in DOMAIN r.posts /\ resident'[r.what] # None
             load(l) == [loads[l] EXCEPT !.cacheDone = TRUE]
  <2>1. Head(callbacks) = r
    BY <1>0, <1>4, Types, TailFacts DEF readFinished
  <2>2. loads' = [l \in DOMAIN loads |-> IF l # r.load THEN loads[l]
                                         ELSE Deliver(load(l), won)]
    BY <1>4, <2>1 DEF readFinished
  <2>3. won \in BOOLEAN /\ \A l \in DOMAIN loads : loads[l] \in LoadSet
    BY <1>0, PlaceFacts
  <2> HIDE DEF won, r
  <2>4. \A l \in DOMAIN loads : load(l) \in LoadSet
    BY <2>3 DEF LoadSet
  <2>5. \A l \in DOMAIN loads :
          /\ Deliver(load(l), won) \in LoadSet
          /\ Deliver(load(l), won).cacheDone = load(l).cacheDone
          /\ Deliver(load(l), won).httpDone = load(l).httpDone
          /\ load(l).cacheDone /\ load(l).httpDone => Deliver(load(l), won).delivered # "no"
    BY <2>3, <2>4, Delivered
  <2> HIDE DEF load
  <2>6. loads' \in Seq(LoadSet)
    <3>1. \A l \in DOMAIN loads : loads'[l] \in LoadSet
      BY <2>2, <2>3, <2>5
    <3>2. loads' = [l \in DOMAIN loads |-> loads'[l]]
      BY <2>2
    <3> QED BY <1>0, <3>1, <3>2, OverPlaces
  <2>7. ASSUME NoLoadForgotten, NEW l \in DOMAIN loads', loads'[l].cacheDone, loads'[l].httpDone
        PROVE  loads'[l].delivered # "no"
    <3>1. l \in DOMAIN loads
      BY <2>2
    <3>2. CASE l # r.load
      BY <2>2, <2>7, <3>1, <3>2 DEF NoLoadForgotten
    <3>3. CASE l = r.load
      <4>1. loads'[l] = Deliver(load(l), won)
        BY <2>2, <3>1, <3>3
      <4> QED BY <2>5, <2>7, <3>1, <4>1
    <3> QED BY <3>2, <3>3
  <2> QED BY <2>6, <2>7 DEF NoLoadForgotten
<1>5. CASE UNCHANGED loads
  BY <1>0, <1>5 DEF NoLoadForgotten
<1> QED BY <1>1, <1>2, <1>3, <1>4, <1>5, Framed DEF Frame

\* The refreshes keep their types.
LEMMA TypeRefreshes ==
    ASSUME Shape, [Next]_vars
    PROVE  refreshes' \in Seq(RefreshSet) /\ (streamLost \/ refreshes # <<>> => refreshes' # <<>>)
<1>0. TypeOK /\ PostShape /\ refreshes \in Seq(RefreshSet) /\ Page \in Paths
  BY Types DEF Shape, Paths
<1>1. \A r \in DOMAIN refreshes : refreshes[r] \in RefreshSet
  BY <1>0, PlaceFacts
<1>2. \A reply \in PostsObject, state \in {"sent", "answered", "done"} :
        [state |-> state, reply |-> reply] \in RefreshSet
  BY DEF RefreshSet
<1>3. /\ [state |-> "sent", reply |-> Empty] \in RefreshSet
      /\ [state |-> "done", reply |-> Empty] \in RefreshSet
      /\ [state |-> "answered", reply |-> Empty] \in RefreshSet
      /\ [state |-> "answered", reply |-> PostsAt(Page)] \in RefreshSet
  BY <1>0, <1>2, EmptyFacts, SnapshotType
<1>4. CASE restart /\ ~streamLost
  <2>1. refreshes' = [r \in DOMAIN refreshes |-> [refreshes[r] EXCEPT !.state = "done"]]
    BY <1>4 DEF restart
  <2>2. \A r \in DOMAIN refreshes : refreshes'[r] \in RefreshSet
    BY <1>1, <2>1 DEF RefreshSet
  <2>3. refreshes' = [r \in DOMAIN refreshes |-> refreshes'[r]]
    BY <2>1
  <2>4. refreshes' \in Seq(RefreshSet)
    BY <1>0, <2>2, <2>3, OverPlaces
  <2>5. refreshes # <<>> => refreshes' # <<>>
    BY <1>0, <2>1
  <2> QED BY <1>4, <2>4, <2>5
<1>5. CASE streamLost
  <2>1. PICK reconnect \in BOOLEAN :
          refreshes' = Append([r \in DOMAIN refreshes |->
                                IF reconnect /\ refreshes[r].state = "answered"
                                THEN [state |-> "sent", reply |-> Empty] ELSE refreshes[r]],
                              [state |-> "sent", reply |-> Empty])
    BY <1>5 DEF streamLost
  <2> DEFINE s == [r \in DOMAIN refreshes |->
                     IF reconnect /\ refreshes[r].state = "answered"
                     THEN [state |-> "sent", reply |-> Empty] ELSE refreshes[r]]
  <2>2. s \in Seq(RefreshSet)
    <3>1. \A r \in DOMAIN refreshes : s[r] \in RefreshSet
      BY <1>1, <1>3
    <3>2. s = [r \in DOMAIN refreshes |-> s[r]]
      OBVIOUS
    <3> HIDE DEF s
    <3> QED BY <1>0, <3>1, <3>2, OverPlaces
  <2>3. refreshes' = Append(s, [state |-> "sent", reply |-> Empty])
    BY <2>1
  <2> HIDE DEF s
  <2>4. refreshes' \in Seq(RefreshSet) /\ Len(refreshes') = Len(s) + 1 /\ Len(s) \in Nat
    BY <1>3, <2>2, <2>3, AppendFacts
  <2> QED BY <2>4
<1>6. CASE Refresh \/ ServerRefreshes
  <2>1. PICK r \in DOMAIN refreshes, f \in RefreshSet : refreshes' = [refreshes EXCEPT ![r] = f]
    <3>1. ASSUME NEW r \in DOMAIN refreshes, refreshFinished(r)
          PROVE  \E f \in RefreshSet : refreshes' = [refreshes EXCEPT ![r] = f]
      BY <1>3, <3>1 DEF refreshFinished
    <3>2. ASSUME NEW r \in DOMAIN refreshes, AnswerRefresh(r)
          PROVE  \E f \in RefreshSet : refreshes' = [refreshes EXCEPT ![r] = f]
      BY <1>3, <3>2 DEF AnswerRefresh
    <3> QED BY <1>6, <3>1, <3>2 DEF Refresh, ServerRefreshes
  <2>2. /\ refreshes' \in Seq(RefreshSet) /\ Len(refreshes') = Len(refreshes) /\ r \in 1 .. Len(refreshes)
    BY <1>0, <2>1, ExceptSeq, LenProperties
  <2>3. refreshes' # <<>>
    BY <1>0, <2>2
  <2> QED BY <2>2, <2>3
<1>7. CASE UNCHANGED refreshes /\ ~streamLost
  BY <1>0, <1>7
<1> QED BY <1>4, <1>5, <1>6, <1>7, Framed DEF Frame

\* The calls keep their types, and are never forgotten.
LEMMA TypeCalls ==
    ASSUME Shape, [Next]_vars
    PROVE  calls' \in Seq(CallSet) /\ CallShape' /\ Called \subseteq Called'
<1>0. TypeOK /\ PostShape /\ calls \in Seq(CallSet) /\ CallShape /\ MaxRev \in Nat
  BY Types, RepositoryAssumption DEF Shape
<1>1. \A w \in DOMAIN calls : calls[w] \in CallSet /\ calls[w].id \in Posts
  <2>1. \A w \in DOMAIN calls : calls[w] \in CallSet
    BY <1>0, PlaceFacts
  <2> QED BY <2>1 DEF CallSet
<1>2. ASSUME NEW f, f = [w \in DOMAIN calls |-> f[w]], calls' = f,
             \A w \in DOMAIN calls :
               f[w] \in CallSet /\ f[w].id = calls[w].id /\ (f[w].state = "answered" => f[w].body \in Body)
      PROVE  calls' \in Seq(CallSet) /\ CallShape' /\ Called \subseteq Called'
  <2>1. f \in Seq(CallSet)
    BY <1>0, <1>2, OverPlaces
  <2>2. DOMAIN calls' = DOMAIN calls
    BY <1>2
  <2> QED BY <1>2, <2>1, <2>2 DEF CallShape, Called
<1>3. CASE restart
  <2> DEFINE f == [w \in DOMAIN calls |-> [calls[w] EXCEPT !.state = "done"]]
  <2>1. calls' = f
    BY <1>3 DEF restart
  <2>2. \A w \in DOMAIN calls : f[w] \in CallSet /\ f[w].id = calls[w].id /\ f[w].state = "done"
    BY <1>1 DEF CallSet
  <2>3. f = [w \in DOMAIN calls |-> f[w]]
    OBVIOUS
  <2> HIDE DEF f
  <2> QED BY <1>2, <2>1, <2>2, <2>3
<1>4. CASE Call
  <2>1. PICK p \in Posts, kind \in CallKinds :
          calls' = Append(calls, [id |-> p, state |-> "sent", kind |-> kind, body |-> None])
    BY <1>4 DEF Call, call
  <2> DEFINE c == [id |-> p, state |-> "sent", kind |-> kind, body |-> None]
  <2>2. c \in CallSet /\ c.state = "sent"
    BY DEF CallSet
  <2>3. calls' = Append(calls, c)
    BY <2>1
  <2> HIDE DEF c
  <2>4. calls' \in Seq(CallSet)
    BY <1>0, <2>2, <2>3, AppendFacts
  <2>5. /\ \A w \in DOMAIN calls' : (w \in DOMAIN calls /\ calls'[w] = calls[w]) \/ calls'[w] = c
        /\ \A w \in DOMAIN calls : w \in DOMAIN calls' /\ calls'[w] = calls[w]
    BY <1>0, <2>2, <2>3, AppendFacts
  <2> QED BY <1>0, <2>2, <2>4, <2>5 DEF CallShape, Called
<1>5. CASE CallTaken
  <2>1. PICK w \in DOMAIN calls : callFinished(w)
    BY <1>5 DEF CallTaken
  <2> DEFINE f == [calls EXCEPT ![w].state = "done", ![w].body = None]
  <2>2. calls' = f
    BY <2>1 DEF callFinished
  <2>3. \A v \in DOMAIN calls : /\ f[v] \in CallSet /\ f[v].id = calls[v].id
                                /\ (f[v].state = "answered" => f[v].body \in Body)
    BY <1>0, <1>1 DEF CallSet, CallShape
  <2>4. f = [v \in DOMAIN calls |-> f[v]]
    BY <1>0
  <2> HIDE DEF f
  <2> QED BY <1>2, <2>2, <2>3, <2>4
<1>6. CASE ServerServes
  <2>1. PICK w \in DOMAIN calls : AnswerCall(w)
    BY <1>6 DEF ServerServes
  <2>2. calls[w].id \in Posts /\ post[calls[w].id] \in PostSet
    BY <1>0, <1>1, Types
  <2>3. \/ calls' = [calls EXCEPT ![w].state = "done"]
        \/ \E b \in Body : calls' = [calls EXCEPT ![w].state = "answered", ![w].body = b]
    <3> DEFINE p == calls[w].id
               at == post[p].at + 1
               b == [at |-> at, text |-> at, liked |-> post[p].liked]
    <3>1. CASE at =< MaxRev /\ calls' = [calls EXCEPT ![w].state = "answered", ![w].body = b]
      <4>1. at \in 1 .. MaxRev /\ post[p].liked \in BOOLEAN
        BY <1>0, <2>2, <3>1 DEF PostSet
      <4>2. b \in Body
        BY <4>1 DEF Body, Revisions
      <4> HIDE DEF b
      <4> QED BY <3>1, <4>2
    <3>2. CASE /\ post[p].alive
               /\ calls' = [calls EXCEPT ![w].state = "answered", ![w].body = Snapshot(p)]
      BY <1>0, <2>2, <3>2, SnapshotType
    <3>3. CASE calls' = [calls EXCEPT ![w].state = "done"]
      BY <3>3
    <3> QED BY <2>1, <3>1, <3>2, <3>3 DEF AnswerCall
  <2>4. CASE calls' = [calls EXCEPT ![w].state = "done"]
    <3> DEFINE f == [calls EXCEPT ![w].state = "done"]
    <3>1. \A v \in DOMAIN calls : /\ f[v] \in CallSet /\ f[v].id = calls[v].id
                                  /\ (f[v].state = "answered" => f[v].body \in Body)
      BY <1>0, <1>1 DEF CallSet, CallShape
    <3>2. f = [v \in DOMAIN calls |-> f[v]] /\ calls' = f
      BY <1>0, <2>4
    <3> HIDE DEF f
    <3> QED BY <1>2, <3>1, <3>2
  <2>5. ASSUME NEW b \in Body, calls' = [calls EXCEPT ![w].state = "answered", ![w].body = b]
        PROVE  calls' \in Seq(CallSet) /\ CallShape' /\ Called \subseteq Called'
    <3> DEFINE f == [calls EXCEPT ![w].state = "answered", ![w].body = b]
    <3>1. \A v \in DOMAIN calls : /\ f[v] \in CallSet /\ f[v].id = calls[v].id
                                  /\ (f[v].state = "answered" => f[v].body \in Body)
      BY <1>0, <1>1 DEF CallSet, CallShape
    <3>2. f = [v \in DOMAIN calls |-> f[v]] /\ calls' = f
      BY <1>0, <2>5
    <3> HIDE DEF f
    <3> QED BY <1>2, <3>1, <3>2
  <2> QED BY <2>3, <2>4, <2>5
<1>7. CASE UNCHANGED calls
  BY <1>0, <1>7 DEF CallShape, Called
<1> QED BY <1>3, <1>4, <1>5, <1>6, <1>7, Framed DEF Frame

\* The budgets and the degree of interest.
LEMMA TypeBudgets ==
    ASSUME Shape, [Next]_vars
    PROVE  /\ evictions' \in 0 .. MaxEvictions /\ restarts' \in 0 .. MaxRestarts
           /\ interest' \in {"hot", "warm", "cold"}
<1>0. /\ evictions \in 0 .. MaxEvictions /\ restarts \in 0 .. MaxRestarts
      /\ interest \in {"hot", "warm", "cold"} /\ MaxEvictions \in Nat /\ MaxRestarts \in Nat
      /\ Horizons \subseteq {"hot", "warm", "cold"}
  BY Types, RepositoryAssumption DEF Shape
<1>1. evictions' \in 0 .. MaxEvictions /\ restarts' \in 0 .. MaxRestarts
  <2>1. CASE Evict
    BY <1>0, <2>1 DEF Evict, evictPostBody
  <2>2. CASE restart
    BY <1>0, <2>2 DEF restart
  <2> QED BY <1>0, <2>1, <2>2, Framed DEF Frame
<1>2. interest' \in {"hot", "warm", "cold"}
  <2>1. CASE recordChannelOpened
    BY <1>0, <2>1 DEF recordChannelOpened
  <2> QED BY <1>0, <2>1, Framed DEF Frame
<1> QED BY <1>1, <1>2

\* Every step keeps the types.
LEMMA ShapeStep == Shape /\ [Next]_vars => Shape'
<1> SUFFICES ASSUME Shape, [Next]_vars PROVE Shape'
  OBVIOUS
<1>1. TypeOK'
  BY TypeServer, Sequenced, TypeGets, TypeSequences, TypeResident, TypeLoads,
     TypeRefreshes, TypeCalls, TypeBudgets
  DEF TypeOK, WorkerTypeOK, EventSet, PostSet, GetSet, LoadSet, RefreshSet, CallSet
<1>2. PostShape' /\ CallShape' /\ SeqBound'
  BY TypeServer, TypeCalls, TypeSequences
<1> QED BY <1>1, <1>2 DEF Shape

\* The initial states have the types.
LEMMA ShapeInit == Init => Shape
<1> SUFFICES ASSUME Init PROVE Shape
  OBVIOUS
<1>0. MaxRev \in Nat /\ MaxEvictions \in Nat /\ MaxRestarts \in Nat
      /\ Horizons \subseteq {"hot", "warm", "cold"}
  BY RepositoryAssumption
<1>1. \A p \in Posts : /\ post[p].at <= MaxRev /\ disk[p].at <= MaxRev
                       /\ post[p] \in {[at |-> 0, text |-> 0, liked |-> FALSE, alive |-> FALSE],
                                       [at |-> 1, text |-> 1, liked |-> FALSE, alive |-> TRUE],
                                       [at |-> 2, text |-> 2, liked |-> FALSE, alive |-> TRUE]}
                       /\ disk[p] \in {None, [at |-> 1, text |-> 1, liked |-> FALSE]}
  <2> TAKE p \in Posts
  <2>1. /\ post[p] \in {[at |-> 0, text |-> 0, liked |-> FALSE, alive |-> FALSE],
                        [at |-> 1, text |-> 1, liked |-> FALSE, alive |-> TRUE],
                        [at |-> 2, text |-> 2, liked |-> FALSE, alive |-> TRUE]}
        /\ disk[p] \in {None, [at |-> 1, text |-> 1, liked |-> FALSE]}
        /\ disk[p].at <= post[p].at /\ post[p].at <= MaxRev
    BY DEF Init
  <2>2. post[p].at \in Nat /\ disk[p].at \in Nat
    BY <2>1 DEF None
  <2> QED BY <1>0, <2>1, <2>2
<1>2. \A p \in Posts : /\ post[p] \in PostSet /\ disk[p] \in Body \cup {None}
                       /\ post[p].alive => post[p].at >= 1
                       /\ post[p].at >= 1 => post[p].text >= 1
  <2> TAKE p \in Posts
  <2>1. disk[p] \in Body \cup {None}
    <3>1. CASE disk[p] = [at |-> 1, text |-> 1, liked |-> FALSE]
      <4>1. 1 \in 1 .. MaxRev
        BY <1>0, <1>1, <3>1
      <4> QED BY <3>1, <4>1 DEF Body, Revisions
    <3> QED BY <1>1, <3>1
  <2>2. CASE post[p] = [at |-> 0, text |-> 0, liked |-> FALSE, alive |-> FALSE]
    <3>1. 0 \in 0 .. MaxRev
      BY <1>0
    <3> QED BY <2>1, <2>2, <3>1 DEF PostSet
  <2>3. CASE post[p] = [at |-> 1, text |-> 1, liked |-> FALSE, alive |-> TRUE]
    <3>1. 1 \in 0 .. MaxRev
      BY <1>0, <1>1, <2>3
    <3> QED BY <2>1, <2>3, <3>1 DEF PostSet
  <2>4. CASE post[p] = [at |-> 2, text |-> 2, liked |-> FALSE, alive |-> TRUE]
    <3>1. 2 \in 0 .. MaxRev
      BY <1>0, <1>1, <2>4
    <3> QED BY <2>1, <2>4, <3>1 DEF PostSet
  <2> QED BY <1>1, <2>2, <2>3, <2>4
<1>3. post \in [Posts -> PostSet] /\ disk \in [Posts -> Body \cup {None}]
  BY <1>2 DEF Init
<1>4. PostShape
  BY <1>2 DEF PostShape
<1>5. Idle \in GetSet /\ Idle.seq = 0
  BY EmptyFacts DEF Idle, GetSet
<1>6. /\ queue = <<>> /\ callbacks = <<>> /\ events = <<>> /\ loads = <<>> /\ calls = <<>>
      /\ refreshes = <<>> /\ inFlight = [path \in Paths |-> Idle]
      /\ fence = [p \in Posts |-> 0] /\ purged = [p \in Posts |-> 0]
      /\ observed = [p \in Posts |-> 0] /\ seen = [p \in Posts |-> 0]
      /\ sequence = 0 /\ resident = [p \in Posts |-> None] /\ tombstone = {}
      /\ gone = {} /\ cached = {} /\ unfenced = {} /\ evictions = 0 /\ restarts = 0
      /\ interest \in Horizons
  BY DEF Init
<1>7. /\ queue \in Seq(Commands) /\ callbacks \in Seq(Results) /\ events \in Seq(EventSet)
      /\ loads \in Seq(LoadSet) /\ calls \in Seq(CallSet) /\ refreshes \in Seq(RefreshSet)
      /\ DOMAIN queue = {} /\ DOMAIN callbacks = {} /\ DOMAIN calls = {}
  BY <1>6
<1>8. /\ fence \in [Posts -> Nat] /\ purged \in [Posts -> 0 .. MaxRev]
      /\ observed \in [Posts -> Nat] /\ seen \in [Posts -> 0 .. MaxRev]
      /\ resident \in [Posts -> Body \cup {None}] /\ inFlight \in [Paths -> GetSet]
  BY <1>0, <1>5, <1>6
<1>9. TypeOK
  BY <1>0, <1>3, <1>6, <1>7, <1>8, Types
<1>10. SeqBound
  BY <1>5, <1>6, <1>7 DEF SeqBound
<1>11. CallShape
  BY <1>7 DEF CallShape
<1> QED BY <1>4, <1>9, <1>10, <1>11 DEF Shape

\* Type correctness.
THEOREM TypeCorrect == Spec => []TypeOK
<1>1. Shape => TypeOK
  BY DEF Shape
<1> QED BY <1>1, ShapeInit, ShapeStep, PTL DEF Spec

\* Every load whose two sources have reported has reported too: the result of the read and
\* the answer to the request end it in either order (PostRepository.cpp, loadPost).
THEOREM EveryLoadReports == Spec => []NoLoadForgotten
<1>1. Init => NoLoadForgotten
  BY DEF Init, NoLoadForgotten
<1>2. Shape /\ NoLoadForgotten /\ [Next]_vars => NoLoadForgotten'
  BY TypeLoads
<1> QED BY <1>1, <1>2, ShapeInit, ShapeStep, PTL DEF Spec

\* A body that a server snapshot established is not replaced by one from disk.
LEMMA AbsenceStep ==
    ASSUME Shape, [Next]_vars, NEW p \in Posts, resident[p] # None, p \in cached'
    PROVE  p \in cached /\ restarts' = restarts
<1>1. ~restart
  BY Restarted
<1>2. CASE Reply
  <2>1. cached' \subseteq cached
    BY <1>2, ReplyTaken DEF Reply
  <2> QED BY <1>1, <1>2, <2>1 DEF Reply, httpFinished, budgets
<1>3. CASE readFinished
  <2>1. cached' = cached \cup Filled(callbacks[1]) /\ p \notin Filled(callbacks[1])
    BY <1>3, ReadTaken DEF Filled
  <2> QED BY <1>3, <2>1 DEF readFinished, budgets
<1>4. CASE handleEvent
  <2>1. cached' \subseteq cached
    BY <1>4, EventNoted DEF postedEvent, editedEvent, reactedEvent, deletedEvent
  <2> QED BY <1>4, <2>1 DEF handleEvent, budgets
<1>5. CASE Refresh
  BY <1>5 DEF Refresh, refreshFinished, budgets
<1>6. CASE CallTaken
  BY <1>6 DEF CallTaken, callFinished, budgets
<1>7. CASE Evict
  BY <1>7 DEF Evict, evictPostBody
<1>8. CASE UNCHANGED <<cached, restarts>>
  BY <1>8
<1> QED BY <1>1, <1>2, <1>3, <1>4, <1>5, <1>6, <1>7, <1>8, Framed DEF Frame

\* Reads fill absence, whatever happened while they were under way (ingestCached,
\* PostRepository.cpp).
THEOREM FillsOnlyAbsence == Spec => CacheFillsOnlyAbsence
<1>1. Shape /\ [Next]_vars =>
        [\A p \in Posts :
           resident[p] # None /\ p \in cached' => p \in cached /\ restarts' = restarts]_vars
  BY AbsenceStep
<1> QED BY <1>1, ShapeInit, ShapeStep, PTL DEF Spec, CacheFillsOnlyAbsence

-------------------------------------------------------------------------------
(* The order of the events, and of what was handled.                           *)

\* What can be read off an event.
LEMMA EventFacts ==
    ASSUME TypeOK
    PROVE  /\ events \in Seq(EventSet) /\ Len(events) \in Nat /\ DOMAIN events = 1 .. Len(events)
           /\ \A i \in DOMAIN events :
                /\ i \in Nat /\ i >= 1 /\ events[i] \in EventSet
                /\ events[i].id \in Posts /\ events[i].kind \in Kinds
                /\ events[i].body \in Body /\ events[i].body.at \in Nat
                /\ events[i].body.at >= 1
<1>1. events \in Seq(EventSet)
  BY Types
<1>2. Len(events) \in Nat /\ DOMAIN events = 1 .. Len(events)
  BY <1>1, LenProperties
<1>3. ASSUME NEW i \in DOMAIN events
      PROVE  /\ i \in Nat /\ i >= 1 /\ events[i] \in EventSet
             /\ events[i].id \in Posts /\ events[i].kind \in Kinds
             /\ events[i].body \in Body /\ events[i].body.at \in Nat
             /\ events[i].body.at >= 1
  <2>1. events[i] \in EventSet /\ i \in Nat /\ i >= 1
    BY <1>1, <1>2, PlaceFacts
  <2>2. events[i].id \in Posts /\ events[i].kind \in Kinds /\ events[i].body \in Body
    BY <2>1 DEF EventSet
  <2> QED BY <2>1, <2>2, BodyFacts
<1> QED BY <1>1, <1>2, <1>3

\* The revisions the server and the client count.
LEMMA RevisionFacts ==
    ASSUME TypeOK, NEW p \in Posts
    PROVE  /\ post[p] \in PostSet /\ post[p].at \in Nat /\ purged[p] \in Nat /\ seen[p] \in Nat
           /\ observed[p] \in Nat /\ fence[p] \in Nat /\ sequence \in Nat
<1>1. /\ post[p] \in PostSet /\ purged[p] \in 0 .. MaxRev /\ seen[p] \in 0 .. MaxRev
      /\ observed[p] \in Nat /\ fence[p] \in Nat /\ sequence \in Nat /\ MaxRev \in Nat
  BY Types, RepositoryAssumption
<1> QED BY <1>1 DEF PostSet

\* The events after the first move up by one place.
LEMMA EventsShift ==
    ASSUME TypeOK, events # <<>>, events' = Tail(events)
    PROVE  /\ 1 \in DOMAIN events
           /\ \A i \in DOMAIN events' :
                /\ i \in Nat /\ i >= 1 /\ i + 1 \in DOMAIN events /\ events'[i] = events[i + 1]
           /\ \A i \in DOMAIN events : i # 1 => i - 1 \in DOMAIN events' /\ events'[i - 1] = events[i]
<1>1. events \in Seq(EventSet)
  BY Types
<1>2. /\ DOMAIN events = 1 .. Len(events) /\ DOMAIN events' = 1 .. Len(events) - 1
      /\ Len(events) \in Nat /\ Len(events) >= 1
      /\ \A i \in 1 .. Len(events) - 1 : events'[i] = events[i + 1]
  BY <1>1, TailFacts
<1>3. \A i \in DOMAIN events : i # 1 => i - 1 \in 1 .. Len(events) - 1 /\ i = (i - 1) + 1
  BY <1>2
<1> QED BY <1>2, <1>3

\* A revision adds one event at the end and leaves the other posts alone.
LEMMA RevisedFacts ==
    ASSUME TypeOK, NEW p \in Posts, NEW state \in PostSet, NEW kind \in Kinds,
           Revised(p, state, kind)
    PROVE  /\ DOMAIN events' = 1 .. Len(events) + 1 /\ Len(events) \in Nat
           /\ DOMAIN events = 1 .. Len(events)
           /\ \A i \in DOMAIN events : i \in DOMAIN events' /\ events'[i] = events[i] /\ i < Len(events) + 1
           /\ \A i \in DOMAIN events' : i \in DOMAIN events \/ i = Len(events) + 1
           /\ events'[Len(events) + 1].kind = kind /\ events'[Len(events) + 1].id = p
           /\ events'[Len(events) + 1].body.at = state.at
           /\ events'[Len(events) + 1].body.text = state.text
           /\ events'[Len(events) + 1].body.liked = state.liked
           /\ post'[p] = state /\ \A q \in Posts : q # p => post'[q] = post[q]
           /\ state.at = post[p].at + 1 /\ post[p].at \in Nat /\ state.at \in Nat
<1> DEFINE e == [kind |-> kind, id |-> p,
                 body |-> [at |-> state.at, text |-> state.text, liked |-> state.liked]]
<1>1. events' = Append(events, e) /\ post' = [post EXCEPT ![p] = state] /\ state.at = post[p].at + 1
  BY DEF Revised
<1>2. /\ e.kind = kind /\ e.id = p /\ e.body.at = state.at /\ e.body.text = state.text
      /\ e.body.liked = state.liked
  OBVIOUS
<1> HIDE DEF e
<1>3. events \in Seq(EventSet \cup {e}) /\ post \in [Posts -> PostSet]
  BY Types, SeqMonotonic
<1>4. /\ DOMAIN events = 1 .. Len(events) /\ DOMAIN events' = 1 .. Len(events) + 1
      /\ Len(events) \in Nat
      /\ \A i \in 1 .. Len(events) : events'[i] = events[i]
      /\ events'[Len(events) + 1] = e
  BY <1>1, <1>3, AppendFacts
<1>5. /\ \A i \in DOMAIN events : i \in DOMAIN events' /\ i < Len(events) + 1
      /\ \A i \in DOMAIN events' : i \in DOMAIN events \/ i = Len(events) + 1
  BY <1>4
<1>6. post'[p] = state /\ \A q \in Posts : q # p => post'[q] = post[q]
  BY <1>1, <1>3
<1>7. post[p].at \in Nat
  BY RevisionFacts
<1> QED BY <1>1, <1>2, <1>4, <1>5, <1>6, <1>7

\* A new event finds none of a deletion before it, and no other if it is the first.
LEMMA RevisedLast ==
    ASSUME Shape, EventsOrdered, NEW p \in Posts, NEW state \in PostSet, NEW kind \in Kinds,
           Revised(p, state, kind)
    PROVE  \A i \in DOMAIN events : events[i].id = p =>
             events[i].kind # "deleted" /\ kind # "posted"
<1>1. ASSUME NEW i \in DOMAIN events, events[i].id = p
      PROVE  events[i].kind # "deleted" /\ kind # "posted"
  <2>1. events[i].body.at >= 1 /\ events[i].body.at \in Nat /\ post[p].at \in Nat
    BY EventFacts, RevisionFacts DEF Shape
  <2>2. events[i].body.at <= post[p].at /\ (events[i].kind = "deleted" => ~post[p].alive)
    BY <1>1 DEF EventsOrdered
  <2>3. (kind = "posted" => post[p].at = 0) /\ (kind # "posted" => post[p].alive)
    BY DEF Revised
  <2> QED BY <2>1, <2>2, <2>3
<1> QED BY <1>1

\* Revisions only grow.
LEMMA PostsGrow ==
    ASSUME Shape, [Next]_vars
    PROVE  \A q \in Posts : /\ post[q].at <= post'[q].at /\ post'[q].at \in Nat
                            /\ ~post[q].alive /\ post[q].at >= 1 => post'[q] = post[q]
<1>0. \A q \in Posts : post[q].at \in Nat
  BY RevisionFacts DEF Shape
<1>1. CASE UNCHANGED post
  BY <1>0, <1>1
<1>2. ASSUME NEW p \in Posts, NEW state \in PostSet, NEW kind \in Kinds, Revised(p, state, kind)
      PROVE  \A q \in Posts : /\ post[q].at <= post'[q].at /\ post'[q].at \in Nat
                              /\ ~post[q].alive /\ post[q].at >= 1 => post'[q] = post[q]
  <2> TAKE q \in Posts
  <2>1. /\ post'[p] = state /\ (q # p => post'[q] = post[q]) /\ state.at = post[p].at + 1
        /\ (kind = "posted" => post[p].at = 0) /\ (kind # "posted" => post[p].alive)
    <3>1. TypeOK
      BY DEF Shape
    <3>2. (kind = "posted" => post[p].at = 0) /\ (kind # "posted" => post[p].alive)
      BY <1>2 DEF Revised
    <3> QED BY <1>2, <3>1, <3>2, RevisedFacts
  <2>2. CASE q = p
    BY <1>0, <2>1, <2>2
  <2>3. CASE q # p
    BY <1>0, <2>1, <2>3
  <2> QED BY <2>2, <2>3
<1> QED BY <1>1, <1>2, ServerRevises, Framed DEF Frame

\* Every step keeps the events in order.
LEMMA EventsOrderedStep ==
    ASSUME Shape, EventsOrdered, [Next]_vars
    PROVE  EventsOrdered'
<1>0. TypeOK
  BY DEF Shape
<1>1. CASE events' = <<>>
  BY <1>1 DEF EventsOrdered
<1>2. ASSUME NEW p \in Posts, NEW state \in PostSet, NEW kind \in Kinds, Revised(p, state, kind)
      PROVE  EventsOrdered'
  <2> DEFINE n == Len(events) + 1
  <2>1. /\ \A i \in DOMAIN events : i \in DOMAIN events' /\ events'[i] = events[i] /\ i < n
        /\ \A i \in DOMAIN events' : i \in DOMAIN events \/ i = n
        /\ events'[n].kind = kind /\ events'[n].id = p /\ events'[n].body.at = state.at
        /\ post'[p] = state /\ \A q \in Posts : q # p => post'[q] = post[q]
        /\ state.at = post[p].at + 1 /\ post[p].at \in Nat /\ state.at \in Nat /\ n \in Nat
    BY <1>0, <1>2, RevisedFacts
  <2>2. \A i \in DOMAIN events : /\ i \in Nat /\ events[i].body.at \in Nat /\ events[i].id \in Posts
    BY <1>0, EventFacts
  <2>3. \A i \in DOMAIN events : events[i].id = p => events[i].kind # "deleted" /\ kind # "posted"
    BY <1>2, RevisedLast
  <2>4. /\ kind = "posted" => state.at = 1
        /\ kind = "deleted" => ~state.alive
    BY <1>2 DEF Revised
  <2> HIDE DEF n
  <2>5. ASSUME NEW i \in DOMAIN events'
        PROVE  /\ events'[i].body.at <= post'[events'[i].id].at
               /\ events'[i].kind = "posted" => events'[i].body.at = 1
               /\ events'[i].kind = "deleted" => ~post'[events'[i].id].alive
    <3>1. CASE i = n
      BY <2>1, <2>4, <3>1
    <3>2. CASE i \in DOMAIN events
      <4>1. /\ events'[i] = events[i] /\ events[i].body.at <= post[events[i].id].at
            /\ events[i].kind = "posted" => events[i].body.at = 1
            /\ events[i].kind = "deleted" => ~post[events[i].id].alive
        BY <2>1, <3>2 DEF EventsOrdered
      <4>2. CASE events[i].id = p
        BY <2>1, <2>2, <2>3, <3>2, <4>1, <4>2
      <4>3. CASE events[i].id # p
        BY <2>1, <2>2, <3>2, <4>1, <4>3
      <4> QED BY <4>2, <4>3
    <3> QED BY <2>1, <3>1, <3>2
  <2>6. ASSUME NEW i \in DOMAIN events', NEW j \in DOMAIN events', i < j, events'[i].id = events'[j].id
        PROVE  events'[i].body.at <= events'[j].body.at /\ events'[i].kind # "deleted"
    <3>1. i \in DOMAIN events /\ events'[i] = events[i]
      BY <2>1, <2>2, <2>6
    <3>2. CASE j = n
      <4>1. events[i].id = p /\ events[i].body.at <= post[p].at
        BY <2>1, <2>6, <3>1, <3>2 DEF EventsOrdered
      <4> QED BY <2>1, <2>2, <2>3, <3>1, <3>2, <4>1
    <3>3. CASE j \in DOMAIN events
      BY <2>1, <2>6, <3>1, <3>3 DEF EventsOrdered
    <3> QED BY <2>1, <3>2, <3>3
  <2> QED BY <2>5, <2>6 DEF EventsOrdered
<1>3. CASE handleEvent
  <2>1. /\ \A i \in DOMAIN events' : i \in Nat /\ i + 1 \in DOMAIN events /\ events'[i] = events[i + 1]
        /\ post' = post
    BY <1>0, <1>3, EventsShift DEF handleEvent
  <2>2. \A i, j \in DOMAIN events' : i < j => i + 1 < j + 1
    BY <2>1
  <2> QED BY <2>1, <2>2 DEF EventsOrdered
<1>4. CASE UNCHANGED <<post, events>>
  BY <1>4 DEF EventsOrdered
<1>5. streamLost \/ restart => events' = <<>>
  BY DEF streamLost, restart
<1> QED BY <1>1, <1>2, <1>3, <1>4, <1>5, ServerRevises, Framed DEF Frame

\* What can be read off the queue of the worker.
LEMMA QueueFacts ==
    ASSUME TypeOK
    PROVE  /\ queue \in Seq(Commands) /\ Len(queue) \in Nat /\ DOMAIN queue = 1 .. Len(queue)
           /\ \A i \in DOMAIN queue :
                /\ i \in Nat /\ i >= 1 /\ queue[i] \in Commands /\ queue[i].seq \in Nat
                /\ queue[i].op = "remove" => queue[i].at \in Nat /\ queue[i].id \in Posts
                /\ queue[i].op = "store" =>
                     /\ DOMAIN queue[i].posts \subseteq Posts
                     /\ \A p \in DOMAIN queue[i].posts :
                          queue[i].posts[p] \in Body /\ queue[i].posts[p].at \in Nat
<1>1. queue \in Seq(Commands) /\ MaxRev \in Nat
  BY Types, RepositoryAssumption
<1>2. Len(queue) \in Nat /\ DOMAIN queue = 1 .. Len(queue)
  BY <1>1, LenProperties
<1>3. ASSUME NEW i \in DOMAIN queue
      PROVE  /\ i \in Nat /\ i >= 1 /\ queue[i] \in Commands /\ queue[i].seq \in Nat
             /\ queue[i].op = "remove" => queue[i].at \in Nat /\ queue[i].id \in Posts
             /\ queue[i].op = "store" =>
                  /\ DOMAIN queue[i].posts \subseteq Posts
                  /\ \A p \in DOMAIN queue[i].posts :
                       queue[i].posts[p] \in Body /\ queue[i].posts[p].at \in Nat
  <2>1. queue[i] \in Commands /\ i \in Nat /\ i >= 1
    BY <1>1, <1>2, PlaceFacts
  <2>2. /\ queue[i].seq \in Nat
        /\ queue[i].op = "store" => queue[i].posts \in PostsObject
        /\ queue[i].op = "remove" => queue[i].id \in Posts /\ queue[i].at \in Revisions
    BY <2>1, CommandFacts
  <2>3. Revisions \subseteq Nat
    BY <1>1 DEF Revisions
  <2>4. queue[i].op = "store" => /\ DOMAIN queue[i].posts \subseteq Posts
                                 /\ \A p \in DOMAIN queue[i].posts : queue[i].posts[p] \in Body
    BY <2>2, PostsObjectType
  <2> QED BY <2>1, <2>2, <2>3, <2>4, BodyFacts
<1> QED BY <1>1, <1>2, <1>3

\* A command joins the end of the queue.
LEMMA QueueGrows ==
    ASSUME TypeOK, NEW c \in Commands, queue' = Append(queue, c)
    PROVE  /\ DOMAIN queue' = 1 .. Len(queue) + 1 /\ Len(queue') = Len(queue) + 1
           /\ Len(queue) \in Nat /\ DOMAIN queue = 1 .. Len(queue)
           /\ \A i \in DOMAIN queue : i \in DOMAIN queue' /\ queue'[i] = queue[i]
           /\ \A i \in DOMAIN queue' : i \in DOMAIN queue \/ i = Len(queue) + 1
           /\ queue'[Len(queue) + 1] = c
           /\ \A k, p : Removal(k, p)' <=> \/ Removal(k, p)
                                           \/ k = Len(queue) + 1 /\ c.op = "remove" /\ c.id = p
<1>1. /\ DOMAIN queue' = 1 .. Len(queue) + 1 /\ Len(queue') = Len(queue) + 1
      /\ Len(queue) \in Nat /\ DOMAIN queue = 1 .. Len(queue)
      /\ \A i \in 1 .. Len(queue) : queue'[i] = queue[i]
      /\ queue'[Len(queue) + 1] = c
  BY QueueFacts, AppendFacts
<1>2. /\ \A i \in DOMAIN queue : i \in DOMAIN queue' /\ queue'[i] = queue[i]
      /\ \A i \in DOMAIN queue' : i \in DOMAIN queue \/ i = Len(queue) + 1
      /\ Len(queue) + 1 \in DOMAIN queue' /\ Len(queue) + 1 \notin DOMAIN queue
  BY <1>1
<1>3. \A k, p : Removal(k, p)' <=> \/ Removal(k, p)
                                   \/ k = Len(queue) + 1 /\ c.op = "remove" /\ c.id = p
  BY <1>1, <1>2 DEF Removal
<1> QED BY <1>1, <1>2, <1>3

\* The commands after the first move up by one place.
LEMMA QueueShift ==
    ASSUME TypeOK, queue # <<>>, queue' = Tail(queue)
    PROVE  /\ 1 \in DOMAIN queue /\ Len(queue') = Len(queue) - 1 /\ Len(queue) \in Nat
           /\ \A i \in DOMAIN queue' :
                /\ i \in Nat /\ i >= 1 /\ i + 1 \in DOMAIN queue /\ queue'[i] = queue[i + 1]
           /\ \A i \in DOMAIN queue : i # 1 => i - 1 \in DOMAIN queue' /\ queue'[i - 1] = queue[i]
           /\ \A k, p : Removal(k, p)' <=> k \in DOMAIN queue' /\ Removal(k + 1, p)
<1>1. queue \in Seq(Commands)
  BY Types
<1>2. /\ DOMAIN queue = 1 .. Len(queue) /\ DOMAIN queue' = 1 .. Len(queue) - 1
      /\ Len(queue) \in Nat /\ Len(queue) >= 1 /\ Len(queue') = Len(queue) - 1
      /\ \A i \in 1 .. Len(queue) - 1 : queue'[i] = queue[i + 1]
  BY <1>1, TailFacts
<1>3. \A i \in DOMAIN queue : i # 1 => i - 1 \in 1 .. Len(queue) - 1 /\ i = (i - 1) + 1
  BY <1>2
<1>4. \A i \in DOMAIN queue' : i \in Nat /\ i >= 1 /\ i + 1 \in DOMAIN queue /\ queue'[i] = queue[i + 1]
  BY <1>2
<1>5. \A k, p : Removal(k, p)' <=> k \in DOMAIN queue' /\ Removal(k + 1, p)
  BY <1>4 DEF Removal
<1> QED BY <1>2, <1>3, <1>4, <1>5

\* Every removal but the new one, if any, was there before; and the new one is that of the
\* event handled.
LEMMA RemovalsFrame ==
    ASSUME Shape, [Next]_vars, NEW k, NEW p, Removal(k, p)'
    PROVE  \/ \E i : Removal(i, p) /\ queue'[k] = queue[i]
           \/ /\ handleEvent /\ p = events[1].id
              /\ queue'[k].at = events[1].body.at /\ queue'[k].seq = sequence + 1
<1>0. TypeOK
  BY DEF Shape
<1>1. CASE queue' = queue
  BY <1>1 DEF Removal
<1>2. CASE restart
  BY <1>2, Restarted DEF Removal
<1>3. CASE workerStep
  <2>1. CASE queue # <<>> /\ queue' = Tail(queue)
    BY <1>0, <2>1, QueueShift
  <2>2. CASE \E q \in Posts : dropRow(q)
    BY <1>1, <2>2 DEF dropRow
  <2> QED BY <1>3, <2>1, <2>2, Executed
<1>4. ASSUME NEW c \in Commands, queue' = Append(queue, c),
             \/ c.op # "remove"
             \/ handleEvent /\ c = RemovePost(events[1].id, sequence + 1, events[1].body.at)
      PROVE  \/ \E i : Removal(i, p) /\ queue'[k] = queue[i]
             \/ /\ handleEvent /\ p = events[1].id
                /\ queue'[k].at = events[1].body.at /\ queue'[k].seq = sequence + 1
  <2>1. \/ Removal(k, p) /\ queue'[k] = queue[k]
        \/ queue'[k] = c /\ c.op = "remove" /\ c.id = p
    BY <1>0, <1>4, QueueGrows DEF Removal
  <2>2. CASE queue'[k] = c /\ c.op = "remove" /\ c.id = p
    <3>1. handleEvent /\ c = RemovePost(events[1].id, sequence + 1, events[1].body.at)
      BY <1>4, <2>2
    <3>2. c.id = events[1].id /\ c.at = events[1].body.at /\ c.seq = sequence + 1
      BY <3>1 DEF RemovePost
    <3> QED BY <2>2, <3>1, <3>2
  <2> QED BY <2>1, <2>2
<1> QED BY <1>1, <1>2, <1>3, <1>4, Queued DEF StorePosts

\* Every event but the new one was there before; and the new one is ahead of everything.
LEMMA EventsFrame ==
    ASSUME Shape, [Next]_vars, NEW i \in DOMAIN events'
    PROVE  \/ \E j \in DOMAIN events : events'[i] = events[j] /\ (handleEvent => j > 1)
           \/ /\ ServerMutates \/ ServerServes
              /\ \E p \in Posts : /\ events'[i].id = p
                                  /\ events'[i].body.at = post[p].at + 1
                                  /\ post[p].at = 0 \/ post[p].alive
<1>0. TypeOK
  BY DEF Shape
<1>1. CASE handleEvent
  BY <1>0, <1>1, EventsShift DEF handleEvent
<1>2. CASE events' = <<>>
  BY <1>2
<1>3. ASSUME NEW p \in Posts, NEW state \in PostSet, NEW kind \in Kinds, Revised(p, state, kind),
             ServerMutates \/ ServerServes, ~handleEvent
      PROVE  \/ \E j \in DOMAIN events : events'[i] = events[j] /\ (handleEvent => j > 1)
             \/ /\ ServerMutates \/ ServerServes
                /\ \E q \in Posts : /\ events'[i].id = q
                                    /\ events'[i].body.at = post[q].at + 1
                                    /\ post[q].at = 0 \/ post[q].alive
  <2>1. /\ i \in DOMAIN events \/ i = Len(events) + 1
        /\ i \in DOMAIN events => events'[i] = events[i]
        /\ events'[Len(events) + 1].id = p
        /\ events'[Len(events) + 1].body.at = post[p].at + 1
    BY <1>0, <1>3, RevisedFacts
  <2>2. post[p].at = 0 \/ post[p].alive
    BY <1>3 DEF Revised
  <2> QED BY <1>3, <2>1, <2>2
<1>4. CASE UNCHANGED events /\ ~handleEvent
  BY <1>4
<1>5. streamLost \/ restart => events' = <<>>
  BY DEF streamLost, restart
<1> QED BY <1>1, <1>2, <1>3, <1>4, <1>5, ServerRevises, Framed DEF Frame

\* The worker executes a removal of p, or leaves purged[p] alone.
LEMMA PurgedFrame ==
    ASSUME Shape, [Next]_vars, NEW p \in Posts
    PROVE  \/ restart /\ purged'[p] = 0
           \/ purged'[p] = purged[p] /\ fence'[p] = fence[p]
           \/ /\ workerStep /\ Removal(1, p)
              /\ purged'[p] = queue[1].at
              /\ fence'[p] = IF fence[p] < queue[1].seq THEN queue[1].seq ELSE fence[p]
              /\ disk' = [disk EXCEPT ![p] = None]
              /\ queue # <<>> /\ queue' = Tail(queue)
<1>0. TypeOK /\ purged \in [Posts -> 0 .. MaxRev] /\ fence \in [Posts -> Nat]
  BY Types DEF Shape
<1>1. CASE restart
  BY <1>1, Restarted
<1>2. CASE UNCHANGED <<disk, fence, purged>>
  BY <1>2
<1>3. CASE workerStep
  <2>1. CASE \E q \in Posts : dropRow(q)
    BY <2>1 DEF dropRow
  <2>2. CASE queue # <<>> /\ queue' = Tail(queue) /\ queue[1].op = "remove" /\ removePost(queue[1])
    <3> DEFINE c == queue[1]
    <3>1. /\ fence' = [fence EXCEPT ![c.id] = IF @ < c.seq THEN c.seq ELSE @]
          /\ disk' = [disk EXCEPT ![c.id] = None]
          /\ purged' = [purged EXCEPT ![c.id] = c.at]
      BY <2>2 DEF removePost
    <3>2. 1 \in DOMAIN queue
      BY <1>0, <2>2, QueueShift
    <3> HIDE DEF c
    <3>3. CASE p = c.id
      <4>1. Removal(1, p)
        BY <2>2, <3>2, <3>3 DEF Removal, c
      <4> QED BY <1>0, <1>3, <2>2, <3>1, <3>3, <4>1 DEF c
    <3>4. CASE p # c.id
      BY <1>0, <3>1, <3>4
    <3> QED BY <3>3, <3>4
  <2>3. CASE storePosts(queue[1]) \/ loadPosts(queue[1])
    BY <2>3 DEF storePosts, loadPosts
  <2> QED BY <1>3, <2>1, <2>2, <2>3, Executed
<1> QED BY <1>1, <1>2, <1>3, Framed DEF Frame

\* Every step keeps what was handled behind the server, and not ahead of the events.
LEMMA HandledFirstStep ==
    ASSUME Shape, EventsOrdered, HandledFirst, [Next]_vars
    PROVE  HandledFirst'
<1>0. /\ TypeOK /\ \A p \in Posts : post[p].at <= post'[p].at /\ post'[p].at \in Nat
      /\ \A p \in Posts : post[p].at \in Nat /\ purged[p] \in Nat /\ seen[p] \in Nat
      /\ \A i \in DOMAIN events : /\ events[i].id \in Posts /\ events[i].body.at \in Nat
                                  /\ i \in Nat /\ events[i].kind \in Kinds
      /\ \A k, p : Removal(k, p) => queue[k].at \in Nat /\ p \in Posts
  <2>1. TypeOK
    BY DEF Shape
  <2>2. \A k, p : Removal(k, p) => queue[k].at \in Nat /\ p \in Posts
    BY <2>1, QueueFacts DEF Removal
  <2> QED BY <2>1, <2>2, PostsGrow, RevisionFacts, EventFacts
<1>1. ASSUME NEW p \in Posts
      PROVE  purged'[p] <= post[p].at
  <2>1. purged[p] <= post[p].at
    BY DEF HandledFirst
  <2>2. Removal(1, p) => queue[1].at <= post[p].at
    BY DEF HandledFirst, Removal
  <2> QED BY <1>0, <2>1, <2>2, PurgedFrame
<1>2. ASSUME NEW p \in Posts
      PROVE  seen'[p] <= post[p].at
  <2>1. seen[p] <= post[p].at /\ seen \in [Posts -> 0 .. MaxRev]
    BY <1>0, Types DEF HandledFirst
  <2>2. CASE handleEvent
    <3> DEFINE e == events[1]
    <3>1. e.id \in Posts /\ (seen' = seen \/ seen' = [seen EXCEPT ![e.id] = e.body.at])
      BY <2>2, EventNoted DEF postedEvent, editedEvent, reactedEvent, deletedEvent
    <3>2. 1 \in DOMAIN events
      BY <1>0, <2>2, EventsShift DEF handleEvent
    <3>3. e.body.at <= post[e.id].at
      BY <3>2 DEF EventsOrdered
    <3> HIDE DEF e
    <3> QED BY <2>1, <3>1, <3>3
  <2>3. CASE restart
    BY <1>0, <2>3, Restarted
  <2> QED BY <2>1, <2>2, <2>3, Framed DEF Frame
<1>3. ASSUME NEW p \in Posts, NEW k, Removal(k, p)'
      PROVE  queue'[k].at <= post[p].at /\ queue'[k].at \in Nat
  <2>1. CASE \E i : Removal(i, p) /\ queue'[k] = queue[i]
    BY <1>0, <2>1 DEF HandledFirst, Removal
  <2>2. CASE handleEvent /\ p = events[1].id /\ queue'[k].at = events[1].body.at
    <3>1. 1 \in DOMAIN events
      BY <1>0, <2>2, EventsShift DEF handleEvent
    <3> QED BY <1>0, <2>2, <3>1 DEF EventsOrdered
  <2> QED BY <1>3, <2>1, <2>2, RemovalsFrame
<1>4. ASSUME NEW i \in DOMAIN events'
      PROVE  purged'[events'[i].id] <= events'[i].body.at
  <2>1. ASSUME NEW j \in DOMAIN events, events'[i] = events[j]
        PROVE  purged'[events'[i].id] <= events'[i].body.at
    <3>1. purged[events[j].id] <= events[j].body.at
      BY DEF HandledFirst
    <3>2. Removal(1, events[j].id) => queue[1].at <= events[j].body.at
      BY DEF HandledFirst, Removal
    <3> QED BY <1>0, <2>1, <3>1, <3>2, PurgedFrame
  <2>2. ASSUME NEW p \in Posts, events'[i].id = p, events'[i].body.at = post[p].at + 1
        PROVE  purged'[events'[i].id] <= events'[i].body.at
    <3>1. purged'[p] <= post[p].at /\ purged'[p] \in Nat
      BY <1>1, TypeSequences
    <3> QED BY <1>0, <2>2, <3>1
  <2> QED BY <2>1, <2>2, EventsFrame
<1>5. ASSUME NEW i \in DOMAIN events', NEW k, NEW q, Removal(k, q)', q = events'[i].id
      PROVE  queue'[k].at <= events'[i].body.at
  <2>1. ASSUME NEW j \in DOMAIN events, events'[i] = events[j], handleEvent => j > 1
        PROVE  queue'[k].at <= events'[i].body.at
    <3>1. CASE \E l : Removal(l, q) /\ queue'[k] = queue[l]
      BY <1>5, <2>1, <3>1 DEF HandledFirst, Removal
    <3>2. CASE handleEvent /\ q = events[1].id /\ queue'[k].at = events[1].body.at
      <4>1. 1 \in DOMAIN events /\ j > 1 /\ events[1].id = events[j].id
        BY <1>0, <1>5, <2>1, <3>2, EventsShift DEF handleEvent
      <4> QED BY <2>1, <3>2, <4>1 DEF EventsOrdered
    <3> QED BY <1>5, <3>1, <3>2, RemovalsFrame
  <2>2. ASSUME NEW p \in Posts, events'[i].id = p, events'[i].body.at = post[p].at + 1
        PROVE  queue'[k].at <= events'[i].body.at
    BY <1>0, <1>3, <1>5, <2>2
  <2> QED BY <2>1, <2>2, EventsFrame
<1>6. ASSUME NEW p \in Posts
      PROVE  purged'[p] <= post'[p].at /\ seen'[p] <= post'[p].at
  <2>1. purged'[p] \in Nat /\ seen'[p] \in Nat
    <3>1. Shape'
      BY ShapeStep
    <3>2. MaxRev \in Nat /\ seen' \in [Posts -> 0 .. MaxRev] /\ purged' \in [Posts -> 0 .. MaxRev]
      BY RepositoryAssumption, TypeResident, TypeSequences
    <3> QED BY <3>2
  <2> QED BY <1>0, <1>1, <1>2, <2>1
<1>7. ASSUME NEW p \in Posts, NEW k \in DOMAIN queue', Removal(k, p)'
      PROVE  queue'[k].at <= post'[p].at
  BY <1>0, <1>3, <1>7
<1>8. \A i \in DOMAIN events', k \in DOMAIN queue' : \A q :
        Removal(k, q)' /\ q = events'[i].id => queue'[k].at <= events'[i].body.at
  BY <1>5
<1> QED BY <1>4, <1>6, <1>7, <1>8 DEF HandledFirst, Removal

-------------------------------------------------------------------------------
(* The rows.                                                                   *)

\* An answer that is there was there before, or the server has just given it.
LEMMA AnswersFrame ==
    ASSUME Shape, [Next]_vars, NEW path \in Paths, NEW p \in DOMAIN inFlight'[path].reply
    PROVE  /\ p \in Posts /\ inFlight'[path].reply[p] \in Body
           /\ inFlight'[path].reply[p].at \in Nat
           /\ ~restart /\ inFlight'[path].seq = inFlight[path].seq
           /\ inFlight[path].seq \in Nat /\ inFlight[path].seq <= sequence
           /\ \/ /\ p \in DOMAIN inFlight[path].reply
                 /\ inFlight'[path].reply[p] = inFlight[path].reply[p]
              \/ /\ ServerReplies /\ post[p].alive
                 /\ inFlight'[path].reply[p] = Snapshot(p)
<1>0. /\ TypeOK /\ PostShape /\ inFlight \in [Paths -> GetSet]
      /\ inFlight[path].seq \in Nat /\ inFlight[path].seq <= sequence
  BY Types, GetFacts DEF Shape, SeqBound
<1>1. inFlight'[path].reply \in PostsObject
  <2>1. inFlight' \in [Paths -> GetSet]
    BY TypeGets
  <2>2. inFlight'[path] \in GetSet
    BY <2>1
  <2> QED BY <2>2 DEF GetSet
<1>2. p \in Posts /\ inFlight'[path].reply[p] \in Body /\ inFlight'[path].reply[p].at \in Nat
  <2>1. p \in Posts /\ inFlight'[path].reply[p] \in Body
    BY <1>1, PostsObjectType
  <2> QED BY <2>1, BodyFacts
<1>3. inFlight'[path].reply # Empty
  BY EmptyFacts
<1>4. CASE UNCHANGED inFlight
  <2>1. ~restart
    BY <1>3, Restarted DEF Idle
  <2> QED BY <1>0, <1>2, <1>4, <2>1
<1>5. CASE /\ inFlight'[path].reply = inFlight[path].reply
           /\ inFlight'[path].seq = inFlight[path].seq /\ ~restart
  BY <1>0, <1>2, <1>5
<1>6. ~restart
  BY <1>3, Restarted DEF Idle
<1>7. CASE Load
  BY <1>3, <1>5, <1>6, <1>7, Loaded DEF Load
<1>8. CASE loadChannelPage
  BY <1>3, <1>5, <1>6, <1>8, PageLoaded
<1>9. CASE Reply
  <2>1. PICK q \in Paths : inFlight' = [inFlight EXCEPT ![q] = Idle]
    BY <1>9, ReplyTaken DEF Reply
  <2>2. q # path
    BY <1>0, <1>3, <2>1 DEF Idle
  <2>3. inFlight'[path] = inFlight[path]
    BY <1>0, <2>1, <2>2
  <2> QED BY <1>5, <1>6, <2>3
<1>10. CASE ServerReplies
  <2>1. PICK q \in Paths : Answer(q)
    BY <1>10 DEF ServerReplies
  <2>2. PICK reply \in {Empty, PostsAt(q)} :
          inFlight' = [inFlight EXCEPT ![q].state = "answered", ![q].reply = reply]
    BY <2>1 DEF Answer
  <2>3. CASE q # path
    BY <1>0, <1>5, <1>6, <2>2, <2>3
  <2>4. CASE q = path
    <3>1. inFlight'[path].reply = reply /\ inFlight'[path].seq = inFlight[path].seq
      BY <1>0, <2>2, <2>4 DEF GetSet
    <3>2. reply = PostsAt(path)
      BY <1>3, <2>4, <3>1
    <3>3. post[p].alive /\ inFlight'[path].reply[p] = Snapshot(p)
      BY <1>0, <3>1, <3>2, SnapshotType
    <3> QED BY <1>0, <1>2, <1>6, <1>10, <3>1, <3>3
  <2> QED BY <2>3, <2>4
<1> QED BY <1>4, <1>6, <1>7, <1>8, <1>9, <1>10, Framed DEF Frame

\* What an answer of the server shows is as new as everything that was handled.
LEMMA ServerPasses ==
    ASSUME Shape, HandledFirst, NEW p \in Posts, NEW seq
    PROVE  PassesAsNew(p, seq, post[p].at)
BY DEF HandledFirst, PassesAsNew

\* A snapshot that was asked for stays as new as what does not fence it: whatever is handled
\* later stands above its sequence.
LEMMA PassesStep ==
    ASSUME Shape, [Next]_vars, NEW p \in Posts, NEW seq \in Nat, seq <= sequence,
           NEW at \in Nat, PassesAsNew(p, seq, at)
    PROVE  PassesAsNew(p, seq, at)'
<1>0. /\ TypeOK /\ fence[p] \in Nat /\ sequence \in Nat
      /\ \A k : Removal(k, p) => k \in DOMAIN queue /\ queue[k].seq \in Nat
  <2>1. TypeOK
    BY DEF Shape
  <2>2. \A k : Removal(k, p) => k \in DOMAIN queue /\ queue[k].seq \in Nat
    BY <2>1, QueueFacts DEF Removal
  <2> QED BY <2>1, <2>2, RevisionFacts
<1>1. /\ fence[p] < seq => purged[p] <= at
      /\ \A k : Removal(k, p) /\ queue[k].seq < seq => queue[k].at <= at
  BY <1>0 DEF PassesAsNew
<1>2. fence'[p] < seq => purged'[p] <= at
  <2>1. CASE restart /\ purged'[p] = 0
    BY <2>1
  <2>2. CASE purged'[p] = purged[p] /\ fence'[p] = fence[p]
    BY <1>1, <2>2
  <2>3. CASE /\ Removal(1, p) /\ purged'[p] = queue[1].at
             /\ fence'[p] = IF fence[p] < queue[1].seq THEN queue[1].seq ELSE fence[p]
    <3>1. fence'[p] < seq => queue[1].seq < seq
      BY <1>0, <2>3
    <3> QED BY <1>1, <2>3, <3>1
  <2> QED BY <2>1, <2>2, <2>3, PurgedFrame
<1>3. ASSUME NEW k, Removal(k, p)', queue'[k].seq < seq
      PROVE  queue'[k].at <= at
  <2>1. CASE \E i : Removal(i, p) /\ queue'[k] = queue[i]
    BY <1>1, <1>3, <2>1
  <2>2. CASE queue'[k].seq = sequence + 1
    BY <1>0, <1>3, <2>2
  <2> QED BY <1>3, <2>1, <2>2, RemovalsFrame
<1> QED BY <1>2, <1>3 DEF PassesAsNew

\* A store in the queue was there before, or an answer, an event or a call brought it.
LEMMA StoresFrame ==
    ASSUME Shape, [Next]_vars, NEW i \in DOMAIN queue', queue'[i].op = "store",
           NEW p \in DOMAIN queue'[i].posts, p \notin Called'
    PROVE  \/ \E j \in DOMAIN queue : queue'[i] = queue[j]
           \/ \E path \in Paths : /\ httpFinished(path) /\ p \in DOMAIN inFlight[path].reply
                                  /\ queue'[i].seq = inFlight[path].seq
                                  /\ queue'[i].posts[p] = inFlight[path].reply[p]
           \/ /\ handleEvent /\ events[1].kind \in {"posted", "edited"} /\ p = events[1].id
              /\ queue'[i].seq = sequence + 1 /\ queue'[i].posts[p] = events[1].body
<1>0. TypeOK /\ Called \subseteq Called'
  BY TypeCalls DEF Shape
<1>1. CASE queue' = queue
  BY <1>1
<1>2. CASE restart
  BY <1>2, Restarted
<1>3. CASE workerStep
  <2>1. CASE queue # <<>> /\ queue' = Tail(queue)
    BY <1>0, <2>1, QueueShift
  <2>2. CASE \E q \in Posts : dropRow(q)
    BY <1>1, <2>2 DEF dropRow
  <2> QED BY <1>3, <2>1, <2>2, Executed
<1>4. ASSUME NEW c \in Commands, queue' = Append(queue, c),
             \/ \E path \in Paths : /\ httpFinished(path)
                                    /\ c = StorePosts(inFlight[path].reply, inFlight[path].seq)
             \/ /\ handleEvent /\ events[1].kind \in {"posted", "edited"}
                /\ c = StorePosts([q \in {events[1].id} |-> events[1].body], sequence + 1)
             \/ \E q \in Called, body \in Body :
                  c = StorePosts([r \in {q} |-> body], sequence + 1)
             \/ c.op # "store"
      PROVE  \/ \E j \in DOMAIN queue : queue'[i] = queue[j]
             \/ \E path \in Paths : /\ httpFinished(path) /\ p \in DOMAIN inFlight[path].reply
                                    /\ queue'[i].seq = inFlight[path].seq
                                    /\ queue'[i].posts[p] = inFlight[path].reply[p]
             \/ /\ handleEvent /\ events[1].kind \in {"posted", "edited"} /\ p = events[1].id
                /\ queue'[i].seq = sequence + 1 /\ queue'[i].posts[p] = events[1].body
  <2>1. (\E j \in DOMAIN queue : queue'[i] = queue[j]) \/ queue'[i] = c
    BY <1>0, <1>4, QueueGrows
  <2>2. CASE queue'[i] = c
    <3>1. ASSUME NEW path \in Paths, httpFinished(path),
                 c = StorePosts(inFlight[path].reply, inFlight[path].seq)
          PROVE  /\ p \in DOMAIN inFlight[path].reply /\ queue'[i].seq = inFlight[path].seq
                 /\ queue'[i].posts[p] = inFlight[path].reply[p]
      BY <2>2, <3>1 DEF StorePosts
    <3>2. CASE /\ handleEvent /\ events[1].kind \in {"posted", "edited"}
               /\ c = StorePosts([q \in {events[1].id} |-> events[1].body], sequence + 1)
      BY <2>2, <3>2 DEF StorePosts
    <3>3. ASSUME NEW q \in Called, NEW body \in Body,
                 c = StorePosts([r \in {q} |-> body], sequence + 1)
          PROVE  FALSE
      <4>1. queue'[i].posts = [r \in {q} |-> body]
        BY <2>2, <3>3 DEF StorePosts
      <4>2. p \in {q}
        BY <4>1
      <4> QED BY <1>0, <3>3, <4>2
    <3> QED BY <1>4, <2>2, <3>1, <3>2, <3>3
  <2> QED BY <2>1, <2>2
<1> QED BY <1>1, <1>2, <1>3, <1>4, Queued DEF RemovePost

\* A row was there before, or the worker has just stored it past the fence.
LEMMA DiskFrame ==
    ASSUME Shape, [Next]_vars, NEW p \in Posts, disk'[p] # None
    PROVE  \/ /\ disk'[p] = disk[p]
              /\ (restart \/ (purged'[p] = purged[p] /\ fence'[p] = fence[p]))
           \/ /\ 1 \in DOMAIN queue /\ queue[1].op = "store" /\ p \in DOMAIN queue[1].posts
              /\ fence[p] < queue[1].seq /\ disk'[p] = queue[1].posts[p]
              /\ purged' = purged /\ fence' = fence
<1>0. TypeOK /\ disk \in [Posts -> Body \cup {None}]
  BY Types DEF Shape
<1>1. CASE restart
  BY <1>1, Restarted
<1>2. CASE UNCHANGED <<disk, fence, purged>>
  BY <1>2
<1>3. CASE workerStep
  <2>1. CASE \E q \in Posts : dropRow(q)
    BY <1>0, <2>1 DEF dropRow
  <2>2. CASE queue # <<>> /\ queue' = Tail(queue) /\ queue[1].op = "remove" /\ removePost(queue[1])
    <3>1. disk'[p] = disk[p] /\ fence' [p] = fence[p] /\ purged'[p] = purged[p]
      <4>1. CASE Removal(1, p)
        <5>1. p = queue[1].id
          BY <4>1 DEF Removal
        <5>2. disk'[p] = None
          BY <1>0, <2>2, <5>1 DEF removePost
        <5> QED BY <5>2
      <4>2. CASE ~Removal(1, p)
        <5>1. 1 \in DOMAIN queue
          BY <1>0, <2>2, QueueShift
        <5>2. p # queue[1].id
          BY <2>2, <4>2, <5>1 DEF Removal
        <5>3. fence \in [Posts -> Nat] /\ purged \in [Posts -> 0 .. MaxRev]
          BY <1>0, Types
        <5> QED BY <1>0, <2>2, <5>2, <5>3 DEF removePost
      <4> QED BY <4>1, <4>2
    <3> QED BY <3>1
  <2>3. CASE queue # <<>> /\ queue' = Tail(queue) /\ queue[1].op = "store" /\ storePosts(queue[1])
    <3>1. 1 \in DOMAIN queue
      BY <1>0, <2>3, QueueShift
    <3> QED BY <1>0, <2>3, <3>1 DEF storePosts, Admissible
  <2>4. CASE loadPosts(queue[1])
    BY <2>4 DEF loadPosts
  <2> QED BY <1>3, <2>1, <2>2, <2>3, <2>4, Executed
<1> QED BY <1>1, <1>2, <1>3, Framed DEF Frame

\* Every step keeps the rows right.
LEMMA RowsRightStep ==
    ASSUME Shape, Follows, RowsRight, [Next]_vars
    PROVE  RowsRight'
<1>0. /\ TypeOK /\ sequence \in Nat /\ HandledFirst /\ EventsOrdered /\ HandledFirst'
      /\ Called \subseteq Called'
  BY Types, HandledFirstStep, TypeCalls DEF Shape, Follows
<1>1. ASSUME NEW path \in Paths, NEW p \in DOMAIN inFlight'[path].reply,
             NEW seq, seq = inFlight'[path].seq, NEW at, at = inFlight'[path].reply[p].at
      PROVE  PassesAsNew(p, seq, at)'
  <2>1. p \in Posts /\ seq \in Nat /\ seq <= sequence /\ at \in Nat /\ seq = inFlight[path].seq
    BY <1>1, AnswersFrame
  <2>2. PassesAsNew(p, seq, at)
    <3>1. CASE /\ p \in DOMAIN inFlight[path].reply
               /\ inFlight'[path].reply[p] = inFlight[path].reply[p]
      BY <1>1, <2>1, <3>1 DEF RowsRight, AnswersPass
    <3>2. CASE inFlight'[path].reply[p] = Snapshot(p)
      <4>1. at = post[p].at
        BY <1>1, <3>2 DEF Snapshot
      <4> QED BY <1>0, <2>1, <4>1, ServerPasses
    <3> QED BY <3>1, <3>2, AnswersFrame
  <2> QED BY <2>1, <2>2, PassesStep
<1>2. ASSUME NEW i \in DOMAIN queue', queue'[i].op = "store",
             NEW p \in DOMAIN queue'[i].posts, p \notin Called',
             NEW seq, seq = queue'[i].seq, NEW at, at = queue'[i].posts[p].at
      PROVE  PassesAsNew(p, seq, at)'
  <2>1. ASSUME NEW j \in DOMAIN queue, queue'[i] = queue[j]
        PROVE  PassesAsNew(p, seq, at)'
    <3>1. /\ p \in Posts /\ seq \in Nat /\ at \in Nat /\ seq <= sequence
          /\ p \in DOMAIN queue[j].posts \ Called
      BY <1>0, <1>2, <2>1, QueueFacts DEF Shape, SeqBound
    <3>2. PassesAsNew(p, seq, at)
      BY <1>2, <2>1, <3>1 DEF RowsRight, StoresPass
    <3> QED BY <3>1, <3>2, PassesStep
  <2>2. ASSUME NEW path \in Paths, httpFinished(path), p \in DOMAIN inFlight[path].reply,
               queue'[i].seq = inFlight[path].seq, queue'[i].posts[p] = inFlight[path].reply[p]
        PROVE  PassesAsNew(p, seq, at)'
    <3>1. p \in Posts /\ seq \in Nat /\ inFlight[path].reply[p] \in Body /\ seq <= sequence
      BY <1>0, <1>2, <2>2, GetFacts DEF Shape, SeqBound
    <3>2. at \in Nat
      BY <1>2, <2>2, <3>1, BodyFacts
    <3>3. PassesAsNew(p, seq, at)
      BY <1>2, <2>2 DEF RowsRight, AnswersPass
    <3> QED BY <3>1, <3>2, <3>3, PassesStep
  <2>3. CASE /\ handleEvent /\ events[1].kind \in {"posted", "edited"} /\ p = events[1].id
             /\ queue'[i].seq = sequence + 1 /\ queue'[i].posts[p] = events[1].body
    <3>1. /\ p \in Posts /\ at = events[1].body.at /\ 1 \in DOMAIN events
      BY <1>0, <1>2, <2>3, EventNoted, EventsShift
    <3>2. purged'[p] = purged[p]
      BY <2>3 DEF handleEvent
    <3>3. purged[p] <= at /\ \A k : Removal(k, p) => queue[k].at <= at
      BY <1>0, <2>3, <3>1 DEF HandledFirst, Removal
    <3>4. at \in Nat
      BY <1>0, <3>1, EventFacts
    <3>5. ASSUME NEW k, Removal(k, p)' PROVE queue'[k].at <= at
      BY <3>1, <3>3, <3>4, <3>5, RemovalsFrame
    <3> QED BY <3>2, <3>3, <3>5 DEF PassesAsNew
  <2> QED BY <1>2, <2>1, <2>2, <2>3, StoresFrame
<1>3. ASSUME NEW p \in Posts \ Called', disk'[p] # None
      PROVE  disk'[p].at >= purged'[p]
  <2>1. CASE disk'[p] = disk[p] /\ purged'[p] = purged[p]
    BY <1>0, <1>3, <2>1 DEF RowsRight, RowsNotBehindInvalidation
  <2>2. CASE restart
    <3>1. purged'[p] = 0
      BY <2>2, Restarted
    <3>2. disk' \in [Posts -> Body \cup {None}]
      BY TypeSequences
    <3>3. disk'[p] \in Body
      BY <1>3, <3>2
    <3> QED BY <3>1, <3>3, BodyFacts
  <2>3. CASE /\ 1 \in DOMAIN queue /\ queue[1].op = "store" /\ p \in DOMAIN queue[1].posts
             /\ fence[p] < queue[1].seq /\ disk'[p] = queue[1].posts[p] /\ purged' = purged
    <3>1. PassesAsNew(p, queue[1].seq, queue[1].posts[p].at)
      BY <1>0, <1>3, <2>3 DEF RowsRight, StoresPass
    <3>2. queue[1].posts[p].at \in Nat /\ purged[p] \in Nat
      BY <1>0, <1>3, <2>3, QueueFacts, RevisionFacts
    <3> QED BY <2>3, <3>1, <3>2 DEF PassesAsNew
  <2> QED BY <1>3, <2>1, <2>2, <2>3, DiskFrame
<1>4. AnswersPass'
  <2>1. \A path \in Paths : \A p \in DOMAIN inFlight'[path].reply : \A seq, at :
          seq = inFlight'[path].seq /\ at = inFlight'[path].reply[p].at
            => PassesAsNew(p, seq, at)'
    BY <1>1
  <2> QED BY <2>1 DEF AnswersPass, PassesAsNew, Removal
<1>5. StoresPass'
  <2>1. \A i \in DOMAIN queue' : queue'[i].op = "store" =>
          \A p \in DOMAIN queue'[i].posts \ Called' : \A seq, at :
            seq = queue'[i].seq /\ at = queue'[i].posts[p].at => PassesAsNew(p, seq, at)'
    BY <1>2
  <2> QED BY <2>1 DEF StoresPass, PassesAsNew, Removal
<1>6. RowsNotBehindInvalidation'
  BY <1>3 DEF RowsNotBehindInvalidation
<1> QED BY <1>4, <1>5, <1>6 DEF RowsRight

\* In an initial state nothing is under way, and memory is empty.
LEMMA InitEmpty ==
    ASSUME Init
    PROVE  /\ TypeOK
           /\ DOMAIN events = {} /\ DOMAIN queue = {} /\ DOMAIN callbacks = {}
           /\ Len(queue) = 0 /\ gone = {} /\ tombstone = {} /\ unfenced = {}
           /\ \A path \in Paths : DOMAIN inFlight[path].reply = {}
           /\ \A p \in Posts : /\ purged[p] = 0 /\ seen[p] = 0 /\ resident[p] = None
                               /\ post[p].at \in Nat /\ disk[p].at \in Nat
<1>1. TypeOK
  BY ShapeInit DEF Shape
<1>2. events = <<>> /\ queue = <<>> /\ callbacks = <<>> /\ gone = {} /\ tombstone = {} /\ unfenced = {}
  BY DEF Init
<1>3. \A path \in Paths : DOMAIN inFlight[path].reply = {}
  BY EmptyFacts DEF Init, Idle
<1>4. \A p \in Posts : purged[p] = 0 /\ seen[p] = 0 /\ resident[p] = None
  BY DEF Init
<1>5. \A p \in Posts : post[p].at \in Nat /\ disk[p].at \in Nat
  <2> TAKE p \in Posts
  <2>1. post[p].at \in Nat
    BY <1>1, RevisionFacts
  <2>2. disk[p] = None \/ disk[p] \in Body
    BY <1>1, Types
  <2> QED BY <2>1, <2>2, BodyFacts DEF None
<1> QED BY <1>1, <1>2, <1>3, <1>4, <1>5

\* The initial states: what was said so far holds.
LEMMA RowsInit == Init => Follows /\ RowsRight
<1> SUFFICES ASSUME Init PROVE Follows /\ RowsRight
  OBVIOUS
<1>1. EventsOrdered /\ HandledFirst
  BY InitEmpty DEF EventsOrdered, HandledFirst
<1>2. AnswersPass /\ StoresPass
  BY InitEmpty DEF AnswersPass, StoresPass
<1>3. RowsNotBehindInvalidation
  BY InitEmpty DEF RowsNotBehindInvalidation
<1> QED BY <1>1, <1>2, <1>3 DEF Follows, RowsRight

\* The rows never go back behind a deletion or reaction the worker has executed: a store
\* that left before it stands below the watermark it leaves (PostCacheService.cpp, storePosts).
THEOREM RowsHold == Spec => []RowsNotBehindInvalidation
<1>1. Shape /\ Follows /\ RowsRight /\ [Next]_vars => (Shape /\ Follows /\ RowsRight)'
  BY ShapeStep, EventsOrderedStep, HandledFirstStep, RowsRightStep DEF Follows
<1>2. Init => Shape /\ Follows /\ RowsRight
  BY ShapeInit, RowsInit
<1>3. RowsRight => RowsNotBehindInvalidation
  BY DEF RowsRight
<1> QED BY <1>1, <1>2, <1>3, PTL DEF Spec

-------------------------------------------------------------------------------
(* The bodies in memory.                                                       *)

\* The event at the head tells of p, and is of this kind.
HandledOf(p, kind) == handleEvent /\ events[1].id = p /\ events[1].kind = kind

\* What is noted of p is what was noted of it before.
SameMarks(p) ==
    /\ p \in cached' <=> p \in cached
    /\ p \in unfenced' <=> p \in unfenced

\* Where the body of p in memory comes from: it was there, or one of the roads brought it.
ResidentFrom(p) ==
    \/ /\ resident'[p] = resident[p] /\ SameMarks(p)
       /\ p \in tombstone' <=> p \in tombstone \/ HandledOf(p, "deleted")
       /\ ~HandledOf(p, "edited") /\ ~HandledOf(p, "reacted")
    \/ \E path \in Paths : /\ httpFinished(path) /\ p \in Accepted(path)
                           /\ resident'[p] = inFlight[path].reply[p]
                           /\ p \notin cached' \cup unfenced' \cup tombstone'
    \/ /\ readFinished /\ p \in Filled(callbacks[1]) /\ resident'[p] = callbacks[1].posts[p]
       /\ p \in cached'
    \/ /\ HandledOf(p, "posted") /\ resident[p] = None /\ resident'[p] = events[1].body
       /\ SameMarks(p) /\ (p \in tombstone' <=> p \in tombstone)
    \/ /\ HandledOf(p, "edited") /\ resident'[p] = events[1].body
       /\ p \notin cached' \cup unfenced' \cup tombstone'
    \/ /\ HandledOf(p, "reacted") /\ resident[p] # None
       /\ resident'[p] = [resident[p] EXCEPT !.liked = events[1].body.liked]
       /\ SameMarks(p) /\ (p \in tombstone' <=> p \in tombstone)
    \/ Refresh /\ p \in unfenced' \ tombstone'
    \/ CallTaken /\ p \in Called /\ p \in unfenced' \ tombstone'

\* There is no other way into memory.
LEMMA ResidentFrame ==
    ASSUME Shape, [Next]_vars, NEW p \in Posts, resident'[p] # None
    PROVE  ~restart /\ ResidentFrom(p)
<1>0. TypeOK /\ resident \in [Posts -> Body \cup {None}] /\ None \notin Body
  BY Types, EmptyFacts DEF Shape
<1>1. ~restart
  BY Restarted
<1>2. CASE handleEvent
  <2> DEFINE e == events[1]
  <2>1. /\ e.id \in Posts /\ e.body \in Body
        /\ \/ e.kind = "posted" /\ postedEvent(e)
           \/ e.kind = "edited" /\ editedEvent(e)
           \/ e.kind = "reacted" /\ reactedEvent(e)
           \/ e.kind = "deleted" /\ deletedEvent(e)
    BY <1>2, EventNoted
  <2>2. CASE e.kind = "posted" /\ postedEvent(e)
    <3>1. UNCHANGED <<tombstone, cached, unfenced>>
      BY <2>2 DEF postedEvent
    <3>2. \/ resident' = resident
          \/ resident[e.id] = None /\ resident' = [resident EXCEPT ![e.id] = e.body]
      BY <2>2 DEF postedEvent
    <3>3. ~HandledOf(p, "edited") /\ ~HandledOf(p, "reacted") /\ ~HandledOf(p, "deleted")
      BY <2>2 DEF HandledOf
    <3>4. CASE resident'[p] = resident[p]
      BY <1>1, <3>1, <3>3, <3>4 DEF ResidentFrom, SameMarks
    <3>5. CASE p = e.id /\ resident[p] = None /\ resident'[p] = e.body
      BY <1>1, <1>2, <2>2, <3>1, <3>5 DEF ResidentFrom, SameMarks, HandledOf
    <3>6. resident'[p] = resident[p] \/ (p = e.id /\ resident[p] = None /\ resident'[p] = e.body)
      <4> HIDE DEF e
      <4> QED BY <1>0, <2>1, <3>2
    <3> QED BY <1>1, <3>4, <3>5, <3>6
  <2>3. CASE e.kind = "edited" /\ editedEvent(e)
    <3>1. \/ /\ resident[e.id] = None
             /\ UNCHANGED <<resident, tombstone, cached, unfenced>>
          \/ /\ resident' = [resident EXCEPT ![e.id] = e.body]
             /\ tombstone' = tombstone \ {e.id} /\ cached' = cached \ {e.id}
             /\ unfenced' = unfenced \ {e.id}
      BY <2>3 DEF editedEvent
    <3>2. CASE p = e.id
      <4>1. resident'[p] = e.body /\ p \notin cached' \cup unfenced' \cup tombstone'
        <5> HIDE DEF e
        <5> QED BY <1>0, <3>1, <3>2
      <4> QED BY <1>1, <1>2, <2>3, <3>2, <4>1 DEF ResidentFrom, HandledOf
    <3>3. CASE p # e.id
      <4>1. /\ resident'[p] = resident[p] /\ (p \in tombstone' <=> p \in tombstone)
            /\ (p \in cached' <=> p \in cached) /\ (p \in unfenced' <=> p \in unfenced)
        <5> HIDE DEF e
        <5> QED BY <1>0, <3>1, <3>3
      <4> QED BY <1>1, <3>3, <4>1 DEF ResidentFrom, SameMarks, HandledOf
    <3> QED BY <3>2, <3>3
  <2>4. CASE e.kind = "reacted" /\ reactedEvent(e)
    <3>1. /\ UNCHANGED <<tombstone, cached, unfenced>>
          /\ \/ resident[e.id] = None /\ resident' = resident
             \/ /\ resident[e.id] # None
                /\ resident' = [resident EXCEPT ![e.id].liked = e.body.liked]
      BY <2>4 DEF reactedEvent
    <3>2. CASE p = e.id
      <4>1. /\ resident[p] # None
            /\ resident'[p] = [resident[p] EXCEPT !.liked = e.body.liked]
        <5> HIDE DEF e
        <5> QED BY <1>0, <3>1, <3>2
      <4> QED BY <1>1, <1>2, <2>4, <3>1, <3>2, <4>1 DEF ResidentFrom, HandledOf, SameMarks
    <3>3. CASE p # e.id
      <4>1. resident'[p] = resident[p]
        <5> HIDE DEF e
        <5> QED BY <1>0, <3>1, <3>3
      <4> QED BY <1>1, <3>1, <3>3, <4>1 DEF ResidentFrom, SameMarks, HandledOf
    <3> QED BY <3>2, <3>3
  <2>5. CASE e.kind = "deleted" /\ deletedEvent(e)
    <3>1. /\ UNCHANGED <<resident, cached, unfenced>>
          /\ tombstone' = IF resident[e.id] = None THEN tombstone ELSE tombstone \cup {e.id}
      BY <2>5 DEF deletedEvent
    <3>2. HandledOf(p, "deleted") <=> p = e.id
      BY <1>2, <2>5 DEF HandledOf
    <3>3. ~HandledOf(p, "edited") /\ ~HandledOf(p, "reacted")
      BY <2>5 DEF HandledOf
    <3>4. p \in tombstone' <=> p \in tombstone \/ HandledOf(p, "deleted")
      <4>1. CASE p = e.id
        BY <3>1, <3>2, <4>1
      <4>2. CASE p # e.id
        BY <3>1, <3>2, <4>2
      <4> QED BY <4>1, <4>2
    <3> QED BY <1>1, <3>1, <3>3, <3>4 DEF ResidentFrom, SameMarks
  <2> QED BY <2>1, <2>2, <2>3, <2>4, <2>5
<1>3. ASSUME ~handleEvent, resident'[p] = resident[p], SameMarks(p),
             p \in tombstone' <=> p \in tombstone
      PROVE  ~restart /\ ResidentFrom(p)
  BY <1>1, <1>3 DEF ResidentFrom, HandledOf
<1>4. CASE Reply /\ ~handleEvent
  <2>1. PICK path \in Paths : httpFinished(path)
    BY <1>4 DEF Reply
  <2>2. /\ resident' = [q \in Posts |-> IF q \in Accepted(path) THEN inFlight[path].reply[q]
                                       ELSE resident[q]]
        /\ tombstone' = tombstone \ Accepted(path) /\ cached' = cached \ Accepted(path)
        /\ unfenced' = unfenced \ Accepted(path)
    BY <2>1, ReplyTaken
  <2>3. CASE p \in Accepted(path)
    BY <1>1, <2>1, <2>2, <2>3 DEF ResidentFrom
  <2>4. CASE p \notin Accepted(path)
    BY <1>3, <1>4, <2>2, <2>4 DEF SameMarks
  <2> QED BY <2>3, <2>4
<1>5. CASE readFinished /\ ~handleEvent
  <2> DEFINE r == callbacks[1]
  <2>1. /\ resident' = [q \in Posts |-> IF q \in Filled(r) THEN r.posts[q] ELSE resident[q]]
        /\ cached' = cached \cup Filled(r) /\ UNCHANGED <<tombstone, unfenced>>
    BY <1>5, ReadTaken
  <2>2. CASE p \in Filled(r)
    BY <1>1, <1>5, <2>1, <2>2 DEF ResidentFrom
  <2>3. CASE p \notin Filled(r)
    BY <1>3, <1>5, <2>1, <2>3 DEF SameMarks
  <2> QED BY <2>2, <2>3
<1>6. CASE Refresh /\ ~handleEvent
  <2>1. PICK r \in DOMAIN refreshes : refreshFinished(r)
    BY <1>6 DEF Refresh
  <2>2. CASE p \in DOMAIN refreshes[r].reply
    <3>1. p \in unfenced' \ tombstone'
      BY <2>1, <2>2 DEF refreshFinished
    <3> QED BY <1>1, <1>6, <3>1 DEF ResidentFrom
  <2>3. CASE p \notin DOMAIN refreshes[r].reply
    <3>1. resident'[p] = resident[p] /\ SameMarks(p) /\ (p \in tombstone' <=> p \in tombstone)
      BY <2>1, <2>3 DEF refreshFinished, SameMarks
    <3> QED BY <1>3, <1>6, <3>1
  <2> QED BY <2>2, <2>3
<1>7. CASE CallTaken /\ ~handleEvent
  <2>1. PICK w \in DOMAIN calls : callFinished(w)
    BY <1>7 DEF CallTaken
  <2>2. \/ UNCHANGED <<resident, tombstone, cached, unfenced>>
        \/ /\ resident' = [resident EXCEPT ![calls[w].id] = calls[w].body]
           /\ tombstone' = tombstone \ {calls[w].id} /\ cached' = cached \ {calls[w].id}
           /\ unfenced' = unfenced \cup {calls[w].id}
    BY <2>1 DEF callFinished
  <2>3. CASE p = calls[w].id
    <3>1. CASE UNCHANGED <<resident, tombstone, cached, unfenced>>
      BY <1>3, <1>7, <3>1 DEF SameMarks
    <3>2. CASE p \in unfenced' \ tombstone'
      <4>1. p \in Called
        BY <2>3 DEF Called
      <4> QED BY <1>1, <1>7, <3>2, <4>1 DEF ResidentFrom
    <3> QED BY <2>2, <2>3, <3>1, <3>2
  <2>4. CASE p # calls[w].id
    <3>1. resident'[p] = resident[p] /\ SameMarks(p) /\ (p \in tombstone' <=> p \in tombstone)
      BY <1>0, <2>2, <2>4 DEF SameMarks
    <3> QED BY <1>3, <1>7, <3>1
  <2> QED BY <2>3, <2>4
<1>8. CASE Evict /\ ~handleEvent
  <2>1. PICK q \in Posts : evictPostBody(q)
    BY <1>8 DEF Evict
  <2>2. /\ resident' = [resident EXCEPT ![q] = None]
        /\ tombstone' = tombstone \ {q} /\ cached' = cached \ {q} /\ unfenced' = unfenced \ {q}
    BY <2>1 DEF evictPostBody
  <2>3. q # p
    BY <1>0, <2>2
  <2>4. resident'[p] = resident[p] /\ SameMarks(p) /\ (p \in tombstone' <=> p \in tombstone)
    BY <1>0, <2>2, <2>3 DEF SameMarks
  <2> QED BY <1>3, <1>8, <2>4
<1>9. CASE UNCHANGED <<resident, tombstone, cached, unfenced>> /\ ~handleEvent
  BY <1>3, <1>9 DEF SameMarks
<1> QED BY <1>1, <1>2, <1>4, <1>5, <1>6, <1>7, <1>8, <1>9, Framed DEF Frame

\* Only a full snapshot moves what was seen of p, and it is noted above all that is out.
LEMMA SeenFrame ==
    ASSUME Shape, [Next]_vars, NEW p \in Posts
    PROVE  \/ restart
           \/ ~restart /\ seen'[p] = seen[p]
           \/ /\ HandledOf(p, "posted") \/ HandledOf(p, "edited")
              /\ seen'[p] = events[1].body.at /\ observed'[p] = sequence + 1
<1>0. TypeOK /\ seen \in [Posts -> 0 .. MaxRev]
  BY Types DEF Shape
<1>1. CASE handleEvent
  <2> DEFINE e == events[1]
  <2>1. e.id \in Posts /\ observed'[e.id] = sequence + 1
    BY <1>1, EventNoted
  <2>2. \/ UNCHANGED seen
        \/ e.kind \in {"posted", "edited"} /\ seen' = [seen EXCEPT ![e.id] = e.body.at]
    BY <1>1, EventNoted DEF postedEvent, editedEvent, reactedEvent, deletedEvent
  <2>3. CASE e.kind \in {"posted", "edited"} /\ p = e.id /\ seen' = [seen EXCEPT ![e.id] = e.body.at]
    <3>1. seen'[p] = e.body.at
      <4> HIDE DEF e
      <4> QED BY <1>0, <2>3
    <3> QED BY <1>1, <2>1, <2>3, <3>1 DEF HandledOf
  <2>4. CASE p # e.id /\ seen' = [seen EXCEPT ![e.id] = e.body.at]
    <3> HIDE DEF e
    <3> QED BY <1>0, <2>4
  <2> QED BY <2>2, <2>3, <2>4
<1> QED BY <1>1, Framed DEF Frame

\* Until the process ends, what is noted of p only grows.
LEMMA ObservedGrows ==
    ASSUME Shape, [Next]_vars, NEW p \in Posts, ~restart
    PROVE  observed[p] <= observed'[p] /\ observed'[p] \in Nat /\ observed[p] \in Nat
<1>1. observed[p] \in Nat /\ observed'[p] \in Nat
  BY RevisionFacts, TypeSequences DEF Shape
<1>2. CASE UNCHANGED observed
  BY <1>1, <1>2
<1>3. CASE Reply
  BY <1>1, <1>3, ReplyTaken DEF Reply
<1>4. CASE handleEvent
  BY <1>1, <1>4, EventNoted
<1>5. CASE CallTaken
  <2>1. PICK w \in DOMAIN calls : callFinished(w)
    BY <1>5 DEF CallTaken
  <2>2. cachePostObject(calls[w].id, calls[w].body) /\ calls[w].state = "answered"
    BY <2>1 DEF callFinished
  <2>3. calls[w].id \in Posts /\ calls[w].body \in Body
    <3>1. calls \in Seq(CallSet) /\ CallShape
      BY Types DEF Shape
    <3>2. calls[w] \in CallSet
      BY <3>1, PlaceFacts
    <3> QED BY <2>2, <3>1, <3>2 DEF CallSet, CallShape
  <2> QED BY <1>1, <2>2, <2>3, SnapshotNoted DEF Shape
<1> QED BY <1>2, <1>3, <1>4, <1>5, Framed DEF Frame

\* An answer that may overwrite the body of p stays as new as the newest event of p.
LEMMA AnswersNotBehindStep ==
    ASSUME Shape, HandledFirst, AnswersNotBehind, [Next]_vars
    PROVE  AnswersNotBehind'
<1>1. ASSUME NEW path \in Paths, NEW p \in DOMAIN inFlight'[path].reply,
             observed'[p] <= inFlight'[path].seq
      PROVE  seen'[p] <= inFlight'[path].reply[p].at
  <2>1. /\ p \in Posts /\ ~restart /\ inFlight'[path].seq = inFlight[path].seq
        /\ inFlight[path].seq \in Nat /\ inFlight[path].seq <= sequence
    BY AnswersFrame
  <2>2. observed[p] \in Nat /\ observed'[p] \in Nat /\ observed[p] <= inFlight[path].seq
    BY <1>1, <2>1, ObservedGrows
  <2>3. seen'[p] = seen[p]
    <3>1. sequence \in Nat
      BY <2>1, RevisionFacts DEF Shape
    <3>2. observed'[p] # sequence + 1
      BY <1>1, <2>1, <3>1
    <3> QED BY <2>1, <3>2, SeenFrame
  <2>4. CASE /\ p \in DOMAIN inFlight[path].reply
             /\ inFlight'[path].reply[p] = inFlight[path].reply[p]
    BY <2>2, <2>3, <2>4 DEF AnswersNotBehind
  <2>5. CASE inFlight'[path].reply[p] = Snapshot(p)
    <3>1. seen[p] <= post[p].at
      BY <2>1 DEF HandledFirst
    <3> QED BY <2>3, <2>5, <3>1 DEF Snapshot
  <2> QED BY <2>4, <2>5, AnswersFrame
<1> QED BY <1>1 DEF AnswersNotBehind

\* And so do the bodies in memory.
LEMMA ResidentNotBehindStep ==
    ASSUME Shape, Follows, AnswersNotBehind, ResidentNotBehind, [Next]_vars
    PROVE  ResidentNotBehind'
<1>1. ASSUME NEW p \in Posts, resident'[p] # None, p \notin cached' \cup unfenced'
      PROVE  resident'[p].at >= seen'[p]
  <2>0. TypeOK /\ resident \in [Posts -> Body \cup {None}] /\ seen[p] \in Nat
    BY Types, RevisionFacts DEF Shape
  <2>1. ~restart /\ ResidentFrom(p)
    BY <1>1, ResidentFrame
  <2>2. \/ seen'[p] = seen[p]
        \/ (HandledOf(p, "posted") \/ HandledOf(p, "edited")) /\ seen'[p] = events[1].body.at
    BY <2>1, SeenFrame
  <2>3. CASE /\ resident'[p] = resident[p] /\ SameMarks(p) /\ ~HandledOf(p, "edited")
    <3>1. resident[p].at >= seen[p] /\ resident[p] \in Body
      BY <1>1, <2>0, <2>3 DEF SameMarks, ResidentNotBehind
    <3>2. CASE seen'[p] = seen[p]
      BY <2>3, <3>1, <3>2
    <3>3. CASE HandledOf(p, "posted") /\ seen'[p] = events[1].body.at
      <4>1. 1 \in DOMAIN events
        BY <2>0, <3>3, EventsShift DEF HandledOf, handleEvent
      <4>2. events[1].body.at = 1
        BY <3>3, <4>1 DEF Follows, EventsOrdered, HandledOf
      <4> QED BY <2>3, <3>1, <3>3, <4>2, BodyFacts
    <3> QED BY <2>2, <2>3, <3>2, <3>3
  <2>4. ASSUME NEW path \in Paths, httpFinished(path), p \in Accepted(path),
               resident'[p] = inFlight[path].reply[p]
        PROVE  resident'[p].at >= seen'[p]
    <3>1. seen' = seen
      BY <2>4 DEF httpFinished
    <3>2. seen[p] <= inFlight[path].reply[p].at
      BY <2>4 DEF Accepted, AnswersNotBehind
    <3> QED BY <2>4, <3>1, <3>2
  <2>5. CASE /\ HandledOf(p, "posted") \/ HandledOf(p, "edited")
             /\ resident'[p] = events[1].body
    <3>1. events[1].body.at \in Nat
      BY <2>5, EventNoted, BodyFacts DEF HandledOf
    <3>2. seen'[p] = events[1].body.at
      BY <2>5, EventNoted, <2>0, Types DEF HandledOf, postedEvent, editedEvent
    <3> QED BY <2>5, <3>1, <3>2
  <2>6. CASE /\ HandledOf(p, "reacted") /\ resident[p] # None /\ SameMarks(p)
             /\ resident'[p] = [resident[p] EXCEPT !.liked = events[1].body.liked]
    <3>1. resident[p].at >= seen[p] /\ resident[p] \in Body
      BY <1>1, <2>0, <2>6 DEF SameMarks, ResidentNotBehind
    <3>2. resident'[p].at = resident[p].at
      BY <2>6, <3>1 DEF Body
    <3>3. seen'[p] = seen[p]
      BY <2>2, <2>6 DEF HandledOf
    <3> QED BY <3>1, <3>2, <3>3
  <2> QED BY <1>1, <2>1, <2>3, <2>4, <2>5, <2>6 DEF ResidentFrom
<1> QED BY <1>1 DEF ResidentNotBehind

\* An HTTP reply asked for before a full snapshot arrived by an event does not take a body
\* in memory back behind that snapshot, however late it comes (PostRepository::ingest).
THEOREM ResidentHolds == Spec => []ResidentNotBehind
<1> DEFINE I == Shape /\ Follows /\ AnswersNotBehind /\ ResidentNotBehind
<1>1. I /\ [Next]_vars => I'
  BY ShapeStep, EventsOrderedStep, HandledFirstStep, AnswersNotBehindStep,
     ResidentNotBehindStep DEF Follows
<1>2. Init => I
  <2> SUFFICES ASSUME Init PROVE I
    OBVIOUS
  <2>1. AnswersNotBehind /\ ResidentNotBehind
    BY InitEmpty DEF AnswersNotBehind, ResidentNotBehind
  <2> QED BY <2>1, ShapeInit, RowsInit
<1>3. I => ResidentNotBehind
  OBVIOUS
<1> QED BY <1>1, <1>2, <1>3, PTL DEF Spec

-------------------------------------------------------------------------------
(* Posts that are gone.                                                        *)

\* A post is gone since its deletion was handled.
LEMMA GoneFrame ==
    ASSUME Shape, [Next]_vars, NEW p \in gone'
    PROVE  ~restart /\ p \in Posts /\ (p \in gone \/ HandledOf(p, "deleted"))
<1>1. ~restart
  BY Restarted
<1>2. p \in Posts
  BY TypeResident
<1>3. CASE handleEvent
  BY <1>1, <1>2, <1>3, EventNoted DEF postedEvent, editedEvent, reactedEvent, deletedEvent, HandledOf
<1> QED BY <1>1, <1>2, <1>3, Framed DEF Frame

\* The deletion of p: noted above all that is out, and a removal of the row queued.
LEMMA DeletionNoted ==
    ASSUME Shape, NEW p, HandledOf(p, "deleted")
    PROVE  /\ p \in Posts /\ 1 \in DOMAIN events /\ observed'[p] = sequence + 1
           /\ RemovePost(p, sequence + 1, events[1].body.at) \in Commands
           /\ queue' = Append(queue, RemovePost(p, sequence + 1, events[1].body.at))
<1>1. TypeOK /\ handleEvent /\ events[1].id = p /\ events[1].kind = "deleted" /\ sequence \in Nat
  BY Types DEF Shape, HandledOf
<1>2. /\ p \in Posts /\ events[1].body \in Body /\ observed'[p] = sequence + 1
      /\ queue' = Append(queue, RemovePost(p, sequence + 1, events[1].body.at))
  BY <1>1, EventNoted
<1>3. 1 \in DOMAIN events
  BY <1>1, EventsShift DEF handleEvent
<1>4. events[1].body.at \in Revisions
  BY <1>2 DEF Body
<1>5. sequence + 1 \in Nat
  BY <1>1
<1> QED BY <1>2, <1>3, <1>4, <1>5, CommandType

\* Every step keeps the deleted posts deleted, and their events the last.
LEMMA GoneIsDeadStep ==
    ASSUME Shape, EventsOrdered, GoneIsDead, [Next]_vars
    PROVE  GoneIsDead'
<1>0. TypeOK
  BY DEF Shape
<1>1. ASSUME NEW p \in gone'
      PROVE  ~post'[p].alive /\ post'[p].at >= 1
  <2>1. CASE p \in gone
    <3>1. ~post[p].alive /\ post[p].at >= 1 /\ p \in Posts
      BY <1>1, <2>1, GoneFrame DEF GoneIsDead
    <3> QED BY <3>1, PostsGrow
  <2>2. CASE HandledOf(p, "deleted")
    <3>1. p \in Posts /\ 1 \in DOMAIN events /\ events[1].id = p /\ events[1].kind = "deleted"
      BY <2>2, DeletionNoted DEF HandledOf
    <3>2. ~post[p].alive /\ events[1].body.at <= post[p].at
      BY <3>1 DEF EventsOrdered
    <3>3. post[p].at >= 1
      BY <1>0, <3>1, <3>2, EventFacts, RevisionFacts
    <3> QED BY <3>1, <3>2, <3>3, PostsGrow
  <2> QED BY <1>1, <2>1, <2>2, GoneFrame
<1>2. ASSUME NEW i \in DOMAIN events', NEW p \in gone', events'[i].id = p
      PROVE  FALSE
  <2>1. ASSUME NEW j \in DOMAIN events, events'[i] = events[j], handleEvent => j > 1
        PROVE  FALSE
    <3>1. p \notin gone
      BY <1>2, <2>1 DEF GoneIsDead
    <3>2. HandledOf(p, "deleted")
      BY <1>2, <3>1, GoneFrame
    <3>3. 1 \in DOMAIN events /\ 1 < j /\ events[1].id = events[j].id /\ events[1].kind = "deleted"
      BY <1>2, <2>1, <3>2, DeletionNoted DEF HandledOf
    <3> QED BY <3>3 DEF EventsOrdered
  <2>2. CASE /\ ServerMutates \/ ServerServes
             /\ post[p].at = 0 \/ post[p].alive
    <3>1. ~HandledOf(p, "deleted") \/ p \in gone
      <4>1. CASE HandledOf(p, "deleted")
        <5>1. ~post[p].alive /\ post[p].at = 0
          BY <2>2, <4>1, DeletionNoted DEF EventsOrdered, HandledOf
        <5>2. events[1].body.at <= post[p].at /\ p \in Posts /\ 1 \in DOMAIN events
          BY <4>1, DeletionNoted DEF EventsOrdered, HandledOf
        <5> QED BY <1>0, <5>1, <5>2, EventFacts
      <4> QED BY <4>1
    <3>2. p \in gone
      BY <1>2, <3>1, GoneFrame
    <3>3. ~post[p].alive /\ post[p].at >= 1
      BY <3>2 DEF GoneIsDead
    <3> QED BY <2>2, <3>3
  <2> QED BY <1>2, <2>1, <2>2, EventsFrame
<1> QED BY <1>1, <1>2 DEF GoneIsDead

\* A removal that was queued is still there, or it has fenced its post.
LEMMA RemovalKept ==
    ASSUME Shape, [Next]_vars, ~restart, NEW p \in Posts, NEW k, Removal(k, p)
    PROVE  \/ \E i : Removal(i, p)' /\ queue'[i].seq = queue[k].seq
           \/ queue[k].seq <= fence'[p]
<1>0. TypeOK
  BY DEF Shape
<1>1. CASE queue' = queue
  BY <1>1 DEF Removal
<1>2. ASSUME NEW c \in Commands, queue' = Append(queue, c)
      PROVE  \E i : Removal(i, p)' /\ queue'[i].seq = queue[k].seq
  <2>1. Removal(k, p)' /\ queue'[k] = queue[k]
    BY <1>0, <1>2, QueueGrows DEF Removal
  <2> QED BY <2>1
<1>3. CASE workerStep
  <2>1. CASE \E q \in Posts : dropRow(q)
    BY <1>1, <2>1 DEF dropRow
  <2>2. CASE queue # <<>> /\ queue' = Tail(queue) /\ k # 1
    <3>1. Removal(k - 1, p)' /\ queue'[k - 1] = queue[k]
      <4>1. k \in DOMAIN queue /\ k \in Nat
        BY <1>0, QueueFacts DEF Removal
      <4>2. k - 1 \in DOMAIN queue' /\ queue'[k - 1] = queue[k]
        BY <1>0, <2>2, <4>1, QueueShift
      <4> QED BY <4>2 DEF Removal
    <3> QED BY <3>1
  <2>3. CASE queue # <<>> /\ removePost(queue[1]) /\ k = 1
    <3>1. queue[1].id = p /\ queue[1].seq \in Nat
      BY <1>0, <2>3, QueueFacts DEF Removal
    <3>2. fence \in [Posts -> Nat]
      BY <1>0, Types
    <3>3. fence'[p] = IF fence[p] < queue[1].seq THEN queue[1].seq ELSE fence[p]
      BY <2>3, <3>1, <3>2 DEF removePost
    <3> QED BY <2>3, <3>1, <3>2, <3>3
  <2>4. queue[1].op = "remove" \/ k # 1
    BY DEF Removal
  <2> QED BY <1>3, <2>1, <2>2, <2>3, <2>4, Executed
<1> QED BY <1>1, <1>2, <1>3, Queued

\* Fences only grow, until the process ends.
LEMMA FenceGrows ==
    ASSUME Shape, [Next]_vars, ~restart, NEW p \in Posts
    PROVE  fence[p] <= fence'[p] /\ fence[p] \in Nat /\ fence'[p] \in Nat
<1>1. fence[p] \in Nat /\ fence'[p] \in Nat
  BY RevisionFacts, TypeSequences DEF Shape
<1>2. Removal(1, p) => queue[1].seq \in Nat
  BY QueueFacts DEF Shape, Removal
<1> QED BY <1>1, <1>2, PurgedFrame

\* Every step keeps the answers from what is gone.
LEMMA AnswersGoneStep ==
    ASSUME Shape, GoneIsDead, AnswersGone, [Next]_vars
    PROVE  AnswersGone'
<1>1. ASSUME NEW path \in Paths, NEW p \in gone' \cap DOMAIN inFlight'[path].reply
      PROVE  /\ inFlight'[path].seq < observed'[p]
             /\ \/ inFlight'[path].seq <= fence'[p]
                \/ \E k : Removal(k, p)' /\ inFlight'[path].seq <= queue'[k].seq
  <2>1. /\ p \in Posts /\ ~restart /\ inFlight'[path].seq = inFlight[path].seq
        /\ inFlight[path].seq \in Nat /\ inFlight[path].seq <= sequence
    BY AnswersFrame
  <2>2. CASE p \in gone
    <3>1. p \in DOMAIN inFlight[path].reply
      BY <2>2, AnswersFrame DEF GoneIsDead
    <3>2. /\ inFlight[path].seq < observed[p]
          /\ \/ inFlight[path].seq <= fence[p]
             \/ \E k \in DOMAIN queue : Removal(k, p) /\ inFlight[path].seq <= queue[k].seq
      BY <2>2, <3>1 DEF AnswersGone
    <3>3. inFlight'[path].seq < observed'[p]
      BY <2>1, <3>2, ObservedGrows
    <3>4. CASE inFlight[path].seq <= fence[p]
      BY <2>1, <3>3, <3>4, FenceGrows
    <3>5. ASSUME NEW k \in DOMAIN queue, Removal(k, p), inFlight[path].seq <= queue[k].seq
          PROVE  \/ inFlight'[path].seq <= fence'[p]
                 \/ \E i : Removal(i, p)' /\ inFlight'[path].seq <= queue'[i].seq
      <4>1. queue[k].seq \in Nat /\ fence'[p] \in Nat
        BY <2>1, QueueFacts, FenceGrows DEF Shape
      <4>2. CASE queue[k].seq <= fence'[p]
        BY <2>1, <3>5, <4>1, <4>2
      <4>3. CASE \E i : Removal(i, p)' /\ queue'[i].seq = queue[k].seq
        BY <2>1, <3>5, <4>3
      <4> QED BY <2>1, <3>5, <4>2, <4>3, RemovalKept
    <3> QED BY <3>2, <3>3, <3>4, <3>5
  <2>3. CASE HandledOf(p, "deleted")
    <3> DEFINE c == RemovePost(p, sequence + 1, events[1].body.at)
    <3>1. observed'[p] = sequence + 1 /\ c \in Commands /\ queue' = Append(queue, c)
      BY <2>3, DeletionNoted
    <3>2. sequence \in Nat /\ TypeOK
      BY Types DEF Shape
    <3>3. c.op = "remove" /\ c.id = p /\ c.seq = sequence + 1
      BY DEF RemovePost
    <3> HIDE DEF c
    <3>4. PICK k : k = Len(queue) + 1
      OBVIOUS
    <3>5. Removal(k, p)' /\ queue'[k] = c
      BY <3>1, <3>2, <3>3, <3>4, QueueGrows
    <3>6. inFlight'[path].seq < observed'[p] /\ inFlight'[path].seq <= queue'[k].seq
      BY <2>1, <3>1, <3>2, <3>3, <3>5
    <3> QED BY <3>5, <3>6
  <2> QED BY <2>2, <2>3, GoneFrame
<1> QED BY <1>1 DEF AnswersGone, Removal

\* A command that joins the queue changes nothing for the rows before it.
LEMMA RowBeforeAppend ==
    ASSUME TypeOK, NEW c \in Commands, queue' = Append(queue, c), UNCHANGED <<disk, fence>>,
           NEW p, NEW k \in Nat, k <= Len(queue) + 1, RowBefore(k, p)'
    PROVE  RowBefore(k, p)
<1>1. /\ \A i \in DOMAIN queue : i \in Nat /\ i \in DOMAIN queue' /\ queue'[i] = queue[i]
      /\ \A i \in DOMAIN queue' : i \in DOMAIN queue \/ i = Len(queue) + 1
      /\ Len(queue) \in Nat
      /\ \A i : Removal(i, p) => Removal(i, p)'
  BY QueueGrows, QueueFacts
<1>2. CASE disk'[p] # None /\ \A j \in DOMAIN queue' : j < k => ~Removal(j, p)'
  BY <1>1, <1>2 DEF RowBefore
<1>3. ASSUME NEW i \in DOMAIN queue', i < k, Brings(i, p)',
             \A j \in DOMAIN queue' : i < j /\ j < k => ~Removal(j, p)'
      PROVE  RowBefore(k, p)
  <2>1. i \in DOMAIN queue /\ queue'[i] = queue[i]
    BY <1>1, <1>3
  <2>2. Brings(i, p)
    <3>1. /\ queue[i].op = "store" /\ p \in DOMAIN queue[i].posts /\ fence[p] < queue[i].seq
          /\ \A j \in DOMAIN queue' : j < i /\ Removal(j, p)' => queue'[j].seq < queue[i].seq
      BY <1>3, <2>1 DEF Brings, Removal
    <3> QED BY <1>1, <3>1 DEF Brings
  <2>3. \A j \in DOMAIN queue : i < j /\ j < k => ~Removal(j, p)
    BY <1>1, <1>3
  <2> QED BY <1>3, <2>1, <2>2, <2>3 DEF RowBefore
<1>4. \/ disk'[p] # None /\ \A j \in DOMAIN queue' : j < k => ~Removal(j, p)'
      \/ \E i \in DOMAIN queue' :
           /\ i < k /\ Brings(i, p)'
           /\ \A j \in DOMAIN queue' : i < j /\ j < k => ~Removal(j, p)'
  BY DEF RowBefore, Brings, Removal
<1> QED BY <1>2, <1>3, <1>4

\* At its end there is a row of p if there was one, or if the command brings it.
LEMMA RowAtEnd ==
    ASSUME TypeOK, NEW c \in Commands, queue' = Append(queue, c), UNCHANGED <<disk, fence>>,
           NEW p, NEW k, k = Len(queue) + 2, RowBefore(k, p)', NEW m, m = Len(queue) + 1
    PROVE  /\ ~Removal(m, p)'
           /\ RowBefore(m, p) \/ Brings(m, p)'
<1>1. /\ \A i \in DOMAIN queue : i \in Nat /\ i < m /\ i \in DOMAIN queue' /\ queue'[i] = queue[i]
      /\ \A i \in DOMAIN queue' : i \in DOMAIN queue \/ i = m
      /\ m \in DOMAIN queue' /\ m \in Nat /\ k = m + 1
  BY QueueGrows, QueueFacts
<1>2. CASE disk'[p] # None /\ \A j \in DOMAIN queue' : j < k => ~Removal(j, p)'
  <2>1. RowBefore(m, p)'
    BY <1>1, <1>2 DEF RowBefore, Removal
  <2>2. RowBefore(m, p)
    BY <1>1, <2>1, RowBeforeAppend
  <2> QED BY <1>1, <1>2, <2>2
<1>3. ASSUME NEW i \in DOMAIN queue', i < k, Brings(i, p)',
             \A j \in DOMAIN queue' : i < j /\ j < k => ~Removal(j, p)'
      PROVE  /\ ~Removal(m, p)'
             /\ RowBefore(m, p) \/ Brings(m, p)'
  <2>1. CASE i = m
    <3>1. queue'[m].op = "store"
      BY <1>3, <2>1 DEF Brings
    <3>2. ~Removal(m, p)'
      BY <3>1 DEF Removal
    <3> QED BY <1>3, <2>1, <3>2
  <2>2. CASE i \in DOMAIN queue
    <3>1. i < m /\ i \in Nat
      BY <1>1, <2>2
    <3>2. \A j \in DOMAIN queue' : i < j /\ j < m => ~Removal(j, p)'
      <4> SUFFICES ASSUME NEW j \in DOMAIN queue', i < j, j < m PROVE ~Removal(j, p)'
        OBVIOUS
      <4>1. j \in Nat
        BY <1>1
      <4> QED BY <1>1, <1>3, <4>1
    <3>3. RowBefore(m, p)'
      BY <1>3, <3>1, <3>2 DEF RowBefore, Brings, Removal
    <3>4. RowBefore(m, p)
      BY <1>1, <3>3, RowBeforeAppend
    <3>5. ~Removal(m, p)'
      BY <1>1, <1>3, <3>1
    <3> QED BY <3>4, <3>5
  <2> QED BY <1>1, <2>1, <2>2
<1>4. \/ disk'[p] # None /\ \A j \in DOMAIN queue' : j < k => ~Removal(j, p)'
      \/ \E i \in DOMAIN queue' :
           /\ i < k /\ Brings(i, p)'
           /\ \A j \in DOMAIN queue' : i < j /\ j < k => ~Removal(j, p)'
  BY DEF RowBefore, Brings, Removal
<1> QED BY <1>2, <1>3, <1>4

\* The worker brings no row that was not to be expected.
LEMMA RowBeforeShift ==
    ASSUME Shape, queue # <<>>, queue' = Tail(queue), workerStep,
           NEW p \in Posts, NEW k \in Nat, k >= 1, NEW m, m = k + 1, RowBefore(k, p)'
    PROVE  RowBefore(m, p)
<1>0. TypeOK
  BY DEF Shape
<1>1. /\ \A i \in DOMAIN queue' : i \in Nat /\ i >= 1 /\ i + 1 \in DOMAIN queue /\ queue'[i] = queue[i + 1]
      /\ \A i \in DOMAIN queue : i # 1 => i - 1 \in DOMAIN queue' /\ queue'[i - 1] = queue[i]
      /\ \A i \in DOMAIN queue : i \in Nat /\ i >= 1 /\ queue[i].seq \in Nat
      /\ 1 \in DOMAIN queue
  BY <1>0, QueueShift, QueueFacts
<1>2. ASSUME NEW j \in DOMAIN queue, j # 1, Removal(j, p)
      PROVE  Removal(j - 1, p)'
  BY <1>1, <1>2 DEF Removal
<1>3. \/ disk'[p] # None /\ \A j \in DOMAIN queue' : j < k => ~Removal(j, p)'
      \/ \E i \in DOMAIN queue' :
           /\ i < k /\ Brings(i, p)'
           /\ \A j \in DOMAIN queue' : i < j /\ j < k => ~Removal(j, p)'
  BY DEF RowBefore, Brings, Removal
<1>4. /\ fence[p] <= fence'[p] /\ fence'[p] \in Nat /\ fence[p] \in Nat
      /\ Removal(1, p) => queue[1].seq <= fence'[p] /\ disk'[p] = None
      /\ disk'[p] # None => \/ disk'[p] = disk[p]
                            \/ /\ queue[1].op = "store" /\ p \in DOMAIN queue[1].posts
                               /\ fence[p] < queue[1].seq
  <2>1. fence \in [Posts -> Nat] /\ disk \in [Posts -> Body \cup {None}] /\ queue[1].seq \in Nat
    BY <1>0, <1>1, Types
  <2>2. CASE queue[1].op = "store" /\ storePosts(queue[1])
    BY <2>1, <2>2 DEF storePosts, Admissible, Removal
  <2>3. CASE queue[1].op = "remove" /\ removePost(queue[1])
    <3>1. CASE p = queue[1].id
      BY <2>1, <2>3, <3>1 DEF removePost
    <3>2. CASE p # queue[1].id
      <4>1. disk'[p] = disk[p] /\ fence'[p] = fence[p]
        BY <2>1, <2>3, <3>2 DEF removePost
      <4> QED BY <2>1, <3>2, <4>1 DEF Removal
    <3> QED BY <3>1, <3>2
  <2>4. CASE queue[1].op = "load" /\ loadPosts(queue[1])
    BY <2>1, <2>4 DEF loadPosts, Removal
  <2>5. ~ \E q \in Posts : dropRow(q)
    <3>1. Len(queue') = Len(queue) - 1 /\ Len(queue) \in Nat
      BY <1>0, QueueShift
    <3>2. queue' = queue => Len(queue') = Len(queue)
      BY Zenon
    <3>3. queue' # queue
      <4> SUFFICES ASSUME queue' = queue PROVE FALSE
        OBVIOUS
      <4> DEFINE n == Len(queue)
                 m2 == Len(queue')
      <4>1. m2 = n - 1 /\ n \in Nat /\ m2 = n
        BY <3>1, <3>2
      <4> HIDE DEF n, m2
      <4> QED BY <4>1
    <3> QED BY <3>3 DEF dropRow
  <2> QED BY <2>2, <2>3, <2>4, <2>5, Executed
<1>5. CASE disk'[p] # None /\ \A j \in DOMAIN queue' : j < k => ~Removal(j, p)'
  <2>1. \A j \in DOMAIN queue : j # 1 /\ j < m => ~Removal(j, p)
    <3> SUFFICES ASSUME NEW j \in DOMAIN queue, j # 1, j < m PROVE ~Removal(j, p)
      OBVIOUS
    <3>1. j - 1 \in DOMAIN queue' /\ j - 1 < k
      BY <1>1
    <3> QED BY <1>2, <1>5, <3>1
  <2>2. ~Removal(1, p)
    BY <1>4, <1>5
  <2>3. CASE disk'[p] = disk[p]
    BY <1>5, <2>1, <2>2, <2>3 DEF RowBefore
  <2>4. CASE queue[1].op = "store" /\ p \in DOMAIN queue[1].posts /\ fence[p] < queue[1].seq
    <3>1. 1 < m
      OBVIOUS
    <3>2. Brings(1, p)
      BY <1>1, <2>4 DEF Brings
    <3> QED BY <1>1, <2>1, <3>1, <3>2 DEF RowBefore
  <2> QED BY <1>4, <1>5, <2>3, <2>4
<1>6. ASSUME NEW i \in DOMAIN queue', i < k, Brings(i, p)',
             \A j \in DOMAIN queue' : i < j /\ j < k => ~Removal(j, p)'
      PROVE  RowBefore(m, p)
  <2>1. /\ i + 1 \in DOMAIN queue /\ i + 1 < m /\ queue'[i] = queue[i + 1]
        /\ i \in Nat /\ i >= 1 /\ queue[i + 1].seq \in Nat
    BY <1>1, <1>6
  <2>2. /\ queue[i + 1].op = "store" /\ p \in DOMAIN queue[i + 1].posts
        /\ fence'[p] < queue[i + 1].seq
        /\ \A j \in DOMAIN queue' : j < i /\ Removal(j, p)' => queue'[j].seq < queue[i + 1].seq
    BY <1>6, <2>1 DEF Brings, Removal
  <2>3. ASSUME NEW j \in DOMAIN queue, j < i + 1, Removal(j, p)
        PROVE  queue[j].seq < queue[i + 1].seq
    <3>1. CASE j = 1
      BY <1>1, <1>4, <2>1, <2>2, <2>3, <3>1
    <3>2. CASE j # 1
      <4>1. j - 1 \in DOMAIN queue' /\ j - 1 < i /\ queue'[j - 1] = queue[j]
        BY <1>1, <2>1, <2>3, <3>2
      <4> QED BY <1>2, <2>2, <2>3, <3>2, <4>1
    <3> QED BY <3>1, <3>2
  <2>4. Brings(i + 1, p)
    BY <1>4, <2>1, <2>2, <2>3 DEF Brings
  <2>5. ASSUME NEW j \in DOMAIN queue, i + 1 < j, j < m
        PROVE  ~Removal(j, p)
    <3>1. j # 1 /\ j - 1 \in DOMAIN queue' /\ i < j - 1 /\ j - 1 < k
      BY <1>1, <2>1, <2>5
    <3> QED BY <1>2, <1>6, <3>1
  <2> QED BY <2>1, <2>4, <2>5 DEF RowBefore
<1> QED BY <1>3, <1>5, <1>6

\* A result that is there was there before, or the worker has just read it off the disk.
LEMMA ResultsFrame ==
    ASSUME Shape, [Next]_vars, NEW i \in DOMAIN callbacks', NEW p \in DOMAIN callbacks'[i].posts
    PROVE  /\ ~restart
           /\ \/ \E j \in DOMAIN callbacks : callbacks'[i] = callbacks[j]
              \/ /\ workerStep /\ 1 \in DOMAIN queue /\ queue[1].op = "load"
                 /\ callbacks'[i].seq = queue[1].seq /\ disk[p] # None
<1>0. TypeOK /\ callbacks \in Seq(Results) /\ ~restart
  BY Types, Restarted DEF Shape
<1>1. CASE callbacks' = callbacks
  BY <1>0, <1>1
<1>2. CASE readFinished
  <2>1. callbacks # <<>> /\ callbacks' = Tail(callbacks)
    BY <1>2 DEF readFinished
  <2>2. i + 1 \in DOMAIN callbacks /\ callbacks'[i] = callbacks[i + 1]
    BY <1>0, <2>1, TailFacts
  <2> QED BY <1>0, <2>2
<1>3. CASE workerStep
  <2>1. CASE queue[1].op = "load" /\ loadPosts(queue[1]) /\ queue # <<>> /\ queue[1] \in Commands
             /\ queue' = Tail(queue)
    <3>1. 1 \in DOMAIN queue
      BY <1>0, <2>1, QueueShift
    <3>2. PICK ids \in SUBSET Posts :
            callbacks' = Append(callbacks, [what |-> queue[1].what, posts |-> Rows(ids),
                                            seq |-> queue[1].seq, load |-> queue[1].load])
      BY <2>1 DEF loadPosts
    <3> DEFINE r == [what |-> queue[1].what, posts |-> Rows(ids),
                     seq |-> queue[1].seq, load |-> queue[1].load]
    <3>3. r.seq = queue[1].seq /\ r.posts = Rows(ids)
      OBVIOUS
    <3>4. callbacks' = Append(callbacks, r)
      BY <3>2
    <3> HIDE DEF r
    <3>5. (i \in DOMAIN callbacks /\ callbacks'[i] = callbacks[i]) \/ callbacks'[i] = r
      <4>1. callbacks \in Seq(Results \cup {r})
        BY <1>0, SeqMonotonic
      <4> QED BY <3>4, <4>1, AppendFacts
    <3>6. callbacks'[i] = r => disk[p] # None
      BY <1>0, <3>3, RowsType
    <3> QED BY <1>0, <1>3, <2>1, <3>1, <3>3, <3>5, <3>6
  <2>2. CASE storePosts(queue[1]) \/ removePost(queue[1])
    BY <1>1, <2>2 DEF storePosts, removePost
  <2>3. CASE \E q \in Posts : dropRow(q)
    BY <1>1, <2>3 DEF dropRow
  <2> QED BY <1>3, <2>1, <2>2, <2>3, Executed
<1> QED BY <1>0, <1>1, <1>2, <1>3, Framed DEF Frame

\* Nothing that joins the queue brings back what is gone.
LEMMA NothingBrings ==
    ASSUME Shape, GoneIsDead, AnswersGone, [Next]_vars, ~restart, ~workerStep,
           NEW p \in gone, p \notin Called',
           NEW c \in Commands, queue' = Append(queue, c), UNCHANGED fence,
           NEW m, m = Len(queue) + 1
    PROVE  ~Brings(m, p)'
<1> SUFFICES ASSUME Brings(m, p)' PROVE FALSE
  OBVIOUS
<1>0. TypeOK /\ Called \subseteq Called'
  BY TypeCalls DEF Shape
<1>1. /\ queue'[m] = c /\ m \in DOMAIN queue' /\ m \in Nat /\ Len(queue') = Len(queue) + 1
      /\ Len(queue) \in Nat
      /\ \A i \in DOMAIN queue : i \in Nat /\ i < m /\ i \in DOMAIN queue' /\ queue'[i] = queue[i]
  BY <1>0, QueueGrows, QueueFacts
<1>2. /\ c.op = "store" /\ p \in DOMAIN c.posts /\ fence[p] < c.seq
      /\ \A j \in DOMAIN queue' : j < m /\ Removal(j, p)' => queue'[j].seq < c.seq
  BY <1>1 DEF Brings, Removal
<1>3. queue' # queue
  <2> SUFFICES ASSUME queue' = queue PROVE FALSE
    OBVIOUS
  <2> DEFINE n == Len(queue)
             l == Len(queue')
  <2>1. l = n + 1 /\ n \in Nat /\ l = n
    BY <1>1
  <2> HIDE DEF n, l
  <2> QED BY <2>1
<1>4. PICK d \in Commands :
        /\ queue' = Append(queue, d)
        /\ \/ \E path \in Paths : /\ httpFinished(path)
                                  /\ d = StorePosts(inFlight[path].reply, inFlight[path].seq)
           \/ /\ handleEvent /\ events[1].kind \in {"posted", "edited"}
              /\ d = StorePosts([q \in {events[1].id} |-> events[1].body], sequence + 1)
           \/ d.op # "store"
           \/ \E q \in Called, body \in Body : d = StorePosts([r \in {q} |-> body], sequence + 1)
  <2>1. PICK d \in Commands :
          /\ queue' = Append(queue, d) /\ d.seq <= sequence'
          /\ \/ \E path \in Paths : /\ httpFinished(path)
                                    /\ d = StorePosts(inFlight[path].reply, inFlight[path].seq)
             \/ /\ handleEvent /\ events[1].kind \in {"posted", "edited"}
                /\ d = StorePosts([q \in {events[1].id} |-> events[1].body], sequence + 1)
             \/ /\ handleEvent /\ events[1].kind \in {"reacted", "deleted"}
                /\ d = RemovePost(events[1].id, sequence + 1, events[1].body.at)
             \/ /\ CallTaken
                /\ \E q \in Called, body \in Body :
                     d = StorePosts([r \in {q} |-> body], sequence + 1)
             \/ /\ Load \/ loadCachedChannelTail
                /\ d.op = "load" /\ d.seq = sequence + 1
    BY <1>3, Queued
  <2>2. d = RemovePost(events[1].id, sequence + 1, events[1].body.at) => d.op # "store"
    BY DEF RemovePost
  <2>3. d.op = "load" => d.op # "store"
    OBVIOUS
  <2> QED BY <2>1, <2>2, <2>3
<1>5. d = c
  <2>1. queue'[m] = d
    BY <1>0, <1>4, QueueGrows
  <2> QED BY <1>1, <2>1
<1>6. ASSUME NEW path \in Paths, c = StorePosts(inFlight[path].reply, inFlight[path].seq)
      PROVE  FALSE
  <2>1. /\ c.seq = inFlight[path].seq /\ p \in DOMAIN inFlight[path].reply
        /\ c.seq \in Nat /\ fence[p] \in Nat
    <3>1. c.seq \in Nat /\ p \in Posts
      BY <1>0, CommandFacts, Types
    <3> QED BY <1>0, <1>2, <1>6, <3>1, RevisionFacts DEF StorePosts
  <2>2. \/ c.seq <= fence[p]
        \/ \E k \in DOMAIN queue : Removal(k, p) /\ c.seq <= queue[k].seq
    BY <2>1 DEF AnswersGone
  <2>3. ASSUME NEW k \in DOMAIN queue, Removal(k, p), c.seq <= queue[k].seq
        PROVE  FALSE
    <3>1. Removal(k, p)' /\ k < m /\ k \in DOMAIN queue' /\ queue'[k] = queue[k] /\ queue[k].seq \in Nat
      BY <1>0, <1>1, <2>3, QueueFacts DEF Removal
    <3> QED BY <1>2, <2>1, <2>3, <3>1
  <2> QED BY <1>2, <2>1, <2>2, <2>3
<1>7. ASSUME handleEvent, c = StorePosts([q \in {events[1].id} |-> events[1].body], sequence + 1)
      PROVE  FALSE
  <2>1. c.posts = [q \in {events[1].id} |-> events[1].body]
    BY <1>7 DEF StorePosts
  <2>2. p = events[1].id
    BY <1>2, <2>1
  <2>3. 1 \in DOMAIN events
    BY <1>0, <1>7, EventsShift DEF handleEvent
  <2> QED BY <2>2, <2>3 DEF GoneIsDead
<1>8. ASSUME NEW q \in Called, NEW body \in Body,
             c = StorePosts([r \in {q} |-> body], sequence + 1)
      PROVE  FALSE
  <2>1. c.posts = [r \in {q} |-> body]
    BY <1>8 DEF StorePosts
  <2>2. p = q
    BY <1>2, <2>1
  <2> QED BY <1>0, <2>2
<1> QED BY <1>2, <1>4, <1>5, <1>6, <1>7, <1>8

\* A step that leaves the queue and the fence of p alone brings it no row.
LEMMA RowBeforeSame ==
    ASSUME queue' = queue, NEW p, fence'[p] = fence[p], disk'[p] # None => disk[p] # None,
           NEW k, RowBefore(k, p)'
    PROVE  RowBefore(k, p)
<1>1. \A i : Removal(i, p)' <=> Removal(i, p)
  BY DEF Removal
<1>2. \A i : Brings(i, p)' <=> Brings(i, p)
  BY <1>1 DEF Brings, Removal
<1>3. \/ disk'[p] # None /\ \A j \in DOMAIN queue' : j < k => ~Removal(j, p)'
      \/ \E i \in DOMAIN queue' :
           /\ i < k /\ Brings(i, p)'
           /\ \A j \in DOMAIN queue' : i < j /\ j < k => ~Removal(j, p)'
  BY DEF RowBefore, Brings, Removal
<1> QED BY <1>1, <1>2, <1>3 DEF RowBefore

\* What a step may do to the queue, to the fence of p and to its row.
LEMMA QueueFrame ==
    ASSUME Shape, [Next]_vars, ~restart, NEW p \in Posts
    PROVE  \/ /\ queue' = queue /\ fence'[p] = fence[p]
              /\ disk'[p] # None => disk[p] # None
           \/ workerStep /\ queue # <<>> /\ queue' = Tail(queue)
           \/ /\ ~workerStep /\ UNCHANGED <<disk, fence>>
              /\ \E c \in Commands : queue' = Append(queue, c)
<1>1. CASE workerStep
  <2>1. CASE \E q \in Posts : dropRow(q)
    <3>1. disk \in [Posts -> Body \cup {None}]
      BY Types DEF Shape
    <3> QED BY <2>1, <3>1 DEF dropRow
  <2> QED BY <1>1, <2>1, Executed
<1>2. CASE ~workerStep
  <2>1. UNCHANGED <<disk, fence>>
    BY <1>2, Framed DEF Frame
  <2> QED BY <1>2, <2>1, Queued
<1> QED BY <1>1, <1>2

\* The place behind the last command.
LEMMA RowGoneStep ==
    ASSUME Shape, GoneIsDead, AnswersGone, RowsGone, [Next]_vars,
           NEW p \in gone' \ Called', NEW k, k = Len(queue') + 1
    PROVE  ~RowBefore(k, p)'
<1> SUFFICES ASSUME RowBefore(k, p)' PROVE FALSE
  OBVIOUS
<1>0. /\ TypeOK /\ ~restart /\ p \in Posts /\ Called \subseteq Called' /\ Len(queue) \in Nat
      /\ p \in gone \/ HandledOf(p, "deleted")
  BY GoneFrame, TypeCalls, QueueFacts DEF Shape
<1>1. CASE HandledOf(p, "deleted")
  <2> DEFINE c == RemovePost(p, sequence + 1, events[1].body.at)
  <2>1. c \in Commands /\ queue' = Append(queue, c) /\ UNCHANGED <<disk, fence>>
    BY <1>1, DeletionNoted DEF HandledOf, handleEvent
  <2>2. c.op = "remove" /\ c.id = p
    BY DEF RemovePost
  <2> HIDE DEF c
  <2>3. PICK m : m = Len(queue) + 1
    OBVIOUS
  <2>4. Removal(m, p)' /\ k = Len(queue) + 2
    BY <1>0, <2>1, <2>2, <2>3, QueueGrows
  <2> QED BY <1>0, <2>1, <2>3, <2>4, RowAtEnd
<1>2. CASE p \in gone
  <2>0. /\ p \in gone \ Called
        /\ \A n : n = Len(queue) + 1 => ~RowBefore(n, p)
    BY <1>0, <1>2 DEF RowsGone
  <2>1. CASE /\ queue' = queue /\ fence'[p] = fence[p]
             /\ disk'[p] # None => disk[p] # None
    <3>1. RowBefore(k, p)
      BY <2>1, RowBeforeSame
    <3>2. Len(queue') = Len(queue)
      BY <2>1, Zenon
    <3> QED BY <2>0, <3>1, <3>2
  <2>2. CASE workerStep /\ queue # <<>> /\ queue' = Tail(queue)
    <3>1. Len(queue') = Len(queue) - 1 /\ Len(queue) >= 1
      <4>1. queue \in Seq(Commands)
        BY <1>0, Types
      <4> QED BY <2>2, <4>1, TailFacts
    <3>2. k \in Nat /\ k >= 1 /\ k + 1 = Len(queue) + 1
      BY <1>0, <3>1
    <3>3. PICK m : m = k + 1
      OBVIOUS
    <3>4. RowBefore(m, p)
      BY <1>0, <2>2, <3>2, <3>3, RowBeforeShift
    <3> QED BY <2>0, <3>2, <3>3, <3>4
  <2>3. ASSUME NEW c \in Commands, queue' = Append(queue, c), UNCHANGED <<disk, fence>>, ~workerStep
        PROVE  FALSE
    <3>1. PICK m : m = Len(queue) + 1
      OBVIOUS
    <3>2. k = Len(queue) + 2
      BY <1>0, <2>3, QueueGrows
    <3>3. RowBefore(m, p) \/ Brings(m, p)'
      BY <1>0, <2>3, <3>1, <3>2, RowAtEnd
    <3>4. ~Brings(m, p)'
      BY <1>0, <1>2, <2>3, <3>1, NothingBrings
    <3> QED BY <2>0, <3>1, <3>3, <3>4
  <2> QED BY <1>0, <2>1, <2>2, <2>3, QueueFrame
<1> QED BY <1>0, <1>1, <1>2

\* The places of the reads that may fill the absence.
LEMMA ReadsGoneStep ==
    ASSUME Shape, GoneIsDead, AnswersGone, RowsGone, [Next]_vars,
           NEW p \in gone' \ Called', NEW k \in DOMAIN queue', queue'[k].op = "load",
           observed'[p] <= queue'[k].seq
    PROVE  ~RowBefore(k, p)'
<1> SUFFICES ASSUME RowBefore(k, p)' PROVE FALSE
  OBVIOUS
<1>0. /\ TypeOK /\ ~restart /\ p \in Posts /\ Called \subseteq Called' /\ Len(queue) \in Nat
      /\ p \in gone \/ HandledOf(p, "deleted")
      /\ sequence \in Nat /\ observed[p] <= observed'[p] /\ observed[p] \in Nat /\ observed'[p] \in Nat
      /\ \A i \in DOMAIN queue : queue[i].seq <= sequence /\ queue[i].seq \in Nat /\ i \in Nat /\ i >= 1
  <2>1. ~restart /\ p \in Posts /\ (p \in gone \/ HandledOf(p, "deleted")) /\ TypeOK /\ SeqBound
    BY GoneFrame DEF Shape
  <2> QED BY <2>1, TypeCalls, QueueFacts, ObservedGrows, Types DEF SeqBound
<1>1. CASE HandledOf(p, "deleted")
  <2> DEFINE c == RemovePost(p, sequence + 1, events[1].body.at)
  <2>1. c \in Commands /\ queue' = Append(queue, c) /\ observed'[p] = sequence + 1
    BY <1>1, DeletionNoted
  <2>2. c.op = "remove"
    BY DEF RemovePost
  <2> HIDE DEF c
  <2>3. k \in DOMAIN queue /\ queue'[k] = queue[k]
    BY <1>0, <2>1, <2>2, QueueGrows
  <2> QED BY <1>0, <2>1, <2>3
<1>2. CASE p \in gone
  <2>0. /\ p \in gone \ Called
        /\ \A n : n = Len(queue) + 1 => ~RowBefore(n, p)
        /\ \A n \in DOMAIN queue : queue[n].op = "load" /\ observed[p] <= queue[n].seq => ~RowBefore(n, p)
    BY <1>0, <1>2 DEF RowsGone
  <2>1. CASE /\ queue' = queue /\ fence'[p] = fence[p]
             /\ disk'[p] # None => disk[p] # None
    <3>1. RowBefore(k, p)
      BY <2>1, RowBeforeSame
    <3>2. k \in DOMAIN queue /\ queue'[k] = queue[k]
      BY <2>1
    <3> QED BY <1>0, <2>0, <3>1, <3>2
  <2>2. CASE workerStep /\ queue # <<>> /\ queue' = Tail(queue)
    <3>1. k \in Nat /\ k >= 1 /\ k + 1 \in DOMAIN queue /\ queue'[k] = queue[k + 1]
      BY <1>0, <2>2, QueueShift
    <3>2. PICK m : m = k + 1
      OBVIOUS
    <3>3. RowBefore(m, p)
      BY <1>0, <2>2, <3>1, <3>2, RowBeforeShift
    <3> QED BY <1>0, <2>0, <3>1, <3>2, <3>3
  <2>3. ASSUME NEW c \in Commands, queue' = Append(queue, c), UNCHANGED <<disk, fence>>
        PROVE  FALSE
    <3>1. (k \in DOMAIN queue /\ queue'[k] = queue[k]) \/ k = Len(queue) + 1
      BY <1>0, <2>3, QueueGrows
    <3>2. k \in Nat /\ k <= Len(queue) + 1
      <4>1. DOMAIN queue = 1 .. Len(queue)
        BY <1>0, QueueFacts
      <4> QED BY <1>0, <3>1, <4>1
    <3>3. RowBefore(k, p)
      BY <1>0, <2>3, <3>2, RowBeforeAppend
    <3> QED BY <1>0, <2>0, <3>1, <3>3
  <2> QED BY <1>0, <2>1, <2>2, <2>3, QueueFrame
<1> QED BY <1>0, <1>1, <1>2

\* Every step keeps rows and reads from what is gone.
LEMMA RowsGoneStep ==
    ASSUME Shape, GoneIsDead, AnswersGone, RowsGone, [Next]_vars
    PROVE  RowsGone'
<1>1. ASSUME NEW p \in gone' \ Called'
      PROVE  \A k : k = Len(queue') + 1 => ~RowBefore(k, p)'
  BY RowGoneStep
<1>2. ASSUME NEW p \in gone' \ Called', NEW k \in DOMAIN queue', queue'[k].op = "load",
             observed'[p] <= queue'[k].seq
      PROVE  ~RowBefore(k, p)'
  BY <1>2, ReadsGoneStep
<1>3. ASSUME NEW i \in DOMAIN callbacks', NEW p \in (gone' \ Called') \cap DOMAIN callbacks'[i].posts
      PROVE  callbacks'[i].seq < observed'[p]
  <2>0. /\ TypeOK /\ ~restart /\ p \in Posts /\ Called \subseteq Called'
        /\ p \in gone \/ HandledOf(p, "deleted")
        /\ sequence \in Nat /\ observed[p] <= observed'[p] /\ observed[p] \in Nat /\ observed'[p] \in Nat
        /\ callbacks \in Seq(Results)
        /\ \A j \in DOMAIN callbacks : callbacks[j].seq <= sequence
    <3>1. ~restart /\ p \in Posts /\ (p \in gone \/ HandledOf(p, "deleted")) /\ TypeOK /\ SeqBound
      BY GoneFrame DEF Shape
    <3> QED BY <3>1, TypeCalls, ObservedGrows, Types DEF SeqBound
  <2>1. ASSUME NEW j \in DOMAIN callbacks, callbacks'[i] = callbacks[j]
        PROVE  callbacks'[i].seq < observed'[p]
    <3>1. callbacks[j].seq \in Nat /\ callbacks[j].seq <= sequence
      <4>1. callbacks[j] \in Results
        BY <2>0, PlaceFacts
      <4> QED BY <2>0, <4>1 DEF Results
    <3>2. CASE p \in gone
      <4>1. callbacks[j].seq < observed[p]
        BY <2>0, <2>1, <3>2 DEF RowsGone
      <4> QED BY <2>0, <2>1, <3>1, <4>1
    <3>3. CASE HandledOf(p, "deleted")
      <4>1. observed'[p] = sequence + 1
        BY <3>3, DeletionNoted
      <4> QED BY <2>0, <2>1, <3>1, <4>1
    <3> QED BY <2>0, <3>2, <3>3
  <2>2. CASE /\ workerStep /\ 1 \in DOMAIN queue /\ queue[1].op = "load"
             /\ callbacks'[i].seq = queue[1].seq /\ disk[p] # None
    <3>1. UNCHANGED <<gone, observed>>
      BY <2>2 DEF workerStep, history, repository
    <3>2. \A j \in DOMAIN queue : j \in Nat /\ j >= 1 /\ queue[j].seq \in Nat
      BY <2>0, QueueFacts
    <3>3. RowBefore(1, p)
      BY <2>2, <3>2 DEF RowBefore
    <3>4. ~(observed[p] <= queue[1].seq)
      BY <2>0, <2>2, <3>1, <3>3 DEF RowsGone
    <3> QED BY <2>0, <2>2, <3>1, <3>2, <3>4
  <2> QED BY <2>1, <2>2, ResultsFrame
<1>4. \A p \in gone' \ Called' : \A k : k = Len(queue') + 1 => ~RowBefore(k, p)'
  BY <1>1
<1>5. \A p \in gone' \ Called', k \in DOMAIN queue' :
        queue'[k].op = "load" /\ observed'[p] <= queue'[k].seq => ~RowBefore(k, p)'
  BY <1>2
<1> QED BY <1>3, <1>4, <1>5 DEF RowsGone, RowBefore, Brings, Removal

\* Every step keeps what is gone out of memory, or marked as deleted there.
LEMMA NoResurrectionStep ==
    ASSUME Shape, GoneIsDead, AnswersGone, RowsGone, NoResurrection, [Next]_vars
    PROVE  NoResurrection'
<1>1. ASSUME NEW p \in gone' \ Called', resident'[p] # None, p \notin unfenced', p \notin tombstone'
      PROVE  FALSE
  <2>0. TypeOK /\ Called \subseteq Called'
    BY TypeCalls DEF Shape
  <2>1. p \in Posts /\ ResidentFrom(p) /\ (p \in gone \/ HandledOf(p, "deleted")) /\ p \notin Called
    BY <1>1, <2>0, GoneFrame, ResidentFrame
  <2>2. CASE /\ resident'[p] = resident[p] /\ SameMarks(p)
             /\ p \in tombstone' <=> p \in tombstone \/ HandledOf(p, "deleted")
    BY <1>1, <2>1, <2>2 DEF NoResurrection, SameMarks
  <2>3. ASSUME NEW path \in Paths, httpFinished(path), p \in Accepted(path)
        PROVE  FALSE
    <3>1. p \in gone
      BY <1>1, <2>3 DEF httpFinished
    <3>2. inFlight[path].seq < observed[p]
      BY <2>3, <3>1 DEF AnswersGone, Accepted
    <3>3. inFlight[path].seq \in Nat /\ observed[p] \in Nat
      BY <2>0, <2>1, GetFacts, RevisionFacts
    <3> QED BY <2>3, <3>2, <3>3 DEF Accepted
  <2>4. CASE readFinished /\ p \in Filled(callbacks[1])
    <3>1. p \in gone
      BY <1>1, <2>4 DEF readFinished
    <3>2. callbacks # <<>> /\ callbacks \in Seq(Results)
      BY <2>0, <2>4, Types DEF readFinished
    <3>3. 1 \in DOMAIN callbacks /\ callbacks[1].seq \in Nat
      <4>1. 1 \in DOMAIN callbacks
        BY <3>2
      <4>2. callbacks[1] \in Results
        BY <3>2, <4>1, PlaceFacts
      <4> QED BY <4>1, <4>2 DEF Results
    <3>4. callbacks[1].seq < observed[p]
      BY <2>1, <2>4, <3>1, <3>3 DEF RowsGone, Filled
    <3>5. observed[p] \in Nat
      BY <2>0, <2>1, RevisionFacts
    <3> QED BY <2>4, <3>3, <3>4, <3>5 DEF Filled
  <2>5. CASE HandledOf(p, "posted") \/ HandledOf(p, "edited") \/ HandledOf(p, "reacted")
    <3>1. ~HandledOf(p, "deleted")
      BY <2>5 DEF HandledOf
    <3>2. 1 \in DOMAIN events /\ events[1].id = p
      BY <2>0, <2>5, EventsShift DEF HandledOf, handleEvent
    <3> QED BY <2>1, <3>1, <3>2 DEF GoneIsDead
  <2> QED BY <1>1, <2>1, <2>2, <2>3, <2>4, <2>5 DEF ResidentFrom
<1>2. \A p \in gone' \ Called' : resident'[p] = None \/ p \in tombstone' \cup unfenced'
  BY <1>1
<1> QED BY <1>2 DEF NoResurrection

\* Once its deletion was handled, neither a late reply, nor a row, nor a read that was under
\* way brings a post back to life in this session (handleEvent of
\* WebSocketEventHandler, PostRepository::ingest and ingestCached, and the watermarks of
\* PostCacheWorker together).
THEOREM StaysGone == Spec => []NoResurrection
<1> DEFINE I == Shape /\ EventsOrdered /\ Gone
<1>1. I /\ [Next]_vars => I'
  BY ShapeStep, EventsOrderedStep, GoneIsDeadStep, AnswersGoneStep, RowsGoneStep,
     NoResurrectionStep DEF Gone
<1>2. Init => I
  <2> SUFFICES ASSUME Init PROVE I
    OBVIOUS
  <2>1. GoneIsDead /\ AnswersGone /\ RowsGone /\ NoResurrection
    BY InitEmpty DEF GoneIsDead, AnswersGone, RowsGone, NoResurrection
  <2> QED BY <2>1, ShapeInit, RowsInit DEF Gone, Follows
<1>3. I => NoResurrection
  BY DEF Gone
<1> QED BY <1>1, <1>2, <1>3, PTL DEF Spec

-------------------------------------------------------------------------------
(* What the bodies say when everything has arrived.                            *)

\* An event that is to come is still to come, unless it was the one handled.
LEMMA PendingFrame ==
    ASSUME Shape, [Next]_vars, ~streamLost, ~restart, NEW p, NEW kind,
           Pending(p, kind), ~HandledOf(p, kind)
    PROVE  Pending(p, kind)'
<1>0. TypeOK
  BY DEF Shape
<1>1. PICK i \in DOMAIN events : events[i].id = p /\ events[i].kind = kind
  BY DEF Pending
<1>2. CASE UNCHANGED events
  BY <1>1, <1>2 DEF Pending
<1>3. CASE handleEvent
  <2>1. events # <<>> /\ events' = Tail(events) /\ i # 1
    BY <1>1, <1>3 DEF handleEvent, HandledOf
  <2>2. i - 1 \in DOMAIN events' /\ events'[i - 1] = events[i]
    BY <1>0, <2>1, EventsShift
  <2> QED BY <1>1, <2>2 DEF Pending
<1>4. ASSUME NEW q \in Posts, NEW state \in PostSet, NEW k \in Kinds, Revised(q, state, k)
      PROVE  Pending(p, kind)'
  <2>1. i \in DOMAIN events' /\ events'[i] = events[i]
    BY <1>0, <1>4, RevisedFacts
  <2> QED BY <1>1, <2>1 DEF Pending
<1> QED BY <1>2, <1>3, <1>4, ServerRevises, Framed DEF Frame

\* A revision of p is to come as an event.
LEMMA RevisedPending ==
    ASSUME Shape, NEW p \in Posts, NEW state \in PostSet, NEW kind \in Kinds,
           Revised(p, state, kind)
    PROVE  Pending(p, kind)'
<1>1. /\ Len(events) + 1 \in DOMAIN events'
      /\ events'[Len(events) + 1].kind = kind /\ events'[Len(events) + 1].id = p
  BY RevisedFacts DEF Shape
<1> QED BY <1>1 DEF Pending

\* The server changes p, or it does not.
LEMMA PostFrame ==
    ASSUME Shape, [Next]_vars, NEW p \in Posts
    PROVE  \/ post'[p] = post[p]
           \/ \E state \in PostSet, kind \in Kinds : Revised(p, state, kind)
<1>1. ASSUME NEW q \in Posts, NEW state \in PostSet, NEW kind \in Kinds, Revised(q, state, kind)
      PROVE  \/ post'[p] = post[p]
             \/ \E s \in PostSet, k \in Kinds : Revised(p, s, k)
  <2>1. CASE q = p
    BY <1>1, <2>1
  <2>2. CASE q # p
    BY <1>1, <2>2, RevisedFacts DEF Shape
  <2> QED BY <2>1, <2>2
<1> QED BY <1>1, ServerRevises, Framed DEF Frame

\* A body of p that is current stays so, unless one of the events that tell it was handled.
LEMMA CurrentStep ==
    ASSUME Shape, [Next]_vars, ~streamLost, ~restart, NEW p \in Posts, post[p].at >= 1,
           NEW body, Current(p, body), ~HandledOf(p, "edited"), ~HandledOf(p, "reacted")
    PROVE  Current(p, body)'
<1>1. /\ ~Pending(p, "edited") => body.text = post[p].text
      /\ ~Pending(p, "reacted") => body.liked = post[p].liked
      /\ Pending(p, "edited") => Pending(p, "edited")'
      /\ Pending(p, "reacted") => Pending(p, "reacted")'
  BY PendingFrame DEF Current
<1>2. CASE post'[p] = post[p]
  BY <1>1, <1>2 DEF Current
<1>3. ASSUME NEW state \in PostSet, NEW kind \in Kinds, Revised(p, state, kind)
      PROVE  Current(p, body)'
  <2>1. /\ post'[p] = state /\ kind # "posted"
        /\ kind \in {"reacted", "deleted"} => state.text = post[p].text
        /\ kind \in {"edited", "deleted"} => state.liked = post[p].liked
    <3>1. post'[p] = state /\ post[p].at \in Nat
      BY <1>3, RevisedFacts DEF Shape
    <3> QED BY <1>3, <3>1 DEF Revised
  <2>2. kind \in {"edited", "reacted", "deleted"}
    BY <2>1 DEF Kinds
  <2>3. kind = "edited" => Pending(p, "edited")'
    BY <1>3, RevisedPending
  <2>4. kind = "reacted" => Pending(p, "reacted")'
    BY <1>3, RevisedPending
  <2> QED BY <1>1, <2>1, <2>2, <2>3, <2>4 DEF Current
<1> QED BY <1>2, <1>3, PostFrame

\* And so does a post that lives as long as no deletion is to come.
LEMMA AliveStep ==
    ASSUME Shape, [Next]_vars, ~streamLost, ~restart, NEW p \in Posts, ~HandledOf(p, "deleted"),
           ~Pending(p, "deleted") => post[p].alive
    PROVE  ~Pending(p, "deleted")' => post'[p].alive
<1>1. Pending(p, "deleted") => Pending(p, "deleted")'
  BY PendingFrame
<1>2. CASE post'[p] = post[p]
  BY <1>1, <1>2
<1>3. ASSUME NEW state \in PostSet, NEW kind \in Kinds, Revised(p, state, kind)
      PROVE  ~Pending(p, "deleted")' => post'[p].alive
  <2>1. post'[p] = state
    BY <1>3, RevisedFacts DEF Shape
  <2>2. state.alive <=> kind # "deleted"
    BY <1>3 DEF Revised
  <2>3. kind = "deleted" => Pending(p, "deleted")'
    BY <1>3, RevisedPending
  <2> QED BY <2>1, <2>2, <2>3
<1> QED BY <1>2, <1>3, PostFrame

\* Every step keeps the last event of each kind current.
LEMMA EventsCurrentStep ==
    ASSUME Shape, EventsOrdered, EventsCurrent, [Next]_vars
    PROVE  EventsCurrent'
<1>0. TypeOK /\ \A i \in DOMAIN events : events[i].id \in Posts /\ i \in Nat
  BY EventFacts DEF Shape
<1>1. CASE events' = <<>>
  BY <1>1 DEF EventsCurrent
<1>2. CASE UNCHANGED <<post, events>>
  BY <1>2 DEF EventsCurrent, LastOf
<1>3. CASE handleEvent
  <2>1. /\ \A i \in DOMAIN events' : i \in Nat /\ i + 1 \in DOMAIN events /\ events'[i] = events[i + 1]
        /\ \A i \in DOMAIN events : i # 1 => i - 1 \in DOMAIN events' /\ events'[i - 1] = events[i]
        /\ post' = post
    BY <1>0, <1>3, EventsShift DEF handleEvent
  <2>2. ASSUME NEW i \in DOMAIN events', NEW kind, LastOf(i, kind)'
        PROVE  LastOf(i + 1, kind)
    <3>1. ASSUME NEW j \in DOMAIN events, i + 1 < j, events[j].id = events[i + 1].id
          PROVE  events[j].kind # kind
      <4>1. j # 1 /\ i < j - 1
        BY <1>0, <2>1, <3>1
      <4>2. j - 1 \in DOMAIN events' /\ events'[j - 1] = events[j] /\ events'[i] = events[i + 1]
        BY <2>1, <4>1
      <4> QED BY <2>2, <3>1, <4>1, <4>2 DEF LastOf
    <3> QED BY <3>1 DEF LastOf
  <2>3. ASSUME NEW i \in DOMAIN events'
        PROVE  /\ events'[i].kind \in {"posted", "edited"} /\ LastOf(i, "edited")'
                    => events'[i].body.text = post'[events'[i].id].text
               /\ LastOf(i, "reacted")' => events'[i].body.liked = post'[events'[i].id].liked
               /\ events'[i].kind # "deleted" /\ LastOf(i, "deleted")' => post'[events'[i].id].alive
    BY <2>1, <2>2 DEF EventsCurrent
  <2> QED BY <2>3 DEF EventsCurrent, LastOf
<1>4. ASSUME NEW p \in Posts, NEW state \in PostSet, NEW kind \in Kinds, Revised(p, state, kind)
      PROVE  EventsCurrent'
  <2> DEFINE n == Len(events) + 1
  <2>1. /\ \A i \in DOMAIN events : i \in DOMAIN events' /\ events'[i] = events[i] /\ i < n
        /\ \A i \in DOMAIN events' : i \in DOMAIN events \/ i = n
        /\ events'[n].kind = kind /\ events'[n].id = p /\ n \in DOMAIN events'
        /\ events'[n].body.text = state.text /\ events'[n].body.liked = state.liked
        /\ post'[p] = state /\ \A q \in Posts : q # p => post'[q] = post[q]
    BY <1>0, <1>4, RevisedFacts
  <2>2. \A i \in DOMAIN events : events[i].id = p => kind # "posted"
    BY <1>4, RevisedLast
  <2>3. /\ state.alive <=> kind # "deleted"
        /\ kind \in {"reacted", "deleted"} => state.text = post[p].text
        /\ kind \in {"edited", "deleted"} => state.liked = post[p].liked
        /\ kind \in {"posted", "edited", "reacted", "deleted"}
    BY <1>4 DEF Revised, Kinds
  <2> HIDE DEF n
  <2>4. ASSUME NEW i \in DOMAIN events, NEW k, LastOf(i, k)'
        PROVE  LastOf(i, k) /\ (events[i].id = p => kind # k)
    BY <2>1, <2>4 DEF LastOf
  <2>5. ASSUME NEW i \in DOMAIN events'
        PROVE  /\ events'[i].kind \in {"posted", "edited"} /\ LastOf(i, "edited")'
                    => events'[i].body.text = post'[events'[i].id].text
               /\ LastOf(i, "reacted")' => events'[i].body.liked = post'[events'[i].id].liked
               /\ events'[i].kind # "deleted" /\ LastOf(i, "deleted")' => post'[events'[i].id].alive
    <3>1. CASE i = n
      BY <2>1, <2>3, <3>1
    <3>2. CASE i \in DOMAIN events
      <4>1. /\ events'[i] = events[i]
            /\ events[i].kind \in {"posted", "edited"} /\ LastOf(i, "edited")
                 => events[i].body.text = post[events[i].id].text
            /\ LastOf(i, "reacted") => events[i].body.liked = post[events[i].id].liked
            /\ events[i].kind # "deleted" /\ LastOf(i, "deleted") => post[events[i].id].alive
        BY <2>1, <3>2 DEF EventsCurrent
      <4>2. CASE events[i].id # p
        BY <1>0, <2>1, <2>4, <3>2, <4>1, <4>2
      <4>3. CASE events[i].id = p
        BY <2>1, <2>2, <2>3, <2>4, <3>2, <4>1, <4>3
      <4> QED BY <4>2, <4>3
    <3> QED BY <2>1, <3>1, <3>2
  <2> QED BY <2>5 DEF EventsCurrent, LastOf
<1>5. streamLost \/ restart => events' = <<>>
  BY DEF streamLost, restart
<1> QED BY <1>1, <1>2, <1>3, <1>4, <1>5, ServerRevises, Framed DEF Frame

\* Every step keeps the answers that may overwrite something current.
LEMMA AnswersCurrentStep ==
    ASSUME Shape, AnswersCurrent, [Next]_vars, ~streamLost
    PROVE  AnswersCurrent'
<1>1. ASSUME NEW path \in Paths, NEW p \in DOMAIN inFlight'[path].reply,
             observed'[p] <= inFlight'[path].seq, NEW body, body = inFlight'[path].reply[p]
      PROVE  /\ post'[p].at >= 1 /\ Current(p, body)'
             /\ ~Pending(p, "deleted")' => post'[p].alive
  <2>1. /\ p \in Posts /\ ~restart /\ inFlight'[path].seq = inFlight[path].seq
        /\ inFlight[path].seq \in Nat /\ inFlight[path].seq <= sequence
    BY AnswersFrame
  <2>2. observed[p] \in Nat /\ observed'[p] \in Nat /\ observed[p] <= inFlight[path].seq
    BY <1>1, <2>1, ObservedGrows
  <2>3. \A kind : ~HandledOf(p, kind)
    <3>1. sequence \in Nat
      BY <2>1, RevisionFacts DEF Shape
    <3>2. observed'[p] # sequence + 1
      BY <1>1, <2>1, <2>2, <3>1
    <3> QED BY <3>2, EventNoted DEF HandledOf
  <2>4. CASE /\ p \in DOMAIN inFlight[path].reply
             /\ inFlight'[path].reply[p] = inFlight[path].reply[p]
    <3>1. /\ post[p].at >= 1 /\ Current(p, body)
          /\ ~Pending(p, "deleted") => post[p].alive
      BY <1>1, <2>2, <2>4 DEF AnswersCurrent
    <3>2. post'[p].at >= 1
      BY <2>1, <3>1, PostsGrow, RevisionFacts DEF Shape
    <3>3. Current(p, body)'
      BY <2>1, <2>3, <3>1, CurrentStep
    <3>4. ~Pending(p, "deleted")' => post'[p].alive
      BY <2>1, <2>3, <3>1, AliveStep
    <3> QED BY <3>2, <3>3, <3>4
  <2>5. CASE ServerReplies /\ post[p].alive /\ inFlight'[path].reply[p] = Snapshot(p)
    <3>1. UNCHANGED post
      BY <2>5 DEF ServerReplies, Answer
    <3>2. body.text = post[p].text /\ body.liked = post[p].liked
      BY <1>1, <2>5 DEF Snapshot
    <3>3. Current(p, body)'
      BY <3>1, <3>2 DEF Current
    <3>4. post[p].at >= 1
      BY <2>1, <2>5 DEF Shape, PostShape
    <3> QED BY <2>5, <3>1, <3>3, <3>4
  <2> QED BY <2>4, <2>5, AnswersFrame
<1>2. \A path \in Paths : \A p \in DOMAIN inFlight'[path].reply : \A body :
        observed'[p] <= inFlight'[path].seq /\ body = inFlight'[path].reply[p] =>
          /\ post'[p].at >= 1 /\ Current(p, body)'
          /\ ~Pending(p, "deleted")' => post'[p].alive
  BY <1>1
<1> QED BY <1>2 DEF AnswersCurrent, Current, Pending

\* The event at the head, of p: what it shows is current, once no more of its kind is to come.
LEMMA HeadCurrent ==
    ASSUME Shape, EventsOrdered, EventsCurrent, handleEvent, NEW p, p = events[1].id
    PROVE  /\ p \in Posts /\ post' = post /\ post[p].at >= 1 /\ 1 \in DOMAIN events
           /\ events[1].kind \in {"posted", "edited"} /\ ~Pending(p, "edited")'
                => events[1].body.text = post[p].text
           /\ ~Pending(p, "reacted")' => events[1].body.liked = post[p].liked
           /\ events[1].kind # "deleted" /\ ~Pending(p, "deleted")' => post[p].alive
<1>0. TypeOK
  BY DEF Shape
<1>1. /\ events # <<>> /\ events' = Tail(events) /\ post' = post
      /\ 1 \in DOMAIN events
      /\ \A i \in DOMAIN events : i # 1 => i - 1 \in DOMAIN events' /\ events'[i - 1] = events[i]
      /\ \A i \in DOMAIN events : i \in Nat
  BY <1>0, EventsShift, EventFacts DEF handleEvent
<1>2. ASSUME NEW kind, ~Pending(p, kind)'
      PROVE  LastOf(1, kind)
  <2>1. ASSUME NEW j \in DOMAIN events, 1 < j, events[j].id = events[1].id
        PROVE  events[j].kind # kind
    <3>1. j # 1
      BY <1>1, <2>1
    <3>2. j - 1 \in DOMAIN events' /\ events'[j - 1] = events[j]
      BY <1>1, <3>1
    <3> QED BY <1>2, <2>1, <3>2 DEF Pending
  <2> QED BY <2>1 DEF LastOf
<1>3. p \in Posts /\ post[p].at >= 1
  <2>1. p \in Posts /\ events[1].body.at \in Nat /\ events[1].body.at >= 1
    BY <1>0, <1>1, EventFacts
  <2>2. events[1].body.at <= post[p].at /\ post[p].at \in Nat
    BY <1>0, <1>1, <2>1, RevisionFacts DEF EventsOrdered
  <2> QED BY <2>1, <2>2
<1>4. LET e == events[1] IN
      /\ e.kind \in {"posted", "edited"} /\ LastOf(1, "edited") => e.body.text = post[e.id].text
      /\ LastOf(1, "reacted") => e.body.liked = post[e.id].liked
      /\ e.kind # "deleted" /\ LastOf(1, "deleted") => post[e.id].alive
  BY <1>1 DEF EventsCurrent
<1> QED BY <1>1, <1>2, <1>3, <1>4

\* Every step keeps the bodies the server established current.
LEMMA ResidentCurrentStep ==
    ASSUME Shape, EventsOrdered, EventsCurrent, AnswersCurrent, ResidentCurrent, [Next]_vars,
           ~streamLost, refreshes = <<>>
    PROVE  ResidentCurrent'
<1>1. ASSUME NEW p \in Posts \ Called', resident'[p] # None, p \notin cached',
             NEW body, body = resident'[p]
      PROVE  /\ post'[p].at >= 1 /\ Current(p, body)'
             /\ p \in tombstone' => ~post'[p].alive
             /\ p \notin tombstone' /\ ~Pending(p, "deleted")' => post'[p].alive
  <2>0. /\ TypeOK /\ Called \subseteq Called' /\ p \notin Called /\ post[p].at \in Nat
        /\ resident \in [Posts -> Body \cup {None}]
        /\ tombstone \subseteq {q \in Posts : resident[q] # None}
    BY TypeCalls, RevisionFacts, Types DEF Shape
  <2>1. ~restart /\ ResidentFrom(p)
    BY <1>1, ResidentFrame
  <2>2. resident[p] # None /\ p \notin cached =>
          /\ post[p].at >= 1 /\ Current(p, resident[p])
          /\ p \in tombstone => ~post[p].alive
          /\ p \notin tombstone /\ ~Pending(p, "deleted") => post[p].alive
    BY <2>0 DEF ResidentCurrent
  <2>3. CASE /\ resident'[p] = resident[p] /\ SameMarks(p)
             /\ p \in tombstone' <=> p \in tombstone \/ HandledOf(p, "deleted")
             /\ ~HandledOf(p, "edited") /\ ~HandledOf(p, "reacted")
    <3>1. /\ post[p].at >= 1 /\ Current(p, body)
          /\ p \in tombstone => ~post[p].alive
          /\ p \notin tombstone /\ ~Pending(p, "deleted") => post[p].alive
      BY <1>1, <2>2, <2>3 DEF SameMarks
    <3>2. post'[p].at >= 1
      BY <2>0, <3>1, PostsGrow
    <3>3. Current(p, body)'
      BY <2>1, <2>3, <3>1, CurrentStep
    <3>4. CASE p \in tombstone
      <4>1. post'[p] = post[p]
        BY <3>1, <3>4, PostsGrow
      <4> QED BY <2>3, <3>1, <3>2, <3>3, <3>4, <4>1
    <3>5. CASE HandledOf(p, "deleted")
      <4>1. post' = post /\ 1 \in DOMAIN events /\ events[1].id = p /\ events[1].kind = "deleted"
        BY <3>5, DeletionNoted DEF HandledOf, handleEvent
      <4>2. ~post[p].alive
        BY <4>1 DEF EventsOrdered
      <4> QED BY <2>3, <3>2, <3>3, <3>5, <4>1, <4>2
    <3>6. CASE p \notin tombstone /\ ~HandledOf(p, "deleted")
      <4>1. ~Pending(p, "deleted")' => post'[p].alive
        BY <2>1, <3>1, <3>6, AliveStep
      <4> QED BY <2>3, <3>2, <3>3, <3>6, <4>1
    <3> QED BY <3>4, <3>5, <3>6
  <2>4. ASSUME NEW path \in Paths, httpFinished(path), p \in Accepted(path),
               resident'[p] = inFlight[path].reply[p], p \notin tombstone'
        PROVE  /\ post'[p].at >= 1 /\ Current(p, body)'
               /\ p \in tombstone' => ~post'[p].alive
               /\ p \notin tombstone' /\ ~Pending(p, "deleted")' => post'[p].alive
    <3>1. /\ post[p].at >= 1 /\ Current(p, body)
          /\ ~Pending(p, "deleted") => post[p].alive
      BY <1>1, <2>4 DEF Accepted, AnswersCurrent
    <3>2. UNCHANGED <<post, events>>
      BY <2>4 DEF httpFinished
    <3> QED BY <2>4, <3>1, <3>2 DEF Current, Pending
  <2>5. CASE /\ handleEvent /\ events[1].id = p /\ resident'[p] = events[1].body
             /\ events[1].kind \in {"posted", "edited"} /\ p \notin tombstone'
    <3>1. /\ post' = post /\ post[p].at >= 1
          /\ ~Pending(p, "edited")' => body.text = post[p].text
          /\ ~Pending(p, "reacted")' => body.liked = post[p].liked
          /\ ~Pending(p, "deleted")' => post[p].alive
      BY <1>1, <2>5, HeadCurrent
    <3> QED BY <2>5, <3>1 DEF Current
  <2>6. CASE /\ HandledOf(p, "posted") /\ resident[p] = None /\ resident'[p] = events[1].body
             /\ p \in tombstone' <=> p \in tombstone
    BY <2>0, <2>5, <2>6 DEF HandledOf
  <2>7. CASE HandledOf(p, "edited") /\ resident'[p] = events[1].body /\ p \notin tombstone'
    BY <2>5, <2>7 DEF HandledOf
  <2>8. CASE /\ HandledOf(p, "reacted") /\ resident[p] # None
             /\ resident'[p] = [resident[p] EXCEPT !.liked = events[1].body.liked]
             /\ SameMarks(p) /\ (p \in tombstone' <=> p \in tombstone)
    <3>1. /\ post[p].at >= 1 /\ Current(p, resident[p])
          /\ p \in tombstone => ~post[p].alive
      BY <1>1, <2>2, <2>8 DEF SameMarks
    <3>2. /\ post' = post
          /\ ~Pending(p, "reacted")' => events[1].body.liked = post[p].liked
          /\ ~Pending(p, "deleted")' => post[p].alive
      BY <2>8, HeadCurrent DEF HandledOf
    <3>3. Pending(p, "edited") => Pending(p, "edited")'
      <4>1. ~HandledOf(p, "edited")
        BY <2>8 DEF HandledOf
      <4> QED BY <2>1, <4>1, PendingFrame
    <3>4. body.text = resident[p].text /\ body.liked = events[1].body.liked
      BY <1>1, <2>0, <2>8 DEF Body
    <3>5. Current(p, body)'
      BY <3>1, <3>2, <3>3, <3>4 DEF Current
    <3> QED BY <2>8, <3>1, <3>2, <3>5
  <2>9. ~Refresh
    BY DEF Refresh
  <2> QED BY <1>1, <2>0, <2>1, <2>3, <2>4, <2>6, <2>7, <2>8, <2>9 DEF ResidentFrom
<1>2. \A p \in Posts \ Called' : \A body :
        resident'[p] # None /\ p \notin cached' /\ body = resident'[p] =>
          /\ post'[p].at >= 1 /\ Current(p, body)'
          /\ p \in tombstone' => ~post'[p].alive
          /\ p \notin tombstone' /\ ~Pending(p, "deleted")' => post'[p].alive
  BY <1>1
<1> QED BY <1>2 DEF ResidentCurrent, Current, Pending

\* Every step keeps the agreement.
LEMMA AgreesStep ==
    ASSUME Shape, EventsOrdered, Agrees, [Next]_vars
    PROVE  Agrees'
<1> SUFFICES ASSUME refreshes' = <<>> PROVE (EventsCurrent /\ AnswersCurrent /\ ResidentCurrent)'
  BY DEF Agrees
<1>1. ~streamLost /\ refreshes = <<>>
  BY TypeRefreshes
<1> QED BY <1>1, EventsCurrentStep, AnswersCurrentStep, ResidentCurrentStep DEF Agrees

\* When everything under way has arrived, and no stream was lost, the bodies the server
\* established say what the server says: replies and events that crossed each other left no
\* trace (observationSequence of PostRepository).
THEOREM Agreement == Spec => []Converges
<1> DEFINE I == Shape /\ EventsOrdered /\ Agrees
<1>1. I /\ [Next]_vars => I'
  BY ShapeStep, EventsOrderedStep, AgreesStep
<1>2. Init => I
  <2> SUFFICES ASSUME Init PROVE I
    OBVIOUS
  <2>1. EventsCurrent /\ AnswersCurrent /\ ResidentCurrent
    BY InitEmpty DEF EventsCurrent, AnswersCurrent, ResidentCurrent
  <2> QED BY <2>1, ShapeInit, RowsInit DEF Agrees, Follows
<1>3. I => Converges
  <2> SUFFICES ASSUME I, Quiet, refreshes = <<>>, NEW p \in Posts \ Called,
                      resident[p] # None, p \notin cached
               PROVE  IF post[p].alive
                      THEN /\ resident[p].text = post[p].text
                           /\ resident[p].liked = post[p].liked /\ p \notin tombstone
                      ELSE p \in tombstone
    BY DEF Converges
  <2>1. /\ Current(p, resident[p]) /\ (p \in tombstone => ~post[p].alive)
        /\ p \notin tombstone /\ ~Pending(p, "deleted") => post[p].alive
    BY DEF Agrees, ResidentCurrent
  <2>2. \A kind : ~Pending(p, kind)
    BY DEF Quiet, Pending
  <2> QED BY <2>1, <2>2 DEF Current
<1> QED BY <1>1, <1>2, <1>3, PTL DEF Spec
==============================================================================
