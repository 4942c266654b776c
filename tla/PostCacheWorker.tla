--------------------------- MODULE PostCacheWorker ---------------------------
(***************************************************************************)
(* The cache worker: the thread behind PostCacheService and the rows of    *)
(* PostCacheStore.  Commands reach it through the event queue of its       *)
(* thread, results go back through the event queue of the main thread;     *)
(* both are first in, first out.                                           *)
(*                                                                         *)
(* Abstractions.  One account and one channel.  A body is known by the     *)
(* server revision it is a snapshot of (at), the revision of the last edit *)
(* it shows (text) and whether it carries the one reaction that is         *)
(* modelled (liked).  The time since the channel was last opened is        *)
(* "hot", "warm" or "cold": kept in memory and on disk, on disk only,      *)
(* neither.  A row may vanish at any moment: limits, expiry and corrupt    *)
(* payloads.  Watermarks are not pruned: that takes more than 4096 of them *)
(* and an hour.                                                            *)
(***************************************************************************)
EXTENDS Naturals, Sequences

CONSTANTS
    Posts,
    MaxRev,         \* bound: revisions of one post
    Reads           \* what a cache read may ask for: a post, or the tail window

VARIABLES
    interest,       \* channel_usage.last_opened_at against the two horizons
    queue,          \* commands posted to the worker thread
    callbacks,      \* results posted back to the main thread
    disk,           \* the payload of each row of table posts
    fence,          \* invalidationWatermarks[p].observationSequence, 0 if none
    purged          \* history: revision whose invalidation the worker has executed

worker == <<queue, callbacks, disk, fence, purged>>

Revisions == 1 .. MaxRev
Body == [at : Revisions, text : Revisions, liked : BOOLEAN]
None == [at |-> 0, text |-> 0, liked |-> FALSE]

\* A posts object: some posts with their bodies.
PostsObject == UNION {[ids -> Body] : ids \in SUBSET Posts}
Empty == [p \in {} |-> None]

Commands ==
    [op : {"store"}, posts : PostsObject, seq : Nat]
        \cup [op : {"remove"}, id : Posts, seq : Nat, at : Revisions]
        \cup [op : {"load"}, what : Reads, seq : Nat, load : Nat]

Results == [what : Reads, posts : PostsObject, seq : Nat, load : Nat]

WorkerTypeOK ==
    /\ interest \in {"hot", "warm", "cold"}
    /\ queue \in Seq(Commands)
    /\ callbacks \in Seq(Results)
    /\ disk \in [Posts -> Body \cup {None}]
    /\ fence \in [Posts -> Nat]
    /\ purged \in [Posts -> 0 .. MaxRev]

StorePosts(posts, seq) == [op |-> "store", posts |-> posts, seq |-> seq]
RemovePost(p, seq, at) == [op |-> "remove", id |-> p, seq |-> seq, at |-> at]
LoadPosts(what, seq, load) == [op |-> "load", what |-> what, seq |-> seq, load |-> load]

-------------------------------------------------------------------------------
(* The worker thread: each step executes the oldest command                   *)

AdmissibleAlways(p, seq) == TRUE                                        \* mutant
AdmissibleEarlier(p, seq) == fence[p] =< seq + 1                        \* mutant
\* A store dispatched before an executed invalidation of the post is stale.
Admissible(p, seq) == fence[p] < seq

storePosts(c) ==
    /\ disk' = [p \in Posts |->
                  IF /\ p \in DOMAIN c.posts
                     /\ Admissible(p, c.seq)
                     /\ interest # "cold"
                  THEN c.posts[p] ELSE disk[p]]
    /\ UNCHANGED <<callbacks, fence, purged>>

removePost(c) ==
    /\ fence' = [fence EXCEPT ![c.id] = IF @ < c.seq THEN c.seq ELSE @]
    /\ disk' = [disk EXCEPT ![c.id] = None]
    /\ purged' = [purged EXCEPT ![c.id] = c.at]
    /\ UNCHANGED callbacks

Rows(ids) == [p \in {q \in ids : disk[q] # None} |-> disk[p]]

\* A tail window is read back as far as its rows are still complete: some of them.
loadPosts(c) ==
    /\ \E ids \in SUBSET Posts :
         /\ c.what \in Posts => ids = {c.what}
         /\ callbacks' = Append(callbacks, [what |-> c.what, posts |-> Rows(ids),
                                            seq |-> c.seq, load |-> c.load])
    /\ UNCHANGED <<disk, fence, purged>>

execute ==
    /\ queue # <<>>
    /\ queue' = Tail(queue)
    /\ LET c == Head(queue) IN
         \/ c.op = "store" /\ storePosts(c)
         \/ c.op = "remove" /\ removePost(c)
         \/ c.op = "load" /\ loadPosts(c)

\* Limits, maintenance or a corrupt payload take a row.
dropRow(p) ==
    /\ disk[p] # None
    /\ disk' = [disk EXCEPT ![p] = None]
    /\ UNCHANGED <<queue, callbacks, fence, purged>>

=============================================================================
