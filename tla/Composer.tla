------------------------------ MODULE Composer ------------------------------
(* The composer of a chat: OutgoingPostCreator with PostCreateService and     *)
(* Backend::uploadFile. A click on Send freezes what was composed as one      *)
(* outgoing operation, which uploads missing files again, asks the server to  *)
(* create or edit a post or to run the poll command, and stays until an       *)
(* answer or an event says that it is done; after a failure the same          *)
(* operation can be sent again.                                               *)
(*                                                                            *)
(* Operations are numbered, and so are the files attached; a file that was    *)
(* uploaded goes by its number. The user edits one post, and quotes nothing.  *)
EXTENDS Naturals, Sequences, FiniteSets

CONSTANTS
    MaxSends,   \* operations started
    MaxItems,   \* files attached
    MaxFaults,  \* requests that fail and events that are lost
    MaxTouches  \* changes to the edited post that are not edits of its text

ASSUME ComposerAssumption == {MaxSends, MaxItems, MaxFaults, MaxTouches} \subseteq Nat

VARIABLES
    text,       \* what the editor holds: "empty", "words" or a "poll" command
    editing,    \* postToEdit is set
    list,       \* attachmentList, the items in order
    uploads,    \* attachmentUploads of the items: "none", "uploading", "ready" or "failed"
    outgoing,   \* outgoingPostData, or None
    failed,     \* sendFailed
    armed,      \* the poll whose bot post is expected, 0 if none
    requests,   \* HTTP requests without an answer; "done" when the server has acted on it
    posts,      \* posts the server has made, each with an id of its own
    applied,    \* edits the server has made
    events,     \* WebSocket events on their way
    resident,   \* the new posts the channel knows, and the edit its post shows
    items,      \* files attached so far
    log,        \* history: what each operation was composed of
    finished,   \* history: operations the composer took for done
    returned,   \* history: operations given back as a draft
    crossed,    \* history: operations finished or changed by what was about another
    unheard,    \* history: polls the bot refused, or whose event was lost
    faults, touches     \* counted against the bounds

draft == <<text, editing, list, uploads, items>>
server == <<posts, applied, events>>
history == <<log, finished, returned, crossed, unheard>>
vars == <<draft, outgoing, failed, armed, requests, server, resident, history, faults, touches>>

Items == 1..MaxItems
\* "press" is history: the press of Send, the first or a retry, that it is sent for.
Operation(n, kind) == [n |-> n, kind |-> kind, pid |-> 0, files |-> <<>>, ids |-> <<>>, pending |-> 0,
                       press |-> 1]
None == Operation(0, "none")
Request(kind, n) == [kind |-> kind, n |-> n, pid |-> 0, files |-> <<>>, item |-> 0, slot |-> 0,
                     copy |-> 0, press |-> 0, done |-> FALSE]
Announced(kind, n, pid) == [kind |-> kind, n |-> n, pid |-> pid]
NoUploads == [i \in Items |-> "none"]

Init ==
    /\ text = "empty" /\ editing = FALSE
    /\ list = <<>> /\ uploads = NoUploads /\ items = 0
    /\ outgoing = None /\ failed = FALSE /\ armed = 0
    /\ requests = {}
    /\ posts = {} /\ applied = {} /\ events = <<>>
    /\ resident = [posts |-> {}, edit |-> 0]
    /\ log = <<>> /\ finished = {} /\ returned = {} /\ crossed = {} /\ unheard = {}
    /\ faults = 0 /\ touches = 0

----------------------------------------------------------------------------
(* The draft.                                                                 *)

isCreatingPost == outgoing # None \/ text # "empty" \/ list # <<>>

untouched == UNCHANGED <<outgoing, failed, armed, server, resident, history, faults, touches>>

(* The editor is read-only while an operation is outgoing.                    *)
Type ==
    /\ outgoing = None
    /\ text' \in {"empty", "words", "poll"} \ {text}
    /\ UNCHANGED <<editing, list, uploads, items, requests>> /\ untouched

postEditInitiated ==
    /\ ~isCreatingPost
    /\ editing' = TRUE /\ text' = "words"
    /\ UNCHANGED <<list, uploads, items, requests>> /\ untouched

escapePressed ==
    /\ outgoing = None
    /\ text' = "empty" /\ editing' = FALSE
    /\ UNCHANGED <<list, uploads, items, requests>> /\ untouched

(* The upload starts at once.                                                 *)
fileAdded ==
    /\ outgoing = None /\ items < MaxItems
    /\ items' = items + 1
    /\ list' = Append(list, items')
    /\ uploads' = [uploads EXCEPT ![items'] = "uploading"]
    /\ requests' = requests \cup {[Request("upload", 0) EXCEPT !.item = items']}
    /\ UNCHANGED <<text, editing>> /\ untouched

(* The list is not disabled while a poll is sent.                             *)
fileRemoved ==
    /\ outgoing.kind \in {"none", "poll"}
    /\ \E k \in DOMAIN list :
        /\ list' = SubSeq(list, 1, k - 1) \o SubSeq(list, k + 1, Len(list))
        /\ uploads' = [uploads EXCEPT ![list[k]] = "none"]
    /\ UNCHANGED <<text, editing, items, requests>> /\ untouched

----------------------------------------------------------------------------
(* Sending.                                                                   *)

Missing(operation) == {k \in DOMAIN operation.files : operation.ids[k] = 0}

(* An operation may have several requests of a kind under way: "copy" tells   *)
(* those apart that were sent at different times.                             *)
Sent(batch) ==
    LET copy == CHOOSE c \in 0..Cardinality(requests) : \A r \in requests : r.n = 0 \/ r.copy # c
    IN requests \cup {[r EXCEPT !.copy = copy] : r \in batch}

sendPost(operation) ==
    {IF operation.kind = "poll"
     THEN [Request("configuration", operation.n) EXCEPT !.press = operation.press]
     ELSE [Request(operation.kind, operation.n) EXCEPT !.pid = operation.pid, !.files = operation.ids]}

(* Files that have no id are uploaded first, all at once.                     *)
prepareAndSendPost(operation) ==
    /\ outgoing' = [operation EXCEPT !.pending = Cardinality(Missing(operation))]
    /\ requests' = Sent(IF Missing(operation) = {} THEN sendPost(operation)
                        ELSE {[Request("again", operation.n) EXCEPT !.slot = k, !.item = operation.files[k]] :
                                k \in Missing(operation)})

Start(operation) ==
    /\ Len(log) < MaxSends
    /\ log' = Append(log, operation)
    /\ failed' = FALSE
    /\ prepareAndSendPost(operation)
    /\ UNCHANGED <<list, uploads, items, server, resident, finished, returned, crossed, unheard, faults, touches>>

NoUploadInProgress == \A i \in Items : uploads[i] # "uploading"

sendPostButtonAction ==
    /\ outgoing = None
    /\ text = "words" \/ (text = "empty" /\ list # <<>>)
    /\ NoUploadInProgress
    /\ Start([Operation(Len(log) + 1, IF editing THEN "edit" ELSE "post") EXCEPT
                !.pid = Len(log) + 1,
                !.files = list,
                !.ids = [k \in DOMAIN list |-> IF uploads[list[k]] = "ready" THEN list[k] ELSE 0]])
    /\ editing' = FALSE
    /\ UNCHANGED <<text, armed>>

(* The poll dialog is modal; accepted, it arms the acknowledgement. It opens  *)
(* for a typed command or from the menu, and takes no files.                  *)
pollAccepted ==
    /\ outgoing = None /\ ~editing
    /\ \/ text = "poll" /\ NoUploadInProgress
       \/ text = "empty" /\ list = <<>>
    /\ Start(Operation(Len(log) + 1, "poll"))
    /\ armed' = Len(log) + 1
    /\ UNCHANGED <<text, editing>>

(* mutant: a retry is a new request for the server.                           *)
AgainWithNewId(operation) == [operation EXCEPT !.pid = @ + MaxSends]

(* The request data is kept, the pending_post_id included.                    *)
Again(operation) == operation

retry ==
    /\ outgoing # None /\ failed
    /\ failed' = FALSE
    /\ prepareAndSendPost([Again(outgoing) EXCEPT !.press = @ + 1])
    /\ UNCHANGED <<draft, armed, server, resident, history, faults, touches>>

----------------------------------------------------------------------------
(* What ends an operation. Callbacks of requests do not say which operation   *)
(* they belong to: they act on the one that is outgoing. "about" is the       *)
(* operation that the answer or event is really about.                        *)

Crossing(about) == crossed' = IF outgoing.n \in {0, about} THEN crossed ELSE crossed \cup {outgoing.n}

finishSend(about) ==
    /\ outgoing' = None
    /\ IF outgoing = None
       THEN UNCHANGED <<text, list, uploads, failed, finished, crossed>>
       ELSE /\ text' = "empty" /\ list' = <<>> /\ uploads' = NoUploads
            /\ failed' = FALSE
            /\ finished' = finished \cup {outgoing.n}
            /\ Crossing(about)
    /\ UNCHANGED <<editing, items>>

nothingFinished == UNCHANGED <<draft, outgoing, failed, finished, crossed>>

failSend ==
    /\ failed' = (failed \/ outgoing # None)
    /\ UNCHANGED <<draft, outgoing, finished, crossed>>

(* A post is announced in the channel; "poll" is the poll in it, or 0. An     *)
(* armed poll is forgotten by any post that finds nothing outgoing.           *)
onNewPost(n, poll) ==
    /\ IF \/ poll = 0 /\ outgoing.kind = "post" /\ outgoing.pid = n
          \/ poll # 0 /\ armed = poll
       THEN finishSend(n + poll)
       ELSE nothingFinished
    /\ armed' = IF outgoing' = None THEN 0 ELSE armed

(* The post that can be edited changed: its text, its files, or anything else.*)
onPostEdited(about) == IF outgoing.kind = "edit" THEN finishSend(about) ELSE nothingFinished

----------------------------------------------------------------------------
(* The server. It recognises a post by its pending_post_id; a command carries *)
(* nothing to be recognised by, and each one that is run makes a poll, unless *)
(* the bot refuses it although the command was accepted.                      *)

Executed(r) == requests' = (requests \ {r}) \cup {[r EXCEPT !.done = TRUE]}

NewPost(r) == [id |-> Cardinality(posts) + 1, n |-> r.n, pid |-> r.pid, files |-> r.files, press |-> r.press]

Execute ==
    \E r \in requests :
        /\ r.kind \in {"post", "edit", "command"} /\ ~r.done
        /\ Executed(r)
        /\ \/ /\ r.kind = "post"
              /\ IF \E p \in posts : p.pid = r.pid THEN UNCHANGED <<posts, events>>
                 ELSE /\ posts' = posts \cup {NewPost(r)}
                      /\ events' = Append(events, Announced("posted", r.n, r.pid))
              /\ UNCHANGED <<applied, unheard>>
           \/ /\ r.kind = "edit"
              /\ applied' = applied \cup {r.n}
              /\ events' = Append(events, Announced("edited", r.n, 0))
              /\ UNCHANGED <<posts, unheard>>
           \/ /\ r.kind = "command"
              /\ posts' = posts \cup {NewPost(r)}
              /\ events' = Append(events, Announced("polled", r.n, 0))
              /\ UNCHANGED <<applied, unheard>>
           \/ /\ r.kind = "command"
              /\ unheard' = unheard \cup {r.n}
              /\ UNCHANGED <<posts, applied, events>>
        /\ UNCHANGED <<draft, outgoing, failed, armed, resident, log, finished, returned, crossed, faults, touches>>

----------------------------------------------------------------------------
(* Answers.                                                                   *)

Forget(r) == requests' = requests \ {r}

uploadAnswered(r, ok) ==
    /\ uploads' = [uploads EXCEPT ![r.item] =
                     IF @ # "uploading" THEN @ ELSE IF ok THEN "ready" ELSE "failed"]
    /\ Forget(r)
    /\ UNCHANGED <<text, editing, list, items, outgoing, failed, armed, server, resident, history, touches>>

(* mutant: the id goes to the first file that has none.                       *)
FilledFirst(operation, r) ==
    LET k == CHOOSE k \in Missing(operation) : \A j \in Missing(operation) : k <= j
    IN IF Missing(operation) = {} THEN operation ELSE [operation EXCEPT !.ids[k] = r.item]

Filled(operation, r) == [operation EXCEPT !.ids[r.slot] = r.item]

(* A file uploaded again: the last answer sends the post, or gives the        *)
(* operation back as a draft when a file is still missing.                    *)
againAnswered(r, ok) ==
    LET filled == IF ok THEN Filled(outgoing, r) ELSE outgoing
        operation == [filled EXCEPT !.pending = IF @ > 0 THEN @ - 1 ELSE 0]
    IN /\ UNCHANGED <<text, list, uploads, items, armed, server, resident, log, finished, unheard, touches>>
       /\ IF r.slot \notin DOMAIN outgoing.files
          THEN Forget(r) /\ UNCHANGED <<editing, outgoing, failed, returned, crossed>>
          ELSE /\ Crossing(r.n)
               /\ \/ /\ operation.pending > 0
                     /\ outgoing' = operation
                     /\ Forget(r)
                     /\ UNCHANGED <<editing, failed, returned>>
                  \/ /\ operation.pending = 0 /\ Missing(operation) # {}
                     /\ outgoing' = None /\ failed' = FALSE
                     /\ editing' = (operation.kind = "edit")
                     /\ returned' = returned \cup {operation.n}
                     /\ Forget(r)
                  \/ /\ operation.pending = 0 /\ Missing(operation) = {}
                     /\ outgoing' = operation
                     /\ requests' = Sent(sendPost(operation)) \ {r}
                     /\ UNCHANGED <<editing, failed, returned>>

(* The post of the answer is announced unless an event has announced it, and  *)
(* then the callback finishes what is outgoing.                               *)
createAnswered(r) ==
    /\ Forget(r)
    /\ resident' = [resident EXCEPT !.posts = @ \cup {r.pid}]
    /\ finishSend(r.n)
    /\ armed' = IF r.pid \notin resident.posts /\ (outgoing = None \/ outgoing.pid = r.pid) THEN 0 ELSE armed
    /\ UNCHANGED <<server, log, returned, unheard, touches>>

editAnswered(r) ==
    /\ Forget(r)
    /\ resident' = [resident EXCEPT !.edit = r.n]
    /\ finishSend(r.n)
    /\ UNCHANGED <<armed, server, log, returned, unheard, touches>>

(* The trigger word of the bot is known: the command is sent.                 *)
configurationAnswered(r) ==
    /\ requests' = Sent({[Request("command", r.n) EXCEPT !.press = r.press]}) \ {r}
    /\ UNCHANGED <<draft, outgoing, failed, armed, server, resident, history, touches>>

(* mutant: a command that was accepted counts as a poll that was made.        *)
commandAnsweredFinishes(r) ==
    /\ Forget(r)
    /\ finishSend(r.n)
    /\ UNCHANGED <<armed, server, resident, log, returned, unheard, touches>>

commandAnswered(r) ==
    /\ Forget(r)
    /\ UNCHANGED <<draft, outgoing, failed, armed, server, resident, history, touches>>

(* mutant: the failure of the configuration request is not reported.          *)
requestFailedQuietly(r) ==
    /\ Forget(r)
    /\ IF r.kind = "configuration" THEN nothingFinished ELSE failSend
    /\ UNCHANGED <<armed, server, resident, log, returned, unheard, touches>>

requestFailed(r) ==
    /\ Forget(r)
    /\ failSend
    /\ UNCHANGED <<armed, server, resident, log, returned, unheard, touches>>

Answer ==
    \E r \in requests :
        \/ /\ \/ r.kind = "upload" /\ uploadAnswered(r, TRUE)
              \/ r.kind = "again" /\ againAnswered(r, TRUE)
              \/ r.kind = "configuration" /\ configurationAnswered(r)
              \/ r.kind = "post" /\ r.done /\ createAnswered(r)
              \/ r.kind = "edit" /\ r.done /\ editAnswered(r)
              \/ r.kind = "command" /\ r.done /\ commandAnswered(r)
           /\ UNCHANGED faults
        \/ /\ faults < MaxFaults
           /\ \/ r.kind = "upload" /\ uploadAnswered(r, FALSE)
              \/ r.kind = "again" /\ againAnswered(r, FALSE)
              \/ r.kind \in {"configuration", "post", "edit", "command"} /\ requestFailed(r)
           /\ faults' = faults + 1

----------------------------------------------------------------------------
(* Events.                                                                    *)

Event ==
    /\ events # <<>>
    /\ events' = Tail(events)
    /\ LET e == Head(events)
       IN \/ /\ e.kind = "posted"
             /\ resident' = [resident EXCEPT !.posts = @ \cup {e.pid}]
             /\ onNewPost(e.pid, 0)
          \/ /\ e.kind = "polled"
             /\ onNewPost(0, e.n)
             /\ UNCHANGED resident
          \/ /\ e.kind = "edited"
             /\ resident' = [resident EXCEPT !.edit = e.n]
             /\ IF resident.edit # e.n THEN onPostEdited(e.n) ELSE nothingFinished
             /\ UNCHANGED armed
    /\ UNCHANGED <<requests, posts, applied, log, returned, unheard, faults, touches>>

LoseEvent ==
    /\ events # <<>> /\ faults < MaxFaults
    /\ faults' = faults + 1
    /\ events' = Tail(events)
    /\ unheard' = IF Head(events).kind = "polled" THEN unheard \cup {Head(events).n} ELSE unheard
    /\ UNCHANGED <<draft, outgoing, failed, armed, requests, posts, applied, resident,
                   log, finished, returned, crossed, touches>>

(* A reply to the post is deleted, or a page brings another change of it.     *)
Touch ==
    /\ touches < MaxTouches
    /\ touches' = touches + 1
    /\ outgoing.kind = "edit"
    /\ onPostEdited(0)
    /\ UNCHANGED <<armed, requests, server, resident, log, returned, unheard, faults>>

Next ==
    \/ Type \/ postEditInitiated \/ escapePressed \/ fileAdded \/ fileRemoved
    \/ sendPostButtonAction \/ pollAccepted \/ retry
    \/ Execute \/ Answer \/ Event \/ LoseEvent \/ Touch

Spec == Init /\ [][Next]_vars

----------------------------------------------------------------------------
TypeOK ==
    /\ text \in {"empty", "words", "poll"} /\ {editing, failed} \subseteq BOOLEAN
    /\ list \in Seq(1..items) /\ uploads \in [Items -> {"none", "uploading", "ready", "failed"}]
    /\ failed => outgoing # None
    /\ outgoing # None => /\ outgoing.n = Len(log) /\ ~editing
                          /\ outgoing.ids \in [DOMAIN outgoing.files -> 0..items]
    /\ finished \cup returned \cup crossed \cup applied \subseteq DOMAIN log
    /\ finished \cap returned = {} /\ armed \in 0..Len(log)

Delivered(n) == IF log[n].kind = "edit" THEN n \in applied ELSE \E p \in posts : p.n = n

(* The composer forgets what the user wrote only when the server has it,      *)
(* except when it took the answer to another operation, or another change of  *)
(* the edited post, for its own (finishSend, failSend).                       *)
KeptUntilSent == \A n \in finished \ crossed : Delivered(n)

(* One message makes one post, however often it was sent again, with the      *)
(* files that were attached, in their order, and what was given back as a     *)
(* draft was not posted (pendingPostId, attachmentIds). A poll has no such    *)
(* id: sent again, it may be made again, but each press of Send makes one at  *)
(* most (PostCreateService::submitPoll).                                      *)
PostedOnce ==
    \A p \in posts :
        /\ \A q \in posts : p.n = q.n => p = q \/ (log[p.n].kind = "poll" /\ p.press # q.press)
        /\ p.n \notin crossed => p.files = log[p.n].files /\ p.n \notin returned

(* A composer that is read-only and offers no retry waits for something that  *)
(* is under way, and so does a Send button that is disabled by an upload. A   *)
(* poll that the bot refused, or whose event was lost, is the exception: the  *)
(* answer to the command is not looked at.                                    *)
WaitsForSomething ==
    /\ outgoing # None /\ ~failed =>
        \/ \E r \in requests : r.n = outgoing.n
        \/ \E k \in DOMAIN events : events[k].kind = "polled" /\ events[k].n = outgoing.n
        \/ outgoing.n \in unheard
    /\ \A i \in Items : uploads[i] = "uploading" =>
        \E r \in requests : r.kind = "upload" /\ r.item = i

(* Nothing the user sent is lost: what the composer has forgotten is on the   *)
(* server, or a request for it is under way (OutgoingPostCreator.h:88).       *)
NothingLost == \A n \in finished : Delivered(n) \/ \E r \in requests : r.n = n

=============================================================================
