---------------------------- MODULE Composer_proofs ----------------------------
(***************************************************************************)
(* Composer: type correctness, that a message makes one post with the      *)
(* files it was composed of, that the composer forgets only what the       *)
(* server has, and that it always waits for something, for every value of  *)
(* the bounds.                                                             *)
(***************************************************************************)
EXTENDS Composer, FiniteSetTheorems, SequenceTheorems, TLAPS

-------------------------------------------------------------------------------
(* The inductive invariants.                                                   *)

Files == Seq(0 .. MaxItems)
Operations == [n : Nat, kind : {"none", "post", "edit", "poll"}, pid : Nat, files : Files,
               ids : Files, pending : Nat, press : Nat]
Kinds == {"upload", "again", "configuration", "post", "edit", "command"}
Requests == [kind : Kinds, n : Nat, pid : Nat, files : Files, item : 0 .. MaxItems, slot : Nat,
             copy : Nat, press : Nat, done : BOOLEAN]
Events == [kind : {"posted", "edited", "polled"}, n : Nat, pid : Nat]

\* What the variables hold.
Shape ==
    /\ TypeOK
    /\ items \in 0 .. MaxItems /\ IsFiniteSet(requests)
    /\ outgoing \in Operations /\ log \in Seq(Operations) /\ requests \in SUBSET Requests
    /\ events \in Seq(Events)
    /\ unheard \subseteq Nat

\* Every operation carries its number, its files and the id of its post from its start on.
Started ==
    /\ \A n \in DOMAIN log :
        /\ log[n].n = n /\ log[n].kind # "none"
        /\ log[n].pid = IF log[n].kind = "poll" THEN 0 ELSE n
        /\ log[n].kind = "poll" => log[n].files = <<>>
        /\ \A k \in DOMAIN log[n].files : log[n].files[k] \in 1 .. items
    /\ \A n \in returned : log[n].files # <<>>
    /\ outgoing.n = 0 => outgoing = None
    /\ outgoing # None =>
        LET o == log[outgoing.n] IN
        /\ outgoing.n \in DOMAIN log /\ outgoing.n \notin finished \cup returned
        /\ outgoing.kind = o.kind /\ outgoing.pid = o.pid /\ outgoing.files = o.files
        /\ DOMAIN outgoing.ids = DOMAIN outgoing.files

\* So does every request for it.
Owned ==
    \A r \in requests :
        /\ r.kind = "upload" => r.n = 0
        /\ r.kind \in {"upload", "again"} => r.item # 0
        /\ r.kind # "upload" => r.n \in DOMAIN log
        /\ r.kind = "again" => r.slot \in DOMAIN log[r.n].files
                               /\ r.item = log[r.n].files[r.slot]
        /\ r.kind = "post" => log[r.n].kind = "post" /\ r.pid = r.n
        /\ r.kind = "edit" => log[r.n].kind = "edit"
        /\ r.kind \in {"configuration", "command"} => log[r.n].kind = "poll"
        /\ r.kind = "command" => r.pid = 0 /\ r.files = <<>>

\* What the server has made is announced, or answered, after it was made, and a message once.
Made ==
    /\ \A p \in posts :
        /\ p.n \in DOMAIN log /\ log[p.n].kind \in {"post", "poll"}
        /\ log[p.n].kind = "post" => p.pid = p.n /\ \A q \in posts : p.n = q.n => p = q
        /\ log[p.n].kind = "poll" => p.pid = 0 /\ p.files = <<>>
    /\ \A n \in applied : log[n].kind = "edit"
    /\ \A k \in DOMAIN events :
        /\ events[k].kind = "posted" => events[k].pid = events[k].n
        /\ events[k].kind = "polled" => log[events[k].n].kind = "poll"
        /\ IF events[k].kind = "edited" THEN events[k].n \in applied
           ELSE \E p \in posts : p.n = events[k].n
    /\ \A r \in requests : r.done =>
        /\ r.kind = "post" => \E p \in posts : p.n = r.n
        /\ r.kind = "edit" => r.n \in applied

\* A post carries the files of its operation, and is asked for when none is missing.
Attached ==
    /\ outgoing # None /\ outgoing.n \notin crossed =>
        \A k \in DOMAIN outgoing.ids : outgoing.ids[k] \in {0, outgoing.files[k]}
    /\ \A r \in requests : r.kind = "post" =>
        /\ r.n \notin crossed => r.files = log[r.n].files
        /\ r.n = outgoing.n => Missing(outgoing) = {}
        /\ r.n \notin returned
    /\ \A p \in posts :
        /\ p.n \notin crossed => p.files = log[p.n].files
        /\ p.n = outgoing.n => Missing(outgoing) = {}
        /\ p.n \notin returned

\* An operation that waits for files has as many requests for them at least; a poll is armed
\* until it ends; a command the server has taken was announced, or its bot was silent.
Waits ==
    /\ outgoing.pending <= Cardinality({r \in requests : r.kind = "again" /\ r.n = outgoing.n})
    /\ outgoing.kind = "poll" => armed = outgoing.n
    /\ \A r \in requests : r.kind = "command" /\ r.done /\ r.n = outgoing.n =>
        \/ \E k \in DOMAIN events : events[k].kind = "polled" /\ events[k].n = r.n
        \/ r.n \in unheard
    /\ WaitsForSomething

-------------------------------------------------------------------------------
(* The operators the model is built from.                                      *)

LEMMA Bounds == MaxSends \in Nat /\ MaxItems \in Nat /\ MaxFaults \in Nat /\ MaxTouches \in Nat
BY ComposerAssumption

\* A request, and an operation, that has just been made.
LEMMA FreshOperation ==
    ASSUME NEW n \in Nat, NEW kind \in {"none", "post", "edit", "poll"}
    PROVE  \E o \in Operations :
               /\ o = Operation(n, kind) /\ o.n = n /\ o.kind = kind /\ o.pid = 0
               /\ o.pending = 0 /\ o.files = <<>> /\ o.ids = <<>>
<1>1. <<>> \in Files
  BY DEF Files
<1>2. PICK o : o = Operation(n, kind)
  OBVIOUS
<1>3. o = [n |-> n, kind |-> kind, pid |-> 0, files |-> <<>>, ids |-> <<>>, pending |-> 0,
           press |-> 1]
  BY <1>2 DEF Operation
<1>4. o \in Operations
  BY <1>1, <1>3 DEF Operations
<1>5. /\ o.n = n /\ o.kind = kind /\ o.pid = 0
      /\ o.pending = 0 /\ o.files = <<>> /\ o.ids = <<>>
  BY <1>3
<1> QED BY <1>2, <1>4, <1>5

LEMMA FreshRequest ==
    \A n \in Nat, kind \in Kinds :
        \E r \in Requests : /\ r = Request(kind, n) /\ r.n = n /\ r.kind = kind /\ r.done = FALSE
                            /\ r.pid = 0 /\ r.files = <<>>
<1> SUFFICES ASSUME NEW n \in Nat, NEW kind \in Kinds
             PROVE  \E r \in Requests :
                        /\ r = Request(kind, n) /\ r.n = n /\ r.kind = kind /\ r.done = FALSE
                        /\ r.pid = 0 /\ r.files = <<>>
  OBVIOUS
<1>1. <<>> \in Files
  BY DEF Files
<1>2. PICK r : r = Request(kind, n)
  OBVIOUS
<1>3. r = [kind |-> kind, n |-> n, pid |-> 0, files |-> <<>>, item |-> 0, slot |-> 0,
           copy |-> 0, press |-> 0, done |-> FALSE]
  BY <1>2 DEF Request
<1>4. 0 \in 0 .. MaxItems
  BY Bounds
<1>5. r \in Requests
  BY <1>1, <1>3, <1>4 DEF Requests
<1>6. r.n = n /\ r.kind = kind /\ r.done = FALSE /\ r.pid = 0 /\ r.files = <<>>
  BY <1>3
<1> QED BY <1>2, <1>5, <1>6

LEMMA NoneFields ==
    /\ None \in Operations /\ None.n = 0 /\ None.kind = "none" /\ None.files = <<>>
    /\ None.ids = <<>> /\ None.pending = 0
BY FreshOperation DEF None, Operation

\* A copy number that no request has is found: there are fewer requests than numbers.
LEMMA FreshCopy ==
    ASSUME IsFiniteSet(requests)
    PROVE  \E c \in 0 .. Cardinality(requests) : \A r \in requests : r.n = 0 \/ r.copy # c
<1> DEFINE N == Cardinality(requests)
           C == {r.copy : r \in requests}
           f == [r \in requests |-> r.copy]
<1>1. N \in Nat
  BY FS_CardinalityType
<1>2. f \in Surjection(requests, C)
  BY DEF Surjection
<1>3. IsFiniteSet(C) /\ Cardinality(C) <= N
  BY <1>2, FS_Surjection
<1>4. IsFiniteSet(0 .. N) /\ Cardinality(0 .. N) = N + 1
  BY <1>1, FS_Interval
<1> HIDE DEF f, N
<1>5. ~(0 .. N \subseteq C)
  <2> SUFFICES ASSUME 0 .. N \subseteq C PROVE FALSE
    OBVIOUS
  <2> HIDE DEF C
  <2>1. Cardinality(0 .. N) <= Cardinality(C)
    BY <1>3, FS_Subset
  <2>2. Cardinality(C) \in Nat
    BY <1>3, FS_CardinalityType
  <2> QED BY <1>1, <1>3, <1>4, <2>1, <2>2
<1>6. PICK c \in 0 .. N : c \notin C
  BY <1>5
<1>7. \A r \in requests : r.copy # c
  BY <1>6
<1> QED BY <1>6, <1>7 DEF N

\* Requests that are sent join those under way, each with a copy number of its batch.
LEMMA SentEffect ==
    ASSUME Shape, NEW batch \in SUBSET Requests
    PROVE  \E c \in Nat : Sent(batch) = requests \cup {[r EXCEPT !.copy = c] : r \in batch}
<1> DEFINE c == CHOOSE c \in 0 .. Cardinality(requests) :
                   \A r \in requests : r.n = 0 \/ r.copy # c
<1>1. IsFiniteSet(requests) /\ Cardinality(requests) \in Nat
  BY FS_CardinalityType DEF Shape
<1>2. c \in 0 .. Cardinality(requests)
  BY <1>1, FreshCopy
<1>3. c \in Nat
  BY <1>1, <1>2
<1>4. Sent(batch) = requests \cup {[r EXCEPT !.copy = c] : r \in batch}
  BY DEF Sent
<1> HIDE DEF c
<1> QED BY <1>3, <1>4

\* A request of the batch and what it is sent as agree but for the copy.
LEMMA CopyFields ==
    ASSUME NEW r \in Requests, NEW c \in Nat
    PROVE  LET s == [r EXCEPT !.copy = c] IN
           /\ s \in Requests /\ s.kind = r.kind /\ s.n = r.n /\ s.pid = r.pid
           /\ s.files = r.files /\ s.item = r.item /\ s.slot = r.slot /\ s.done = r.done
           /\ s.press = r.press
BY DEF Requests

\* One request sent.
LEMMA SentOne ==
    ASSUME Shape, NEW r \in Requests
    PROVE  \E s \in Requests :
               /\ Sent({r}) = requests \cup {s}
               /\ s.kind = r.kind /\ s.n = r.n /\ s.pid = r.pid /\ s.files = r.files
               /\ s.press = r.press /\ s.done = r.done
<1>1. PICK c \in Nat : Sent({r}) = requests \cup {[q EXCEPT !.copy = c] : q \in {r}}
  BY SentEffect
<1> DEFINE s == [r EXCEPT !.copy = c]
<1>2. Sent({r}) = requests \cup {s}
  BY <1>1
<1> HIDE DEF s
<1> QED BY <1>2, CopyFields DEF s

\* Files that are missing: finitely many.
LEMMA MissingFinite ==
    ASSUME NEW o \in Operations
    PROVE  /\ IsFiniteSet(Missing(o)) /\ Cardinality(Missing(o)) \in Nat
           /\ Missing(o) \subseteq DOMAIN o.files
           /\ Cardinality(Missing(o)) = 0 <=> Missing(o) = {}
<1>1. o.files \in Seq(0 .. MaxItems)
  BY DEF Operations, Files
<1>2. DOMAIN o.files = 1 .. Len(o.files) /\ Len(o.files) \in Nat
  BY <1>1
<1>3. IsFiniteSet(DOMAIN o.files)
  BY <1>2, FS_Interval
<1>4. Missing(o) \subseteq DOMAIN o.files
  BY DEF Missing
<1>5. IsFiniteSet(Missing(o))
  BY <1>3, <1>4, FS_Subset
<1> QED BY <1>4, <1>5, FS_CardinalityType, FS_EmptySet

\* A request that an operation makes when it is sent.
RequestOf(r, o) ==
    /\ r \in Requests /\ r.n = o.n /\ ~r.done
    /\ \/ /\ r.kind = "again" /\ r.slot \in Missing(o) /\ r.item = o.files[r.slot]
       \/ /\ r.kind = "configuration" /\ o.kind = "poll" /\ Missing(o) = {} /\ r.press = o.press
       \/ /\ r.kind = o.kind /\ o.kind # "poll" /\ Missing(o) = {}
          /\ r.pid = o.pid /\ r.files = o.ids

\* The post of an operation, its edit or the configuration of its poll.
LEMMA PostRequest ==
    ASSUME Shape, NEW o \in Operations, o.kind # "none", Missing(o) = {}
    PROVE  \E s : Sent(sendPost(o)) = requests \cup {s} /\ RequestOf(s, o) /\ s.kind # "again"
<1> DEFINE r == IF o.kind = "poll" THEN [Request("configuration", o.n) EXCEPT !.press = o.press]
                ELSE [Request(o.kind, o.n) EXCEPT !.pid = o.pid, !.files = o.ids]
<1>1. o.n \in Nat /\ o.kind \in {"post", "edit", "poll"} /\ o.pid \in Nat /\ o.ids \in Files
      /\ o.press \in Nat
  BY DEF Operations
<1>2. /\ r \in Requests /\ r.n = o.n /\ ~r.done
      /\ IF o.kind = "poll" THEN r.kind = "configuration" /\ r.press = o.press
         ELSE r.kind = o.kind /\ r.pid = o.pid /\ r.files = o.ids
  <2>1. CASE o.kind = "poll"
    <3>1. "configuration" \in Kinds /\ o.n \in Nat
      BY <1>1 DEF Kinds
    <3>2. PICK q \in Requests : q = Request("configuration", o.n) /\ q.n = o.n
                                /\ q.kind = "configuration" /\ q.done = FALSE
      BY <3>1, FreshRequest
    <3>3. r = [q EXCEPT !.press = o.press] /\ q.n = o.n /\ q.kind = "configuration" /\ q.done = FALSE
      BY <2>1, <3>2
    <3> HIDE DEF r
    <3> QED BY <1>1, <2>1, <3>3 DEF Requests
  <2>2. CASE o.kind # "poll"
    <3>1. o.kind \in Kinds /\ o.n \in Nat
      BY <1>1, <2>2 DEF Kinds
    <3>2. PICK q \in Requests : q = Request(o.kind, o.n) /\ q.n = o.n /\ q.kind = o.kind
                                /\ q.done = FALSE
      BY <3>1, FreshRequest
    <3>3. q.n = o.n /\ q.kind = o.kind /\ q.done = FALSE
      BY <3>2
    <3>4. r = [q EXCEPT !.pid = o.pid, !.files = o.ids]
      BY <2>2, <3>2
    <3> HIDE DEF r
    <3> QED BY <1>1, <2>2, <3>3, <3>4 DEF Requests
  <2> QED BY <2>1, <2>2
<1>3. sendPost(o) = {r}
  BY DEF sendPost
<1> HIDE DEF r
<1>4. PICK s \in Requests :
        /\ Sent({r}) = requests \cup {s}
        /\ s.kind = r.kind /\ s.n = r.n /\ s.pid = r.pid /\ s.files = r.files
        /\ s.press = r.press /\ s.done = r.done
  BY <1>2, SentOne
<1>5. RequestOf(s, o) /\ s.kind # "again"
  BY <1>1, <1>2, <1>4 DEF RequestOf
<1> QED BY <1>3, <1>4, <1>5

\* An operation that is sent asks for what it needs, and for each missing file once at least.
LEMMA PrepareEffect ==
    ASSUME Shape, NEW o \in Operations, o.kind # "none",
           \A k \in DOMAIN o.files : o.files[k] \in 1 .. MaxItems, prepareAndSendPost(o)
    PROVE  \E batch :
             /\ requests' = requests \cup batch /\ batch # {} /\ IsFiniteSet(batch)
             /\ \A r \in batch : RequestOf(r, o) /\ \A q \in batch : r.kind # "again" => r = q
             /\ outgoing'.pending <= Cardinality({r \in batch : r.kind = "again"})
<1>1. /\ IsFiniteSet(Missing(o)) /\ Cardinality(Missing(o)) \in Nat
      /\ Missing(o) \subseteq DOMAIN o.files /\ (Cardinality(Missing(o)) = 0 <=> Missing(o) = {})
  BY MissingFinite
<1>2. outgoing'.pending = Cardinality(Missing(o))
  BY DEF prepareAndSendPost, Operations
<1>3. CASE Missing(o) = {}
  <2>1. requests' = Sent(sendPost(o))
    BY <1>3 DEF prepareAndSendPost
  <2>2. PICK s : Sent(sendPost(o)) = requests \cup {s} /\ RequestOf(s, o) /\ s.kind # "again"
    BY <1>3, PostRequest
  <2>3. {r \in {s} : r.kind = "again"} = {}
    BY <2>2
  <2>4. outgoing'.pending <= Cardinality({r \in {s} : r.kind = "again"})
    BY <1>1, <1>2, <1>3, <2>3, FS_EmptySet
  <2> QED BY <2>1, <2>2, <2>4, FS_Singleton
<1>4. CASE Missing(o) # {}
  <2> DEFINE need(k) == [Request("again", o.n) EXCEPT !.slot = k, !.item = o.files[k]]
             needs == {need(k) : k \in Missing(o)}
  <2>1. \A k \in Missing(o) :
          /\ need(k) \in Requests /\ need(k).kind = "again" /\ need(k).n = o.n
          /\ need(k).slot = k /\ need(k).item = o.files[k] /\ ~need(k).done
    <3> SUFFICES ASSUME NEW k \in Missing(o)
                 PROVE  /\ need(k) \in Requests /\ need(k).kind = "again" /\ need(k).n = o.n
                        /\ need(k).slot = k /\ need(k).item = o.files[k] /\ ~need(k).done
      OBVIOUS
    <3>1. k \in DOMAIN o.files /\ k \in Nat
      BY <1>1 DEF Operations, Files
    <3>2. o.files[k] \in 0 .. MaxItems /\ o.n \in Nat
      BY <3>1, Bounds DEF Operations
    <3>3. PICK q \in Requests : q = Request("again", o.n) /\ q.n = o.n /\ q.kind = "again"
                                /\ q.done = FALSE
      BY <3>2, FreshRequest DEF Kinds
    <3>4. need(k) = [q EXCEPT !.slot = k, !.item = o.files[k]]
      BY <3>3
    <3> HIDE DEF need
    <3> QED BY <3>1, <3>2, <3>3, <3>4 DEF Requests
  <2>2. requests' = Sent(needs)
    BY <1>4 DEF prepareAndSendPost
  <2> HIDE DEF need
  <2>3. needs \in SUBSET Requests
    BY <2>1
  <2> HIDE DEF needs
  <2>4. PICK c \in Nat : Sent(needs) = requests \cup {[r EXCEPT !.copy = c] : r \in needs}
    BY <2>3, SentEffect
  <2> DEFINE batch == {[r EXCEPT !.copy = c] : r \in needs}
             slots == [r \in batch |-> r.slot]
             sent == [k \in Missing(o) |-> [need(k) EXCEPT !.copy = c]]
  <2>5. \A k \in Missing(o) : LET s == [need(k) EXCEPT !.copy = c] IN
          /\ s \in Requests /\ s.kind = "again" /\ s.n = o.n
          /\ s.slot = k /\ s.item = o.files[k] /\ ~s.done
    BY <2>1, CopyFields
  <2>6. batch = {[need(k) EXCEPT !.copy = c] : k \in Missing(o)}
    BY DEF needs
  <2>7. \A r \in batch : RequestOf(r, o) /\ r.kind = "again" /\ r.slot \in Missing(o)
    <3> SUFFICES ASSUME NEW r \in batch
                 PROVE  RequestOf(r, o) /\ r.kind = "again" /\ r.slot \in Missing(o)
      OBVIOUS
    <3>1. PICK k \in Missing(o) : r = [need(k) EXCEPT !.copy = c]
      BY <2>6
    <3>2. /\ r \in Requests /\ r.kind = "again" /\ r.n = o.n
          /\ r.slot = k /\ r.item = o.files[k] /\ ~r.done
      BY <2>5, <3>1, Zenon
    <3> QED BY <3>2 DEF RequestOf
  <2>8. batch # {}
    BY <1>4, <2>6
  <2>9. IsFiniteSet(batch)
    <3>1. sent \in Surjection(Missing(o), batch)
      BY <2>6 DEF Surjection
    <3> HIDE DEF sent, batch
    <3> QED BY <1>1, <3>1, FS_Surjection
  <2>10. Cardinality(Missing(o)) <= Cardinality(batch)
    <3>1. \A r \in batch : r.slot \in Missing(o)
      BY <2>7
    <3>2. \A k \in Missing(o) : \E r \in batch : r.slot = k
      BY <2>5, <2>6
    <3>3. slots \in Surjection(batch, Missing(o))
      BY <3>1, <3>2 DEF Surjection
    <3> HIDE DEF slots, batch
    <3> QED BY <2>9, <3>3, FS_Surjection
  <2>11. {r \in batch : r.kind = "again"} = batch
    BY <2>7
  <2>12. requests' = requests \cup batch
    BY <2>2, <2>4
  <2> HIDE DEF batch
  <2> QED BY <1>2, <2>7, <2>8, <2>9, <2>10, <2>11, <2>12
<1> QED BY <1>3, <1>4

-------------------------------------------------------------------------------
(* Steps that make nothing: an operation goes on or ends, requests and events  *)
(* only become fewer.                                                          *)

IInv == Shape /\ Started /\ Owned /\ Made /\ Attached /\ Waits

Quiet ==
    /\ outgoing' \in {outgoing, None} /\ requests' \subseteq requests
    /\ posts' = posts /\ applied' = applied /\ log' = log /\ items' = items /\ returned' = returned
    /\ events' = events \/ (events # <<>> /\ events' = Tail(events))
    /\ crossed \subseteq crossed'
    /\ outgoing' # None => finished' = finished

\* The part of the types that such a step can disturb.
DraftTyped ==
    /\ text \in {"empty", "words", "poll"} /\ {editing, failed} \subseteq BOOLEAN
    /\ list \in Seq(1..items) /\ uploads \in [Items -> {"none", "uploading", "ready", "failed"}]
    /\ failed => outgoing # None
    /\ outgoing # None => ~editing
    /\ finished \cup crossed \subseteq DOMAIN log
    /\ finished \cap returned = {} /\ armed \in 0..Len(log)
    /\ unheard \subseteq Nat

LEMMA TailEvents ==
    ASSUME events \in Seq(Events), events # <<>>
    PROVE  /\ Head(events) \in Events /\ Head(events) = events[1] /\ 1 \in DOMAIN events
           /\ Tail(events) \in Seq(Events)
           /\ \A k \in DOMAIN Tail(events) : k + 1 \in DOMAIN events /\ Tail(events)[k] = events[k + 1]
           /\ \A k \in DOMAIN events : k = 1 \/ (k - 1 \in DOMAIN Tail(events)
                                                  /\ Tail(events)[k - 1] = events[k])
OBVIOUS

\* Every event that is left was there before.
LEMMA FewerEvents ==
    ASSUME Shape, Quiet
    PROVE  /\ events' \in Seq(Events)
           /\ \A k \in DOMAIN events' : \E j \in DOMAIN events : events'[k] = events[j]
<1>1. CASE events' = events
  BY <1>1 DEF Shape
<1>2. CASE events # <<>> /\ events' = Tail(events)
  BY <1>2, TailEvents DEF Shape
<1> QED BY <1>1, <1>2 DEF Quiet

LEMMA QuietShape ==
    ASSUME IInv, Quiet, DraftTyped'
    PROVE  Shape'
BY NoneFields, FS_Subset, FewerEvents DEF IInv, Shape, Quiet, DraftTyped, Items, TypeOK, None,
   Operation, Operations, Requests, Events, Files

LEMMA QuietStarted ==
    ASSUME IInv, Quiet
    PROVE  Started'
BY NoneFields DEF Quiet, IInv, Started, None, Operation

LEMMA QuietOwned ==
    ASSUME IInv, Quiet
    PROVE  Owned'
BY DEF IInv, Owned, Quiet

LEMMA QuietMade ==
    ASSUME IInv, Quiet
    PROVE  Made'
BY FewerEvents DEF Quiet, IInv, Made

LEMMA QuietAttached ==
    ASSUME IInv, Quiet
    PROVE  Attached'
BY NoneFields DEF Quiet, Missing, IInv, Attached, None, Operation

\* What is outgoing ends: only what is about another operation is remembered as crossed.
LEMMA FinishEffect ==
    ASSUME IInv, NEW about, finishSend(about), log' = log, items' = items,
           returned' = returned, unheard' = unheard, armed' \in 0 .. Len(log)
    PROVE  /\ outgoing' = None /\ DraftTyped' /\ uploads' \in {uploads, NoUploads}
           /\ crossed \subseteq crossed'
           /\ \A n \in finished' \ crossed' : n \in finished \ crossed \/ (n = about /\ n = outgoing.n)
<1>1. outgoing' = None /\ editing' = editing /\ items' = items
  BY DEF finishSend
<1>2. /\ text \in {"empty", "words", "poll"} /\ {editing, failed} \subseteq BOOLEAN
      /\ list \in Seq(1..items) /\ uploads \in [Items -> {"none", "uploading", "ready", "failed"}]
      /\ (failed => outgoing # None)
      /\ finished \cup crossed \subseteq DOMAIN log /\ finished \cap returned = {}
      /\ unheard \subseteq Nat /\ items \in 0 .. MaxItems
  BY DEF IInv, Shape, TypeOK
<1>3. CASE outgoing = None
  BY <1>3, <1>2, <1>1 DEF finishSend, DraftTyped, None, Operation, Items
<1>4. CASE outgoing # None
  <2>1. /\ text' = "empty" /\ list' = <<>> /\ uploads' = NoUploads /\ failed' = FALSE
        /\ finished' = finished \cup {outgoing.n} /\ Crossing(about)
    BY <1>4 DEF finishSend
  <2>2. outgoing.n \in DOMAIN log /\ outgoing.n \notin returned /\ outgoing.n # 0
    BY <1>4 DEF IInv, Started, Shape, Operations, None, Operation
  <2>3. crossed \subseteq crossed' /\ crossed' \subseteq DOMAIN log
    BY <1>2, <2>1, <2>2 DEF Crossing
  <2>4. \A n \in finished' \ crossed' : n \in finished \ crossed \/ (n = about /\ n = outgoing.n)
    BY <2>1, <2>2, <2>3 DEF Crossing
  <2>5. NoUploads \in [Items -> {"none", "uploading", "ready", "failed"}] /\ <<>> \in Seq(1..items)
    BY DEF NoUploads
  <2>6. DraftTyped'
    BY <1>1, <1>2, <2>1, <2>2, <2>3, <2>5 DEF DraftTyped, None, Operation, Items
  <2> QED BY <1>1, <2>1, <2>3, <2>4, <2>6
<1> QED BY <1>3, <1>4

\* An answer or an event that ends nothing leaves the draft as it is.
LEMMA NothingEffect ==
    ASSUME IInv, nothingFinished \/ failSend, log' = log, items' = items,
           returned' = returned, unheard' \subseteq Nat, armed' \in 0 .. Len(log)
    PROVE  /\ outgoing' = outgoing /\ DraftTyped' /\ uploads' = uploads
           /\ crossed' = crossed /\ finished' = finished /\ (failed => failed')
<1>1. /\ text' = text /\ editing' = editing /\ list' = list /\ uploads' = uploads
      /\ outgoing' = outgoing /\ finished' = finished /\ crossed' = crossed
  BY DEF nothingFinished, failSend, draft
<1>2. /\ text \in {"empty", "words", "poll"} /\ {editing, failed} \subseteq BOOLEAN
      /\ list \in Seq(1..items) /\ uploads \in [Items -> {"none", "uploading", "ready", "failed"}]
      /\ (failed => outgoing # None) /\ (outgoing # None => ~editing)
      /\ finished \cup crossed \subseteq DOMAIN log /\ finished \cap returned = {}
  BY DEF IInv, Shape, TypeOK
<1>3. failed' = failed \/ (failed' = TRUE /\ outgoing # None) \/ (failed' = FALSE /\ outgoing = None)
  BY <1>2 DEF nothingFinished, failSend
<1>4. failed' \in BOOLEAN /\ (failed' => outgoing # None) /\ (failed => failed')
  <2>1. failed \in BOOLEAN /\ (failed => outgoing # None)
    BY <1>2
  <2>2. CASE failed' = failed
    BY <2>1, <2>2, Zenon
  <2>3. CASE failed' = TRUE /\ outgoing # None
    BY <2>3, Zenon
  <2>4. CASE failed' = FALSE /\ outgoing = None
    BY <2>1, <2>4, Zenon
  <2> QED BY <1>3, <2>2, <2>3, <2>4
<1>5. DraftTyped'
  BY <1>1, <1>2, <1>4 DEF DraftTyped, None, Operation, Items
<1> QED BY <1>1, <1>4, <1>5

\* Nothing waits when nothing is outgoing, except for the uploads.
LEMMA QuietEnd ==
    ASSUME IInv, requests' \subseteq requests, outgoing' = None,
           \A i \in Items : uploads'[i] = "uploading" =>
               uploads[i] = "uploading" /\ \A r \in requests : r.kind = "upload" /\ r.item = i => r \in requests'
    PROVE  Waits'
<1>1. \A r \in requests' : r \in requests /\ (r.kind = "command" => r.n # 0)
  BY DEF IInv, Shape, Owned
<1>2. /\ outgoing'.n = 0 /\ outgoing'.kind = "none" /\ outgoing'.pending = 0
  BY NoneFields
<1>3. IsFiniteSet(requests')
  BY FS_Subset DEF IInv, Shape
<1>4. LET S == {r \in requests' : r.kind = "again" /\ r.n = 0} IN 0 <= Cardinality(S)
  <2> DEFINE S == {r \in requests' : r.kind = "again" /\ r.n = 0}
  <2>1. IsFiniteSet(S)
    BY <1>3, FS_Subset
  <2> HIDE DEF S
  <2>2. Cardinality(S) \in Nat
    BY <2>1, FS_CardinalityType
  <2>3. 0 <= Cardinality(S)
    BY <2>2
  <2> QED BY <2>3 DEF S
<1>5. \A i \in Items : uploads'[i] = "uploading" =>
        \E r \in requests' : r.kind = "upload" /\ r.item = i
  BY DEF IInv, Waits, WaitsForSomething
<1>6. WaitsForSomething'
  BY <1>5, NoneFields DEF WaitsForSomething, None, Operation, Items
<1> QED BY <1>1, <1>2, <1>4, <1>6 DEF Waits

\* What goes on has something to wait for as long as it is there.
LEMMA QuietOn ==
    ASSUME IInv, Quiet, outgoing' = outgoing, outgoing.kind = "poll" => armed' = armed,
           failed => failed', unheard \subseteq unheard',
           \A r \in requests \ requests' :
               /\ r.n = outgoing.n /\ outgoing # None => failed' \/ (r.kind = "command" /\ r.done)
               /\ ~(r.kind = "again" /\ r.n = outgoing.n),
           \A k \in DOMAIN events : events[k].kind = "polled" /\ events[k].n = outgoing.n =>
               \/ \E j \in DOMAIN events' : events'[j] = events[k]
               \/ outgoing.n \in unheard',
           \A i \in Items : uploads'[i] = "uploading" =>
               uploads[i] = "uploading" /\ \A r \in requests : r.kind = "upload" /\ r.item = i => r \in requests'
    PROVE  Waits'
<1>1. {r \in requests' : r.kind = "again" /\ r.n = outgoing'.n}
        = {r \in requests : r.kind = "again" /\ r.n = outgoing.n}
  BY DEF Quiet
<1>2. outgoing'.pending <= Cardinality({r \in requests' : r.kind = "again" /\ r.n = outgoing'.n})
  BY <1>1 DEF IInv, Waits
<1>3. outgoing'.kind = "poll" => armed' = outgoing'.n
  BY DEF IInv, Waits
<1>4. \A k \in DOMAIN events : events[k].kind = "polled" /\ events[k].n = outgoing.n =>
        \/ \E j \in DOMAIN events' : events'[j].kind = "polled" /\ events'[j].n = outgoing.n
        \/ outgoing.n \in unheard'
  OBVIOUS
<1>5. \A r \in requests : r.kind = "command" /\ r.done /\ r.n = outgoing.n =>
        \/ \E j \in DOMAIN events' : events'[j].kind = "polled" /\ events'[j].n = outgoing.n
        \/ outgoing.n \in unheard'
  BY <1>4 DEF IInv, Waits
<1>6. outgoing # None /\ ~failed' =>
        \/ \E r \in requests' : r.n = outgoing.n
        \/ \E j \in DOMAIN events' : events'[j].kind = "polled" /\ events'[j].n = outgoing.n
        \/ outgoing.n \in unheard'
  BY <1>4, <1>5 DEF IInv, Waits, WaitsForSomething
<1>7. \A i \in Items : uploads'[i] = "uploading" =>
        \E r \in requests' : r.kind = "upload" /\ r.item = i
  BY DEF IInv, Waits, WaitsForSomething
<1>8. WaitsForSomething'
  BY <1>6, <1>7 DEF WaitsForSomething, None, Operation, Items
<1>9. \A r \in requests' : r.kind = "command" /\ r.done /\ r.n = outgoing'.n =>
        \/ \E k \in DOMAIN events' : events'[k].kind = "polled" /\ events'[k].n = r.n
        \/ r.n \in unheard'
  BY <1>5 DEF Quiet
<1> QED BY <1>2, <1>3, <1>8, <1>9 DEF Waits

Good == IInv /\ KeptUntilSent

LEMMA QuietGood ==
    ASSUME Good, Quiet, DraftTyped', Waits',
           \A n \in finished' \ crossed' : n \in finished \ crossed \/ Delivered(n)
    PROVE  Good'
BY QuietShape, QuietStarted, QuietOwned, QuietMade, QuietAttached DEF Good, KeptUntilSent,
   Delivered, Quiet, IInv

-------------------------------------------------------------------------------
(* The draft, the answers and the events that make nothing.                    *)

\* Typing, the begin of an edit and Escape change the text; a file that is removed its upload.
LEMMA DraftStep ==
    ASSUME Good, Type \/ postEditInitiated \/ escapePressed \/ fileRemoved
    PROVE  Good'
<1>1. /\ outgoing' = outgoing /\ failed' = failed /\ armed' = armed /\ requests' = requests
      /\ items' = items /\ posts' = posts /\ applied' = applied /\ events' = events
      /\ log' = log /\ finished' = finished /\ returned' = returned /\ crossed' = crossed
      /\ unheard' = unheard
  BY DEF Type, postEditInitiated, escapePressed, fileRemoved, untouched, server, history
<1>2. Quiet
  BY <1>1 DEF Quiet
<1>3. /\ text \in {"empty", "words", "poll"} /\ {editing, failed} \subseteq BOOLEAN
      /\ list \in Seq(1..items) /\ uploads \in [Items -> {"none", "uploading", "ready", "failed"}]
      /\ (failed => outgoing # None) /\ (outgoing # None => ~editing)
      /\ finished \cup crossed \subseteq DOMAIN log /\ finished \cap returned = {}
      /\ armed \in 0 .. Len(log) /\ unheard \subseteq Nat /\ items \in 0 .. MaxItems
  BY DEF Good, IInv, Shape, TypeOK
<1>4. text' \in {"empty", "words", "poll"} /\ editing' \in BOOLEAN
  BY <1>3 DEF Type, postEditInitiated, escapePressed, fileRemoved
<1>5. outgoing' # None => ~editing'
  BY <1>1, <1>3 DEF Type, postEditInitiated, isCreatingPost, escapePressed, fileRemoved
<1>6. /\ list' \in Seq(1..items) /\ uploads' \in [Items -> {"none", "uploading", "ready", "failed"}]
      /\ \A i \in Items : uploads'[i] = "uploading" => uploads[i] = "uploading"
  <2>1. CASE ~fileRemoved
    BY <2>1, <1>3 DEF Type, postEditInitiated, escapePressed
  <2>2. CASE fileRemoved
    <3>1. PICK k \in DOMAIN list :
            /\ list' = SubSeq(list, 1, k - 1) \o SubSeq(list, k + 1, Len(list))
            /\ uploads' = [uploads EXCEPT ![list[k]] = "none"]
      BY <2>2 DEF fileRemoved
    <3>2. k \in 1 .. Len(list) /\ Len(list) \in Nat
      BY <1>3
    <3>3. SubSeq(list, 1, k - 1) \in Seq(1..items)
      BY <1>3, <3>2, SubSeqProperties
    <3>4. SubSeq(list, k + 1, Len(list)) \in Seq(1..items)
      BY <1>3, <3>2, SubSeqProperties
    <3>5. list' \in Seq(1..items)
      BY <3>1, <3>3, <3>4, ConcatProperties
    <3>6. /\ uploads' \in [Items -> {"none", "uploading", "ready", "failed"}]
          /\ \A i \in Items : uploads'[i] = "uploading" => uploads[i] = "uploading"
      BY <1>3, <3>1
    <3> QED BY <3>5, <3>6
  <2> QED BY <2>1, <2>2
<1>7. failed' \in BOOLEAN /\ (failed' => outgoing' # None)
  BY <1>3, <1>1 DEF None, Operation
<1>8. DraftTyped'
  BY <1>1, <1>3, <1>4, <1>5, <1>6, <1>7 DEF DraftTyped, Items
<1>9. Waits'
  BY <1>1, <1>2, <1>6, QuietOn DEF Good
<1>10. \A n \in finished' \ crossed' : n \in finished \ crossed
  BY <1>1
<1> QED BY <1>2, <1>8, <1>9, <1>10, QuietGood

\* An upload that is answered ends the wait for it.
LEMMA UploadStep ==
    ASSUME Good, NEW r \in requests, r.kind = "upload", NEW ok, uploadAnswered(r, ok)
    PROVE  Good'
<1>1. /\ outgoing' = outgoing /\ failed' = failed /\ armed' = armed /\ requests' = requests \ {r}
      /\ text' = text /\ editing' = editing /\ list' = list
      /\ items' = items /\ posts' = posts /\ applied' = applied /\ events' = events
      /\ log' = log /\ finished' = finished /\ returned' = returned /\ crossed' = crossed
      /\ unheard' = unheard
  BY DEF uploadAnswered, Forget, server, history
<1>2. Quiet
  BY <1>1 DEF Quiet
<1>3. /\ text \in {"empty", "words", "poll"} /\ {editing, failed} \subseteq BOOLEAN
      /\ list \in Seq(1..items) /\ uploads \in [Items -> {"none", "uploading", "ready", "failed"}]
      /\ (failed => outgoing # None) /\ (outgoing # None => ~editing)
      /\ finished \cup crossed \subseteq DOMAIN log /\ finished \cap returned = {}
      /\ armed \in 0 .. Len(log) /\ unheard \subseteq Nat
  BY DEF Good, IInv, Shape, TypeOK
<1>4. r.n = 0 /\ r.item \in Items
  BY Bounds DEF Good, IInv, Shape, Requests, Owned, Items
<1>5. /\ uploads' \in [Items -> {"none", "uploading", "ready", "failed"}]
      /\ \A i \in Items : uploads'[i] = "uploading" => uploads[i] = "uploading" /\ i # r.item
  BY <1>3, <1>4 DEF uploadAnswered
<1>6. DraftTyped'
  BY <1>1, <1>3, <1>5 DEF DraftTyped, Items, None, Operation
<1>7. \A i \in Items : uploads'[i] = "uploading" =>
        uploads[i] = "uploading" /\ \A q \in requests : q.kind = "upload" /\ q.item = i => q \in requests'
  BY <1>1, <1>5
<1>8. \A q \in requests \ requests' : q = r
  BY <1>1
<1>9. outgoing # None => outgoing.n # 0
  BY DEF Good, IInv, Started
<1>10. \A q \in requests \ requests' :
         /\ q.n = outgoing.n /\ outgoing # None => failed' \/ (q.kind = "command" /\ q.done)
         /\ ~(q.kind = "again" /\ q.n = outgoing.n)
  BY <1>4, <1>8, <1>9
<1>11. Waits'
  BY <1>1, <1>2, <1>7, <1>10, QuietOn DEF Good
<1>12. \A n \in finished' \ crossed' : n \in finished \ crossed
  BY <1>1
<1> QED BY <1>2, <1>6, <1>11, <1>12, QuietGood

\* Requests and events become fewer, and nothing else of what is around changes.
Still ==
    /\ requests' \subseteq requests
    /\ posts' = posts /\ applied' = applied /\ log' = log /\ items' = items /\ returned' = returned
    /\ events' = events \/ (events # <<>> /\ events' = Tail(events))
    /\ armed' \in 0 .. Len(log)
    /\ \A r \in requests : r.kind = "upload" => r \in requests'

\* The composer takes its operation for done, with reason when it was about this one.
LEMMA FinishStep ==
    ASSUME Good, NEW about, finishSend(about), Still, unheard' = unheard,
           outgoing # None /\ about = outgoing.n => Delivered(about)
    PROVE  Good'
BY FinishEffect, QuietEnd, NoneFields, QuietGood DEF Good, Still, Quiet, NoUploads, finishSend

\* The composer goes on waiting, or offers a retry.
LEMMA GoOnStep ==
    ASSUME Good, nothingFinished \/ failSend, Still,
           unheard \subseteq unheard', unheard' \subseteq Nat,
           outgoing.kind = "poll" => armed' = armed,
           \A r \in requests \ requests' :
               /\ r.n = outgoing.n /\ outgoing # None => failed' \/ (r.kind = "command" /\ r.done)
               /\ ~(r.kind = "again" /\ r.n = outgoing.n),
           \A k \in DOMAIN events : events[k].kind = "polled" /\ events[k].n = outgoing.n =>
               \/ \E j \in DOMAIN events' : events'[j] = events[k]
               \/ outgoing.n \in unheard'
    PROVE  Good'
BY NothingEffect, QuietOn, QuietGood DEF Good, Still, Quiet

\* The post, or the edit, that an answer is about is on the server.
LEMMA DoneDelivered ==
    ASSUME Good, NEW r \in requests, r.kind \in {"post", "edit"}, r.done
    PROVE  Delivered(r.n)
BY DEF Good, IInv, Owned, Made, Delivered

\* So is what an event is about.
LEMMA EventDelivered ==
    ASSUME Good, NEW k \in DOMAIN events
    PROVE  Delivered(events[k].n)
BY DEF Good, IInv, Made, Delivered

LEMMA AnswerStep ==
    ASSUME Good, NEW r \in requests,
           \/ r.kind = "post" /\ r.done /\ createAnswered(r)
           \/ r.kind = "edit" /\ r.done /\ editAnswered(r)
    PROVE  Good'
<1>1. finishSend(r.n) /\ unheard' = unheard
  BY DEF createAnswered, editAnswered
<1>2. Still
  BY <1>1 DEF createAnswered, editAnswered, Forget, server, finishSend, Good, IInv, Shape, TypeOK,
     Still
<1> QED BY <1>1, <1>2, DoneDelivered, FinishStep

LEMMA CommandStep ==
    ASSUME Good, NEW r \in requests, r.kind = "command", r.done, commandAnswered(r)
    PROVE  Good'
BY GoOnStep DEF commandAnswered, Forget, nothingFinished, server, history, draft, Good, IInv, Shape,
   TypeOK, Still

LEMMA FailureStep ==
    ASSUME Good, NEW r \in requests, r.kind \in {"configuration", "post", "edit", "command"},
           requestFailed(r)
    PROVE  Good'
BY GoOnStep DEF requestFailed, Forget, failSend, server, draft, Good, IInv, Shape, TypeOK, Still

\* An event that is taken out of the queue finishes what it announces.
LEMMA EventStep ==
    ASSUME Good, Event
    PROVE  Good'
<1> DEFINE e == events[1]
<1>1. /\ events # <<>> /\ events' = Tail(events) /\ Head(events) = e /\ e \in Events
      /\ 1 \in DOMAIN events
      /\ \A k \in DOMAIN events : k = 1 \/ \E j \in DOMAIN events' : events'[j] = events[k]
  BY TailEvents DEF Event, Good, IInv, Shape
<1> HIDE DEF e
<1>2. Delivered(e.n) /\ e.n \in Nat /\ (e.kind = "posted" => e.pid = e.n)
  BY <1>1, EventDelivered DEF e, Good, IInv, Made, Events
<1>3. /\ requests' = requests /\ posts' = posts /\ applied' = applied /\ log' = log
      /\ returned' = returned /\ unheard' = unheard
  BY DEF Event
<1>4. \/ e.kind = "posted" /\ onNewPost(e.pid, 0)
      \/ e.kind = "polled" /\ onNewPost(0, e.n)
      \/ e.kind = "edited" /\ armed' = armed /\ (onPostEdited(e.n) \/ nothingFinished)
  BY <1>1 DEF Event
<1>5. /\ armed \in 0 .. Len(log) /\ unheard \subseteq Nat /\ 0 \in 0 .. Len(log)
  BY DEF Good, IInv, Shape, TypeOK
<1>6. (finishSend(e.n) /\ armed' \in {0, armed}) \/ (nothingFinished /\ armed' \in {0, armed})
  BY <1>2, <1>4 DEF onNewPost, onPostEdited
<1>7. items' = items
  BY <1>6 DEF finishSend, nothingFinished, draft
<1>8. Still
  BY <1>5, <1>6, <1>1, <1>3, <1>7 DEF Still
<1>9. CASE finishSend(e.n)
  BY <1>2, <1>3, <1>8, <1>9, FinishStep
<1>10. CASE nothingFinished
  <2>1. CASE outgoing = None
    BY <2>1, NoneFields, <1>3, <1>5, <1>8, <1>10, GoOnStep DEF Good, IInv, Made, Shape
  <2>2. CASE outgoing # None
    <3>1. outgoing' = outgoing
      BY <1>10 DEF nothingFinished
    <3>2. armed' = armed
      BY <1>4, <2>2, <3>1 DEF onNewPost
    <3>3. ~(e.kind = "polled" /\ e.n = outgoing.n)
      BY <1>4, <2>2, <1>1, <3>1 DEF Good, IInv, Started, Made, e, Waits, onNewPost, finishSend
    <3>4. \A k \in DOMAIN events : events[k].kind = "polled" /\ events[k].n = outgoing.n =>
            \E j \in DOMAIN events' : events'[j] = events[k]
      BY <1>1, <3>3 DEF e
    <3> QED BY <1>3, <1>5, <1>8, <1>10, <3>2, <3>4, GoOnStep
  <2> QED BY <2>1, <2>2
<1> QED BY <1>6, <1>9, <1>10

\* An event that is lost is not waited for.
LEMMA LoseStep ==
    ASSUME Good, LoseEvent
    PROVE  Good'
BY TailEvents, GoOnStep DEF LoseEvent, nothingFinished, draft, Good, IInv, Shape, TypeOK, Still,
   Events

\* A change of the post that is no edit of its text ends the edit: it was about another.
LEMMA TouchStep ==
    ASSUME Good, Touch
    PROVE  Good'
BY FinishStep DEF Touch, onPostEdited, server, finishSend, Still, Good, IInv, Shape, TypeOK, Started

-------------------------------------------------------------------------------
(* Steps with which an operation goes on: it sends more, or a file of it is    *)
(* there.                                                                      *)

LEMMA ContinueStep ==
    ASSUME Good, DraftTyped', Waits',
           outgoing' \in Operations, IsFiniteSet(requests'),
           outgoing' = None <=> outgoing = None,
           outgoing'.n = outgoing.n, outgoing'.kind = outgoing.kind,
           outgoing'.pid = outgoing.pid, outgoing'.files = outgoing.files,
           outgoing'.ids \in [DOMAIN outgoing.files -> 0 .. items],
           outgoing # None /\ outgoing.n \notin crossed' =>
               \A k \in DOMAIN outgoing'.ids : outgoing'.ids[k] \in {0, outgoing.files[k]},
           Missing(outgoing) = {} => Missing(outgoing') = {},
           log' = log, items' = items, posts' = posts, applied' = applied, events' = events,
           finished' = finished, returned' = returned, crossed \subseteq crossed',
           \A q \in requests' :
               \/ q \in requests
               \/ outgoing # None /\ RequestOf(q, outgoing')
               \/ /\ q \in Requests /\ q.kind = "command" /\ ~q.done
                  /\ q.n \in DOMAIN log /\ log[q.n].kind = "poll" /\ q.pid = 0 /\ q.files = <<>>
    PROVE  Good'
<1>1. requests' \in SUBSET Requests
  BY DEF RequestOf, Good, IInv, Shape
<1>2. TypeOK'
  BY DEF DraftTyped, Items, Good, IInv, Shape, TypeOK, None, Operation
<1>3. Shape'
  BY <1>1, <1>2 DEF DraftTyped, Good, IInv, Shape, Operations, Requests, Events, Files
<1>4. Started'
  BY DEF Good, IInv, Started, None, Operation
<1>5. outgoing # None => /\ outgoing.n \in DOMAIN log /\ outgoing.n \notin returned
                         /\ outgoing.kind = log[outgoing.n].kind
                         /\ outgoing.pid = log[outgoing.n].pid /\ outgoing.files = log[outgoing.n].files
                         /\ log[outgoing.n].kind # "none"
                         /\ (log[outgoing.n].kind = "post" => log[outgoing.n].pid = outgoing.n)
                         /\ \A k \in DOMAIN outgoing.files : outgoing.files[k] # 0
  BY DEF Good, IInv, Started
<1>6. Owned'
  <2> SUFFICES ASSUME NEW q \in requests'
               PROVE  /\ q.kind = "upload" => q.n = 0
                      /\ q.kind \in {"upload", "again"} => q.item # 0
                      /\ q.kind # "upload" => q.n \in DOMAIN log
                      /\ q.kind = "again" => q.slot \in DOMAIN log[q.n].files
                                             /\ q.item = log[q.n].files[q.slot]
                      /\ q.kind = "post" => log[q.n].kind = "post" /\ q.pid = q.n
                      /\ q.kind = "edit" => log[q.n].kind = "edit"
                      /\ q.kind \in {"configuration", "command"} => log[q.n].kind = "poll"
                      /\ q.kind = "command" => q.pid = 0 /\ q.files = <<>>
    BY DEF Owned
  <2>1. CASE q \in requests
    BY <2>1 DEF Good, IInv, Owned
  <2>2. CASE outgoing # None /\ RequestOf(q, outgoing')
    <3>1. Missing(outgoing') \subseteq DOMAIN outgoing.files
      BY DEF Missing
    <3>2. outgoing.kind \in {"none", "post", "edit", "poll"}
      BY DEF Good, IInv, Shape, Operations
    <3> QED BY <1>5, <2>2, <3>1, <3>2 DEF RequestOf
  <2>3. CASE /\ q.kind = "command" /\ q.n \in DOMAIN log /\ log[q.n].kind = "poll"
             /\ q.pid = 0 /\ q.files = <<>>
    BY <2>3
  <2> QED BY <2>1, <2>2, <2>3
<1>7. \A q \in requests' : q \in requests \/ ~q.done
  BY DEF RequestOf
<1>8. Made'
  BY <1>7 DEF Good, IInv, Made
<1>9. Attached'
  <2>1. \A q \in requests' : q.kind = "post" =>
          /\ q.n \notin crossed' => q.files = log[q.n].files
          /\ q.n = outgoing.n => Missing(outgoing') = {}
          /\ q.n \notin returned
    <3> SUFFICES ASSUME NEW q \in requests', q.kind = "post"
                 PROVE  /\ q.n \notin crossed' => q.files = log[q.n].files
                        /\ q.n = outgoing.n => Missing(outgoing') = {}
                        /\ q.n \notin returned
      OBVIOUS
    <3>1. CASE q \in requests
      BY <3>1 DEF Good, IInv, Attached
    <3>2. CASE outgoing # None /\ RequestOf(q, outgoing')
      <4>1. q.n = outgoing.n /\ Missing(outgoing') = {} /\ q.files = outgoing'.ids
        BY <3>2 DEF RequestOf
      <4>2. q.n \notin crossed' => q.files = log[q.n].files
        <5> SUFFICES ASSUME q.n \notin crossed' PROVE q.files = log[q.n].files
          OBVIOUS
        <5>1. \A k \in DOMAIN outgoing.files : outgoing'.ids[k] = outgoing.files[k]
          BY <3>2, <4>1 DEF Missing
        <5>2. outgoing.files \in Seq(0 .. MaxItems) /\ outgoing'.ids \in Seq(0 .. MaxItems)
          BY DEF Good, IInv, Shape, Operations, Files
        <5>3. DOMAIN outgoing'.ids = DOMAIN outgoing.files
          OBVIOUS
        <5>4. outgoing'.ids = outgoing.files
          BY <5>1, <5>2, <5>3
        <5> QED BY <1>5, <3>2, <4>1, <5>4
      <4> QED BY <1>5, <3>2, <4>1, <4>2
    <3> QED BY <3>1, <3>2
  <2> QED BY <2>1 DEF Good, IInv, Attached, None, Operation, Missing
<1>10. KeptUntilSent'
  BY DEF Good, KeptUntilSent, Delivered
<1> QED BY <1>3, <1>4, <1>6, <1>8, <1>9, <1>10 DEF Good, IInv

\* What is prepared is the operation, but for the number of answers it waits for.
LEMMA PrepareOutgoing ==
    ASSUME NEW o \in Operations, prepareAndSendPost(o)
    PROVE  /\ outgoing' \in Operations /\ outgoing'.n = o.n /\ outgoing'.kind = o.kind
           /\ outgoing'.pid = o.pid /\ outgoing'.files = o.files /\ outgoing'.ids = o.ids
           /\ outgoing'.press = o.press /\ Missing(outgoing') = Missing(o)
           /\ \A r : RequestOf(r, o) => RequestOf(r, outgoing')
BY MissingFinite DEF prepareAndSendPost, Operations, Missing, RequestOf

\* The requests of an operation that wait for a file, among more requests.
LEMMA MoreAgain ==
    ASSUME NEW S, NEW T, IsFiniteSet(T), S \subseteq T, NEW k \in Nat, k <= Cardinality(S)
    PROVE  k <= Cardinality(T)
BY FS_Subset, FS_CardinalityType

\* The same operation is sent again.
LEMMA RetryStep ==
    ASSUME Good, retry
    PROVE  Good'
<1> DEFINE o == [outgoing EXCEPT !.press = @ + 1]
<1>1. /\ outgoing # None /\ failed' = FALSE /\ prepareAndSendPost(o)
      /\ text' = text /\ editing' = editing /\ list' = list /\ uploads' = uploads /\ items' = items
      /\ armed' = armed /\ posts' = posts /\ applied' = applied /\ events' = events
      /\ log' = log /\ finished' = finished /\ returned' = returned /\ crossed' = crossed
      /\ unheard' = unheard
  BY DEF retry, Again, draft, server, history
<1>2. /\ outgoing \in Operations /\ items \in 0 .. MaxItems /\ IsFiniteSet(requests)
      /\ outgoing.ids \in [DOMAIN outgoing.files -> 0 .. items] /\ ~editing
  BY <1>1 DEF Good, IInv, Shape, TypeOK
<1>3. /\ outgoing.kind # "none" /\ outgoing.n \in DOMAIN log /\ outgoing.n # 0
      /\ \A k \in DOMAIN outgoing.files : outgoing.files[k] \in 1 .. MaxItems
  BY <1>1, <1>2, Bounds DEF Good, IInv, Started
<1>3a. /\ o \in Operations /\ o.n = outgoing.n /\ o.kind = outgoing.kind
       /\ o.pid = outgoing.pid /\ o.files = outgoing.files /\ o.ids = outgoing.ids
  BY <1>2 DEF Operations
<1>3b. Missing(o) = Missing(outgoing)
  BY <1>3a DEF Missing
<1> HIDE DEF o
<1>4. /\ outgoing' \in Operations /\ outgoing'.n = outgoing.n /\ outgoing'.kind = outgoing.kind
      /\ outgoing'.pid = outgoing.pid /\ outgoing'.files = outgoing.files
      /\ outgoing'.ids = outgoing.ids /\ Missing(outgoing') = Missing(outgoing)
      /\ \A r : RequestOf(r, o) => RequestOf(r, outgoing')
  BY <1>1, <1>3a, <1>3b, PrepareOutgoing
<1>5. PICK batch :
        /\ requests' = requests \cup batch /\ batch # {} /\ IsFiniteSet(batch)
        /\ \A r \in batch : RequestOf(r, o)
        /\ outgoing'.pending <= Cardinality({r \in batch : r.kind = "again"})
  BY <1>1, <1>3, <1>3a, PrepareEffect DEF Good, IInv
<1>6. IsFiniteSet(requests')
  BY <1>2, <1>5, FS_Union
<1>7. outgoing' # None
  BY <1>3, <1>4, NoneFields
<1>8. DraftTyped'
  BY <1>1, <1>2, <1>7 DEF Good, IInv, Shape, TypeOK, DraftTyped, None, Operation, Items
<1>9. Waits'
  <2>1. outgoing'.pending <= Cardinality({r \in requests' : r.kind = "again" /\ r.n = outgoing'.n})
    <3> DEFINE S == {r \in batch : r.kind = "again"}
               T == {r \in requests' : r.kind = "again" /\ r.n = outgoing'.n}
    <3>1. S \subseteq T /\ outgoing'.pending \in Nat
      BY <1>4, <1>5, <1>3a DEF RequestOf, Operations
    <3>2. IsFiniteSet(T)
      BY <1>6, FS_Subset
    <3>3. outgoing'.pending <= Cardinality(S)
      BY <1>5
    <3> HIDE DEF S, T
    <3>4. outgoing'.pending <= Cardinality(T)
      BY <3>1, <3>2, <3>3, MoreAgain
    <3> QED BY <3>4 DEF T
  <2>2. outgoing'.kind = "poll" => armed' = outgoing'.n
    BY <1>1, <1>4 DEF Good, IInv, Waits
  <2>3. \A r \in batch : r.n = outgoing.n /\ ~r.done
    BY <1>5, <1>3a DEF RequestOf
  <2>4. \A r \in requests' : r.kind = "command" /\ r.done /\ r.n = outgoing'.n =>
          \/ \E k \in DOMAIN events' : events'[k].kind = "polled" /\ events'[k].n = r.n
          \/ r.n \in unheard'
    BY <1>1, <1>4, <1>5, <2>3 DEF Good, IInv, Waits
  <2>5. \E r \in requests' : r.n = outgoing'.n
    BY <1>4, <1>5, <2>3
  <2>6. WaitsForSomething'
    BY <1>1, <1>5, <2>5 DEF Good, IInv, Waits, WaitsForSomething, Items
  <2> QED BY <2>1, <2>2, <2>4, <2>6 DEF Waits
<1>10. \A q \in requests' : q \in requests \/ (outgoing # None /\ RequestOf(q, outgoing'))
  BY <1>1, <1>4, <1>5
<1>11. outgoing # None /\ outgoing.n \notin crossed' =>
         \A k \in DOMAIN outgoing'.ids : outgoing'.ids[k] \in {0, outgoing.files[k]}
  BY <1>1, <1>4 DEF Good, IInv, Attached
<1> QED BY <1>1, <1>2, <1>4, <1>6, <1>7, <1>8, <1>9, <1>10, <1>11, ContinueStep

\* The command of a press.
LEMMA CommandRequest ==
    \A n, press \in Nat :
        \E c \in Requests :
            /\ c = [Request("command", n) EXCEPT !.press = press]
            /\ c.n = n /\ c.kind = "command" /\ c.press = press
            /\ c.done = FALSE /\ c.pid = 0 /\ c.files = <<>>
<1> SUFFICES ASSUME NEW n \in Nat, NEW press \in Nat
             PROVE  \E c \in Requests :
                        /\ c = [Request("command", n) EXCEPT !.press = press]
                        /\ c.n = n /\ c.kind = "command" /\ c.press = press
                        /\ c.done = FALSE /\ c.pid = 0 /\ c.files = <<>>
  OBVIOUS
<1>1. "command" \in Kinds
  BY DEF Kinds
<1>2. PICK q \in Requests : /\ q = Request("command", n) /\ q.n = n /\ q.kind = "command"
                            /\ q.done = FALSE /\ q.pid = 0 /\ q.files = <<>>
  BY <1>1, FreshRequest
<1>3. PICK c : c = [q EXCEPT !.press = press]
  OBVIOUS
<1>4. /\ c \in Requests /\ c.n = n /\ c.kind = "command" /\ c.press = press
      /\ c.done = FALSE /\ c.pid = 0 /\ c.files = <<>>
  BY <1>2, <1>3 DEF Requests
<1> QED BY <1>2, <1>3, <1>4

\* The command is sent in place of the request for the trigger word.
LEMMA ConfigurationStep ==
    ASSUME Good, NEW r \in requests, r.kind = "configuration", configurationAnswered(r)
    PROVE  Good'
<1>1. /\ requests' = Sent({[Request("command", r.n) EXCEPT !.press = r.press]}) \ {r}
      /\ text' = text /\ editing' = editing /\ list' = list /\ uploads' = uploads /\ items' = items
      /\ outgoing' = outgoing /\ failed' = failed
      /\ armed' = armed /\ posts' = posts /\ applied' = applied /\ events' = events
      /\ log' = log /\ finished' = finished /\ returned' = returned /\ crossed' = crossed
      /\ unheard' = unheard
  BY DEF configurationAnswered, draft, server, history
<1>2. /\ outgoing \in Operations /\ IsFiniteSet(requests) /\ r \in Requests /\ r.n \in Nat
      /\ (outgoing # None => outgoing.ids \in [DOMAIN outgoing.files -> 0 .. items])
  BY DEF Good, IInv, Shape, TypeOK, Requests
<1>3. r.n \in DOMAIN log /\ log[r.n].kind = "poll"
  BY DEF Good, IInv, Owned
<1>5. PICK c \in Requests :
        /\ c = [Request("command", r.n) EXCEPT !.press = r.press]
        /\ c.n = r.n /\ c.kind = "command" /\ c.press = r.press
        /\ c.done = FALSE /\ c.pid = 0 /\ c.files = <<>>
  <2>1. r.press \in Nat
    BY <1>2 DEF Requests
  <2> QED BY <1>2, <2>1, CommandRequest
<1>6. PICK s \in Requests :
        /\ Sent({c}) = requests \cup {s}
        /\ s.kind = c.kind /\ s.n = c.n /\ s.pid = c.pid /\ s.files = c.files
        /\ s.done = c.done
  BY SentOne DEF Good, IInv
<1>7. requests' = (requests \cup {s}) \ {r}
  BY <1>1, <1>5, <1>6
<1>8. s.kind = "command" /\ s.n = r.n /\ ~s.done /\ s # r /\ s.pid = 0 /\ s.files = <<>>
  BY <1>5, <1>6
<1>9. IsFiniteSet(requests')
  BY <1>2, FS_AddElement, <1>7, FS_Subset
<1>10. DraftTyped'
  BY <1>1 DEF Good, IInv, Shape, TypeOK, DraftTyped, None, Operation, Items
<1>11. Waits'
  <2>1. {q \in requests' : q.kind = "again" /\ q.n = outgoing'.n}
          = {q \in requests : q.kind = "again" /\ q.n = outgoing.n}
    BY <1>1, <1>7, <1>8
  <2>2. outgoing'.pending <= Cardinality({q \in requests' : q.kind = "again" /\ q.n = outgoing'.n})
    BY <1>1, <2>1 DEF Good, IInv, Waits
  <2>3. outgoing'.kind = "poll" => armed' = outgoing'.n
    BY <1>1 DEF Good, IInv, Waits
  <2>4. \A q \in requests' : q.kind = "command" /\ q.done /\ q.n = outgoing'.n =>
          \/ \E k \in DOMAIN events' : events'[k].kind = "polled" /\ events'[k].n = q.n
          \/ q.n \in unheard'
    BY <1>1, <1>7, <1>8 DEF Good, IInv, Waits
  <2>5. \A q \in requests : \E t \in requests' : t.n = q.n
    BY <1>7, <1>8
  <2>6. \A q \in requests : q.kind = "upload" => q \in requests'
    BY <1>7
  <2>7. outgoing' # None /\ ~failed' =>
          \/ \E q \in requests' : q.n = outgoing'.n
          \/ \E k \in DOMAIN events' : events'[k].kind = "polled" /\ events'[k].n = outgoing'.n
          \/ outgoing'.n \in unheard'
    <3> SUFFICES ASSUME outgoing' # None, ~failed'
                 PROVE  \/ \E q \in requests' : q.n = outgoing'.n
                        \/ \E k \in DOMAIN events' : events'[k].kind = "polled" /\ events'[k].n = outgoing'.n
                        \/ outgoing'.n \in unheard'
      OBVIOUS
    <3>1. ~failed
      BY <1>1, Zenon
    <3>2. outgoing # None
      BY <1>1 DEF None, Operation
    <3>3. \/ \E q \in requests : q.n = outgoing.n
          \/ \E k \in DOMAIN events : events[k].kind = "polled" /\ events[k].n = outgoing.n
          \/ outgoing.n \in unheard
      BY <3>1, <3>2, Zenon DEF Good, IInv, Waits, WaitsForSomething
    <3> QED BY <1>1, <2>5, <3>3
  <2>8. \A i \in Items : uploads'[i] = "uploading" =>
          \E q \in requests' : q.kind = "upload" /\ q.item = i
    BY <1>1, <2>6 DEF Good, IInv, Waits, WaitsForSomething
  <2>9. WaitsForSomething'
    BY <2>7, <2>8 DEF WaitsForSomething, None, Operation, Items
  <2> QED BY <2>2, <2>3, <2>4, <2>9 DEF Waits
<1>12. \A q \in requests' :
         \/ q \in requests
         \/ /\ q \in Requests /\ q.kind = "command" /\ ~q.done
            /\ q.n \in DOMAIN log /\ log[q.n].kind = "poll" /\ q.pid = 0 /\ q.files = <<>>
  BY <1>3, <1>6, <1>7, <1>8
<1>13. outgoing'.ids \in [DOMAIN outgoing.files -> 0 .. items]
  <2>1. CASE outgoing # None
    BY <1>1, <1>2, <2>1
  <2>2. CASE outgoing = None
    BY <1>1, <2>2, NoneFields
  <2> QED BY <2>1, <2>2
<1>14. outgoing # None /\ outgoing.n \notin crossed' =>
         \A k \in DOMAIN outgoing'.ids : outgoing'.ids[k] \in {0, outgoing.files[k]}
  BY <1>1 DEF Good, IInv, Attached
<1>15. Missing(outgoing') = Missing(outgoing)
  BY <1>1
<1> QED BY <1>1, <1>2, <1>9, <1>10, <1>11, <1>12, <1>13, <1>14, <1>15, ContinueStep

-------------------------------------------------------------------------------
(* A file that is uploaded again is answered for.                              *)

Answered(r, ok) ==
    LET filled == IF ok THEN Filled(outgoing, r) ELSE outgoing
    IN [filled EXCEPT !.pending = IF @ > 0 THEN @ - 1 ELSE 0]

\* The id goes to the file that the request is for, unless it is about another operation.
LEMMA AnsweredFields ==
    ASSUME Good, NEW r \in requests, r.kind = "again", NEW ok, r.slot \in DOMAIN outgoing.files,
           NEW o, o = Answered(r, ok)
    PROVE  /\ outgoing # None /\ outgoing.n # 0 /\ outgoing.kind # "none"
           /\ outgoing.n \in DOMAIN log
           /\ o \in Operations /\ o.n = outgoing.n /\ o.kind = outgoing.kind
           /\ o.pid = outgoing.pid /\ o.files = outgoing.files /\ o.press = outgoing.press
           /\ o.ids \in [DOMAIN outgoing.files -> 0 .. items]
           /\ (outgoing.n = r.n /\ outgoing.n \notin crossed =>
                 \A k \in DOMAIN o.ids : o.ids[k] \in {0, outgoing.files[k]})
           /\ (Missing(outgoing) = {} => Missing(o) = {})
           /\ o.pending = IF outgoing.pending > 0 THEN outgoing.pending - 1 ELSE 0
<1>1. outgoing # None
  BY NoneFields
<1>2. outgoing.n # 0 /\ outgoing.n \in DOMAIN log /\ outgoing.kind # "none"
      /\ outgoing.files = log[outgoing.n].files
  BY <1>1 DEF Good, IInv, Started
<1>3. /\ outgoing \in Operations /\ outgoing.ids \in [DOMAIN outgoing.files -> 0 .. items]
      /\ items \in 0 .. MaxItems /\ r \in Requests
  BY <1>1 DEF Good, IInv, Shape, TypeOK
<1>4. /\ r.n \in DOMAIN log /\ r.slot \in DOMAIN log[r.n].files
      /\ r.item = log[r.n].files[r.slot] /\ r.item \in 1 .. items
  BY DEF Good, IInv, Owned, Started
<1> DEFINE filled == IF ok THEN Filled(outgoing, r) ELSE outgoing
<1>5. PICK f : f = filled
  OBVIOUS
<1>6. /\ f \in Operations /\ f.n = outgoing.n /\ f.kind = outgoing.kind
      /\ f.pid = outgoing.pid /\ f.files = outgoing.files /\ f.pending = outgoing.pending
      /\ f.press = outgoing.press
      /\ f.ids \in [DOMAIN outgoing.files -> 0 .. items]
      /\ \A k \in DOMAIN outgoing.files :
            f.ids[k] = outgoing.ids[k] \/ (k = r.slot /\ f.ids[k] = r.item)
  <2>1. CASE ~ok
    BY <1>5, <2>1, <1>3
  <2>2. CASE ok
    <3>1. f = [outgoing EXCEPT !.ids[r.slot] = r.item]
      BY <1>5, <2>2 DEF Filled
    <3>2. f.ids = [outgoing.ids EXCEPT ![r.slot] = r.item]
      BY <1>3, <3>1 DEF Operations
    <3>3. /\ f.n = outgoing.n /\ f.kind = outgoing.kind
          /\ f.pid = outgoing.pid /\ f.files = outgoing.files /\ f.pending = outgoing.pending
      /\ f.press = outgoing.press
      BY <1>3, <3>1 DEF Operations
    <3>4. /\ f.ids \in [DOMAIN outgoing.files -> 0 .. items]
          /\ \A k \in DOMAIN outgoing.files :
                f.ids[k] = outgoing.ids[k] \/ (k = r.slot /\ f.ids[k] = r.item)
      BY <1>3, <1>4, <3>2
    <3>5. f.ids \in Files
      BY <1>3, <3>2 DEF Operations, Files, Requests
    <3>6. f \in Operations
      BY <1>3, <3>1, <3>2, <3>5 DEF Operations
    <3> QED BY <3>3, <3>4, <3>6
  <2> QED BY <2>1, <2>2
<1>7. o = [f EXCEPT !.pending = IF f.pending > 0 THEN f.pending - 1 ELSE 0]
  BY <1>5 DEF Answered
<1> HIDE DEF filled
<1>8. /\ o \in Operations /\ o.n = f.n /\ o.kind = f.kind /\ o.pid = f.pid /\ o.files = f.files
      /\ o.press = f.press
      /\ o.ids = f.ids /\ o.pending = IF f.pending > 0 THEN f.pending - 1 ELSE 0
  BY <1>6, <1>7 DEF Operations
<1>9. outgoing.n = r.n /\ outgoing.n \notin crossed =>
         \A k \in DOMAIN o.ids : o.ids[k] \in {0, outgoing.files[k]}
  BY <1>3, <1>6, <1>8, <1>1, <1>2, <1>4 DEF Good, IInv, Attached
<1>10. Missing(outgoing) = {} => Missing(o) = {}
  BY <1>4, <1>6, <1>8 DEF Missing
<1>11. o.ids \in [DOMAIN outgoing.files -> 0 .. items]
  BY <1>6, <1>8
<1> QED BY <1>1, <1>2, <1>6, <1>8, <1>9, <1>10, <1>11

\* The callback of another operation that finds no such slot does nothing.
LEMMA AgainIgnored ==
    ASSUME Good, NEW r \in requests, r.kind = "again", NEW ok, againAnswered(r, ok),
           r.slot \notin DOMAIN outgoing.files
    PROVE  Good'
<1>1. /\ requests' = requests \ {r} /\ nothingFinished /\ armed' = armed
      /\ posts' = posts /\ applied' = applied /\ log' = log /\ items' = items
      /\ returned' = returned /\ events' = events /\ unheard' = unheard
  BY DEF againAnswered, Forget, nothingFinished, server, draft
<1>2. armed \in 0 .. Len(log) /\ unheard \subseteq Nat
  BY DEF Good, IInv, Shape, TypeOK
<1>3. Still
  BY <1>1, <1>2 DEF Still
<1>4. r.n # outgoing.n
  BY NoneFields DEF Good, IInv, Owned, Shape, Started
<1>5. \A q \in requests \ requests' : q = r
  BY <1>1
<1>6. \A q \in requests \ requests' :
         /\ q.n = outgoing.n /\ outgoing # None => failed' \/ (q.kind = "command" /\ q.done)
         /\ ~(q.kind = "again" /\ q.n = outgoing.n)
  BY <1>4, <1>5, Zenon
<1> QED BY <1>1, <1>2, <1>3, <1>6, GoOnStep

\* What an answer is about, or what it crosses.
LEMMA CrossingEffect ==
    ASSUME Good, NEW about, Crossing(about), outgoing.n \in DOMAIN log, outgoing.n # 0
    PROVE  /\ crossed \subseteq crossed' /\ crossed' \subseteq DOMAIN log
           /\ outgoing.n \notin crossed' => outgoing.n = about /\ outgoing.n \notin crossed
BY DEF Crossing, Good, IInv, Shape, TypeOK

\* More answers have to come.
LEMMA AgainWaits ==
    ASSUME Good, NEW r \in requests, r.kind = "again", NEW ok,
           r.slot \in DOMAIN outgoing.files,
           outgoing' = Answered(r, ok), outgoing'.pending > 0, Crossing(r.n), Forget(r),
           UNCHANGED <<text, list, uploads, items, armed, server, resident, log, finished, unheard,
                       touches, editing, failed, returned>>
    PROVE  Good'
<1>1. /\ requests' = requests \ {r}
      /\ text' = text /\ editing' = editing /\ list' = list /\ uploads' = uploads /\ items' = items
      /\ armed' = armed /\ posts' = posts /\ applied' = applied /\ events' = events
      /\ log' = log /\ finished' = finished /\ returned' = returned /\ unheard' = unheard
  BY DEF Forget, server
<1>2. failed' = failed
  OBVIOUS
<1>3. /\ outgoing # None /\ outgoing.n # 0 /\ outgoing.kind # "none"
      /\ outgoing.n \in DOMAIN log
      /\ outgoing' \in Operations /\ outgoing'.n = outgoing.n /\ outgoing'.kind = outgoing.kind
      /\ outgoing'.pid = outgoing.pid /\ outgoing'.files = outgoing.files
      /\ outgoing'.ids \in [DOMAIN outgoing.files -> 0 .. items]
      /\ (outgoing.n = r.n /\ outgoing.n \notin crossed =>
            \A k \in DOMAIN outgoing'.ids : outgoing'.ids[k] \in {0, outgoing.files[k]})
      /\ (Missing(outgoing) = {} => Missing(outgoing') = {})
      /\ outgoing'.pending = IF outgoing.pending > 0 THEN outgoing.pending - 1 ELSE 0
  BY AnsweredFields
<1>4. /\ crossed \subseteq crossed' /\ crossed' \subseteq DOMAIN log
      /\ outgoing.n \notin crossed' => outgoing.n = r.n /\ outgoing.n \notin crossed
  BY <1>3, CrossingEffect
<1>5. IsFiniteSet(requests) /\ IsFiniteSet(requests') /\ outgoing.pending \in Nat
  BY <1>1, FS_Subset DEF Good, IInv, Shape, Operations
<1>6. outgoing' # None
  BY <1>3, NoneFields
<1>7. DraftTyped'
  BY <1>3, <1>1, <1>2, <1>4, <1>6 DEF Good, IInv, Shape, TypeOK, DraftTyped, None, Operation, Items
<1> DEFINE S == {q \in requests : q.kind = "again" /\ q.n = outgoing.n}
           T == {q \in requests' : q.kind = "again" /\ q.n = outgoing'.n}
<1>8. T = S \ {r}
  BY <1>1, <1>3
<1>9. IsFiniteSet(S) /\ outgoing.pending <= Cardinality(S)
  BY <1>5, FS_Subset DEF Good, IInv, Waits
<1> HIDE DEF S, T
<1>10. /\ Cardinality(S) \in Nat /\ IsFiniteSet(T) /\ Cardinality(T) \in Nat
       /\ Cardinality(T) = IF r \in S THEN Cardinality(S) - 1 ELSE Cardinality(S)
  BY <1>8, <1>9, FS_CardinalityType, FS_RemoveElement
<1>11. outgoing'.pending <= Cardinality(T)
  BY <1>3, <1>5, <1>9, <1>10
<1>12. \E q \in requests' : q.n = outgoing'.n
  <2>1. T # {}
    BY <1>3, <1>5, <1>10, <1>11, FS_EmptySet
  <2> QED BY <2>1 DEF T
<1>13. Waits'
  BY <1>1, <1>3, <1>12, <1>11 DEF Good, IInv, Waits, WaitsForSomething, None, Operation, Items, T
<1>14. \A q \in requests' : q \in requests
  BY <1>1
<1>15. outgoing # None /\ outgoing.n \notin crossed' =>
         \A k \in DOMAIN outgoing'.ids : outgoing'.ids[k] \in {0, outgoing.files[k]}
  BY <1>3, <1>4
<1> QED BY <1>1, <1>3, <1>4, <1>5, <1>6, <1>7, <1>13, <1>14, <1>15, ContinueStep

\* A file is still missing: the operation becomes a draft again, and was not posted.
LEMMA AgainReturned ==
    ASSUME Good, NEW r \in requests, r.kind = "again", NEW ok,
           r.slot \in DOMAIN outgoing.files,
           NEW o, o = Answered(r, ok), Missing(o) # {}, Crossing(r.n), Forget(r),
           outgoing' = None, failed' = FALSE, editing' = (o.kind = "edit"),
           returned' = returned \cup {o.n},
           UNCHANGED <<text, list, uploads, items, armed, server, log, finished, unheard>>
    PROVE  Good'
<1>1. /\ requests' = requests \ {r}
      /\ text' = text /\ list' = list /\ uploads' = uploads /\ items' = items
      /\ armed' = armed /\ posts' = posts /\ applied' = applied /\ events' = events
      /\ log' = log /\ finished' = finished /\ unheard' = unheard
  BY DEF Forget, server
<1>2. /\ outgoing # None /\ outgoing.n # 0 /\ outgoing.n \in DOMAIN log
      /\ o.n = outgoing.n /\ (Missing(outgoing) = {} => Missing(o) = {})
  BY AnsweredFields
<1>3. crossed \subseteq crossed' /\ crossed' \subseteq DOMAIN log
  BY <1>2, CrossingEffect
<1>4. outgoing.n \notin finished
  BY <1>2 DEF Good, IInv, Started
<1>5. Shape'
  <2>1. /\ text \in {"empty", "words", "poll"} /\ list \in Seq(1..items)
        /\ uploads \in [Items -> {"none", "uploading", "ready", "failed"}]
        /\ finished \cup returned \cup applied \subseteq DOMAIN log /\ finished \cap returned = {}
        /\ armed \in 0 .. Len(log) /\ unheard \subseteq Nat /\ items \in 0 .. MaxItems
        /\ requests \in SUBSET Requests /\ IsFiniteSet(requests) /\ log \in Seq(Operations)
        /\ events \in Seq(Events)
    BY DEF Good, IInv, Shape, TypeOK
  <2>2. failed' \in BOOLEAN /\ ~failed' /\ editing' \in BOOLEAN
    BY Zenon
  <2>3. IsFiniteSet(requests')
    BY <1>1, <2>1, FS_Subset
  <2>4. /\ text' \in {"empty", "words", "poll"} /\ list' \in Seq(1..items')
        /\ uploads' \in [Items -> {"none", "uploading", "ready", "failed"}]
        /\ armed' \in 0 .. Len(log') /\ finished' \cap returned' = {}
        /\ finished' \cup returned' \cup crossed' \cup applied' \subseteq DOMAIN log'
    BY <1>1, <1>2, <1>3, <1>4, <2>1
  <2>5. TypeOK'
    BY <2>2, <2>4 DEF TypeOK, None, Operation, Items
  <2> QED BY <1>1, <2>1, <2>3, <2>5, NoneFields
       DEF Shape, Operations, Requests, Events, Files
<1>6. Started'
  BY <1>2, <1>1, NoneFields DEF Good, IInv, Started, None, Operation
<1>7. Owned' /\ Made'
  BY <1>1 DEF Good, IInv, Owned, Made
<1>8. Attached'
  BY <1>2, <1>1, <1>3, NoneFields DEF Good, IInv, Attached, Missing, None, Operation
<1>9. Waits'
  BY <1>1, QuietEnd DEF Good
<1>10. KeptUntilSent'
  BY <1>1, <1>3 DEF Good, KeptUntilSent, Delivered
<1> QED BY <1>5, <1>6, <1>7, <1>8, <1>9, <1>10 DEF Good, IInv

\* Nothing is missing any more: the post is sent.
LEMMA AgainSent ==
    ASSUME Good, NEW r \in requests, r.kind = "again", NEW ok,
           r.slot \in DOMAIN outgoing.files,
           outgoing' = Answered(r, ok), outgoing'.pending = 0, Missing(outgoing') = {},
           Crossing(r.n), NEW sent, sent = sendPost(outgoing'), requests' = Sent(sent) \ {r},
           UNCHANGED <<text, list, uploads, items, armed, server, resident, log, finished, unheard,
                       touches, editing, failed, returned>>
    PROVE  Good'
<1>1. /\ text' = text /\ editing' = editing /\ list' = list /\ uploads' = uploads /\ items' = items
      /\ armed' = armed /\ posts' = posts /\ applied' = applied /\ events' = events
      /\ log' = log /\ finished' = finished /\ unheard' = unheard
  BY DEF server
<1>2. failed' = failed
  OBVIOUS
<1>3. PICK o : o = outgoing'
  OBVIOUS
<1>4. /\ outgoing # None /\ outgoing.n # 0 /\ outgoing.kind # "none"
      /\ outgoing.n \in DOMAIN log
      /\ o \in Operations /\ o.n = outgoing.n /\ o.kind = outgoing.kind
      /\ o.pid = outgoing.pid /\ o.files = outgoing.files
      /\ o.ids \in [DOMAIN outgoing.files -> 0 .. items]
      /\ (outgoing.n = r.n /\ outgoing.n \notin crossed =>
            \A k \in DOMAIN o.ids : o.ids[k] \in {0, outgoing.files[k]})
  BY <1>3, AnsweredFields
<1>5. /\ crossed \subseteq crossed' /\ crossed' \subseteq DOMAIN log
      /\ outgoing.n \notin crossed' => outgoing.n = r.n /\ outgoing.n \notin crossed
  BY <1>4, CrossingEffect
<1>6. PICK s : Sent(sendPost(o)) = requests \cup {s} /\ RequestOf(s, o) /\ s.kind # "again"
  BY <1>3, <1>4, PostRequest DEF Good, IInv
<1>7. requests' = (requests \cup {s}) \ {r} /\ s # r /\ s \in requests'
  BY <1>3, <1>6
<1>8. IsFiniteSet(requests')
  BY FS_AddElement, <1>7, FS_Subset DEF Good, IInv, Shape
<1>9. outgoing' # None
  BY <1>3, <1>4, NoneFields
<1>10. DraftTyped'
  <2>1. /\ text \in {"empty", "words", "poll"} /\ {editing, failed} \subseteq BOOLEAN
        /\ list \in Seq(1..items)
        /\ uploads \in [Items -> {"none", "uploading", "ready", "failed"}]
        /\ finished \subseteq DOMAIN log /\ finished \cap returned = {}
        /\ armed \in 0 .. Len(log) /\ unheard \subseteq Nat /\ ~editing
    BY <1>4 DEF Good, IInv, Shape, TypeOK
  <2>2. {editing', failed'} \subseteq BOOLEAN /\ ~editing'
    <3>1. editing \in BOOLEAN /\ failed \in BOOLEAN
      BY <2>1
    <3>2. editing' \in BOOLEAN
      BY <1>1, <3>1, Zenon
    <3>3. failed' \in BOOLEAN
      BY <1>2, <3>1, Zenon
    <3>4. ~editing'
      <4>1. ~editing
        BY <2>1, Zenon
      <4>2. editing' = editing
        BY <1>1, Zenon
      <4> QED BY <4>1, <4>2
    <3> QED BY <3>2, <3>3, <3>4
  <2>3. /\ text' \in {"empty", "words", "poll"} /\ list' \in Seq(1..items')
        /\ uploads' \in [Items -> {"none", "uploading", "ready", "failed"}]
        /\ finished' \cup crossed' \subseteq DOMAIN log' /\ finished' \cap returned' = {}
        /\ armed' \in 0 .. Len(log') /\ unheard' \subseteq Nat
    BY <1>1, <1>5, <2>1
  <2> QED BY <1>9, <2>2, <2>3 DEF DraftTyped, None, Operation, Items
<1>11. s.n = o.n /\ ~s.done
  BY <1>6 DEF RequestOf
<1>12. Waits'
  <2>1. outgoing'.kind = "poll" => armed' = outgoing'.n
    BY <1>1, <1>3, <1>4 DEF Good, IInv, Waits
  <2>2. \A q \in requests' : q.kind = "command" /\ q.done /\ q.n = outgoing'.n =>
          \/ \E k \in DOMAIN events' : events'[k].kind = "polled" /\ events'[k].n = q.n
          \/ q.n \in unheard'
    BY <1>1, <1>3, <1>4, <1>7, <1>11 DEF Good, IInv, Waits
  <2>3. \A i \in Items : uploads'[i] = "uploading" =>
          \E q \in requests' : q.kind = "upload" /\ q.item = i
    BY <1>1, <1>7 DEF Good, IInv, Waits, WaitsForSomething
  <2>4. \E q \in requests' : q.n = outgoing'.n
    BY <1>3, <1>7, <1>11
  <2>5. WaitsForSomething'
    BY <2>3, <2>4 DEF WaitsForSomething, None, Operation, Items
  <2>6. outgoing'.pending <= Cardinality({q \in requests' : q.kind = "again" /\ q.n = outgoing'.n})
    <3> DEFINE S == {q \in requests' : q.kind = "again" /\ q.n = outgoing'.n}
    <3>1. IsFiniteSet(S)
      BY <1>8, FS_Subset
    <3> HIDE DEF S
    <3>2. Cardinality(S) \in Nat
      BY <3>1, FS_CardinalityType
    <3>3. outgoing'.pending <= Cardinality(S)
      BY <3>2
    <3> QED BY <3>3 DEF S
  <2> QED BY <2>1, <2>2, <2>5, <2>6 DEF Waits
<1>13. \A q \in requests' : q \in requests \/ (outgoing # None /\ RequestOf(q, outgoing'))
  BY <1>3, <1>4, <1>6, <1>7
<1>14. outgoing # None /\ outgoing.n \notin crossed' =>
         \A k \in DOMAIN outgoing'.ids : outgoing'.ids[k] \in {0, outgoing.files[k]}
  BY <1>3, <1>4, <1>5
<1> QED BY <1>1, <1>3, <1>4, <1>5, <1>8, <1>9, <1>10, <1>12, <1>13, <1>14, ContinueStep

LEMMA AgainStep ==
    ASSUME Good, NEW r \in requests, r.kind = "again", NEW ok, againAnswered(r, ok)
    PROVE  Good'
BY AgainIgnored, AgainWaits, AgainReturned, AgainSent DEF againAnswered, Answered

-------------------------------------------------------------------------------
(* The server acts on a request.                                               *)

\* What the server makes is what the request asks for, and it makes it once.
ServerMade(r) ==
    /\ posts \subseteq posts' /\ applied \subseteq applied' /\ unheard \subseteq unheard'
    /\ \A p \in posts' : p \notin posts =>
        /\ p.n = r.n /\ \A q \in posts' : q \notin posts => q = p
        /\ \/ r.kind = "post" /\ p.pid = r.n /\ p.files = r.files /\ \A q \in posts' : q.n = r.n => q = p
           \/ r.kind = "command" /\ p.pid = 0 /\ p.files = <<>> /\ p.press = r.press
    /\ \A n \in applied' : n \in applied \/ (r.kind = "edit" /\ n = r.n)
    /\ \A n \in unheard' : n \in unheard \/ n = r.n
    /\ events' \in Seq(Events)
    /\ \A k \in DOMAIN events : k \in DOMAIN events' /\ events'[k] = events[k]
    /\ \A k \in DOMAIN events' : k \notin DOMAIN events =>
        /\ events'[k].n = r.n
        /\ events'[k].kind = "posted" => r.kind = "post" /\ events'[k].pid = r.n
        /\ events'[k].kind = "polled" => r.kind = "command"
        /\ IF events'[k].kind = "edited" THEN r.n \in applied' ELSE \E p \in posts' : p.n = r.n
    /\ r.kind = "post" => \E p \in posts' : p.n = r.n
    /\ r.kind = "edit" => r.n \in applied'
    /\ r.kind = "command" => \/ \E k \in DOMAIN events' : events'[k].kind = "polled" /\ events'[k].n = r.n
                             \/ r.n \in unheard'

LEMMA AppendEvent ==
    ASSUME events \in Seq(Events), NEW e \in Events
    PROVE  /\ Append(events, e) \in Seq(Events)
           /\ \A k \in DOMAIN events : k \in DOMAIN Append(events, e) /\ Append(events, e)[k] = events[k]
           /\ \A k \in DOMAIN Append(events, e) : k \notin DOMAIN events => Append(events, e)[k] = e
           /\ \E k \in DOMAIN Append(events, e) : Append(events, e)[k] = e
<1>1. Len(events) \in Nat /\ DOMAIN events = 1 .. Len(events)
  OBVIOUS
<1>2. PICK s : s = Append(events, e)
  OBVIOUS
<1>3. /\ s \in Seq(Events) /\ Len(s) = Len(events) + 1 /\ DOMAIN s = 1 .. Len(events) + 1
      /\ s[Len(events) + 1] = e /\ \A k \in 1 .. Len(events) : s[k] = events[k]
  BY <1>1, <1>2
<1>4. \A k \in DOMAIN s : k \notin DOMAIN events => k = Len(events) + 1
  BY <1>1, <1>3
<1>5. \A k \in DOMAIN events : k \in DOMAIN s /\ s[k] = events[k]
  BY <1>1, <1>3
<1>6. \E k \in DOMAIN s : s[k] = e
  BY <1>1, <1>3
<1> QED BY <1>2, <1>3, <1>4, <1>5, <1>6

LEMMA AnnouncedFields ==
    ASSUME NEW kind \in {"posted", "edited", "polled"}, NEW n \in Nat, NEW pid \in Nat
    PROVE  /\ Announced(kind, n, pid) \in Events
           /\ Announced(kind, n, pid).kind = kind /\ Announced(kind, n, pid).n = n
           /\ Announced(kind, n, pid).pid = pid
BY DEF Announced, Events

LEMMA ServerEffect ==
    ASSUME Good, NEW r \in requests, r.kind \in {"post", "edit", "command"},
           \/ /\ r.kind = "post"
              /\ IF \E p \in posts : p.pid = r.pid THEN UNCHANGED <<posts, events>>
                 ELSE /\ posts' = posts \cup {NewPost(r)}
                      /\ events' = Append(events, Announced("posted", r.n, r.pid))
              /\ UNCHANGED <<applied, unheard>>
           \/ /\ r.kind = "edit"
              /\ applied' = applied \cup {r.n}
              /\ events' = Append(events, Announced("edited", r.n, 0))
              /\ UNCHANGED <<posts, unheard>>
           \/ /\ r.kind = "command"
              /\ posts' = posts \cup {NewPost(r)}
              /\ events' = Append(events, Announced("polled", r.n, 0))
              /\ UNCHANGED <<applied, unheard>>
           \/ /\ r.kind = "command"
              /\ unheard' = unheard \cup {r.n}
              /\ UNCHANGED <<posts, applied, events>>
    PROVE  ServerMade(r)
<1>1. /\ r.n \in Nat /\ r.pid \in Nat /\ r.files \in Files /\ <<>> \in Files
      /\ events \in Seq(Events)
  BY DEF Good, IInv, Shape, Requests, Files
<1>2. CASE r.kind = "post"
  <2>1. r.pid = r.n /\ log[r.n].kind = "post" /\ r.n # 0
    BY <1>2 DEF Good, IInv, Owned, Shape
  <2>2. \A q \in posts : q.pid = r.pid <=> q.n = r.n
    BY <2>1 DEF Good, IInv, Made
  <2>3. applied' = applied /\ unheard' = unheard
    BY <1>2
  <2>4. CASE \E p \in posts : p.pid = r.pid
    BY <1>2, <2>4, <1>1, <2>2, <2>3 DEF ServerMade
  <2>5. CASE ~\E p \in posts : p.pid = r.pid
    <3>1. PICK p : p = NewPost(r)
      OBVIOUS
    <3>2. p.n = r.n /\ p.pid = r.n /\ p.files = r.files
      BY <2>1, <3>1 DEF NewPost
    <3>3. PICK e \in Events : e = Announced("posted", r.n, r.pid) /\ e.kind = "posted"
                              /\ e.n = r.n /\ e.pid = r.n
      BY <1>1, <2>1, AnnouncedFields
    <3>4. posts' = posts \cup {p} /\ events' = Append(events, e)
      BY <1>2, <2>5, <3>1, <3>3
    <3>5. \A q \in posts' : q.n = r.n => q = p
      BY <2>2, <2>5, <3>4
    <3>6. /\ events' \in Seq(Events)
          /\ \A k \in DOMAIN events : k \in DOMAIN events' /\ events'[k] = events[k]
          /\ \A k \in DOMAIN events' : k \notin DOMAIN events => events'[k] = e
      BY <1>1, <3>4, AppendEvent
    <3>7. \A q \in posts' : q \notin posts => q = p
      BY <3>4
    <3>8. p \in posts'
      BY <3>4
    <3> QED BY <1>2, <2>3, <3>2, <3>3, <3>4, <3>5, <3>6, <3>7, <3>8 DEF ServerMade
  <2> QED BY <2>4, <2>5
<1>3. CASE r.kind = "edit"
  <2>1. PICK e \in Events : e = Announced("edited", r.n, 0) /\ e.kind = "edited" /\ e.n = r.n
    BY <1>1, AnnouncedFields
  <2>2. /\ applied' = applied \cup {r.n} /\ events' = Append(events, e)
        /\ posts' = posts /\ unheard' = unheard
    BY <1>3, <2>1
  <2>3. /\ events' \in Seq(Events)
        /\ \A k \in DOMAIN events : k \in DOMAIN events' /\ events'[k] = events[k]
        /\ \A k \in DOMAIN events' : k \notin DOMAIN events => events'[k] = e
    BY <1>1, <2>2, AppendEvent
  <2> QED BY <1>3, <2>1, <2>2, <2>3 DEF ServerMade
<1>4. CASE r.kind = "command"
  <2>1. CASE posts' = posts \cup {NewPost(r)}
             /\ events' = Append(events, Announced("polled", r.n, 0))
             /\ applied' = applied /\ unheard' = unheard
    <3>1. PICK p : p = NewPost(r)
      OBVIOUS
    <3>2. p.n = r.n /\ p.pid = 0 /\ p.files = <<>> /\ p.press = r.press
      BY <1>4, <3>1 DEF NewPost, Good, IInv, Owned
    <3>3. PICK e \in Events : e = Announced("polled", r.n, 0) /\ e.kind = "polled" /\ e.n = r.n
      BY <1>1, AnnouncedFields
    <3>4. posts' = posts \cup {p} /\ events' = Append(events, e)
      BY <2>1, <3>1, <3>3
    <3>5. /\ events' \in Seq(Events)
          /\ \A k \in DOMAIN events : k \in DOMAIN events' /\ events'[k] = events[k]
          /\ \A k \in DOMAIN events' : k \notin DOMAIN events => events'[k] = e
          /\ \E k \in DOMAIN events' : events'[k] = e
      BY <1>1, <3>4, AppendEvent
    <3>6. \A q \in posts' : q \notin posts => q = p
      BY <3>4
    <3>7. p \in posts'
      BY <3>4
    <3> QED BY <1>4, <2>1, <3>2, <3>3, <3>4, <3>5, <3>6, <3>7 DEF ServerMade
  <2>2. CASE unheard' = unheard \cup {r.n} /\ posts' = posts /\ applied' = applied /\ events' = events
    BY <1>1, <1>4, <2>2 DEF ServerMade
  <2> QED BY <1>4, <2>1, <2>2
<1> QED BY <1>2, <1>3, <1>4

LEMMA ExecuteStep ==
    ASSUME Good, Execute
    PROVE  Good'
<1>1. PICK r \in requests :
        /\ r.kind \in {"post", "edit", "command"} /\ ~r.done
        /\ Executed(r)
        /\ ServerMade(r)
        /\ UNCHANGED <<draft, outgoing, failed, armed, resident, log, finished, returned, crossed, faults, touches>>
  BY ServerEffect, Zenon DEF Execute
<1>2. /\ text' = text /\ editing' = editing /\ list' = list /\ uploads' = uploads /\ items' = items
      /\ outgoing' = outgoing /\ armed' = armed
      /\ log' = log /\ finished' = finished /\ returned' = returned /\ crossed' = crossed
  BY <1>1 DEF draft
<1>3. failed' = failed
  BY <1>1
<1>4. PICK d : d = [r EXCEPT !.done = TRUE]
  OBVIOUS
<1>5. requests' = (requests \ {r}) \cup {d}
  BY <1>1, <1>4 DEF Executed
<1>6. r \in Requests
  BY DEF Good, IInv, Shape
<1>7. /\ d \in Requests /\ d.kind = r.kind /\ d.n = r.n /\ d.pid = r.pid /\ d.files = r.files
      /\ d.item = r.item /\ d.slot = r.slot
  BY <1>4, <1>6 DEF Requests
<1>8. r.n \in DOMAIN log /\ r.n # 0 /\ r.n \in Nat
  BY <1>1 DEF Good, IInv, Owned, Shape
<1>9. IsFiniteSet(requests')
  BY FS_Subset, <1>5, FS_AddElement DEF Good, IInv, Shape
<1>10. Shape'
  <2>1. TypeOK'
    BY <1>1, <1>8, <1>2, <1>3 DEF ServerMade, Good, IInv, Shape, TypeOK, None, Operation, Items
  <2>2. /\ requests' \in SUBSET Requests
        /\ outgoing' \in Operations /\ log' \in Seq(Operations) /\ items' \in 0 .. MaxItems
    BY <1>2, <1>5, <1>7 DEF Good, IInv, Shape
  <2>3. events' \in Seq(Events)
    BY <1>1 DEF ServerMade, Good, IInv, Shape
  <2>4. unheard' \subseteq Nat
    BY <1>1, <1>8 DEF ServerMade, Good, IInv, Shape
  <2> QED BY <1>9, <2>1, <2>2, <2>3, <2>4
       DEF Shape, Operations, Requests, Events, Files
<1>11. Started'
  BY <1>2 DEF Good, IInv, Started, None, Operation
<1>12. Owned'
  BY <1>2, <1>5, <1>7 DEF Good, IInv, Owned
<1>13. /\ r.kind = "post" => log[r.n].kind = "post" /\ r.pid = r.n
       /\ r.kind = "edit" => log[r.n].kind = "edit"
       /\ r.kind = "command" => log[r.n].kind = "poll"
  BY DEF Good, IInv, Owned
<1>14. Made'
  BY <1>1, <1>8, <1>13, <1>7, <1>5, <1>2 DEF Good, IInv, Made, ServerMade
<1>15. Attached'
  BY <1>2, <1>5, <1>7, <1>1, <1>8, <1>13, NoneFields DEF Good, IInv, Attached, None, Operation,
     ServerMade, Started, Missing
<1>16. \A k \in DOMAIN events : k \in DOMAIN events' /\ events'[k] = events[k]
  BY <1>1 DEF ServerMade
<1>17. unheard \subseteq unheard'
  BY <1>1 DEF ServerMade
<1>18. Waits'
  <2>1. {q \in requests' : q.kind = "again" /\ q.n = outgoing'.n}
          = {q \in requests : q.kind = "again" /\ q.n = outgoing.n}
    BY <1>1, <1>2, <1>5, <1>7
  <2>2. outgoing'.pending <= Cardinality({q \in requests' : q.kind = "again" /\ q.n = outgoing'.n})
    BY <1>2, <2>1 DEF Good, IInv, Waits
  <2>3. outgoing'.kind = "poll" => armed' = outgoing'.n
    BY <1>2 DEF Good, IInv, Waits
  <2>4. \A q \in requests' : q.kind = "command" /\ q.done /\ q.n = outgoing'.n =>
          \/ \E k \in DOMAIN events' : events'[k].kind = "polled" /\ events'[k].n = q.n
          \/ q.n \in unheard'
    BY <1>2, <1>16, <1>17, <1>1, <1>7, <1>5 DEF Good, IInv, Waits, ServerMade
  <2>5. \A q \in requests : \E t \in requests' : t.n = q.n
    BY <1>5, <1>7
  <2>6. \A q \in requests : q.kind = "upload" => q \in requests'
    BY <1>1, <1>5
  <2>7. outgoing' # None /\ ~failed' =>
          \/ \E q \in requests' : q.n = outgoing'.n
          \/ \E k \in DOMAIN events' : events'[k].kind = "polled" /\ events'[k].n = outgoing'.n
          \/ outgoing'.n \in unheard'
    BY <1>3, <1>2, <1>16, <1>17, <2>5 DEF None, Operation, Good, IInv, Waits, WaitsForSomething
  <2>8. \A i \in Items : uploads'[i] = "uploading" =>
          \E q \in requests' : q.kind = "upload" /\ q.item = i
    BY <1>2, <2>6 DEF Good, IInv, Waits, WaitsForSomething
  <2>9. WaitsForSomething'
    BY <2>7, <2>8 DEF WaitsForSomething, None, Operation, Items
  <2> QED BY <2>2, <2>3, <2>4, <2>9 DEF Waits
<1>19. KeptUntilSent'
  BY <1>1, <1>2 DEF ServerMade, Good, KeptUntilSent, Delivered
<1> QED BY <1>10, <1>11, <1>12, <1>14, <1>15, <1>18, <1>19 DEF Good, IInv

-------------------------------------------------------------------------------
(* What a draft, and what an operation, begins with.                           *)

\* The upload of a file that is added is under way.
LEMMA AddedStep ==
    ASSUME Good, fileAdded
    PROVE  Good'
<1>1. /\ outgoing = None /\ items < MaxItems /\ items' = items + 1
      /\ list' = Append(list, items + 1) /\ uploads' = [uploads EXCEPT ![items + 1] = "uploading"]
      /\ text' = text /\ editing' = editing
      /\ outgoing' = outgoing /\ armed' = armed /\ posts' = posts /\ applied' = applied
      /\ events' = events /\ log' = log /\ finished' = finished /\ returned' = returned
      /\ crossed' = crossed /\ unheard' = unheard
  BY DEF fileAdded, untouched, server, history
<1>2. failed' = failed
  BY DEF fileAdded, untouched
<1>3. /\ items \in 0 .. MaxItems /\ items' \in 1 .. MaxItems /\ items' \in Items
      /\ items' \in 0 .. MaxItems
  BY <1>1, Bounds DEF Good, IInv, Shape, Items
<1>4. PICK q \in Requests : q = Request("upload", 0) /\ q.n = 0 /\ q.kind = "upload" /\ q.done = FALSE
  BY FreshRequest DEF Kinds
<1>5. PICK u : u = [q EXCEPT !.item = items']
  OBVIOUS
<1>6. u \in Requests /\ u.n = 0 /\ u.kind = "upload" /\ u.item = items' /\ ~u.done
  BY <1>3, <1>4, <1>5 DEF Requests
<1>7. requests' = requests \cup {u}
  BY <1>4, <1>5 DEF fileAdded
<1>8. Shape'
  <2>1. /\ text \in {"empty", "words", "poll"} /\ {editing, failed} \subseteq BOOLEAN
        /\ list \in Seq(1..items) /\ uploads \in [Items -> {"none", "uploading", "ready", "failed"}]
        /\ finished \cup returned \cup crossed \cup applied \subseteq DOMAIN log
        /\ finished \cap returned = {} /\ armed \in 0..Len(log)
        /\ requests \in SUBSET Requests /\ IsFiniteSet(requests) /\ log \in Seq(Operations)
        /\ outgoing \in Operations
        /\ events \in Seq(Events) /\ unheard \subseteq Nat
    BY DEF Good, IInv, Shape, TypeOK
  <2>2. ~failed
    BY <1>1 DEF Good, IInv, Shape, TypeOK
  <2>3. editing' \in BOOLEAN
    BY <2>1, <1>1
  <2>4. failed' \in BOOLEAN /\ ~failed'
    BY <2>1, <1>2, <2>2
  <2>5. list' \in Seq(1..items')
    BY <1>1, <1>3, <2>1
  <2>6. uploads' \in [Items -> {"none", "uploading", "ready", "failed"}]
    BY <1>1, <2>1
  <2>7. IsFiniteSet(requests')
    BY <1>7, <2>1, FS_AddElement
  <2>8. TypeOK'
    BY <1>1, <2>1, <2>3, <2>4, <2>5, <2>6 DEF TypeOK, None, Operation, Items
  <2>9. requests' \in SUBSET Requests
    BY <1>6, <1>7, <2>1
  <2>10. /\ outgoing' \in Operations /\ log' \in Seq(Operations) /\ items' \in 0 .. MaxItems
         /\ events' \in Seq(Events) /\ unheard' \subseteq Nat
    BY <1>1, <1>3, <2>1
  <2> QED BY <2>7, <2>8, <2>9, <2>10 DEF Shape, Operations, Requests, Events, Files
<1>9. Started'
  BY <1>1, <1>3 DEF Good, IInv, Started, None, Operation
<1>10. Owned'
  BY <1>1, <1>3, <1>6, <1>7 DEF Good, IInv, Owned
<1>11. Made'
  BY <1>1, <1>6, <1>7 DEF Good, IInv, Made
<1>12. Attached'
  BY <1>1, <1>6, <1>7 DEF Good, IInv, Attached, None, Operation, Missing
<1>13. Waits'
  <2>1. {r \in requests' : r.kind = "again" /\ r.n = outgoing'.n}
          = {r \in requests : r.kind = "again" /\ r.n = outgoing.n}
    BY <1>1, <1>6, <1>7
  <2>2. outgoing'.pending <= Cardinality({r \in requests' : r.kind = "again" /\ r.n = outgoing'.n})
    BY <1>1, <2>1 DEF Good, IInv, Waits
  <2>3. outgoing'.kind = "poll" => armed' = outgoing'.n
    BY <1>1 DEF Good, IInv, Waits
  <2>4. \A r \in requests' : r.kind = "command" /\ r.done /\ r.n = outgoing'.n =>
          \/ \E k \in DOMAIN events' : events'[k].kind = "polled" /\ events'[k].n = r.n
          \/ r.n \in unheard'
    BY <1>1, <1>6, <1>7 DEF Good, IInv, Waits
  <2>5. \A i \in Items : uploads'[i] = "uploading" =>
          \E r \in requests' : r.kind = "upload" /\ r.item = i
    BY <1>6, <1>7, <1>1 DEF Good, IInv, Shape, TypeOK, Waits, WaitsForSomething
  <2>6. WaitsForSomething'
    BY <1>1, <2>5 DEF WaitsForSomething, None, Operation, Items
  <2> QED BY <2>2, <2>3, <2>4, <2>6 DEF Waits
<1>14. KeptUntilSent'
  BY <1>1 DEF Good, KeptUntilSent, Delivered
<1> QED BY <1>8, <1>9, <1>10, <1>11, <1>12, <1>13, <1>14 DEF Good, IInv

\* What a click on Send, and the dialog of a poll, starts.
Composed(o) ==
    /\ o \in Operations /\ o.n = Len(log) + 1 /\ o.kind # "none"
    /\ o.pid = IF o.kind = "poll" THEN 0 ELSE o.n
    /\ o.kind = "poll" => o.files = <<>>
    /\ \A k \in DOMAIN o.files : o.files[k] \in 1 .. items
    /\ o.ids \in [DOMAIN o.files -> 0 .. items]
    /\ \A k \in DOMAIN o.ids : o.ids[k] \in {0, o.files[k]}

LEMMA StartComposed ==
    ASSUME Good, sendPostButtonAction \/ pollAccepted
    PROVE  \E o : /\ Composed(o) /\ Start(o) /\ outgoing = None
                  /\ text' = text /\ ~editing' /\ editing' \in BOOLEAN
                  /\ armed' \in {armed, o.n} /\ (o.kind = "poll" => armed' = o.n)
<1>1. Len(log) + 1 \in Nat /\ items \in 0 .. MaxItems /\ list \in Seq(1 .. items)
  BY DEF Good, IInv, Shape, TypeOK
<1>2. CASE sendPostButtonAction
  <2> DEFINE kind == IF editing THEN "edit" ELSE "post"
             ids == [k \in DOMAIN list |-> IF uploads[list[k]] = "ready" THEN list[k] ELSE 0]
  <2>1. kind \in {"post", "edit"} /\ kind \in {"none", "post", "edit", "poll"}
    OBVIOUS
  <2>2. PICK e \in Operations :
          /\ e = Operation(Len(log) + 1, kind) /\ e.n = Len(log) + 1 /\ e.kind = kind /\ e.pid = 0
          /\ e.pending = 0 /\ e.files = <<>> /\ e.ids = <<>>
    <3> HIDE DEF kind
    <3> QED BY <1>1, <2>1, FreshOperation
  <2>3. PICK o : o = [e EXCEPT !.pid = Len(log) + 1, !.files = list, !.ids = ids]
    OBVIOUS
  <2>4. /\ Start(o) /\ outgoing = None /\ editing' = FALSE /\ text' = text /\ armed' = armed
    BY <1>2, <2>2, <2>3 DEF sendPostButtonAction
  <2>5. DOMAIN list = 1 .. Len(list) /\ Len(list) \in Nat /\ \A k \in DOMAIN list : list[k] \in 1 .. items
    BY <1>1
  <2>6. /\ ids \in [DOMAIN list -> 0 .. items] /\ \A k \in DOMAIN ids : ids[k] \in {0, list[k]}
        /\ ids \in Seq(0 .. MaxItems)
    BY <1>1, <2>5, Bounds
  <2>7. list \in Seq(0 .. MaxItems)
    BY <1>1, <2>5, Bounds
  <2> HIDE DEF ids, kind
  <2>8. /\ o \in Operations /\ o.n = Len(log) + 1 /\ o.kind = kind /\ o.pid = Len(log) + 1
        /\ o.files = list /\ o.ids = ids
    BY <1>1, <2>2, <2>3, <2>6, <2>7 DEF Operations, Files
  <2>9. Composed(o)
    BY <2>1, <2>5, <2>6, <2>8 DEF Composed
  <2>10. ~editing' /\ editing' \in BOOLEAN
    BY <2>4, Zenon
  <2> QED BY <2>1, <2>4, <2>8, <2>9, <2>10
<1>3. CASE pollAccepted
  <2>1. PICK o \in Operations :
          /\ o = Operation(Len(log) + 1, "poll") /\ o.n = Len(log) + 1 /\ o.kind = "poll" /\ o.pid = 0
          /\ o.pending = 0 /\ o.files = <<>> /\ o.ids = <<>>
    BY <1>1, FreshOperation
  <2>2. /\ Start(o) /\ outgoing = None /\ text' = text /\ armed' = Len(log) + 1
    BY <1>3, <2>1 DEF pollAccepted
  <2>3. ~editing' /\ editing' \in BOOLEAN
    BY <1>3 DEF pollAccepted, Good, IInv, Shape, TypeOK
  <2>4. Composed(o)
    <3>1. DOMAIN o.files = {} /\ DOMAIN o.ids = {}
      BY <2>1
    <3>2. o.ids \in [DOMAIN o.files -> 0 .. items]
      <4>1. <<>> \in [{} -> 0 .. items]
        OBVIOUS
      <4> QED BY <2>1, <3>1, <4>1
    <3> QED BY <2>1, <3>1, <3>2 DEF Composed
  <2> QED BY <2>1, <2>2, <2>3, <2>4
<1> QED BY <1>2, <1>3

\* An operation starts: nothing of it, and no request for it, was there before.
LEMMA StartStep ==
    ASSUME Good, sendPostButtonAction \/ pollAccepted
    PROVE  Good'
<1>1. PICK o : /\ Composed(o) /\ Start(o) /\ outgoing = None
               /\ text' = text /\ ~editing' /\ editing' \in BOOLEAN
               /\ armed' \in {armed, o.n} /\ (o.kind = "poll" => armed' = o.n)
  BY StartComposed
<1>2. /\ log' = Append(log, o) /\ failed' = FALSE /\ prepareAndSendPost(o)
      /\ list' = list /\ uploads' = uploads /\ items' = items
      /\ posts' = posts /\ applied' = applied /\ events' = events
      /\ finished' = finished /\ returned' = returned /\ crossed' = crossed /\ unheard' = unheard
  BY <1>1 DEF Start, server
<1>3. /\ o \in Operations /\ o.n = Len(log) + 1 /\ o.kind # "none" /\ o.n # 0
      /\ o.pid = IF o.kind = "poll" THEN 0 ELSE o.n
      /\ o.kind = "poll" => o.files = <<>>
      /\ \A k \in DOMAIN o.files : o.files[k] \in 1 .. items
      /\ o.ids \in [DOMAIN o.files -> 0 .. items]
      /\ \A k \in DOMAIN o.ids : o.ids[k] \in {0, o.files[k]}
      /\ log \in Seq(Operations) /\ items \in 0 .. MaxItems
  BY <1>1 DEF Composed, Good, IInv, Shape
<1>4. /\ outgoing' \in Operations /\ outgoing'.n = o.n /\ outgoing'.kind = o.kind
      /\ outgoing'.pid = o.pid /\ outgoing'.files = o.files /\ outgoing'.ids = o.ids
      /\ Missing(outgoing') = Missing(o)
  BY <1>2, <1>3, PrepareOutgoing
<1>5. PICK batch :
        /\ requests' = requests \cup batch /\ batch # {} /\ IsFiniteSet(batch)
        /\ \A r \in batch : RequestOf(r, o)
        /\ outgoing'.pending <= Cardinality({r \in batch : r.kind = "again"})
  <2>1. \A k \in DOMAIN o.files : o.files[k] \in 1 .. MaxItems
    BY <1>3, Bounds
  <2> QED BY <1>2, <1>3, <2>1, PrepareEffect DEF Good, IInv
<1>6. /\ Len(log) \in Nat /\ DOMAIN log = 1 .. Len(log)
      /\ log' \in Seq(Operations) /\ Len(log') = o.n /\ DOMAIN log' = 1 .. o.n
      /\ log'[o.n] = o /\ \A n \in DOMAIN log : n # o.n /\ n \in DOMAIN log' /\ log'[n] = log[n]
      /\ \A n \in DOMAIN log' : n \in DOMAIN log \/ n = o.n
      /\ o.n \notin DOMAIN log /\ o.n \in DOMAIN log'
  BY <1>3, <1>2
<1>7. outgoing' # None
  BY <1>3, <1>4, NoneFields
<1>8. IsFiniteSet(requests')
  BY <1>5, FS_Union DEF Good, IInv, Shape
<1>9. \A r \in batch : r \in Requests /\ r.n = o.n /\ ~r.done
  BY <1>5 DEF RequestOf
<1>10. finished \cup returned \cup crossed \cup applied \subseteq DOMAIN log
  BY DEF Good, IInv, Shape, TypeOK
<1>11. Shape'
  <2>1. /\ text \in {"empty", "words", "poll"} /\ list \in Seq(1..items)
        /\ uploads \in [Items -> {"none", "uploading", "ready", "failed"}]
        /\ finished \cap returned = {} /\ armed \in 0..Len(log)
        /\ requests \in SUBSET Requests
        /\ events \in Seq(Events) /\ unheard \subseteq Nat
    BY DEF Good, IInv, Shape, TypeOK
  <2>2. {editing', failed'} \subseteq BOOLEAN
    BY <1>1, <1>2
  <2>3. ~failed'
    BY <1>2, Zenon
  <2>4. outgoing' # None => /\ outgoing'.n = Len(log') /\ ~editing'
                            /\ outgoing'.ids \in [DOMAIN outgoing'.files -> 0..items']
    BY <1>2, <1>3, <1>4, <1>6, <1>1
  <2>5. armed' \in 0 .. Len(log')
    BY <1>1, <1>3, <1>6, <2>1
  <2>6. finished' \cup returned' \cup crossed' \cup applied' \subseteq DOMAIN log'
    BY <1>2, <1>6, <1>10
  <2>7. TypeOK'
    BY <1>1, <1>2, <2>1, <2>2, <2>3, <2>4, <2>5, <2>6 DEF TypeOK, None, Operation, Items
  <2>8. requests' \in SUBSET Requests
    BY <1>5, <1>9, <2>1
  <2>9. /\ log' \in Seq(Operations) /\ items' \in 0 .. MaxItems
        /\ events' \in Seq(Events) /\ unheard' \subseteq Nat
    BY <1>2, <1>3, <1>6, <2>1
  <2> QED BY <1>4, <1>8, <2>7, <2>8, <2>9 DEF Shape, Operations, Requests, Events, Files
<1>12. Started'
  BY <1>2, <1>3, <1>6, <1>10, <1>4 DEF Good, IInv, Started, None, Operation
<1>13. \A r \in requests : /\ r.n # o.n
                           /\ r.kind # "upload" => r.n \in DOMAIN log /\ log'[r.n] = log[r.n]
  BY <1>3, <1>6 DEF Good, IInv, Owned
<1>14. Owned'
  <2> SUFFICES ASSUME NEW r \in requests'
               PROVE  /\ r.kind = "upload" => r.n = 0
                      /\ r.kind \in {"upload", "again"} => r.item # 0
                      /\ r.kind # "upload" => r.n \in DOMAIN log'
                      /\ r.kind = "again" => r.slot \in DOMAIN log'[r.n].files
                                             /\ r.item = log'[r.n].files[r.slot]
                      /\ r.kind = "post" => log'[r.n].kind = "post" /\ r.pid = r.n
                      /\ r.kind = "edit" => log'[r.n].kind = "edit"
                      /\ r.kind \in {"configuration", "command"} => log'[r.n].kind = "poll"
                      /\ r.kind = "command" => r.pid = 0 /\ r.files = <<>>
    BY DEF Owned
  <2>1. CASE r \in requests
    BY <1>6, <1>13, <2>1 DEF Good, IInv, Owned
  <2>2. CASE r \in batch
    <3>1. Missing(o) \subseteq DOMAIN o.files /\ log'[r.n] = o /\ r.n \in DOMAIN log'
      BY <1>6, <1>9, <2>2 DEF Missing
    <3>2. o.kind \in {"none", "post", "edit", "poll"}
      BY <1>3 DEF Operations
    <3>3. RequestOf(r, o)
      BY <1>5, <2>2
    <3> QED BY <1>3, <3>1, <3>2, <3>3 DEF RequestOf
  <2> QED BY <1>5, <2>1, <2>2
<1>15. Made'
  BY <1>6, <1>10, <1>2, <1>5, <1>9 DEF Good, IInv, Made
<1>16. Attached'
  <2>1. outgoing' # None /\ outgoing'.n \notin crossed' =>
          \A k \in DOMAIN outgoing'.ids : outgoing'.ids[k] \in {0, outgoing'.files[k]}
    BY <1>3, <1>4
  <2>2. \A r \in requests' : r.kind = "post" =>
          /\ r.n \notin crossed' => r.files = log'[r.n].files
          /\ r.n = outgoing'.n => Missing(outgoing') = {}
          /\ r.n \notin returned'
    <3> SUFFICES ASSUME NEW r \in requests', r.kind = "post"
                 PROVE  /\ r.n \notin crossed' => r.files = log'[r.n].files
                        /\ r.n = outgoing'.n => Missing(outgoing') = {}
                        /\ r.n \notin returned'
      OBVIOUS
    <3>1. CASE r \in requests
      BY <1>2, <1>4, <1>13, <3>1 DEF Good, IInv, Attached
    <3>2. CASE r \in batch
      <4>1. r.n = o.n /\ Missing(o) = {} /\ r.files = o.ids
        BY <1>5, <3>2 DEF RequestOf
      <4>2. \A k \in DOMAIN o.files : o.ids[k] = o.files[k]
        BY <1>3, <4>1 DEF Missing
      <4>3. o.files \in Seq(0 .. MaxItems) /\ o.ids \in Seq(0 .. MaxItems)
            /\ DOMAIN o.ids = DOMAIN o.files
        BY <1>3 DEF Operations, Files
      <4>4. o.ids = o.files
        BY <4>2, <4>3
      <4> QED BY <1>2, <1>4, <1>6, <1>10, <4>1, <4>4
    <3> QED BY <1>5, <3>1, <3>2
  <2>3. \A p \in posts' :
          /\ p.n \notin crossed' => p.files = log'[p.n].files
          /\ p.n = outgoing'.n => Missing(outgoing') = {}
          /\ p.n \notin returned'
    BY <1>6, <1>2, <1>4 DEF Good, IInv, Made, Attached
  <2> QED BY <2>1, <2>2, <2>3 DEF Attached, Missing, None, Operation
<1>17. Waits'
  <2>1. outgoing'.pending <= Cardinality({r \in requests' : r.kind = "again" /\ r.n = outgoing'.n})
    <3> DEFINE S == {r \in batch : r.kind = "again"}
               T == {r \in requests' : r.kind = "again" /\ r.n = outgoing'.n}
    <3>1. S \subseteq T /\ outgoing'.pending \in Nat
      BY <1>4, <1>5, <1>9 DEF Operations
    <3>2. IsFiniteSet(T)
      BY <1>8, FS_Subset
    <3>3. outgoing'.pending <= Cardinality(S)
      BY <1>5
    <3> HIDE DEF S, T
    <3>4. outgoing'.pending <= Cardinality(T)
      BY <3>1, <3>2, <3>3, MoreAgain
    <3> QED BY <3>4 DEF T
  <2>2. outgoing'.kind = "poll" => armed' = outgoing'.n
    BY <1>1, <1>4
  <2>3. \A r \in requests' : r.kind = "command" /\ r.done /\ r.n = outgoing'.n =>
          \/ \E k \in DOMAIN events' : events'[k].kind = "polled" /\ events'[k].n = r.n
          \/ r.n \in unheard'
    BY <1>4, <1>5, <1>9, <1>13
  <2>4. \E r \in requests' : r.n = outgoing'.n
    BY <1>4, <1>5, <1>9
  <2>5. WaitsForSomething'
    BY <1>2, <1>5, <2>4 DEF Good, IInv, Waits, WaitsForSomething, Items
  <2> QED BY <2>1, <2>2, <2>3, <2>5 DEF Waits
<1>18. KeptUntilSent'
  BY <1>6, <1>10, <1>2 DEF Good, KeptUntilSent, Delivered
<1> QED BY <1>11, <1>12, <1>14, <1>15, <1>16, <1>17, <1>18 DEF Good, IInv

-------------------------------------------------------------------------------
(* A poll is made at most once for each press of Send: the request for the     *)
(* trigger word and the command it becomes carry the number of their press.    *)

Unrun(r) == r.kind = "configuration" \/ (r.kind = "command" /\ ~r.done)

Pressed ==
    /\ \A r \in requests : Unrun(r) =>
        /\ r.n = outgoing.n => r.press <= outgoing.press
        /\ \A q \in requests : Unrun(q) /\ q.n = r.n /\ q.press = r.press => q = r
        /\ \A p \in posts : p.n = r.n => p.press # r.press
    /\ \A p \in posts : log[p.n].kind = "poll" =>
        /\ p.press \in Nat /\ (p.n = outgoing.n => p.press <= outgoing.press)
        /\ \A q \in posts : p.n = q.n /\ p.press = q.press => p = q

\* What is sent of an operation is of this kind for a poll only.
LEMMA BatchUnrun ==
    \A o \in Operations : \A r : RequestOf(r, o) /\ Unrun(r) =>
        r.n = o.n /\ r.press = o.press /\ o.kind = "poll" /\ r.kind # "again"
BY DEF Operations, Unrun, RequestOf

\* Steps that send no such request and make no poll.
LEMMA PressedStill ==
    ASSUME Good, Pressed, posts' = posts, log' = log,
           \/ outgoing'.n = outgoing.n /\ outgoing'.press = outgoing.press
           \/ outgoing' = None,
           \A r \in requests' : Unrun(r) => r \in requests
    PROVE  Pressed'
BY NoneFields DEF Good, IInv, Shape, Owned, Unrun, Made, Pressed

LEMMA PressedFinish ==
    ASSUME Good, Pressed, posts' = posts, log' = log, requests' \subseteq requests,
           outgoing' \in {outgoing, None}
    PROVE  Pressed'
BY PressedStill

\* A retry is a press of its own.
LEMMA PressedRetry ==
    ASSUME Good, Pressed, retry
    PROVE  Pressed'
<1> DEFINE o == [outgoing EXCEPT !.press = @ + 1]
<1>1. /\ outgoing # None /\ prepareAndSendPost(o) /\ posts' = posts /\ log' = log
  BY DEF retry, Again, server, history
<1>2. outgoing \in Operations
  BY DEF Good, IInv, Shape
<1>3. /\ o \in Operations /\ o.n = outgoing.n /\ o.kind = outgoing.kind /\ o.files = outgoing.files
      /\ o.press = outgoing.press + 1 /\ outgoing.press \in Nat
  BY <1>2 DEF Operations
<1> HIDE DEF o
<1>4. outgoing'.n = outgoing.n /\ outgoing'.press = outgoing.press + 1
  BY <1>1, <1>3, PrepareOutgoing
<1>5. /\ outgoing.kind # "none"
      /\ \A k \in DOMAIN outgoing.files : outgoing.files[k] \in 1 .. MaxItems
  BY <1>1, Bounds DEF Good, IInv, Started, Shape
<1>6. PICK batch :
        /\ requests' = requests \cup batch
        /\ \A r \in batch : RequestOf(r, o) /\ \A q \in batch : r.kind # "again" => r = q
  BY <1>1, <1>3, <1>5, PrepareEffect DEF Good, IInv
<1>7. \A r \in batch : Unrun(r) => /\ r.n = outgoing.n /\ r.press = outgoing.press + 1
                                   /\ log[r.n].kind = "poll" /\ \A q \in batch : r = q
  BY <1>1, <1>3, <1>6, BatchUnrun DEF Good, IInv, Started
<1>8. /\ \A r \in requests : Unrun(r) => r.press \in Nat
      /\ \A r \in requests : Unrun(r) /\ r.n = outgoing.n => r.press <= outgoing.press
      /\ \A p \in posts : log[p.n].kind = "poll" /\ p.n = outgoing.n => p.press <= outgoing.press
  BY DEF Pressed, Good, IInv, Shape, Requests
<1>9. \A r \in requests' : Unrun(r) =>
        /\ r.n = outgoing'.n => r.press <= outgoing'.press
        /\ \A q \in requests' : Unrun(q) /\ q.n = r.n /\ q.press = r.press => q = r
        /\ \A p \in posts : p.n = r.n => p.press # r.press
  BY <1>3, <1>7, <1>8, <1>4, <1>6 DEF Pressed
<1>10. \A p \in posts : log[p.n].kind = "poll" =>
         /\ p.press \in Nat /\ (p.n = outgoing'.n => p.press <= outgoing'.press)
         /\ \A q \in posts : p.n = q.n /\ p.press = q.press => p = q
  BY <1>4, <1>8, <1>3 DEF Pressed
<1> QED BY <1>1, <1>9, <1>10 DEF Pressed, Unrun

\* The command is of the same press as the request for its trigger word, which it replaces.
LEMMA PressedConfiguration ==
    ASSUME Good, Pressed, NEW r \in requests, r.kind = "configuration", configurationAnswered(r)
    PROVE  Pressed'
<1>1. /\ requests' = Sent({[Request("command", r.n) EXCEPT !.press = r.press]}) \ {r}
      /\ outgoing' = outgoing /\ posts' = posts /\ log' = log
  BY DEF configurationAnswered, server, history
<1>2. r.n \in Nat /\ r.press \in Nat
  BY DEF Good, IInv, Shape, Requests
<1>3. PICK c \in Requests :
        /\ c = [Request("command", r.n) EXCEPT !.press = r.press]
        /\ c.n = r.n /\ c.kind = "command" /\ c.press = r.press
        /\ c.done = FALSE /\ c.pid = 0 /\ c.files = <<>>
  BY <1>2, CommandRequest
<1>4. PICK s \in Requests :
        /\ Sent({c}) = requests \cup {s}
        /\ s.kind = c.kind /\ s.n = c.n /\ s.press = c.press
  BY SentOne DEF Good, IInv
<1>5. requests' = (requests \cup {s}) \ {r} /\ s.n = r.n /\ s.press = r.press /\ s.kind = "command"
  BY <1>1, <1>3, <1>4
<1>6. \A q \in requests : Unrun(q) /\ q.n = r.n /\ q.press = r.press => q = r
  BY DEF Pressed, Unrun
<1>7. Unrun(r)
  BY DEF Unrun
<1>8. \A q \in requests' : Unrun(q) =>
        /\ q.n = outgoing.n => q.press <= outgoing.press
        /\ \A t \in requests' : Unrun(t) /\ t.n = q.n /\ t.press = q.press => t = q
        /\ \A p \in posts : p.n = q.n => p.press # q.press
  BY <1>5, <1>6, <1>7 DEF Pressed
<1> QED BY <1>1, <1>8 DEF Pressed, Unrun

\* A command that the bot takes is not taken again.
LEMMA PressedExecute ==
    ASSUME Good, Pressed, Execute
    PROVE  Pressed'
<1>1. PICK r \in requests :
        /\ r.kind \in {"post", "edit", "command"} /\ ~r.done
        /\ Executed(r) /\ ServerMade(r)
        /\ outgoing' = outgoing /\ log' = log
  BY ServerEffect, Zenon DEF Execute
<1>2. PICK d : d = [r EXCEPT !.done = TRUE]
  OBVIOUS
<1>3. requests' = (requests \ {r}) \cup {d}
  BY <1>1, <1>2 DEF Executed
<1>4. d.kind = r.kind /\ d.done = TRUE /\ r.press \in Nat
  BY <1>2 DEF Good, IInv, Shape, Requests
<1>5. \A q \in requests' : Unrun(q) => q \in requests /\ q # r
  BY <1>1, <1>3, <1>4 DEF Unrun
<1>6. \A p \in posts' : p \notin posts =>
        /\ p.n = r.n /\ \A q \in posts' : q \notin posts => q = p
        /\ r.kind = "post" \/ (r.kind = "command" /\ p.press = r.press)
  BY <1>1 DEF ServerMade
<1>7. /\ r.kind = "post" => log[r.n].kind = "post"
      /\ \A q \in requests : Unrun(q) => log[q.n].kind = "poll"
  BY DEF Good, IInv, Owned, Unrun
<1>8. r.kind = "command" => /\ Unrun(r) /\ (r.n = outgoing.n => r.press <= outgoing.press)
                            /\ \A q \in requests : Unrun(q) /\ q.n = r.n => q.press # r.press \/ q = r
                            /\ \A p \in posts : p.n = r.n => p.press # r.press
  BY <1>1 DEF Pressed, Unrun
<1>9. \A q \in requests' : Unrun(q) =>
        /\ q.n = outgoing.n => q.press <= outgoing.press
        /\ \A t \in requests' : Unrun(t) /\ t.n = q.n /\ t.press = q.press => t = q
        /\ \A p \in posts' : p.n = q.n => p.press # q.press
  BY <1>5, <1>6, <1>7, <1>8 DEF Pressed
<1>10. \A p \in posts' : log[p.n].kind = "poll" =>
         /\ p.press \in Nat /\ (p.n = outgoing.n => p.press <= outgoing.press)
         /\ \A q \in posts' : p.n = q.n /\ p.press = q.press => p = q
  BY <1>6, <1>7, <1>8, <1>4 DEF Pressed
<1> QED BY <1>1, <1>9, <1>10 DEF Pressed, Unrun

\* Nothing of an operation that starts was there before.
LEMMA PressedStart ==
    ASSUME Good, Pressed, sendPostButtonAction \/ pollAccepted
    PROVE  Pressed'
<1>1. PICK o : Composed(o) /\ Start(o)
  BY StartComposed
<1>2. /\ log' = Append(log, o) /\ prepareAndSendPost(o) /\ posts' = posts
  BY <1>1 DEF Start, server
<1>3. /\ o \in Operations /\ o.n = Len(log) + 1 /\ o.kind # "none" /\ o.press \in Nat
      /\ \A k \in DOMAIN o.files : o.files[k] \in 1 .. MaxItems
      /\ log \in Seq(Operations)
  BY <1>1, Bounds DEF Composed, Good, IInv, Shape, Operations
<1>4. outgoing'.n = o.n /\ outgoing'.press = o.press
  BY <1>2, <1>3, PrepareOutgoing
<1>5. PICK batch :
        /\ requests' = requests \cup batch
        /\ \A r \in batch : RequestOf(r, o) /\ \A q \in batch : r.kind # "again" => r = q
  BY <1>2, <1>3, PrepareEffect DEF Good, IInv
<1>6. o.n \notin DOMAIN log /\ \A n \in DOMAIN log : log'[n] = log[n]
  BY <1>2, <1>3
<1>7. \A r \in batch : Unrun(r) => r.n = o.n /\ r.press = o.press /\ \A q \in batch : r = q
  BY <1>3, <1>5, BatchUnrun
<1>8. /\ \A r \in requests : Unrun(r) => r.n # o.n
      /\ \A p \in posts : p.n # o.n /\ log'[p.n] = log[p.n]
  BY <1>6 DEF Good, IInv, Owned, Made, Unrun
<1>9. \A r \in requests' : Unrun(r) =>
        /\ r.n = outgoing'.n => r.press <= outgoing'.press
        /\ \A q \in requests' : Unrun(q) /\ q.n = r.n /\ q.press = r.press => q = r
        /\ \A p \in posts : p.n = r.n => p.press # r.press
  BY <1>3, <1>4, <1>5, <1>7, <1>8 DEF Pressed
<1>10. \A p \in posts : log'[p.n].kind = "poll" =>
         /\ p.press \in Nat /\ p.n # outgoing'.n
         /\ \A q \in posts : p.n = q.n /\ p.press = q.press => p = q
  BY <1>4, <1>8 DEF Pressed
<1> QED BY <1>2, <1>9, <1>10 DEF Pressed, Unrun

\* A file that is uploaded again belongs to a post, or an edit.
LEMMA PressedAgain ==
    ASSUME Good, Pressed, NEW r \in requests, r.kind = "again", NEW ok, againAnswered(r, ok)
    PROVE  Pressed'
<1>1. posts' = posts /\ log' = log
  BY DEF againAnswered, server
<1>2. CASE r.slot \notin DOMAIN outgoing.files
  BY <1>1, <1>2, PressedStill DEF againAnswered, Forget
<1>3. CASE r.slot \in DOMAIN outgoing.files
  <2>1. PICK o : o = Answered(r, ok)
    OBVIOUS
  <2>2. o \in Operations /\ o.n = outgoing.n /\ o.press = outgoing.press /\ o.kind = outgoing.kind
        /\ outgoing # None /\ o.kind # "none"
    BY <1>3, <2>1, AnsweredFields
  <2>3. \/ outgoing' = o /\ Forget(r)
        \/ outgoing' = None /\ Forget(r)
        \/ outgoing' = o /\ Missing(o) = {} /\ requests' = Sent(sendPost(o)) \ {r}
    BY <1>3, <2>1, Zenon DEF againAnswered, Answered
  <2>4. CASE outgoing' \in {o, None} /\ Forget(r)
    BY <1>1, <2>2, <2>4, PressedStill DEF Forget
  <2>5. CASE outgoing' = o /\ Missing(o) = {} /\ requests' = Sent(sendPost(o)) \ {r}
    BY <2>2, <2>5, PostRequest, <1>3, <1>1, PressedStill DEF Good, IInv, Started, RequestOf, Unrun,
       Operations
  <2> QED BY <2>3, <2>4, <2>5
<1> QED BY <1>2, <1>3

LEMMA PressedStep ==
    ASSUME Good, Pressed, [Next]_vars
    PROVE  Pressed'
<1>1. CASE Type \/ postEditInitiated \/ escapePressed \/ fileRemoved \/ LoseEvent \/ UNCHANGED vars
  BY <1>1, PressedFinish DEF Type, postEditInitiated, escapePressed, fileRemoved, LoseEvent,
     untouched, vars, server, history
<1>2. CASE fileAdded
  <2>1. posts' = posts /\ log' = log /\ outgoing' = outgoing
    BY <1>2 DEF fileAdded, untouched, server, history
  <2>2. PICK u : u.kind = "upload" /\ requests' = requests \cup {u}
    <3>1. PICK q \in Requests : q = Request("upload", 0) /\ q.kind = "upload"
      BY FreshRequest DEF Kinds
    <3>2. PICK u : u = [q EXCEPT !.item = items']
      OBVIOUS
    <3>3. u.kind = "upload"
      BY <3>1, <3>2 DEF Requests
    <3> QED BY <1>2, <3>1, <3>2, <3>3 DEF fileAdded
  <2> QED BY <2>1, <2>2, PressedStill DEF Unrun
<1>3. CASE sendPostButtonAction \/ pollAccepted
  BY <1>3, PressedStart
<1>4. CASE retry
  BY <1>4, PressedRetry
<1>5. CASE Execute
  BY <1>5, PressedExecute
<1>6. CASE Answer
  BY <1>6, PressedAgain, PressedConfiguration, PressedFinish DEF Answer, uploadAnswered,
     createAnswered, editAnswered, commandAnswered, requestFailed, Forget, server, history,
     finishSend, failSend
<1>7. CASE Event
  BY <1>7, PressedFinish DEF Event, onNewPost, onPostEdited, finishSend, nothingFinished
<1>8. CASE Touch
  BY <1>8, PressedFinish DEF Touch, server, onPostEdited, finishSend, nothingFinished
<1> QED BY <1>1, <1>2, <1>3, <1>4, <1>5, <1>6, <1>7, <1>8 DEF Next

-------------------------------------------------------------------------------
(* The theorems.                                                               *)

LEMMA GoodInit ==
    ASSUME Init
    PROVE  Good
<1>1. /\ text = "empty" /\ editing = FALSE /\ list = <<>> /\ uploads = NoUploads /\ items = 0
      /\ outgoing = None /\ failed = FALSE /\ armed = 0 /\ requests = {}
      /\ posts = {} /\ applied = {} /\ events = <<>> /\ log = <<>>
      /\ finished = {} /\ returned = {} /\ crossed = {} /\ unheard = {}
  BY DEF Init
<1>2. /\ None \in Operations /\ None.n = 0 /\ None.kind = "none" /\ None.files = <<>>
      /\ None.ids = <<>> /\ None.pending = 0
  BY NoneFields
<1>3. {editing, failed} \subseteq BOOLEAN /\ ~failed
  BY <1>1
<1>4. Shape
  BY <1>1, <1>3, <1>2, Bounds, FS_EmptySet DEF TypeOK, NoUploads, Items, Shape
<1>5. DOMAIN log = {} /\ DOMAIN events = {}
  BY <1>1
<1>6. Started
  BY <1>1, <1>2, <1>5 DEF Started
<1>7. Owned /\ Made
  BY <1>1, <1>5 DEF Owned, Made
<1>8. Attached
  BY <1>1, <1>2 DEF Attached
<1>9. Waits
  BY <1>1, <1>2, FS_EmptySet DEF WaitsForSomething, NoUploads, Waits
<1>10. KeptUntilSent
  BY <1>1 DEF KeptUntilSent
<1> QED BY <1>4, <1>6, <1>7, <1>8, <1>9, <1>10 DEF Good, IInv

LEMMA GoodStep ==
    ASSUME Good, [Next]_vars
    PROVE  Good'
BY DraftStep, AddedStep, StartStep, RetryStep, ExecuteStep, UploadStep, AgainStep,
   ConfigurationStep, AnswerStep, CommandStep, FailureStep, EventStep, LoseStep, TouchStep, GoOnStep
   DEF Answer, vars, draft, server, history, nothingFinished, Good, IInv, Shape, TypeOK, Still, Next

LEMMA Invariance == Spec => [](Good /\ Pressed)
<1>1. Init => Good /\ Pressed
  BY GoodInit DEF Init, Pressed
<1>2. Good /\ Pressed /\ [Next]_vars => (Good /\ Pressed)'
  BY GoodStep, PressedStep
<1> QED BY <1>1, <1>2, PTL DEF Spec

\* What the variables hold is what the code declares.
THEOREM TypeCorrect == Spec => []TypeOK
<1>1. Good => TypeOK
  BY DEF Good, IInv, Shape
<1> QED BY <1>1, Invariance, PTL

\* What the composer has forgotten the server has (finishSend): the answers and events that end
\* an operation come after the post, or the edit, that they are about.
THEOREM KeepsUntilSent == Spec => []KeptUntilSent
<1>1. Good => KeptUntilSent
  BY DEF Good
<1> QED BY <1>1, Invariance, PTL

\* A message becomes one post with its files in their order, and what was given back as a draft
\* none (pendingPostId, attachmentIds): the post is asked for when no file is missing. A poll is
\* made at most once for each press of Send, which is all the code can promise: its command has
\* no id that the server would know it by when it is sent again (PostCreateService::submitPoll).
THEOREM PostsOnce == Spec => []PostedOnce
<1>1. Good /\ Pressed => PostedOnce
  BY DEF PostedOnce, Good, IInv, Made, Pressed, Attached
<1> QED BY <1>1, Invariance, PTL

\* A composer that is read-only waits for a request, an announcement or the bot, and a disabled
\* Send button for an upload (pendingAttachmentUploads, onNewPost).
THEOREM AlwaysWaits == Spec => []WaitsForSomething
<1>1. Good => WaitsForSomething
  BY DEF Good, IInv, Waits
<1> QED BY <1>1, Invariance, PTL
==============================================================================
