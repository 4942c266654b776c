--------------------------- MODULE ChannelRoots_proofs ---------------------------
(***************************************************************************)
(* The root posts of a channel, for every value of the constants.          *)
(*                                                                         *)
(* RealtimeFallback: type correctness and the discipline of the polls.  A  *)
(* poll knows every post an earlier poll announced, because no poll leaves *)
(* before the one before it is answered, and memory only grows.            *)
(*                                                                         *)
(* ChannelPosts: the books of the ranges the list waits for, and the       *)
(* search for the oldest page.  The invariant Accounts counts, for every   *)
(* demand, the requests under way, its place at the gate and its calls     *)
(* that wait for the search; a search that is on has exactly one request   *)
(* under way, for a page between the greatest known to be written and the  *)
(* least known to be empty.                                                *)
(***************************************************************************)
EXTENDS RealtimeFallback, ChannelPosts, FiniteSetTheorems, SequenceTheorems, WellFoundedInduction, TLAPS

\* A finite set of numbers that is not empty has a greatest element: a smallest set without
\* one would have it as soon as one element is put aside.
LEMMA MaxExists ==
    ASSUME NEW S \in SUBSET Int, IsFiniteSet(S), S # {}
    PROVE  Max(S) \in S /\ \A y \in S : Max(S) >= y
<1> DEFINE HasMax(A) == \E x \in A : \A y \in A : x >= y
           Bad == {A \in SUBSET S : A # {} /\ ~HasMax(A)}
           R == StrictSubsetOrdering(S)
<1>1. IsWellFoundedOn(R, FiniteSubsetsOf(S)) /\ FiniteSubsetsOf(S) = SUBSET S
  BY FS_StrictSubsetOrderingWellFounded, FS_FiniteSubsetsOfFinite
<1>2. Bad = {}
  <2> SUFFICES ASSUME Bad # {} PROVE FALSE
    OBVIOUS
  <2>1. Bad \subseteq FiniteSubsetsOf(S)
    BY <1>1
  <2>2. PICK A \in Bad : \A B \in Bad : ~ (<<B, A>> \in R)
    <3> HIDE DEF Bad, R
    <3> QED BY <1>1, <2>1, WFMin
  <2>3. PICK a : a \in A
    OBVIOUS
  <2>4. A \ {a} \notin Bad
    <3>1. A \ {a} \in SUBSET S /\ A \ {a} # A /\ A \ {a} \subseteq A
      BY <2>3
    <3>2. <<A \ {a}, A>> \in R
      BY <3>1 DEF StrictSubsetOrdering
    <3> QED BY <2>2, <3>2
  <2>5. CASE A \ {a} = {}
    <3>1. A = {a} /\ a \in Int
      BY <2>3, <2>5
    <3> QED BY <3>1
  <2>6. CASE A \ {a} # {}
    <3>1. PICK m \in A \ {a} : \A y \in A \ {a} : m >= y
      BY <2>4, <2>6
    <3>2. a \in Int /\ m \in Int /\ \A y \in A : y \in Int
      BY <2>3
    <3>3. CASE m >= a
      BY <3>1, <3>2, <3>3
    <3>4. CASE ~ (m >= a)
      BY <2>3, <3>1, <3>2, <3>4
    <3> QED BY <3>3, <3>4
  <2> QED BY <2>5, <2>6
<1>3. HasMax(S)
  BY <1>2
<1> QED BY <1>3 DEF Max

-------------------------------------------------------------------------------
(* Type correctness.                                                           *)

\* Nothing arrives that the server did not create.
Created ==
    /\ \A i \in DOMAIN stream : stream[i] <= created
    /\ \A r \in polls : r.reply \subseteq 1 .. created

IndType == FallbackTypeOK /\ Created

\* The initial states have the types.
LEMMA TypeInit == FallbackInit => IndType
<1> SUFFICES ASSUME FallbackInit PROVE IndType
  OBVIOUS
<1>1. MaxPosts \in Nat /\ MaxOwn \in Nat /\ MaxOutages \in Nat /\ MaxPolls \in Nat
  BY FallbackAssumption
<1>2. /\ stream = <<>> /\ <<>> \in Seq(Roots) /\ DOMAIN <<>> = {}
      /\ polled \in [Roots -> Nat]
  BY DEF FallbackInit
<1>3. created \in 0 .. MaxPosts /\ resident \subseteq 1 .. created
  BY <1>1 DEF FallbackInit
<1>4. Created
  BY <1>2 DEF FallbackInit, Created
<1>5. FallbackTypeOK
  <2>1. opened \in BOOLEAN /\ polling \in BOOLEAN /\ requestInFlight \in BOOLEAN
    BY Zenon DEF FallbackInit
  <2>2. own \subseteq 1 .. created /\ polls \in SUBSET Poll /\ stream \in Seq(Roots)
    BY <1>2 DEF FallbackInit
  <2>3. ownCount \in 0 .. MaxOwn /\ outages \in 0 .. MaxOutages /\ failures \in 0 .. MaxPolls
    BY <1>1 DEF FallbackInit
  <2> QED BY <1>2, <1>3, <2>1, <2>2, <2>3 DEF FallbackInit, FallbackTypeOK
<1> QED BY <1>4, <1>5 DEF IndType

\* The newest post in memory has a number; with nothing in memory it is 0.
LEMMA NewestType ==
    ASSUME IndType
    PROVE  Max(resident \cup {0}) \in 0 .. MaxPosts
<1>1. MaxPosts \in Nat /\ created \in 0 .. MaxPosts /\ resident \subseteq 1 .. created
  BY FallbackAssumption DEF IndType, FallbackTypeOK
<1>2. resident \cup {0} \subseteq 0 .. MaxPosts /\ resident \cup {0} \in SUBSET Int
  BY <1>1
<1>3. IsFiniteSet(resident \cup {0})
  <2>1. IsFiniteSet(0 .. MaxPosts)
    BY <1>1, FS_Interval
  <2> QED BY <1>2, <2>1, FS_Subset
<1>4. Max(resident \cup {0}) \in resident \cup {0}
  BY <1>2, <1>3, MaxExists
<1> QED BY <1>2, <1>4

\* A poll that leaves is well formed, and knows what is in memory.
LEMMA PollNowType ==
    ASSUME IndType, pollNow
    PROVE  /\ requestInFlight' \in BOOLEAN /\ polls' \in SUBSET Poll
           /\ \A r \in polls' : r.reply \subseteq 1 .. created
<1>1. CASE requestInFlight \/ ~opened
  BY <1>1 DEF pollNow, IndType, FallbackTypeOK, Created
<1>2. CASE ~(requestInFlight \/ ~opened)
  <2> DEFINE q == [state |-> "sent", known |-> resident,
                   after |-> Max(resident \cup {0}), reply |-> {}]
  <2>1. requestInFlight' = TRUE /\ polls' = polls \cup {q}
    BY <1>2 DEF pollNow
  <2>2. resident \in SUBSET Roots
    BY FallbackAssumption DEF IndType, FallbackTypeOK, Roots
  <2>3. q \in Poll
    BY <2>2, NewestType DEF Poll
  <2>4. polls' \in SUBSET Poll
    BY <2>1, <2>3 DEF IndType, FallbackTypeOK
  <2>5. \A r \in polls' : r.reply \subseteq 1 .. created
    BY <2>1 DEF IndType, Created
  <2>6. requestInFlight' \in BOOLEAN
    BY <2>1
  <2> QED BY <2>4, <2>5, <2>6
<1> QED BY <1>1, <1>2

\* The answer to a poll lists posts that exist.
LEMMA AnswerType ==
    ASSUME IndType, NEW r \in polls
    PROVE  /\ [r EXCEPT !.state = "answered", !.reply = r.after + 1 .. created] \in Poll
           /\ [r EXCEPT !.state = "failed"] \in Poll
           /\ r.after + 1 .. created \subseteq 1 .. created
<1>1. r \in Poll /\ MaxPosts \in Nat /\ created \in 0 .. MaxPosts
  BY FallbackAssumption DEF IndType, FallbackTypeOK
<1>2. r.after + 1 .. created \subseteq 1 .. created /\ 1 .. created \subseteq Roots
  <2>1. r.after \in Nat /\ created \in Nat /\ created <= MaxPosts
    BY <1>1 DEF Poll
  <2> QED BY <1>1, <2>1 DEF Roots
<1>3. r.after + 1 .. created \in SUBSET Roots
  BY <1>2
<1>4. [r EXCEPT !.state = "failed"] \in Poll
  BY <1>1 DEF Poll
<1>5. [r EXCEPT !.state = "answered", !.reply = r.after + 1 .. created] \in Poll
  BY <1>1, <1>3 DEF Poll
<1> QED BY <1>2, <1>4, <1>5

\* Every step keeps the types, and nothing arrives that was not created.
LEMMA TypeStep == IndType /\ [FallbackNext]_fallbackVars => IndType'
<1> SUFFICES ASSUME IndType, [FallbackNext]_fallbackVars PROVE IndType'
  OBVIOUS
<1>0. /\ MaxPosts \in Nat /\ MaxOwn \in Nat /\ MaxOutages \in Nat /\ MaxPolls \in Nat
      /\ FallbackTypeOK /\ Created /\ created \in Nat /\ ownCount \in Nat /\ outages \in Nat
      /\ failures \in Nat
  BY FallbackAssumption DEF IndType, FallbackTypeOK
<1>1. CASE pollTimeout
  <2>1. /\ requestInFlight' \in BOOLEAN /\ polls' \in SUBSET Poll
        /\ \A r \in polls' : r.reply \subseteq 1 .. created
    BY <1>1, PollNowType DEF pollTimeout
  <2> QED BY <1>0, <1>1, <2>1 DEF pollTimeout, IndType, FallbackTypeOK, Created, server, budgets
<1>2. CASE disconnected
  <2>1. /\ requestInFlight' \in BOOLEAN /\ polls' \in SUBSET Poll /\ polling' \in BOOLEAN
        /\ \A r \in polls' : r.reply \subseteq 1 .. created
    BY <1>0, <1>2, PollNowType DEF disconnected, startPolling, FallbackTypeOK, Created
  <2>2. outages' \in 0 .. MaxOutages
    BY <1>0, <1>2 DEF disconnected, FallbackTypeOK
  <2> QED BY <1>0, <1>2, <2>1, <2>2 DEF disconnected, IndType, FallbackTypeOK, Created, server
<1>3. CASE connected
  <2>1. stream' \in Seq(Roots) /\ \A i \in DOMAIN stream' : stream'[i] <= created
    <3>1. CASE stream' = stream
      BY <1>0, <3>1 DEF FallbackTypeOK, Created
    <3>2. CASE stream' = <<>>
      BY <3>2
    <3> QED BY <1>3, <3>1, <3>2 DEF connected
  <2> QED BY <1>0, <1>3, <2>1 DEF connected, IndType, FallbackTypeOK, Created, server, budgets
<1>4. CASE refreshed
  BY <1>0, <1>4 DEF refreshed, IndType, FallbackTypeOK, Created, server, budgets
<1>5. CASE postedEvent
  <2>1. /\ Head(stream) \in Roots /\ Head(stream) = stream[1] /\ 1 \in DOMAIN stream
        /\ Tail(stream) \in Seq(Roots)
        /\ \A i \in DOMAIN Tail(stream) : i + 1 \in DOMAIN stream /\ Tail(stream)[i] = stream[i + 1]
    BY <1>0, <1>5 DEF postedEvent, FallbackTypeOK
  <2>2. Head(stream) \in 1 .. created
    BY <1>0, <2>1 DEF Created, Roots
  <2>3. resident' \subseteq 1 .. created
    BY <1>0, <1>5, <2>2 DEF postedEvent, FallbackTypeOK
  <2>4. stream' \in Seq(Roots) /\ \A i \in DOMAIN stream' : stream'[i] <= created
    BY <1>0, <1>5, <2>1 DEF postedEvent, Created
  <2> QED BY <1>0, <1>5, <2>3, <2>4 DEF postedEvent, IndType, FallbackTypeOK, Created, server, budgets
<1>6. CASE openChannel
  BY <1>0, <1>6 DEF openChannel, IndType, FallbackTypeOK, Created, server, budgets
<1>7. CASE create
  <2>1. created' = created + 1 /\ created' \in 0 .. MaxPosts /\ created' \in Roots
    BY <1>0, <1>7 DEF create, FallbackTypeOK, Roots
  <2>2. own' \subseteq 1 .. created' /\ ownCount' \in 0 .. MaxOwn
    <3>1. own \subseteq 1 .. created /\ ownCount \in 0 .. MaxOwn
      BY <1>0 DEF FallbackTypeOK
    <3>2. CASE UNCHANGED <<own, ownCount>>
      BY <1>0, <2>1, <3>1, <3>2
    <3>3. CASE ownCount < MaxOwn /\ ownCount' = ownCount + 1 /\ own' = own \cup {created'}
      BY <1>0, <2>1, <3>1, <3>3
    <3> QED BY <1>7, <3>2, <3>3 DEF create
  <2>3. stream' \in Seq(Roots) /\ \A i \in DOMAIN stream' : stream'[i] <= created'
    <3>1. stream \in Seq(Roots) /\ stream' = Append(stream, created') /\ Len(stream) \in Nat
      BY <1>0, <1>7 DEF create, FallbackTypeOK
    <3>2. \A i \in DOMAIN stream' : (i \in DOMAIN stream /\ stream'[i] = stream[i])
                                      \/ stream'[i] = created'
      BY <2>1, <3>1
    <3>3. \A i \in DOMAIN stream : stream[i] \in Nat
      BY <1>0, <3>1 DEF Roots
    <3> QED BY <1>0, <2>1, <3>1, <3>2, <3>3 DEF Created
  <2>4. \A r \in polls : r.reply \subseteq 1 .. created'
    BY <1>0, <2>1 DEF Created
  <2> QED BY <1>0, <1>7, <2>1, <2>2, <2>3, <2>4 DEF create, IndType, FallbackTypeOK, Created, budgets
<1>8. CASE \E p \in own : ownPostCreated(p)
  BY <1>0, <1>8 DEF ownPostCreated, IndType, FallbackTypeOK, Created, budgets
<1>9. ASSUME NEW r \in polls, deliver(r)
      PROVE  IndType'
  <2>1. polled' \in [Roots -> Nat]
    BY <1>0, <1>9 DEF deliver, FallbackTypeOK
  <2>2. resident' \subseteq 1 .. created /\ polls' \in SUBSET Poll
    BY <1>0, <1>9 DEF deliver, FallbackTypeOK, Created
  <2>3. requestInFlight' \in BOOLEAN /\ \A q \in polls' : q.reply \subseteq 1 .. created
    BY <1>0, <1>9 DEF deliver, Created
  <2> QED BY <1>0, <1>9, <2>1, <2>2, <2>3 DEF deliver, IndType, FallbackTypeOK, Created, server, budgets
<1>10. ASSUME NEW r \in polls, answer(r) \/ fail(r)
       PROVE  IndType'
  <2>1. PICK q \in Poll : /\ Answered(r, q) /\ q.reply \subseteq 1 .. created
    <3>1. CASE answer(r)
      BY <1>10, <3>1, AnswerType DEF answer, Poll, IndType, FallbackTypeOK
    <3>2. CASE fail(r)
      BY <1>0, <1>10, <3>2, AnswerType DEF fail, Poll, IndType, FallbackTypeOK, Created
    <3> QED BY <1>10, <3>1, <3>2
  <2>2. failures' \in 0 .. MaxPolls
    BY <1>0, <1>10 DEF answer, fail, FallbackTypeOK
  <2>3. polls' \in SUBSET Poll /\ \A s \in polls' : s.reply \subseteq 1 .. created
    BY <1>0, <2>1 DEF Answered, FallbackTypeOK, Created
  <2> QED BY <1>0, <2>1, <2>2, <2>3 DEF Answered, IndType, FallbackTypeOK, Created, server
<1>11. CASE UNCHANGED fallbackVars
  BY <1>0, <1>11 DEF fallbackVars, IndType, FallbackTypeOK, Created
<1> QED BY <1>1, <1>2, <1>3, <1>4, <1>5, <1>6, <1>7, <1>8, <1>9, <1>10, <1>11 DEF FallbackNext

\* Type correctness.
THEOREM TypeCorrect == FallbackSpec => []FallbackTypeOK
<1>1. IndType => FallbackTypeOK
  BY DEF IndType
<1> QED BY <1>1, TypeInit, TypeStep, PTL DEF FallbackSpec

-------------------------------------------------------------------------------
(* The polls.                                                                  *)

\* One request at most is out.
OneOut ==
    /\ ~requestInFlight => polls = {}
    /\ requestInFlight => \E r : polls = {r}

\* A post that was announced is in memory, and known to the poll that is out.
PollsKnow ==
    \A p \in Roots :
        /\ polled[p] <= 1
        /\ polled[p] = 1 => p \in resident /\ \A r \in polls : p \in r.known

\* Both start with nothing out and nothing announced.
LEMMA PollsInit == FallbackInit => OneOut /\ PollsKnow
BY DEF FallbackInit, OneOut, PollsKnow, Roots

\* A poll leaves only when none is out, and takes along all that is in memory.
LEMMA PollNowDiscipline ==
    ASSUME IndType, OneOut, PollsKnow, pollNow, UNCHANGED <<resident, polled>>
    PROVE  OneOut' /\ PollsKnow'
<1>1. CASE requestInFlight \/ ~opened
  BY <1>1 DEF pollNow, OneOut, PollsKnow
<1>2. CASE ~(requestInFlight \/ ~opened)
  <2> DEFINE q == [state |-> "sent", known |-> resident,
                   after |-> Max(resident \cup {0}), reply |-> {}]
  <2>1. requestInFlight' = TRUE /\ polls' = {q} /\ q.known = resident
    BY <1>2 DEF pollNow, OneOut
  <2> QED BY <2>1 DEF OneOut, PollsKnow
<1> QED BY <1>1, <1>2

\* Every step keeps both.
LEMMA PollsStep == IndType /\ OneOut /\ PollsKnow /\ [FallbackNext]_fallbackVars => OneOut' /\ PollsKnow'
<1> SUFFICES ASSUME IndType, OneOut, PollsKnow, [FallbackNext]_fallbackVars PROVE OneOut' /\ PollsKnow'
  OBVIOUS
<1>1. CASE pollTimeout
  BY <1>1, PollNowDiscipline DEF pollTimeout
<1>2. CASE disconnected
  <2>1. CASE polling
    BY <1>2, <2>1 DEF disconnected, startPolling, OneOut, PollsKnow
  <2>2. CASE ~polling
    BY <1>2, <2>2, PollNowDiscipline DEF disconnected, startPolling
  <2> QED BY <2>1, <2>2
<1>3. CASE connected \/ refreshed \/ postedEvent \/ openChannel \/ create
           \/ \E p \in own : ownPostCreated(p)
  <2>1. UNCHANGED <<requestInFlight, polls, polled>> /\ resident \subseteq resident'
    BY <1>3 DEF connected, refreshed, postedEvent, openChannel, create, ownPostCreated
  <2> QED BY <2>1 DEF OneOut, PollsKnow
<1>4. ASSUME NEW r \in polls, deliver(r)
      PROVE  OneOut' /\ PollsKnow'
  <2>1. /\ polls = {r} /\ polls' = {} /\ requestInFlight' = FALSE
        /\ resident' = resident \cup r.reply
        /\ polled' = [p \in Roots |-> polled[p] + IF p \in r.reply \ r.known THEN 1 ELSE 0]
    BY <1>4 DEF deliver, OneOut
  <2>2. ASSUME NEW p \in Roots
        PROVE  polled'[p] <= 1 /\ (polled'[p] = 1 => p \in resident')
    <3>1. polled[p] \in Nat /\ polled[p] <= 1
      BY DEF IndType, FallbackTypeOK, PollsKnow
    <3>2. CASE p \in r.reply \ r.known
      <4>1. polled[p] = 0
        BY <2>1, <3>1, <3>2 DEF PollsKnow
      <4> QED BY <2>1, <3>2, <4>1
    <3>3. CASE p \notin r.reply \ r.known
      <4>1. polled'[p] = polled[p]
        BY <2>1, <3>1, <3>3
      <4> QED BY <2>1, <3>1, <4>1 DEF PollsKnow
    <3> QED BY <3>2, <3>3
  <2> QED BY <2>1, <2>2 DEF OneOut, PollsKnow
<1>5. ASSUME NEW r \in polls, answer(r) \/ fail(r)
      PROVE  OneOut' /\ PollsKnow'
  <2>1. PICK q : Answered(r, q) /\ q.known = r.known
    <3>1. r \in Poll
      BY DEF IndType, FallbackTypeOK
    <3>2. CASE answer(r)
      <4> DEFINE q == [r EXCEPT !.state = "answered", !.reply = r.after + 1 .. created]
      <4>1. Answered(r, q) /\ q.known = r.known
        BY <3>1, <3>2 DEF answer, Poll
      <4> QED BY <4>1
    <3>3. CASE fail(r)
      <4> DEFINE q == [r EXCEPT !.state = "failed"]
      <4>1. Answered(r, q) /\ q.known = r.known
        BY <3>1, <3>3 DEF fail, Poll
      <4> QED BY <4>1
    <3> QED BY <1>5, <3>2, <3>3
  <2>2. polls = {r} /\ polls' = {q} /\ UNCHANGED <<requestInFlight, resident, polled>>
    BY <2>1 DEF Answered, OneOut
  <2> QED BY <2>1, <2>2 DEF OneOut, PollsKnow
<1>6. CASE UNCHANGED fallbackVars
  BY <1>6 DEF fallbackVars, OneOut, PollsKnow
<1> QED BY <1>1, <1>2, <1>3, <1>4, <1>5, <1>6 DEF FallbackNext

\* Polls come one at a time, a failed one leaves the service ready for the next, and each
\* announces what no other has (pollNow and deliver, RealtimeFallbackService.cpp).
THEOREM PollsOnce == FallbackSpec => []OnePoll
<1>1. IndType /\ OneOut /\ PollsKnow => OnePoll
  <2> SUFFICES ASSUME IndType, OneOut, PollsKnow PROVE OnePoll
    OBVIOUS
  <2>1. PolledAtMostOnce
    BY DEF PolledAtMostOnce, PollsKnow
  <2>2. NeverWedged
    BY FS_EmptySet, FS_Singleton DEF NeverWedged, OneOut, IndType, FallbackTypeOK
  <2> QED BY <2>1, <2>2 DEF OnePoll
<1> QED BY <1>1, TypeInit, TypeStep, PollsInit, PollsStep, PTL DEF FallbackSpec

(* ChannelPosts: the record of a source, field by field.                       *)

Shape(s) ==
    s = [counted |-> s.counted, total |-> s.total, slots |-> s.slots,
         adjustment |-> s.adjustment, provisional |-> s.provisional, window |-> s.window,
         gate |-> s.gate, probe |-> s.probe, tried |-> s.tried, more |-> s.more,
         before |-> s.before, pending |-> s.pending, flight |-> s.flight]

WindowShape(w) ==
    /\ w = [target |-> w.target, ids |-> w.ids, first |-> w.first,
            oldest |-> w.oldest, newest |-> w.newest]
    /\ w.ids \in Seq(Nat) /\ w.first \in Int

\* What the placing of posts may rely on.
Typed(s) ==
    /\ Shape(s)
    /\ s.slots \in Seq(Nat) /\ s.total \in Int /\ s.adjustment \in Int
    /\ WindowShape(s.window)

\* The source with other slots; the placing of posts changes nothing else.
With(s, slots, adjustment, provisional, window) ==
    [counted |-> s.counted, total |-> s.total, slots |-> slots,
     adjustment |-> adjustment, provisional |-> provisional, window |-> window,
     gate |-> s.gate, probe |-> s.probe, tried |-> s.tried, more |-> s.more,
     before |-> s.before, pending |-> s.pending, flight |-> s.flight]

\* The source with other requests.
Asking(s, gate, probe, tried, pending, flight) ==
    [counted |-> s.counted, total |-> s.total, slots |-> s.slots,
     adjustment |-> s.adjustment, provisional |-> s.provisional, window |-> s.window,
     gate |-> gate, probe |-> probe, tried |-> tried, more |-> s.more,
     before |-> s.before, pending |-> pending, flight |-> flight]

\* t is s after some placing.
Placed(s, t) ==
    /\ Typed(t)
    /\ t.gate = s.gate /\ t.probe = s.probe /\ t.tried = s.tried
    /\ t.pending = s.pending /\ t.flight = s.flight
    /\ t.counted = s.counted /\ t.total = s.total /\ t.more = s.more /\ t.before = s.before

\* Other slots, window and count, of the right types, are a placing.
LEMMA WithPlaces ==
    ASSUME NEW s, Typed(s), NEW slots \in Seq(Nat), NEW a \in Int, NEW p,
           NEW w, WindowShape(w)
    PROVE  Placed(s, With(s, slots, a, p, w))
BY DEF Typed, Shape, With, Placed

LEMMA PlacedFields ==
    ASSUME NEW s, NEW slots, NEW a, NEW p, NEW w
    PROVE  /\ With(s, slots, a, p, w).slots = slots
           /\ With(s, slots, a, p, w).adjustment = a
           /\ With(s, slots, a, p, w).provisional = p
           /\ With(s, slots, a, p, w).window = w
           /\ With(s, slots, a, p, w).total = s.total
           /\ With(s, slots, a, p, w).counted = s.counted
BY DEF With

\* One placing after another is a placing.
LEMMA PlacedTrans ==
    ASSUME NEW s, NEW t, NEW u, Placed(s, t), Placed(t, u)
    PROVE  Placed(s, u)
BY DEF Placed

LEMMA PlacedSelf == ASSUME NEW s, Typed(s) PROVE Placed(s, s)
BY DEF Placed

LEMMA WriteSlots ==
    ASSUME NEW s, Shape(s), NEW x
    PROVE  [s EXCEPT !.slots = x] = With(s, x, s.adjustment, s.provisional, s.window)
BY DEF Shape, With

LEMMA WriteAdjustment ==
    ASSUME NEW s, Shape(s), NEW x
    PROVE  [s EXCEPT !.adjustment = x] = With(s, s.slots, x, s.provisional, s.window)
BY DEF Shape, With

LEMMA WriteProvisional ==
    ASSUME NEW s, Shape(s), NEW x
    PROVE  [s EXCEPT !.provisional = x] = With(s, s.slots, s.adjustment, x, s.window)
BY DEF Shape, With

LEMMA WriteWindow ==
    ASSUME NEW s, Shape(s), NEW x
    PROVE  [s EXCEPT !.window = x] = With(s, s.slots, s.adjustment, s.provisional, x)
BY DEF Shape, With

Rewritten(s, x, p, w) == [s EXCEPT !.slots = x, !.provisional = p, !.window = w]

\* Slots, guesses and window written together are a placing.
LEMMA WritePlaces ==
    ASSUME NEW s, Shape(s), NEW x, NEW p, NEW w
    PROVE  Rewritten(s, x, p, w) = With(s, x, s.adjustment, p, w)
<1> DEFINE t == [s EXCEPT !.slots = x]
           u == [t EXCEPT !.provisional = p]
           v == [u EXCEPT !.window = w]
           all == [s EXCEPT !.slots = x, !.provisional = p, !.window = w]
<1>1. all = v
  BY DEF Shape
<1>2. t = With(s, x, s.adjustment, s.provisional, s.window)
  BY WriteSlots
<1> HIDE DEF t, u, all
<1>3. u = With(s, x, s.adjustment, p, s.window)
  <2>1. Shape(t)
    BY <1>2 DEF Shape, With
  <2>2. u = With(t, t.slots, t.adjustment, p, t.window)
    BY <2>1, WriteProvisional DEF u
  <2> QED BY <1>2, <2>2 DEF With
<1>4. v = With(s, x, s.adjustment, p, w)
  <2>1. Shape(u)
    BY <1>3 DEF Shape, With
  <2>2. v = With(u, u.slots, u.adjustment, u.provisional, w)
    BY <2>1, WriteWindow
  <2> QED BY <1>3, <2>2 DEF With
<1> QED BY <1>1, <1>4 DEF all, Rewritten

LEMMA WriteFirst ==
    ASSUME NEW w, WindowShape(w), NEW f
    PROVE  [w EXCEPT !.first = f] = [target |-> w.target, ids |-> w.ids, first |-> f,
                                     oldest |-> w.oldest, newest |-> w.newest]
BY DEF WindowShape

\* A window that moves keeps its shape.
LEMMA WriteWindowFirst ==
    ASSUME NEW s, Shape(s), WindowShape(s.window), NEW f
    PROVE  [s EXCEPT !.window.first = f] =
              With(s, s.slots, s.adjustment, s.provisional,
                   [target |-> s.window.target, ids |-> s.window.ids, first |-> f,
                    oldest |-> s.window.oldest, newest |-> s.window.newest])
<1> DEFINE w == [s.window EXCEPT !.first = f]
<1>1. [s EXCEPT !.window.first = f] = [s EXCEPT !.window = w]
  BY DEF Shape
<1> HIDE DEF w
<1> QED BY <1>1, WriteWindow, WriteFirst DEF w

\* Slots written while the window moves are a placing.
LEMMA WriteSlotsFirst ==
    ASSUME NEW s, Shape(s), WindowShape(s.window), NEW x, NEW f
    PROVE  [s EXCEPT !.slots = x, !.window.first = f] =
              With(s, x, s.adjustment, s.provisional,
                   [target |-> s.window.target, ids |-> s.window.ids, first |-> f,
                    oldest |-> s.window.oldest, newest |-> s.window.newest])
<1> DEFINE w == [s.window EXCEPT !.first = f]
           t == [s EXCEPT !.slots = x]
           u == [t EXCEPT !.window = w]
           all == [s EXCEPT !.slots = x, !.window.first = f]
<1>1. all = u
  BY DEF Shape
<1>2. t = With(s, x, s.adjustment, s.provisional, s.window)
  BY WriteSlots
<1> HIDE DEF t, w, all
<1>3. Shape(t)
  BY <1>2 DEF Shape, With
<1>4. u = With(t, t.slots, t.adjustment, t.provisional, w)
  BY <1>3, WriteWindow
<1>5. u = With(s, x, s.adjustment, s.provisional, w)
  BY <1>2, <1>4 DEF With
<1> QED BY <1>1, <1>5, WriteFirst DEF w, all
-----------------------------------------------------------------------------
(* Numbers and sequences.                                                  *)

\* The greater and the lesser of two numbers.
LEMMA MaxTwo ==
    ASSUME NEW a \in Int, NEW b \in Int
    PROVE  Max({a, b}) = IF a >= b THEN a ELSE b
<1>1. \E x \in {a, b} : \A y \in {a, b} : x >= y
  <2>1. CASE a >= b
    BY <2>1
  <2>2. CASE ~ (a >= b)
    BY <2>2
  <2> QED BY <2>1, <2>2
<1> DEFINE m == CHOOSE x \in {a, b} : \A y \in {a, b} : x >= y
<1>2. m \in {a, b} /\ \A y \in {a, b} : m >= y
  BY <1>1
<1>3. Max({a, b}) = m
  BY DEF Max
<1> HIDE DEF m
<1> QED BY <1>2, <1>3

LEMMA MinTwo ==
    ASSUME NEW a \in Int, NEW b \in Int
    PROVE  Min({a, b}) = IF a <= b THEN a ELSE b
<1>1. \E x \in {a, b} : \A y \in {a, b} : x <= y
  <2>1. CASE a <= b
    BY <2>1
  <2>2. CASE ~ (a <= b)
    BY <2>2
  <2> QED BY <2>1, <2>2
<1> DEFINE m == CHOOSE x \in {a, b} : \A y \in {a, b} : x <= y
<1>2. m \in {a, b} /\ \A y \in {a, b} : m <= y
  BY <1>1
<1>3. Min({a, b}) = m
  BY DEF Min
<1> HIDE DEF m
<1> QED BY <1>2, <1>3

\* A function on an interval that begins with 1 is a sequence.
LEMMA ASequence ==
    ASSUME NEW S, NEW n \in Nat, NEW f \in [1..n -> S]
    PROVE  f \in Seq(S) /\ Len(f) = n /\ DOMAIN f = 1..n
OBVIOUS

LEMMA SeqParts ==
    ASSUME NEW S, NEW q \in Seq(S)
    PROVE  Len(q) \in Nat /\ DOMAIN q = 1..Len(q) /\ q \in [1..Len(q) -> S]
BY LenProperties

\* AtMost takes a prefix.
LEMMA AtMostMeans ==
    ASSUME NEW S, NEW q \in Seq(S), NEW n \in Nat
    PROVE  /\ AtMost(q, n) \in Seq(S)
           /\ Len(AtMost(q, n)) = IF n <= Len(q) THEN n ELSE Len(q)
           /\ \A i \in 1..Len(AtMost(q, n)) : AtMost(q, n)[i] = q[i]
<1>1. Len(q) \in Nat
  BY LenProperties
<1> DEFINE m == Min({n, Len(q)})
<1>2. m = IF n <= Len(q) THEN n ELSE Len(q)
  BY <1>1, MinTwo
<1>3. m \in Nat /\ m <= Len(q) /\ AtMost(q, n) = SubSeq(q, 1, m)
  BY <1>1, <1>2 DEF AtMost
<1> HIDE DEF m
<1>4. SubSeq(q, 1, m) \in Seq(S) /\ Len(SubSeq(q, 1, m)) = m
  <2>1. CASE m = 0
    BY <1>3, <2>1, SubSeqProperties
  <2>2. CASE m > 0
    <3>1. 1 \in 1..Len(q) + 1 /\ m \in 1 - 1 .. Len(q)
      BY <1>1, <1>3, <2>2
    <3> QED BY <3>1, <1>1, <1>3, <2>2, SubSeqProperties
  <2> QED BY <1>3, <2>1, <2>2
<1>5. \A i \in 1..m : SubSeq(q, 1, m)[i] = q[i]
  BY <1>1, <1>3, SubSeqProperties
<1> QED BY <1>2, <1>3, <1>4, <1>5

\* Empties are that many empty slots.
LEMMA EmptiesMeans ==
    ASSUME NEW n \in Int
    PROVE  /\ Empties(n) \in Seq(Nat)
           /\ Len(Empties(n)) = IF n > 0 THEN n ELSE 0
           /\ \A i \in 1..Len(Empties(n)) : Empties(n)[i] = 0
<1> DEFINE m == IF n > 0 THEN n ELSE 0
<1>1. m \in Nat /\ 1..n = 1..m
  OBVIOUS
<1>2. Empties(n) \in [1..m -> Nat] /\ \A i \in 1..m : Empties(n)[i] = 0
  BY <1>1 DEF Empties
<1> HIDE DEF m
<1>3. Empties(n) \in Seq(Nat) /\ Len(Empties(n)) = m
  BY <1>1, <1>2, ASequence
<1> QED BY <1>2, <1>3 DEF m

\* A run of a sequence of posts is one, of the length asked for.
LEMMA CutMeans ==
    ASSUME NEW S, NEW q \in Seq(S), NEW a \in Nat, a <= Len(q)
    PROVE  /\ SubSeq(q, 1, a) \in Seq(S) /\ Len(SubSeq(q, 1, a)) = a
           /\ \A i \in 1..a : SubSeq(q, 1, a)[i] = q[i]
           /\ SubSeq(q, a + 1, Len(q)) \in Seq(S) /\ Len(SubSeq(q, a + 1, Len(q))) = Len(q) - a
           /\ \A i \in 1..(Len(q) - a) : SubSeq(q, a + 1, Len(q))[i] = q[a + i]
<1>1. Len(q) \in Nat
  BY LenProperties
<1>2. 1 \in 1..(Len(q) + 1) /\ a \in (1 - 1)..Len(q) /\ a + 1 \in 1..(Len(q) + 1) /\ Len(q) \in (a + 1 - 1)..Len(q)
  BY <1>1
<1>3. SubSeq(q, 1, a) \in Seq(S) /\ Len(SubSeq(q, 1, a)) = a /\ \A i \in 1..a : SubSeq(q, 1, a)[i] = q[i]
  <2>1. /\ SubSeq(q, 1, a) \in Seq(S)
        /\ Len(SubSeq(q, 1, a)) = IF 1 <= a THEN a - 1 + 1 ELSE 0
        /\ \A i \in 1..(a - 1 + 1) : SubSeq(q, 1, a)[i] = q[1 + i - 1]
    BY <1>2, SubSeqProperties
  <2> QED BY <2>1
<1>4. /\ SubSeq(q, a + 1, Len(q)) \in Seq(S) /\ Len(SubSeq(q, a + 1, Len(q))) = Len(q) - a
      /\ \A i \in 1..(Len(q) - a) : SubSeq(q, a + 1, Len(q))[i] = q[a + i]
  <2> DEFINE b == a + 1
             l == Len(q)
  <2>1. /\ SubSeq(q, b, l) \in Seq(S)
        /\ Len(SubSeq(q, b, l)) = IF b <= l THEN l - b + 1 ELSE 0
        /\ \A i \in 1..(l - b + 1) : SubSeq(q, b, l)[i] = q[b + i - 1]
    BY <1>2, SubSeqProperties
  <2>2. b \in Nat /\ b = a + 1 /\ l \in Nat /\ a <= l
    BY <1>1
  <2> HIDE DEF b, l
  <2>3. /\ SubSeq(q, b, l) \in Seq(S) /\ Len(SubSeq(q, b, l)) = l - a
        /\ \A i \in 1..(l - a) : SubSeq(q, b, l)[i] = q[a + i]
    <3>1. l - b + 1 = l - a /\ (IF b <= l THEN l - b + 1 ELSE 0) = l - a
      BY <2>2
    <3>2. \A i \in 1..(l - a) : b + i - 1 = a + i
      BY <2>2
    <3> QED BY <2>1, <3>1, <3>2
  <2> QED BY <2>3 DEF b, l
<1> QED BY <1>3, <1>4

\* Two sequences of posts joined are one.
LEMMA JoinMeans ==
    ASSUME NEW S, NEW p \in Seq(S), NEW q \in Seq(S)
    PROVE  /\ p \o q \in Seq(S) /\ Len(p \o q) = Len(p) + Len(q)
           /\ \A i \in 1..Len(p) : (p \o q)[i] = p[i]
           /\ \A i \in 1..Len(q) : (p \o q)[Len(p) + i] = q[i]
<1>1. /\ p \o q \in Seq(S) /\ Len(p \o q) = Len(p) + Len(q)
      /\ \A i \in 1..(Len(p) + Len(q)) : (p \o q)[i] = IF i <= Len(p) THEN p[i] ELSE q[i - Len(p)]
  BY ConcatProperties
<1>2. Len(p) \in Nat /\ Len(q) \in Nat
  BY LenProperties
<1>3. \A i \in 1..Len(p) : i \in 1..(Len(p) + Len(q)) /\ i <= Len(p)
  BY <1>2
<1>4. \A i \in 1..Len(q) : Len(p) + i \in 1..(Len(p) + Len(q)) /\ ~ (Len(p) + i <= Len(p)) /\ Len(p) + i - Len(p) = i
  BY <1>2
<1> QED BY <1>1, <1>3, <1>4

\* The same facts of sequences of numbers, as predicates.
IsJoin(r, p, q) ==
    /\ r \in Seq(Nat) /\ Len(r) = Len(p) + Len(q)
    /\ \A i \in 1..Len(p) : r[i] = p[i]
    /\ \A i \in 1..Len(q) : r[Len(p) + i] = q[i]

IsPrefixOf(r, q, n) ==
    /\ r \in Seq(Nat) /\ Len(r) = n /\ \A i \in 1..n : r[i] = q[i]

IsSuffixOf(r, q, n) ==
    /\ r \in Seq(Nat) /\ Len(r) = Len(q) - n /\ \A i \in 1..(Len(q) - n) : r[i] = q[n + i]

LEMMA Joined2 == ASSUME NEW p \in Seq(Nat), NEW q \in Seq(Nat) PROVE IsJoin(p \o q, p, q)
BY JoinMeans DEF IsJoin

LEMMA Cut2 ==
    ASSUME NEW q \in Seq(Nat), NEW a \in Nat, a <= Len(q)
    PROVE  IsPrefixOf(SubSeq(q, 1, a), q, a) /\ IsSuffixOf(SubSeq(q, a + 1, Len(q)), q, a)
BY CutMeans DEF IsPrefixOf, IsSuffixOf

LEMMA AtMost2 ==
    ASSUME NEW q \in Seq(Nat), NEW n \in Nat
    PROVE  IsPrefixOf(AtMost(q, n), q, IF n <= Len(q) THEN n ELSE Len(q))
BY AtMostMeans DEF IsPrefixOf

LEMMA Empties2 ==
    ASSUME NEW n \in Int
    PROVE  /\ Empties(n) \in Seq(Nat)
           /\ Len(Empties(n)) = IF n > 0 THEN n ELSE 0
           /\ \A i \in 1..Len(Empties(n)) : Empties(n)[i] = 0
BY EmptiesMeans
-----------------------------------------------------------------------------
(* Placing posts changes slots, window and count only.                     *)

NumbersFact == PageSize \in Nat \ {0} /\ ProbePercent \in Nat \ {0} /\ Painted \in Nat /\ Fetched \in Nat

\* What is assumed of the page sizes.
LEMMA Numbers == NumbersFact
BY ChannelPostsAssumption DEF NumbersFact

LEMMA TypedParts ==
    ASSUME NEW s, Typed(s)
    PROVE  /\ s.slots \in Seq(Nat) /\ Len(s.slots) \in Nat /\ DOMAIN s.slots = 1..Len(s.slots)
           /\ s.window.ids \in Seq(Nat) /\ Len(s.window.ids) \in Nat /\ s.window.first \in Int
           /\ \A i \in 1..Len(s.slots) : s.slots[i] \in Nat
<1>1. s.slots \in Seq(Nat) /\ s.window.ids \in Seq(Nat) /\ s.window.first \in Int
  BY DEF Typed, WindowShape
<1> QED BY <1>1, SeqParts

\* assignExactWindow is a placing.
LEMMA AssignPlaces ==
    ASSUME NEW s, Typed(s), NEW first \in Int, NEW ids \in Seq(Nat)
    PROVE  Placed(s, assignExactWindow(s, first, ids))
<1> DEFINE low == Min({first, Len(s.slots)})
           at == Max({1, low})
           given == AtMost(ids, Len(s.slots) - at + 1)
           span == at..(at + Len(given) - 1)
           new == [i \in DOMAIN s.slots |-> IF i \in span THEN given[i - at + 1]
                                            ELSE IF s.slots[i] \in Range(given) THEN 0 ELSE s.slots[i]]
<1>1. CASE s.slots = <<>>
  BY <1>1, PlacedSelf DEF assignExactWindow
<1>2. CASE s.slots # <<>>
  <2>1. Len(s.slots) \in Nat \ {0} /\ DOMAIN s.slots = 1..Len(s.slots)
    BY <1>2, TypedParts, EmptySeq
  <2>2. at \in 1..Len(s.slots)
    <3>1. Min({first, Len(s.slots)}) = IF first <= Len(s.slots) THEN first ELSE Len(s.slots)
      BY <2>1, MinTwo
    <3>2. Min({first, Len(s.slots)}) \in Int /\ Min({first, Len(s.slots)}) <= Len(s.slots)
      BY <2>1, <3>1
    <3>3. low \in Int /\ low <= Len(s.slots)
      BY <3>2
    <3> HIDE DEF low
    <3>4. at = IF 1 >= low THEN 1 ELSE low
      BY <3>3, MaxTwo
    <3> QED BY <2>1, <3>3, <3>4
  <2> HIDE DEF at, low
  <2>3. Len(s.slots) - at + 1 \in Nat
    BY <2>1, <2>2
  <2>4. given \in Seq(Nat) /\ Len(given) \in Nat
    BY <2>3, AtMostMeans, LenProperties
  <2>5. \A i \in 1..Len(given) : given[i] \in Nat
    BY <2>4
  <2> HIDE DEF given
  <2>6. new \in [1..Len(s.slots) -> Nat]
    <3>1. \A i \in 1..Len(s.slots) : i \in span => i - at + 1 \in 1..Len(given)
      BY <2>1, <2>2, <2>4
    <3>2. \A i \in 1..Len(s.slots) : s.slots[i] \in Nat
      BY TypedParts
    <3> HIDE DEF span
    <3> QED BY <2>1, <2>5, <3>1, <3>2
  <2>7. new \in Seq(Nat)
    BY <2>1, <2>6, ASequence
  <2>8. assignExactWindow(s, first, ids) = [s EXCEPT !.slots = new]
    BY <1>2 DEF assignExactWindow, at, low, given
  <2> HIDE DEF new
  <2>9. assignExactWindow(s, first, ids) = With(s, new, s.adjustment, s.provisional, s.window)
    BY <2>8, WriteSlots DEF Typed
  <2> QED BY <2>7, <2>9, WithPlaces DEF Typed
<1> QED BY <1>1, <1>2

\* resizeLogicalTail is a placing, and gives the length asked for.
LEMMA ResizePlaces ==
    ASSUME NEW s, Typed(s), NEW n \in Nat
    PROVE  Placed(s, resizeLogicalTail(s, n))
<1> DEFINE new == AtMost(s.slots, n) \o Empties(n - Len(s.slots))
<1>1. new \in Seq(Nat)
  <2>1. AtMost(s.slots, n) \in Seq(Nat)
    BY TypedParts, AtMost2 DEF IsPrefixOf
  <2>2. Empties(n - Len(s.slots)) \in Seq(Nat)
    BY TypedParts, Empties2
  <2> QED BY <2>1, <2>2, Joined2 DEF IsJoin
<1>2. resizeLogicalTail(s, n) = [s EXCEPT !.slots = new]
  BY DEF resizeLogicalTail
<1> HIDE DEF new
<1>3. resizeLogicalTail(s, n) = With(s, new, s.adjustment, s.provisional, s.window)
  BY <1>2, WriteSlots DEF Typed
<1> QED BY <1>1, <1>3, WithPlaces DEF Typed

\* Slots are put in before the one at "at", or at the end it lies beyond.
LEMMA InsertPlaces ==
    ASSUME NEW s, Typed(s), NEW n \in Int, NEW at \in Int
    PROVE  Placed(s, insertEmptyLogicalSlots(s, at, n))
<1> DEFINE l == Len(s.slots)
           end == l + 1
           low == Min({at, end})
           first == Max({1, low})
           a == first - 1
           left == SubSeq(s.slots, 1, first - 1)
           gap == Empties(n)
           right == SubSeq(s.slots, first, l)
           new == left \o gap \o right
           t == insertEmptyLogicalSlots(s, at, n)
<1>1. l \in Nat /\ s.slots \in Seq(Nat)
  BY TypedParts
<1>2. first \in 1..end /\ end \in Int
  <2>1. end \in Int /\ 1 <= end
    BY <1>1
  <2> HIDE DEF end
  <2>2. low \in Int /\ low <= end
    BY <2>1, MinTwo
  <2> HIDE DEF low
  <2>3. first = IF 1 >= low THEN 1 ELSE low
    BY <2>2, MaxTwo
  <2> QED BY <2>1, <2>2, <2>3
<1>3. t = [s EXCEPT !.slots = new]
  BY DEF insertEmptyLogicalSlots
<1> HIDE DEF first, low
<1>4. a \in Nat /\ a <= Len(s.slots) /\ first = a + 1
  BY <1>1, <1>2
<1> HIDE DEF a
<1>5. IsPrefixOf(left, s.slots, a) /\ IsSuffixOf(right, s.slots, a)
  <2>1. left = SubSeq(s.slots, 1, a) /\ right = SubSeq(s.slots, a + 1, Len(s.slots))
    BY <1>1, <1>4
  <2> QED BY <1>1, <1>4, <2>1, Cut2
<1>6. gap \in Seq(Nat)
  BY Empties2
<1> HIDE DEF left, gap, right
<1>7. new \in Seq(Nat)
  BY <1>5, <1>6, Joined2 DEF IsPrefixOf, IsSuffixOf, IsJoin
<1> HIDE DEF new, t
<1>8. t = With(s, new, s.adjustment, s.provisional, s.window)
  BY <1>3, WriteSlots DEF Typed
<1>9. Placed(s, t)
  BY <1>7, <1>8, WithPlaces DEF Typed
<1> QED BY <1>9 DEF t
-----------------------------------------------------------------------------
(* Without, by its runs.                                                   *)

\* A set of natural numbers that is not empty has a least element.
LEMMA Least ==
    ASSUME NEW T, T \subseteq Nat, T # {}
    PROVE  \E m \in T : \A n \in T : m <= n
<1>1. \E x \in T : \A y \in T : ~ (<<y, x>> \in OpToRel(<, Nat))
  BY NatLessThanWellFounded, WFMin, Zenon
<1>2. PICK x \in T : \A y \in T : ~ (<<y, x>> \in OpToRel(<, Nat))
  BY <1>1
<1>3. \A y \in T : ~ (y < x)
  BY <1>2 DEF OpToRel
<1> QED BY <1>3

\* A set of numbers that is not empty has its Min as least element.
LEMMA MinExists ==
    ASSUME NEW T, T \subseteq Nat, T # {}
    PROVE  Min(T) \in T /\ \A y \in T : Min(T) <= y
<1>1. \E x \in T : \A y \in T : x <= y
  BY Least
<1> DEFINE m == CHOOSE x \in T : \A y \in T : x <= y
<1>2. m \in T /\ \A y \in T : m <= y
  BY <1>1, Zenon
<1>3. Min(T) = m
  BY DEF Min
<1> HIDE DEF m
<1> QED BY <1>2, <1>3

\* A count by induction: what holds of 0, and of the next number, holds of all.
LEMMA Upward ==
    ASSUME NEW n \in Nat, NEW H, H \subseteq 0..n, 0 \in H, \A k \in H : k < n => k + 1 \in H
    PROVE  H = 0..n
<1> SUFFICES ASSUME NEW m \in 0..n, m \notin H PROVE FALSE
  OBVIOUS
<1> DEFINE T == (0..n) \ H
<1>1. PICK x \in T : \A y \in T : x <= y
  <2>1. T \subseteq Nat /\ T # {}
    OBVIOUS
  <2> HIDE DEF T
  <2> QED BY <2>1, Least
<1>2. x > 0 /\ x - 1 \in 0..n /\ x - 1 \notin T
  BY <1>1
<1> QED BY <1>1, <1>2

WithoutDef(ids, gone, f, k) ==
    IF k = 0 THEN <<>>
    ELSE IF ids[k] \in gone THEN f[k - 1] ELSE Append(f[k - 1], ids[k])

WithoutRun(ids, gone, m, f) == f = [k \in 0..m |-> WithoutDef(ids, gone, f, k)]
WithoutFrom(ids, gone, n) == CHOOSE f : WithoutRun(ids, gone, n, f)

LEMMA WithoutNext ==
    ASSUME NEW ids, NEW gone, NEW m \in Nat, NEW f, WithoutRun(ids, gone, m, f)
    PROVE  \E g : WithoutRun(ids, gone, m + 1, g)
<1> DEFINE g == [k \in 0..(m + 1) |-> IF k = m + 1 THEN WithoutDef(ids, gone, f, k) ELSE f[k]]
<1>1. \A k \in 0..(m + 1) : g[k] = WithoutDef(ids, gone, g, k)
  <2> SUFFICES ASSUME NEW k \in 0..(m + 1) PROVE g[k] = WithoutDef(ids, gone, g, k)
    OBVIOUS
  <2>1. k # 0 => g[k - 1] = f[k - 1]
    OBVIOUS
  <2>2. WithoutDef(ids, gone, g, k) = WithoutDef(ids, gone, f, k)
    <3> HIDE DEF g
    <3> QED BY <2>1 DEF WithoutDef
  <2>3. k # m + 1 => f[k] = WithoutDef(ids, gone, f, k)
    BY DEF WithoutRun
  <2>4. g[k] = IF k = m + 1 THEN WithoutDef(ids, gone, f, k) ELSE f[k]
    OBVIOUS
  <2> QED BY <2>2, <2>3, <2>4
<1>2. g = [k \in 0..(m + 1) |-> g[k]]
  OBVIOUS
<1> HIDE DEF g
<1>3. WithoutRun(ids, gone, m + 1, g)
  BY <1>1, <1>2 DEF WithoutRun
<1> QED BY <1>3

\* Without is defined by its runs: the recursive function exists.
LEMMA WithoutDefined ==
    ASSUME NEW ids, NEW gone, NEW n \in Nat
    PROVE  WithoutRun(ids, gone, n, WithoutFrom(ids, gone, n))
<1> DEFINE H == {m \in 0..n : \E f : WithoutRun(ids, gone, m, f)}
<1>1. 0 \in H
  <2> DEFINE f == [k \in 0..0 |-> <<>>]
  <2>1. \A k \in 0..0 : f[k] = WithoutDef(ids, gone, f, k)
    BY DEF WithoutDef
  <2>2. f = [k \in 0..0 |-> f[k]]
    OBVIOUS
  <2> HIDE DEF f
  <2>3. WithoutRun(ids, gone, 0, f)
    BY <2>1, <2>2 DEF WithoutRun
  <2> QED BY <2>3
<1>2. \A m \in H : m < n => m + 1 \in H
  BY WithoutNext
<1>3. H \subseteq 0..n
  OBVIOUS
<1>4. n \in H
  <2> HIDE DEF H
  <2>1. H = 0..n
    BY <1>1, <1>2, <1>3, Upward
  <2> QED BY <2>1
<1> QED BY <1>4 DEF WithoutFrom

\* Without keeps a sequence of posts one.
LEMMA WithoutMeans ==
    ASSUME NEW ids \in Seq(Nat), NEW gone
    PROVE  Without(ids, gone) \in Seq(Nat)
<1> DEFINE n == Len(ids)
           f == WithoutFrom(ids, gone, n)
           H == {k \in 0..n : f[k] \in Seq(Nat)}
<1>1. n \in Nat /\ \A k \in 1..n : ids[k] \in Nat
  OBVIOUS
<1>2. Without(ids, gone) = f[n]
  BY DEF Without, WithoutFrom, WithoutRun, WithoutDef
<1>3. WithoutRun(ids, gone, n, f)
  BY <1>1, WithoutDefined
<1> HIDE DEF f, n
<1>4. \A k \in 0..n : f[k] = WithoutDef(ids, gone, f, k)
  BY <1>3 DEF WithoutRun
<1>5. 0 \in H
  <2>1. f[0] = <<>>
    BY <1>1, <1>4 DEF WithoutDef
  <2>2. f[0] \in Seq(Nat)
    <3>1. <<>> \in Seq(Nat)
      OBVIOUS
    <3> QED BY <2>1, <3>1
  <2> QED BY <1>1, <2>2
<1>6. \A k \in H : k < n => k + 1 \in H
  <2> SUFFICES ASSUME NEW k \in H, k < n PROVE k + 1 \in H
    OBVIOUS
  <2>1. k \in 0..n /\ f[k] \in Seq(Nat) /\ k + 1 \in 1..n /\ k + 1 \in 0..n /\ k + 1 # 0 /\ k + 1 - 1 = k
    BY <1>1
  <2>2. f[k + 1] = IF ids[k + 1] \in gone THEN f[k] ELSE Append(f[k], ids[k + 1])
    BY <1>4, <2>1 DEF WithoutDef
  <2>3. Append(f[k], ids[k + 1]) \in Seq(Nat)
    BY <1>1, <2>1, AppendProperties
  <2>4. f[k + 1] \in Seq(Nat)
    BY <2>1, <2>2, <2>3
  <2> QED BY <2>1, <2>4
<1>7. H \subseteq 0..n
  OBVIOUS
<1>8. n \in H
  <2> HIDE DEF H
  <2>1. H = 0..n
    BY <1>1, <1>5, <1>6, <1>7, Upward
  <2> QED BY <1>1, <2>1
<1> QED BY <1>2, <1>8
-----------------------------------------------------------------------------
(* The prefix, the count.                                                  *)

LEMMA PrefixPlaces ==
    ASSUME NEW s, Typed(s), NEW n \in Int
    PROVE  Placed(s, insertLogicalPrefix(s, n))
<1>2. CASE ~HasWindow(s)
  BY <1>2, InsertPlaces DEF insertLogicalPrefix
<1>3. CASE HasWindow(s)
  <2> DEFINE w == [target |-> s.window.target, ids |-> s.window.ids, first |-> s.window.first + n,
                   oldest |-> s.window.oldest, newest |-> s.window.newest]
             t == [s EXCEPT !.window.first = @ + n]
             u == With(s, s.slots, s.adjustment, s.provisional, w)
  <2>1. t = u
    <3>1. t = [s EXCEPT !.window.first = s.window.first + n]
      OBVIOUS
    <3> QED BY <3>1, WriteWindowFirst DEF Typed
  <2>2. WindowShape(w)
    BY DEF Typed, WindowShape
  <2>3. insertLogicalPrefix(s, n) = insertEmptyLogicalSlots(t, 1, n)
    BY <1>3 DEF insertLogicalPrefix
  <2> HIDE DEF w, t
  <2>4. Placed(s, u) /\ u.slots = s.slots
    BY <2>2, WithPlaces, PlacedFields DEF Typed
  <2> HIDE DEF u
  <2>5. Placed(u, insertEmptyLogicalSlots(u, 1, n))
    BY <2>4, InsertPlaces DEF Placed
  <2> QED BY <2>1, <2>3, <2>4, <2>5, PlacedTrans
<1> QED BY <1>2, <1>3

LEMMA NoWindowShape == WindowShape(NoWindow)
<1> DEFINE no == FALSE
<1>1. NoWindow = [target |-> 0, ids |-> <<>>, first |-> 0, oldest |-> no, newest |-> no]
  BY DEF NoWindow
<1> HIDE DEF no
<1>2. <<>> \in Seq(Nat)
  OBVIOUS
<1> QED BY <1>1, <1>2 DEF WindowShape

\* removeLogicalRange is a placing.
LEMMA RemovePlaces ==
    ASSUME NEW s, Typed(s), NEW first \in Int, NEW n \in Nat, 1 <= first, first + n - 1 <= Len(s.slots)
    PROVE  Placed(s, removeLogicalRange(s, first, n))
<1> DEFINE gone == first..(first + n - 1)
           w == s.window
           kept == Without(w.ids, {w.ids[k] : k \in {j \in DOMAIN w.ids : w.first + j - 1 \in gone}})
           moved == Cardinality({i \in gone : i < w.first})
           new == SubSeq(s.slots, 1, first - 1) \o SubSeq(s.slots, first + n, Len(s.slots))
           guessed == s.provisional \ {s.slots[i] : i \in gone}
           shorter == [w EXCEPT !.ids = kept, !.first = w.first - moved]
           left == IF ~HasWindow(s) THEN w ELSE IF w.target \notin Range(kept) THEN NoWindow ELSE shorter
<1>1. new \in Seq(Nat)
  <2>1. s.slots \in Seq(Nat) /\ Len(s.slots) \in Nat
    BY TypedParts
  <2>2. SubSeq(s.slots, 1, first - 1) \in Seq(Nat)
    <3> DEFINE a == first - 1
    <3>1. a \in Nat /\ a <= Len(s.slots)
      BY <2>1
    <3> HIDE DEF a
    <3>2. IsPrefixOf(SubSeq(s.slots, 1, a), s.slots, a)
      BY <2>1, <3>1, Cut2
    <3> QED BY <3>2 DEF IsPrefixOf, a
  <2>3. SubSeq(s.slots, first + n, Len(s.slots)) \in Seq(Nat)
    <3> DEFINE a == first + n - 1
    <3>1. a \in Nat /\ a <= Len(s.slots) /\ a + 1 = first + n
      BY <2>1
    <3> HIDE DEF a
    <3>2. IsSuffixOf(SubSeq(s.slots, a + 1, Len(s.slots)), s.slots, a)
      BY <2>1, <3>1, Cut2
    <3> QED BY <3>1, <3>2 DEF IsSuffixOf
  <2> QED BY <2>2, <2>3, Joined2 DEF IsJoin
<1>2. kept \in Seq(Nat)
  BY TypedParts, WithoutMeans
<1>3. moved \in Nat
  <2>1. IsFiniteSet(gone)
    BY FS_Interval
  <2>2. IsFiniteSet({i \in gone : i < w.first})
    BY <2>1, FS_Subset
  <2> QED BY <2>2, FS_CardinalityType
<1>4. removeLogicalRange(s, first, n) = Rewritten(s, new, guessed, left)
  BY Zenon DEF removeLogicalRange, Rewritten
<1> HIDE DEF kept, moved
<1>5. WindowShape(left)
  <2>1. WindowShape(w)
    BY DEF Typed
  <2>2. WindowShape(shorter)
    <3> DEFINE v == [w EXCEPT !.ids = kept]
               f == w.first - moved
    <3>1. v = [target |-> w.target, ids |-> kept, first |-> w.first, oldest |-> w.oldest, newest |-> w.newest]
      BY <2>1 DEF WindowShape
    <3>2. shorter = [v EXCEPT !.first = f]
      BY <2>1 DEF WindowShape
    <3>3. f \in Int
      BY <1>3, <2>1 DEF WindowShape
    <3> HIDE DEF v, f, w, shorter
    <3>4. WindowShape(v)
      BY <1>2, <2>1, <3>1 DEF WindowShape
    <3>5. shorter = [target |-> v.target, ids |-> v.ids, first |-> f, oldest |-> v.oldest, newest |-> v.newest]
      BY <3>2, <3>4, WriteFirst
    <3> QED BY <3>3, <3>4, <3>5 DEF WindowShape
  <2> HIDE DEF shorter, w
  <2> QED BY <2>1, <2>2, NoWindowShape
<1> HIDE DEF new, guessed, left
<1>6. removeLogicalRange(s, first, n) = With(s, new, s.adjustment, guessed, left)
  <2> HIDE DEF w, gone
  <2>1. Shape(s)
    BY DEF Typed
  <2>2. Rewritten(s, new, guessed, left) = With(s, new, s.adjustment, guessed, left)
    BY <2>1, WritePlaces
  <2> QED BY <1>4, <2>2
<1> QED BY <1>1, <1>5, <1>6, WithPlaces DEF Typed

LEMMA AdjustPlaces ==
    ASSUME NEW s, Typed(s), NEW x \in Int
    PROVE  Placed(s, [s EXCEPT !.adjustment = x]) /\ [s EXCEPT !.adjustment = x].slots = s.slots
<1> DEFINE t == [s EXCEPT !.adjustment = x]
<1>1. t = With(s, s.slots, x, s.provisional, s.window)
  BY WriteAdjustment DEF Typed
<1> HIDE DEF t
<1> QED BY <1>1, WithPlaces, PlacedFields DEF Typed, t

\* reconcileRootCount is a placing.
LEMMA ReconcilePlaces ==
    ASSUME NEW s, Typed(s), NEW actual \in Nat
    PROVE  Placed(s, reconcileRootCount(s, actual))
<1> DEFINE known == [s EXCEPT !.adjustment = actual - s.total]
<1>1. actual - s.total \in Int /\ Len(s.slots) \in Nat
  BY TypedParts DEF Typed
<1>2. Placed(s, known) /\ known.slots = s.slots
  BY <1>1, AdjustPlaces
<1>3. reconcileRootCount(s, actual) =
        IF actual > Len(s.slots) THEN insertLogicalPrefix(known, actual - Len(s.slots))
        ELSE removeLogicalRange(known, 1, Len(s.slots) - actual)
  BY DEF reconcileRootCount
<1> HIDE DEF known
<1>4. CASE actual > Len(s.slots)
  <2>1. actual - Len(s.slots) \in Int
    BY <1>1
  <2>2. Placed(known, insertLogicalPrefix(known, actual - Len(s.slots)))
    BY <1>2, <2>1, PrefixPlaces DEF Placed
  <2> QED BY <1>2, <1>3, <1>4, <2>2, PlacedTrans
<1>5. CASE ~ (actual > Len(s.slots))
  <2>1. Len(s.slots) - actual \in Nat /\ 1 + (Len(s.slots) - actual) - 1 <= Len(known.slots)
    BY <1>1, <1>2, <1>5
  <2>2. Placed(known, removeLogicalRange(known, 1, Len(s.slots) - actual))
    BY <1>2, <2>1, RemovePlaces DEF Placed
  <2> QED BY <1>2, <1>3, <1>5, <2>2, PlacedTrans
<1> QED BY <1>4, <1>5

\* ensureMinimumRootCount is a placing.
LEMMA EnsurePlaces ==
    ASSUME NEW s, Typed(s), NEW n \in Int
    PROVE  Placed(s, ensureMinimumRootCount(s, n))
<1>1. n - Len(s.slots) \in Int
  BY TypedParts
<1> QED BY <1>1, PrefixPlaces, PlacedSelf DEF ensureMinimumRootCount
-----------------------------------------------------------------------------
(* The place of a run of posts.                                            *)

\* A post's place is 0 or a slot that holds it.
LEMMA IndexMeans ==
    ASSUME NEW s, s.slots \in Seq(Nat), NEW p
    PROVE  /\ IndexOf(s, p) \in 0..Len(s.slots)
           /\ IndexOf(s, p) # 0 => s.slots[IndexOf(s, p)] = p
<1>1. CASE Places(s.slots, p) = {}
  BY <1>1, LenProperties DEF IndexOf
<1>2. CASE Places(s.slots, p) # {}
  <2> DEFINE P == Places(s.slots, p)
  <2>1. P \in SUBSET (1..Len(s.slots)) /\ Len(s.slots) \in Nat /\ \A i \in P : s.slots[i] = p
    BY SeqParts DEF Places
  <2>2. IsFiniteSet(P)
    <3>1. IsFiniteSet(1..Len(s.slots))
      BY <2>1, FS_Interval
    <3> HIDE DEF P
    <3> QED BY <2>1, <3>1, FS_Subset
  <2> HIDE DEF P
  <2>3. Max(P) \in P
    <3>1. P \in SUBSET Int /\ P # {}
      BY <1>2, <2>1 DEF P
    <3> QED BY <2>2, <3>1, MaxExists
  <2>4. IndexOf(s, p) = Max(P)
    BY <1>2 DEF IndexOf, P
  <2> DEFINE m == Max(P)
  <2>5. m \in P
    BY <2>3
  <2> HIDE DEF m
  <2>6. m \in 0..Len(s.slots) /\ s.slots[m] = p
    BY <2>1, <2>5
  <2>7. IndexOf(s, p) = m
    BY <2>4 DEF m
  <2> QED BY <2>6, <2>7
<1> QED BY <1>1, <1>2

\* So is its place in a run.
LEMMA AtMeans ==
    ASSUME NEW q \in Seq(Nat), NEW p
    PROVE  /\ At(q, p) \in 0..Len(q)
           /\ At(q, p) # 0 => q[At(q, p)] = p
<1>1. CASE Places(q, p) = {}
  BY <1>1, LenProperties DEF At
<1>2. CASE Places(q, p) # {}
  <2> DEFINE P == Places(q, p)
  <2>1. P \subseteq 1..Len(q) /\ Len(q) \in Nat /\ \A i \in P : q[i] = p
    BY SeqParts DEF Places
  <2> HIDE DEF P
  <2>2. P \subseteq Nat /\ P # {}
    BY <1>2, <2>1 DEF P
  <2>3. Min(P) \in P
    BY <2>2, MinExists
  <2>4. At(q, p) = Min(P)
    BY <1>2 DEF At, P
  <2> DEFINE m == Min(P)
  <2>5. m \in P
    BY <2>3
  <2> HIDE DEF m
  <2>6. m \in 0..Len(q) /\ q[m] = p
    BY <2>1, <2>5
  <2>7. At(q, p) = m
    BY <2>4 DEF m
  <2> QED BY <2>6, <2>7
<1> QED BY <1>1, <1>2

\* The places proved for a run are numbers.
LEMMA CandidatesType ==
    ASSUME NEW s, Typed(s), NEW ids \in Seq(Nat), NEW count \in Int, NEW hint \in Int, NEW oldest, NEW newest
    PROVE  \A c \in Candidates(s, ids, count, hint, oldest, newest) : c \in Int
<1>1. s.slots \in Seq(Nat) /\ Len(s.slots) \in Int
  BY TypedParts
<1>2. \A k \in DOMAIN ids : k \in Int /\ IndexOf(s, ids[k]) \in Int
  BY <1>1, IndexMeans, SeqParts
<1>3. \A k \in DOMAIN ids : IndexOf(s, ids[k]) - k + 1 \in Int
  BY <1>2
<1>4. Len(s.slots) - count + 1 \in Int
  BY <1>1
<1> QED BY <1>3, <1>4 DEF Candidates

\* The distance of a free place from the preferred one.
FarFrom(want, i) == IF i < want THEN want - i ELSE i - want

\* Of the free runs one is nearest.
LEMMA Nearest ==
    ASSUME NEW room, room \subseteq Nat, room # {}, NEW want \in Int
    PROVE  \E i \in room : \A j \in room :
              FarFrom(want, i) < FarFrom(want, j) \/ (FarFrom(want, i) = FarFrom(want, j) /\ i <= j)
<1> DEFINE D == {FarFrom(want, i) : i \in room}
<1>1. \A i \in room : FarFrom(want, i) \in Nat
  BY DEF FarFrom
<1>2. PICK d \in D : \A e \in D : d <= e
  <2>1. D \subseteq Nat /\ D # {}
    BY <1>1
  <2> HIDE DEF D
  <2> QED BY <2>1, Least
<1> DEFINE C == {i \in room : FarFrom(want, i) = d}
<1>3. PICK i \in C : \A j \in C : i <= j
  <2>1. C \subseteq Nat /\ C # {}
    OBVIOUS
  <2> HIDE DEF C
  <2> QED BY <2>1, Least
<1>4. ASSUME NEW j \in room
      PROVE  FarFrom(want, i) < FarFrom(want, j) \/ (FarFrom(want, i) = FarFrom(want, j) /\ i <= j)
  <2>1. FarFrom(want, i) = d /\ d <= FarFrom(want, j) /\ FarFrom(want, j) \in Nat /\ d \in Nat
    BY <1>1, <1>2, <1>3
  <2>2. CASE FarFrom(want, j) = d
    <3>1. i <= j
      BY <1>3, <2>2
    <3> QED BY <2>1, <2>2, <3>1
  <2>3. CASE FarFrom(want, j) # d
    BY <2>1, <2>3
  <2> QED BY <2>2, <2>3
<1> QED BY <1>3, <1>4

\* findFreeWindowFirst gives a slot, or 0.
LEMMA FreeType ==
    ASSUME NEW slots, Len(slots) \in Nat, NEW n \in Int, NEW preferred \in Int
    PROVE  findFreeWindowFirst(slots, n, preferred) \in Nat
<1> DEFINE room == {i \in 1..(Len(slots) - n + 1) : \A k \in i..(i + n - 1) : slots[k] = 0}
           lim == Len(slots) - n + 1
           low == Min({preferred, lim})
           want == Max({1, low})
           free == findFreeWindowFirst(slots, n, preferred)
           best == CHOOSE i \in room : \A j \in room :
              FarFrom(want, i) < FarFrom(want, j) \/ (FarFrom(want, i) = FarFrom(want, j) /\ i <= j)
<1>1. free = IF room = {} THEN 0 ELSE best
  BY DEF findFreeWindowFirst, FarFrom
<1>2. CASE room = {}
  BY <1>1, <1>2
<1>3. CASE room # {}
  <2>1. room \subseteq Nat
    OBVIOUS
  <2>2. want \in Int
    <3>1. lim \in Int
      OBVIOUS
    <3> HIDE DEF lim
    <3>2. low \in Int
      BY <3>1, MinTwo
    <3> HIDE DEF low
    <3> QED BY <3>2, MaxTwo
  <2> HIDE DEF room, want
  <2>3. \E i \in room : \A j \in room :
           FarFrom(want, i) < FarFrom(want, j) \/ (FarFrom(want, i) = FarFrom(want, j) /\ i <= j)
    BY <1>3, <2>1, <2>2, Nearest
  <2>4. best \in room
    BY <2>3, Zenon
  <2> HIDE DEF best
  <2> QED BY <1>1, <1>3, <2>1, <2>4
<1> QED BY <1>2, <1>3
-----------------------------------------------------------------------------
(* Windows.                                                                *)

\* placeNavigationContext is a placing, whether it returns true or false.
LEMMA PlaceContext ==
    ASSUME NEW s, Typed(s), NEW target, NEW ids \in Seq(Nat), NEW oldest, NEW newest,
           NEW hint \in Int, NEW guess \in Int
    PROVE  Placed(s, placeNavigationContext(s, target, ids, oldest, newest, hint, guess).s)
<1> DEFINE n == Len(ids)
           offset == At(ids, target)
           proved == Candidates(s, ids, n, hint, oldest, newest)
           free == [i \in DOMAIN s.slots |-> IF s.slots[i] \in s.provisional THEN 0 ELSE s.slots[i]]
           old == IF s.window.target = target THEN IndexOf(s, target) ELSE 0
           left0 == IF oldest THEN 0 ELSE 1
           right0 == IF newest THEN 0 ELSE 1
           found == findFreeWindowFirst(free, n + left0 + right0,
                      (IF old # 0 THEN old ELSE guess) - offset + 1 - left0)
           exact == CHOOSE c \in proved : TRUE
           first == IF proved # {} THEN exact ELSE found + left0
           new == [i \in DOMAIN free |-> IF i \in first..(first + n - 1) THEN ids[i - first + 1] ELSE free[i]]
           same == [target |-> target, ids |-> ids, first |-> s.window.first,
                    oldest |-> oldest, newest |-> newest]
           blocked == IF proved = {} THEN found = 0
                      ELSE \E k \in 1..n : free[exact + k - 1] \notin {0, ids[k]}
           guessed == IF proved # {} THEN {} ELSE Range(ids)
           window == IF proved # {} THEN NoWindow ELSE [same EXCEPT !.first = first]
           t == Rewritten(s, new, guessed, window)
           result == placeNavigationContext(s, target, ids, oldest, newest, hint, guess)
<1>1. result = IF offset = 0 \/ n > Len(s.slots) THEN [ok |-> FALSE, s |-> s]
               ELSE IF hint = 0 /\ HasWindow(s) /\ s.window = same THEN [ok |-> TRUE, s |-> s]
               ELSE IF ~Fits(s, n, proved) \/ blocked THEN [ok |-> FALSE, s |-> s]
               ELSE [ok |-> TRUE, s |-> t]
  BY Zenon DEF placeNavigationContext, Rewritten
<1>2. result.s = s \/ result.s = t
  <2> HIDE DEF result, offset, n, proved, blocked, same, t
  <2> QED BY <1>1
<1>3. n \in Nat /\ offset \in Nat /\ Len(s.slots) \in Nat /\ DOMAIN s.slots = 1..Len(s.slots)
      /\ \A k \in 1..n : ids[k] \in Nat
  BY AtMeans, TypedParts
<1>4. free \in [1..Len(s.slots) -> Nat]
  BY TypedParts
<1>5. Len(free) \in Nat /\ DOMAIN free = 1..Len(s.slots)
  BY <1>3, <1>4
<1>6. first \in Int
  <2>1. left0 \in Int /\ right0 \in Int /\ old \in Int
    BY IndexMeans, TypedParts
  <2> DEFINE size == n + left0 + right0
             near == (IF old # 0 THEN old ELSE guess) - offset + 1 - left0
  <2>2. size \in Int /\ near \in Int
    BY <1>3, <2>1
  <2> HIDE DEF free, size, near, n, offset, left0, right0, old
  <2>3. findFreeWindowFirst(free, size, near) \in Nat
    BY <1>5, <2>2, FreeType
  <2>4. found \in Int
    BY <2>3 DEF size, near
  <2> HIDE DEF found
  <2>5. proved # {} => exact \in Int
    <3>1. \A c \in proved : c \in Int
      BY <1>3, CandidatesType
    <3> HIDE DEF proved
    <3> QED BY <3>1
  <2> HIDE DEF exact, proved
  <2> QED BY <2>1, <2>4, <2>5
<1> HIDE DEF free, first, n, proved
<1>7. new \in Seq(Nat)
  <2>1. \A i \in 1..Len(s.slots) : i \in first..(first + n - 1) => i - first + 1 \in 1..n
    BY <1>3, <1>6
  <2>2. new \in [1..Len(s.slots) -> Nat]
    BY <1>3, <1>4, <1>5, <2>1
  <2> HIDE DEF new
  <2> QED BY <1>3, <2>2, ASequence
<1>8. WindowShape(window)
  <2> DEFINE moved == [target |-> target, ids |-> ids, first |-> first, oldest |-> oldest, newest |-> newest]
  <2>1. [same EXCEPT !.first = first] = moved
    OBVIOUS
  <2>2. WindowShape(moved)
    BY <1>6 DEF WindowShape
  <2> HIDE DEF moved, same
  <2> QED BY <2>1, <2>2, NoWindowShape
<1> HIDE DEF new, guessed, window
<1>9. t = With(s, new, s.adjustment, guessed, window)
  BY WritePlaces DEF Typed
<1>10. Placed(s, t)
  <2> HIDE DEF t
  <2> QED BY <1>7, <1>8, <1>9, WithPlaces DEF Typed
<1> HIDE DEF result, t
<1> QED BY <1>2, <1>10, PlacedSelf DEF result

LEMMA WindowPlaces ==
    ASSUME NEW s, Typed(s), NEW first \in Int
    PROVE  Placed(s, placeWindow(s, first).s)
<1>1. s.window.ids \in Seq(Nat) /\ 1 \in Int
  BY TypedParts
<1> QED BY <1>1, PlaceContext DEF placeWindow

\* A run that meets the window tells a place for it, or none.
LEMMA OverlapType ==
    ASSUME NEW first \in Int, NEW ids \in Seq(Nat), NEW context \in Seq(Nat)
    PROVE  Overlap(first, ids, context).first \in Int
<1> DEFINE met == {k \in DOMAIN ids : ids[k] \in Range(context)}
           begins(k) == first + k - At(context, ids[k])
           told == {k \in met : begins(k) >= 1}
           by == Min(told)
           found == [first |-> begins(by), conflict |-> \E k \in met : k > by /\ begins(k) # begins(by)]
           m == Overlap(first, ids, context)
<1>1. m = IF told = {} THEN NoMatch ELSE found
  BY Zenon DEF Overlap
<1>2. CASE told = {}
  BY <1>1, <1>2 DEF NoMatch
<1>3. CASE told # {}
  <2>1. told \subseteq Nat
    BY SeqParts
  <2>2. by \in Nat
    <3> HIDE DEF told
    <3> QED BY <1>3, <2>1, MinExists
  <2>3. begins(by) \in Int
    <3> DEFINE p == ids[by]
               a == At(context, p)
    <3>1. a \in Int
      <4> HIDE DEF p
      <4> QED BY AtMeans
    <3> HIDE DEF a, by
    <3>2. first + by - a \in Int
      BY <2>2, <3>1
    <3> QED BY <3>2 DEF a
  <2> DEFINE b == begins(by)
             c == \E k \in met : k > by /\ begins(k) # begins(by)
  <2>4. m = [first |-> b, conflict |-> c]
    BY <1>1, <1>3
  <2> HIDE DEF b, c, m
  <2> QED BY <2>3, <2>4 DEF b, m
<1> QED BY <1>2, <1>3

\* The same of a record that stands for a match.
MatchShape(m) == m = [first |-> m.first, conflict |-> m.conflict] /\ m.first \in Int

LEMMA OverlapShape ==
    ASSUME NEW first \in Int, NEW ids \in Seq(Nat), NEW context \in Seq(Nat)
    PROVE  MatchShape(Overlap(first, ids, context))
<1> DEFINE m == Overlap(first, ids, context)
<1>1. m.first \in Int
  BY OverlapType
<1>2. \E b, c : m = [first |-> b, conflict |-> c]
  BY Zenon DEF Overlap, NoMatch
<1> HIDE DEF m
<1> QED BY <1>1, <1>2 DEF MatchShape, m

LEMMA MatchFirst ==
    ASSUME NEW m, MatchShape(m), NEW f \in Int
    PROVE  [m EXCEPT !.first = f].first \in Int
BY DEF MatchShape

LEMMA AfterType ==
    ASSUME NEW anchor \in Int, NEW ids \in Seq(Nat), NEW next, NEW context \in Seq(Nat)
    PROVE  matchAfter(anchor, ids, next, context).first \in Int
<1> DEFINE m == Overlap(anchor + 1, ids, context)
           f == anchor + 1 + Len(ids)
<1>1. MatchShape(m)
  BY OverlapShape
<1>2. f \in Int
  BY LenProperties
<1>3. matchAfter(anchor, ids, next, context) = IF m.first < 1 /\ next = Head(context) THEN [m EXCEPT !.first = f] ELSE m
  BY DEF matchAfter
<1> HIDE DEF m, f
<1>4. [m EXCEPT !.first = f].first \in Int /\ m.first \in Int
  BY <1>1, <1>2, MatchFirst DEF MatchShape
<1> DEFINE e == [m EXCEPT !.first = f]
<1> HIDE DEF e
<1> QED BY <1>3, <1>4 DEF e

LEMMA BeforeType ==
    ASSUME NEW first \in Int, NEW ids \in Seq(Nat), NEW prev, NEW context \in Seq(Nat)
    PROVE  matchBefore(first, ids, prev, context).first \in Int
<1> DEFINE m == Overlap(first, ids, context)
           f == first - Len(context)
<1>1. MatchShape(m)
  BY OverlapShape
<1>2. f \in Int
  BY LenProperties
<1>3. matchBefore(first, ids, prev, context) = IF m.first < 1 /\ prev = Last(context) THEN [m EXCEPT !.first = f] ELSE m
  BY DEF matchBefore
<1> HIDE DEF m, f
<1>4. [m EXCEPT !.first = f].first \in Int /\ m.first \in Int
  BY <1>1, <1>2, MatchFirst DEF MatchShape
<1> DEFINE e == [m EXCEPT !.first = f]
<1> HIDE DEF e
<1> QED BY <1>3, <1>4 DEF e
LEMMA MovePlaces ==
    ASSUME NEW s, Typed(s), NEW first \in Int
    PROVE  Placed(s, moveWindow(s, first))
<1> DEFINE n == Len(s.window.ids)
           new == [i \in DOMAIN s.slots |->
              IF i \in first..(first + n - 1) THEN s.window.ids[i - first + 1]
              ELSE IF i \in s.window.first..WindowLast(s) /\ s.slots[i] \in s.provisional THEN 0 ELSE s.slots[i]]
           w == [target |-> s.window.target, ids |-> s.window.ids, first |-> first,
                 oldest |-> s.window.oldest, newest |-> s.window.newest]
<1>1. /\ n \in Nat /\ Len(s.slots) \in Nat /\ DOMAIN s.slots = 1..Len(s.slots)
      /\ \A k \in 1..n : s.window.ids[k] \in Nat
      /\ \A i \in 1..Len(s.slots) : s.slots[i] \in Nat
  BY TypedParts
<1> HIDE DEF n
<1>2. new \in Seq(Nat)
  <2>1. \A i \in 1..Len(s.slots) : i \in first..(first + n - 1) => i - first + 1 \in 1..n
    BY <1>1
  <2>2. new \in [1..Len(s.slots) -> Nat]
    BY <1>1, <2>1
  <2> HIDE DEF new
  <2> QED BY <1>1, <2>2, ASequence
<1>3. moveWindow(s, first) = [s EXCEPT !.slots = new, !.window.first = first]
  BY DEF moveWindow, n
<1> HIDE DEF new
<1>4. moveWindow(s, first) = With(s, new, s.adjustment, s.provisional, w)
  BY <1>3, WriteSlotsFirst DEF Typed
<1>5. WindowShape(w)
  BY DEF Typed, WindowShape
<1> HIDE DEF w
<1> QED BY <1>2, <1>4, <1>5, WithPlaces DEF Typed

LEMMA WindowMoves ==
    ASSUME NEW s, Typed(s), NEW first \in Int
    PROVE  /\ Placed(s, [s EXCEPT !.window.first = first])
           /\ [s EXCEPT !.window.first = first].slots = s.slots
<1> DEFINE w == [target |-> s.window.target, ids |-> s.window.ids, first |-> first,
                 oldest |-> s.window.oldest, newest |-> s.window.newest]
           t == [s EXCEPT !.window.first = first]
<1>1. t = With(s, s.slots, s.adjustment, s.provisional, w)
  BY WriteWindowFirst DEF Typed
<1>2. WindowShape(w)
  BY DEF Typed, WindowShape
<1> HIDE DEF w, t
<1>3. Placed(s, t)
  BY <1>1, <1>2, WithPlaces DEF Typed
<1>4. t.slots = s.slots
  BY <1>1, PlacedFields
<1> QED BY <1>3, <1>4 DEF t

\* makeRoomBeforeProvisional is a placing.
LEMMA RoomBeforePlaces ==
    ASSUME NEW s, Typed(s), NEW last \in Int
    PROVE  Placed(s, makeRoomBeforeProvisional(s, last))
<1> DEFINE shift == last - s.window.first + 1
           beyond == (WindowLast(s) + 1)..(WindowLast(s) + shift)
           free == beyond \subseteq DOMAIN s.slots /\ \A i \in beyond : s.slots[i] = 0
           f == s.window.first + shift
           t == [s EXCEPT !.window.first = f]
<1>1. makeRoomBeforeProvisional(s, last) =
        IF shift <= 0 THEN s ELSE IF free THEN moveWindow(s, f)
        ELSE insertEmptyLogicalSlots(t, s.window.first, shift)
  BY Zenon DEF makeRoomBeforeProvisional
<1>2. shift \in Int /\ f \in Int /\ s.window.first \in Int
  BY TypedParts
<1> HIDE DEF free, f, shift
<1>3. Placed(s, moveWindow(s, f))
  BY <1>2, MovePlaces
<1>4. Placed(s, t) /\ t.slots = s.slots
  BY <1>2, WindowMoves
<1> HIDE DEF t
<1>5. Placed(t, insertEmptyLogicalSlots(t, s.window.first, shift))
  <2>1. Typed(t)
    BY <1>4 DEF Placed
  <2> QED BY <1>2, <2>1, InsertPlaces
<1>6. Placed(s, insertEmptyLogicalSlots(t, s.window.first, shift))
  BY <1>4, <1>5, PlacedTrans
<1> QED BY <1>1, <1>3, <1>6, PlacedSelf

\* makeRoomAfterProvisional is a placing.
LEMMA RoomAfterPlaces ==
    ASSUME NEW s, Typed(s), NEW first \in Int
    PROVE  Placed(s, makeRoomAfterProvisional(s, first))
<1> DEFINE shift == WindowLast(s) - first + 1
           before == (s.window.first - shift)..(s.window.first - 1)
           free == before \subseteq DOMAIN s.slots /\ \A i \in before : s.slots[i] = 0
           f == s.window.first - shift
           end == WindowLast(s) + 1
<1>1. makeRoomAfterProvisional(s, first) =
        IF shift <= 0 THEN s ELSE IF free THEN moveWindow(s, f)
        ELSE insertEmptyLogicalSlots(s, end, shift)
  BY Zenon DEF makeRoomAfterProvisional
<1>2. shift \in Int /\ f \in Int /\ end \in Int
  <2>1. WindowLast(s) \in Int /\ s.window.first \in Int
    BY TypedParts DEF WindowLast
  <2> QED BY <2>1
<1> HIDE DEF free, f, shift, end
<1>3. Placed(s, moveWindow(s, f))
  BY <1>2, MovePlaces
<1>4. Placed(s, insertEmptyLogicalSlots(s, end, shift))
  BY <1>2, InsertPlaces
<1> QED BY <1>1, <1>3, <1>4, PlacedSelf
-----------------------------------------------------------------------------
(* Publishing replies.                                                     *)

LEMMA GuessedPlaces ==
    ASSUME NEW s, Typed(s), NEW p
    PROVE  Placed(s, [s EXCEPT !.provisional = p]) /\ [s EXCEPT !.provisional = p].slots = s.slots
<1> DEFINE t == [s EXCEPT !.provisional = p]
<1>1. t = With(s, s.slots, s.adjustment, p, s.window)
  BY WriteProvisional DEF Typed
<1> HIDE DEF t
<1> QED BY <1>1, WithPlaces, PlacedFields DEF Typed, t

\* What placePage writes, whatever it took the window's first slot for.
PagePublished(t, first, given) ==
    assignExactWindow([t EXCEPT !.provisional = @ \ Range(given)], first, given)

LEMMA PublishedPlaces ==
    ASSUME NEW t, Typed(t), NEW first \in Int, NEW given \in Seq(Nat)
    PROVE  Placed(t, PagePublished(t, first, given))
<1> DEFINE p == t.provisional \ Range(given)
           u == [t EXCEPT !.provisional = p]
<1>1. Placed(t, u)
  <2> HIDE DEF p
  <2> QED BY GuessedPlaces
<1>2. PagePublished(t, first, given) = assignExactWindow(u, first, given)
  BY DEF PagePublished
<1> HIDE DEF u
<1>3. Typed(u)
  BY <1>1 DEF Placed
<1>4. Placed(u, assignExactWindow(u, first, given))
  BY <1>3, AssignPlaces
<1> QED BY <1>1, <1>2, <1>4, PlacedTrans

\* placePage is a placing.
LEMMA PagePlaces ==
    ASSUME NEW s, Typed(s), NEW page \in Nat, NEW ids \in Seq(Nat)
    PROVE  Placed(s, placePage(s, page, ids))
<1> DEFINE sized == IF Len(ids) < PageSize THEN reconcileRootCount(s, page * PageSize + Len(ids))
                    ELSE ensureMinimumRootCount(s, (page + 1) * PageSize)
           low == Len(sized.slots) - page * PageSize - Len(ids) + 1
           first == Max({1, low})
           rest == Len(sized.slots) - first + 1
           given == AtMost(ids, rest)
           m == IF HasWindow(sized) THEN Overlap(first, given, sized.window.ids) ELSE NoMatch
           touches == m.first >= 1
           decision == IF HasWindow(sized)
                       THEN absolutePageDecision(first, first + Len(given) - 1, sized.window, touches)
                       ELSE "Place"
           placed == placeWindow(sized, m.first)
           one == PagePublished(sized, first, given)
           two == PagePublished(placed.s, first, given)
           result == placePage(s, page, ids)
<1>1. result = IF ids = <<>> \/ s.slots = <<>> \/ ~s.counted THEN s
               ELSE IF m.conflict \/ decision = "Defer" THEN sized
               ELSE IF decision = "Place" THEN one
               ELSE IF placed.ok THEN two ELSE sized
  BY Zenon DEF placePage, PagePublished
<1>2. result \in {s, sized, one, two}
  <2> HIDE DEF result, m, decision, sized, one, two, placed
  <2> QED BY <1>1
<1>3. Len(ids) \in Nat /\ page * PageSize \in Nat /\ (page + 1) * PageSize \in Nat
  BY Numbers DEF NumbersFact
<1>4. Placed(s, sized)
  <2>1. Placed(s, reconcileRootCount(s, page * PageSize + Len(ids)))
    <3>1. page * PageSize + Len(ids) \in Nat
      BY <1>3
    <3> QED BY <3>1, ReconcilePlaces
  <2>2. Placed(s, ensureMinimumRootCount(s, (page + 1) * PageSize))
    <3>1. (page + 1) * PageSize \in Int
      BY <1>3
    <3> QED BY <3>1, EnsurePlaces
  <2> QED BY <2>1, <2>2
<1> HIDE DEF sized
<1>5. Typed(sized)
  BY <1>4 DEF Placed
<1>6. first \in Int /\ Len(sized.slots) \in Nat /\ 1 <= first
  <2>1. low \in Int /\ Len(sized.slots) \in Nat
    BY <1>3, <1>5, TypedParts
  <2> HIDE DEF low
  <2>2. first = IF 1 >= low THEN 1 ELSE low
    BY <2>1, MaxTwo
  <2> QED BY <2>1, <2>2
<1> HIDE DEF first
<1>7. given \in Seq(Nat)
  <2>1. CASE rest >= 0
    <3>1. rest \in Nat
      BY <1>6, <2>1
    <3> HIDE DEF rest
    <3> QED BY <3>1, AtMost2 DEF IsPrefixOf
  <2>2. CASE ~ (rest >= 0)
    <3>1. rest \in Int /\ rest < 0
      BY <1>6, <2>2
    <3> HIDE DEF rest
    <3>2. Min({rest, Len(ids)}) = rest
      BY <1>3, <3>1, MinTwo
    <3>3. given = SubSeq(ids, 1, rest)
      BY <3>2 DEF AtMost
    <3>4. SubSeq(ids, 1, rest) = <<>>
      BY <3>1
    <3>5. <<>> \in Seq(Nat)
      OBVIOUS
    <3> QED BY <3>3, <3>4, <3>5
  <2> QED BY <2>1, <2>2
<1> HIDE DEF given
<1>8. m.first \in Int
  <2>1. Overlap(first, given, sized.window.ids).first \in Int
    BY <1>5, <1>6, <1>7, TypedParts, OverlapType
  <2>2. NoMatch.first \in Int
    BY DEF NoMatch
  <2> QED BY <2>1, <2>2
<1> HIDE DEF m
<1>9. Placed(s, one)
  BY <1>4, <1>5, <1>6, <1>7, PublishedPlaces, PlacedTrans
<1>10. Placed(s, two)
  <2>1. Placed(sized, placed.s)
    BY <1>5, <1>8, WindowPlaces
  <2> HIDE DEF placed
  <2>2. Typed(placed.s)
    BY <2>1 DEF Placed
  <2>3. Placed(placed.s, two)
    BY <1>6, <1>7, <2>2, PublishedPlaces
  <2> HIDE DEF two
  <2> QED BY <1>4, <2>1, <2>3, PlacedTrans
<1> HIDE DEF result, one, two
<1> QED BY <1>2, <1>4, <1>9, <1>10, PlacedSelf DEF result
\* What publishAfter writes behind the anchor, and publishBefore before it.
AfterPublished(t, anchor, ids) ==
    LET from == IndexOf(t, anchor)
        need == Max({Len(t.slots), from + Len(ids)})
    IN IF from = 0 THEN t ELSE assignExactWindow(resizeLogicalTail(t, need), from + 1, ids)

BeforePublished(t, first, ids) == IF first >= 1 THEN assignExactWindow(t, first, ids) ELSE t

LEMMA AfterPublishedPlaces ==
    ASSUME NEW t, Typed(t), NEW anchor, NEW ids \in Seq(Nat)
    PROVE  Placed(t, AfterPublished(t, anchor, ids))
<1> DEFINE from == IndexOf(t, anchor)
           size == Len(t.slots)
           end == from + Len(ids)
           need == Max({size, end})
           u == resizeLogicalTail(t, need)
<1>1. from \in Nat /\ size \in Nat /\ end \in Nat
  BY IndexMeans, TypedParts, LenProperties
<1>2. AfterPublished(t, anchor, ids) = IF from = 0 THEN t ELSE assignExactWindow(u, from + 1, ids)
  BY DEF AfterPublished
<1> HIDE DEF from, size, end
<1>3. need \in Nat
  BY <1>1, MaxTwo
<1> HIDE DEF need
<1>4. Placed(t, u)
  BY <1>3, ResizePlaces
<1> HIDE DEF u
<1>5. Placed(u, assignExactWindow(u, from + 1, ids))
  BY <1>1, <1>4, AssignPlaces DEF Placed
<1> QED BY <1>2, <1>4, <1>5, PlacedTrans, PlacedSelf

LEMMA BeforePublishedPlaces ==
    ASSUME NEW t, Typed(t), NEW first \in Int, NEW ids \in Seq(Nat)
    PROVE  Placed(t, BeforePublished(t, first, ids))
BY AssignPlaces, PlacedSelf DEF BeforePublished

\* publishAfter is a placing.
LEMMA AfterPlaces ==
    ASSUME NEW s, Typed(s), NEW anchor, NEW r, r.ids \in Seq(Nat)
    PROVE  Placed(s, publishAfter(s, anchor, r))
<1> DEFINE at == IndexOf(s, anchor)
           m == IF HasWindow(s) THEN matchAfter(at, r.ids, r.next, s.window.ids) ELSE NoMatch
           placed == placeWindow(s, m.first)
           last == at + Len(r.ids)
           ahead == HasWindow(s) /\ at < s.window.first
           room == makeRoomBeforeProvisional(s, last + 1)
           one == AfterPublished(placed.s, anchor, r.ids)
           two == AfterPublished(room, anchor, r.ids)
           three == AfterPublished(s, anchor, r.ids)
           result == publishAfter(s, anchor, r)
<1>1. result = IF at = 0 \/ r.ids = <<>> \/ m.conflict THEN s
               ELSE IF m.first >= 1 THEN IF placed.ok THEN one ELSE s
               ELSE IF ahead /\ r.next # 0 THEN two
               ELSE IF ahead /\ last + 1 >= s.window.first THEN s ELSE three
  BY Zenon DEF publishAfter, AfterPublished
<1>2. result \in {s, one, two, three}
  <2> HIDE DEF result, at, m, last, ahead, one, two, three, placed
  <2> QED BY <1>1
<1>3. at \in Int /\ last \in Int /\ s.window.ids \in Seq(Nat)
  BY IndexMeans, TypedParts, LenProperties
<1> HIDE DEF at, last
<1>4. m.first \in Int
  <2>1. matchAfter(at, r.ids, r.next, s.window.ids).first \in Int
    BY <1>3, AfterType
  <2>2. NoMatch.first \in Int
    BY DEF NoMatch
  <2> QED BY <2>1, <2>2
<1> HIDE DEF m
<1>5. Placed(s, one)
  <2>1. Placed(s, placed.s)
    BY <1>4, WindowPlaces
  <2> HIDE DEF placed
  <2>2. Typed(placed.s)
    BY <2>1 DEF Placed
  <2>3. Placed(placed.s, one)
    BY <2>2, AfterPublishedPlaces
  <2> HIDE DEF one
  <2> QED BY <2>1, <2>3, PlacedTrans
<1>6. Placed(s, two)
  <2>1. Placed(s, room)
    BY <1>3, RoomBeforePlaces
  <2> HIDE DEF room
  <2>2. Placed(room, two)
    BY <2>1, AfterPublishedPlaces DEF Placed
  <2> HIDE DEF two
  <2> QED BY <2>1, <2>2, PlacedTrans
<1>7. Placed(s, three)
  BY AfterPublishedPlaces
<1> HIDE DEF result, one, two, three
<1> QED BY <1>2, <1>5, <1>6, <1>7, PlacedSelf DEF result

\* publishBefore is a placing.
LEMMA BeforePlaces ==
    ASSUME NEW t, Typed(t), NEW anchor, NEW r, r.ids \in Seq(Nat)
    PROVE  Placed(t, publishBefore(t, anchor, r))
<1> DEFINE n == Len(r.ids)
           s == IF n >= IndexOf(t, anchor) THEN insertLogicalPrefix(t, n - IndexOf(t, anchor) + 1) ELSE t
           at == IndexOf(s, anchor)
           start == at - n
           m == IF HasWindow(s) THEN matchBefore(start, r.ids, r.prev, s.window.ids) ELSE NoMatch
           placed == placeWindow(s, m.first)
           behind == HasWindow(s) /\ at > WindowLast(s)
           moved == makeRoomAfterProvisional(s, start - 1)
           again == IndexOf(moved, anchor) - n
           one == BeforePublished(placed.s, start, r.ids)
           two == BeforePublished(moved, again, r.ids)
           three == BeforePublished(s, start, r.ids)
           result == publishBefore(t, anchor, r)
<1>1. result = IF IndexOf(t, anchor) = 0 \/ r.ids = <<>> THEN t
               ELSE IF m.conflict THEN s
               ELSE IF m.first >= 1 THEN IF placed.ok THEN one ELSE s
               ELSE IF behind /\ r.prev # 0 THEN two
               ELSE IF behind /\ start - 1 <= WindowLast(s) THEN s ELSE three
  BY Zenon DEF publishBefore, BeforePublished
<1>2. result \in {t, s, one, two, three}
  <2> HIDE DEF result, s, start, m, behind, one, two, three, placed
  <2> QED BY <1>1
<1>3. n \in Nat
  BY LenProperties
<1> HIDE DEF n
<1>4. Placed(t, s)
  <2>1. n - IndexOf(t, anchor) + 1 \in Int
    BY <1>3, IndexMeans, TypedParts
  <2>2. Placed(t, insertLogicalPrefix(t, n - IndexOf(t, anchor) + 1))
    BY <2>1, PrefixPlaces
  <2> QED BY <2>2, PlacedSelf
<1> HIDE DEF s
<1>5. Typed(s)
  BY <1>4 DEF Placed
<1>6. at \in Int /\ start \in Int /\ start - 1 \in Int /\ s.window.ids \in Seq(Nat)
  BY <1>3, <1>5, IndexMeans, TypedParts
<1> HIDE DEF at, start
<1>7. m.first \in Int
  <2>1. matchBefore(start, r.ids, r.prev, s.window.ids).first \in Int
    BY <1>6, BeforeType
  <2>2. NoMatch.first \in Int
    BY DEF NoMatch
  <2> QED BY <2>1, <2>2
<1> HIDE DEF m
<1>8. Placed(t, one)
  <2>1. Placed(s, placed.s)
    BY <1>5, <1>7, WindowPlaces
  <2> HIDE DEF placed
  <2>2. Typed(placed.s)
    BY <2>1 DEF Placed
  <2>3. Placed(placed.s, one)
    BY <1>6, <2>2, BeforePublishedPlaces
  <2> HIDE DEF one
  <2> QED BY <1>4, <2>1, <2>3, PlacedTrans
<1>9. Placed(t, two)
  <2>1. Placed(s, moved)
    BY <1>5, <1>6, RoomAfterPlaces
  <2> HIDE DEF moved
  <2>2. Typed(moved)
    BY <2>1 DEF Placed
  <2>3. again \in Int
    BY <1>3, <2>2, IndexMeans, TypedParts
  <2> HIDE DEF again
  <2>4. Placed(moved, two)
    BY <2>2, <2>3, BeforePublishedPlaces
  <2> HIDE DEF two
  <2> QED BY <1>4, <2>1, <2>4, PlacedTrans
<1>10. Placed(t, three)
  <2>1. Placed(s, three)
    BY <1>5, <1>6, BeforePublishedPlaces
  <2> HIDE DEF three
  <2> QED BY <1>4, <2>1, PlacedTrans
<1> HIDE DEF result, one, two, three
<1> QED BY <1>2, <1>4, <1>8, <1>9, <1>10, PlacedSelf DEF result

\* growWindow is a placing.
LEMMA GrowPlaces ==
    ASSUME NEW s, Typed(s), NEW f, NEW r, r.ids \in Seq(Nat)
    PROVE  Placed(s, growWindow(s, f, r))
<1> DEFINE w == s.window
           older == f.kind = "growBefore"
           ids == IF older THEN r.ids \o w.ids ELSE w.ids \o r.ids
           oldest == w.oldest \/ (older /\ r.prev = 0)
           newest == w.newest \/ (~older /\ r.next = 0)
           low == IndexOf(s, r.next) - Len(ids)
           hint == IF older
                   THEN IF isAuthoritativePost(s, r.prev) THEN IndexOf(s, r.prev) + 1 ELSE 0
                   ELSE IF isAuthoritativePost(s, r.next) THEN Max({0, low})
                   ELSE 0
           met == /\ HasWindow(s) /\ f.at = (IF older THEN Head(w.ids) ELSE Last(w.ids))
                  /\ (r.ids # <<>> \/ oldest # w.oldest \/ newest # w.newest)
           t == placeNavigationContext(s, w.target, ids, oldest, newest, hint, 1).s
<1>1. growWindow(s, f, r) = IF met THEN t ELSE s
  BY Zenon DEF growWindow
<1>2. ids \in Seq(Nat)
  <2>1. w.ids \in Seq(Nat)
    BY TypedParts
  <2> HIDE DEF w
  <2>2. r.ids \o w.ids \in Seq(Nat) /\ w.ids \o r.ids \in Seq(Nat)
    BY <2>1, Joined2 DEF IsJoin
  <2> QED BY <2>2
<1> HIDE DEF ids
<1>3. hint \in Int
  <2>1. IndexOf(s, r.prev) \in Int /\ low \in Int
    BY <1>2, IndexMeans, TypedParts, LenProperties
  <2> HIDE DEF low
  <2>2. Max({0, low}) \in Int
    BY <2>1, MaxTwo
  <2> HIDE DEF older
  <2> QED BY <2>1, <2>2
<1> HIDE DEF hint, oldest, newest, met
<1>4. Placed(s, t)
  <2>1. 1 \in Int
    OBVIOUS
  <2> HIDE DEF w
  <2> QED BY <1>2, <1>3, <2>1, PlaceContext
<1> HIDE DEF t
<1> QED BY <1>1, <1>4, PlacedSelf

\* adoptNavigationContext is a placing.
LEMMA AdoptPlaces ==
    ASSUME NEW s, Typed(s), NEW target, NEW r, r.ids \in Seq(Nat), NEW guess \in Int
    PROVE  Placed(s, adoptNavigationContext(s, target, r, guess))
<1> DEFINE ids == r.ids
           oldest == r.prev = 0
           newest == r.next = 0
           offset == At(ids, target)
           from == offset - Painted
           to == offset + Painted
           lo == Max({1, from})
           hi == Min({Len(ids), to})
           proved == Candidates(s, ids, Len(ids), 0, oldest, newest)
           part == SubSeq(ids, lo, hi)
           start == oldest /\ lo = 1
           end == newest /\ hi = Len(ids)
           hint == IF proved = {} THEN 0 ELSE (CHOOSE c \in proved : TRUE) + lo - 1
           t == placeNavigationContext(s, target, part, start, end, hint, guess).s
           result == adoptNavigationContext(s, target, r, guess)
<1>1. result = IF offset = 0 \/ s.slots = <<>> \/ ~s.counted \/ ~Fits(s, Len(ids), proved) THEN s ELSE t
  BY Zenon DEF adoptNavigationContext
<1>2. offset \in 0..Len(ids) /\ Len(ids) \in Nat
  BY AtMeans, LenProperties
<1>3. from \in Int /\ to \in Int
  BY <1>2, Numbers DEF NumbersFact
<1> HIDE DEF from, to
<1>4. lo \in Int /\ 1 <= lo
  BY <1>3, MaxTwo
<1>5. hi \in Int /\ hi <= Len(ids)
  BY <1>2, <1>3, MinTwo
<1> HIDE DEF lo, hi
<1>6. part \in Seq(Nat)
  <2>1. CASE lo <= hi
    BY <1>2, <1>4, <1>5, <2>1, SubSeqProperties
  <2>2. CASE ~ (lo <= hi)
    <3>1. part = <<>>
      BY <1>4, <1>5, <2>2
    <3> QED BY <3>1
  <2> QED BY <2>1, <2>2
<1> HIDE DEF part
<1>7. hint \in Int
  <2>1. \A c \in proved : c \in Int
    BY <1>2, CandidatesType
  <2> HIDE DEF proved
  <2> QED BY <1>4, <2>1
<1> HIDE DEF hint, start, end
<1>8. Placed(s, t)
  BY <1>6, <1>7, PlaceContext
<1> HIDE DEF t, result, offset, proved
<1> QED BY <1>1, <1>8, PlacedSelf DEF result
-----------------------------------------------------------------------------
(* Events and replies.                                                     *)

\* appendLivePost is a placing.
LEMMA LivePlaces ==
    ASSUME NEW s, Typed(s), NEW p \in Nat
    PROVE  Placed(s, appendLivePost(s, p))
<1> DEFINE l == Len(s.slots)
           sum == s.total + s.adjustment
           count == IF s.counted THEN Max({l, sum}) ELSE l
           next == l + 1
           n == Max({count, next})
           t == resizeLogicalTail(s, n)
           new == [t.slots EXCEPT ![n] = p]
           u == [t EXCEPT !.slots = new]
<1>1. l \in Nat /\ sum \in Int
  BY TypedParts DEF Typed
<1>2. appendLivePost(s, p) = IF IndexOf(s, p) # 0 THEN s ELSE [t EXCEPT !.slots[n] = p]
  BY DEF appendLivePost, currentLogicalCount
<1> HIDE DEF l, sum
<1>3. count \in Int
  BY <1>1, MaxTwo
<1> HIDE DEF count
<1>4. next \in Nat
  BY <1>1
<1> HIDE DEF next
<1>5. n \in Nat
  <2>1. n = IF count >= next THEN count ELSE next
    BY <1>3, <1>4, MaxTwo
  <2> QED BY <1>3, <1>4, <2>1
<1> HIDE DEF n
<1>6. Placed(s, t)
  BY <1>5, ResizePlaces
<1> HIDE DEF t
<1>7. Typed(t)
  BY <1>6 DEF Placed
<1>8. [t EXCEPT !.slots[n] = p] = u
  BY <1>7 DEF Typed, Shape
<1>9. new \in Seq(Nat)
  <2>1. t.slots \in [1..Len(t.slots) -> Nat] /\ Len(t.slots) \in Nat
    BY <1>7, TypedParts, SeqParts
  <2>2. new \in [1..Len(t.slots) -> Nat]
    BY <2>1
  <2> HIDE DEF new
  <2> QED BY <2>1, <2>2, ASequence
<1> HIDE DEF new
<1>10. u = With(t, new, t.adjustment, t.provisional, t.window)
  BY <1>7, WriteSlots DEF Typed
<1>11. Placed(t, u)
  <2> HIDE DEF u
  <2> QED BY <1>7, <1>9, <1>10, WithPlaces DEF Typed
<1> HIDE DEF u
<1>12. Placed(s, u)
  BY <1>6, <1>11, PlacedTrans
<1>13. appendLivePost(s, p) = IF IndexOf(s, p) # 0 THEN s ELSE u
  BY <1>2, <1>8
<1> QED BY <1>12, <1>13, PlacedSelf

\* postDeleted is a placing.
LEMMA DeletedPlaces ==
    ASSUME NEW s, Typed(s), NEW p
    PROVE  Placed(s, postDeleted(s, p))
<1> DEFINE x == IF s.counted THEN s.adjustment - 1 ELSE s.adjustment
           t == [s EXCEPT !.adjustment = x]
           at == IndexOf(s, p)
<1>1. x \in Int
  BY DEF Typed
<1>2. postDeleted(s, p) = IF at = 0 THEN s ELSE removeLogicalRange(t, at, 1)
  BY DEF postDeleted
<1>3. at \in 0..Len(s.slots) /\ Len(s.slots) \in Nat
  BY IndexMeans, TypedParts
<1> HIDE DEF x, at
<1>4. Placed(s, t) /\ t.slots = s.slots
  BY <1>1, AdjustPlaces
<1> HIDE DEF t
<1>5. CASE at = 0
  BY <1>2, <1>5, PlacedSelf
<1>6. CASE at # 0
  <2>1. at \in Int /\ 1 \in Nat /\ 1 <= at /\ at + 1 - 1 <= Len(t.slots)
    BY <1>3, <1>4, <1>6
  <2>2. Placed(t, removeLogicalRange(t, at, 1))
    BY <1>4, <2>1, RemovePlaces DEF Placed
  <2> QED BY <1>2, <1>4, <1>6, <2>2, PlacedTrans
<1> QED BY <1>5, <1>6

LEMMA PartType ==
    ASSUME NEW q \in Seq(Nat), NEW a \in Int, NEW b \in Int, 1 <= a, b <= Len(q)
    PROVE  SubSeq(q, a, b) \in Seq(Nat)
<1>0. Len(q) \in Nat
  BY LenProperties
<1>1. CASE a <= b
  BY <1>0, <1>1, SubSeqProperties
<1>2. CASE ~ (a <= b)
  <2>1. SubSeq(q, a, b) = <<>>
    BY <1>2
  <2> QED BY <2>1
<1> QED BY <1>1, <1>2

\* A run of a version is a sequence of posts.
LEMMA SliceType ==
    ASSUME NEW roots \in Seq(Nat), NEW lo \in Int, NEW hi \in Int
    PROVE  Slice(roots, lo, hi).ids \in Seq(Nat)
<1> DEFINE first == Max({lo, 1})
           l == Len(roots)
           last == Min({hi, l})
           ids == SubSeq(roots, first, last)
<1>1. l \in Nat
  BY LenProperties
<1>2. Slice(roots, lo, hi).ids = ids
  BY DEF Slice
<1>3. first \in Int /\ 1 <= first
  BY MaxTwo
<1>4. last \in Int /\ last <= l
  <2> HIDE DEF l
  <2> QED BY <1>1, MinTwo
<1> HIDE DEF first, last
<1>5. ids \in Seq(Nat)
  BY <1>3, <1>4, PartType
<1> QED BY <1>2, <1>5

LEMMA UpToType ==
    ASSUME NEW roots \in Seq(Nat), NEW p
    PROVE  UpTo(roots, p) \in Nat
<1> DEFINE S == {i \in DOMAIN roots : roots[i] <= p}
<1>1. IsFiniteSet(1..Len(roots)) /\ DOMAIN roots = 1..Len(roots)
  BY SeqParts, FS_Interval
<1>2. IsFiniteSet(S)
  BY <1>1, FS_Subset
<1> HIDE DEF S
<1>3. Cardinality(S) \in Nat
  BY <1>2, FS_CardinalityType
<1> QED BY <1>3 DEF UpTo, S

\* A reply brings a sequence of posts.
LEMMA ReplyType ==
    ASSUME NEW f, f.n \in Nat, f.at \in Nat, NEW roots \in Seq(Nat)
    PROVE  Reply(f, roots).ids \in Seq(Nat)
<1> DEFINE a == UpTo(roots, f.at)
           b == UpTo(roots, f.at - 1)
           l == Len(roots)
<1>1. a \in Nat /\ b \in Nat /\ l \in Nat
  BY UpToType, LenProperties
<1>2. Reply(f, roots) =
        IF f.kind \in {"after", "growAfter"} THEN Slice(roots, a + 1, a + f.n)
        ELSE IF f.kind \in {"before", "growBefore"} THEN Slice(roots, b - f.n + 1, b)
        ELSE IF f.kind = "around" THEN Slice(roots, a - Fetched, a + Fetched)
        ELSE Slice(roots, l - (f.at + 1) * f.n + 1, l - f.at * f.n)
  BY DEF Reply
<1> HIDE DEF a, b, l
<1> DEFINE k == f.n
           j == f.at
           c == (j + 1) * k
           e == j * k
<1>3. k \in Nat /\ c \in Nat /\ e \in Nat
  <2>1. k \in Nat /\ j \in Nat
    OBVIOUS
  <2> HIDE DEF k, j
  <2> QED BY <2>1
<1> HIDE DEF c, e
<1>4. Slice(roots, a + 1, a + k).ids \in Seq(Nat)
  <2>1. a + 1 \in Int /\ a + k \in Int
    BY <1>1, <1>3
  <2> QED BY <2>1, SliceType
<1>5. Slice(roots, b - k + 1, b).ids \in Seq(Nat)
  <2>1. b - k + 1 \in Int /\ b \in Int
    BY <1>1, <1>3
  <2> QED BY <2>1, SliceType
<1>6. Slice(roots, a - Fetched, a + Fetched).ids \in Seq(Nat)
  <2>1. a - Fetched \in Int /\ a + Fetched \in Int
    BY <1>1, Numbers DEF NumbersFact
  <2> QED BY <2>1, SliceType
<1>7. Slice(roots, l - c + 1, l - e).ids \in Seq(Nat)
  <2>1. l - c + 1 \in Int /\ l - e \in Int
    BY <1>1, <1>3
  <2> QED BY <2>1, SliceType
<1> QED BY <1>2, <1>4, <1>5, <1>6, <1>7 DEF c, e
-----------------------------------------------------------------------------
(* Requests under way, and who waits for them.                             *)

Search == {"initial", "exists", "oldestPage"}
Listed == {"page", "tail", "after", "before", "growAfter", "growBefore"}

Request(f) ==
    /\ f = [kind |-> f.kind, at |-> f.at, n |-> f.n, d |-> f.d, edge |-> f.edge,
            gated |-> f.gated, since |-> f.since]
    /\ f.at \in Nat /\ f.n \in Nat /\ f.gated \in BOOLEAN
    /\ f.kind \in Search \cup Listed \cup {"validate", "prepend", "around"}
    /\ f.kind \in Listed => f.d \in Demands
    /\ f.kind \notin Listed => f.d = 0
    /\ f.gated => f.kind \in {"after", "before", "tail"}

GateShape(g) ==
    /\ g = [first |-> g.first, last |-> g.last, waiters |-> g.waiters]
    /\ g.first \in Int /\ g.last \in Int /\ g.waiters \in SUBSET Demands
    /\ g.first = 0 => g.waiters = {}

ProbeShape(p) ==
    /\ p = [on |-> p.on, nonEmpty |-> p.nonEmpty, empty |-> p.empty, step |-> p.step, limit |-> p.limit,
            full |-> p.full, waiters |-> p.waiters]
    /\ p.on \in BOOLEAN /\ p.nonEmpty \in Int /\ p.empty \in Int /\ p.limit \in Int /\ p.full \in Int
    /\ p.step \in Nat \ {0} /\ p.waiters \in [Demands -> Nat]

\* The fields of a source that say who waits for what.
Asked(s) ==
    /\ Typed(s)
    /\ IsFiniteSet(s.flight) /\ \A f \in s.flight : Request(f)
    /\ GateShape(s.gate) /\ ProbeShape(s.probe)
    /\ s.pending \in [Demands -> Int]

\* The gate is closed by the one gated request under way.
Gating(s) ==
    /\ \A f \in s.flight : f.gated => s.gate.first # 0 /\ \A g \in s.flight : g.gated => g = f
    /\ s.gate.first # 0 => \E f \in s.flight : f.gated

Own(flight, d) == {f \in flight : f.d = d /\ ~f.gated}
Waits(d, gate, probe) == Cardinality({d} \cap gate.waiters) + probe.waiters[d]

\* The books of the demands; one call on behalf of e is being answered.
Balanced(s, e) ==
    \A d \in Demands :
       s.pending[d] = Cardinality(Own(s.flight, d)) + Waits(d, s.gate, s.probe) + IF d = e THEN 1 ELSE 0

\* What is known of a search while no empty page has joined it.
JoinedIn(p) ==
    \E d, e \in Demands : /\ 0 \notin {p.waiters[d], p.waiters[e]}
                          /\ d # e \/ p.waiters[d] > 1
Narrowed(p) == p.nonEmpty >= 0 /\ p.empty >= 0 => p.nonEmpty < p.empty
Within(p, f) ==
    IF f.kind = "oldestPage" THEN p.empty >= 0 => f.at < p.empty
    ELSE /\ p.empty >= 0 => f.at \div PageSize < p.empty
         /\ p.nonEmpty >= 0 => p.nonEmpty < f.at \div PageSize

Quiet(s) == \A f \in s.flight : f.kind \notin Search
Waited(p) == \E d \in Demands : p.waiters[d] # 0
Started(p) == p.on /\ Waited(p)

\* One request carries the search that is on.
Searching(s) ==
    IF s.probe.on
    THEN /\ Waited(s.probe)
         /\ \E q \in s.flight :
              /\ q.kind \in Search /\ \A f \in s.flight : f.kind \in Search => f = q
              /\ JoinedIn(s.probe) \/ (Narrowed(s.probe) /\ Within(s.probe, q))
    ELSE s.probe = NoProbe /\ Quiet(s)

Loose(s, e) == Asked(s) /\ Gating(s) /\ Balanced(s, e)
Whole(s, e) == Loose(s, e) /\ Searching(s)

\* No demand is owed more calls in t than in s.
Eased(s, t) == \A d \in Demands : t.pending[d] <= s.pending[d]

\* A placing leaves the books as they are.
LEMMA PlacedLoose ==
    ASSUME NEW s, NEW t, NEW e, Loose(s, e), Placed(s, t)
    PROVE  Loose(t, e) /\ Eased(s, t)
<1>1. /\ Typed(t) /\ t.gate = s.gate /\ t.probe = s.probe
      /\ t.pending = s.pending /\ t.flight = s.flight
  BY DEF Placed
<1>2. Asked(t)
  BY <1>1 DEF Loose, Asked
<1>3. Gating(t)
  BY <1>1 DEF Loose, Gating
<1>4. Balanced(t, e)
  BY <1>1 DEF Loose, Balanced
<1>5. Eased(s, t)
  BY <1>1 DEF Loose, Asked, Eased
<1> QED BY <1>2, <1>3, <1>4, <1>5 DEF Loose

LEMMA PlacedQuiet ==
    ASSUME NEW s, NEW t, Quiet(s), Placed(s, t)
    PROVE  Quiet(t)
BY DEF Placed, Quiet

\* A placing leaves the search as it is.
LEMMA PlacedSearching ==
    ASSUME NEW s, NEW t, Searching(s), Placed(s, t)
    PROVE  Searching(t)
<1>1. t.probe = s.probe /\ t.flight = s.flight
  BY DEF Placed
<1> QED BY <1>1 DEF Searching, Quiet

\* A placing leaves books and search as they are.
LEMMA PlacedWhole ==
    ASSUME NEW s, NEW t, NEW e, Whole(s, e), Placed(s, t)
    PROVE  Whole(t, e) /\ Eased(s, t)
BY PlacedLoose, PlacedSearching DEF Whole

LEMMA EasedTrans ==
    ASSUME NEW s, NEW t, NEW u, Eased(s, t), Eased(t, u), Asked(s), Asked(t), Asked(u)
    PROVE  Eased(s, u)
<1>1. \A d \in Demands : s.pending[d] \in Int /\ t.pending[d] \in Int /\ u.pending[d] \in Int
  BY DEF Asked
<1>2. ASSUME NEW d \in Demands PROVE u.pending[d] <= s.pending[d]
  <2>1. u.pending[d] <= t.pending[d] /\ t.pending[d] <= s.pending[d]
    BY DEF Eased
  <2> QED BY <1>1, <2>1
<1> QED BY <1>2 DEF Eased

LEMMA AskingFields ==
    ASSUME NEW s, Typed(s), NEW g, NEW p, NEW b, NEW w, NEW f
    PROVE  LET t == Asking(s, g, p, b, w, f)
           IN Typed(t) /\ t.gate = g /\ t.probe = p /\ t.tried = b /\ t.pending = w /\ t.flight = f
              /\ t.slots = s.slots /\ t.window = s.window /\ t.counted = s.counted
BY DEF Typed, Shape, Asking
-----------------------------------------------------------------------------
(* The steps of a request, on the fields they write.                       *)

\* MaxInputs bounds the inputs of every channel.
LEMMA MostInputs == MaxInputs \in Nat /\ \A c \in Channels : c.inputs <= MaxInputs
<1> DEFINE I == {c.inputs : c \in Channels}
<1>1. IsFiniteSet(Channels) /\ Channels # {} /\ \A c \in Channels : c.inputs \in Nat
  BY ChannelPostsAssumption
<1>2. IsFiniteSet(I)
  <2> DEFINE f == [c \in Channels |-> c.inputs]
  <2>1. f \in Surjection(Channels, I)
    BY DEF Surjection
  <2> HIDE DEF I, f
  <2> QED BY <1>1, <2>1, FS_Surjection
<1>3. I \in SUBSET Int /\ I # {} /\ I \subseteq Nat
  BY <1>1
<1>4. \A c \in Channels : c.inputs \in I
  OBVIOUS
<1>5. MaxInputs = Max(I)
  BY DEF MaxInputs
<1> HIDE DEF I
<1>6. Max(I) \in I /\ \A y \in I : Max(I) >= y
  BY <1>2, <1>3, MaxExists
<1> DEFINE m == Max(I)
<1>7. m \in Nat /\ \A y \in I : y \in Nat /\ m >= y
  BY <1>3, <1>6
<1>8. MaxInputs = m
  BY <1>5
<1> HIDE DEF m
<1>9. \A c \in Channels : c.inputs <= m
  BY <1>4, <1>7
<1> QED BY <1>7, <1>8, <1>9

LEMMA NoDemand == 0 \notin Demands /\ Demands \subseteq Nat
BY MostInputs DEF Demands

LEMMA WriteFlight ==
    ASSUME NEW s, Shape(s), NEW x
    PROVE  [s EXCEPT !.flight = x] = Asking(s, s.gate, s.probe, s.tried, s.pending, x)
BY DEF Shape, Asking

LEMMA WritePending ==
    ASSUME NEW s, Shape(s), NEW x
    PROVE  [s EXCEPT !.pending = x] = Asking(s, s.gate, s.probe, s.tried, x, s.flight)
BY DEF Shape, Asking

LEMMA WriteProbe ==
    ASSUME NEW s, Shape(s), NEW x
    PROVE  [s EXCEPT !.probe = x] = Asking(s, s.gate, x, s.tried, s.pending, s.flight)
BY DEF Shape, Asking

LEMMA WriteGate ==
    ASSUME NEW s, Shape(s), NEW x
    PROVE  [s EXCEPT !.gate = x] = Asking(s, x, s.probe, s.tried, s.pending, s.flight)
BY DEF Shape, Asking

LEMMA WriteTried ==
    ASSUME NEW s, Shape(s), NEW x
    PROVE  [s EXCEPT !.tried = x] = Asking(s, s.gate, s.probe, x, s.pending, s.flight)
BY DEF Shape, Asking

\* Two fields at once.
ProbeAndPending(s, p, w) == [s EXCEPT !.probe = p, !.pending = w]
GateAndPending(s, g, w) == [s EXCEPT !.gate = g, !.pending = w]
PendingAndFlight(s, w, x) == [s EXCEPT !.pending = w, !.flight = x]

LEMMA AskingShape ==
    ASSUME NEW s, NEW g, NEW p, NEW b, NEW w, NEW f
    PROVE  Shape(Asking(s, g, p, b, w, f))
BY DEF Shape, Asking

LEMMA AskingTwice ==
    ASSUME NEW s, NEW g, NEW p, NEW b, NEW w, NEW f, NEW g2, NEW p2, NEW b2, NEW w2, NEW f2
    PROVE  Asking(Asking(s, g, p, b, w, f), g2, p2, b2, w2, f2) = Asking(s, g2, p2, b2, w2, f2)
BY DEF Asking

LEMMA AskingGot ==
    ASSUME NEW s, NEW g, NEW p, NEW b, NEW w, NEW f
    PROVE  LET t == Asking(s, g, p, b, w, f)
           IN t.gate = g /\ t.probe = p /\ t.tried = b /\ t.pending = w /\ t.flight = f
BY DEF Asking

LEMMA WriteProbeAndPending ==
    ASSUME NEW s, Shape(s), NEW p, NEW w
    PROVE  ProbeAndPending(s, p, w) = Asking(s, s.gate, p, s.tried, w, s.flight)
<1> DEFINE t == [s EXCEPT !.probe = p]
           u == [t EXCEPT !.pending = w]
<1>1. ProbeAndPending(s, p, w) = u
  BY DEF Shape, ProbeAndPending
<1>2. t = Asking(s, s.gate, p, s.tried, s.pending, s.flight)
  BY WriteProbe
<1> HIDE DEF t
<1>3. Shape(t) /\ t.gate = s.gate /\ t.probe = p /\ t.tried = s.tried /\ t.flight = s.flight
  BY <1>2, AskingShape, AskingGot
<1>4. u = Asking(t, t.gate, t.probe, t.tried, w, t.flight)
  BY <1>3, WritePending
<1> HIDE DEF u
<1> QED BY <1>1, <1>2, <1>3, <1>4, AskingTwice

LEMMA WriteGateAndPending ==
    ASSUME NEW s, Shape(s), NEW g, NEW w
    PROVE  GateAndPending(s, g, w) = Asking(s, g, s.probe, s.tried, w, s.flight)
<1> DEFINE t == [s EXCEPT !.gate = g]
           u == [t EXCEPT !.pending = w]
<1>1. GateAndPending(s, g, w) = u
  BY DEF Shape, GateAndPending
<1>2. t = Asking(s, g, s.probe, s.tried, s.pending, s.flight)
  BY WriteGate
<1> HIDE DEF t
<1>3. Shape(t) /\ t.gate = g /\ t.probe = s.probe /\ t.tried = s.tried /\ t.flight = s.flight
  BY <1>2, AskingShape, AskingGot
<1>4. u = Asking(t, t.gate, t.probe, t.tried, w, t.flight)
  BY <1>3, WritePending
<1> HIDE DEF u
<1> QED BY <1>1, <1>2, <1>3, <1>4, AskingTwice

LEMMA WritePendingAndFlight ==
    ASSUME NEW s, Shape(s), NEW w, NEW x
    PROVE  PendingAndFlight(s, w, x) = Asking(s, s.gate, s.probe, s.tried, w, x)
<1> DEFINE t == [s EXCEPT !.pending = w]
           u == [t EXCEPT !.flight = x]
<1>1. PendingAndFlight(s, w, x) = u
  BY DEF Shape, PendingAndFlight
<1>2. t = Asking(s, s.gate, s.probe, s.tried, w, s.flight)
  BY WritePending
<1> HIDE DEF t
<1>3. Shape(t) /\ t.gate = s.gate /\ t.probe = s.probe /\ t.tried = s.tried /\ t.pending = w
  BY <1>2, AskingShape, AskingGot
<1>4. u = Asking(t, t.gate, t.probe, t.tried, t.pending, x)
  BY <1>3, WriteFlight
<1> HIDE DEF u
<1> QED BY <1>1, <1>2, <1>3, <1>4, AskingTwice

\* A request that leaves.
Req(kind, at, n, d, edge, gated) ==
    [kind |-> kind, at |-> at, n |-> n, d |-> d, edge |-> edge, gated |-> gated, since |-> Len(history)]

No == FALSE
Yes == TRUE

\* Ask adds one request to those under way and changes nothing else.
LEMMA AskIs ==
    ASSUME NEW s, Shape(s), NEW kind, NEW at, NEW n, NEW d, NEW gated
    PROVE  AskGated(s, kind, at, n, d, gated) =
             Asking(s, s.gate, s.probe, s.tried, s.pending, s.flight \cup {Req(kind, at, n, d, No, gated)})
<1> DEFINE x == s.flight \cup {Req(kind, at, n, d, No, gated)}
<1>1. AskGated(s, kind, at, n, d, gated) = [s EXCEPT !.flight = x]
  BY DEF AskGated, Req, No
<1> HIDE DEF x
<1>2. AskGated(s, kind, at, n, d, gated) = Asking(s, s.gate, s.probe, s.tried, s.pending, x)
  BY <1>1, WriteFlight
<1> QED BY <1>2 DEF x

LEMMA AskUngated ==
    ASSUME NEW s, NEW kind, NEW at, NEW n, NEW d
    PROVE  Ask(s, kind, at, n, d) = AskGated(s, kind, at, n, d, No)
BY DEF Ask, No

LEMMA OwnFinite ==
    ASSUME NEW flight, IsFiniteSet(flight), NEW d
    PROVE  IsFiniteSet(Own(flight, d)) /\ Cardinality(Own(flight, d)) \in Nat
<1>1. Own(flight, d) \subseteq flight
  BY DEF Own
<1> QED BY <1>1, FS_Subset, FS_CardinalityType

LEMMA WaitsNat ==
    ASSUME NEW d \in Demands, NEW g, NEW p, ProbeShape(p)
    PROVE  Waits(d, g, p) \in Nat /\ Cardinality({d} \cap g.waiters) = (IF d \in g.waiters THEN 1 ELSE 0)
<1>1. Cardinality({d} \cap g.waiters) = IF d \in g.waiters THEN 1 ELSE 0
  <2>1. CASE d \in g.waiters
    <3>1. {d} \cap g.waiters = {d}
      BY <2>1
    <3> QED BY <2>1, <3>1, FS_Singleton
  <2>2. CASE d \notin g.waiters
    <3>1. {d} \cap g.waiters = {}
      BY <2>2
    <3> QED BY <2>2, <3>1, FS_EmptySet
  <2> QED BY <2>1, <2>2
<1>2. p.waiters[d] \in Nat
  BY DEF ProbeShape
<1> QED BY <1>1, <1>2 DEF Waits
-----------------------------------------------------------------------------
(* Requests leave and answers come.                                        *)

LEMMA ReqIs ==
    ASSUME NEW kind \in Search \cup Listed \cup {"validate", "prepend", "around"}, NEW at \in Nat, NEW n \in Nat,
           NEW d, NEW edge, NEW gated \in BOOLEAN, kind \in Listed => d \in Demands, kind \notin Listed => d = 0,
           gated => kind \in {"after", "before", "tail"}
    PROVE  LET r == Req(kind, at, n, d, edge, gated)
           IN Request(r) /\ r.kind = kind /\ r.at = at /\ r.d = d /\ r.gated = gated
BY DEF Req, Request

\* One request more, that no gate waits for.
LEMMA AddRequest ==
    ASSUME NEW s, NEW e, Loose(s, e), NEW r, Request(r), ~r.gated
    PROVE  LET t == Asking(s, s.gate, s.probe, s.tried, s.pending, s.flight \cup {r})
           IN /\ Asked(t) /\ Gating(t) /\ Eased(s, t)
              /\ r.d = 0 => Balanced(t, e)
              /\ r.d = e /\ e \in Demands /\ r \notin s.flight => Balanced(t, 0)
<1> DEFINE x == s.flight \cup {r}
           t == Asking(s, s.gate, s.probe, s.tried, s.pending, x)
<1>1. /\ Typed(t) /\ t.gate = s.gate /\ t.probe = s.probe /\ t.pending = s.pending /\ t.flight = x
  <2> HIDE DEF x
  <2> QED BY AskingFields DEF Loose, Asked
<1>2. IsFiniteSet(s.flight) /\ (\A f \in s.flight : Request(f)) /\ ProbeShape(s.probe)
      /\ \A d \in Demands : s.pending[d] \in Int
  BY DEF Loose, Asked
<1>3. IsFiniteSet(x)
  BY <1>2, FS_AddElement
<1> HIDE DEF t
<1>4. Asked(t)
  <2>1. \A f \in x : Request(f)
    BY <1>2
  <2> HIDE DEF x
  <2> QED BY <1>1, <1>3, <2>1 DEF Loose, Asked
<1>5. Gating(t)
  <2>1. \A f \in x : f.gated => f \in s.flight
    OBVIOUS
  <2>2. s.flight \subseteq x
    OBVIOUS
  <2> HIDE DEF x
  <2> QED BY <1>1, <2>1, <2>2 DEF Loose, Gating
<1>6. Eased(s, t)
  BY <1>1, <1>2 DEF Eased
<1>7. \A d \in Demands : r.d # d => Own(x, d) = Own(s.flight, d)
  BY DEF Own
<1>8. ASSUME r.d = 0 PROVE Balanced(t, e)
  <2>1. \A d \in Demands : Own(x, d) = Own(s.flight, d)
    BY <1>7, <1>8, NoDemand
  <2> HIDE DEF x
  <2> QED BY <1>1, <2>1 DEF Loose, Balanced
<1>9. ASSUME r.d = e, e \in Demands, r \notin s.flight PROVE Balanced(t, 0)
  <2>1. Own(x, e) = Own(s.flight, e) \cup {r} /\ r \notin Own(s.flight, e)
    BY <1>9 DEF Own
  <2>2. Cardinality(Own(x, e)) = Cardinality(Own(s.flight, e)) + 1
    BY <1>2, <2>1, OwnFinite, FS_AddElement
  <2>3. \A d \in Demands : d # 0
    BY NoDemand
  <2>4. ASSUME NEW d \in Demands
        PROVE  t.pending[d] = Cardinality(Own(x, d)) + Waits(d, t.gate, t.probe) + IF d = 0 THEN 1 ELSE 0
    <3> DEFINE a == Cardinality(Own(s.flight, d))
               b == Waits(d, s.gate, s.probe)
               c == Cardinality(Own(x, d))
    <3>1. s.pending[d] = a + b + IF d = e THEN 1 ELSE 0
      BY DEF Loose, Balanced
    <3>2. a \in Nat /\ b \in Nat
      BY <1>2, OwnFinite, WaitsNat
    <3>3. c = IF d = e THEN a + 1 ELSE a
      BY <1>7, <1>9, <2>2
    <3> HIDE DEF a, b, c
    <3>4. s.pending[d] = c + b + 0
      BY <3>1, <3>2, <3>3
    <3> QED BY <1>1, <2>3, <3>4 DEF b, c
  <2> HIDE DEF x
  <2> QED BY <1>1, <2>4 DEF Balanced
<1> QED BY <1>4, <1>5, <1>6, <1>8, <1>9 DEF t, x

\* The request of a search leaves.
LEMMA AskSearch ==
    ASSUME NEW s, NEW e, Loose(s, e), Quiet(s), s.probe.on, Waited(s.probe),
           NEW kind \in Search, NEW at \in Nat, NEW n \in Nat,
           JoinedIn(s.probe) \/ (Narrowed(s.probe) /\ \A f : f.kind = kind /\ f.at = at => Within(s.probe, f))
    PROVE  Whole(Ask(s, kind, at, n, 0), e) /\ Eased(s, Ask(s, kind, at, n, 0))
<1> DEFINE r == Req(kind, at, n, 0, No, No)
           t == Ask(s, kind, at, n, 0)
           x == s.flight \cup {r}
<1>1. No \in BOOLEAN /\ ~No
  BY DEF No
<1>2. t = Asking(s, s.gate, s.probe, s.tried, s.pending, x)
  <2>1. t = AskGated(s, kind, at, n, 0, No)
    BY AskUngated
  <2>2. Shape(s)
    BY DEF Loose, Asked, Typed
  <2> HIDE DEF t
  <2> QED BY <2>1, <2>2, AskIs
<1>3. Request(r) /\ r.kind = kind /\ r.at = at /\ r.d = 0 /\ ~r.gated
  <2>1. kind \notin Listed /\ kind \in Search \cup Listed \cup {"validate", "prepend", "around"}
    BY DEF Search, Listed
  <2> HIDE DEF r
  <2>2. LET q == Req(kind, at, n, 0, No, No) IN Request(q) /\ q.kind = kind /\ q.at = at /\ q.d = 0 /\ q.gated = No
    BY <1>1, <2>1, ReqIs
  <2> QED BY <1>1, <2>2 DEF r
<1> HIDE DEF r, t
<1>4. Asked(t) /\ Gating(t) /\ Eased(s, t) /\ Balanced(t, e)
  <2> DEFINE u == Asking(s, s.gate, s.probe, s.tried, s.pending, s.flight \cup {r})
  <2>1. Asked(u) /\ Gating(u) /\ Eased(s, u) /\ (r.d = 0 => Balanced(u, e))
    BY <1>3, AddRequest
  <2> HIDE DEF u
  <2>2. t = u
    BY <1>2 DEF u
  <2> QED BY <1>3, <2>1, <2>2
<1>5. t.probe = s.probe /\ t.flight = x
  <2> HIDE DEF x
  <2> QED BY <1>2, AskingGot
<1>6. Searching(t)
  <2>1. r \in x /\ r.kind \in Search /\ \A f \in x : f.kind \in Search => f = r
    BY <1>3 DEF Quiet
  <2>2. JoinedIn(s.probe) \/ (Narrowed(s.probe) /\ Within(s.probe, r))
    BY <1>3
  <2> HIDE DEF x
  <2> QED BY <1>5, <2>1, <2>2 DEF Searching
<1> QED BY <1>4, <1>6 DEF Whole, Loose, t

\* A call comes back to the list.
LEMMA FinishedIs ==
    ASSUME NEW s, NEW d \in Demands, Loose(s, d)
    PROVE  /\ Loose(finished(s, d), 0) /\ Eased(s, finished(s, d))
           /\ finished(s, d).probe = s.probe /\ finished(s, d).flight = s.flight
<1> DEFINE w == [s.pending EXCEPT ![d] = @ - 1]
           t == finished(s, d)
<1>1. s.pending \in [Demands -> Int] /\ Shape(s) /\ Typed(s)
  BY DEF Loose, Asked, Typed
<1>2. t = [s EXCEPT !.pending = w]
  BY <1>1 DEF finished, Shape
<1>3. w \in [Demands -> Int] /\ \A c \in Demands : w[c] = s.pending[c] - IF c = d THEN 1 ELSE 0
  BY <1>1
<1> HIDE DEF w, t
<1>4. t = Asking(s, s.gate, s.probe, s.tried, w, s.flight)
  BY <1>1, <1>2, WritePending
<1>5. Typed(t) /\ t.gate = s.gate /\ t.probe = s.probe /\ t.pending = w /\ t.flight = s.flight
  BY <1>1, <1>4, AskingFields
<1>6. Asked(t)
  BY <1>3, <1>5 DEF Loose, Asked
<1>7. Gating(t)
  BY <1>5 DEF Loose, Gating
<1>8. Eased(s, t)
  <2>1. \A c \in Demands : s.pending[c] \in Int
    BY <1>1
  <2> QED BY <1>3, <1>5, <2>1 DEF Eased
<1>9. Balanced(t, 0)
  <2>1. ASSUME NEW c \in Demands
        PROVE  w[c] = Cardinality(Own(s.flight, c)) + Waits(c, s.gate, s.probe) + IF c = 0 THEN 1 ELSE 0
    <3> DEFINE a == Cardinality(Own(s.flight, c))
               b == Waits(c, s.gate, s.probe)
    <3>1. s.pending[c] = a + b + IF c = d THEN 1 ELSE 0
      BY DEF Loose, Balanced
    <3>2. a \in Nat /\ b \in Nat
      BY OwnFinite, WaitsNat DEF Loose, Asked
    <3>3. c # 0
      BY NoDemand
    <3> HIDE DEF a, b
    <3>4. w[c] = a + b + 0
      BY <1>3, <3>1, <3>2
    <3> QED BY <3>3, <3>4 DEF a, b
  <2> QED BY <1>5, <2>1 DEF Balanced
<1> QED BY <1>5, <1>6, <1>7, <1>8, <1>9 DEF Loose, t
LEMMA NoProbeShape == ProbeShape(NoProbe) /\ ~NoProbe.on /\ \A d \in Demands : NoProbe.waiters[d] = 0
<1> DEFINE none == [d \in Demands |-> 0]
<1>1. none \in [Demands -> Nat] /\ \A d \in Demands : none[d] = 0
  OBVIOUS
<1>2. NoProbe = [on |-> No, nonEmpty |-> -1, empty |-> -1, step |-> 1, limit |-> -1, full |-> -1, waiters |-> none]
  BY DEF NoProbe, No
<1> HIDE DEF none
<1>3. NoProbe.on = No /\ NoProbe.waiters = none
  BY <1>2
<1>4. ProbeShape(NoProbe)
  <2>1. No \in BOOLEAN
    BY DEF No
  <2> QED BY <1>1, <1>2, <2>1 DEF ProbeShape
<1>5. ~NoProbe.on
  BY <1>3 DEF No
<1> QED BY <1>1, <1>3, <1>4, <1>5

LEMMA NoGateShape == GateShape(NoGate) /\ NoGate.first = 0 /\ NoGate.waiters = {}
BY DEF GateShape, NoGate

\* A search ends, and its demands with it.
LEMMA FinishSearch ==
    ASSUME NEW s, NEW e, Loose(s, e), Quiet(s)
    PROVE  Whole(finishOldestBoundaryProbe(s), e) /\ Eased(s, finishOldestBoundaryProbe(s))
<1> DEFINE w == [d \in Demands |-> s.pending[d] - s.probe.waiters[d]]
           t == finishOldestBoundaryProbe(s)
<1>1. s.pending \in [Demands -> Int] /\ Shape(s) /\ Typed(s) /\ ProbeShape(s.probe)
  BY DEF Loose, Asked, Typed
<1>2. \A d \in Demands : s.pending[d] \in Int /\ s.probe.waiters[d] \in Nat
  BY <1>1 DEF ProbeShape
<1>3. t = ProbeAndPending(s, NoProbe, w)
  BY DEF finishOldestBoundaryProbe, ProbeAndPending
<1>4. w \in [Demands -> Int] /\ \A d \in Demands : w[d] = s.pending[d] - s.probe.waiters[d]
  BY <1>2
<1> HIDE DEF w, t
<1>5. t = Asking(s, s.gate, NoProbe, s.tried, w, s.flight)
  BY <1>1, <1>3, WriteProbeAndPending
<1>6. Typed(t) /\ t.gate = s.gate /\ t.probe = NoProbe /\ t.pending = w /\ t.flight = s.flight
  BY <1>1, <1>5, AskingFields
<1>7. Asked(t)
  BY <1>4, <1>6, NoProbeShape DEF Loose, Asked
<1>8. Gating(t)
  BY <1>6 DEF Loose, Gating
<1>9. Eased(s, t)
  BY <1>2, <1>4, <1>6 DEF Eased
<1>10. Balanced(t, e)
  <2>1. ASSUME NEW d \in Demands
        PROVE  w[d] = Cardinality(Own(s.flight, d)) + Waits(d, s.gate, NoProbe) + IF d = e THEN 1 ELSE 0
    <3> DEFINE a == Cardinality(Own(s.flight, d))
               g == Cardinality({d} \cap s.gate.waiters)
               p == s.probe.waiters[d]
               i == IF d = e THEN 1 ELSE 0
    <3>1. s.pending[d] = a + (g + p) + i
      BY DEF Loose, Balanced, Waits
    <3>2. a \in Nat /\ g \in Nat /\ p \in Nat /\ i \in Nat
      BY <1>1, <1>2, OwnFinite, WaitsNat DEF Loose, Asked
    <3>3. Waits(d, s.gate, NoProbe) = g + 0
      BY NoProbeShape DEF Waits
    <3>4. w[d] = s.pending[d] - p
      BY <1>4
    <3> HIDE DEF a, g, p, i
    <3>5. w[d] = a + (g + 0) + i
      BY <3>1, <3>2, <3>4
    <3> QED BY <3>3, <3>5 DEF a, i
  <2> QED BY <1>6, <2>1 DEF Balanced
<1>11. Searching(t)
  BY <1>6, NoProbeShape DEF Searching, Quiet
<1> QED BY <1>7, <1>8, <1>9, <1>10, <1>11 DEF Whole, Loose, t

\* The gated request has come back: the gate is still closed.
Answering(s) ==
    Asked(s) /\ Balanced(s, 0) /\ Searching(s) /\ \A f \in s.flight : ~f.gated

\* finishBoundaryRequest: every demand at the gate gets its answer, and the gate opens.
LEMMA FinishGate ==
    ASSUME NEW s, Answering(s)
    PROVE  Whole(finishBoundaryRequest(s), 0) /\ Eased(s, finishBoundaryRequest(s))
<1> DEFINE w == [d \in Demands |-> IF d \in s.gate.waiters THEN s.pending[d] - 1 ELSE s.pending[d]]
           t == finishBoundaryRequest(s)
<1>1. s.pending \in [Demands -> Int] /\ Shape(s) /\ Typed(s) /\ ProbeShape(s.probe)
  BY DEF Answering, Asked, Typed
<1>2. \A d \in Demands : s.pending[d] \in Int
  BY <1>1
<1>3. t = GateAndPending(s, NoGate, w)
  BY DEF finishBoundaryRequest, GateAndPending
<1>4. w \in [Demands -> Int] /\ \A d \in Demands : w[d] = s.pending[d] - IF d \in s.gate.waiters THEN 1 ELSE 0
  BY <1>2
<1> HIDE DEF w, t
<1>5. t = Asking(s, NoGate, s.probe, s.tried, w, s.flight)
  BY <1>1, <1>3, WriteGateAndPending
<1>6. Typed(t) /\ t.gate = NoGate /\ t.probe = s.probe /\ t.pending = w /\ t.flight = s.flight
  BY <1>1, <1>5, AskingFields
<1>7. Asked(t)
  BY <1>4, <1>6, NoGateShape DEF Answering, Asked
<1>8. Gating(t)
  BY <1>6, NoGateShape DEF Answering, Gating
<1>9. Eased(s, t)
  BY <1>2, <1>4, <1>6 DEF Eased
<1>10. Balanced(t, 0)
  <2>1. ASSUME NEW d \in Demands
        PROVE  w[d] = Cardinality(Own(s.flight, d)) + Waits(d, NoGate, s.probe) + IF d = 0 THEN 1 ELSE 0
    <3> DEFINE a == Cardinality(Own(s.flight, d))
               g == Cardinality({d} \cap s.gate.waiters)
               p == s.probe.waiters[d]
               i == IF d = 0 THEN 1 ELSE 0
    <3>1. s.pending[d] = a + (g + p) + i
      BY DEF Answering, Balanced, Waits
    <3>2. a \in Nat /\ g = (IF d \in s.gate.waiters THEN 1 ELSE 0) /\ p \in Nat /\ i \in Nat
      BY <1>1, OwnFinite, WaitsNat DEF Answering, Asked, ProbeShape
    <3>3. Waits(d, NoGate, s.probe) = 0 + p
      BY <1>1, WaitsNat, NoGateShape DEF Waits
    <3>4. w[d] = s.pending[d] - IF d \in s.gate.waiters THEN 1 ELSE 0
      BY <1>4
    <3> HIDE DEF a, g, p, i
    <3>5. w[d] = a + (0 + p) + i
      BY <3>1, <3>2, <3>4
    <3> QED BY <3>3, <3>5 DEF a, i
  <2> QED BY <1>6, <2>1 DEF Balanced
<1>11. Searching(t)
  BY <1>6 DEF Answering, Searching, Quiet
<1> QED BY <1>7, <1>8, <1>9, <1>10, <1>11 DEF Whole, Loose, t

\* An answer is taken off the requests under way.
LEMMA TakenFields ==
    ASSUME NEW s, Asked(s), NEW f \in s.flight
    PROVE  LET t == [s EXCEPT !.flight = @ \ {f}]
           IN /\ Asked(t) /\ t.gate = s.gate /\ t.probe = s.probe /\ t.pending = s.pending
              /\ t.flight = s.flight \ {f} /\ Eased(s, t)
<1> DEFINE x == s.flight \ {f}
           t == [s EXCEPT !.flight = x]
<1>1. Shape(s) /\ Typed(s) /\ IsFiniteSet(s.flight) /\ (\A g \in s.flight : Request(g)) /\ \A d \in Demands : s.pending[d] \in Int
  BY DEF Asked, Typed
<1>2. IsFiniteSet(x) /\ \A g \in x : Request(g)
  BY <1>1, FS_RemoveElement
<1> HIDE DEF x, t
<1>3. t = Asking(s, s.gate, s.probe, s.tried, s.pending, x)
  BY <1>1, WriteFlight DEF t
<1>4. Typed(t) /\ t.gate = s.gate /\ t.probe = s.probe /\ t.pending = s.pending /\ t.flight = x
  BY <1>1, <1>3, AskingFields
<1>5. Asked(t)
  BY <1>2, <1>4 DEF Asked
<1>6. Eased(s, t)
  BY <1>1, <1>4 DEF Eased
<1> QED BY <1>4, <1>5, <1>6 DEF t, x

\* The search goes on where its request does.
LEMMA SearchingStays ==
    ASSUME NEW s, NEW t, Searching(s), t.probe = s.probe, t.flight \subseteq s.flight,
           \A q \in s.flight : q.kind \in Search => q \in t.flight
    PROVE  Searching(t)
<1>1. CASE s.probe.on
  <2> DEFINE Carries(q, x) ==
               /\ q.kind \in Search /\ \A g \in x : g.kind \in Search => g = q
               /\ JoinedIn(s.probe) \/ (Narrowed(s.probe) /\ Within(s.probe, q))
  <2>1. Waited(s.probe) /\ \E q \in s.flight : Carries(q, s.flight)
    BY <1>1 DEF Searching
  <2>2. \A q \in s.flight : Carries(q, s.flight) => Carries(q, t.flight) /\ q \in t.flight
    OBVIOUS
  <2> HIDE DEF Carries
  <2>3. \E q \in t.flight : Carries(q, t.flight)
    BY <2>1, <2>2
  <2> USE DEF Carries
  <2>4. Searching(t) <=> Waited(s.probe) /\ \E q \in t.flight : Carries(q, t.flight)
    BY <1>1 DEF Searching
  <2> QED BY <2>1, <2>3, <2>4
<1>2. CASE ~s.probe.on
  <2>1. s.probe = NoProbe /\ Quiet(s)
    BY <1>2 DEF Searching
  <2>2. Quiet(t)
    BY <2>1 DEF Quiet
  <2> QED BY <1>2, <2>1, <2>2 DEF Searching
<1> QED BY <1>1, <1>2

\* A request that comes back without the gate: its demand is owed the call.
LEMMA TakenUngated ==
    ASSUME NEW s, Whole(s, 0), NEW f \in s.flight, ~f.gated
    PROVE  LET t == [s EXCEPT !.flight = @ \ {f}]
           IN /\ Loose(t, f.d) /\ Eased(s, t) /\ t.probe = s.probe /\ t.flight = s.flight \ {f}
              /\ f.kind \notin Search => Searching(t)
              /\ f.kind \in Search => Quiet(t)
<1> DEFINE x == s.flight \ {f}
           t == [s EXCEPT !.flight = @ \ {f}]
<1>1. Asked(t) /\ t.gate = s.gate /\ t.probe = s.probe /\ t.pending = s.pending /\ t.flight = x /\ Eased(s, t)
  BY TakenFields DEF Whole, Loose
<1> HIDE DEF t
<1>2. Gating(t)
  <2>1. \A g \in x : g \in s.flight
    OBVIOUS
  <2>2. \A g \in s.flight : g.gated => g \in x
    OBVIOUS
  <2> HIDE DEF x
  <2> QED BY <1>1, <2>1, <2>2 DEF Whole, Loose, Gating
<1>3. Balanced(t, f.d)
  <2>1. ASSUME NEW d \in Demands
        PROVE  s.pending[d] = Cardinality(Own(x, d)) + Waits(d, s.gate, s.probe) + IF d = f.d THEN 1 ELSE 0
    <3> DEFINE a == Cardinality(Own(s.flight, d))
               b == Waits(d, s.gate, s.probe)
               c == Cardinality(Own(x, d))
    <3>1. s.pending[d] = a + b + IF d = 0 THEN 1 ELSE 0
      BY DEF Whole, Loose, Balanced
    <3>2. a \in Nat /\ b \in Nat /\ d # 0 /\ IsFiniteSet(Own(s.flight, d))
      BY OwnFinite, WaitsNat, NoDemand DEF Whole, Loose, Asked
    <3>3. CASE d = f.d
      <4>1. Own(x, d) = Own(s.flight, d) \ {f} /\ f \in Own(s.flight, d)
        BY <3>3 DEF Own
      <4>2. c = a - 1
        BY <3>2, <4>1, FS_RemoveElement
      <4> HIDE DEF a, b, c
      <4>3. s.pending[d] = c + b + 1
        BY <3>1, <3>2, <4>2
      <4> QED BY <3>3, <4>3 DEF b, c
    <3>4. CASE d # f.d
      <4>1. Own(x, d) = Own(s.flight, d)
        BY <3>4 DEF Own
      <4>2. c = a
        BY <4>1
      <4> HIDE DEF a, b, c
      <4>3. s.pending[d] = c + b + 0
        BY <3>1, <3>2, <4>2
      <4> QED BY <3>4, <4>3 DEF b, c
    <3> QED BY <3>3, <3>4
  <2> HIDE DEF x
  <2> QED BY <1>1, <2>1 DEF Balanced
<1>4. ASSUME f.kind \notin Search PROVE Searching(t)
  <2>1. \A q \in s.flight : q.kind \in Search => q \in x
    BY <1>4
  <2>2. x \subseteq s.flight
    OBVIOUS
  <2> HIDE DEF x
  <2> QED BY <1>1, <2>1, <2>2, SearchingStays DEF Whole
<1>5. ASSUME f.kind \in Search PROVE Quiet(t)
  <2>1. s.probe.on
    BY <1>5 DEF Whole, Searching, Quiet
  <2>2. \A g \in s.flight : g.kind \in Search => g = f
    BY <1>5, <2>1 DEF Whole, Searching
  <2> QED BY <1>1, <2>2 DEF Quiet
<1> QED BY <1>1, <1>2, <1>3, <1>4, <1>5 DEF Loose, t

\* The gated request that comes back: nobody else is behind the gate.
LEMMA TakenGated ==
    ASSUME NEW s, Whole(s, 0), NEW f \in s.flight, f.gated
    PROVE  LET t == [s EXCEPT !.flight = @ \ {f}] IN Answering(t) /\ Eased(s, t)
<1> DEFINE x == s.flight \ {f}
           t == [s EXCEPT !.flight = @ \ {f}]
<1>1. Asked(t) /\ t.gate = s.gate /\ t.probe = s.probe /\ t.pending = s.pending /\ t.flight = x /\ Eased(s, t)
  BY TakenFields DEF Whole, Loose
<1> HIDE DEF t
<1>2. \A d : Own(x, d) = Own(s.flight, d)
  BY DEF Own
<1>3. \A g \in x : ~g.gated
  BY DEF Whole, Loose, Gating
<1>4. f.kind \notin Search
  BY DEF Whole, Loose, Asked, Request, Search
<1>5. Balanced(t, 0)
  <2> HIDE DEF x
  <2> QED BY <1>1, <1>2 DEF Whole, Loose, Balanced
<1>6. Searching(t)
  <2>1. \A q \in s.flight : q.kind \in Search => q \in x
    BY <1>4
  <2>2. x \subseteq s.flight
    OBVIOUS
  <2> HIDE DEF x
  <2> QED BY <1>1, <2>1, <2>2, SearchingStays DEF Whole
<1> QED BY <1>1, <1>3, <1>5, <1>6 DEF Answering, t
-----------------------------------------------------------------------------
(* The search for the oldest page.                                         *)

\* What page an offset lies on, and the number of pages of the first probe.
LEMMA PageOf ==
    ASSUME NEW p \in Nat
    PROVE  (p * PageSize) \div PageSize = p /\ p * PageSize \in Nat
<1>1. PageSize \in Nat \ {0}
  BY Numbers DEF NumbersFact
<1> DEFINE k == PageSize
           m == p * k
           q == m \div k
<1>2. m \in Nat
  BY <1>1
<1>3. q \in Int /\ k * q <= m /\ m < k * q + k
  <2>1. k \in Nat \ {0}
    BY <1>1
  <2> HIDE DEF m, k
  <2> QED BY <1>2, <2>1
<1>4. q = p
  <2> HIDE DEF q
  <2>1. k \in Nat \ {0}
    BY <1>1
  <2> HIDE DEF k
  <2>2. k * q <= p * k /\ p * k < k * q + k
    BY <1>3
  <2>3. k * (q - p) <= 0 /\ 0 < k * (q - p + 1)
    BY <1>3, <2>1, <2>2
  <2>4. q - p <= 0 /\ 0 < q - p + 1
    BY <1>3, <2>1, <2>3
  <2> QED BY <1>3, <2>4
<1> QED BY <1>2, <1>4

LEMMA FirstPages ==
    ASSUME NEW s, Typed(s)
    PROVE  initialBoundaryProbePages(s) \in Nat \ {0}
<1> DEFINE a == Len(s.slots) * ProbePercent + 100 * PageSize - 1
           b == 100 * PageSize
           q == a \div b
<1>1. a \in Int /\ b \in Nat \ {0}
  BY Numbers, TypedParts DEF NumbersFact
<1> HIDE DEF a, b
<1>2. q \in Int
  BY <1>1
<1>3. initialBoundaryProbePages(s) = Max({1, q})
  BY DEF initialBoundaryProbePages, a, b
<1> HIDE DEF q
<1>4. Max({1, q}) = IF 1 >= q THEN 1 ELSE q
  BY <1>2, MaxTwo
<1> QED BY <1>2, <1>3, <1>4

LEMMA PageType ==
    ASSUME NEW s, Typed(s), NEW i \in Int
    PROVE  pageForIndex(s, i) \in Int /\ (i <= Len(s.slots) => pageForIndex(s, i) \in Nat)
<1> DEFINE a == Len(s.slots) - i
           q == a \div PageSize
<1>1. a \in Int /\ PageSize \in Nat \ {0}
  BY Numbers, TypedParts DEF NumbersFact
<1>2. i <= Len(s.slots) => a \in Nat
  BY <1>1, TypedParts
<1>3. pageForIndex(s, i) = q
  BY DEF pageForIndex
<1> HIDE DEF a
<1>4. q \in Int /\ (a \in Nat => q \in Nat)
  BY <1>1
<1> QED BY <1>2, <1>3, <1>4

\* The bounds of a search, written anew.
ProbeWith(p, nonEmpty, empty, step, limit, full) ==
    [on |-> p.on, nonEmpty |-> nonEmpty, empty |-> empty, step |-> step, limit |-> limit,
     full |-> full, waiters |-> p.waiters]

LEMMA ProbeWithShape ==
    ASSUME NEW p, ProbeShape(p), NEW a \in Int, NEW b \in Int, NEW c \in Nat \ {0}, NEW d \in Int, NEW f \in Int
    PROVE  LET q == ProbeWith(p, a, b, c, d, f)
           IN /\ ProbeShape(q) /\ q.on = p.on /\ q.waiters = p.waiters
              /\ q.nonEmpty = a /\ q.empty = b /\ q.step = c /\ q.limit = d /\ q.full = f
BY DEF ProbeWith, ProbeShape

LEMMA WriteStep ==
    ASSUME NEW p, ProbeShape(p), NEW x
    PROVE  [p EXCEPT !.step = x] = ProbeWith(p, p.nonEmpty, p.empty, x, p.limit, p.full)
BY DEF ProbeWith, ProbeShape

LEMMA WriteNonEmpty ==
    ASSUME NEW p, ProbeShape(p), NEW x
    PROVE  [p EXCEPT !.nonEmpty = x] = ProbeWith(p, x, p.empty, p.step, p.limit, p.full)
BY DEF ProbeWith, ProbeShape

LEMMA WriteEmpty ==
    ASSUME NEW p, ProbeShape(p), NEW x
    PROVE  [p EXCEPT !.empty = x] = ProbeWith(p, p.nonEmpty, x, p.step, p.limit, p.full)
BY DEF ProbeWith, ProbeShape

LEMMA WriteFull ==
    ASSUME NEW p, ProbeShape(p), NEW x
    PROVE  [p EXCEPT !.full = x] = ProbeWith(p, p.nonEmpty, p.empty, p.step, p.limit, x)
BY DEF ProbeWith, ProbeShape

LEMMA WriteLimit ==
    ASSUME NEW p, ProbeShape(p), NEW x
    PROVE  [p EXCEPT !.limit = x] = ProbeWith(p, p.nonEmpty, p.empty, p.step, x, p.full)
BY DEF ProbeWith, ProbeShape

LEMMA SameWaiters ==
    ASSUME NEW p, NEW q, q.waiters = p.waiters
    PROVE  (JoinedIn(q) <=> JoinedIn(p)) /\ (Waited(q) <=> Waited(p))
BY DEF JoinedIn, Waited

\* The bounds of a search change nothing in the books.
LEMMA SetProbe ==
    ASSUME NEW s, NEW e, Loose(s, e), NEW p, ProbeShape(p), p.waiters = s.probe.waiters
    PROVE  LET t == [s EXCEPT !.probe = p]
           IN Loose(t, e) /\ Eased(s, t) /\ t.probe = p /\ t.flight = s.flight /\ t.slots = s.slots
<1> DEFINE t == [s EXCEPT !.probe = p]
<1>1. Shape(s) /\ Typed(s) /\ \A d \in Demands : s.pending[d] \in Int
  BY DEF Loose, Asked, Typed
<1>2. t = Asking(s, s.gate, p, s.tried, s.pending, s.flight)
  BY <1>1, WriteProbe
<1> HIDE DEF t
<1>3. Typed(t) /\ t.gate = s.gate /\ t.probe = p /\ t.pending = s.pending /\ t.flight = s.flight /\ t.slots = s.slots
  BY <1>1, <1>2, AskingFields
<1>4. Asked(t)
  BY <1>3 DEF Loose, Asked
<1>5. Gating(t)
  BY <1>3 DEF Loose, Gating
<1>6. Eased(s, t)
  BY <1>1, <1>3 DEF Eased
<1>7. Balanced(t, e)
  <2>1. \A d \in Demands : Waits(d, s.gate, p) = Waits(d, s.gate, s.probe)
    BY DEF Waits
  <2> QED BY <1>3, <2>1 DEF Loose, Balanced
<1> QED BY <1>3, <1>4, <1>5, <1>6, <1>7 DEF Loose, t

\* A page is loaded, or one post of it is asked for.
LEMMA LoadPage ==
    ASSUME NEW s, NEW e, Loose(s, e), Quiet(s), s.probe.on, Waited(s.probe), NEW page \in Nat,
           JoinedIn(s.probe) \/ (Narrowed(s.probe) /\ (s.probe.empty >= 0 => page < s.probe.empty))
    PROVE  Whole(loadOldestBoundaryPage(s, page), e) /\ Eased(s, loadOldestBoundaryPage(s, page))
<1>1. "oldestPage" \in Search
  BY DEF Search
<1>2. JoinedIn(s.probe) \/ (Narrowed(s.probe) /\ \A f : f.kind = "oldestPage" /\ f.at = page => Within(s.probe, f))
  BY DEF Within
<1>3. PageSize \in Nat
  BY Numbers DEF NumbersFact
<1> QED BY <1>1, <1>2, <1>3, AskSearch DEF loadOldestBoundaryPage

\* probePage: a search that asks for a page between what it knows goes on.
LEMMA ProbePage ==
    ASSUME NEW s, NEW e, Loose(s, e), Quiet(s), s.probe.on, Waited(s.probe), NEW page \in Nat,
           \/ JoinedIn(s.probe)
           \/ /\ Narrowed(s.probe) /\ (s.probe.empty >= 0 => page < s.probe.empty)
              /\ (s.probe.nonEmpty >= 0 => s.probe.nonEmpty < page)
    PROVE  /\ Whole(probePage(s, page), e) /\ Eased(s, probePage(s, page))
           /\ Whole(probeInitialPage(s, page), e) /\ Eased(s, probeInitialPage(s, page))
<1>1. "exists" \in Search /\ "initial" \in Search
  BY DEF Search
<1> DEFINE at == page * PageSize
<1>2. at \in Nat /\ at \div PageSize = page
  BY PageOf
<1> HIDE DEF at
<1>3. JoinedIn(s.probe) \/ (Narrowed(s.probe) /\ \A f : f.kind = "exists" /\ f.at = at => Within(s.probe, f))
  BY <1>2 DEF Within
<1>4. JoinedIn(s.probe) \/ (Narrowed(s.probe) /\ \A f : f.kind = "initial" /\ f.at = at => Within(s.probe, f))
  BY <1>2 DEF Within
<1>5. Whole(Ask(s, "exists", at, 1, 0), e) /\ Eased(s, Ask(s, "exists", at, 1, 0))
  BY <1>1, <1>2, <1>3, AskSearch
<1>6. Whole(Ask(s, "initial", at, 1, 0), e) /\ Eased(s, Ask(s, "initial", at, 1, 0))
  BY <1>1, <1>2, <1>4, AskSearch
<1> QED BY <1>5, <1>6 DEF probePage, probeInitialPage, at

\* The next question of a search that knows something of the channel.
LEMMA ProbeGoesOn ==
    ASSUME NEW s, NEW e, Loose(s, e), Quiet(s), s.probe.on, Waited(s.probe),
           s.probe.nonEmpty >= 0 \/ s.probe.empty >= 0, JoinedIn(s.probe) \/ Narrowed(s.probe)
    PROVE  Whole(probeOldestBoundary(s), e) /\ Eased(s, probeOldestBoundary(s))
<1> DEFINE p == s.probe
           a == p.nonEmpty
           b == p.empty
           known == a >= 0
           ended == b >= 0
           first == initialBoundaryProbePages(s)
           wider == IF p.step <= 1 THEN Max({2, first}) ELSE p.step * 2
           back == Min({b + 1, p.step * 2})
           ahead == Max({1, p.step})
           down == Max({0, b - p.step})
           half == (p.limit - a + 1) \div 2
           middle == (b - a) \div 2
           near == IF b = a + 1 THEN a ELSE a + 1
           t2 == [s EXCEPT !.probe.step = 2]
           tw == [s EXCEPT !.probe.step = wider]
           tb == [s EXCEPT !.probe.step = back]
           found == known /\ b = a + 1 /\ p.full = a
           x1 == finishOldestBoundaryProbe(reconcileRootCount(s, 0))
           x2 == finishOldestBoundaryProbe(reconcileRootCount(s, b * PageSize))
           x3 == loadOldestBoundaryPage(t2, b - 1)
           x4 == loadOldestBoundaryPage(s, near)
           x5 == loadOldestBoundaryPage(s, a)
           x6 == probePage(s, a + half)
           x7 == probePage(tw, a + ahead)
           x8 == probePage(tb, down)
           x9 == probePage(s, a + middle)
           t == probeOldestBoundary(s)
<1>1. t = CASE b = 0 -> x1
            [] known /\ b = a + 1 /\ p.full = a -> x2
            [] b # 0 /\ ~known /\ p.step = 1 -> x3
            [] known /\ ended /\ b # 0 /\ b - a <= 3 /\ ~found -> x4
            [] known /\ ~ended /\ p.limit >= 0 /\ a >= p.limit -> x5
            [] known /\ ~ended /\ p.limit > a -> x6
            [] known /\ ~ended /\ p.limit < 0 -> x7
            [] ~known /\ b # 0 /\ p.step # 1 -> x8
            [] known /\ ended /\ b - a > 3 -> x9
  BY Zenon DEF probeOldestBoundary
<1>2. /\ a \in Int /\ b \in Int /\ p.limit \in Int /\ p.full \in Int /\ p.step \in Nat \ {0}
      /\ ProbeShape(p) /\ first \in Nat \ {0} /\ Typed(s) /\ Shape(s)
  BY FirstPages DEF Loose, Asked, ProbeShape, Typed
<1>3. known \/ ended
  OBVIOUS
<1>4. JoinedIn(p) \/ (known /\ ended => a < b)
  BY DEF Narrowed
<1> HIDE DEF p, first, a, b
<1>5. CASE b = 0
  <2>1. t = x1
    <3> HIDE DEF t, x1, x2, x3, x4, x5, x6, x7, x8, x9
    <3> QED BY <1>1, <1>2, <1>3, <1>5
  <2>2. Placed(s, reconcileRootCount(s, 0))
    BY <1>2, ReconcilePlaces
  <2> DEFINE u == reconcileRootCount(s, 0)
  <2> HIDE DEF u
  <2>3. Loose(u, e) /\ Quiet(u) /\ Eased(s, u)
    BY <2>2, PlacedLoose, PlacedQuiet DEF u
  <2>4. Whole(finishOldestBoundaryProbe(u), e) /\ Eased(u, finishOldestBoundaryProbe(u))
    BY <2>3, FinishSearch
  <2>5. Eased(s, finishOldestBoundaryProbe(u))
    BY <2>3, <2>4, EasedTrans DEF Whole, Loose
  <2>6. t = finishOldestBoundaryProbe(u)
    BY <2>1 DEF u
  <2> HIDE DEF t
  <2> QED BY <2>4, <2>5, <2>6 DEF t
<1>6. CASE b # 0 /\ found
  <2>1. t = x2
    <3> HIDE DEF t, x1, x2, x3, x4, x5, x6, x7, x8, x9
    <3> QED BY <1>1, <1>2, <1>3, <1>6
  <2>2. b * PageSize \in Nat
    <3>1. b \in Nat
      BY <1>2, <1>6
    <3> QED BY <3>1, PageOf
  <2> DEFINE u == reconcileRootCount(s, b * PageSize)
  <2>3. Placed(s, u)
    BY <1>2, <2>2, ReconcilePlaces
  <2> HIDE DEF u
  <2>4. Loose(u, e) /\ Quiet(u) /\ Eased(s, u)
    BY <2>3, PlacedLoose, PlacedQuiet
  <2>5. Whole(finishOldestBoundaryProbe(u), e) /\ Eased(u, finishOldestBoundaryProbe(u))
    BY <2>4, FinishSearch
  <2>6. Eased(s, finishOldestBoundaryProbe(u))
    BY <2>4, <2>5, EasedTrans DEF Whole, Loose
  <2>7. t = finishOldestBoundaryProbe(u)
    BY <2>1 DEF u
  <2> HIDE DEF t
  <2> QED BY <2>5, <2>6, <2>7 DEF t
<1>7. CASE b # 0 /\ ~known /\ p.step = 1
  <2>1. t = x3
    <3> HIDE DEF t, x1, x2, x3, x4, x5, x6, x7, x8, x9
    <3> QED BY <1>1, <1>2, <1>3, <1>7
  <2> DEFINE q == ProbeWith(p, p.nonEmpty, p.empty, 2, p.limit, p.full)
  <2>2. t2 = [s EXCEPT !.probe = q]
    <3>1. t2 = [s EXCEPT !.probe = [p EXCEPT !.step = 2]]
      BY <1>2 DEF Shape, p
    <3> HIDE DEF t2, q
    <3>2. [p EXCEPT !.step = 2] = q
      BY <1>2, WriteStep DEF q
    <3> QED BY <3>1, <3>2
  <2>3. 2 \in Nat \ {0}
    OBVIOUS
  <2>4. /\ ProbeShape(q) /\ q.on = p.on /\ q.waiters = p.waiters
        /\ q.nonEmpty = a /\ q.empty = b
    BY <1>2, <2>3, ProbeWithShape DEF a, b
  <2> HIDE DEF q, t2
  <2>5. Loose(t2, e) /\ Eased(s, t2) /\ t2.probe = q /\ t2.flight = s.flight
    BY <2>2, <2>4, SetProbe DEF p
  <2>6. Quiet(t2) /\ t2.probe.on /\ Waited(t2.probe)
    BY <2>4, <2>5, SameWaiters DEF Quiet, p
  <2>7. b - 1 \in Nat
    BY <1>2, <1>3, <1>7
  <2>8. JoinedIn(t2.probe) \/ (Narrowed(t2.probe) /\ (t2.probe.empty >= 0 => b - 1 < t2.probe.empty))
    BY <1>2, <1>7, <2>4, <2>5 DEF Narrowed
  <2>9. Whole(x3, e) /\ Eased(t2, x3)
    BY <2>5, <2>6, <2>7, <2>8, LoadPage
  <2> HIDE DEF x3, t
  <2>10. Eased(s, x3)
    BY <2>5, <2>9, EasedTrans DEF Whole, Loose
  <2> QED BY <2>1, <2>9, <2>10 DEF t
<1>8. CASE known /\ ended /\ b # 0 /\ b - a <= 3 /\ ~found
  <2>1. t = x4
    <3> HIDE DEF t, x1, x2, x3, x4, x5, x6, x7, x8, x9
    <3> QED BY <1>1, <1>2, <1>3, <1>8
  <2>2. near \in Nat
    BY <1>2, <1>8
  <2>3. JoinedIn(p) \/ (Narrowed(p) /\ (p.empty >= 0 => near < p.empty))
    BY <1>2, <1>4, <1>8 DEF Narrowed, a, b
  <2>4. Whole(x4, e) /\ Eased(s, x4)
    BY <2>2, <2>3, LoadPage DEF p
  <2> HIDE DEF x4, t
  <2> QED BY <2>1, <2>4 DEF t
<1>9. CASE known /\ ~ended /\ p.limit >= 0 /\ a >= p.limit
  <2>1. t = x5
    <3> HIDE DEF t, x1, x2, x3, x4, x5, x6, x7, x8, x9
    <3> QED BY <1>1, <1>2, <1>3, <1>9
  <2>2. a \in Nat
    BY <1>2, <1>9
  <2>3. JoinedIn(p) \/ (Narrowed(p) /\ (p.empty >= 0 => a < p.empty))
    BY <1>2, <1>9 DEF Narrowed, a, b
  <2>4. Whole(x5, e) /\ Eased(s, x5)
    BY <2>2, <2>3, LoadPage DEF p
  <2> HIDE DEF x5, t
  <2> QED BY <2>1, <2>4 DEF t
<1>10. CASE known /\ ~ended /\ p.limit > a
  <2>1. t = x6
    <3> HIDE DEF t, x1, x2, x3, x4, x5, x6, x7, x8, x9
    <3> QED BY <1>1, <1>2, <1>3, <1>10
  <2>2. a + half \in Nat
    BY <1>2, <1>10
  <2>3. \/ JoinedIn(p)
        \/ /\ Narrowed(p) /\ (p.empty >= 0 => a + half < p.empty)
           /\ (p.nonEmpty >= 0 => p.nonEmpty < a + half)
    <3>1. half >= 1 /\ half \in Int
      BY <1>2, <1>10
    <3> HIDE DEF half
    <3> QED BY <1>2, <1>10, <3>1 DEF Narrowed, a, b
  <2>4. Whole(x6, e) /\ Eased(s, x6)
    BY <2>2, <2>3, ProbePage DEF p
  <2> HIDE DEF x6, t
  <2> QED BY <2>1, <2>4 DEF t
<1>11. CASE known /\ ~ended /\ p.limit < 0
  <2>1. t = x7
    <3> HIDE DEF t, x1, x2, x3, x4, x5, x6, x7, x8, x9
    <3> QED BY <1>1, <1>2, <1>3, <1>11
  <2> DEFINE q == ProbeWith(p, p.nonEmpty, p.empty, wider, p.limit, p.full)
  <2>2. tw = [s EXCEPT !.probe = q]
    <3>1. tw = [s EXCEPT !.probe = [p EXCEPT !.step = wider]]
      BY <1>2 DEF Shape, p
    <3> HIDE DEF tw, q
    <3>2. [p EXCEPT !.step = wider] = q
      BY <1>2, WriteStep DEF q
    <3> QED BY <3>1, <3>2
  <2>3. wider \in Nat \ {0}
    <3>1. Max({2, first}) = IF 2 >= first THEN 2 ELSE first
      BY <1>2, MaxTwo
    <3> QED BY <1>2, <3>1
  <2>4. /\ ProbeShape(q) /\ q.on = p.on /\ q.waiters = p.waiters
        /\ q.nonEmpty = a /\ q.empty = b
    BY <1>2, <2>3, ProbeWithShape DEF a, b
  <2> HIDE DEF q, tw
  <2>5. Loose(tw, e) /\ Eased(s, tw) /\ tw.probe = q /\ tw.flight = s.flight
    BY <2>2, <2>4, SetProbe DEF p
  <2>6. Quiet(tw) /\ tw.probe.on /\ Waited(tw.probe)
    BY <2>4, <2>5, SameWaiters DEF Quiet, p
  <2>7. a + ahead \in Nat
    <3>1. ahead = IF 1 >= p.step THEN 1 ELSE p.step
      BY <1>2, MaxTwo
    <3> QED BY <1>2, <1>11, <3>1
  <2>8. \/ JoinedIn(tw.probe)
        \/ /\ Narrowed(tw.probe) /\ (tw.probe.empty >= 0 => a + ahead < tw.probe.empty)
           /\ (tw.probe.nonEmpty >= 0 => tw.probe.nonEmpty < a + ahead)
    <3>1. ahead = IF 1 >= p.step THEN 1 ELSE p.step
      BY <1>2, MaxTwo
    <3>2. ahead \in Nat /\ ahead >= 1
      BY <1>2, <3>1
    <3> HIDE DEF ahead
    <3> QED BY <1>2, <1>11, <2>4, <2>5, <3>2 DEF Narrowed
  <2>9. Whole(x7, e) /\ Eased(tw, x7)
    BY <2>5, <2>6, <2>7, <2>8, ProbePage
  <2> HIDE DEF x7, t
  <2>10. Eased(s, x7)
    BY <2>5, <2>9, EasedTrans DEF Whole, Loose
  <2> QED BY <2>1, <2>9, <2>10 DEF t
<1>12. CASE ~known /\ b # 0 /\ p.step # 1
  <2>1. t = x8
    <3> HIDE DEF t, x1, x2, x3, x4, x5, x6, x7, x8, x9
    <3> QED BY <1>1, <1>2, <1>3, <1>12
  <2> DEFINE q == ProbeWith(p, p.nonEmpty, p.empty, back, p.limit, p.full)
  <2>2. tb = [s EXCEPT !.probe = q]
    <3>1. tb = [s EXCEPT !.probe = [p EXCEPT !.step = back]]
      BY <1>2 DEF Shape, p
    <3> HIDE DEF tb, q
    <3>2. [p EXCEPT !.step = back] = q
      BY <1>2, WriteStep DEF q
    <3> QED BY <3>1, <3>2
  <2>3. back \in Nat \ {0}
    <3> DEFINE c == p.step * 2
               d == b + 1
    <3>1. c \in Nat \ {0} /\ d \in Nat \ {0}
      BY <1>2, <1>3, <1>12
    <3> HIDE DEF c, d
    <3>2. Min({d, c}) = IF d <= c THEN d ELSE c
      BY <3>1, MinTwo
    <3> QED BY <3>1, <3>2 DEF c, d
  <2>4. /\ ProbeShape(q) /\ q.on = p.on /\ q.waiters = p.waiters
        /\ q.nonEmpty = a /\ q.empty = b
    BY <1>2, <2>3, ProbeWithShape DEF a, b
  <2> HIDE DEF q, tb
  <2>5. Loose(tb, e) /\ Eased(s, tb) /\ tb.probe = q /\ tb.flight = s.flight
    BY <2>2, <2>4, SetProbe DEF p
  <2>6. Quiet(tb) /\ tb.probe.on /\ Waited(tb.probe)
    BY <2>4, <2>5, SameWaiters DEF Quiet, p
  <2>7. down \in Nat
    <3> DEFINE c == b - p.step
    <3>1. c \in Int
      BY <1>2
    <3> HIDE DEF c
    <3>2. Max({0, c}) = IF 0 >= c THEN 0 ELSE c
      BY <3>1, MaxTwo
    <3> QED BY <3>1, <3>2 DEF c
  <2>8. \/ JoinedIn(tb.probe)
        \/ /\ Narrowed(tb.probe) /\ (tb.probe.empty >= 0 => down < tb.probe.empty)
           /\ (tb.probe.nonEmpty >= 0 => tb.probe.nonEmpty < down)
    <3> DEFINE c == b - p.step
    <3>1. c \in Int /\ c < b /\ 0 < b
      BY <1>2, <1>3, <1>12
    <3>2. down < b /\ down \in Int
      <4>1. down = Max({0, c})
        OBVIOUS
      <4> HIDE DEF c, down
      <4>2. Max({0, c}) = IF 0 >= c THEN 0 ELSE c
        BY <3>1, MaxTwo
      <4> QED BY <1>2, <3>1, <4>1, <4>2
    <3> HIDE DEF down, c
    <3> QED BY <1>2, <1>12, <2>4, <2>5, <3>2 DEF Narrowed
  <2>9. Whole(x8, e) /\ Eased(tb, x8)
    BY <2>5, <2>6, <2>7, <2>8, ProbePage
  <2> HIDE DEF x8, t
  <2>10. Eased(s, x8)
    BY <2>5, <2>9, EasedTrans DEF Whole, Loose
  <2> QED BY <2>1, <2>9, <2>10 DEF t
<1>13. CASE known /\ ended /\ b - a > 3
  <2>1. t = x9
    <3> HIDE DEF t, x1, x2, x3, x4, x5, x6, x7, x8, x9
    <3> QED BY <1>1, <1>2, <1>3, <1>13
  <2>2. a + middle \in Nat
    BY <1>2, <1>13
  <2>3. \/ JoinedIn(p)
        \/ /\ Narrowed(p) /\ (p.empty >= 0 => a + middle < p.empty)
           /\ (p.nonEmpty >= 0 => p.nonEmpty < a + middle)
    <3>1. middle >= 1 /\ middle \in Int /\ a + middle < b
      BY <1>2, <1>13
    <3> HIDE DEF middle
    <3> QED BY <1>2, <1>13, <3>1 DEF Narrowed, a, b
  <2>4. Whole(x9, e) /\ Eased(s, x9)
    BY <2>2, <2>3, ProbePage DEF p
  <2> HIDE DEF x9, t
  <2> QED BY <2>1, <2>4 DEF t
<1> QED BY <1>2, <1>3, <1>5, <1>6, <1>7, <1>8, <1>9, <1>10, <1>11, <1>12, <1>13
-----------------------------------------------------------------------------
(* A demand joins a search, or starts it.                                  *)

ProbeOf(on, nonEmpty, empty, step, limit, full, waiters) ==
    [on |-> on, nonEmpty |-> nonEmpty, empty |-> empty, step |-> step, limit |-> limit,
     full |-> full, waiters |-> waiters]

OneMore(p, d) == [p.waiters EXCEPT ![d] = @ + 1]
MoreWaiting(p, d) == ProbeOf(p.on, p.nonEmpty, p.empty, p.step, p.limit, p.full, OneMore(p, d))

LEMMA OneMoreIs ==
    ASSUME NEW p, ProbeShape(p), NEW d \in Demands
    PROVE  /\ OneMore(p, d) \in [Demands -> Nat]
           /\ \A c \in Demands : OneMore(p, d)[c] = p.waiters[c] + IF c = d THEN 1 ELSE 0
<1>1. p.waiters \in [Demands -> Nat]
  BY DEF ProbeShape
<1> QED BY <1>1 DEF OneMore

LEMMA ProbeOfIs ==
    ASSUME NEW on \in BOOLEAN, NEW a \in Int, NEW b \in Int, NEW c \in Nat \ {0}, NEW l \in Int, NEW f \in Int,
           NEW w \in [Demands -> Nat]
    PROVE  LET q == ProbeOf(on, a, b, c, l, f, w)
           IN /\ ProbeShape(q) /\ q.on = on /\ q.nonEmpty = a /\ q.empty = b /\ q.waiters = w
              /\ q.step = c /\ q.limit = l /\ q.full = f
BY DEF ProbeOf, ProbeShape

\* A demand that joins a search with waiters makes it joined.
LEMMA JoinedMore ==
    ASSUME NEW p, ProbeShape(p), NEW d \in Demands, NEW q, q.waiters = OneMore(p, d)
    PROVE  Waited(q) /\ (Waited(p) => JoinedIn(q))
<1>1. \A c \in Demands : q.waiters[c] = p.waiters[c] + (IF c = d THEN 1 ELSE 0) /\ p.waiters[c] \in Nat
  BY OneMoreIs DEF ProbeShape
<1>2. q.waiters[d] # 0 /\ \A c \in Demands : p.waiters[c] # 0 => q.waiters[c] # 0
  BY <1>1
<1>3. Waited(q)
  BY <1>2 DEF Waited
<1>4. ASSUME NEW c \in Demands, p.waiters[c] # 0 PROVE JoinedIn(q)
  <2>1. CASE c = d
    <3>1. q.waiters[d] > 1
      BY <1>1, <1>4, <2>1
    <3>2. 0 \notin {q.waiters[d], q.waiters[d]}
      BY <1>2
    <3> QED BY <3>1, <3>2 DEF JoinedIn
  <2>2. CASE c # d
    <3>1. 0 \notin {q.waiters[c], q.waiters[d]}
      BY <1>2, <1>4
    <3> QED BY <2>2, <3>1 DEF JoinedIn
  <2> QED BY <2>1, <2>2
<1> QED BY <1>3, <1>4 DEF Waited

\* The books, when the call on behalf of d is handed to the search.
LEMMA Handed ==
    ASSUME NEW s, NEW d \in Demands, Loose(s, d), NEW q, ProbeShape(q), q.waiters = OneMore(s.probe, d), NEW b
    PROVE  LET t == Asking(s, s.gate, q, b, s.pending, s.flight)
           IN Loose(t, 0) /\ Eased(s, t) /\ t.probe = q /\ t.flight = s.flight /\ t.slots = s.slots /\ Shape(t)
<1> DEFINE t == Asking(s, s.gate, q, b, s.pending, s.flight)
<1>1. Typed(s) /\ ProbeShape(s.probe) /\ \A c \in Demands : s.pending[c] \in Int
  BY DEF Loose, Asked
<1>2. /\ Typed(t) /\ t.gate = s.gate /\ t.probe = q /\ t.pending = s.pending /\ t.flight = s.flight
      /\ t.slots = s.slots
  BY <1>1, AskingFields
<1> HIDE DEF t
<1>3. Asked(t)
  BY <1>2 DEF Loose, Asked
<1>4. Gating(t)
  BY <1>2 DEF Loose, Gating
<1>5. Eased(s, t)
  BY <1>1, <1>2 DEF Eased
<1>6. Balanced(t, 0)
  <2>1. ASSUME NEW c \in Demands
        PROVE  s.pending[c] = Cardinality(Own(s.flight, c)) + Waits(c, s.gate, q) + IF c = 0 THEN 1 ELSE 0
    <3> DEFINE x == Cardinality(Own(s.flight, c))
               g == Cardinality({c} \cap s.gate.waiters)
               w == s.probe.waiters[c]
               i == IF c = d THEN 1 ELSE 0
    <3>1. s.pending[c] = x + (g + w) + i
      BY DEF Loose, Balanced, Waits
    <3>2. x \in Nat /\ g \in Nat /\ w \in Nat /\ i \in Nat
      BY <1>1, OwnFinite, WaitsNat DEF Loose, Asked, ProbeShape
    <3>3. Waits(c, s.gate, q) = g + (w + i)
      BY <1>1, OneMoreIs DEF Waits
    <3>4. c # 0
      BY NoDemand
    <3> HIDE DEF x, g, w, i
    <3>5. s.pending[c] = x + (g + (w + i)) + 0
      BY <3>1, <3>2
    <3> QED BY <3>3, <3>4, <3>5 DEF x
  <2> QED BY <1>2, <2>1 DEF Balanced
<1> QED BY <1>2, <1>3, <1>4, <1>5, <1>6 DEF Loose, t, Typed

WaitingFor(s, d) == [s EXCEPT !.probe.waiters[d] = @ + 1]
TriedFor(s, d) == [s EXCEPT !.probe.waiters[d] = @ + 1, !.tried = TRUE]

LEMMA WaitingIs ==
    ASSUME NEW s, Shape(s), ProbeShape(s.probe), NEW d \in Demands
    PROVE  WaitingFor(s, d) = Asking(s, s.gate, MoreWaiting(s.probe, d), s.tried, s.pending, s.flight)
<1> DEFINE p == s.probe
           m == [p EXCEPT !.waiters[d] = @ + 1]
<1>1. WaitingFor(s, d) = [s EXCEPT !.probe = m]
  BY DEF WaitingFor, Shape
<1>2. m = MoreWaiting(p, d)
  BY DEF ProbeShape, MoreWaiting, ProbeOf, OneMore
<1> HIDE DEF m, p
<1>3. WaitingFor(s, d) = Asking(s, s.gate, m, s.tried, s.pending, s.flight)
  BY <1>1, WriteProbe
<1> QED BY <1>2, <1>3 DEF p

LEMMA TriedIs ==
    ASSUME NEW s, Shape(s), ProbeShape(s.probe), NEW d \in Demands
    PROVE  TriedFor(s, d) = Asking(s, s.gate, MoreWaiting(s.probe, d), Yes, s.pending, s.flight)
<1> DEFINE t == WaitingFor(s, d)
<1>1. TriedFor(s, d) = [t EXCEPT !.tried = Yes]
  BY DEF WaitingFor, TriedFor, Shape, Yes
<1> HIDE DEF t
<1>2. t = Asking(s, s.gate, MoreWaiting(s.probe, d), s.tried, s.pending, s.flight)
  BY WaitingIs DEF t
<1>3. /\ Shape(t) /\ t.gate = s.gate /\ t.probe = MoreWaiting(s.probe, d) /\ t.pending = s.pending
      /\ t.flight = s.flight
  BY <1>2, AskingShape, AskingGot
<1>4. [t EXCEPT !.tried = Yes] = Asking(t, t.gate, t.probe, Yes, t.pending, t.flight)
  BY <1>3, WriteTried
<1> QED BY <1>1, <1>2, <1>3, <1>4, AskingTwice

LEMMA MoreWaitingIs ==
    ASSUME NEW p, ProbeShape(p), NEW d \in Demands
    PROVE  LET q == MoreWaiting(p, d)
           IN /\ ProbeShape(q) /\ q.on = p.on /\ q.nonEmpty = p.nonEmpty /\ q.empty = p.empty
              /\ q.step = p.step /\ q.limit = p.limit /\ q.full = p.full /\ q.waiters = OneMore(p, d)
<1>1. /\ p.on \in BOOLEAN /\ p.nonEmpty \in Int /\ p.empty \in Int /\ p.limit \in Int /\ p.full \in Int
      /\ p.step \in Nat \ {0} /\ OneMore(p, d) \in [Demands -> Nat]
  BY OneMoreIs DEF ProbeShape
<1> QED BY <1>1, ProbeOfIs DEF MoreWaiting
\* The fields a search starts with.
StartLimit(w, l, c) == [w EXCEPT !.probe.on = TRUE, !.probe.limit = l, !.probe.step = c]
StartEmpty(w, b, c) == [w EXCEPT !.probe.on = TRUE, !.probe.empty = b, !.probe.step = c]
StartFull(w, a) == [w EXCEPT !.probe.on = TRUE, !.probe.nonEmpty = a, !.probe.full = a]

LEMMA WriteOn ==
    ASSUME NEW p, ProbeShape(p), NEW x
    PROVE  [p EXCEPT !.on = x] = ProbeOf(x, p.nonEmpty, p.empty, p.step, p.limit, p.full, p.waiters)
BY DEF ProbeOf, ProbeShape

LEMMA StartLimitIs ==
    ASSUME NEW w, Shape(w), ProbeShape(w.probe), NEW l \in Int, NEW c \in Nat \ {0}
    PROVE  StartLimit(w, l, c) =
              [w EXCEPT !.probe = ProbeOf(Yes, w.probe.nonEmpty, w.probe.empty, c, l, w.probe.full, w.probe.waiters)]
<1> DEFINE p == w.probe
           q1 == [p EXCEPT !.on = Yes]
           q2 == [q1 EXCEPT !.limit = l]
           q3 == [q2 EXCEPT !.step = c]
           q == ProbeOf(Yes, p.nonEmpty, p.empty, c, l, p.full, p.waiters)
<1>1. StartLimit(w, l, c) = [w EXCEPT !.probe = q3]
  <2> DEFINE r1 == [w EXCEPT !.probe.on = TRUE]
             r2 == [r1 EXCEPT !.probe.limit = l]
             r3 == [r2 EXCEPT !.probe.step = c]
  <2>1. StartLimit(w, l, c) = r3
    BY Zenon DEF StartLimit
  <2>2. r1 = [w EXCEPT !.probe = q1]
    BY DEF Shape, Yes
  <2> HIDE DEF r1, q1
  <2>3. r1 = Asking(w, w.gate, q1, w.tried, w.pending, w.flight)
    BY <2>2, WriteProbe
  <2>4. Shape(r1) /\ r1.gate = w.gate /\ r1.probe = q1 /\ r1.tried = w.tried /\ r1.pending = w.pending
        /\ r1.flight = w.flight
    BY <2>3, AskingShape, AskingGot
  <2>5. r2 = [r1 EXCEPT !.probe = q2]
    BY <2>4 DEF Shape
  <2> HIDE DEF r2, q2
  <2>6. r2 = Asking(w, w.gate, q2, w.tried, w.pending, w.flight)
    BY <2>3, <2>4, <2>5, WriteProbe, AskingTwice
  <2>7. Shape(r2) /\ r2.gate = w.gate /\ r2.probe = q2 /\ r2.tried = w.tried /\ r2.pending = w.pending
        /\ r2.flight = w.flight
    BY <2>6, AskingShape, AskingGot
  <2>8. r3 = [r2 EXCEPT !.probe = q3]
    BY <2>7 DEF Shape
  <2> HIDE DEF r3, q3
  <2>9. r3 = Asking(w, w.gate, q3, w.tried, w.pending, w.flight)
    BY <2>6, <2>7, <2>8, WriteProbe, AskingTwice
  <2> QED BY <2>1, <2>9, WriteProbe
<1>2. q3 = q
  <2>1. q1 = ProbeOf(Yes, p.nonEmpty, p.empty, p.step, p.limit, p.full, p.waiters)
    BY WriteOn
  <2> HIDE DEF q1, p
  <2>2. q2 = ProbeOf(Yes, p.nonEmpty, p.empty, p.step, l, p.full, p.waiters)
    BY <2>1 DEF ProbeOf
  <2> HIDE DEF q2
  <2> QED BY <2>2 DEF ProbeOf
<1> HIDE DEF q3, q
<1> QED BY <1>1, <1>2 DEF q

LEMMA StartEmptyIs ==
    ASSUME NEW w, Shape(w), ProbeShape(w.probe), NEW b \in Int, NEW c \in Nat \ {0}
    PROVE  StartEmpty(w, b, c) =
              [w EXCEPT !.probe = ProbeOf(Yes, w.probe.nonEmpty, b, c, w.probe.limit, w.probe.full, w.probe.waiters)]
<1> DEFINE p == w.probe
           q1 == [p EXCEPT !.on = Yes]
           q2 == [q1 EXCEPT !.empty = b]
           q3 == [q2 EXCEPT !.step = c]
           q == ProbeOf(Yes, p.nonEmpty, b, c, p.limit, p.full, p.waiters)
<1>1. StartEmpty(w, b, c) = [w EXCEPT !.probe = q3]
  <2> DEFINE r1 == [w EXCEPT !.probe.on = TRUE]
             r2 == [r1 EXCEPT !.probe.empty = b]
             r3 == [r2 EXCEPT !.probe.step = c]
  <2>1. StartEmpty(w, b, c) = r3
    BY Zenon DEF StartEmpty
  <2>2. r1 = [w EXCEPT !.probe = q1]
    BY DEF Shape, Yes
  <2> HIDE DEF r1, q1
  <2>3. r1 = Asking(w, w.gate, q1, w.tried, w.pending, w.flight)
    BY <2>2, WriteProbe
  <2>4. Shape(r1) /\ r1.gate = w.gate /\ r1.probe = q1 /\ r1.tried = w.tried /\ r1.pending = w.pending
        /\ r1.flight = w.flight
    BY <2>3, AskingShape, AskingGot
  <2>5. r2 = [r1 EXCEPT !.probe = q2]
    BY <2>4 DEF Shape
  <2> HIDE DEF r2, q2
  <2>6. r2 = Asking(w, w.gate, q2, w.tried, w.pending, w.flight)
    BY <2>3, <2>4, <2>5, WriteProbe, AskingTwice
  <2>7. Shape(r2) /\ r2.gate = w.gate /\ r2.probe = q2 /\ r2.tried = w.tried /\ r2.pending = w.pending
        /\ r2.flight = w.flight
    BY <2>6, AskingShape, AskingGot
  <2>8. r3 = [r2 EXCEPT !.probe = q3]
    BY <2>7 DEF Shape
  <2> HIDE DEF r3, q3
  <2>9. r3 = Asking(w, w.gate, q3, w.tried, w.pending, w.flight)
    BY <2>6, <2>7, <2>8, WriteProbe, AskingTwice
  <2> QED BY <2>1, <2>9, WriteProbe
<1>2. q3 = q
  <2>1. q1 = ProbeOf(Yes, p.nonEmpty, p.empty, p.step, p.limit, p.full, p.waiters)
    BY WriteOn
  <2> HIDE DEF q1, p
  <2>2. q2 = ProbeOf(Yes, p.nonEmpty, b, p.step, p.limit, p.full, p.waiters)
    BY <2>1 DEF ProbeOf
  <2> HIDE DEF q2
  <2> QED BY <2>2 DEF ProbeOf
<1> HIDE DEF q3, q
<1> QED BY <1>1, <1>2 DEF q

LEMMA StartFullIs ==
    ASSUME NEW w, Shape(w), ProbeShape(w.probe), NEW a \in Int
    PROVE  StartFull(w, a) =
              [w EXCEPT !.probe = ProbeOf(Yes, a, w.probe.empty, w.probe.step, w.probe.limit, a, w.probe.waiters)]
<1> DEFINE p == w.probe
           q1 == [p EXCEPT !.on = Yes]
           q2 == [q1 EXCEPT !.nonEmpty = a]
           q3 == [q2 EXCEPT !.full = a]
           q == ProbeOf(Yes, a, p.empty, p.step, p.limit, a, p.waiters)
<1>1. StartFull(w, a) = [w EXCEPT !.probe = q3]
  <2> DEFINE r1 == [w EXCEPT !.probe.on = TRUE]
             r2 == [r1 EXCEPT !.probe.nonEmpty = a]
             r3 == [r2 EXCEPT !.probe.full = a]
  <2>1. StartFull(w, a) = r3
    BY Zenon DEF StartFull
  <2>2. r1 = [w EXCEPT !.probe = q1]
    BY DEF Shape, Yes
  <2> HIDE DEF r1, q1
  <2>3. r1 = Asking(w, w.gate, q1, w.tried, w.pending, w.flight)
    BY <2>2, WriteProbe
  <2>4. Shape(r1) /\ r1.gate = w.gate /\ r1.probe = q1 /\ r1.tried = w.tried /\ r1.pending = w.pending
        /\ r1.flight = w.flight
    BY <2>3, AskingShape, AskingGot
  <2>5. r2 = [r1 EXCEPT !.probe = q2]
    BY <2>4 DEF Shape
  <2> HIDE DEF r2, q2
  <2>6. r2 = Asking(w, w.gate, q2, w.tried, w.pending, w.flight)
    BY <2>3, <2>4, <2>5, WriteProbe, AskingTwice
  <2>7. Shape(r2) /\ r2.gate = w.gate /\ r2.probe = q2 /\ r2.tried = w.tried /\ r2.pending = w.pending
        /\ r2.flight = w.flight
    BY <2>6, AskingShape, AskingGot
  <2>8. r3 = [r2 EXCEPT !.probe = q3]
    BY <2>7 DEF Shape
  <2> HIDE DEF r3, q3
  <2>9. r3 = Asking(w, w.gate, q3, w.tried, w.pending, w.flight)
    BY <2>6, <2>7, <2>8, WriteProbe, AskingTwice
  <2> QED BY <2>1, <2>9, WriteProbe
<1>2. q3 = q
  <2>1. q1 = ProbeOf(Yes, p.nonEmpty, p.empty, p.step, p.limit, p.full, p.waiters)
    BY WriteOn
  <2> HIDE DEF q1, p
  <2>2. q2 = ProbeOf(Yes, a, p.empty, p.step, p.limit, p.full, p.waiters)
    BY <2>1 DEF ProbeOf
  <2> HIDE DEF q2
  <2> QED BY <2>2 DEF ProbeOf
<1> HIDE DEF q3, q
<1> QED BY <1>1, <1>2 DEF q

LEMMA SearchJoined ==
    ASSUME NEW s, NEW t, Searching(s), s.probe.on, t.flight = s.flight, t.probe.on, JoinedIn(t.probe), Waited(t.probe)
    PROVE  Searching(t)
BY DEF Searching

\* A demand joins the search that is on, whatever it tells of its bounds.
LEMMA JoinsSearch ==
    ASSUME NEW s, NEW d \in Demands, Loose(s, d), Searching(s), s.probe.on, NEW q, ProbeShape(q), q.on,
           q.waiters = OneMore(s.probe, d), NEW b
    PROVE  LET t == Asking(s, s.gate, q, b, s.pending, s.flight) IN Whole(t, 0) /\ Eased(s, t)
<1> DEFINE t == Asking(s, s.gate, q, b, s.pending, s.flight)
<1>1. Loose(t, 0) /\ Eased(s, t) /\ t.probe = q /\ t.flight = s.flight
  BY Handed
<1> HIDE DEF t
<1>2. JoinedIn(q) /\ Waited(q)
  <2>1. ProbeShape(s.probe) /\ Waited(s.probe)
    BY DEF Loose, Asked, Searching
  <2> QED BY <2>1, JoinedMore
<1>3. Searching(t)
  BY <1>1, <1>2, SearchJoined
<1> QED BY <1>1, <1>3 DEF Whole, t

\* probeEstimatedOldestBoundary starts a search with one request, or joins the one that is on.
LEMMA EstimatedWhole ==
    ASSUME NEW s, NEW d \in Demands, Loose(s, d), Searching(s)
    PROVE  Whole(probeEstimatedOldestBoundary(s, d), 0) /\ Eased(s, probeEstimatedOldestBoundary(s, d))
<1> DEFINE p == s.probe
           m == MoreWaiting(p, d)
           w == WaitingFor(s, d)
           limit == pageForIndex(s, 1)
           c == initialBoundaryProbePages(s)
           low == limit - c
           page == Max({0, low})
           u == StartLimit(w, limit, c)
           t == probeEstimatedOldestBoundary(s, d)
<1>1. t = IF p.on THEN w ELSE probeInitialPage(u, page)
  BY DEF probeEstimatedOldestBoundary, WaitingFor, StartLimit
<1>2. ProbeShape(p) /\ Typed(s) /\ Shape(s)
  BY DEF Loose, Asked, Typed
<1>3. w = Asking(s, s.gate, m, s.tried, s.pending, s.flight)
  BY <1>2, WaitingIs
<1>4. ProbeShape(m) /\ m.on = p.on /\ m.waiters = OneMore(p, d) /\ m.nonEmpty = p.nonEmpty /\ m.empty = p.empty /\ m.full = p.full
  BY <1>2, MoreWaitingIs
<1> HIDE DEF w, m, t
<1>5. CASE p.on
  <2>1. t = w
    <3> HIDE DEF u, page
    <3> QED BY <1>1, <1>5
  <2>2. Whole(w, 0) /\ Eased(s, w)
    BY <1>3, <1>4, <1>5, JoinsSearch
  <2> QED BY <2>1, <2>2 DEF t
<1>6. CASE ~p.on
  <2>1. t = probeInitialPage(u, page)
    <3> HIDE DEF u, page
    <3> QED BY <1>1, <1>6
  <2>2. p = NoProbe /\ Quiet(s)
    BY <1>6 DEF Searching
  <2>3. limit \in Int /\ c \in Nat \ {0}
    BY <1>2, PageType, FirstPages
  <2> HIDE DEF limit, c
  <2>4. page \in Nat
    <3>1. low \in Int
      BY <2>3
    <3> HIDE DEF low
    <3>2. page = IF 0 >= low THEN 0 ELSE low
      BY <3>1, MaxTwo
    <3> QED BY <3>1, <3>2
  <2> HIDE DEF page
  <2>5. Loose(w, 0) /\ Eased(s, w) /\ w.probe = m /\ w.flight = s.flight /\ Shape(w)
    BY <1>3, <1>4, Handed
  <2> DEFINE q == ProbeOf(Yes, m.nonEmpty, m.empty, c, limit, m.full, m.waiters)
  <2>6. u = [w EXCEPT !.probe = q]
    BY <1>4, <2>3, <2>5, StartLimitIs
  <2>7. ProbeShape(q) /\ q.on = Yes /\ q.nonEmpty = m.nonEmpty /\ q.empty = m.empty /\ q.waiters = m.waiters
    <3>1. Yes \in BOOLEAN /\ m.nonEmpty \in Int /\ m.empty \in Int /\ m.full \in Int /\ m.waiters \in [Demands -> Nat]
      BY <1>4 DEF Yes, ProbeShape
    <3> QED BY <2>3, <3>1, ProbeOfIs
  <2> HIDE DEF q, u
  <2>8. Loose(u, 0) /\ Eased(w, u) /\ u.probe = q /\ u.flight = w.flight
    BY <2>5, <2>6, <2>7, SetProbe
  <2>9. Quiet(u) /\ u.probe.on /\ Waited(u.probe) /\ u.probe.nonEmpty = -1 /\ u.probe.empty = -1
    <3>1. Waited(q)
      BY <1>2, <1>4, <2>7, JoinedMore
    <3>2. q.on
      BY <2>7 DEF Yes
    <3>3. NoProbe.nonEmpty = -1 /\ NoProbe.empty = -1
      BY DEF NoProbe
    <3> QED BY <1>4, <2>2, <2>5, <2>7, <2>8, <3>1, <3>2, <3>3 DEF Quiet
  <2>10. Whole(probeInitialPage(u, page), 0) /\ Eased(u, probeInitialPage(u, page))
    <3>1. Narrowed(u.probe)
      BY <2>9 DEF Narrowed
    <3> QED BY <2>4, <2>8, <2>9, <3>1, ProbePage
  <2> DEFINE v == probeInitialPage(u, page)
  <2> HIDE DEF v
  <2>11. Whole(v, 0) /\ Eased(u, v) /\ t = v
    BY <2>1, <2>10 DEF v
  <2>12. Asked(s) /\ Asked(w) /\ Asked(u) /\ Asked(v)
    BY <2>5, <2>8, <2>11 DEF Whole, Loose
  <2>13. Eased(s, u)
    BY <2>5, <2>8, <2>12, EasedTrans
  <2>14. Eased(s, v)
    BY <2>11, <2>12, <2>13, EasedTrans
  <2> QED BY <2>11, <2>14 DEF t
<1> QED BY <1>5, <1>6

\* A search that starts with something known of the channel.
LEMMA StartsSearch ==
    ASSUME NEW s, NEW d \in Demands, Loose(s, d), Searching(s), ~s.probe.on, NEW q, ProbeShape(q), q.on,
           q.waiters = OneMore(s.probe, d), q.nonEmpty >= 0 \/ q.empty >= 0, Narrowed(q), NEW b
    PROVE  LET t == Asking(s, s.gate, q, b, s.pending, s.flight)
           IN Whole(probeOldestBoundary(t), 0) /\ Eased(s, probeOldestBoundary(t))
<1> DEFINE t == Asking(s, s.gate, q, b, s.pending, s.flight)
           u == probeOldestBoundary(t)
<1>1. Loose(t, 0) /\ Eased(s, t) /\ t.probe = q /\ t.flight = s.flight
  BY Handed
<1> HIDE DEF t
<1>2. Waited(q)
  BY JoinedMore DEF Loose, Asked
<1>3. Quiet(t)
  BY <1>1 DEF Searching, Quiet
<1>4. Whole(u, 0) /\ Eased(t, u)
  BY <1>1, <1>2, <1>3, ProbeGoesOn
<1> HIDE DEF u
<1>5. Eased(s, u)
  BY <1>1, <1>4, EasedTrans DEF Whole, Loose
<1> QED BY <1>4, <1>5 DEF t, u

\* A page that came empty joins the search, or starts it.
LEMMA ResolvedWhole ==
    ASSUME NEW s, NEW d \in Demands, Loose(s, d), Searching(s), NEW page \in Nat
    PROVE  Whole(resolveOldestBoundary(s, page, d), 0) /\ Eased(s, resolveOldestBoundary(s, page, d))
<1> DEFINE p == s.probe
           m == MoreWaiting(p, d)
           w == TriedFor(s, d)
           least == Min({p.empty, page})
           b == IF p.empty < 0 THEN page ELSE least
           c == initialBoundaryProbePages(s)
           u == StartEmpty(w, page, c)
           j == [w EXCEPT !.probe.empty = IF @ < 0 THEN page ELSE Min({@, page})]
           v == probeOldestBoundary(u)
           t == resolveOldestBoundary(s, page, d)
<1>1. t = IF p.on THEN j ELSE v
  BY DEF resolveOldestBoundary, TriedFor, StartEmpty
<1>2. ProbeShape(p) /\ Typed(s) /\ Shape(s)
  BY DEF Loose, Asked, Typed
<1>3. w = Asking(s, s.gate, m, Yes, s.pending, s.flight)
  BY <1>2, TriedIs
<1>4. /\ ProbeShape(m) /\ m.on = p.on /\ m.waiters = OneMore(p, d) /\ m.nonEmpty = p.nonEmpty /\ m.empty = p.empty
      /\ m.full = p.full /\ m.step = p.step /\ m.limit = p.limit
  BY <1>2, MoreWaitingIs
<1>5. Shape(w) /\ w.probe = m /\ w.gate = s.gate /\ w.tried = Yes /\ w.pending = s.pending /\ w.flight = s.flight
  BY <1>3, AskingShape, AskingGot
<1> HIDE DEF w, m, t, v
<1>6. CASE p.on
  <2> DEFINE q == [m EXCEPT !.empty = b]
  <2>1. t = j
    <3> HIDE DEF j
    <3> QED BY <1>1, <1>6
  <2>2. j = [w EXCEPT !.probe = q]
    BY <1>4, <1>5 DEF Shape
  <2>3. b \in Int
    <3>1. p.empty \in Int
      BY <1>2 DEF ProbeShape
    <3>2. least = IF p.empty <= page THEN p.empty ELSE page
      BY <3>1, MinTwo
    <3> QED BY <3>1, <3>2
  <2> HIDE DEF b, j
  <2>4. ProbeShape(q) /\ q.on = m.on /\ q.waiters = m.waiters
    <3>1. q = ProbeWith(m, m.nonEmpty, b, m.step, m.limit, m.full)
      BY <1>4, WriteEmpty
    <3>2. m.nonEmpty \in Int /\ m.step \in Nat \ {0} /\ m.limit \in Int /\ m.full \in Int
      BY <1>4 DEF ProbeShape
    <3> HIDE DEF q
    <3> QED BY <1>4, <2>3, <3>1, <3>2, ProbeWithShape
  <2> HIDE DEF q
  <2>5. j = Asking(s, s.gate, q, Yes, s.pending, s.flight)
    <3>1. j = Asking(w, s.gate, q, Yes, s.pending, s.flight)
      BY <1>5, <2>2, WriteProbe
    <3> QED BY <1>3, <3>1, AskingTwice
  <2>6. Whole(j, 0) /\ Eased(s, j)
    BY <1>4, <1>6, <2>4, <2>5, JoinsSearch
  <2> QED BY <2>1, <2>6 DEF t
<1>7. CASE ~p.on
  <2> DEFINE q == ProbeOf(Yes, m.nonEmpty, page, c, m.limit, m.full, m.waiters)
  <2>1. t = v
    <3> HIDE DEF j
    <3> QED BY <1>1, <1>7
  <2>2. p = NoProbe
    BY <1>7 DEF Searching
  <2>3. c \in Nat \ {0}
    BY <1>2, FirstPages
  <2> HIDE DEF c
  <2>4. u = [w EXCEPT !.probe = q]
    BY <1>4, <1>5, <2>3, StartEmptyIs
  <2>5. ProbeShape(q) /\ q.on = Yes /\ q.nonEmpty = m.nonEmpty /\ q.empty = page /\ q.waiters = m.waiters
    <3>1. Yes \in BOOLEAN /\ m.nonEmpty \in Int /\ m.limit \in Int /\ m.full \in Int /\ m.waiters \in [Demands -> Nat]
      BY <1>4 DEF Yes, ProbeShape
    <3> QED BY <2>3, <3>1, ProbeOfIs
  <2> HIDE DEF q, u
  <2>6. u = Asking(s, s.gate, q, Yes, s.pending, s.flight)
    <3>1. u = Asking(w, s.gate, q, Yes, s.pending, s.flight)
      BY <1>5, <2>4, WriteProbe
    <3> QED BY <1>3, <3>1, AskingTwice
  <2>7. q.on /\ Narrowed(q) /\ q.empty >= 0
    <3>1. NoProbe.nonEmpty = -1
      BY DEF NoProbe
    <3> QED BY <1>4, <2>2, <2>5, <3>1 DEF Narrowed, Yes
  <2> DEFINE x == Asking(s, s.gate, q, Yes, s.pending, s.flight)
  <2>8. Whole(probeOldestBoundary(x), 0) /\ Eased(s, probeOldestBoundary(x))
    BY <1>4, <1>7, <2>5, <2>7, StartsSearch
  <2>9. v = probeOldestBoundary(x)
    BY <2>6 DEF v
  <2> QED BY <2>1, <2>8, <2>9 DEF t
<1> QED BY <1>6, <1>7

\* A full page at the first slot joins the search, or starts it.
LEMMA ResolvedFullWhole ==
    ASSUME NEW s, NEW d \in Demands, Loose(s, d), Searching(s), NEW page \in Nat
    PROVE  /\ Whole(resolveOldestBoundaryFromNonEmpty(s, page, d), 0)
           /\ Eased(s, resolveOldestBoundaryFromNonEmpty(s, page, d))
<1>0. page \in Int
  OBVIOUS
<1> DEFINE p == s.probe
           m == MoreWaiting(p, d)
           w == TriedFor(s, d)
           u == StartFull(w, page)
           a == Max({m.nonEmpty, page})
           f == Max({m.full, page})
           j == [w EXCEPT !.probe.nonEmpty = Max({@, page}), !.probe.full = Max({@, page})]
           v == probeOldestBoundary(u)
           t == resolveOldestBoundaryFromNonEmpty(s, page, d)
<1>1. t = IF ~p.on THEN v ELSE IF p.empty < 0 \/ page < p.empty THEN j ELSE w
  BY Zenon DEF resolveOldestBoundaryFromNonEmpty, TriedFor, StartFull
<1>2. ProbeShape(p) /\ Typed(s) /\ Shape(s)
  BY DEF Loose, Asked, Typed
<1>3. w = Asking(s, s.gate, m, Yes, s.pending, s.flight)
  BY <1>2, TriedIs
<1>4. /\ ProbeShape(m) /\ m.on = p.on /\ m.waiters = OneMore(p, d) /\ m.nonEmpty = p.nonEmpty /\ m.empty = p.empty
      /\ m.full = p.full /\ m.step = p.step /\ m.limit = p.limit
  BY <1>2, MoreWaitingIs
<1>5. Shape(w) /\ w.probe = m /\ w.gate = s.gate /\ w.tried = Yes /\ w.pending = s.pending /\ w.flight = s.flight
  BY <1>3, AskingShape, AskingGot
<1> HIDE DEF w, m, t, v
<1>6. CASE p.on
  <2>1. t = IF p.empty < 0 \/ page < p.empty THEN j ELSE w
    <3> HIDE DEF j
    <3> QED BY <1>1, <1>6
  <2>2. Whole(w, 0) /\ Eased(s, w)
    BY <1>3, <1>4, <1>6, JoinsSearch
  <2>3. a \in Int /\ f \in Int
    <3>1. m.nonEmpty \in Int /\ m.full \in Int
      BY <1>4 DEF ProbeShape
    <3>2. a = (IF m.nonEmpty >= page THEN m.nonEmpty ELSE page) /\ f = (IF m.full >= page THEN m.full ELSE page)
      BY <3>1, MaxTwo
    <3> QED BY <3>1, <3>2
  <2> DEFINE q1 == [m EXCEPT !.nonEmpty = a]
             q2 == [q1 EXCEPT !.full = f]
             r1 == [w EXCEPT !.probe.nonEmpty = Max({@, page})]
             r2 == [r1 EXCEPT !.probe.full = Max({@, page})]
  <2>4. j = r2
    BY Zenon
  <2>5. r1 = [w EXCEPT !.probe = q1]
    BY <1>4, <1>5 DEF Shape
  <2> HIDE DEF a, r1, j
  <2>6. ProbeShape(q1) /\ q1.on = m.on /\ q1.waiters = m.waiters /\ q1.full = m.full
    <3>1. q1 = ProbeWith(m, a, m.empty, m.step, m.limit, m.full)
      BY <1>4, WriteNonEmpty
    <3>2. m.empty \in Int /\ m.step \in Nat \ {0} /\ m.limit \in Int /\ m.full \in Int
      BY <1>4 DEF ProbeShape
    <3> HIDE DEF q1
    <3> QED BY <1>4, <2>3, <3>1, <3>2, ProbeWithShape
  <2> HIDE DEF q1
  <2>7. r1 = Asking(s, s.gate, q1, Yes, s.pending, s.flight)
    <3>1. r1 = Asking(w, s.gate, q1, Yes, s.pending, s.flight)
      BY <1>5, <2>5, WriteProbe
    <3> QED BY <1>3, <3>1, AskingTwice
  <2>8. Shape(r1) /\ r1.gate = s.gate /\ r1.probe = q1 /\ r1.tried = Yes /\ r1.pending = s.pending /\ r1.flight = s.flight
    BY <2>7, AskingShape, AskingGot
  <2>9. r2 = [r1 EXCEPT !.probe = q2]
    BY <2>6, <2>8 DEF Shape
  <2> HIDE DEF f, r2
  <2>10. ProbeShape(q2) /\ q2.on = q1.on /\ q2.waiters = q1.waiters
    <3>1. q2 = ProbeWith(q1, q1.nonEmpty, q1.empty, q1.step, q1.limit, f)
      BY <2>6, WriteFull
    <3>2. q1.nonEmpty \in Int /\ q1.empty \in Int /\ q1.step \in Nat \ {0} /\ q1.limit \in Int
      BY <2>6 DEF ProbeShape
    <3> HIDE DEF q2
    <3> QED BY <2>3, <2>6, <3>1, <3>2, ProbeWithShape
  <2> HIDE DEF q2
  <2>11. r2 = Asking(s, s.gate, q2, Yes, s.pending, s.flight)
    <3>1. r2 = Asking(r1, s.gate, q2, Yes, s.pending, s.flight)
      BY <2>8, <2>9, WriteProbe
    <3> QED BY <2>7, <3>1, AskingTwice
  <2>12. Whole(j, 0) /\ Eased(s, j)
    <3>1. q2.on /\ q2.waiters = OneMore(s.probe, d)
      BY <1>4, <1>6, <2>6, <2>10
    <3>2. Whole(r2, 0) /\ Eased(s, r2)
      BY <1>6, <2>10, <2>11, <3>1, JoinsSearch
    <3> QED BY <2>4, <3>2
  <2> QED BY <2>1, <2>2, <2>12 DEF t
<1>7. CASE ~p.on
  <2> DEFINE q == ProbeOf(Yes, page, m.empty, m.step, m.limit, page, m.waiters)
  <2>1. t = v
    <3> HIDE DEF j
    <3> QED BY <1>1, <1>7
  <2>2. p = NoProbe
    BY <1>7 DEF Searching
  <2>4. u = [w EXCEPT !.probe = q]
    BY <1>4, <1>5, StartFullIs
  <2>5. ProbeShape(q) /\ q.on = Yes /\ q.nonEmpty = page /\ q.empty = m.empty /\ q.waiters = m.waiters
    <3>1. /\ Yes \in BOOLEAN /\ m.empty \in Int /\ m.limit \in Int /\ m.step \in Nat \ {0}
          /\ m.waiters \in [Demands -> Nat]
      BY <1>4 DEF Yes, ProbeShape
    <3>2. page \in Int
      BY ONLY <1>0
    <3> HIDE DEF m
    <3> DEFINE b == m.empty
               c == m.step
               l == m.limit
               x == m.waiters
    <3>3. Yes \in BOOLEAN /\ b \in Int /\ l \in Int /\ c \in Nat \ {0} /\ x \in [Demands -> Nat]
      BY <3>1
    <3> HIDE DEF b, c, l, x
    <3> DEFINE o == Yes
    <3>4. o \in BOOLEAN /\ page \in Int /\ b \in Int /\ c \in Nat \ {0} /\ l \in Int /\ x \in [Demands -> Nat]
      BY <3>2, <3>3
    <3> HIDE DEF o
    <3>5. LET z == ProbeOf(o, page, b, c, l, page, x)
          IN /\ ProbeShape(z) /\ z.on = o /\ z.nonEmpty = page /\ z.empty = b /\ z.waiters = x
             /\ z.step = c /\ z.limit = l /\ z.full = page
      BY ONLY <3>4, ProbeOfIs
    <3> QED BY <3>5 DEF b, c, l, x, o
  <2> HIDE DEF q, u
  <2>6. u = Asking(s, s.gate, q, Yes, s.pending, s.flight)
    <3>1. u = Asking(w, s.gate, q, Yes, s.pending, s.flight)
      BY <1>5, <2>4, WriteProbe
    <3> QED BY <1>3, <3>1, AskingTwice
  <2>7. q.on /\ Narrowed(q) /\ q.nonEmpty >= 0
    <3>1. NoProbe.empty = -1
      BY DEF NoProbe
    <3> QED BY <1>4, <2>2, <2>5, <3>1 DEF Narrowed, Yes
  <2> DEFINE x == Asking(s, s.gate, q, Yes, s.pending, s.flight)
  <2>8. Whole(probeOldestBoundary(x), 0) /\ Eased(s, probeOldestBoundary(x))
    BY <1>4, <1>7, <2>5, <2>7, StartsSearch
  <2>9. v = probeOldestBoundary(x)
    BY <2>6 DEF v
  <2> QED BY <2>1, <2>8, <2>9 DEF t
<1> QED BY <1>6, <1>7
-----------------------------------------------------------------------------
(* Replies.                                                                *)

\* t has the requests and the books of s.
Same(s, t) ==
    Typed(t) /\ t.gate = s.gate /\ t.probe = s.probe /\ t.pending = s.pending /\ t.flight = s.flight

LEMMA PlacedSame ==
    ASSUME NEW s, NEW t, Placed(s, t)
    PROVE  Same(s, t)
BY DEF Placed, Same

LEMMA SameAsked ==
    ASSUME NEW s, NEW t, Asked(s), Same(s, t)
    PROVE  Asked(t) /\ Eased(s, t)
<1>1. Asked(t)
  BY DEF Same, Asked
<1>2. \A d \in Demands : t.pending[d] = s.pending[d] /\ s.pending[d] \in Int
  BY DEF Same, Asked
<1>3. Eased(s, t)
  BY <1>2 DEF Eased
<1> QED BY <1>1, <1>3

LEMMA SameSearching ==
    ASSUME NEW s, NEW t, Searching(s), Same(s, t)
    PROVE  Searching(t)
<1>1. t.probe = s.probe /\ t.flight = s.flight
  BY DEF Same
<1> QED BY <1>1 DEF Searching, Quiet

LEMMA SameLoose ==
    ASSUME NEW s, NEW t, NEW e, Loose(s, e), Same(s, t)
    PROVE  Loose(t, e) /\ Eased(s, t)
<1>1. Asked(t) /\ Eased(s, t)
  BY SameAsked DEF Loose
<1>2. Gating(t)
  BY DEF Loose, Gating, Same
<1>3. Balanced(t, e)
  BY DEF Loose, Balanced, Same
<1> QED BY <1>1, <1>2, <1>3 DEF Loose

LEMMA SameAnswering ==
    ASSUME NEW s, NEW t, Answering(s), Same(s, t)
    PROVE  Answering(t) /\ Eased(s, t)
<1>1. Asked(t) /\ Eased(s, t)
  BY SameAsked DEF Answering
<1>2. Balanced(t, 0)
  BY DEF Answering, Balanced, Same
<1>3. Searching(t)
  BY SameSearching DEF Answering
<1>4. \A f \in t.flight : ~f.gated
  BY DEF Answering, Same
<1> QED BY <1>1, <1>2, <1>3, <1>4 DEF Answering

\* What is known of the source when the reply to f is taken off.
Rest(s, f) ==
    IF f.gated THEN Answering(s)
    ELSE Loose(s, f.d) /\ IF f.kind \in Search THEN Quiet(s) ELSE Searching(s)

\* finished: the demand gets the call it was owed.
LEMMA FinishedWhole ==
    ASSUME NEW s, NEW d \in Demands, Loose(s, d), Searching(s)
    PROVE  Whole(finished(s, d), 0) /\ Eased(s, finished(s, d))
<1> DEFINE t == finished(s, d)
<1>1. Loose(t, 0) /\ Eased(s, t) /\ t.probe = s.probe /\ t.flight = s.flight
  BY FinishedIs
<1> HIDE DEF t
<1>2. Searching(t)
  BY <1>1, SearchingStays
<1> QED BY <1>1, <1>2 DEF Whole, t

\* What was placed, its demand is told.
LEMMA DoneWhole ==
    ASSUME NEW s, NEW f, Rest(s, f), f.d \in Demands, f.kind \notin Search, NEW t, Same(s, t)
    PROVE  Whole(done(t, f), 0) /\ Eased(s, done(t, f))
<1> DEFINE u == done(t, f)
<1>1. u = IF f.gated THEN finishBoundaryRequest(t) ELSE finished(t, f.d)
  BY DEF done
<1> HIDE DEF u
<1>2. CASE f.gated
  <2>1. Answering(s)
    BY <1>2 DEF Rest
  <2>2. Answering(t) /\ Eased(s, t)
    BY <2>1, SameAnswering
  <2>3. Whole(u, 0) /\ Eased(t, u)
    BY <1>1, <1>2, <2>2, FinishGate
  <2>4. Eased(s, u)
    BY <2>1, <2>2, <2>3, EasedTrans DEF Whole, Loose, Answering
  <2> QED BY <2>3, <2>4 DEF u
<1>3. CASE ~f.gated
  <2>1. Loose(s, f.d) /\ Searching(s)
    BY <1>3 DEF Rest
  <2>2. Loose(t, f.d) /\ Eased(s, t) /\ Searching(t)
    BY <2>1, SameLoose, SameSearching
  <2>3. Whole(u, 0) /\ Eased(t, u)
    BY <1>1, <1>3, <2>2, FinishedWhole
  <2>4. Eased(s, u)
    BY <2>1, <2>2, <2>3, EasedTrans DEF Whole, Loose
  <2> QED BY <2>3, <2>4 DEF u
<1> QED BY <1>2, <1>3

LEMMA RestTyped ==
    ASSUME NEW s, NEW f, Rest(s, f)
    PROVE  Typed(s) /\ Asked(s) /\ Same(s, s)
<1>1. Asked(s)
  BY DEF Rest, Answering, Loose
<1> QED BY <1>1 DEF Asked, Same

\* cursorAnswered keeps the books.
LEMMA CursorWhole ==
    ASSUME NEW s, NEW f, Rest(s, f), Request(f), f.kind \in {"after", "before"}, NEW ok \in BOOLEAN, NEW r,
           r.ids \in Seq(Nat)
    PROVE  Whole(cursorAnswered(s, f, ok, r), 0) /\ Eased(s, cursorAnswered(s, f, ok, r))
<1> DEFINE t == IF ~ok THEN s ELSE IF f.kind = "after" THEN publishAfter(s, f.at, r) ELSE publishBefore(s, f.at, r)
<1>1. cursorAnswered(s, f, ok, r) = done(t, f)
  BY DEF cursorAnswered
<1>2. Same(s, publishAfter(s, f.at, r)) /\ Same(s, publishBefore(s, f.at, r)) /\ Same(s, s)
  BY RestTyped, AfterPlaces, BeforePlaces, PlacedSame
<1>3. Same(s, t)
  BY <1>2
<1> HIDE DEF t
<1>4. f.d \in Demands /\ f.kind \notin Search
  BY DEF Request, Listed, Search
<1> QED BY <1>1, <1>3, <1>4, DoneWhole

\* growAnswered keeps the books.
LEMMA GrowWhole ==
    ASSUME NEW s, NEW f, Rest(s, f), Request(f), f.kind \in {"growAfter", "growBefore"}, NEW ok \in BOOLEAN, NEW r,
           r.ids \in Seq(Nat)
    PROVE  Whole(growAnswered(s, f, ok, r), 0) /\ Eased(s, growAnswered(s, f, ok, r))
<1> DEFINE t == IF ok THEN growWindow(s, f, r) ELSE s
<1>1. f.d \in Demands /\ f.kind \notin Search /\ ~f.gated
  BY DEF Request, Listed, Search
<1>2. growAnswered(s, f, ok, r) = done(t, f)
  BY <1>1 DEF growAnswered, done
<1>3. Same(s, growWindow(s, f, r)) /\ Same(s, s)
  BY RestTyped, GrowPlaces, PlacedSame
<1>4. Same(s, t)
  BY <1>3
<1> HIDE DEF t
<1> QED BY <1>1, <1>2, <1>4, DoneWhole

\* A page of known length is placed, or ends the channel.
LEMMA TailPlaces ==
    ASSUME NEW s, Typed(s), NEW ids \in Seq(Nat)
    PROVE  /\ Same(s, placePage(ensureMinimumRootCount(s, Len(ids)), 0, ids))
           /\ Same(s, placePage(s, 0, ids)) /\ Same(s, reconcileRootCount(s, 0)) /\ Same(s, s)
<1> DEFINE t == ensureMinimumRootCount(s, Len(ids))
           u == placePage(t, 0, ids)
<1>1. Len(ids) \in Int /\ 0 \in Nat
  BY LenProperties
<1>2. Placed(s, t)
  BY <1>1, EnsurePlaces
<1> HIDE DEF t
<1>3. Placed(t, u)
  BY <1>1, <1>2, PagePlaces DEF Placed
<1> HIDE DEF u
<1>4. Placed(s, u)
  BY <1>2, <1>3, PlacedTrans
<1>5. Placed(s, placePage(s, 0, ids)) /\ Placed(s, reconcileRootCount(s, 0))
  BY <1>1, PagePlaces, ReconcilePlaces
<1>6. Same(s, u)
  BY <1>4, PlacedSame
<1>7. Same(s, placePage(s, 0, ids)) /\ Same(s, reconcileRootCount(s, 0))
  BY <1>5, PlacedSame
<1>8. Same(s, s)
  BY DEF Same
<1> QED BY <1>6, <1>7, <1>8 DEF t, u

\* tailAnswered keeps the books.
LEMMA TailWhole ==
    ASSUME NEW s, NEW f, Rest(s, f), Request(f), f.kind = "tail", NEW ok \in BOOLEAN, NEW r,
           r.ids \in Seq(Nat)
    PROVE  Whole(tailAnswered(s, f, ok, r), 0) /\ Eased(s, tailAnswered(s, f, ok, r))
<1> DEFINE t == IF ~ok THEN s
                ELSE IF r.ids = <<>> THEN reconcileRootCount(s, 0)
                ELSE placePage(ensureMinimumRootCount(s, Len(r.ids)), 0, r.ids)
<1>1. f.d \in Demands /\ f.kind \notin Search
  BY DEF Request, Listed, Search
<1>2. tailAnswered(s, f, ok, r) = done(t, f)
  BY DEF tailAnswered
<1>3. Same(s, t)
  BY RestTyped, TailPlaces
<1> HIDE DEF t
<1> QED BY <1>1, <1>2, <1>3, DoneWhole

\* validateAnswered keeps the books.
LEMMA ValidateWhole ==
    ASSUME NEW s, NEW f, Rest(s, f), Request(f), f.kind = "validate", NEW ok \in BOOLEAN, NEW r,
           r.ids \in Seq(Nat)
    PROVE  Whole(validateAnswered(s, f, ok, r), 0) /\ Eased(s, validateAnswered(s, f, ok, r))
<1> DEFINE t == validateAnswered(s, f, ok, r)
<1>1. t = IF ~ok THEN s ELSE IF r.ids = <<>> THEN reconcileRootCount(s, 0) ELSE placePage(s, 0, r.ids)
  BY DEF validateAnswered
<1>2. f.d = 0 /\ f.kind \notin Search /\ ~f.gated
  BY DEF Request, Listed, Search
<1>3. Loose(s, 0) /\ Searching(s)
  BY <1>2 DEF Rest
<1> HIDE DEF t
<1>4. Same(s, t)
  BY <1>1, RestTyped, TailPlaces
<1>5. Loose(t, 0) /\ Eased(s, t) /\ Searching(t)
  BY <1>3, <1>4, SameLoose, SameSearching
<1> QED BY <1>5 DEF Whole, t

\* The reply to a jump keeps the books.
LEMMA AroundWhole ==
    ASSUME NEW s, NEW f, Rest(s, f), Request(f), f.kind = "around", NEW ok \in BOOLEAN, NEW r,
           r.ids \in Seq(Nat), NEW guess \in Int
    PROVE  LET t == IF ok THEN adoptNavigationContext(s, f.at, r, guess) ELSE s IN Whole(t, 0) /\ Eased(s, t)
<1> DEFINE a == adoptNavigationContext(s, f.at, r, guess)
           t == IF ok THEN a ELSE s
<1>1. f.d = 0 /\ f.kind \notin Search /\ ~f.gated
  BY DEF Request, Listed, Search
<1>2. Loose(s, 0) /\ Searching(s)
  BY <1>1 DEF Rest
<1>3. Same(s, a) /\ Same(s, s)
  BY RestTyped, AdoptPlaces, PlacedSame
<1> HIDE DEF a
<1>4. Same(s, t)
  BY <1>3
<1> HIDE DEF t
<1>5. Loose(t, 0) /\ Eased(s, t) /\ Searching(t)
  BY <1>2, <1>4, SameLoose, SameSearching
<1> QED BY <1>5 DEF Whole, t, a

\* pageAnswered keeps the books, whether the page ends the channel, starts a search or neither.
LEMMA PageWhole ==
    ASSUME NEW s, NEW f, Rest(s, f), Request(f), f.kind = "page", NEW ok \in BOOLEAN, NEW r,
           r.ids \in Seq(Nat)
    PROVE  Whole(pageAnswered(s, f, ok, r), 0) /\ Eased(s, pageAnswered(s, f, ok, r))
<1> DEFINE placed == placePage(s, f.at, r.ids)
           t == pageAnswered(s, f, ok, r)
           x1 == finished(s, f.d)
           x2 == resolveOldestBoundary(s, f.at, f.d)
           x3 == resolveOldestBoundaryFromNonEmpty(placed, f.at, f.d)
           x4 == finished(placed, f.d)
<1>1. t = IF ~ok THEN x1
          ELSE IF r.ids = <<>> THEN x2
          ELSE IF f.edge /\ Len(r.ids) = PageSize /\ ~placed.tried THEN x3
          ELSE x4
  BY Zenon DEF pageAnswered
<1>2. f.d \in Demands /\ f.kind \notin Search /\ ~f.gated /\ f.at \in Nat
  BY DEF Request, Listed, Search
<1>3. Loose(s, f.d) /\ Searching(s) /\ Typed(s) /\ Asked(s)
  BY <1>2, RestTyped DEF Rest
<1>4. Placed(s, placed)
  BY <1>2, <1>3, PagePlaces
<1> HIDE DEF placed
<1>5. Loose(placed, f.d) /\ Eased(s, placed) /\ Searching(placed)
  BY <1>3, <1>4, PlacedSame, SameLoose, SameSearching
<1>6. Whole(x1, 0) /\ Eased(s, x1)
  BY <1>2, <1>3, FinishedWhole
<1>7. Whole(x2, 0) /\ Eased(s, x2)
  BY <1>2, <1>3, ResolvedWhole
<1>8. Whole(x3, 0) /\ Eased(placed, x3)
  BY <1>2, <1>5, ResolvedFullWhole
<1>9. Whole(x4, 0) /\ Eased(placed, x4)
  BY <1>2, <1>5, FinishedWhole
<1> HIDE DEF t, x1, x2, x3, x4
<1>10. Eased(s, x3) /\ Eased(s, x4)
  BY <1>3, <1>5, <1>8, <1>9, EasedTrans DEF Whole, Loose
<1> QED BY <1>1, <1>6, <1>7, <1>8, <1>9, <1>10 DEF t

LEMMA WriteBefore ==
    ASSUME NEW s, Typed(s), NEW x
    PROVE  LET t == [s EXCEPT !.before = x] IN Same(s, t) /\ t.slots = s.slots
BY DEF Typed, Shape, Same

LEMMA WriteMore ==
    ASSUME NEW s, Typed(s), NEW x
    PROVE  LET t == [s EXCEPT !.more = x] IN Same(s, t) /\ t.slots = s.slots
BY DEF Typed, Shape, Same

LEMMA SameTrans ==
    ASSUME NEW s, NEW t, NEW u, Same(s, t), Same(t, u)
    PROVE  Same(s, u)
BY DEF Same

\* prependAnswered keeps the books.
LEMMA PrependWhole ==
    ASSUME NEW s, NEW f, Rest(s, f), Request(f), f.kind = "prepend", NEW ok \in BOOLEAN, NEW r,
           r.ids \in Seq(Nat)
    PROVE  Whole(prependAnswered(s, f, ok, r), 0) /\ Eased(s, prependAnswered(s, f, ok, r))
<1> DEFINE new == Without(r.ids, Range(s.slots))
           more == IF ok THEN r.prev # 0 /\ new # <<>> ELSE s.more
           b == [s EXCEPT !.before = FALSE]
           t0 == [b EXCEPT !.more = more]
           slots == new \o t0.slots
           t1 == [t0 EXCEPT !.slots = slots]
           t == prependAnswered(s, f, ok, r)
<1>1. f.d = 0 /\ f.kind \notin Search /\ ~f.gated
  BY DEF Request, Listed, Search
<1>2. Loose(s, 0) /\ Searching(s) /\ Typed(s)
  BY <1>1, RestTyped DEF Rest
<1>3. new \in Seq(Nat)
  BY WithoutMeans
<1>4. t = IF ok THEN t1 ELSE t0
  <2>1. prependAnswered(s, f, ok, r) =
          IF ok THEN [[s EXCEPT !.before = FALSE, !.more = more] EXCEPT !.slots = new \o @]
          ELSE [s EXCEPT !.before = FALSE, !.more = more]
    <3> DEFINE given == IF ok THEN r.prev # 0 /\ new # <<>> ELSE s.more
               u == [s EXCEPT !.before = FALSE, !.more = IF ok THEN r.prev # 0 /\ new # <<>> ELSE @]
               v == [s EXCEPT !.before = FALSE, !.more = more]
    <3>1. prependAnswered(s, f, ok, r) = IF ok THEN [u EXCEPT !.slots = new \o @] ELSE u
      BY Zenon DEF prependAnswered
    <3>2. u = v
      <4> HIDE DEF new
      <4> QED BY <1>2 DEF Typed, Shape
    <3> HIDE DEF u, v
    <3> QED BY <3>1, <3>2 DEF v
  <2> HIDE DEF new, more
  <2> QED BY <1>2, <2>1 DEF Typed, Shape
<1> HIDE DEF t, new, more
<1>5. Same(s, b) /\ b.slots = s.slots
  BY <1>2, WriteBefore
<1> HIDE DEF b
<1>6. Same(b, t0) /\ t0.slots = s.slots
  BY <1>5, WriteMore DEF Same
<1> HIDE DEF t0
<1>7. slots \in Seq(Nat)
  <2>1. s.slots \in Seq(Nat)
    BY <1>2 DEF Typed
  <2> QED BY <1>3, <1>6, <2>1, JoinMeans
<1> HIDE DEF slots
<1>8. Same(t0, t1)
  <2>1. Typed(t0)
    BY <1>6 DEF Same
  <2>2. t1 = With(t0, slots, t0.adjustment, t0.provisional, t0.window)
    BY <2>1, WriteSlots DEF Typed
  <2> HIDE DEF t1
  <2>3. Placed(t0, t1)
    BY <1>7, <2>1, <2>2, WithPlaces DEF Typed
  <2> QED BY <2>3, PlacedSame
<1> HIDE DEF t1
<1>9. Same(s, t)
  BY <1>4, <1>5, <1>6, <1>8, SameTrans
<1>10. Loose(t, 0) /\ Eased(s, t) /\ Searching(t)
  BY <1>2, <1>9, SameLoose, SameSearching
<1> QED BY <1>10 DEF Whole, t
-----------------------------------------------------------------------------
(* Replies to a search.                                                    *)

\* The search that the reply to f belongs to.
Carried(s, f) ==
    /\ s.probe.on /\ Waited(s.probe)
    /\ JoinedIn(s.probe) \/ (Narrowed(s.probe) /\ Within(s.probe, f))

\* Bounds are written, and the search goes on.
LEMMA BoundsWhole ==
    ASSUME NEW s, NEW e, Loose(s, e), Quiet(s), s.probe.on, Waited(s.probe), NEW q, ProbeShape(q),
           q.on, q.waiters = s.probe.waiters
    PROVE  LET t == [s EXCEPT !.probe = q]
           IN /\ Loose(t, e) /\ Quiet(t) /\ Eased(s, t) /\ t.probe = q /\ t.probe.on /\ Waited(t.probe)
              /\ JoinedIn(q) <=> JoinedIn(s.probe)
              /\ (q.nonEmpty >= 0 \/ q.empty >= 0) /\ (JoinedIn(q) \/ Narrowed(q)) =>
                    Whole(probeOldestBoundary(t), e) /\ Eased(s, probeOldestBoundary(t))
<1> DEFINE t == [s EXCEPT !.probe = q]
           u == probeOldestBoundary(t)
<1>1. Loose(t, e) /\ Eased(s, t) /\ t.probe = q /\ t.flight = s.flight
  BY SetProbe
<1> HIDE DEF t
<1>2. Quiet(t) /\ t.probe.on /\ Waited(t.probe) /\ (JoinedIn(q) <=> JoinedIn(s.probe))
  BY <1>1, SameWaiters DEF Quiet
<1>3. ASSUME q.nonEmpty >= 0 \/ q.empty >= 0, JoinedIn(q) \/ Narrowed(q)
      PROVE  Whole(u, e) /\ Eased(s, u)
  <2>1. Whole(u, e) /\ Eased(t, u)
    BY <1>1, <1>2, <1>3, ProbeGoesOn
  <2> HIDE DEF u
  <2>2. Eased(s, u)
    BY <1>1, <2>1, EasedTrans DEF Whole, Loose
  <2> QED BY <2>1, <2>2
<1> QED BY <1>1, <1>2, <1>3 DEF t, u

LEMMA PageWritten ==
    ASSUME NEW at \in Nat
    PROVE  at \div PageSize \in Nat
<1>1. PageSize \in Nat \ {0}
  BY Numbers DEF NumbersFact
<1> QED BY <1>1

\* initialAnswered keeps the books and the search.
LEMMA InitialWhole ==
    ASSUME NEW s, NEW f, Rest(s, f), Request(f), f.kind = "initial", Carried(s, f), NEW ok \in BOOLEAN, NEW r,
           r.ids \in Seq(Nat)
    PROVE  Whole(initialAnswered(s, f, ok, r), 0) /\ Eased(s, initialAnswered(s, f, ok, r))
<1> DEFINE p == s.probe
           page == f.at \div PageSize
           qa == [p EXCEPT !.nonEmpty = page]
           qb == [p EXCEPT !.empty = page]
           ta == [s EXCEPT !.probe = qa]
           tb == [s EXCEPT !.probe = qb]
           x1 == finishOldestBoundaryProbe(s)
           x2 == probeOldestBoundary(ta)
           x3 == probeOldestBoundary(tb)
           t == initialAnswered(s, f, ok, r)
<1>1. f.d = 0 /\ f.kind \in Search /\ ~f.gated /\ f.at \in Nat
  BY DEF Request, Listed, Search
<1>2. Loose(s, 0) /\ Quiet(s) /\ p.on /\ Waited(p) /\ Shape(s) /\ ProbeShape(p)
  BY <1>1 DEF Rest, Carried, Loose, Asked, Typed
<1>3. page \in Nat /\ p.nonEmpty \in Int /\ p.empty \in Int
  BY <1>1, <1>2, PageWritten DEF ProbeShape
<1>4. JoinedIn(p) \/ (Narrowed(p) /\ (p.empty >= 0 => page < p.empty) /\ (p.nonEmpty >= 0 => p.nonEmpty < page))
  BY DEF Carried, Within
<1>5. t = IF ~ok THEN x1 ELSE IF r.ids # <<>> THEN x2 ELSE x3
  <2> DEFINE y2 == [s EXCEPT !.probe.nonEmpty = page]
             y3 == [s EXCEPT !.probe.empty = page]
  <2>1. t = IF ~p.on THEN s ELSE IF ~ok THEN x1 ELSE IF r.ids # <<>> THEN probeOldestBoundary(y2) ELSE probeOldestBoundary(y3)
    BY Zenon DEF initialAnswered
  <2>2. y2 = ta
    <3> HIDE DEF page
    <3> QED BY <1>2 DEF Shape
  <2>3. y3 = tb
    <3> HIDE DEF page
    <3> QED BY <1>2 DEF Shape
  <2> HIDE DEF t, x1, y2, y3, ta, tb
  <2> QED BY <1>2, <2>1, <2>2, <2>3
<1> HIDE DEF p, page
<1>6. Whole(x1, 0) /\ Eased(s, x1)
  BY <1>2, FinishSearch
<1>7. Whole(x2, 0) /\ Eased(s, x2)
  <2>1. ProbeShape(qa) /\ qa.on = p.on /\ qa.waiters = p.waiters /\ qa.nonEmpty = page /\ qa.empty = p.empty
    <3>1. qa = ProbeWith(p, page, p.empty, p.step, p.limit, p.full)
      BY <1>2, WriteNonEmpty
    <3>2. page \in Int /\ p.empty \in Int /\ p.step \in Nat \ {0} /\ p.limit \in Int /\ p.full \in Int
      BY <1>2, <1>3 DEF ProbeShape
    <3> DEFINE pw == ProbeWith(p, page, p.empty, p.step, p.limit, p.full)
    <3>3. ProbeShape(p)
      BY <1>2
    <3>4. ProbeShape(pw) /\ pw.on = p.on /\ pw.waiters = p.waiters /\ pw.nonEmpty = page /\ pw.empty = p.empty
      BY <3>2, <3>3, ProbeWithShape
    <3> HIDE DEF pw, qa
    <3>5. qa = pw
      BY <3>1 DEF pw
    <3> QED BY <3>4, <3>5
  <2> HIDE DEF qa
  <2>2. qa.nonEmpty >= 0 /\ (JoinedIn(p) \/ Narrowed(qa))
    BY <1>3, <1>4, <2>1 DEF Narrowed
  <2>3. qa.on /\ qa.waiters = s.probe.waiters /\ s.probe.on /\ Waited(s.probe)
    BY <1>2, <2>1 DEF p
  <2>4. (JoinedIn(qa) <=> JoinedIn(p))
    BY <2>1, SameWaiters
  <2> QED BY <1>2, <2>1, <2>2, <2>3, <2>4, BoundsWhole
<1>8. Whole(x3, 0) /\ Eased(s, x3)
  <2>1. ProbeShape(qb) /\ qb.on = p.on /\ qb.waiters = p.waiters /\ qb.nonEmpty = p.nonEmpty /\ qb.empty = page
    <3>1. qb = ProbeWith(p, p.nonEmpty, page, p.step, p.limit, p.full)
      BY <1>2, WriteEmpty
    <3>2. page \in Int /\ p.nonEmpty \in Int /\ p.step \in Nat \ {0} /\ p.limit \in Int /\ p.full \in Int
      BY <1>2, <1>3 DEF ProbeShape
    <3> DEFINE pw == ProbeWith(p, p.nonEmpty, page, p.step, p.limit, p.full)
    <3>3. ProbeShape(p)
      BY <1>2
    <3>4. ProbeShape(pw) /\ pw.on = p.on /\ pw.waiters = p.waiters /\ pw.nonEmpty = p.nonEmpty /\ pw.empty = page
      BY <3>2, <3>3, ProbeWithShape
    <3> HIDE DEF pw, qb
    <3>5. qb = pw
      BY <3>1 DEF pw
    <3> QED BY <3>4, <3>5
  <2> HIDE DEF qb
  <2>2. qb.empty >= 0 /\ (JoinedIn(p) \/ Narrowed(qb))
    BY <1>3, <1>4, <2>1 DEF Narrowed
  <2>3. qb.on /\ qb.waiters = s.probe.waiters /\ s.probe.on /\ Waited(s.probe)
    BY <1>2, <2>1 DEF p
  <2>4. (JoinedIn(qb) <=> JoinedIn(p))
    BY <2>1, SameWaiters
  <2> QED BY <1>2, <2>1, <2>2, <2>3, <2>4, BoundsWhole
<1> HIDE DEF t, x1, x2, x3
<1> QED BY <1>5, <1>6, <1>7, <1>8 DEF t

\* existsAnswered keeps the books and the search.
LEMMA ExistsWhole ==
    ASSUME NEW s, NEW f, Rest(s, f), Request(f), f.kind = "exists", Carried(s, f), NEW ok \in BOOLEAN, NEW r,
           r.ids \in Seq(Nat)
    PROVE  Whole(existsAnswered(s, f, ok, r), 0) /\ Eased(s, existsAnswered(s, f, ok, r))
<1> DEFINE p == s.probe
           page == f.at \div PageSize
           a == Max({p.nonEmpty, page})
           least == Min({p.empty, page})
           b == IF p.empty < 0 THEN page ELSE least
           qa == [p EXCEPT !.nonEmpty = a]
           qb == [p EXCEPT !.empty = b]
           ta == [s EXCEPT !.probe = qa]
           tb == [s EXCEPT !.probe = qb]
           x1 == finishOldestBoundaryProbe(s)
           x2 == probeOldestBoundary(ta)
           x3 == probeOldestBoundary(tb)
           t == existsAnswered(s, f, ok, r)
<1>1. f.d = 0 /\ f.kind \in Search /\ ~f.gated /\ f.at \in Nat
  BY DEF Request, Listed, Search
<1>2. Loose(s, 0) /\ Quiet(s) /\ p.on /\ Waited(p) /\ Shape(s) /\ ProbeShape(p)
  BY <1>1 DEF Rest, Carried, Loose, Asked, Typed
<1>3. page \in Nat /\ p.nonEmpty \in Int /\ p.empty \in Int
  BY <1>1, <1>2, PageWritten DEF ProbeShape
<1>4. JoinedIn(p) \/ (Narrowed(p) /\ (p.empty >= 0 => page < p.empty) /\ (p.nonEmpty >= 0 => p.nonEmpty < page))
  BY DEF Carried, Within
<1>5. t = IF ~ok THEN x1 ELSE IF r.ids # <<>> THEN x2 ELSE x3
  <2> DEFINE y2 == [s EXCEPT !.probe.nonEmpty = Max({@, page})]
             y3 == [s EXCEPT !.probe.empty = IF @ < 0 THEN page ELSE Min({@, page})]
  <2>1. t = IF ~p.on THEN s ELSE IF ~ok THEN x1 ELSE IF r.ids # <<>> THEN probeOldestBoundary(y2) ELSE probeOldestBoundary(y3)
    BY Zenon DEF existsAnswered
  <2>2. y2 = ta
    <3> HIDE DEF page
    <3> QED BY <1>2 DEF Shape
  <2>3. y3 = tb
    <3> HIDE DEF page
    <3> QED BY <1>2 DEF Shape
  <2> HIDE DEF t, x1, y2, y3, ta, tb
  <2> QED BY <1>2, <2>1, <2>2, <2>3
<1> HIDE DEF p, page
<1>6. a \in Nat /\ a = IF p.nonEmpty >= page THEN p.nonEmpty ELSE page
  <2>1. a = IF p.nonEmpty >= page THEN p.nonEmpty ELSE page
    BY <1>3, MaxTwo
  <2> QED BY <1>3, <2>1
<1>7. b \in Nat /\ b = IF p.empty < 0 THEN page ELSE IF p.empty <= page THEN p.empty ELSE page
  <2>1. least = IF p.empty <= page THEN p.empty ELSE page
    BY <1>3, MinTwo
  <2> QED BY <1>3, <2>1
<1> HIDE DEF a, b
<1>8. Whole(x1, 0) /\ Eased(s, x1)
  BY <1>2, FinishSearch
<1>9. Whole(x2, 0) /\ Eased(s, x2)
  <2>1. ProbeShape(qa) /\ qa.on = p.on /\ qa.waiters = p.waiters /\ qa.nonEmpty = a /\ qa.empty = p.empty
    <3>1. qa = ProbeWith(p, a, p.empty, p.step, p.limit, p.full)
      BY <1>2, WriteNonEmpty
    <3>2. a \in Int /\ p.empty \in Int /\ p.step \in Nat \ {0} /\ p.limit \in Int /\ p.full \in Int
      BY <1>2, <1>6 DEF ProbeShape
    <3> DEFINE pw == ProbeWith(p, a, p.empty, p.step, p.limit, p.full)
    <3>3. ProbeShape(p)
      BY <1>2
    <3>4. ProbeShape(pw) /\ pw.on = p.on /\ pw.waiters = p.waiters /\ pw.nonEmpty = a /\ pw.empty = p.empty
      BY <3>2, <3>3, ProbeWithShape
    <3> HIDE DEF pw, qa
    <3>5. qa = pw
      BY <3>1 DEF pw
    <3> QED BY <3>4, <3>5
  <2> HIDE DEF qa
  <2>2. qa.nonEmpty >= 0 /\ (JoinedIn(p) \/ Narrowed(qa))
    BY <1>3, <1>4, <1>6, <2>1 DEF Narrowed
  <2>3. qa.on /\ qa.waiters = s.probe.waiters /\ s.probe.on /\ Waited(s.probe)
    BY <1>2, <2>1 DEF p
  <2>4. (JoinedIn(qa) <=> JoinedIn(p))
    BY <2>1, SameWaiters
  <2> QED BY <1>2, <2>1, <2>2, <2>3, <2>4, BoundsWhole
<1>10. Whole(x3, 0) /\ Eased(s, x3)
  <2>1. ProbeShape(qb) /\ qb.on = p.on /\ qb.waiters = p.waiters /\ qb.nonEmpty = p.nonEmpty /\ qb.empty = b
    <3>1. qb = ProbeWith(p, p.nonEmpty, b, p.step, p.limit, p.full)
      BY <1>2, WriteEmpty
    <3>2. b \in Int /\ p.nonEmpty \in Int /\ p.step \in Nat \ {0} /\ p.limit \in Int /\ p.full \in Int
      BY <1>2, <1>7 DEF ProbeShape
    <3> DEFINE pw == ProbeWith(p, p.nonEmpty, b, p.step, p.limit, p.full)
    <3>3. ProbeShape(p)
      BY <1>2
    <3>4. ProbeShape(pw) /\ pw.on = p.on /\ pw.waiters = p.waiters /\ pw.nonEmpty = p.nonEmpty /\ pw.empty = b
      BY <3>2, <3>3, ProbeWithShape
    <3> HIDE DEF pw, qb
    <3>5. qb = pw
      BY <3>1 DEF pw
    <3> QED BY <3>4, <3>5
  <2> HIDE DEF qb
  <2>2. qb.empty >= 0 /\ (JoinedIn(p) \/ Narrowed(qb))
    BY <1>3, <1>4, <1>7, <2>1 DEF Narrowed
  <2>3. qb.on /\ qb.waiters = s.probe.waiters /\ s.probe.on /\ Waited(s.probe)
    BY <1>2, <2>1 DEF p
  <2>4. (JoinedIn(qb) <=> JoinedIn(p))
    BY <2>1, SameWaiters
  <2> QED BY <1>2, <2>1, <2>2, <2>3, <2>4, BoundsWhole
<1> HIDE DEF t, x1, x2, x3
<1> QED BY <1>5, <1>8, <1>9, <1>10 DEF t

\* What an empty page takes back, and what a page beyond the expected end does.
TakenBack(s, b, a, f) == [s EXCEPT !.probe.empty = b, !.probe.nonEmpty = a, !.probe.full = f]
Unlimited(s) == [s EXCEPT !.probe.limit = -1, !.probe.step = 1]

LEMMA TakenBackIs ==
    ASSUME NEW s, Shape(s), ProbeShape(s.probe), NEW b \in Int, NEW a \in Int, NEW f \in Int
    PROVE  TakenBack(s, b, a, f) =
              [s EXCEPT !.probe = ProbeWith(s.probe, a, b, s.probe.step, s.probe.limit, f)]
<1> DEFINE p == s.probe
           q1 == [p EXCEPT !.empty = b]
           q2 == [q1 EXCEPT !.nonEmpty = a]
           q3 == [q2 EXCEPT !.full = f]
           q == ProbeWith(p, a, b, p.step, p.limit, f)
           r1 == [s EXCEPT !.probe.empty = b]
           r2 == [r1 EXCEPT !.probe.nonEmpty = a]
           r3 == [r2 EXCEPT !.probe.full = f]
<1>1. TakenBack(s, b, a, f) = r3
  BY Zenon DEF TakenBack
<1>2. q1 = ProbeWith(p, p.nonEmpty, b, p.step, p.limit, p.full)
  BY WriteEmpty
<1>3. r1 = [s EXCEPT !.probe = q1]
  BY DEF Shape
<1> HIDE DEF r1, q1
<1>4. r1 = Asking(s, s.gate, q1, s.tried, s.pending, s.flight)
  BY <1>3, WriteProbe
<1>5. Shape(r1) /\ r1.gate = s.gate /\ r1.probe = q1 /\ r1.tried = s.tried /\ r1.pending = s.pending
      /\ r1.flight = s.flight
  BY <1>4, AskingShape, AskingGot
<1>6. r2 = [r1 EXCEPT !.probe = q2]
  BY <1>5 DEF Shape
<1>7. q2 = ProbeWith(p, a, b, p.step, p.limit, p.full)
  BY <1>2 DEF ProbeWith
<1> HIDE DEF r2, q2
<1>8. r2 = Asking(s, s.gate, q2, s.tried, s.pending, s.flight)
  BY <1>4, <1>5, <1>6, WriteProbe, AskingTwice
<1>9. Shape(r2) /\ r2.gate = s.gate /\ r2.probe = q2 /\ r2.tried = s.tried /\ r2.pending = s.pending
      /\ r2.flight = s.flight
  BY <1>8, AskingShape, AskingGot
<1>10. r3 = [r2 EXCEPT !.probe = q3]
  BY <1>9 DEF Shape
<1>11. q3 = q
  BY <1>7 DEF ProbeWith
<1> HIDE DEF r3, q3
<1>12. r3 = Asking(s, s.gate, q3, s.tried, s.pending, s.flight)
  BY <1>8, <1>9, <1>10, WriteProbe, AskingTwice
<1> HIDE DEF q
<1> QED BY <1>1, <1>11, <1>12, WriteProbe DEF q

LEMMA UnlimitedIs ==
    ASSUME NEW s, Shape(s), ProbeShape(s.probe)
    PROVE  Unlimited(s) =
              [s EXCEPT !.probe = ProbeWith(s.probe, s.probe.nonEmpty, s.probe.empty, 1, -1, s.probe.full)]
<1> DEFINE p == s.probe
           q1 == [p EXCEPT !.limit = -1]
           q2 == [q1 EXCEPT !.step = 1]
           q == ProbeWith(p, p.nonEmpty, p.empty, 1, -1, p.full)
           r1 == [s EXCEPT !.probe.limit = -1]
           r2 == [r1 EXCEPT !.probe.step = 1]
<1>1. Unlimited(s) = r2
  BY Zenon DEF Unlimited
<1>2. q1 = ProbeWith(p, p.nonEmpty, p.empty, p.step, -1, p.full)
  BY WriteLimit
<1>3. r1 = [s EXCEPT !.probe = q1]
  BY DEF Shape
<1> HIDE DEF r1, q1
<1>4. r1 = Asking(s, s.gate, q1, s.tried, s.pending, s.flight)
  BY <1>3, WriteProbe
<1>5. Shape(r1) /\ r1.gate = s.gate /\ r1.probe = q1 /\ r1.tried = s.tried /\ r1.pending = s.pending
      /\ r1.flight = s.flight
  BY <1>4, AskingShape, AskingGot
<1>6. r2 = [r1 EXCEPT !.probe = q2]
  BY <1>5 DEF Shape
<1>7. q2 = q
  BY <1>2 DEF ProbeWith
<1> HIDE DEF r2, q2
<1>8. r2 = Asking(s, s.gate, q2, s.tried, s.pending, s.flight)
  BY <1>4, <1>5, <1>6, WriteProbe, AskingTwice
<1> HIDE DEF q
<1> QED BY <1>1, <1>7, <1>8, WriteProbe DEF q

\* emptyBoundaryPage keeps the books and the search.
LEMMA EmptyPageWhole ==
    ASSUME NEW s, NEW e, Loose(s, e), Quiet(s), s.probe.on, Waited(s.probe), NEW page \in Nat,
           JoinedIn(s.probe) \/ Narrowed(s.probe)
    PROVE  Whole(emptyBoundaryPage(s, page), e) /\ Eased(s, emptyBoundaryPage(s, page))
<1> DEFINE p == s.probe
           least == Min({p.empty, page})
           b == IF p.empty < 0 THEN page ELSE least
           a == IF p.nonEmpty >= page THEN -1 ELSE p.nonEmpty
           f == IF p.nonEmpty >= page THEN -1 ELSE p.full
           u == TakenBack(s, b, a, f)
           x1 == loadOldestBoundaryPage(u, a)
           x2 == probeOldestBoundary(u)
           t == emptyBoundaryPage(s, page)
<1>1. t = IF a >= 0 /\ b = a + 1 /\ f # a THEN x1 ELSE x2
  BY Zenon DEF emptyBoundaryPage, TakenBack
<1>2. /\ ProbeShape(p) /\ Shape(s) /\ p.nonEmpty \in Int /\ p.empty \in Int /\ p.full \in Int
      /\ p.step \in Nat \ {0} /\ p.limit \in Int
  BY DEF Loose, Asked, Typed, ProbeShape
<1>3. JoinedIn(p) \/ Narrowed(p)
  OBVIOUS
<1> DEFINE q == ProbeWith(p, a, b, p.step, p.limit, f)
<1> HIDE DEF p, t
<1>4. b \in Nat /\ b = IF p.empty < 0 THEN page ELSE IF p.empty <= page THEN p.empty ELSE page
  <2>1. least = IF p.empty <= page THEN p.empty ELSE page
    BY <1>2, MinTwo
  <2> HIDE DEF least
  <2> QED BY <1>2, <2>1
<1>5. a \in Int /\ f \in Int
  BY <1>2
<1>6. JoinedIn(p) \/ (a >= 0 => a < b)
  <2> HIDE DEF b
  <2> QED BY <1>2, <1>3, <1>4 DEF Narrowed
<1> HIDE DEF a, b, f
<1>7. u = [s EXCEPT !.probe = q]
  <2>1. b \in Int /\ Shape(s) /\ ProbeShape(s.probe)
    BY <1>2, <1>4 DEF p
  <2> QED BY <1>5, <2>1, TakenBackIs DEF p
<1>8. /\ ProbeShape(q) /\ q.on = p.on /\ q.waiters = p.waiters /\ q.nonEmpty = a /\ q.empty = b
  <2>1. b \in Int
    BY <1>4
  <2> HIDE DEF q
  <2> DEFINE pw == ProbeWith(p, a, b, p.step, p.limit, f)
  <2>2. ProbeShape(pw) /\ pw.on = p.on /\ pw.waiters = p.waiters /\ pw.nonEmpty = a /\ pw.empty = b
    BY <1>2, <1>5, <2>1, ProbeWithShape
  <2>3. q = pw
    BY DEF q
  <2> HIDE DEF pw
  <2> QED BY <2>2, <2>3
<1> HIDE DEF q, u
<1>9. q.on /\ q.waiters = s.probe.waiters /\ (JoinedIn(q) <=> JoinedIn(p))
  BY <1>8, SameWaiters DEF p
<1>10. JoinedIn(q) \/ Narrowed(q)
  BY <1>6, <1>8, <1>9 DEF Narrowed
<1>11. q.empty >= 0
  BY <1>4, <1>8
<1>12. /\ Loose(u, e) /\ Quiet(u) /\ Eased(s, u) /\ u.probe = q /\ u.probe.on /\ Waited(u.probe)
       /\ Whole(x2, e) /\ Eased(s, x2)
  BY <1>7, <1>8, <1>9, <1>10, <1>11, BoundsWhole
<1>13. ASSUME a >= 0, b = a + 1 PROVE Whole(x1, e) /\ Eased(s, x1)
  <2>1. a \in Nat /\ a < b
    BY <1>5, <1>13
  <2>2. JoinedIn(u.probe) \/ (Narrowed(u.probe) /\ (u.probe.empty >= 0 => a < u.probe.empty))
    BY <1>8, <1>10, <1>12, <2>1
  <2>3. Whole(x1, e) /\ Eased(u, x1)
    BY <1>12, <2>1, <2>2, LoadPage
  <2> HIDE DEF x1
  <2>4. Eased(s, x1)
    BY <1>12, <2>3, EasedTrans DEF Whole, Loose
  <2> QED BY <2>3, <2>4
<1> HIDE DEF x1, x2
<1> QED BY <1>1, <1>12, <1>13 DEF t

\* oldestPageAnswered keeps the books and the search.
LEMMA OldestWhole ==
    ASSUME NEW s, NEW f, Rest(s, f), Request(f), f.kind = "oldestPage", Carried(s, f), NEW ok \in BOOLEAN, NEW r,
           r.ids \in Seq(Nat)
    PROVE  Whole(oldestPageAnswered(s, f, ok, r), 0) /\ Eased(s, oldestPageAnswered(s, f, ok, r))
<1> DEFINE p == s.probe
           page == f.at
           a == Max({p.nonEmpty, page})
           q1 == [p EXCEPT !.nonEmpty = a]
           s1 == [s EXCEPT !.probe = q1]
           s2 == placePage(s1, page, r.ids)
           full == IF Len(r.ids) < PageSize THEN q1.full ELSE page
           q3 == [q1 EXCEPT !.full = full]
           placed == [s2 EXCEPT !.probe = q3]
           q4 == ProbeWith(q3, q3.nonEmpty, q3.empty, 1, -1, q3.full)
           beyond == p.empty < 0 /\ p.limit \in 0..page
           ended == reconcileRootCount(placed, (page + 1) * PageSize)
           x1 == finishOldestBoundaryProbe(s)
           x2 == emptyBoundaryPage(s, page)
           x3 == finishOldestBoundaryProbe(placed)
           x4 == finishOldestBoundaryProbe(ended)
           x5 == loadOldestBoundaryPage(placed, page + 1)
           x6 == probeOldestBoundary([placed EXCEPT !.probe = q4])
           x7 == probeOldestBoundary([placed EXCEPT !.probe = q3])
           t == oldestPageAnswered(s, f, ok, r)
<1>1. f.d = 0 /\ f.kind \in Search /\ ~f.gated /\ page \in Nat
  BY DEF Request, Listed, Search
<1>2. Loose(s, 0) /\ Quiet(s) /\ p.on /\ Waited(p) /\ Shape(s) /\ ProbeShape(p)
  BY <1>1 DEF Rest, Carried, Loose, Asked, Typed
<1>3. /\ p.nonEmpty \in Int /\ p.empty \in Int /\ p.step \in Nat \ {0} /\ p.limit \in Int /\ p.full \in Int
  BY <1>2 DEF ProbeShape
<1>4. JoinedIn(p) \/ (Narrowed(p) /\ (p.empty >= 0 => page < p.empty))
  BY DEF Carried, Within
<1>5. Whole(x1, 0) /\ Eased(s, x1)
  BY <1>2, FinishSearch
<1>6. Whole(x2, 0) /\ Eased(s, x2)
  BY <1>1, <1>2, <1>4, EmptyPageWhole
<1> HIDE DEF x1, x2
<1>7. a \in Nat /\ a = IF p.nonEmpty >= page THEN p.nonEmpty ELSE page
  <2> HIDE DEF page, p
  <2>1. a = IF p.nonEmpty >= page THEN p.nonEmpty ELSE page
    BY <1>1, <1>3, MaxTwo
  <2> QED BY <1>1, <1>3, <2>1
<1> HIDE DEF a
<1>8. ProbeShape(q1) /\ q1.on = p.on /\ q1.waiters = p.waiters /\ q1.nonEmpty = a /\ q1.empty = p.empty /\ q1.full = p.full
  <2> HIDE DEF p
  <2>1. q1 = ProbeWith(p, a, p.empty, p.step, p.limit, p.full)
    BY <1>2, WriteNonEmpty
  <2> DEFINE pw == ProbeWith(p, a, p.empty, p.step, p.limit, p.full)
  <2>2. ProbeShape(p) /\ a \in Int
    BY <1>2, <1>7
  <2>3. ProbeShape(pw) /\ pw.on = p.on /\ pw.waiters = p.waiters /\ pw.nonEmpty = a /\ pw.empty = p.empty /\ pw.full = p.full
    BY <1>3, <2>2, ProbeWithShape
  <2>4. q1 = pw
    BY <2>1
  <2> HIDE DEF pw, q1
  <2> QED BY <2>3, <2>4
<1>9. full \in Int
  <2> HIDE DEF q1
  <2> QED BY <1>1, <1>3, <1>8
<1>10. s1 = [s EXCEPT !.probe.nonEmpty = Max({@, page})]
  <2> HIDE DEF page
  <2> QED BY <1>2 DEF Shape, a
<1> HIDE DEF q1
<1>11. Loose(s1, 0) /\ Quiet(s1) /\ Eased(s, s1) /\ s1.probe = q1
  <2>1. q1.on /\ q1.waiters = s.probe.waiters /\ s.probe.on /\ Waited(s.probe)
    BY <1>2, <1>8
  <2> QED BY <1>2, <1>8, <2>1, BoundsWhole
<1> HIDE DEF s1
<1>12. Placed(s1, s2)
  <2>1. Typed(s1)
    BY <1>11 DEF Loose, Asked
  <2> QED BY <1>1, <2>1, PagePlaces
<1> HIDE DEF s2
<1>13. Loose(s2, 0) /\ Quiet(s2) /\ Eased(s1, s2) /\ s2.probe = q1 /\ Shape(s2)
  <2>1. Loose(s2, 0) /\ Eased(s1, s2)
    BY <1>11, <1>12, PlacedLoose
  <2>2. Quiet(s2)
    BY <1>11, <1>12, PlacedQuiet
  <2>3. s2.probe = q1
    BY <1>11, <1>12 DEF Placed
  <2>4. Shape(s2)
    BY <2>1 DEF Loose, Asked, Typed
  <2> QED BY <2>1, <2>2, <2>3, <2>4
<1> HIDE DEF full
<1>14. ProbeShape(q3) /\ q3.on = p.on /\ q3.waiters = p.waiters /\ q3.nonEmpty = a /\ q3.empty = p.empty /\ q3.full = full
  <2>1. q3 = ProbeWith(q1, q1.nonEmpty, q1.empty, q1.step, q1.limit, full)
    BY <1>8, WriteFull
  <2> DEFINE pw == ProbeWith(q1, q1.nonEmpty, q1.empty, q1.step, q1.limit, full)
  <2>2. q1.nonEmpty \in Int /\ q1.empty \in Int /\ q1.step \in Nat \ {0} /\ q1.limit \in Int
    BY <1>8 DEF ProbeShape
  <2>3. ProbeShape(pw) /\ pw.on = q1.on /\ pw.waiters = q1.waiters /\ pw.nonEmpty = q1.nonEmpty
        /\ pw.empty = q1.empty /\ pw.full = full
    BY <1>8, <1>9, <2>2, ProbeWithShape
  <2>4. q3 = pw
    BY <2>1
  <2> HIDE DEF pw, q3
  <2> QED BY <1>8, <2>3, <2>4
<1>15. placed = [s2 EXCEPT !.probe.full = IF Len(r.ids) < PageSize THEN @ ELSE page]
  <2> HIDE DEF page
  <2> QED BY <1>13 DEF Shape, full
<1> HIDE DEF q3
<1>16. /\ q3.on /\ q3.waiters = p.waiters /\ q3.nonEmpty >= 0
       /\ JoinedIn(q3) \/ (Narrowed(q3) /\ (p.empty >= 0 => page < p.empty))
  <2>1. JoinedIn(q3) <=> JoinedIn(p)
    BY <1>14, SameWaiters
  <2>2. q3.on /\ q3.waiters = p.waiters /\ q3.nonEmpty >= 0
    BY <1>2, <1>7, <1>14
  <2>3. ASSUME Narrowed(p), p.empty >= 0 => page < p.empty PROVE Narrowed(q3)
    <3> HIDE DEF p, page
    <3>1. ASSUME p.empty >= 0 PROVE a < p.empty
      <4>1. page < p.empty
        BY <2>3, <3>1
      <4>2. p.nonEmpty >= page => p.nonEmpty < p.empty
        BY <1>1, <1>3, <2>3, <3>1 DEF Narrowed
      <4> QED BY <1>1, <1>3, <1>7, <4>1, <4>2
    <3> QED BY <1>14, <3>1 DEF Narrowed
  <2> QED BY <1>4, <2>1, <2>2, <2>3
<1>17. /\ Loose(placed, 0) /\ Quiet(placed) /\ Eased(s2, placed) /\ placed.probe = q3
       /\ placed.probe.on /\ Waited(placed.probe)
       /\ Whole(x7, 0) /\ Eased(s2, x7)
  <2>1. q3.on /\ q3.waiters = s2.probe.waiters /\ s2.probe.on /\ Waited(s2.probe)
    <3>1. Waited(q1)
      BY <1>2, <1>8, SameWaiters
    <3> QED BY <1>2, <1>8, <1>13, <1>16, <3>1
  <2>2. /\ Loose(placed, 0) /\ Quiet(placed) /\ Eased(s2, placed) /\ placed.probe = q3
        /\ placed.probe.on /\ Waited(placed.probe)
        /\ Whole(probeOldestBoundary(placed), 0) /\ Eased(s2, probeOldestBoundary(placed))
    BY <1>13, <1>14, <1>16, <2>1, BoundsWhole
  <2>3. [placed EXCEPT !.probe = q3] = placed
    BY <1>13 DEF Shape
  <2> HIDE DEF placed
  <2> QED BY <2>2, <2>3
<1> HIDE DEF placed, x7
<1>18. Shape(placed) /\ ProbeShape(placed.probe)
  BY <1>14, <1>17 DEF Loose, Asked, Typed
<1>19. Whole(x3, 0) /\ Eased(placed, x3)
  BY <1>17, FinishSearch
<1>20. Whole(x4, 0) /\ Eased(placed, x4)
  <2>1. (page + 1) * PageSize \in Nat
    BY <1>1, PageOf
  <2>2. Placed(placed, ended)
    BY <1>17, <2>1, ReconcilePlaces DEF Loose, Asked
  <2> HIDE DEF ended
  <2>3. Loose(ended, 0) /\ Quiet(ended) /\ Eased(placed, ended)
    BY <1>17, <2>2, PlacedLoose, PlacedQuiet
  <2>4. Whole(x4, 0) /\ Eased(ended, x4)
    BY <2>3, FinishSearch
  <2> HIDE DEF x4
  <2> QED BY <1>17, <2>3, <2>4, EasedTrans DEF Whole, Loose
<1>21. ASSUME p.empty = page + 2 PROVE Whole(x5, 0) /\ Eased(placed, x5)
  <2>1. page + 1 \in Nat /\ page + 1 < p.empty
    BY <1>1, <1>21
  <2>2. JoinedIn(placed.probe) \/ (Narrowed(placed.probe) /\ (placed.probe.empty >= 0 => page + 1 < placed.probe.empty))
    BY <1>14, <1>16, <1>17, <2>1
  <2> QED BY <1>17, <2>1, <2>2, LoadPage
<1>22. Whole(x6, 0) /\ Eased(placed, x6)
  <2>1. ProbeShape(q4) /\ q4.on = q3.on /\ q4.waiters = q3.waiters /\ q4.nonEmpty = q3.nonEmpty /\ q4.empty = q3.empty
    <3>1. q3.nonEmpty \in Int /\ q3.empty \in Int /\ q3.full \in Int /\ 1 \in Nat \ {0} /\ -1 \in Int
      BY <1>14 DEF ProbeShape
    <3> QED BY <1>14, <3>1, ProbeWithShape
  <2> HIDE DEF q4
  <2>2. JoinedIn(q4) \/ Narrowed(q4)
    <3>1. JoinedIn(q4) <=> JoinedIn(q3)
      BY <2>1, SameWaiters
    <3> QED BY <1>16, <2>1, <3>1 DEF Narrowed
  <2>3. q4.on /\ q4.waiters = placed.probe.waiters /\ q4.nonEmpty >= 0
    BY <1>16, <1>17, <2>1
  <2> QED BY <1>17, <2>1, <2>2, <2>3, BoundsWhole
<1> HIDE DEF x3, x4, x5
<1>23. t = IF ~p.on THEN s
           ELSE IF ~ok THEN x1
           ELSE IF r.ids = <<>> THEN x2
           ELSE IF Len(r.ids) < PageSize THEN x3
           ELSE IF p.empty = page + 1 THEN x4
           ELSE IF p.empty = page + 2 THEN x5
           ELSE IF beyond THEN x6 ELSE x7
  <2> DEFINE y1 == [s EXCEPT !.probe.nonEmpty = Max({@, page})]
             y2 == placePage(y1, page, r.ids)
             y3 == [y2 EXCEPT !.probe.full = IF Len(r.ids) < PageSize THEN @ ELSE page]
             y4 == Unlimited(y3)
  <2>1. t = IF ~p.on THEN s
            ELSE IF ~ok THEN finishOldestBoundaryProbe(s)
            ELSE IF r.ids = <<>> THEN emptyBoundaryPage(s, page)
            ELSE IF Len(r.ids) < PageSize THEN finishOldestBoundaryProbe(y3)
            ELSE IF p.empty = page + 1 THEN finishOldestBoundaryProbe(reconcileRootCount(y3, (page + 1) * PageSize))
            ELSE IF p.empty = page + 2 THEN loadOldestBoundaryPage(y3, page + 1)
            ELSE probeOldestBoundary(IF beyond THEN y4 ELSE y3)
    BY Zenon DEF oldestPageAnswered, Unlimited
  <2>2. y1 = s1
    BY <1>10
  <2> HIDE DEF y1
  <2>3. y2 = s2
    BY <2>2 DEF s2
  <2> HIDE DEF y2
  <2>4. y3 = placed
    BY <1>15, <2>3
  <2> HIDE DEF y3
  <2>5. y4 = [placed EXCEPT !.probe = q4]
    <3>1. Unlimited(placed) = [placed EXCEPT !.probe = q4]
      <4> HIDE DEF q4
      <4> DEFINE q5 == ProbeWith(placed.probe, placed.probe.nonEmpty, placed.probe.empty, 1, -1, placed.probe.full)
      <4>1. Unlimited(placed) = [placed EXCEPT !.probe = q5]
        BY <1>18, UnlimitedIs
      <4>2. q5 = q4
        BY <1>17 DEF q4
      <4> QED BY <4>1, <4>2
    <3> QED BY <2>4, <3>1
  <2> HIDE DEF y4
  <2>6. [placed EXCEPT !.probe = q3] = placed
    BY <1>17, <1>18 DEF Shape
  <2>7. probeOldestBoundary(IF beyond THEN y4 ELSE y3) = IF beyond THEN x6 ELSE x7
    BY <2>4, <2>5, <2>6 DEF x7
  <2> HIDE DEF beyond, t, p, page, x6
  <2>8. /\ finishOldestBoundaryProbe(s) = x1 /\ emptyBoundaryPage(s, page) = x2 /\ finishOldestBoundaryProbe(y3) = x3
        /\ finishOldestBoundaryProbe(reconcileRootCount(y3, (page + 1) * PageSize)) = x4
        /\ loadOldestBoundaryPage(y3, page + 1) = x5
    BY <2>4 DEF x1, x2, x3, x4, x5, ended
  <2> QED BY <2>1, <2>7, <2>8
<1> HIDE DEF beyond, t, x6
<1>24. Asked(s) /\ Asked(s1) /\ Asked(s2) /\ Asked(placed)
  BY <1>2, <1>11, <1>13, <1>17 DEF Loose
<1>25. Eased(s, s2) /\ Eased(s, placed)
  <2>1. Eased(s, s2)
    BY <1>11, <1>13, <1>24, EasedTrans
  <2> QED BY <1>17, <1>24, <2>1, EasedTrans
<1>26. ASSUME NEW x, Whole(x, 0), Eased(placed, x) \/ Eased(s2, x) PROVE Eased(s, x)
  <2>1. Asked(x)
    BY <1>26 DEF Whole, Loose
  <2> QED BY <1>24, <1>25, <1>26, <2>1, EasedTrans
<1>27. Whole(x3, 0) /\ Eased(s, x3) /\ Whole(x4, 0) /\ Eased(s, x4) /\ Whole(x6, 0) /\ Eased(s, x6) /\ Whole(x7, 0) /\ Eased(s, x7)
  BY <1>17, <1>19, <1>20, <1>22, <1>26
<1>28. ASSUME p.empty = page + 2 PROVE Whole(x5, 0) /\ Eased(s, x5)
  BY <1>21, <1>26, <1>28
<1>29. CASE p.empty = page + 2
  BY <1>2, <1>5, <1>6, <1>23, <1>27, <1>28, <1>29 DEF t
<1>30. CASE p.empty # page + 2
  BY <1>2, <1>5, <1>6, <1>23, <1>27, <1>30 DEF t
<1> QED BY <1>29, <1>30
-----------------------------------------------------------------------------
(* A reply, of any kind.                                                   *)


\* A request taken from those under way: what it carried is owed.
LEMMA RestOf ==
    ASSUME NEW s, Whole(s, 0), NEW f \in s.flight
    PROVE  LET t == [s EXCEPT !.flight = @ \ {f}]
           IN /\ Rest(t, f) /\ Eased(s, t) /\ Request(f)
              /\ f.kind \in Search => Carried(t, f)
<1> DEFINE t == [s EXCEPT !.flight = @ \ {f}]
<1>1. Request(f)
  BY DEF Whole, Loose, Asked
<1>2. CASE f.gated
  <2>1. Answering(t) /\ Eased(s, t)
    BY <1>2, TakenGated
  <2>2. f.kind \notin Search
    BY <1>1, <1>2 DEF Request, Search
  <2> HIDE DEF t
  <2> QED BY <1>1, <1>2, <2>1, <2>2 DEF Rest, t
<1>3. CASE ~f.gated
  <2>1. /\ Loose(t, f.d) /\ Eased(s, t) /\ t.probe = s.probe
        /\ f.kind \notin Search => Searching(t)
        /\ f.kind \in Search => Quiet(t)
    BY <1>3, TakenUngated
  <2> HIDE DEF t
  <2>2. ASSUME f.kind \in Search PROVE Carried(t, f)
    <3>1. s.probe.on
      BY <2>2 DEF Whole, Searching, Quiet
    <3>2. PICK q \in s.flight :
            /\ q.kind \in Search /\ \A g \in s.flight : g.kind \in Search => g = q
            /\ JoinedIn(s.probe) \/ (Narrowed(s.probe) /\ Within(s.probe, q))
      BY <3>1 DEF Whole, Searching
    <3>3. q = f
      BY <2>2, <3>2
    <3>4. Waited(s.probe)
      BY <3>1 DEF Whole, Searching
    <3> QED BY <2>1, <3>1, <3>2, <3>3, <3>4 DEF Carried
  <2>3. Rest(t, f)
    BY <1>3, <2>1 DEF Rest
  <2> QED BY <1>1, <2>1, <2>2, <2>3 DEF t
<1> QED BY <1>2, <1>3

\* Every reply, and every failure, keeps the books and the search.
LEMMA AnsweredWhole ==
    ASSUME NEW s, NEW f, Rest(s, f), Request(f), f.kind \in Search => Carried(s, f), NEW ok \in BOOLEAN, NEW r,
           r.ids \in Seq(Nat), NEW guess \in Int
    PROVE  Whole(answered(s, f, ok, r, guess), 0) /\ Eased(s, answered(s, f, ok, r, guess))
<1> DEFINE k == f.kind
           x1 == cursorAnswered(s, f, ok, r)
           x2 == growAnswered(s, f, ok, r)
           x3 == tailAnswered(s, f, ok, r)
           x4 == pageAnswered(s, f, ok, r)
           x5 == validateAnswered(s, f, ok, r)
           x6 == existsAnswered(s, f, ok, r)
           x0 == initialAnswered(s, f, ok, r)
           x7 == oldestPageAnswered(s, f, ok, r)
           x8 == prependAnswered(s, f, ok, r)
           x9 == IF ok THEN adoptNavigationContext(s, f.at, r, guess) ELSE s
           t == answered(s, f, ok, r, guess)
<1>1. t = CASE k \in {"after", "before"} -> x1
            [] k \in {"growAfter", "growBefore"} -> x2
            [] k = "tail" -> x3
            [] k = "page" -> x4
            [] k = "validate" -> x5
            [] k = "initial" -> x0
            [] k = "exists" -> x6
            [] k = "oldestPage" -> x7
            [] k = "prepend" -> x8
            [] k = "around" -> x9
  BY Zenon DEF answered
<1>2. k \in {"after", "before", "growAfter", "growBefore", "tail", "page", "validate", "initial", "exists",
             "oldestPage", "prepend", "around"}
  BY DEF Request, Search, Listed
<1>3. k \in {"after", "before"} => Whole(x1, 0) /\ Eased(s, x1)
  BY CursorWhole
<1>4. k \in {"growAfter", "growBefore"} => Whole(x2, 0) /\ Eased(s, x2)
  BY GrowWhole
<1>5. k = "tail" => Whole(x3, 0) /\ Eased(s, x3)
  BY TailWhole
<1>6. k = "page" => Whole(x4, 0) /\ Eased(s, x4)
  BY PageWhole
<1>7. k = "validate" => Whole(x5, 0) /\ Eased(s, x5)
  BY ValidateWhole
<1>8. k = "exists" => Whole(x6, 0) /\ Eased(s, x6)
  BY ExistsWhole DEF Search
<1>9. k = "oldestPage" => Whole(x7, 0) /\ Eased(s, x7)
  BY OldestWhole DEF Search
<1>10. k = "prepend" => Whole(x8, 0) /\ Eased(s, x8)
  BY PrependWhole
<1>11. k = "around" => Whole(x9, 0) /\ Eased(s, x9)
  BY AroundWhole
<1>0. k = "initial" => Whole(x0, 0) /\ Eased(s, x0)
  BY InitialWhole DEF Search
<1> HIDE DEF k, x0, x1, x2, x3, x4, x5, x6, x7, x8, x9, t
<1>12. CASE k \in {"after", "before"}
  <2>1. t = x1
    BY <1>1, <1>12
  <2> QED BY <1>3, <1>12, <2>1 DEF t
<1>13. CASE k \in {"growAfter", "growBefore"}
  <2>1. t = x2
    BY <1>1, <1>13
  <2> QED BY <1>4, <1>13, <2>1 DEF t
<1>14. CASE k = "tail"
  <2>1. t = x3
    BY <1>1, <1>14
  <2> QED BY <1>5, <1>14, <2>1 DEF t
<1>15. CASE k = "page"
  <2>1. t = x4
    BY <1>1, <1>15
  <2> QED BY <1>6, <1>15, <2>1 DEF t
<1>16. CASE k = "validate"
  <2>1. t = x5
    BY <1>1, <1>16
  <2> QED BY <1>7, <1>16, <2>1 DEF t
<1>21. CASE k = "initial"
  <2>1. t = x0
    BY <1>1, <1>21
  <2> QED BY <1>0, <1>21, <2>1 DEF t
<1>17. CASE k = "exists"
  <2>1. t = x6
    BY <1>1, <1>17
  <2> QED BY <1>8, <1>17, <2>1 DEF t
<1>18. CASE k = "oldestPage"
  <2>1. t = x7
    BY <1>1, <1>18
  <2> QED BY <1>9, <1>18, <2>1 DEF t
<1>19. CASE k = "prepend"
  <2>1. t = x8
    BY <1>1, <1>19
  <2> QED BY <1>10, <1>19, <2>1 DEF t
<1>20. CASE k = "around"
  <2>1. t = x9
    BY <1>1, <1>20
  <2> QED BY <1>11, <1>20, <2>1 DEF t
<1> QED BY <1>2, <1>12, <1>13, <1>14, <1>15, <1>16, <1>17, <1>18, <1>19, <1>20, <1>21

\* The request an answer is computed from.
Asks(f) ==
    IF f.kind # "prepend" THEN f ELSE [f EXCEPT !.kind = IF f.kind = "prepend" /\ f.at = 0 THEN "page" ELSE "before"]

LEMMA AsksType ==
    ASSUME NEW f, Request(f), NEW roots \in Seq(Nat)
    PROVE  Reply(Asks(f), roots).ids \in Seq(Nat)
<1>1. Asks(f).n \in Nat /\ Asks(f).at \in Nat
  BY DEF Asks, Request
<1> QED BY <1>1, ReplyType
-----------------------------------------------------------------------------
(* A demand that nobody waits for yet.                                     *)

EasedBut(s, t, d) == \A c \in Demands : c # d => t.pending[c] <= s.pending[c]

\* The call on behalf of d is being made: nothing under way is for d.
Free(s, d) ==
    Loose(s, d) /\ Searching(s) /\ Own(s.flight, d) = {} /\ d \notin s.gate.waiters /\ s.probe.waiters[d] = 0

\* A demand that is owed nothing is waited for nowhere.
LEMMA NobodyWaits ==
    ASSUME NEW s, Whole(s, 0), NEW d \in Demands, s.pending[d] = 0
    PROVE  Own(s.flight, d) = {} /\ d \notin s.gate.waiters /\ s.probe.waiters[d] = 0
<1> DEFINE a == Cardinality(Own(s.flight, d))
           g == Cardinality({d} \cap s.gate.waiters)
           p == s.probe.waiters[d]
<1>1. s.pending[d] = a + (g + p) + IF d = 0 THEN 1 ELSE 0
  BY DEF Whole, Loose, Balanced, Waits
<1>2. a \in Nat /\ IsFiniteSet(Own(s.flight, d)) /\ g = (IF d \in s.gate.waiters THEN 1 ELSE 0) /\ p \in Nat
  BY OwnFinite, WaitsNat DEF Whole, Loose, Asked, ProbeShape
<1>3. d # 0
  BY NoDemand
<1> HIDE DEF a, g, p
<1>4. a = 0 /\ g = 0 /\ p = 0
  BY <1>1, <1>2, <1>3
<1>5. Own(s.flight, d) = {}
  BY <1>2, <1>4, FS_EmptySet DEF a
<1> QED BY <1>2, <1>4, <1>5 DEF p

\* A demand of its own is entered once, before anything is asked.
LEMMA CallMade ==
    ASSUME NEW s, Whole(s, 0), NEW d \in Demands, s.pending[d] = 0
    PROVE  LET t == [s EXCEPT !.pending[d] = 1]
           IN /\ Free(t, d) /\ EasedBut(s, t, d) /\ Shape(t) /\ t.slots = s.slots /\ t.tried = s.tried
              /\ t.window = s.window
<1> DEFINE w == [s.pending EXCEPT ![d] = 1]
           t == [s EXCEPT !.pending[d] = 1]
<1>1. s.pending \in [Demands -> Int] /\ Shape(s) /\ Typed(s)
  BY DEF Whole, Loose, Asked, Typed
<1>2. t = [s EXCEPT !.pending = w]
  BY <1>1 DEF Shape
<1>3. w \in [Demands -> Int] /\ \A c \in Demands : w[c] = IF c = d THEN 1 ELSE s.pending[c]
  BY <1>1
<1> HIDE DEF w, t
<1>4. t = Asking(s, s.gate, s.probe, s.tried, w, s.flight)
  BY <1>1, <1>2, WritePending
<1>5. /\ Typed(t) /\ t.gate = s.gate /\ t.probe = s.probe /\ t.pending = w /\ t.flight = s.flight
      /\ t.slots = s.slots /\ t.window = s.window /\ t.tried = s.tried
  BY <1>1, <1>4, AskingFields
<1>6. Asked(t)
  BY <1>3, <1>5 DEF Whole, Loose, Asked
<1>7. Gating(t)
  BY <1>5 DEF Whole, Loose, Gating
<1>8. EasedBut(s, t, d)
  <2>1. \A c \in Demands : s.pending[c] \in Int
    BY <1>1
  <2> QED BY <1>3, <1>5, <2>1 DEF EasedBut
<1>9. Balanced(t, d)
  <2>1. ASSUME NEW c \in Demands
        PROVE  w[c] = Cardinality(Own(s.flight, c)) + Waits(c, s.gate, s.probe) + IF c = d THEN 1 ELSE 0
    <3> DEFINE a == Cardinality(Own(s.flight, c))
               b == Waits(c, s.gate, s.probe)
    <3>1. s.pending[c] = a + b + IF c = 0 THEN 1 ELSE 0
      BY DEF Whole, Loose, Balanced
    <3>2. a \in Nat /\ b \in Nat /\ c # 0
      BY OwnFinite, WaitsNat, NoDemand DEF Whole, Loose, Asked
    <3> HIDE DEF a, b
    <3>3. w[c] = a + b + IF c = d THEN 1 ELSE 0
      BY <1>3, <3>1, <3>2
    <3> QED BY <3>3 DEF a, b
  <2> QED BY <1>5, <2>1 DEF Balanced
<1>10. Searching(t)
  BY <1>5, SearchingStays DEF Whole
<1>11. Own(t.flight, d) = {} /\ d \notin t.gate.waiters /\ t.probe.waiters[d] = 0
  BY <1>5, NobodyWaits
<1> QED BY <1>1, <1>5, <1>6, <1>7, <1>8, <1>9, <1>10, <1>11 DEF Free, Loose, t, Typed

\* A request more, that no search made.
LEMMA SearchingMore ==
    ASSUME NEW s, NEW t, Searching(s), t.probe = s.probe, NEW S, t.flight = s.flight \cup S,
           \A r \in S : r.kind \notin Search
    PROVE  Searching(t)
<1>1. CASE s.probe.on
  <2> DEFINE Carries(q, x) ==
               /\ q.kind \in Search /\ \A g \in x : g.kind \in Search => g = q
               /\ JoinedIn(s.probe) \/ (Narrowed(s.probe) /\ Within(s.probe, q))
  <2>1. Waited(s.probe) /\ \E q \in s.flight : Carries(q, s.flight)
    BY <1>1 DEF Searching
  <2>2. \A q \in s.flight : Carries(q, s.flight) => Carries(q, t.flight) /\ q \in t.flight
    OBVIOUS
  <2> HIDE DEF Carries
  <2>3. \E q \in t.flight : Carries(q, t.flight)
    BY <2>1, <2>2
  <2> USE DEF Carries
  <2>4. Searching(t) <=> Waited(s.probe) /\ \E q \in t.flight : Carries(q, t.flight)
    BY <1>1 DEF Searching
  <2> QED BY <2>1, <2>3, <2>4
<1>2. CASE ~s.probe.on
  <2>1. s.probe = NoProbe /\ Quiet(s)
    BY <1>2 DEF Searching
  <2>2. Quiet(t)
    BY <2>1 DEF Quiet
  <2> QED BY <1>2, <2>1, <2>2 DEF Searching
<1> QED BY <1>1, <1>2

\* A request of a demand leaves, at no gate.
LEMMA AskFree ==
    ASSUME NEW s, NEW d \in Demands, Free(s, d), NEW kind \in Listed, NEW at \in Nat, NEW n \in Nat
    PROVE  Whole(Ask(s, kind, at, n, d), 0) /\ Eased(s, Ask(s, kind, at, n, d))
<1> DEFINE r == Req(kind, at, n, d, No, No)
           t == Ask(s, kind, at, n, d)
           u == Asking(s, s.gate, s.probe, s.tried, s.pending, s.flight \cup {r})
<1>1. No \in BOOLEAN /\ ~No
  BY DEF No
<1>2. t = u
  <2>1. t = AskGated(s, kind, at, n, d, No)
    BY AskUngated
  <2>2. Shape(s)
    BY DEF Free, Loose, Asked, Typed
  <2> HIDE DEF t
  <2> QED BY <2>1, <2>2, AskIs
<1>3. Request(r) /\ r.kind = kind /\ r.d = d /\ ~r.gated
  <2>1. kind \in Search \cup Listed \cup {"validate", "prepend", "around"}
    OBVIOUS
  <2>2. LET q == Req(kind, at, n, d, No, No) IN Request(q) /\ q.kind = kind /\ q.at = at /\ q.d = d /\ q.gated = No
    BY <1>1, <2>1, ReqIs
  <2> QED BY <1>1, <2>2
<1> HIDE DEF r, t
<1>4. r \notin s.flight
  BY <1>3 DEF Free, Own
<1>5. Asked(u) /\ Gating(u) /\ Eased(s, u) /\ Balanced(u, 0)
  BY <1>3, <1>4, AddRequest DEF Free
<1>6. u.probe = s.probe /\ u.flight = s.flight \cup {r}
  <2> DEFINE x == s.flight \cup {r}
  <2> HIDE DEF x
  <2>1. u = Asking(s, s.gate, s.probe, s.tried, s.pending, x)
    BY DEF x
  <2> HIDE DEF u
  <2> QED BY <2>1, AskingGot DEF x
<1> HIDE DEF u
<1>7. Searching(u)
  <2>1. \A q \in {r} : q.kind \notin Search
    BY <1>3 DEF Search, Listed
  <2> QED BY <1>6, <2>1, SearchingMore DEF Free
<1> QED BY <1>2, <1>5, <1>7 DEF Whole, Loose, t

\* A demand joins the request at the gate.
LEMMA AttachWhole ==
    ASSUME NEW s, NEW d \in Demands, Free(s, d), s.gate.first # 0
    PROVE  LET t == [s EXCEPT !.gate.waiters = @ \cup {d}] IN Whole(t, 0) /\ Eased(s, t)
<1> DEFINE x == s.gate.waiters \cup {d}
           g == [s.gate EXCEPT !.waiters = x]
           t == [s EXCEPT !.gate.waiters = @ \cup {d}]
<1>1. GateShape(s.gate) /\ ProbeShape(s.probe) /\ Shape(s) /\ Typed(s) /\ \A c \in Demands : s.pending[c] \in Int
  BY DEF Free, Loose, Asked, Typed
<1>2. t = [s EXCEPT !.gate = g]
  BY <1>1 DEF Shape
<1>3. GateShape(g) /\ g.first = s.gate.first /\ g.waiters = x
  BY <1>1 DEF GateShape
<1> HIDE DEF g, t
<1>4. t = Asking(s, g, s.probe, s.tried, s.pending, s.flight)
  BY <1>1, <1>2, WriteGate
<1>5. Typed(t) /\ t.gate = g /\ t.probe = s.probe /\ t.pending = s.pending /\ t.flight = s.flight
  BY <1>1, <1>4, AskingFields
<1>6. Asked(t)
  BY <1>3, <1>5 DEF Free, Loose, Asked
<1>7. Gating(t)
  BY <1>3, <1>5 DEF Free, Loose, Gating
<1>8. Eased(s, t)
  BY <1>1, <1>5 DEF Eased
<1>9. Balanced(t, 0)
  <2>1. ASSUME NEW c \in Demands
        PROVE  s.pending[c] = Cardinality(Own(s.flight, c)) + Waits(c, g, s.probe) + IF c = 0 THEN 1 ELSE 0
    <3> DEFINE a == Cardinality(Own(s.flight, c))
               b == s.probe.waiters[c]
               h == Cardinality({c} \cap s.gate.waiters)
               k == Cardinality({c} \cap g.waiters)
    <3>1. s.pending[c] = a + (h + b) + IF c = d THEN 1 ELSE 0
      BY DEF Free, Loose, Balanced, Waits
    <3>2. a \in Nat /\ b \in Nat /\ c # 0
      BY <1>1, OwnFinite, NoDemand DEF Free, Loose, Asked, ProbeShape
    <3>3. h = IF c \in s.gate.waiters THEN 1 ELSE 0
      BY <1>1, WaitsNat
    <3>4. k = IF c \in x THEN 1 ELSE 0
      BY <1>1, <1>3, WaitsNat
    <3>5. k = h + IF c = d THEN 1 ELSE 0
      BY <3>3, <3>4 DEF Free
    <3>6. Waits(c, g, s.probe) = k + b
      BY DEF Waits
    <3>7. h \in Nat
      BY <3>3
    <3> HIDE DEF a, b, h, k
    <3>8. s.pending[c] = a + (k + b) + 0
      BY <3>1, <3>2, <3>5, <3>7
    <3> QED BY <3>2, <3>6, <3>8 DEF a
  <2> QED BY <1>5, <2>1 DEF Balanced
<1>10. Searching(t)
  BY <1>5, SearchingStays DEF Free
<1> QED BY <1>6, <1>7, <1>8, <1>9, <1>10 DEF Whole, Loose, t

\* A request closes the gate.
LEMMA CloseGate ==
    ASSUME NEW s, NEW d \in Demands, Free(s, d), s.gate.first = 0, NEW a \in Int, a # 0, NEW b \in Int,
           NEW kind \in {"after", "before", "tail"}, NEW at \in Nat, NEW n \in Nat
    PROVE  LET t == AskGated([s EXCEPT !.gate = [first |-> a, last |-> b, waiters |-> {d}]], kind, at, n, d, Yes)
           IN Whole(t, 0) /\ Eased(s, t)
<1> DEFINE g == [first |-> a, last |-> b, waiters |-> {d}]
           r == Req(kind, at, n, d, No, Yes)
           x == s.flight \cup {r}
           s1 == [s EXCEPT !.gate = g]
           t == AskGated(s1, kind, at, n, d, Yes)
<1>1. ProbeShape(s.probe) /\ GateShape(s.gate) /\ Shape(s) /\ Typed(s) /\ \A c \in Demands : s.pending[c] \in Int
  BY DEF Free, Loose, Asked, Typed
<1>2. GateShape(g) /\ g.first # 0 /\ g.waiters = {d}
  BY DEF GateShape
<1> HIDE DEF g
<1>3. s1 = Asking(s, g, s.probe, s.tried, s.pending, s.flight)
  BY <1>1, WriteGate
<1> HIDE DEF s1
<1>4. Shape(s1) /\ s1.gate = g /\ s1.probe = s.probe /\ s1.tried = s.tried /\ s1.pending = s.pending /\ s1.flight = s.flight
  BY <1>3, AskingShape, AskingGot
<1>5. t = Asking(s1, g, s.probe, s.tried, s.pending, x)
  BY <1>4, AskIs
<1> HIDE DEF t
<1>6. t = Asking(s, g, s.probe, s.tried, s.pending, x)
  <2> HIDE DEF x
  <2> QED BY <1>3, <1>5, AskingTwice
<1>7. Typed(t) /\ t.gate = g /\ t.probe = s.probe /\ t.pending = s.pending /\ t.flight = x
  <2> HIDE DEF x
  <2> QED BY <1>1, <1>6, AskingFields
<1>8. Request(r) /\ r.kind = kind /\ r.d = d /\ r.gated
  <2>1. /\ kind \in Search \cup Listed \cup {"validate", "prepend", "around"} /\ kind \in Listed
        /\ Yes \in BOOLEAN
    BY DEF Listed, Yes
  <2>2. LET q == Req(kind, at, n, d, No, Yes) IN Request(q) /\ q.kind = kind /\ q.at = at /\ q.d = d /\ q.gated = Yes
    BY <2>1, ReqIs
  <2> HIDE DEF r
  <2> QED BY <2>2 DEF r, Yes
<1> HIDE DEF r
<1>9. Asked(t)
  <2>1. IsFiniteSet(x) /\ \A f \in x : Request(f)
    BY <1>8, FS_AddElement DEF Free, Loose, Asked
  <2> HIDE DEF x
  <2> QED BY <1>2, <1>7, <2>1 DEF Free, Loose, Asked
<1>10. Gating(t)
  <2>1. \A f \in s.flight : ~f.gated
    BY DEF Free, Loose, Gating
  <2>2. \A f \in x : f.gated => f = r
    BY <2>1
  <2>3. r \in x
    OBVIOUS
  <2> HIDE DEF x
  <2> QED BY <1>2, <1>7, <1>8, <2>2, <2>3 DEF Gating
<1>11. Eased(s, t)
  BY <1>1, <1>7 DEF Eased
<1>12. Balanced(t, 0)
  <2>1. \A c : Own(x, c) = Own(s.flight, c)
    BY <1>8 DEF Own
  <2> HIDE DEF x
  <2>2. ASSUME NEW c \in Demands
        PROVE  s.pending[c] = Cardinality(Own(s.flight, c)) + Waits(c, g, s.probe) + IF c = 0 THEN 1 ELSE 0
    <3> DEFINE y == Cardinality(Own(s.flight, c))
               w == s.probe.waiters[c]
               h == Cardinality({c} \cap s.gate.waiters)
               k == Cardinality({c} \cap g.waiters)
    <3>1. s.pending[c] = y + (h + w) + IF c = d THEN 1 ELSE 0
      BY DEF Free, Loose, Balanced, Waits
    <3>2. y \in Nat /\ w \in Nat /\ c # 0
      BY <1>1, OwnFinite, NoDemand DEF Free, Loose, Asked, ProbeShape
    <3>3. h = 0
      BY <1>1, WaitsNat DEF GateShape
    <3>4. k = IF c \in {d} THEN 1 ELSE 0
      BY <1>1, <1>2, WaitsNat
    <3>5. Waits(c, g, s.probe) = k + w
      BY DEF Waits
    <3> HIDE DEF y, w, h, k
    <3>6. s.pending[c] = y + (k + w) + 0
      BY <3>1, <3>2, <3>3, <3>4
    <3> QED BY <3>2, <3>5, <3>6 DEF y
  <2> QED BY <1>7, <2>1, <2>2 DEF Balanced
<1>13. Searching(t)
  <2>1. \A q \in {r} : q.kind \notin Search
    BY <1>8 DEF Search
  <2> QED BY <1>7, <2>1, SearchingMore DEF Free
<1> QED BY <1>9, <1>10, <1>11, <1>12, <1>13 DEF Whole, Loose, t, s1, g

\* At the gate or past it.
LEMMA BeginAsk ==
    ASSUME NEW s, NEW d \in Demands, Free(s, d), NEW gated \in BOOLEAN, gated => s.gate.first = 0,
           NEW a \in Int, a # 0, NEW b \in Int, NEW kind \in {"after", "before", "tail"}, NEW at \in Nat, NEW n \in Nat
    PROVE  LET t == AskGated(begin(s, a, b, d, gated), kind, at, n, d, gated) IN Whole(t, 0) /\ Eased(s, t)
<1> DEFINE t == AskGated(begin(s, a, b, d, gated), kind, at, n, d, gated)
           u == AskGated([s EXCEPT !.gate = [first |-> a, last |-> b, waiters |-> {d}]], kind, at, n, d, Yes)
           v == Ask(s, kind, at, n, d)
<1>1. CASE gated
  <2>1. t = u
    <3>1. gated = Yes
      BY <1>1 DEF Yes
    <3> QED BY <1>1, <3>1 DEF begin
  <2>2. Whole(u, 0) /\ Eased(s, u)
    BY <1>1, CloseGate
  <2> HIDE DEF t, u
  <2> QED BY <2>1, <2>2 DEF t
<1>2. CASE ~gated
  <2>1. t = v
    <3>1. gated = No
      BY <1>2 DEF No
    <3>2. begin(s, a, b, d, gated) = s
      BY <1>2 DEF begin
    <3>3. v = AskGated(s, kind, at, n, d, No)
      BY AskUngated
    <3> QED BY <3>1, <3>2, <3>3
  <2>2. kind \in Listed
    BY DEF Listed
  <2>3. Whole(v, 0) /\ Eased(s, v)
    BY <2>2, AskFree
  <2> HIDE DEF t, v
  <2> QED BY <2>1, <2>3 DEF t
<1> QED BY <1>1, <1>2

\* One request per page.
PageReq(page, d, first, last) == Req("page", page, PageSize, d, first = 1 /\ page = last, No)
PageReqs(lo, hi, d, first) == {PageReq(page, d, first, hi) : page \in lo..hi}

LEMMA PageReqsAre ==
    ASSUME NEW lo \in Nat, NEW hi \in Int, NEW d \in Demands, NEW first
    PROVE  /\ IsFiniteSet(PageReqs(lo, hi, d, first))
           /\ Cardinality(PageReqs(lo, hi, d, first)) = Cardinality(lo..hi)
           /\ \A r \in PageReqs(lo, hi, d, first) : Request(r) /\ r.kind = "page" /\ r.d = d /\ ~r.gated
<1> DEFINE R == PageReqs(lo, hi, d, first)
           P == lo..hi
           f == [page \in P |-> PageReq(page, d, first, hi)]
<1>1. IsFiniteSet(P) /\ \A page \in P : page \in Nat
  BY FS_Interval
<1>2. ASSUME NEW page \in P
      PROVE  LET r == PageReq(page, d, first, hi)
             IN Request(r) /\ r.kind = "page" /\ r.d = d /\ ~r.gated /\ r.at = page
  <2> DEFINE e == first = 1 /\ page = hi
             r == Req("page", page, PageSize, d, e, No)
  <2>1. /\ "page" \in Search \cup Listed \cup {"validate", "prepend", "around"} /\ "page" \in Listed
        /\ No \in BOOLEAN /\ ~No /\ page \in Nat
    BY <1>1 DEF Listed, No
  <2>2. PageSize \in Nat
    BY Numbers DEF NumbersFact
  <2> HIDE DEF e
  <2>3. LET q == Req("page", page, PageSize, d, e, No) IN Request(q) /\ q.kind = "page" /\ q.at = page /\ q.d = d /\ q.gated = No
    BY <2>1, <2>2, ReqIs
  <2>4. PageReq(page, d, first, hi) = r
    BY DEF PageReq, e
  <2> HIDE DEF r
  <2> QED BY <2>1, <2>3, <2>4 DEF r
<1>3. f \in Surjection(P, R)
  BY DEF Surjection, PageReqs
<1>4. f \in Injection(P, R)
  <2>1. f \in [P -> R]
    BY <1>3 DEF Surjection
  <2>2. \A i \in P : f[i].at = i
    BY <1>2
  <2> HIDE DEF f, P, R
  <2> QED BY <2>1, <2>2 DEF Injection, IsInjective
<1>5. \A r \in R : Request(r) /\ r.kind = "page" /\ r.d = d /\ ~r.gated
  BY <1>2 DEF PageReqs
<1> HIDE DEF f, P, R
<1>6. IsFiniteSet(R) /\ Cardinality(R) = Cardinality(P)
  BY <1>1, <1>3, <1>4, FS_Surjection
<1> QED BY <1>5, <1>6 DEF P, R

\* One request for each page of a range, all for the same demand.
LEMMA PagesWhole ==
    ASSUME NEW s, NEW d \in Demands, Free(s, d), NEW lo \in Nat, NEW hi \in Int, NEW first
    PROVE  LET t == PendingAndFlight(s, [s.pending EXCEPT ![d] = Cardinality(lo..hi)],
                                     s.flight \cup PageReqs(lo, hi, d, first))
           IN Whole(t, 0) /\ EasedBut(s, t, d)
<1> DEFINE R == PageReqs(lo, hi, d, first)
           n == Cardinality(lo..hi)
           w == [s.pending EXCEPT ![d] = n]
           x == s.flight \cup R
           t == PendingAndFlight(s, w, x)
<1>1. ProbeShape(s.probe) /\ GateShape(s.gate) /\ Shape(s) /\ Typed(s) /\ s.pending \in [Demands -> Int]
  BY DEF Free, Loose, Asked, Typed
<1>2. IsFiniteSet(R) /\ Cardinality(R) = n /\ \A r \in R : Request(r) /\ r.kind = "page" /\ r.d = d /\ ~r.gated
  BY PageReqsAre
<1>3. n \in Nat
  BY FS_Interval, FS_CardinalityType
<1> HIDE DEF R, n
<1>4. w \in [Demands -> Int] /\ \A c \in Demands : w[c] = IF c = d THEN n ELSE s.pending[c]
  BY <1>1, <1>3
<1> HIDE DEF w, t
<1>5. t = Asking(s, s.gate, s.probe, s.tried, w, x)
  <2> HIDE DEF x
  <2> QED BY <1>1, WritePendingAndFlight DEF t
<1>6. Typed(t) /\ t.gate = s.gate /\ t.probe = s.probe /\ t.pending = w /\ t.flight = x
  <2> HIDE DEF x
  <2> QED BY <1>1, <1>5, AskingFields
<1>7. Asked(t)
  <2>1. IsFiniteSet(x) /\ \A f \in x : Request(f)
    BY <1>2, FS_Union DEF Free, Loose, Asked
  <2> HIDE DEF x
  <2> QED BY <1>4, <1>6, <2>1 DEF Free, Loose, Asked
<1>8. Gating(t)
  <2>1. \A f \in x : f.gated => f \in s.flight
    BY <1>2
  <2>2. s.flight \subseteq x
    OBVIOUS
  <2> HIDE DEF x
  <2> QED BY <1>6, <2>1, <2>2 DEF Free, Loose, Gating
<1>9. EasedBut(s, t, d)
  <2>1. \A c \in Demands : s.pending[c] \in Int
    BY <1>1
  <2> QED BY <1>4, <1>6, <2>1 DEF EasedBut
<1>10. Balanced(t, 0)
  <2>1. Own(x, d) = R
    BY <1>2 DEF Free, Own
  <2>2. \A c \in Demands : c # d => Own(x, c) = Own(s.flight, c)
    BY <1>2 DEF Own
  <2> HIDE DEF x
  <2>3. ASSUME NEW c \in Demands
        PROVE  w[c] = Cardinality(Own(x, c)) + Waits(c, s.gate, s.probe) + IF c = 0 THEN 1 ELSE 0
    <3> DEFINE y == Cardinality(Own(s.flight, c))
               z == Cardinality(Own(x, c))
               b == Waits(c, s.gate, s.probe)
    <3>1. s.pending[c] = y + b + IF c = d THEN 1 ELSE 0
      BY DEF Free, Loose, Balanced
    <3>2. y \in Nat /\ b \in Nat /\ c # 0
      BY <1>1, OwnFinite, WaitsNat, NoDemand DEF Free, Loose, Asked
    <3>3. c = d => z = n /\ b = 0
      <4>1. ASSUME c = d PROVE z = n /\ b = 0
        <5>1. z = n
          BY <1>2, <2>1, <4>1
        <5>2. Cardinality({c} \cap s.gate.waiters) = 0
          BY <1>1, <4>1, WaitsNat DEF Free
        <5>3. b = 0
          BY <4>1, <5>2 DEF Waits, Free
        <5> QED BY <5>1, <5>3
      <4> QED BY <4>1
    <3>4. c # d => z = y
      BY <2>2
    <3> HIDE DEF y, z, b
    <3>5. w[c] = z + b + 0
      BY <1>3, <1>4, <3>1, <3>2, <3>3, <3>4
    <3> QED BY <3>2, <3>5 DEF z, b
  <2> QED BY <1>6, <2>3 DEF Balanced
<1>11. Searching(t)
  <2>1. \A q \in R : q.kind \notin Search
    BY <1>2 DEF Search
  <2> QED BY <1>6, <2>1, SearchingMore DEF Free
<1> QED BY <1>7, <1>8, <1>9, <1>10, <1>11 DEF Whole, Loose, t, w, n, R
-----------------------------------------------------------------------------
(* The list asks for a range.                                              *)

\* The first run of empty slots in a range, its ends and its pages.
LEMMA MissingMeans ==
    ASSUME NEW s, Typed(s), NEW first \in 1..Len(s.slots), NEW last \in 1..Len(s.slots),
           Missing(s, first, last) # {}
    PROVE  /\ Min(Missing(s, first, last)) \in 1..Len(s.slots)
           /\ Max(Missing(s, first, last)) \in 1..Len(s.slots)
<1> DEFINE M == Missing(s, first, last)
           l == Len(s.slots)
<1>1. M \subseteq first..last
  BY DEF Missing
<1>2. l \in Nat
  BY TypedParts
<1> HIDE DEF M, l
<1>3. first \in 1..l /\ last \in 1..l
  BY DEF l
<1>4. first..last \subseteq 1..l /\ IsFiniteSet(first..last)
  BY <1>2, <1>3, FS_Interval
<1>5. M \subseteq 1..l /\ M # {} /\ IsFiniteSet(M)
  <2>1. M # {}
    BY DEF M
  <2> QED BY <1>1, <1>4, <2>1, FS_Subset
<1>6. Min(M) \in M
  <2>1. M \subseteq Nat
    BY <1>5
  <2> QED BY <1>5, <2>1, MinExists
<1>7. Max(M) \in M
  <2>1. M \in SUBSET Int
    BY <1>5
  <2> QED BY <1>5, <2>1, MaxExists
<1> QED BY <1>5, <1>6, <1>7 DEF M, l

\* requestMissing keeps the books, whichever of its requests it makes.
LEMMA MissingAsked ==
    ASSUME NEW s, NEW d \in Demands, Free(s, d), NEW first \in 1..Len(s.slots), NEW last \in 1..Len(s.slots),
           Missing(s, first, last) # {}, NEW seek \in BOOLEAN
    PROVE  LET t == requestMissing(s, first, last, seek, d) IN Whole(t, 0) /\ EasedBut(s, t, d)
<1> DEFINE missing == Missing(s, first, last)
           from == Min(missing)
           to == Max(missing)
           size == Len(s.slots)
           fetch == Max({PageSize, to - from + 1})
           tail == Max({PageSize, size - from + 1})
           exact == ~HasWindow(s)
           gated == exact /\ ~seek /\ s.gate.first = 0
           w == s.window
           lo == pageForIndex(s, to)
           hi == pageForIndex(s, from)
           b4 == Min({size, from + fetch - 1})
           a5 == Max({1, to + 1 - fetch})
           a6 == Max({1, size - tail + 1})
           y1 == [s EXCEPT !.gate.waiters = @ \cup {d}]
           y2 == Ask(s, "growBefore", Head(w.ids), fetch, d)
           y3 == Ask(s, "growAfter", Last(w.ids), fetch, d)
           y4 == AskGated(begin(s, from, b4, d, gated), "after", s.slots[from - 1], fetch, d, gated)
           y5 == AskGated(begin(s, a5, to, d, gated), "before", s.slots[to + 1], fetch, d, gated)
           y6 == AskGated(begin(s, a6, size, d, gated), "tail", 0, tail, d, gated)
           z7 == [s EXCEPT !.pending[d] = Cardinality(lo..hi),
                           !.flight = @ \cup {[kind |-> "page", at |-> page, n |-> PageSize, d |-> d,
                              edge |-> first = 1 /\ page = hi,
                              gated |-> FALSE, since |-> Len(history)] : page \in lo..hi}]
           y7 == PendingAndFlight(s, [s.pending EXCEPT ![d] = Cardinality(lo..hi)],
                                  s.flight \cup PageReqs(lo, hi, d, first))
           t == requestMissing(s, first, last, seek, d)
           c1 == exact /\ ~seek /\ canAttach(s.gate, from, to)
           c2 == HasWindow(s) /\ to = w.first - 1
           c3 == HasWindow(s) /\ from = WindowLast(s) + 1
           c4 == isCursorReadyIndex(s, from - 1)
           c5 == isCursorReadyIndex(s, to + 1)
           c6 == last = size
<1>1. t = CASE c1 -> y1
            [] OTHER -> IF c2 THEN y2 ELSE IF c3 THEN y3 ELSE IF c4 THEN y4 ELSE IF c5 THEN y5
                        ELSE IF c6 THEN y6 ELSE z7
  BY Zenon DEF requestMissing
<1>2. from \in 1..size /\ to \in 1..size /\ size \in Nat /\ Typed(s) /\ Shape(s)
  BY MissingMeans, TypedParts DEF Free, Loose, Asked, Typed
<1> HIDE DEF missing, from, to, size
<1>3. from \in Int /\ from >= 1 /\ from <= size /\ to \in Int /\ to >= 1 /\ to <= size
  BY <1>2
<1>4. PageSize \in Nat \ {0}
  BY Numbers DEF NumbersFact
<1>5. fetch \in Nat /\ tail \in Nat
  <2> DEFINE i == to - from + 1
             j == size - from + 1
  <2>1. i \in Int /\ j \in Int
    BY <1>2, <1>3
  <2> HIDE DEF i, j
  <2>2. fetch = (IF PageSize >= i THEN PageSize ELSE i) /\ tail = IF PageSize >= j THEN PageSize ELSE j
    BY <1>4, <2>1, MaxTwo DEF i, j
  <2> QED BY <1>4, <2>1, <2>2
<1> HIDE DEF fetch, tail
<1>6. b4 \in Int
  <2> DEFINE i == from + fetch - 1
  <2>1. i \in Int
    BY <1>3, <1>5
  <2> HIDE DEF i
  <2>2. Min({size, i}) = IF size <= i THEN size ELSE i
    BY <1>2, <2>1, MinTwo
  <2> QED BY <1>2, <2>1, <2>2 DEF i
<1>7. a5 \in Int /\ a5 # 0 /\ a6 \in Int /\ a6 # 0
  <2> DEFINE i == to + 1 - fetch
             j == size - tail + 1
  <2>1. i \in Int /\ j \in Int
    BY <1>2, <1>3, <1>5
  <2> HIDE DEF i, j
  <2>2. Max({1, i}) = (IF 1 >= i THEN 1 ELSE i) /\ Max({1, j}) = (IF 1 >= j THEN 1 ELSE j)
    BY <2>1, MaxTwo
  <2> QED BY <2>1, <2>2 DEF i, j
<1>8. \A i \in DOMAIN s.slots : s.slots[i] \in Nat
  BY <1>2, TypedParts
<1>9. HasWindow(s) => Head(w.ids) \in Nat /\ Last(w.ids) \in Nat
  <2> DEFINE q == w.ids
  <2>1. q \in Seq(Nat)
    BY <1>2, TypedParts
  <2>2. HasWindow(s) => q # <<>>
    BY DEF HasWindow
  <2>3. Last(q) = q[Len(q)]
    BY DEF Last
  <2> HIDE DEF q
  <2>4. q # <<>> => Head(q) \in Nat /\ Len(q) \in 1..Len(q)
    BY <2>1
  <2>5. q # <<>> => q[Len(q)] \in Nat
    BY <2>1, <2>4
  <2> QED BY <2>2, <2>3, <2>4, <2>5 DEF q
<1>10. gated \in BOOLEAN /\ (gated => s.gate.first = 0)
  OBVIOUS
<1>11. c1 => s.gate.first # 0
  BY DEF canAttach
<1>12. c1 => Whole(y1, 0) /\ Eased(s, y1)
  BY <1>11, AttachWhole
<1>13. "growBefore" \in Listed /\ "growAfter" \in Listed
  BY DEF Listed
<1>14. c2 => Whole(y2, 0) /\ Eased(s, y2)
  BY <1>5, <1>9, <1>13, AskFree
<1>15. c3 => Whole(y3, 0) /\ Eased(s, y3)
  BY <1>5, <1>9, <1>13, AskFree
<1> HIDE DEF b4, a5, a6, gated
<1>16. c4 => Whole(y4, 0) /\ Eased(s, y4)
  <2>1. ASSUME c4 PROVE s.slots[from - 1] \in Nat
    BY <1>8, <2>1 DEF isCursorReadyIndex
  <2>2. from # 0
    BY <1>3
  <2> HIDE DEF c4
  <2> QED BY <1>3, <1>5, <1>6, <1>10, <2>1, <2>2, BeginAsk
<1>17. c5 => Whole(y5, 0) /\ Eased(s, y5)
  <2>1. ASSUME c5 PROVE s.slots[to + 1] \in Nat
    BY <1>8, <2>1 DEF isCursorReadyIndex
  <2> HIDE DEF c5
  <2> QED BY <1>3, <1>5, <1>7, <1>10, <2>1, BeginAsk
<1>18. Whole(y6, 0) /\ Eased(s, y6)
  <2>1. size \in Int /\ 0 \in Nat
    BY <1>2
  <2> QED BY <1>5, <1>7, <1>10, <2>1, BeginAsk
<1>19. lo \in Nat /\ hi \in Int
  BY <1>2, <1>3, PageType DEF size
<1> HIDE DEF lo, hi
<1>20. Whole(y7, 0) /\ EasedBut(s, y7, d)
  BY <1>19, PagesWhole
<1>21. z7 = y7
  <2> DEFINE n == Cardinality(lo..hi)
             S == {[kind |-> "page", at |-> page, n |-> PageSize, d |-> d, edge |-> first = 1 /\ page = hi,
                    gated |-> FALSE, since |-> Len(history)] : page \in lo..hi}
             v == [s EXCEPT !.pending[d] = n, !.flight = @ \cup S]
  <2>1. S = PageReqs(lo, hi, d, first)
    BY DEF PageReqs, PageReq, Req, No
  <2>2. z7 = v
    BY Zenon
  <2> HIDE DEF S, n, z7
  <2>3. v = PendingAndFlight(s, [s.pending EXCEPT ![d] = n], s.flight \cup S)
    BY <1>2 DEF PendingAndFlight, Shape
  <2> QED BY <2>1, <2>2, <2>3 DEF n
<1>22. \A u : Eased(s, u) => EasedBut(s, u, d)
  BY DEF Eased, EasedBut
<1> HIDE DEF t, y1, y2, y3, y4, y5, y6, y7, z7, c1, c2, c3, c4, c5, c6
<1>23. t = IF c1 THEN y1 ELSE IF c2 THEN y2 ELSE IF c3 THEN y3 ELSE IF c4 THEN y4 ELSE IF c5 THEN y5
           ELSE IF c6 THEN y6 ELSE y7
  BY <1>1, <1>21
<1> QED BY <1>12, <1>14, <1>15, <1>16, <1>17, <1>18, <1>20, <1>22, <1>23 DEF t

\* requestRange changes nothing, or keeps the books and the search.
LEMMA RangeAsked ==
    ASSUME NEW s, Whole(s, 0), NEW d \in Demands, s.pending[d] = 0, NEW first \in 1..Len(s.slots),
           NEW last \in 1..Len(s.slots), NEW seek \in BOOLEAN
    PROVE  LET t == requestRange(s, first, last, seek, d) IN t = s \/ (Whole(t, 0) /\ EasedBut(s, t, d))
<1> DEFINE asked == [s EXCEPT !.pending[d] = 1]
           tried == [asked EXCEPT !.tried = TRUE]
           x1 == probeEstimatedOldestBoundary(tried, d)
           x2 == requestMissing(asked, first, last, seek, d)
           t == requestRange(s, first, last, seek, d)
<1>1. t = IF first = 1 /\ ~s.tried /\ initialBoundaryProbePages(s) > 1 THEN x1
          ELSE IF Missing(s, first, last) = {} THEN s ELSE x2
  BY Zenon DEF requestRange
<1>2. Free(asked, d) /\ EasedBut(s, asked, d) /\ Shape(asked) /\ asked.slots = s.slots
  BY CallMade
<1> HIDE DEF asked
<1>3. Whole(x1, 0) /\ Eased(tried, x1) /\ Eased(asked, tried) /\ Asked(tried) /\ Asked(asked)
  <2>1. tried = Asking(asked, asked.gate, asked.probe, TRUE, asked.pending, asked.flight)
    BY <1>2, WriteTried
  <2> HIDE DEF tried
  <2>2. Same(asked, tried)
    <3>1. Typed(asked)
      BY <1>2 DEF Free, Loose, Asked
    <3>2. tried = Asking(asked, asked.gate, asked.probe, Yes, asked.pending, asked.flight)
      BY <2>1 DEF Yes
    <3> QED BY <3>1, <3>2, AskingFields DEF Same
  <2>3. Loose(tried, d) /\ Eased(asked, tried) /\ Searching(tried)
    BY <1>2, <2>2, SameLoose, SameSearching DEF Free
  <2>4. Whole(x1, 0) /\ Eased(tried, x1)
    BY <2>3, EstimatedWhole
  <2> QED BY <1>2, <2>3, <2>4 DEF Free, Loose
<1> HIDE DEF tried, x1
<1>4. EasedBut(s, x1, d)
  <2>1. Eased(asked, x1)
    BY <1>3, EasedTrans DEF Whole, Loose
  <2>2. \A c \in Demands : s.pending[c] \in Int /\ asked.pending[c] \in Int /\ x1.pending[c] \in Int
    BY <1>3 DEF Whole, Loose, Asked
  <2>3. ASSUME NEW c \in Demands, c # d PROVE x1.pending[c] <= s.pending[c]
    <3>1. x1.pending[c] <= asked.pending[c] /\ asked.pending[c] <= s.pending[c]
      BY <1>2, <2>1, <2>3 DEF Eased, EasedBut
    <3> QED BY <2>2, <3>1
  <2> QED BY <2>3 DEF EasedBut
<1>5. ASSUME Missing(s, first, last) # {} PROVE Whole(x2, 0) /\ EasedBut(s, x2, d)
  <2>1. Missing(asked, first, last) # {}
    BY <1>2, <1>5 DEF Missing
  <2>2. Whole(x2, 0) /\ EasedBut(asked, x2, d)
    BY <1>2, <2>1, MissingAsked
  <2> HIDE DEF x2
  <2>3. \A c \in Demands : s.pending[c] \in Int /\ asked.pending[c] \in Int /\ x2.pending[c] \in Int
    BY <1>3, <2>2 DEF Whole, Loose, Asked
  <2>4. ASSUME NEW c \in Demands, c # d PROVE x2.pending[c] <= s.pending[c]
    <3>1. x2.pending[c] <= asked.pending[c] /\ asked.pending[c] <= s.pending[c]
      BY <1>2, <2>2, <2>4 DEF EasedBut
    <3> QED BY <2>3, <3>1
  <2> QED BY <2>2, <2>4 DEF EasedBut
<1> HIDE DEF t, x2
<1>6. (t = x1) \/ (t = s) \/ (t = x2 /\ Missing(s, first, last) # {})
  BY <1>1
<1> QED BY <1>3, <1>4, <1>5, <1>6 DEF t

\* Requests that no demand waits for: validate, prepend, around.
LEMMA AskNobody ==
    ASSUME NEW s, Whole(s, 0), NEW kind \in {"validate", "prepend", "around"}, NEW at \in Nat, NEW n \in Nat
    PROVE  Whole(Ask(s, kind, at, n, 0), 0) /\ Eased(s, Ask(s, kind, at, n, 0))
<1> DEFINE r == Req(kind, at, n, 0, No, No)
           t == Ask(s, kind, at, n, 0)
           u == Asking(s, s.gate, s.probe, s.tried, s.pending, s.flight \cup {r})
<1>1. No \in BOOLEAN /\ ~No
  BY DEF No
<1>2. t = u
  <2>1. t = AskGated(s, kind, at, n, 0, No)
    BY AskUngated
  <2>2. Shape(s)
    BY DEF Whole, Loose, Asked, Typed
  <2> HIDE DEF t
  <2> QED BY <2>1, <2>2, AskIs
<1>3. Request(r) /\ r.kind = kind /\ r.d = 0 /\ ~r.gated
  <2>1. kind \notin Listed /\ kind \in Search \cup Listed \cup {"validate", "prepend", "around"}
    BY DEF Listed
  <2>2. LET q == Req(kind, at, n, 0, No, No) IN Request(q) /\ q.kind = kind /\ q.at = at /\ q.d = 0 /\ q.gated = No
    BY <1>1, <2>1, ReqIs
  <2> QED BY <1>1, <2>2
<1> HIDE DEF r, t
<1>4. Asked(u) /\ Gating(u) /\ Eased(s, u) /\ Balanced(u, 0)
  BY <1>3, AddRequest DEF Whole
<1>5. u.probe = s.probe /\ u.flight = s.flight \cup {r}
  <2> DEFINE x == s.flight \cup {r}
  <2> HIDE DEF x
  <2>1. u = Asking(s, s.gate, s.probe, s.tried, s.pending, x)
    BY DEF x
  <2> HIDE DEF u
  <2> QED BY <2>1, AskingGot DEF x
<1> HIDE DEF u
<1>6. Searching(u)
  <2>1. \A q \in {r} : q.kind \notin Search
    BY <1>3 DEF Search
  <2> QED BY <1>5, <2>1, SearchingMore DEF Whole
<1> QED BY <1>2, <1>4, <1>6 DEF Whole, Loose, t

LEMMA SameWhole ==
    ASSUME NEW s, NEW t, Whole(s, 0), Same(s, t)
    PROVE  Whole(t, 0) /\ Eased(s, t)
BY SameLoose, SameSearching DEF Whole
-----------------------------------------------------------------------------
(* A source that is opened.                                                *)

Made(counted, total, slots, adjustment, provisional, window, gate, probe, tried, more, before, pending, flight) ==
    [counted |-> counted, total |-> total, slots |-> slots,
     adjustment |-> adjustment, provisional |-> provisional, window |-> window,
     gate |-> gate, probe |-> probe, tried |-> tried, more |-> more,
     before |-> before, pending |-> pending, flight |-> flight]

FirstSlots(posts, count, seeded) ==
    IF count = -1 THEN IF seeded THEN <<posts>> ELSE <<>>
    ELSE Empties(Max({1, count}) - 1) \o <<IF seeded THEN posts ELSE 0>>

LEMMA MadeShape ==
    ASSUME NEW a, NEW b, NEW c, NEW d, NEW e, NEW f, NEW g, NEW h, NEW i, NEW j, NEW k, NEW l, NEW m
    PROVE  Shape(Made(a, b, c, d, e, f, g, h, i, j, k, l, m))
BY DEF Shape, Made

LEMMA OpenedShape ==
    ASSUME NEW posts, NEW count, NEW seeded
    PROVE  LET t == Opened(posts, count, seeded)
           IN /\ Shape(t) /\ t.total = Max({0, count}) /\ t.adjustment = 0 /\ t.window = NoWindow
              /\ t.gate = NoGate /\ t.probe = NoProbe /\ t.pending = [d \in Demands |-> 0] /\ t.flight = {}
              /\ t.slots = FirstSlots(posts, count, seeded)
<1> DEFINE slots == IF count = -1 THEN IF seeded THEN <<posts>> ELSE <<>>
                    ELSE Empties(Max({1, count}) - 1) \o <<IF seeded THEN posts ELSE 0>>
           counted == count # -1
           more == count = -1
           zero == [d \in Demands |-> 0]
           total == Max({0, count})
           none == {}
           nought == 0
           t == Opened(posts, count, seeded)
<1>1. t = Made(counted, total, slots, nought, none, NoWindow, NoGate, NoProbe, No, more, No, zero, none)
  BY Zenon DEF Opened, Made, No
<1> HIDE DEF t, slots, counted, more, zero, total, none, nought
<1>2. t.total = total /\ t.adjustment = nought /\ t.window = NoWindow
      /\ t.gate = NoGate /\ t.probe = NoProbe /\ t.pending = zero /\ t.flight = none /\ t.slots = slots
  BY <1>1 DEF Made
<1>3. Shape(t)
  BY <1>1, MadeShape
<1> QED BY <1>2, <1>3 DEF t, slots, zero, total, none, nought, FirstSlots

\* A source that is opened waits for nothing.
LEMMA OpenedWhole ==
    ASSUME NEW posts \in Nat, NEW count \in Nat \cup {-1}, NEW seeded \in BOOLEAN
    PROVE  /\ Whole(Opened(posts, count, seeded), 0)
           /\ \A d \in Demands : Opened(posts, count, seeded).pending[d] = 0
<1> DEFINE t == Opened(posts, count, seeded)
           zero == [d \in Demands |-> 0]
           slots == FirstSlots(posts, count, seeded)
<1>1. /\ Shape(t) /\ t.total = Max({0, count}) /\ t.adjustment = 0 /\ t.window = NoWindow
      /\ t.gate = NoGate /\ t.probe = NoProbe /\ t.pending = zero /\ t.flight = {} /\ t.slots = slots
  BY OpenedShape
<1>2. zero \in [Demands -> Int] /\ \A d \in Demands : zero[d] = 0
  OBVIOUS
<1>3. slots \in Seq(Nat)
  <2>1. <<posts>> \in Seq(Nat) /\ <<>> \in Seq(Nat) /\ <<IF seeded THEN posts ELSE 0>> \in Seq(Nat)
    OBVIOUS
  <2> DEFINE m == Max({1, count}) - 1
             new == <<IF seeded THEN posts ELSE 0>>
  <2>2. m \in Int
    BY MaxTwo
  <2> HIDE DEF m, new
  <2>3. Empties(m) \o new \in Seq(Nat)
    BY <2>1, <2>2, EmptiesMeans, JoinMeans DEF new
  <2> QED BY <2>1, <2>3 DEF m, new, FirstSlots
<1> HIDE DEF t, slots, zero
<1>4. t.total \in Int
  BY <1>1, MaxTwo
<1>5. Typed(t)
  BY <1>1, <1>3, <1>4, NoWindowShape DEF Typed
<1>6. Asked(t)
  BY <1>1, <1>2, <1>5, NoGateShape, NoProbeShape, FS_EmptySet DEF Asked
<1>7. Gating(t)
  BY <1>1, NoGateShape DEF Gating
<1>8. Balanced(t, 0)
  <2>1. ASSUME NEW d \in Demands
        PROVE  zero[d] = Cardinality(Own({}, d)) + Waits(d, NoGate, NoProbe) + IF d = 0 THEN 1 ELSE 0
    <3>1. Own({}, d) = {}
      BY DEF Own
    <3>2. Cardinality({d} \cap NoGate.waiters) = 0 /\ Cardinality({}) = 0
      BY NoGateShape, NoProbeShape, WaitsNat, FS_EmptySet
    <3>3. Waits(d, NoGate, NoProbe) = 0
      BY <3>2, NoProbeShape DEF Waits
    <3>4. zero[d] = 0 /\ d # 0
      BY <1>2, NoDemand
    <3> HIDE DEF zero
    <3> QED BY <3>1, <3>2, <3>3, <3>4
  <2> QED BY <1>1, <2>1 DEF Balanced
<1>9. Searching(t)
  BY <1>1, NoProbeShape DEF Searching, Quiet
<1> QED BY <1>1, <1>2, <1>6, <1>7, <1>8, <1>9 DEF Whole, Loose, t
-----------------------------------------------------------------------------
(* The invariant: the books of the source are kept, no demand that is still *)
(* to come is waited for, and every version of the channel is a sequence.   *)

Fresh(s, n) == \A d \in Demands : d <= n => s.pending[d] = 0
Versions(h, v) == h \in Seq(Seq(Nat)) /\ h # <<>> /\ v \in 1..Len(h)
Accounts ==
    /\ Versions(history, seen) /\ inputs \in 0..MaxInputs
    /\ Whole(source, 0) /\ Fresh(source, inputs)

LEMMA VersionType ==
    ASSUME NEW h, NEW v, Versions(h, v)
    PROVE  Len(h) \in Nat \ {0} /\ \A k \in 1..Len(h) : h[k] \in Seq(Nat)
BY DEF Versions

\* No demand is owed less than nothing.
LEMMA PendingNat ==
    ASSUME NEW s, Whole(s, 0), NEW d \in Demands
    PROVE  s.pending[d] \in Nat
<1>1. s.pending[d] = Cardinality(Own(s.flight, d)) + Waits(d, s.gate, s.probe) + IF d = 0 THEN 1 ELSE 0
  BY DEF Whole, Loose, Balanced
<1>2. Cardinality(Own(s.flight, d)) \in Nat
  BY OwnFinite, FS_CardinalityType DEF Whole, Loose, Asked
<1>3. Waits(d, s.gate, s.probe) \in Nat
  BY WaitsNat DEF Whole, Loose, Asked
<1> QED BY <1>1, <1>2, <1>3

\* Demands that are still to come stay so.
LEMMA FreshEased ==
    ASSUME NEW s, NEW t, NEW n, Whole(s, 0), Whole(t, 0), Eased(s, t), Fresh(s, n)
    PROVE  Fresh(t, n)
<1>1. ASSUME NEW d \in Demands, d <= n PROVE t.pending[d] = 0
  <2>1. s.pending[d] = 0 /\ t.pending[d] <= s.pending[d]
    BY <1>1 DEF Fresh, Eased
  <2> QED BY <2>1, PendingNat
<1> QED BY <1>1 DEF Fresh

LEMMA FreshLess ==
    ASSUME NEW s, NEW n \in Int, Fresh(s, n)
    PROVE  Fresh(s, n - 1)
<1>1. ASSUME NEW d \in Demands, d <= n - 1 PROVE s.pending[d] = 0
  <2>1. d <= n
    BY <1>1, NoDemand
  <2> QED BY <2>1 DEF Fresh
<1> QED BY <1>1 DEF Fresh

LEMMA FreshBut ==
    ASSUME NEW s, NEW t, NEW n \in Int, Whole(s, 0), Whole(t, 0), EasedBut(s, t, n), Fresh(s, n)
    PROVE  Fresh(t, n - 1)
<1>1. ASSUME NEW d \in Demands, d <= n - 1 PROVE t.pending[d] = 0
  <2>1. d <= n /\ d # n
    BY <1>1, NoDemand
  <2>2. s.pending[d] = 0 /\ t.pending[d] <= s.pending[d]
    BY <2>1 DEF Fresh, EasedBut
  <2> QED BY <2>2, PendingNat
<1> QED BY <1>1 DEF Fresh

LEMMA EasedWhole ==
    ASSUME NEW s, NEW t, NEW u, Whole(s, 0), Whole(t, 0), Whole(u, 0), Eased(s, t), Eased(t, u)
    PROVE  Eased(s, u)
BY EasedTrans DEF Whole, Loose

LEMMA AskedTyped ==
    ASSUME NEW s, Whole(s, 0)
    PROVE  Typed(s)
BY DEF Whole, Loose, Asked

LEMMA AccountsParts ==
    ASSUME Accounts
    PROVE  /\ Versions(history, seen) /\ inputs \in Nat /\ inputs <= MaxInputs
           /\ Whole(source, 0) /\ Fresh(source, inputs) /\ Typed(source)
BY MostInputs, AskedTyped DEF Accounts

LEMMA InputTaken ==
    ASSUME inputs \in 0..MaxInputs, Input
    PROVE  inputs \in Demands /\ inputs' \in 0..MaxInputs /\ inputs' = inputs - 1
BY MostInputs DEF Input, Demands

\* One step per action: the list asks for a range.
LEMMA RequestRangeKeeps ==
    ASSUME Accounts, RequestRange
    PROVE  Accounts'
<1>1. PICK first \in DOMAIN source.slots, last \in DOMAIN source.slots, seek \in BOOLEAN :
         source' = requestRange(source, first, last, seek, inputs) /\ source' # source
  BY DEF RequestRange
<1>2. Input /\ history' = history /\ seen' = seen
  BY DEF RequestRange
<1>3. inputs \in Demands /\ inputs' \in 0..MaxInputs /\ inputs' = inputs - 1
  BY <1>2, InputTaken DEF Accounts
<1>4. Whole(source, 0) /\ Fresh(source, inputs) /\ first \in 1..Len(source.slots) /\ last \in 1..Len(source.slots)
  BY AccountsParts, TypedParts
<1>5. source.pending[inputs] = 0
  <2>1. inputs <= inputs
    BY AccountsParts
  <2> QED BY <1>3, <1>4, <2>1 DEF Fresh
<1> DEFINE t == requestRange(source, first, last, seek, inputs)
<1>6. t = source \/ (Whole(t, 0) /\ EasedBut(source, t, inputs))
  BY <1>3, <1>4, <1>5, RangeAsked
<1>7. source' = t /\ t # source
  BY <1>1
<1> HIDE DEF t
<1>8. Whole(source', 0) /\ EasedBut(source, source', inputs)
  BY <1>6, <1>7
<1>9. Fresh(source', inputs - 1)
  BY <1>4, <1>8, FreshBut, AccountsParts
<1> QED BY <1>2, <1>3, <1>8, <1>9 DEF Accounts
\* Rows before the first are asked for.
LEMMA BeforeFirstKeeps ==
    ASSUME Accounts, requestBeforeFirst
    PROVE  Accounts'
<1> DEFINE s == [source EXCEPT !.before = Yes]
           at == IF s.slots = <<>> THEN 0 ELSE Head(s.slots)
           t == Ask(s, "prepend", at, PageSize, 0)
<1>1. history' = history /\ seen' = seen /\ inputs' = inputs
  BY DEF requestBeforeFirst
<1>2. Whole(source, 0) /\ Fresh(source, inputs) /\ Typed(source)
  BY AccountsParts
<1>3. Same(source, s) /\ s.slots = source.slots
  BY <1>2, WriteBefore
<1>4. source' = t
  BY <1>3 DEF requestBeforeFirst, Yes
<1> HIDE DEF s
<1>5. Whole(s, 0) /\ Eased(source, s)
  BY <1>2, <1>3, SameWhole
<1>6. at \in Nat
  <2>1. s.slots \in Seq(Nat)
    BY <1>5, AskedTyped, TypedParts
  <2> QED BY <2>1
<1> HIDE DEF at
<1>7. Whole(t, 0) /\ Eased(s, t)
  <2>1. PageSize \in Nat
    BY Numbers DEF NumbersFact
  <2> QED BY <1>5, <1>6, <2>1, AskNobody
<1> HIDE DEF t
<1>8. Fresh(t, inputs)
  BY <1>2, <1>5, <1>7, FreshEased
<1> QED BY <1>1, <1>4, <1>7, <1>8 DEF Accounts

\* A jump.
LEMMA NavigateKeeps ==
    ASSUME Accounts, NavigateTo
    PROVE  Accounts'
<1>1. PICK p \in Range(Current) : source' = Ask(source, "around", p, 1, 0)
  BY DEF NavigateTo
<1>2. Input /\ history' = history /\ seen' = seen
  BY DEF NavigateTo
<1>3. inputs' \in 0..MaxInputs /\ inputs' = inputs - 1
  BY <1>2, InputTaken DEF Accounts
<1>4. p \in Nat
  <2>1. Current \in Seq(Nat)
    BY AccountsParts, VersionType DEF Current
  <2> QED BY <2>1 DEF Range
<1>5. Whole(source', 0) /\ Eased(source, source')
  <2>1. Whole(source, 0) /\ 1 \in Nat
    BY AccountsParts
  <2> DEFINE t == Ask(source, "around", p, 1, 0)
  <2>2. Whole(t, 0) /\ Eased(source, t)
    BY <1>4, <2>1, AskNobody
  <2> HIDE DEF t
  <2> QED BY <1>1, <2>2 DEF t
<1>6. Fresh(source', inputs - 1)
  <2>1. Fresh(source', inputs)
    BY <1>5, FreshEased, AccountsParts
  <2> QED BY <2>1, FreshLess, AccountsParts
<1> QED BY <1>2, <1>3, <1>5, <1>6 DEF Accounts

LEMMA TailHydrated ==
    ASSUME NEW s, Whole(s, 0), NEW guessed, NEW first \in Int, NEW ids \in Seq(Nat)
    PROVE  LET t == Ask(assignExactWindow([s EXCEPT !.provisional = guessed], first, ids), "validate", 0, PageSize, 0)
           IN Whole(t, 0) /\ Eased(s, t)
<1> DEFINE u == [s EXCEPT !.provisional = guessed]
           w == assignExactWindow(u, first, ids)
           t == Ask(w, "validate", 0, PageSize, 0)
<1>1. Placed(s, u)
  BY GuessedPlaces, AskedTyped
<1> HIDE DEF u
<1>2. Placed(u, w)
  BY <1>1, AssignPlaces DEF Placed
<1> HIDE DEF w
<1>3. Whole(w, 0) /\ Eased(s, w)
  BY <1>1, <1>2, PlacedTrans, PlacedWhole
<1>4. Whole(t, 0) /\ Eased(w, t)
  <2>1. PageSize \in Nat /\ 0 \in Nat
    BY Numbers DEF NumbersFact
  <2> QED BY <1>3, <2>1, AskNobody
<1> HIDE DEF t
<1>5. Eased(s, t)
  BY <1>3, <1>4, EasedWhole
<1> QED BY <1>4, <1>5 DEF t, w, u

\* The cached tail.
LEMMA HydrateKeeps ==
    ASSUME Accounts, hydrateCachedTail
    PROVE  Accounts'
<1> DEFINE n == Min({PageSize, Len(source.slots), Len(history[1])})
           ids == Slice(history[1], Len(history[1]) - n + 1, Len(history[1])).ids
           first == Len(source.slots) - n + 1
           guessed == source.provisional \cup {p \in Range(ids) : IndexOf(source, p) = 0}
           t == Ask(assignExactWindow([source EXCEPT !.provisional = guessed], first, ids), "validate", 0, PageSize, 0)
<1>1. history' = history /\ seen' = seen /\ inputs' = inputs
  BY DEF hydrateCachedTail
<1>2. source' = source \/ source' = t
  BY Zenon DEF hydrateCachedTail
<1>3. n \in Int
  <2>1. PageSize \in Nat /\ Len(source.slots) \in Nat
    BY Numbers, AccountsParts, TypedParts DEF NumbersFact
  <2>2. Len(history[1]) \in Nat
    <3>1. 1 \in 1..Len(history)
      BY AccountsParts, VersionType
    <3>2. history[1] \in Seq(Nat)
      BY <3>1, AccountsParts, VersionType
    <3> QED BY <3>2
  <2> DEFINE S == {PageSize, Len(source.slots), Len(history[1])}
  <2>3. S \subseteq Nat /\ S # {}
    BY <2>1, <2>2
  <2>4. Min(S) \in S
    BY <2>3, MinExists
  <2> HIDE DEF S
  <2> QED BY <2>3, <2>4 DEF S
<1> HIDE DEF n
<1>4. first \in Int /\ Len(history[1]) \in Int /\ Len(history[1]) - n + 1 \in Int
  <2>1. Len(source.slots) \in Int
    BY AccountsParts, TypedParts
  <2>2. Len(history[1]) \in Int
    BY AccountsParts, VersionType
  <2> QED BY <1>3, <2>1, <2>2
<1>5. ids \in Seq(Nat)
  <2>1. history[1] \in Seq(Nat)
    BY AccountsParts, VersionType
  <2> QED BY <1>4, <2>1, SliceType
<1> HIDE DEF first, ids, guessed
<1>6. Whole(t, 0) /\ Eased(source, t)
  BY <1>4, <1>5, TailHydrated, AccountsParts
<1> HIDE DEF t
<1>7. Fresh(t, inputs)
  BY <1>6, FreshEased, AccountsParts
<1>8. Whole(source', 0) /\ Fresh(source', inputs)
  BY <1>2, <1>6, <1>7, AccountsParts
<1> QED BY <1>1, <1>8 DEF Accounts
\* A reply or a failure.
LEMMA AnswerKeeps ==
    ASSUME Accounts, Answer
    PROVE  Accounts'
<1>1. PICK f \in source.flight, v \in 1..Len(history), ok \in BOOLEAN, guess \in DOMAIN source.slots \cup {1} :
        /\ v >= f.since
        /\ guess # 1 => f.kind = "around" /\ ok
        /\ IF ok THEN UNCHANGED inputs ELSE Input /\ v = f.since
        /\ source' = answered([source EXCEPT !.flight = @ \ {f}], f, ok, Reply(Asks(f), history[v]), guess)
        /\ drifted' = (drifted \/ (ok /\ (v # seen \/ Misplaced(f, Reply(Asks(f), history[v])))))
        /\ misled' = (misled \/ (ok /\ Misled(f)))
        /\ UNCHANGED <<history, seen, cached>>
  BY Zenon DEF Answer, Asks
<1> DEFINE s == [source EXCEPT !.flight = @ \ {f}]
           r == Reply(Asks(f), history[v])
           t == answered(s, f, ok, r, guess)
<1>2. Whole(source, 0) /\ Fresh(source, inputs) /\ Typed(source)
  BY AccountsParts
<1>3. Rest(s, f) /\ Eased(source, s) /\ Request(f) /\ (f.kind \in Search => Carried(s, f))
  BY <1>2, RestOf
<1> HIDE DEF s
<1>4. r.ids \in Seq(Nat)
  <2>1. history[v] \in Seq(Nat)
    BY AccountsParts, VersionType
  <2> QED BY <1>3, <2>1, AsksType
<1> HIDE DEF r
<1>5. guess \in Int
  BY <1>2, TypedParts
<1>6. Whole(t, 0) /\ Eased(s, t)
  BY <1>3, <1>4, <1>5, AnsweredWhole
<1> HIDE DEF t
<1>7. Eased(source, t)
  <2>1. Asked(s)
    BY <1>3 DEF Rest, Loose, Answering
  <2> QED BY <1>2, <1>3, <1>6, <2>1, EasedTrans DEF Whole, Loose
<1>8. source' = t
  BY <1>1 DEF t, s, r
<1>9. Whole(source', 0) /\ Fresh(source', inputs)
  BY <1>2, <1>6, <1>7, <1>8, FreshEased
<1>10. inputs' \in 0..MaxInputs /\ Fresh(source', inputs')
  <2>1. CASE ok
    BY <1>1, <1>9, <2>1 DEF Accounts
  <2>2. CASE ~ok
    <3>1. inputs' \in 0..MaxInputs /\ inputs' = inputs - 1
      BY <1>1, <2>2, InputTaken DEF Accounts
    <3> QED BY <1>9, <3>1, FreshLess, AccountsParts
  <2> QED BY <2>1, <2>2
<1> QED BY <1>1, <1>9, <1>10 DEF Accounts

\* A new post has a number.
LEMMA NextPost ==
    ASSUME inputs \in Demands
    PROVE  Max(Posts) - inputs + 1 \in Nat
<1> DEFINE counts == {c.posts : c \in Channels}
           most == MaxInputs + Max(counts)
<1>1. counts \subseteq Nat /\ counts # {} /\ IsFiniteSet(counts)
  <2>1. IsFiniteSet(Channels) /\ Channels # {} /\ \A c \in Channels : c.posts \in Nat
    BY ChannelPostsAssumption
  <2> DEFINE f == [c \in Channels |-> c.posts]
  <2>2. f \in Surjection(Channels, counts)
    BY DEF Surjection
  <2>3. counts \subseteq Nat /\ counts # {}
    BY <2>1
  <2> HIDE DEF counts, f
  <2> QED BY <2>1, <2>2, <2>3, FS_Surjection
<1>2. Max(counts) \in Nat
  BY <1>1, MaxExists
<1> HIDE DEF counts
<1>3. most \in Nat /\ MaxInputs <= most /\ MaxInputs \in Nat /\ Posts = 1..most
  BY <1>2, MostInputs DEF Posts, counts
<1> HIDE DEF most
<1>4. inputs \in Nat /\ inputs \in Posts
  BY <1>3 DEF Demands
<1>5. Posts \subseteq Int /\ IsFiniteSet(Posts)
  BY <1>3, FS_Interval
<1> DEFINE m == Max(Posts)
<1>6. m \in Posts /\ m >= inputs
  BY <1>4, <1>5, MaxExists
<1> HIDE DEF m
<1>7. m \in Nat
  BY <1>3, <1>6
<1>8. m - inputs + 1 \in Nat
  BY <1>4, <1>6, <1>7
<1> QED BY <1>8 DEF m

\* A post is written or deleted.
LEMMA ServerChangesKeeps ==
    ASSUME Accounts, ServerChanges
    PROVE  Accounts'
<1>1. Input /\ seen' = seen /\ source' = source
  BY DEF ServerChanges
<1>2. inputs \in Demands /\ inputs' \in 0..MaxInputs /\ inputs' = inputs - 1
  BY <1>1, InputTaken DEF Accounts
<1>3. history \in Seq(Seq(Nat)) /\ history # <<>> /\ seen \in 1..Len(history)
  BY AccountsParts DEF Versions
<1>4. Current \in Seq(Nat)
  BY AccountsParts, VersionType DEF Current
<1>5. PICK new : history' = Append(history, new) /\ new \in Seq(Nat)
  <2>1. CASE history' = Append(history, Append(Current, Max(Posts) - inputs + 1))
    <3>1. Append(Current, Max(Posts) - inputs + 1) \in Seq(Nat)
      BY <1>2, <1>4, NextPost
    <3> QED BY <2>1, <3>1
  <2>2. CASE \E p \in Range(Current) : history' = Append(history, Without(Current, {p}))
    BY <1>4, <2>2, WithoutMeans
  <2> QED BY <2>1, <2>2 DEF ServerChanges
<1>6. Versions(history', seen')
  <2> DEFINE S == Seq(Nat)
  <2>1. history \in Seq(S) /\ new \in S /\ history' = Append(history, new)
    BY <1>3, <1>5
  <2> HIDE DEF S
  <2>2. history' \in Seq(S) /\ history' # <<>> /\ Len(history') = Len(history) + 1 /\ Len(history) \in Nat
    BY <2>1
  <2>3. seen \in 1..Len(history')
    BY <1>3, <2>2
  <2> QED BY <1>1, <2>2, <2>3 DEF Versions, S
<1>7. Fresh(source', inputs')
  BY <1>1, <1>2, FreshLess, AccountsParts
<1> QED BY <1>1, <1>2, <1>6, <1>7 DEF Accounts

\* An event arrives.
LEMMA EventKeeps ==
    ASSUME Accounts, EventArrives
    PROVE  Accounts'
<1> DEFINE old == Range(history[seen])
           new == Range(history[seen + 1])
           p == CHOOSE q \in old \cup new : q \notin old \cap new
<1>1. /\ seen < Len(history) /\ seen' = seen + 1 /\ history' = history /\ inputs' = inputs
      /\ source' = IF p \in new THEN appendLivePost(source, p) ELSE postDeleted(source, p)
  BY DEF EventArrives
<1>2. seen + 1 \in 1..Len(history) /\ Versions(history, seen + 1)
  BY <1>1, AccountsParts DEF Versions
<1>3. new \subseteq Nat
  <2>1. history[seen + 1] \in Seq(Nat)
    BY <1>2, VersionType
  <2> QED BY <2>1 DEF Range
<1> HIDE DEF p, new, old
<1>4. Placed(source, source')
  <2>1. CASE p \in new
    BY <1>1, <1>3, <2>1, LivePlaces, AccountsParts
  <2>2. CASE p \notin new
    BY <1>1, <2>2, DeletedPlaces, AccountsParts
  <2> QED BY <2>1, <2>2
<1>5. Whole(source', 0) /\ Eased(source, source')
  BY <1>4, PlacedWhole, AccountsParts
<1>6. Fresh(source', inputs)
  BY <1>5, FreshEased, AccountsParts
<1> QED BY <1>1, <1>2, <1>5, <1>6 DEF Accounts

\* The initial states keep the books.
LEMMA InitAccounts ==
    ASSUME Init
    PROVE  Accounts
<1>1. PICK c \in Channels, seeded \in BOOLEAN :
        /\ history = <<[i \in 1..c.posts |-> i]>>
        /\ source = Opened(c.posts, c.count, seeded)
        /\ inputs = c.inputs
  BY DEF Init
<1>2. c.posts \in Nat /\ c.count \in Nat \cup {-1} /\ c.inputs \in Nat
  BY ChannelPostsAssumption
<1>3. Versions(history, seen)
  <2>1. [i \in 1..c.posts |-> i] \in Seq(Nat)
    BY <1>2, ASequence
  <2>2. seen = 1
    BY DEF Init
  <2> DEFINE h == [i \in 1..c.posts |-> i]
  <2> HIDE DEF h
  <2>3. <<h>> \in Seq(Seq(Nat)) /\ <<h>> # <<>> /\ 1 \in 1..Len(<<h>>)
    BY <2>1 DEF h
  <2> QED BY <1>1, <2>2, <2>3 DEF Versions, h
<1>4. inputs \in 0..MaxInputs
  BY <1>1, <1>2, MostInputs
<1>5. Whole(source, 0) /\ \A d \in Demands : source.pending[d] = 0
  BY <1>1, <1>2, OpenedWhole
<1> QED BY <1>3, <1>4, <1>5 DEF Accounts, Fresh

\* Books that are kept say who answers every demand.
LEMMA AccountsOwned ==
    ASSUME Accounts
    PROVE  RequestsOwned
<1>1. Whole(source, 0)
  BY DEF Accounts
<1>2. ASSUME NEW d \in Demands
      PROVE  source.pending[d] = Cardinality({f \in source.flight : f.d = d /\ ~f.gated})
                                 + Cardinality({d} \cap source.gate.waiters) + source.probe.waiters[d]
  <2>1. source.pending[d] = Cardinality(Own(source.flight, d)) + Waits(d, source.gate, source.probe)
                            + IF d = 0 THEN 1 ELSE 0
    BY <1>1 DEF Whole, Loose, Balanced
  <2>2. d # 0
    BY NoDemand
  <2>3. Cardinality(Own(source.flight, d)) \in Nat
    BY <1>1, OwnFinite, FS_CardinalityType DEF Whole, Loose, Asked
  <2>4. ProbeShape(source.probe)
    BY <1>1 DEF Whole, Loose, Asked
  <2>5. Cardinality({d} \cap source.gate.waiters) \in Nat /\ source.probe.waiters[d] \in Nat
    BY <2>4, WaitsNat DEF ProbeShape
  <2>6. Own(source.flight, d) = {f \in source.flight : f.d = d /\ ~f.gated}
    BY DEF Own
  <2> DEFINE o == Cardinality(Own(source.flight, d))
             g == Cardinality({d} \cap source.gate.waiters)
  <2>7. source.pending[d] = o + g + source.probe.waiters[d]
    <3>1. source.pending[d] = o + (g + source.probe.waiters[d]) + 0
      BY <2>1, <2>2 DEF Waits
    <3> HIDE DEF o, g
    <3> QED BY <2>3, <2>5, <3>1 DEF o, g
  <2> QED BY <2>6, <2>7
<1>3. source.gate.first # 0 => \E f \in source.flight : f.gated
  BY <1>1 DEF Whole, Loose, Gating
<1>4. source.probe.on => \E f \in source.flight : f.kind \in {"initial", "exists", "oldestPage"}
  BY <1>1 DEF Whole, Searching, Search
<1> QED BY <1>2, <1>3, <1>4 DEF RequestsOwned

\* A search with its one request is narrow until an empty page joins it.
LEMMA AccountsNarrow ==
    ASSUME Accounts
    PROVE  SearchNarrows
<1>1. Searching(source)
  BY DEF Accounts, Whole
<1>2. CASE source.probe.on
  BY <1>1, <1>2 DEF Searching, SearchNarrows, JoinedIn, Joined, Narrowed, Narrow
<1>3. CASE ~source.probe.on
  BY <1>1, <1>3 DEF Searching, SearchNarrows, Narrow, NoProbe
<1> QED BY <1>2, <1>3

\* Every step keeps the books.
LEMMA AccountsNext == Accounts /\ [Next]_vars => Accounts'
<1> SUFFICES ASSUME Accounts, [Next]_vars PROVE Accounts'
  OBVIOUS
<1>1. CASE UNCHANGED vars
  BY <1>1 DEF vars, Accounts
<1> QED BY <1>1, RequestRangeKeeps, BeforeFirstKeeps, NavigateKeeps, HydrateKeeps, AnswerKeeps,
           ServerChangesKeeps, EventKeeps DEF Next

\* The books are kept in every state.
LEMMA AccountsKept == Spec => []Accounts
<1>1. Init => Accounts
  BY InitAccounts
<1>2. Accounts /\ [Next]_vars => Accounts'
  BY AccountsNext
<1> QED BY <1>1, <1>2, PTL DEF Spec

\* Whatever ranges the list asks for, and in whatever order replies, failures, jumps and events
\* come: every call a demand is owed is carried by a request under way, by the gate or by the
\* search, and gate and search have a request that will end them.
THEOREM EveryRangeOwned == Spec => []RequestsOwned
<1>1. Accounts => RequestsOwned
  BY AccountsOwned
<1> QED BY <1>1, AccountsKept, PTL

\* A search for the oldest page that no empty page has joined never believes a page both written
\* and empty, so it ends: no page is asked for for ever.
THEOREM SearchStaysNarrow == Spec => []SearchNarrows
<1>1. Accounts => SearchNarrows
  BY AccountsNarrow
<1> QED BY <1>1, AccountsKept, PTL
================================================================================
