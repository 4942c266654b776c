---------------------------- MODULE ChannelPosts ----------------------------
(***************************************************************************)
(* The rows of a channel in the chat area: ChannelPostSource on top of     *)
(* IndexedPostSource, PostSourceRequestGate and ChannelGapReconciliation.  *)
(*                                                                         *)
(* The source keeps a sequence of slots, oldest first, whose length is an  *)
(* estimate; a slot is empty (0) or holds a root post.  The list asks for  *)
(* ranges of slots; the source answers with absolute pages (counted from   *)
(* the newest post), pages before or after a post whose place is known,    *)
(* and a search for the page where the channel begins.  A jump to a post   *)
(* brings a run of posts whose place may only be guessed: the provisional  *)
(* window.  Every reply is a snapshot of some version of the channel       *)
(* between the request and its delivery, while posts and deletions are     *)
(* announced by events of their own.                                       *)
(*                                                                         *)
(* Posts are the numbers 1, 2, ... in the order the server created them.   *)
(* Slots count from 1 here, from 0 in the code.  A slot that holds a post  *)
(* counts as available: bodies are resident.                               *)
(***************************************************************************)
EXTENDS Integers, Sequences, FiniteSets, SequencesExt, FiniteSetsExt

CONSTANTS
  Channels,       \* of what the runs open: root posts, total_msg_count_root
                  \* (-1 when the server gives none) and the number of inputs:
                  \* demands, jumps, changes on the server and failures, together
  PageSize,       \* ServerPageSize
  ProbePercent,   \* InitialBoundaryProbePercent
  Painted,        \* rows kept on each side of the target of a jump (15)
  Fetched         \* rows fetched on each side of it (30)

ASSUME ChannelPostsAssumption ==
  /\ {PageSize, ProbePercent} \subseteq Nat \ {0}
  /\ {Painted, Fetched} \subseteq Nat
  /\ IsFiniteSet(Channels) /\ Channels # {}
  /\ \A c \in Channels : /\ c.posts \in Nat \ {0} /\ c.inputs \in Nat
                         /\ c.count \in Nat \cup {-1}

VARIABLES
  history,   \* the visible root posts, one sequence per version of the channel
  seen,      \* the version whose event the source has handled last
  source,    \* the ChannelPostSource, the fields below
  inputs,    \* how many inputs are left
  cached,    \* whether the cached tail is still to be read
  drifted,   \* a reply knew more or less than the events, or a deletion found no slot
  misled     \* a guessed window stood in the way of posts whose place is known

vars == <<history, seen, source, inputs, cached, drifted, misled>>

MaxInputs == Max({c.inputs : c \in Channels})
Demands == 1..MaxInputs
Posts == 1..(MaxInputs + Max({c.posts : c \in Channels}))
Current == history[Len(history)]
NoWindow == [target |-> 0, ids |-> <<>>, first |-> 0, oldest |-> FALSE, newest |-> FALSE]
NoGate == [first |-> 0, last |-> 0, waiters |-> {}]
NoProbe == [on |-> FALSE, nonEmpty |-> -1, empty |-> -1, step |-> 1, limit |-> -1,
            full |-> -1, waiters |-> [d \in Demands |-> 0]]

(***************************************************************************)
(* The server: a run of a version's posts with its neighbours.             *)
(***************************************************************************)
Slice(roots, lo, hi) ==
  LET first == Max({lo, 1})
      last == Min({hi, Len(roots)})
  IN [ids |-> SubSeq(roots, first, last),
      prev |-> IF first \in 2..(Len(roots) + 1) THEN roots[first - 1] ELSE 0,
      next |-> IF last \in 0..(Len(roots) - 1) THEN roots[last + 1] ELSE 0]

UpTo(roots, p) == Cardinality({i \in DOMAIN roots : roots[i] <= p})

Reply(f, roots) ==
  CASE f.kind \in {"after", "growAfter"} ->
         Slice(roots, UpTo(roots, f.at) + 1, UpTo(roots, f.at) + f.n)
    [] f.kind \in {"before", "growBefore"} ->
         Slice(roots, UpTo(roots, f.at - 1) - f.n + 1, UpTo(roots, f.at - 1))
    [] f.kind = "around" ->
         Slice(roots, UpTo(roots, f.at) - Fetched, UpTo(roots, f.at) + Fetched)
    [] OTHER ->
         Slice(roots, Len(roots) - (f.at + 1) * f.n + 1, Len(roots) - f.at * f.n)

(***************************************************************************)
(* Slots (IndexedPostSource).                                              *)
(***************************************************************************)
Places(seq, p) == {i \in DOMAIN seq : seq[i] = p}
At(seq, p) == IF Places(seq, p) = {} THEN 0 ELSE Min(Places(seq, p))
IndexOf(s, p) == IF Places(s.slots, p) = {} THEN 0 ELSE Max(Places(s.slots, p))
HasWindow(s) == s.window.ids # <<>>
WindowLast(s) == s.window.first + Len(s.window.ids) - 1
isAuthoritativePost(s, p) == p # 0 /\ IndexOf(s, p) # 0 /\ p \notin s.provisional
isCursorReadyIndex(s, i) == i \in DOMAIN s.slots /\ isAuthoritativePost(s, s.slots[i])

Without(ids, gone) ==
  LET kept[k \in 0..Len(ids)] ==
        IF k = 0 THEN <<>>
        ELSE IF ids[k] \in gone THEN kept[k - 1] ELSE Append(kept[k - 1], ids[k])
  IN kept[Len(ids)]

AtMost(ids, n) == SubSeq(ids, 1, Min({n, Len(ids)}))
Empties(n) == [i \in 1..n |-> 0]

assignExactWindow(s, first, ids) ==
  LET at == Max({1, Min({first, Len(s.slots)})})
      given == AtMost(ids, Len(s.slots) - at + 1)
      span == at..(at + Len(given) - 1)
  IN IF s.slots = <<>> THEN s
     ELSE [s EXCEPT !.slots =
             [i \in DOMAIN @ |-> IF i \in span THEN given[i - at + 1]
                                 ELSE IF @[i] \in Range(given) THEN 0 ELSE @[i]]]

resizeLogicalTail(s, n) ==
  [s EXCEPT !.slots = AtMost(@, n) \o Empties(n - Len(@))]

insertEmptyLogicalSlots(s, at, n) ==
  LET first == Max({1, Min({at, Len(s.slots) + 1})})
  IN [s EXCEPT !.slots = SubSeq(@, 1, first - 1) \o Empties(n) \o SubSeq(@, first, Len(@))]

\* Mutant: room for older posts is made at the newest end.
insertLogicalSuffix(s, n) == insertEmptyLogicalSlots(s, Len(s.slots) + 1, n)

insertLogicalPrefix(s, n) ==
  IF HasWindow(s) THEN insertEmptyLogicalSlots([s EXCEPT !.window.first = @ + n], 1, n)
  ELSE insertEmptyLogicalSlots(s, 1, n)

\* The slots first .. first+n-1 go; the window loses the posts it had there.
removeLogicalRange(s, first, n) ==
  LET gone == first..(first + n - 1)
      w == s.window
      kept == Without(w.ids, {w.ids[k] : k \in {j \in DOMAIN w.ids : w.first + j - 1 \in gone}})
      moved == Cardinality({i \in gone : i < w.first})
  IN [s EXCEPT
        !.slots = SubSeq(@, 1, first - 1) \o SubSeq(@, first + n, Len(@)),
        !.provisional = @ \ {s.slots[i] : i \in gone},
        !.window = IF ~HasWindow(s) THEN @
                   ELSE IF w.target \notin Range(kept) THEN NoWindow
                   ELSE [w EXCEPT !.ids = kept, !.first = w.first - moved]]

(***************************************************************************)
(* The length: only the server's pages prove it, and only the oldest edge  *)
(* moves.                                                                  *)
(***************************************************************************)
currentLogicalCount(s) ==
  IF s.counted THEN Max({Len(s.slots), s.total + s.adjustment}) ELSE Len(s.slots)

\* Mutant: a count that was too large is cut at the newest end.
reconcileAtTail(s, actual) ==
  LET known == [s EXCEPT !.adjustment = actual - s.total]
  IN IF actual > Len(s.slots) THEN insertLogicalPrefix(known, actual - Len(s.slots))
     ELSE removeLogicalRange(known, actual + 1, Len(s.slots) - actual)

reconcileRootCount(s, actual) ==
  LET known == [s EXCEPT !.adjustment = actual - s.total]
  IN IF actual > Len(s.slots) THEN insertLogicalPrefix(known, actual - Len(s.slots))
     ELSE removeLogicalRange(known, 1, Len(s.slots) - actual)

ensureMinimumRootCount(s, n) ==
  IF n > Len(s.slots) THEN insertLogicalPrefix(s, n - Len(s.slots)) ELSE s

(***************************************************************************)
(* The place of a run of posts: proved by an edge of the channel or by a   *)
(* post whose place is known, else guessed.                                *)
(***************************************************************************)
Candidates(s, ids, count, hint, oldest, newest) ==
  {c \in {hint} : c > 0}
  \cup {c \in {1} : oldest} \cup {c \in {Len(s.slots) - count + 1} : newest}
  \cup {IndexOf(s, ids[k]) - k + 1 : k \in {j \in DOMAIN ids : isAuthoritativePost(s, ids[j])}}

Fits(s, count, candidates) ==
  /\ Cardinality(candidates) <= 1
  /\ \A c \in candidates : c >= 1 /\ c + count - 1 <= Len(s.slots)

\* The free run of n slots nearest to the preferred one, the earlier of two; 0 if none.
findFreeWindowFirst(slots, n, preferred) ==
  LET room == {i \in 1..(Len(slots) - n + 1) : \A k \in i..(i + n - 1) : slots[k] = 0}
      want == Max({1, Min({preferred, Len(slots) - n + 1})})
      far(i) == IF i < want THEN want - i ELSE i - want
  IN IF room = {} THEN 0
     ELSE CHOOSE i \in room : \A j \in room : far(i) < far(j) \/ (far(i) = far(j) /\ i <= j)

\* ok is what the function returns; guess stands for estimateIndexForPost.
placeNavigationContext(s, target, ids, oldest, newest, hint, guess) ==
  LET n == Len(ids)
      offset == At(ids, target)
      proved == Candidates(s, ids, n, hint, oldest, newest)
      free == [i \in DOMAIN s.slots |-> IF s.slots[i] \in s.provisional THEN 0 ELSE s.slots[i]]
      old == IF s.window.target = target THEN IndexOf(s, target) ELSE 0
      left0 == IF oldest THEN 0 ELSE 1
      right0 == IF newest THEN 0 ELSE 1
      found == findFreeWindowFirst(free, n + left0 + right0,
                 (IF old # 0 THEN old ELSE guess) - offset + 1 - left0)
      exact == CHOOSE c \in proved : TRUE
      first == IF proved # {} THEN exact ELSE found + left0
      written(f) == [i \in DOMAIN free |-> IF i \in f..(f + n - 1) THEN ids[i - f + 1] ELSE free[i]]
      same == [target |-> target, ids |-> ids, first |-> s.window.first,
               oldest |-> oldest, newest |-> newest]
      blocked == IF proved = {} THEN found = 0
                 ELSE \E k \in 1..n : free[exact + k - 1] \notin {0, ids[k]}
  IN IF offset = 0 \/ n > Len(s.slots) THEN [ok |-> FALSE, s |-> s]
     ELSE IF hint = 0 /\ HasWindow(s) /\ s.window = same THEN [ok |-> TRUE, s |-> s]
     ELSE IF ~Fits(s, n, proved) \/ blocked THEN [ok |-> FALSE, s |-> s]
     ELSE [ok |-> TRUE,
           s |-> [s EXCEPT
              !.slots = written(first),
              !.provisional = IF proved # {} THEN {} ELSE Range(ids),
              !.window = IF proved # {} THEN NoWindow ELSE [same EXCEPT !.first = first]]]

adoptNavigationContext(s, target, r, guess) ==
  LET ids == r.ids
      oldest == r.prev = 0
      newest == r.next = 0
      offset == At(ids, target)
      lo == Max({1, offset - Painted})
      hi == Min({Len(ids), offset + Painted})
      proved == Candidates(s, ids, Len(ids), 0, oldest, newest)
  IN IF offset = 0 \/ s.slots = <<>> \/ ~s.counted \/ ~Fits(s, Len(ids), proved) THEN s
     ELSE placeNavigationContext(s, target, SubSeq(ids, lo, hi),
            oldest /\ lo = 1, newest /\ hi = Len(ids),
            IF proved = {} THEN 0 ELSE (CHOOSE c \in proved : TRUE) + lo - 1, guess).s

(***************************************************************************)
(* ChannelGapReconciliation: where the window must begin, given a run of   *)
(* posts whose place is known.                                             *)
(***************************************************************************)
NoMatch == [first |-> 0, conflict |-> FALSE]

Overlap(first, ids, context) ==
  LET met == {k \in DOMAIN ids : ids[k] \in Range(context)}
      begins(k) == first + k - At(context, ids[k])
      told == {k \in met : begins(k) >= 1}
      by == Min(told)
  IN IF told = {} THEN NoMatch
     ELSE [first |-> begins(by), conflict |-> \E k \in met : k > by /\ begins(k) # begins(by)]

matchAfter(anchor, ids, next, context) ==
  LET m == Overlap(anchor + 1, ids, context)
  IN IF m.first < 1 /\ next = Head(context) THEN [m EXCEPT !.first = anchor + 1 + Len(ids)] ELSE m

matchBefore(first, ids, prev, context) ==
  LET m == Overlap(first, ids, context)
  IN IF m.first < 1 /\ prev = Last(context) THEN [m EXCEPT !.first = first - Len(context)] ELSE m

placeWindow(s, first) ==
  placeNavigationContext(s, s.window.target, s.window.ids, s.window.oldest, s.window.newest, first, 1)

\* The window slides into free slots, or slots are inserted next to it.
moveWindow(s, first) ==
  [s EXCEPT
     !.slots = [i \in DOMAIN @ |->
        IF i \in first..(first + Len(s.window.ids) - 1) THEN s.window.ids[i - first + 1]
        ELSE IF i \in s.window.first..WindowLast(s) /\ @[i] \in s.provisional THEN 0 ELSE @[i]],
     !.window.first = first]

makeRoomBeforeProvisional(s, last) ==
  LET shift == last - s.window.first + 1
      beyond == (WindowLast(s) + 1)..(WindowLast(s) + shift)
  IN IF shift <= 0 THEN s
     ELSE IF beyond \subseteq DOMAIN s.slots /\ \A i \in beyond : s.slots[i] = 0
     THEN moveWindow(s, s.window.first + shift)
     ELSE insertEmptyLogicalSlots([s EXCEPT !.window.first = @ + shift], s.window.first, shift)

makeRoomAfterProvisional(s, first) ==
  LET shift == WindowLast(s) - first + 1
      before == (s.window.first - shift)..(s.window.first - 1)
  IN IF shift <= 0 THEN s
     ELSE IF before \subseteq DOMAIN s.slots /\ \A i \in before : s.slots[i] = 0
     THEN moveWindow(s, s.window.first - shift)
     ELSE insertEmptyLogicalSlots(s, WindowLast(s) + 1, shift)

(***************************************************************************)
(* Requests under way, and who waits for them: pending[d] counts the calls *)
(* that must still come back before the list is told that demand d is      *)
(* finished.                                                               *)
(***************************************************************************)
AskGated(s, kind, at, n, d, gated) ==
  [s EXCEPT !.flight = @ \cup {[kind |-> kind, at |-> at, n |-> n, d |-> d,
                                edge |-> FALSE, gated |-> gated, since |-> Len(history)]}]
Ask(s, kind, at, n, d) == AskGated(s, kind, at, n, d, FALSE)

finished(s, d) == [s EXCEPT !.pending[d] = @ - 1]

\* Mutant: the demands attached to the request are forgotten.
finishOwnDemandOnly(s) == [s EXCEPT !.gate = NoGate]

finishBoundaryRequest(s) ==
  [s EXCEPT !.gate = NoGate,
            !.pending = [d \in Demands |-> IF d \in s.gate.waiters THEN @[d] - 1 ELSE @[d]]]

canAttach(gate, first, last) ==
  gate.first # 0 /\ first <= gate.last + 1 /\ last >= gate.first - 1

(***************************************************************************)
(* The search for the oldest page.  Pages count from 0, the newest.        *)
(***************************************************************************)
pageForIndex(s, i) == (Len(s.slots) - i) \div PageSize

initialBoundaryProbePages(s) ==
  Max({1, (Len(s.slots) * ProbePercent + 100 * PageSize - 1) \div (100 * PageSize)})

finishOldestBoundaryProbe(s) ==
  [s EXCEPT !.probe = NoProbe,
            !.pending = [d \in Demands |-> @[d] - s.probe.waiters[d]]]

loadOldestBoundaryPage(s, page) == Ask(s, "oldestPage", page, PageSize, 0)
probePage(s, page) == Ask(s, "exists", page * PageSize, 1, 0)
probeInitialPage(s, page) == Ask(s, "initial", page * PageSize, 1, 0)

probeOldestBoundary(s) ==
  LET p == s.probe
      known == p.nonEmpty >= 0
      ended == p.empty >= 0
  IN CASE p.empty = 0 -> finishOldestBoundaryProbe(reconcileRootCount(s, 0))
       [] known /\ p.empty = p.nonEmpty + 1 /\ p.full = p.nonEmpty ->
            finishOldestBoundaryProbe(reconcileRootCount(s, p.empty * PageSize))
       [] p.empty # 0 /\ ~known /\ p.step = 1 ->
            loadOldestBoundaryPage([s EXCEPT !.probe.step = 2], p.empty - 1)
       [] known /\ ended /\ p.empty # 0 /\ p.empty - p.nonEmpty <= 3
            /\ ~(p.empty = p.nonEmpty + 1 /\ p.full = p.nonEmpty) ->
            loadOldestBoundaryPage(s,
              IF p.empty = p.nonEmpty + 1 THEN p.nonEmpty ELSE p.nonEmpty + 1)
       [] known /\ ~ended /\ p.limit >= 0 /\ p.nonEmpty >= p.limit ->
            loadOldestBoundaryPage(s, p.nonEmpty)
       [] known /\ ~ended /\ p.limit > p.nonEmpty ->
            probePage(s, p.nonEmpty + (p.limit - p.nonEmpty + 1) \div 2)
       [] known /\ ~ended /\ p.limit < 0 ->
            probePage([s EXCEPT !.probe.step =
                         IF @ <= 1 THEN Max({2, initialBoundaryProbePages(s)}) ELSE @ * 2],
                      p.nonEmpty + Max({1, p.step}))
       [] ~known /\ p.empty # 0 /\ p.step # 1 ->
            probePage([s EXCEPT !.probe.step = Min({p.empty + 1, @ * 2})],
                      Max({0, p.empty - p.step}))
       [] known /\ ended /\ p.empty - p.nonEmpty > 3 ->
            probePage(s, p.nonEmpty + (p.empty - p.nonEmpty) \div 2)

probeEstimatedOldestBoundary(s, d) ==
  LET waiting == [s EXCEPT !.probe.waiters[d] = @ + 1]
      limit == pageForIndex(s, 1)
      page == Max({0, limit - initialBoundaryProbePages(s)})
  IN IF s.probe.on THEN waiting
     ELSE probeInitialPage([waiting EXCEPT !.probe.on = TRUE, !.probe.limit = limit,
                              !.probe.step = initialBoundaryProbePages(s)], page)

resolveOldestBoundary(s, page, d) ==
  LET waiting == [s EXCEPT !.probe.waiters[d] = @ + 1, !.tried = TRUE]
  IN IF s.probe.on
     THEN [waiting EXCEPT !.probe.empty = IF @ < 0 THEN page ELSE Min({@, page})]
     ELSE probeOldestBoundary([waiting EXCEPT !.probe.on = TRUE, !.probe.empty = page,
                                 !.probe.step = initialBoundaryProbePages(s)])

resolveOldestBoundaryFromNonEmpty(s, page, d) ==
  LET waiting == [s EXCEPT !.probe.waiters[d] = @ + 1, !.tried = TRUE]
  IN IF ~s.probe.on
     THEN probeOldestBoundary([waiting EXCEPT !.probe.on = TRUE, !.probe.nonEmpty = page,
                                 !.probe.full = page])
     ELSE IF s.probe.empty < 0 \/ page < s.probe.empty
     THEN [waiting EXCEPT !.probe.nonEmpty = Max({@, page}), !.probe.full = Max({@, page})]
     ELSE waiting

(***************************************************************************)
(* Publishing replies.                                                     *)
(***************************************************************************)
absolutePageDecision(first, last, w, touches) ==
  IF touches THEN "Reconcile"
  ELSE IF first <= w.first + Len(w.ids) /\ last >= w.first - 1 THEN "Defer"
  ELSE "Place"

placePage(s, page, ids) ==
  LET sized == IF Len(ids) < PageSize THEN reconcileRootCount(s, page * PageSize + Len(ids))
               ELSE ensureMinimumRootCount(s, (page + 1) * PageSize)
      first == Max({1, Len(sized.slots) - page * PageSize - Len(ids) + 1})
      given == AtMost(ids, Len(sized.slots) - first + 1)
      m == IF HasWindow(sized) THEN Overlap(first, given, sized.window.ids) ELSE NoMatch
      touches == m.first >= 1
      decision == IF HasWindow(sized)
                  THEN absolutePageDecision(first, first + Len(given) - 1, sized.window, touches)
                  ELSE "Place"
      placed == placeWindow(sized, m.first)
      publish(t) == assignExactWindow([t EXCEPT !.provisional = @ \ Range(given)], first, given)
  IN CASE ids = <<>> \/ s.slots = <<>> \/ ~s.counted -> s
       [] OTHER -> IF m.conflict \/ decision = "Defer" THEN sized
                   ELSE IF decision = "Place" THEN publish(sized)
                   ELSE IF placed.ok THEN publish(placed.s) ELSE sized

\* A run of posts that follow a post whose place is known.
publishAfter(s, anchor, r) ==
  LET at == IndexOf(s, anchor)
      m == IF HasWindow(s) THEN matchAfter(at, r.ids, r.next, s.window.ids) ELSE NoMatch
      placed == placeWindow(s, m.first)
      last == at + Len(r.ids)
      ahead == HasWindow(s) /\ at < s.window.first
      publish(t) ==
        LET from == IndexOf(t, anchor)
            need == Max({Len(t.slots), from + Len(r.ids)})
        IN IF from = 0 THEN t
           ELSE assignExactWindow(resizeLogicalTail(t, need), from + 1, r.ids)
  IN IF at = 0 \/ r.ids = <<>> \/ m.conflict THEN s
     ELSE IF m.first >= 1 THEN IF placed.ok THEN publish(placed.s) ELSE s
     ELSE IF ahead /\ r.next # 0 THEN publish(makeRoomBeforeProvisional(s, last + 1))
     ELSE IF ahead /\ last + 1 >= s.window.first THEN s
     ELSE publish(s)

\* A run of posts that precede a post whose place is known.
publishBefore(s0, anchor, r) ==
  LET n == Len(r.ids)
      s == IF n >= IndexOf(s0, anchor) THEN insertLogicalPrefix(s0, n - IndexOf(s0, anchor) + 1)
           ELSE s0
      at == IndexOf(s, anchor)
      m == IF HasWindow(s) THEN matchBefore(at - n, r.ids, r.prev, s.window.ids) ELSE NoMatch
      placed == placeWindow(s, m.first)
      behind == HasWindow(s) /\ at > WindowLast(s)
      publish(t, first) == IF first >= 1 THEN assignExactWindow(t, first, r.ids) ELSE t
      moved == makeRoomAfterProvisional(s, at - n - 1)
  IN IF IndexOf(s0, anchor) = 0 \/ r.ids = <<>> THEN s0
     ELSE IF m.conflict THEN s
     ELSE IF m.first >= 1 THEN IF placed.ok THEN publish(placed.s, at - n) ELSE s
     ELSE IF behind /\ r.prev # 0 THEN publish(moved, IndexOf(moved, anchor) - n)
     ELSE IF behind /\ at - n - 1 <= WindowLast(s) THEN s
     ELSE publish(s, at - n)

\* A run of posts that extends the provisional window at one of its ends.
growWindow(s, f, r) ==
  LET w == s.window
      older == f.kind = "growBefore"
      ids == IF older THEN r.ids \o w.ids ELSE w.ids \o r.ids
      oldest == w.oldest \/ (older /\ r.prev = 0)
      newest == w.newest \/ (~older /\ r.next = 0)
      hint == IF older
              THEN IF isAuthoritativePost(s, r.prev) THEN IndexOf(s, r.prev) + 1 ELSE 0
              ELSE IF isAuthoritativePost(s, r.next) THEN Max({0, IndexOf(s, r.next) - Len(ids)})
              ELSE 0
  IN IF HasWindow(s) /\ f.at = (IF older THEN Head(w.ids) ELSE Last(w.ids))
        /\ (r.ids # <<>> \/ oldest # w.oldest \/ newest # w.newest)
     THEN placeNavigationContext(s, w.target, ids, oldest, newest, hint, 1).s
     ELSE s

(***************************************************************************)
(* The first run of empty slots in a range, and the request that fills it. *)
(***************************************************************************)
Missing(s, first, last) ==
  LET empty == {i \in first..last : s.slots[i] = 0}
      from == Min(empty)
  IN IF empty = {} THEN {} ELSE {i \in empty : \A j \in from..i : s.slots[j] = 0}

begin(s, first, last, d, gated) ==
  IF gated THEN [s EXCEPT !.gate = [first |-> first, last |-> last, waiters |-> {d}]] ELSE s

requestMissing(s, first, last, seek, d) ==
  LET missing == Missing(s, first, last)
      from == Min(missing)
      to == Max(missing)
      size == Len(s.slots)
      fetch == Max({PageSize, to - from + 1})
      tail == Max({PageSize, size - from + 1})
      exact == ~HasWindow(s)
      gated == exact /\ ~seek /\ s.gate.first = 0
      w == s.window
      pages == pageForIndex(s, to)..pageForIndex(s, from)
  IN CASE exact /\ ~seek /\ canAttach(s.gate, from, to) ->
            [s EXCEPT !.gate.waiters = @ \cup {d}]
       [] OTHER ->
            IF HasWindow(s) /\ to = w.first - 1 THEN Ask(s, "growBefore", Head(w.ids), fetch, d)
            ELSE IF HasWindow(s) /\ from = WindowLast(s) + 1
            THEN Ask(s, "growAfter", Last(w.ids), fetch, d)
            ELSE IF isCursorReadyIndex(s, from - 1)
            THEN AskGated(begin(s, from, Min({size, from + fetch - 1}), d, gated),
                          "after", s.slots[from - 1], fetch, d, gated)
            ELSE IF isCursorReadyIndex(s, to + 1)
            THEN AskGated(begin(s, Max({1, to + 1 - fetch}), to, d, gated),
                          "before", s.slots[to + 1], fetch, d, gated)
            ELSE IF last = size
            THEN AskGated(begin(s, Max({1, size - tail + 1}), size, d, gated),
                          "tail", 0, tail, d, gated)
            ELSE [s EXCEPT !.pending[d] = Cardinality(pages),
                           !.flight = @ \cup {[kind |-> "page", at |-> page, n |-> PageSize, d |-> d,
                              edge |-> first = 1 /\ page = pageForIndex(s, from),
                              gated |-> FALSE, since |-> Len(history)] : page \in pages}]

requestRange(s, first, last, seek, d) ==
  LET asked == [s EXCEPT !.pending[d] = 1]
  IN IF first = 1 /\ ~s.tried /\ initialBoundaryProbePages(s) > 1
     THEN probeEstimatedOldestBoundary([asked EXCEPT !.tried = TRUE], d)
     ELSE IF Missing(s, first, last) = {} THEN s
     ELSE requestMissing(asked, first, last, seek, d)

(***************************************************************************)
(* Replies.                                                                *)
(***************************************************************************)
done(s, f) == IF f.gated THEN finishBoundaryRequest(s) ELSE finished(s, f.d)

cursorAnswered(s, f, ok, r) ==
  done(IF ~ok THEN s
       ELSE IF f.kind = "after" THEN publishAfter(s, f.at, r) ELSE publishBefore(s, f.at, r), f)

growAnswered(s, f, ok, r) == finished(IF ok THEN growWindow(s, f, r) ELSE s, f.d)

tailAnswered(s, f, ok, r) ==
  done(IF ~ok THEN s
       ELSE IF r.ids = <<>> THEN reconcileRootCount(s, 0)
       ELSE placePage(ensureMinimumRootCount(s, Len(r.ids)), 0, r.ids), f)

pageAnswered(s, f, ok, r) ==
  LET placed == placePage(s, f.at, r.ids)
  IN IF ~ok THEN finished(s, f.d)
     ELSE IF r.ids = <<>> THEN resolveOldestBoundary(s, f.at, f.d)
     ELSE IF f.edge /\ Len(r.ids) = PageSize /\ ~placed.tried
     THEN resolveOldestBoundaryFromNonEmpty(placed, f.at, f.d)
     ELSE finished(placed, f.d)

validateAnswered(s, f, ok, r) ==
  IF ~ok THEN s
  ELSE IF r.ids = <<>> THEN reconcileRootCount(s, 0) ELSE placePage(s, 0, r.ids)

\* The first probe writes its bound over one that an empty page has brought meanwhile.
initialAnswered(s, f, ok, r) ==
  LET page == f.at \div PageSize
  IN IF ~s.probe.on THEN s
     ELSE IF ~ok THEN finishOldestBoundaryProbe(s)
     ELSE IF r.ids # <<>> THEN probeOldestBoundary([s EXCEPT !.probe.nonEmpty = page])
     ELSE probeOldestBoundary([s EXCEPT !.probe.empty = page])

existsAnswered(s, f, ok, r) ==
  LET page == f.at \div PageSize
  IN IF ~s.probe.on THEN s
     ELSE IF ~ok THEN finishOldestBoundaryProbe(s)
     ELSE IF r.ids # <<>> THEN probeOldestBoundary([s EXCEPT !.probe.nonEmpty = Max({@, page})])
     ELSE probeOldestBoundary([s EXCEPT !.probe.empty = IF @ < 0 THEN page ELSE Min({@, page})])

\* Mutant: a page found empty does not take back what was known of it.
emptyBoundaryPageTrusting(s, page) ==
  probeOldestBoundary([s EXCEPT !.probe.empty = IF @ < 0 THEN page ELSE Min({@, page})])

emptyBoundaryPage(s, page) ==
  LET p == s.probe
      empty == IF p.empty < 0 THEN page ELSE Min({p.empty, page})
      nonEmpty == IF p.nonEmpty >= page THEN -1 ELSE p.nonEmpty
      full == IF p.nonEmpty >= page THEN -1 ELSE p.full
      t == [s EXCEPT !.probe.empty = empty, !.probe.nonEmpty = nonEmpty, !.probe.full = full]
  IN IF nonEmpty >= 0 /\ empty = nonEmpty + 1 /\ full # nonEmpty
     THEN loadOldestBoundaryPage(t, nonEmpty)
     ELSE probeOldestBoundary(t)

oldestPageAnswered(s, f, ok, r) ==
  LET page == f.at
      placed == [placePage([s EXCEPT !.probe.nonEmpty = Max({@, page})], page, r.ids)
                   EXCEPT !.probe.full = IF Len(r.ids) < PageSize THEN @ ELSE page]
      beyond == s.probe.empty < 0 /\ s.probe.limit \in 0..page
  IN IF ~s.probe.on THEN s
     ELSE IF ~ok THEN finishOldestBoundaryProbe(s)
     ELSE IF r.ids = <<>> THEN emptyBoundaryPage(s, page)
     ELSE IF Len(r.ids) < PageSize THEN finishOldestBoundaryProbe(placed)
     ELSE IF s.probe.empty = page + 1
     THEN finishOldestBoundaryProbe(reconcileRootCount(placed, (page + 1) * PageSize))
     ELSE IF s.probe.empty = page + 2 THEN loadOldestBoundaryPage(placed, page + 1)
     ELSE probeOldestBoundary(IF beyond THEN [placed EXCEPT !.probe.limit = -1, !.probe.step = 1]
                              ELSE placed)

\* A channel whose server gives no count: rows are only ever put before the first.
prependAnswered(s, f, ok, r) ==
  LET new == Without(r.ids, Range(s.slots))
      t == [s EXCEPT !.before = FALSE, !.more = IF ok THEN r.prev # 0 /\ new # <<>> ELSE @]
  IN IF ok THEN [t EXCEPT !.slots = new \o @] ELSE t

answered(s, f, ok, r, guess) ==
  CASE f.kind \in {"after", "before"} -> cursorAnswered(s, f, ok, r)
    [] f.kind \in {"growAfter", "growBefore"} -> growAnswered(s, f, ok, r)
    [] f.kind = "tail" -> tailAnswered(s, f, ok, r)
    [] f.kind = "page" -> pageAnswered(s, f, ok, r)
    [] f.kind = "validate" -> validateAnswered(s, f, ok, r)
    [] f.kind = "initial" -> initialAnswered(s, f, ok, r)
    [] f.kind = "exists" -> existsAnswered(s, f, ok, r)
    [] f.kind = "oldestPage" -> oldestPageAnswered(s, f, ok, r)
    [] f.kind = "prepend" -> prependAnswered(s, f, ok, r)
    [] f.kind = "around" -> IF ok THEN adoptNavigationContext(s, f.at, r, guess) ELSE s

(***************************************************************************)
(* Events.                                                                 *)
(***************************************************************************)
appendLivePost(s, p) ==
  LET n == Max({currentLogicalCount(s), Len(s.slots) + 1})
      t == resizeLogicalTail(s, n)
  IN IF IndexOf(s, p) # 0 THEN s ELSE [t EXCEPT !.slots[n] = p]

\* A deleted post of one's own leaves the timeline.
postDeleted(s, p) ==
  LET t == [s EXCEPT !.adjustment = IF s.counted THEN @ - 1 ELSE @]
  IN IF IndexOf(s, p) = 0 THEN s ELSE removeLogicalRange(t, IndexOf(s, p), 1)

(***************************************************************************)
(* The actions.                                                            *)
(***************************************************************************)
\* seeded: the newest post is already resident.
Opened(posts, count, seeded) ==
  [counted |-> count # -1,
   total |-> Max({0, count}),
   slots |-> IF count = -1 THEN IF seeded THEN <<posts>> ELSE <<>>
             ELSE Empties(Max({1, count}) - 1) \o <<IF seeded THEN posts ELSE 0>>,
   adjustment |-> 0, provisional |-> {}, window |-> NoWindow, gate |-> NoGate, probe |-> NoProbe,
   tried |-> FALSE, more |-> count = -1, before |-> FALSE,
   pending |-> [d \in Demands |-> 0], flight |-> {}]

Init ==
  /\ \E c \in Channels, seeded \in BOOLEAN :
       /\ history = <<[i \in 1..c.posts |-> i]>>
       /\ source = Opened(c.posts, c.count, seeded)
       /\ inputs = c.inputs
  /\ seen = 1
  /\ cached \in BOOLEAN
  /\ drifted = FALSE /\ misled = FALSE

Input == inputs > 0 /\ inputs' = inputs - 1

\* LongListWidget asks for a run of empty slots (requestMissing).
RequestRange ==
  /\ Input
  /\ \E first, last \in DOMAIN source.slots, seek \in BOOLEAN :
        /\ source.counted /\ first <= last /\ \A i \in first..last : source.slots[i] = 0
        /\ source' = requestRange(source, first, last, seek, inputs)
        /\ source' # source
  /\ UNCHANGED <<history, seen, cached, drifted, misled>>

requestBeforeFirst ==
  /\ ~source.counted /\ source.more /\ ~source.before
  /\ source' = Ask([source EXCEPT !.before = TRUE], "prepend",
                   IF source.slots = <<>> THEN 0 ELSE Head(source.slots), PageSize, 0)
  /\ UNCHANGED <<history, seen, inputs, cached, drifted, misled>>

\* A jump fetches the posts around its target.
NavigateTo ==
  /\ Input /\ source.counted
  /\ \E p \in Range(Current) : IndexOf(source, p) = 0 /\ source' = Ask(source, "around", p, 1, 0)
  /\ UNCHANGED <<history, seen, cached, drifted, misled>>

\* The cached tail, if it still ends with the newest post, fills empty slots.
hydrateCachedTail ==
  LET n == Min({PageSize, Len(source.slots), Len(history[1])})
      ids == Slice(history[1], Len(history[1]) - n + 1, Len(history[1])).ids
      first == Len(source.slots) - n + 1
      collides == \E k \in 1..n : \/ IndexOf(source, ids[k]) \notin {0, first + k - 1}
                                  \/ source.slots[first + k - 1] \notin {0, ids[k]}
      new == {p \in Range(ids) : IndexOf(source, p) = 0}
  IN /\ cached /\ source.counted
     /\ cached' = FALSE
     /\ source' = IF HasWindow(source) \/ seen # 1 \/ source.slots = <<>> \/ collides THEN source
                  ELSE Ask(assignExactWindow([source EXCEPT !.provisional = @ \cup new], first, ids),
                           "validate", 0, PageSize, 0)
     /\ UNCHANGED <<history, seen, inputs, drifted, misled>>

\* A run that reaches the oldest post is put at the first slot, whatever the count is.
Misplaced(f, r) ==
  /\ f.kind \in {"around", "growBefore"} /\ r.prev = 0
  /\ Len(source.slots) # Len(history[seen])

\* Slots are put beside a guessed window, or a page that holds its posts would begin it before the
\* first slot and leaves it where it is.
Misled(f) ==
  \/ f.kind \in {"after", "before"} /\ HasWindow(source) /\ Len(source'.slots) > Len(source.slots)
  \/ ~(Range(source'.window.ids) \subseteq source'.provisional)

\* A reply is what the server held at some moment since the request.
Answer ==
  \E f \in source.flight, v \in 1..Len(history), ok \in BOOLEAN, guess \in DOMAIN source.slots \cup {1} :
    LET rest == [source EXCEPT !.flight = @ \ {f}]
        first == f.kind = "prepend" /\ f.at = 0
        r == Reply(IF f.kind # "prepend" THEN f
                   ELSE [f EXCEPT !.kind = IF first THEN "page" ELSE "before"], history[v])
    IN /\ v >= f.since
       /\ guess # 1 => f.kind = "around" /\ ok
       /\ IF ok THEN UNCHANGED inputs ELSE Input /\ v = f.since
       /\ source' = answered(rest, f, ok, r, guess)
       /\ drifted' = (drifted \/ (ok /\ (v # seen \/ Misplaced(f, r))))
       /\ misled' = (misled \/ (ok /\ Misled(f)))
       /\ UNCHANGED <<history, seen, cached>>

\* Anyone writes a post; the user deletes one.
ServerChanges ==
  /\ Input
  /\ \/ history' = Append(history, Append(Current, Max(Posts) - inputs + 1))
     \/ \E p \in Range(Current) : history' = Append(history, Without(Current, {p}))
  /\ UNCHANGED <<seen, source, cached, drifted, misled>>

\* The event of the next change arrives.
EventArrives ==
  LET old == Range(history[seen])
      new == Range(history[seen + 1])
      p == CHOOSE q \in old \cup new : q \notin old \cap new
  IN /\ seen < Len(history)
     /\ seen' = seen + 1
     /\ source' = IF p \in new THEN appendLivePost(source, p) ELSE postDeleted(source, p)
     /\ drifted' = (drifted \/ source.probe.on \/ (p \in old /\ IndexOf(source, p) = 0))
     /\ misled' = (misled \/ (p \in old /\ p \in source.provisional))
     /\ UNCHANGED <<history, inputs, cached>>

Next ==
  \/ RequestRange \/ requestBeforeFirst \/ NavigateTo \/ hydrateCachedTail
  \/ Answer \/ ServerChanges \/ EventArrives

Spec == Init /\ [][Next]_vars

-----------------------------------------------------------------------------
TypeOK ==
  /\ \A v \in DOMAIN history : Range(history[v]) \subseteq Posts
  /\ seen \in DOMAIN history
  /\ Range(source.slots) \subseteq Posts \cup {0}
  /\ source.provisional \subseteq Posts
  /\ inputs \in 0..MaxInputs /\ {source.probe.on, cached, drifted, misled} \subseteq BOOLEAN

\* Posts whose place is known stand as far apart as on the server, whatever the first count said
\* and however pages, runs and jumps met (assignExactWindow, ChannelPostSource.cpp:1853), as long
\* as no window guessed on their wrong side was in the way (makeRoomBeforeProvisional).
Known == {i \in DOMAIN source.slots : isAuthoritativePost(source, source.slots[i])}
ExactDistances ==
  ~drifted /\ ~misled =>
    \A i, j \in Known :
      i < j => UpTo(history[seen], source.slots[j]) - UpTo(history[seen], source.slots[i]) = j - i

\* A post whose place is known leaves the timeline only when it is deleted: no later page, count
\* or window drops it.
KnownPostsStay ==
  [][~drifted' => \A p \in Posts :
        isAuthoritativePost(source, p) /\ p \in Range(history'[seen']) => IndexOf(source', p) # 0]_vars

\* Every range the list waits for has a request that will answer it, directly, through the gate
\* or through the search for the oldest page; neither of the two is held by nobody.
RequestsOwned ==
  /\ \A d \in Demands :
       source.pending[d] = Cardinality({f \in source.flight : f.d = d /\ ~f.gated})
                           + Cardinality({d} \cap source.gate.waiters) + source.probe.waiters[d]
  /\ source.gate.first # 0 => \E f \in source.flight : f.gated
  /\ source.probe.on => \E f \in source.flight : f.kind \in {"initial", "exists", "oldestPage"}

\* A search that no empty page has joined (resolveOldestBoundary, ChannelPostSource.cpp:945) never
\* believes a page both written and empty, whatever was written and deleted meanwhile: where it
\* does, it asks for the same page for ever (ChannelPostSource.cpp:1028).
Narrow == source.probe.nonEmpty >= 0 /\ source.probe.empty >= 0
            => source.probe.nonEmpty < source.probe.empty
Joined ==
  \E d, e \in Demands : /\ 0 \notin {source.probe.waiters[d], source.probe.waiters[e]}
                        /\ d # e \/ source.probe.waiters[d] > 1
SearchNarrows == Joined \/ Narrow

\* "A full materialized page followed immediately by known emptiness proves an exact
\* multiple-of-ten boundary" (ChannelPostSource.cpp:1007): a search that ends while no event is
\* under way leaves as many slots as there are posts.
SearchProvesCount ==
  [][source.probe.on /\ ~source'.probe.on /\ inputs' = inputs /\ seen = Len(history)
       => Len(source'.slots) = Len(history[seen])]_vars
=============================================================================
