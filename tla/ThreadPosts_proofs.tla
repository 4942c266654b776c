-------------------------- MODULE ThreadPosts_proofs --------------------------
(***************************************************************************)
(* Three facts, for any thread, any sizes of pages and any number of calls. *)
(*                                                                         *)
(* Every demand of the list is waited for by exactly one request.  The     *)
(* argument follows one demand through the calls of continueDemand: it has *)
(* no owner while they run, and leaves them owned or finished.             *)
(*                                                                         *)
(* A confirmed reply has the slot of its rank, and stays there, as long as *)
(* the count was in step.  The argument follows a timeline through its     *)
(* placements.  It is "fine" when what is confirmed is at its rank and no  *)
(* island shares a reply with that, when islands that share replies with   *)
(* an earlier one lie in it, and when none of them takes all the slots: so *)
(* that whatever gives a window a rank gives it the right one.             *)
(***************************************************************************)
EXTENDS ThreadPosts, FiniteSetTheorems, WellFoundedInduction, TLAPS

USE ThreadPostsAssumption

-----------------------------------------------------------------------------
(* Natural numbers.                                                        *)

\* A set of natural numbers that is not empty has a least element.
LEMMA Least ==
    ASSUME NEW T, T \subseteq Nat, T # {}
    PROVE  \E m \in T : \A n \in T : m <= n
<1>1. \E x \in T : \A y \in T : ~ (<<y, x>> \in OpToRel(<, Nat))
  BY NatLessThanWellFounded, WFMin, Zenon
<1>2. PICK x \in T : \A y \in T : ~ (<<y, x>> \in OpToRel(<, Nat))
  BY <1>1
<1>3. \A y \in T : ~ (y < x)
  BY <1>2 DEF OpToRel
<1> QED BY <1>3

\* One that is bounded as well has a greatest element.
LEMMA Greatest ==
    ASSUME NEW T, T \subseteq Nat, T # {}, NEW b \in Nat, \A n \in T : n <= b
    PROVE  \E m \in T : \A n \in T : n <= m
<1> DEFINE U == {k \in Nat : \A n \in T : n <= k}
<1>1. PICK m \in U : \A k \in U : m <= k
  BY Least
<1>2. ASSUME m \notin T PROVE FALSE
  <2>1. \A n \in T : n < m
    BY <1>1, <1>2
  <2>2. m - 1 \in Nat /\ m > 0
    <3>1. PICK n \in T : n \in Nat /\ n < m
      BY <2>1
    <3> QED BY <3>1, m \in Nat
  <2>3. m - 1 \in U
    BY <2>1, <2>2
  <2> QED BY <1>1, <2>3, <2>2
<1> QED BY <1>1, <1>2

-----------------------------------------------------------------------------
(* What the work of the source is made of.                                 *)

Kinds == {"page", "seek", "island", "validate", "continue"}

IdsOf(w) == {d.id : d \in w.demands}

WorkShape(w) == w = [demands |-> w.demands, underway |-> w.underway, load |-> w.load]

DemandShape(d) ==
    d = [id |-> d.id, first |-> d.first, last |-> d.last, generation |-> d.generation,
         target |-> d.target, expected |-> d.expected, seek |-> d.seek, cursors |-> d.cursors]

RequestShape(r) ==
    r = [kind |-> r.kind, demand |-> r.demand, waiters |-> r.waiters, target |-> r.target,
         bootstrap |-> r.bootstrap, backward |-> r.backward, newest |-> r.newest,
         whole |-> r.whole, at |-> r.at, anchor |-> r.anchor, n |-> r.n, epoch |-> r.epoch,
         generation |-> r.generation, since |-> r.since, sent |-> r.sent, fenced |-> r.fenced]

\* A demand has one record; a request names the demands it is for, and its number.
DemandsShaped(w) ==
    /\ \A d \in w.demands : DemandShape(d) /\ d.id \in 1 .. MaxAsks
    /\ \A d, e \in w.demands : d.id = e.id => d = e

RequestShaped(r) ==
    /\ RequestShape(r)
    /\ r.kind \in Kinds /\ r.sent \in Nat
    /\ r.sent = 0 <=> r.kind = "continue"
    /\ r.kind = "validate" => r.waiters = {}
    /\ r.kind # "validate" => r.demand \in r.waiters
    /\ r.kind \in {"page", "seek", "continue"} => r.waiters = {r.demand}

RequestsShaped(w) ==
    /\ \A r \in w.underway : RequestShaped(r)
    /\ \A q, r \in w.underway : q.sent = r.sent /\ q.sent # 0 => q = r
    /\ \E n \in Nat : \A r \in w.underway : r.sent <= n

\* Demands and requests belong together, but for the demands in "loose", which no request has.
Matched(w, loose) ==
    /\ \A q, r \in w.underway : q.waiters \cap r.waiters # {} => q = r
    /\ \A r \in w.underway : r.waiters \subseteq IdsOf(w) \ loose
    /\ \A d \in w.demands : d.id \notin loose => \E r \in w.underway : d.id \in r.waiters

Orderly(w, loose) ==
    /\ WorkShape(w)
    /\ DemandsShaped(w)
    /\ RequestsShaped(w)
    /\ Matched(w, loose)

\* There is an identity left for one more demand.
Counted == IsFiniteSet(IdsOf(work)) /\ asked \in 0 .. MaxAsks /\ Cardinality(IdsOf(work)) <= asked

IInv == Orderly(work, {}) /\ Counted

-----------------------------------------------------------------------------
(* The operations on the work.                                             *)

\* What finishing, writing and sending do to the fields.
LEMMA WorkFields ==
    ASSUME NEW w, WorkShape(w)
    PROVE  /\ \A D : [w EXCEPT !.demands = D] =
                        [demands |-> D, underway |-> w.underway, load |-> w.load]
           /\ \A U : [w EXCEPT !.underway = U] =
                        [demands |-> w.demands, underway |-> U, load |-> w.load]
           /\ \A l : [w EXCEPT !.load = l] =
                        [demands |-> w.demands, underway |-> w.underway, load |-> l]
BY DEF WorkShape

LEMMA FinishFields ==
    ASSUME NEW w, WorkShape(w), NEW ids
    PROVE  finishDemand(w, ids) =
             [demands |-> {e \in w.demands : e.id \notin ids}, underway |-> w.underway, load |-> w.load]
<1> DEFINE D == {e \in w.demands : e.id \notin ids}
<1>1. finishDemand(w, ids) = [w EXCEPT !.demands = D]
  BY DEF finishDemand
<1> HIDE DEF D
<1> QED BY <1>1, WorkFields DEF D

LEMMA UpdateFields ==
    ASSUME NEW w, WorkShape(w), NEW d
    PROVE  Update(w, d) =
             [demands |-> {e \in w.demands : e.id \notin {d.id}} \cup {d},
              underway |-> w.underway, load |-> w.load]
<1> DEFINE v == finishDemand(w, {d.id})
           D == {e \in w.demands : e.id \notin {d.id}}
<1>1. v = [demands |-> D, underway |-> w.underway, load |-> w.load]
  BY FinishFields
<1>2. Update(w, d) = [v EXCEPT !.demands = v.demands \cup {d}]
  BY DEF Update
<1> HIDE DEF v, D
<1>3. WorkShape(v)
  BY <1>1 DEF WorkShape
<1>4. Update(w, d) = [demands |-> v.demands \cup {d}, underway |-> v.underway, load |-> v.load]
  BY <1>2, <1>3, WorkFields
<1> QED BY <1>1, <1>4 DEF D

\* Loose demands may finish: all are owned afterwards.
LEMMA FinishOrderly ==
    ASSUME NEW w, NEW loose, Orderly(w, loose)
    PROVE  /\ Orderly(finishDemand(w, loose), {})
           /\ IdsOf(finishDemand(w, loose)) \subseteq IdsOf(w)
           /\ finishDemand(w, loose).underway = w.underway
<1> DEFINE v == finishDemand(w, loose)
<1>1. v = [demands |-> {d \in w.demands : d.id \notin loose}, underway |-> w.underway, load |-> w.load]
  BY FinishFields DEF Orderly
<1>2. IdsOf(v) = IdsOf(w) \ loose
  BY <1>1 DEF IdsOf
<1>3. DemandsShaped(v)
  BY <1>1 DEF Orderly, DemandsShaped
<1>4. RequestsShaped(v)
  BY <1>1 DEF Orderly, RequestsShaped
<1>5. Matched(v, {})
  BY <1>1, <1>2 DEF Orderly, Matched
<1> QED BY <1>1, <1>2, <1>3, <1>4, <1>5 DEF Orderly, WorkShape

\* A demand is written anew.
LEMMA UpdateOrderly ==
    ASSUME NEW w, NEW loose, Orderly(w, loose),
           NEW d, DemandShape(d), d.id \in IdsOf(w)
    PROVE  Orderly(Update(w, d), loose) /\ IdsOf(Update(w, d)) = IdsOf(w)
<1> DEFINE v == Update(w, d)
<1>1. v = [demands |-> {e \in w.demands : e.id \notin {d.id}} \cup {d},
           underway |-> w.underway, load |-> w.load]
  BY UpdateFields DEF Orderly
<1>2. IdsOf(v) = IdsOf(w)
  BY <1>1 DEF IdsOf
<1>3. DemandsShaped(v)
  BY <1>1 DEF Orderly, DemandsShaped, IdsOf
<1>4. RequestsShaped(v)
  BY <1>1 DEF Orderly, RequestsShaped
<1>5. Matched(v, loose)
  <2>1. ASSUME NEW e \in v.demands, e.id \notin loose
        PROVE  \E r \in v.underway : e.id \in r.waiters
    <3>1. PICK f \in w.demands : f.id = e.id
      BY <1>2, <2>1 DEF IdsOf
    <3> QED BY <3>1, <2>1, <1>1 DEF Orderly, Matched
  <2> QED BY <2>1, <1>1, <1>2 DEF Orderly, Matched
<1> QED BY <1>1, <1>2, <1>3, <1>4, <1>5 DEF Orderly, WorkShape

\* A new demand has no owner yet.
LEMMA NewOrderly ==
    ASSUME NEW w, Orderly(w, {}),
           NEW d, DemandShape(d), d.id \in 1 .. MaxAsks, d.id \notin IdsOf(w)
    PROVE  Orderly(Update(w, d), {d.id}) /\ IdsOf(Update(w, d)) = IdsOf(w) \cup {d.id}
<1> DEFINE v == Update(w, d)
<1>1. v = [demands |-> w.demands \cup {d}, underway |-> w.underway, load |-> w.load]
  <2>1. {e \in w.demands : e.id \notin {d.id}} = w.demands
    BY DEF IdsOf
  <2> QED BY <2>1, UpdateFields DEF Orderly
<1>2. IdsOf(v) = IdsOf(w) \cup {d.id}
  BY <1>1 DEF IdsOf
<1>3. DemandsShaped(v)
  BY <1>1 DEF Orderly, DemandsShaped, IdsOf
<1>4. RequestsShaped(v)
  BY <1>1 DEF Orderly, RequestsShaped
<1>5. Matched(v, {d.id})
  <2>1. v.underway = w.underway /\ v.demands = w.demands \cup {d}
    BY <1>1
  <2> HIDE DEF v
  <2>2. Matched(w, {})
    BY DEF Orderly
  <2>3. ASSUME NEW r \in v.underway PROVE r.waiters \subseteq IdsOf(v) \ {d.id}
    <3>1. r.waiters \subseteq IdsOf(w)
      BY <2>1, <2>2 DEF Matched
    <3> QED BY <3>1, <1>2
  <2>4. \A q, r \in v.underway : q.waiters \cap r.waiters # {} => q = r
    BY <2>1, <2>2 DEF Matched
  <2>5. \A e \in v.demands : e.id \notin {d.id} => \E r \in v.underway : e.id \in r.waiters
    BY <2>1, <2>2 DEF Matched
  <2> QED BY <2>3, <2>4, <2>5 DEF Matched
<1> QED BY <1>1, <1>2, <1>3, <1>4, <1>5 DEF Orderly, WorkShape

\* A request that is sent gets a number above all others.
LEMMA SendOrderly ==
    ASSUME NEW w, NEW loose, Orderly(w, loose),
           NEW request, RequestShape(request), request.kind \in Kinds \ {"continue"},
           request.kind = "validate" => request.waiters = {},
           request.kind # "validate" => request.demand \in request.waiters,
           request.kind \in {"page", "seek"} => request.waiters = {request.demand},
           request.waiters \subseteq loose \cap IdsOf(w)
    PROVE  /\ Orderly(send(w, request), loose \ request.waiters)
           /\ send(w, request).demands = w.demands
<1> DEFINE later == {r.sent + 1 : r \in w.underway} \cup {1}
           n == CHOOSE m \in later : \A k \in later : k <= m
           sent == [request EXCEPT !.sent = n]
           v == send(w, request)
<1>1. n \in later /\ \A k \in later : k <= n
  <2>1. \A r \in w.underway : r.sent \in Nat
    BY DEF Orderly, RequestsShaped, RequestShaped
  <2>2. PICK b \in Nat : \A r \in w.underway : r.sent <= b
    BY DEF Orderly, RequestsShaped
  <2>3. later \subseteq Nat /\ later # {} /\ b + 1 \in Nat /\ \A k \in later : k <= b + 1
    BY <2>1, <2>2
  <2> HIDE DEF later
  <2>4. \E m \in later : \A k \in later : k <= m
    BY <2>3, Greatest
  <2> QED BY <2>4
<1>2. n \in Nat /\ n > 0 /\ \A r \in w.underway : r.sent < n
  <2>1. \A r \in w.underway : r.sent \in Nat /\ r.sent + 1 \in later
    BY DEF Orderly, RequestsShaped, RequestShaped
  <2>2. later \subseteq Nat /\ 1 \in later
    BY <2>1
  <2> HIDE DEF later, n
  <2> QED BY <1>1, <2>1, <2>2
<1>3. v = [demands |-> w.demands, underway |-> w.underway \cup {sent}, load |-> w.load]
  <2> DEFINE U == w.underway \cup {sent}
  <2>1. v = [w EXCEPT !.underway = U]
    BY DEF send
  <2> HIDE DEF U, v
  <2> QED BY <2>1, WorkFields DEF Orderly, U
<1> HIDE DEF n
<1>4. /\ RequestShape(sent) /\ sent.sent = n /\ sent.kind = request.kind
      /\ sent.waiters = request.waiters /\ sent.demand = request.demand
  BY DEF RequestShape
<1> HIDE DEF sent, v
<1>5. RequestShaped(sent)
  BY <1>2, <1>4 DEF RequestShaped, Kinds
<1>6. RequestsShaped(v)
  <2>1. \A r \in v.underway : RequestShaped(r) /\ r.sent <= n
    BY <1>2, <1>3, <1>4, <1>5 DEF Orderly, RequestsShaped, RequestShaped
  <2>2. \A q, r \in v.underway : q.sent = r.sent /\ q.sent # 0 => q = r
    BY <1>2, <1>3, <1>4 DEF Orderly, RequestsShaped, RequestShaped
  <2> QED BY <1>2, <2>1, <2>2 DEF RequestsShaped
<1>7. DemandsShaped(v) /\ IdsOf(v) = IdsOf(w)
  BY <1>3 DEF Orderly, DemandsShaped, IdsOf
<1>8. Matched(v, loose \ request.waiters)
  <2>1. \A q, r \in v.underway : q.waiters \cap r.waiters # {} => q = r
    BY <1>3, <1>4 DEF Orderly, Matched
  <2>2. \A r \in v.underway : r.waiters \subseteq IdsOf(v) \ (loose \ request.waiters)
    BY <1>3, <1>4, <1>7 DEF Orderly, Matched
  <2>3. \A d \in v.demands : d.id \notin loose \ request.waiters =>
            \E r \in v.underway : d.id \in r.waiters
    BY <1>3, <1>4 DEF Orderly, Matched
  <2> QED BY <2>1, <2>2, <2>3 DEF Matched
<1>9. WorkShape(v) /\ v.demands = w.demands
  BY <1>3 DEF WorkShape
<1> QED BY <1>6, <1>7, <1>8, <1>9 DEF Orderly, v

-----------------------------------------------------------------------------
(* Going on with a demand: continueDemand and what it calls.               *)

\* The demand d has no request, and is the only one.
Going(w, d) == Orderly(w, {d.id}) /\ DemandShape(d) /\ d.id \in IdsOf(w)

\* Afterwards it has one, or it is finished.
Gone(v, w) == Orderly(v, {}) /\ IdsOf(v) \subseteq IdsOf(w)

\* Writing fields of a demand or of a request keeps its shape.
Same(e, d) == DemandShape(e) /\ e.id = d.id

LEMMA CursorFields ==
    ASSUME NEW d, DemandShape(d), NEW c, NEW e
    PROVE  Same([d EXCEPT !.cursors = c, !.expected = e], d)
<1> DEFINE new == [d EXCEPT !.cursors = c, !.expected = e]
           new1 == [d EXCEPT !.cursors = c]
           new2 == [new1 EXCEPT !.expected = e]
<1>1. new = new2
  BY DEF DemandShape
<1> HIDE DEF new
<1>2. new1 = [id |-> d.id, first |-> d.first, last |-> d.last, generation |-> d.generation,
              target |-> d.target, expected |-> d.expected, seek |-> d.seek, cursors |-> c]
  BY DEF DemandShape
<1> HIDE DEF new1
<1>3. new2 = [id |-> d.id, first |-> d.first, last |-> d.last, generation |-> d.generation,
              target |-> d.target, expected |-> e, seek |-> d.seek, cursors |-> c]
  BY <1>2 
<1> HIDE DEF new2
<1>4. Same(new, d)
  BY <1>1, <1>3 DEF DemandShape, Same
<1> QED BY <1>4 DEF new

LEMMA TargetFields ==
    ASSUME NEW d, DemandShape(d), NEW t, NEW f, NEW l
    PROVE  Same([d EXCEPT !.target = t, !.first = f, !.last = l], d)
<1> DEFINE new == [d EXCEPT !.target = t, !.first = f, !.last = l]
           new1 == [d EXCEPT !.target = t]
           new2 == [new1 EXCEPT !.first = f]
           new3 == [new2 EXCEPT !.last = l]
<1>1. new = new3
  BY DEF DemandShape
<1> HIDE DEF new
<1>2. new1 = [id |-> d.id, first |-> d.first, last |-> d.last, generation |-> d.generation,
              target |-> t, expected |-> d.expected, seek |-> d.seek, cursors |-> d.cursors]
  BY DEF DemandShape
<1> HIDE DEF new1
<1>3. new2 = [id |-> d.id, first |-> f, last |-> d.last, generation |-> d.generation, target
              |-> t, expected |-> d.expected, seek |-> d.seek, cursors |-> d.cursors]
  BY <1>2 
<1> HIDE DEF new2
<1>4. new3 = [id |-> d.id, first |-> f, last |-> l, generation |-> d.generation, target |-> t,
              expected |-> d.expected, seek |-> d.seek, cursors |-> d.cursors]
  BY <1>3 
<1> HIDE DEF new3
<1>5. Same(new, d)
  BY <1>1, <1>4 DEF DemandShape, Same
<1> QED BY <1>5 DEF new

LEMMA RangeFields ==
    ASSUME NEW d, DemandShape(d), NEW f, NEW l
    PROVE  Same([d EXCEPT !.first = f, !.last = l], d)
<1> DEFINE new == [d EXCEPT !.first = f, !.last = l]
           new1 == [d EXCEPT !.first = f]
           new2 == [new1 EXCEPT !.last = l]
<1>1. new = new2
  BY DEF DemandShape
<1> HIDE DEF new
<1>2. new1 = [id |-> d.id, first |-> f, last |-> d.last, generation |-> d.generation, target
              |-> d.target, expected |-> d.expected, seek |-> d.seek, cursors |-> d.cursors]
  BY DEF DemandShape
<1> HIDE DEF new1
<1>3. new2 = [id |-> d.id, first |-> f, last |-> l, generation |-> d.generation, target |->
              d.target, expected |-> d.expected, seek |-> d.seek, cursors |-> d.cursors]
  BY <1>2 
<1> HIDE DEF new2
<1>4. Same(new, d)
  BY <1>1, <1>3 DEF DemandShape, Same
<1> QED BY <1>4 DEF new

\* What a request is for does not depend on its other fields.
Like(r, q) ==
    RequestShape(r) /\ r.kind = q.kind /\ r.demand = q.demand /\ r.waiters = q.waiters /\ r.sent = q.sent

LEMMA RequestWritten ==
    ASSUME NEW r, RequestShape(r), NEW x
    PROVE  /\ Like([r EXCEPT !.at = x], r)
           /\ Like([r EXCEPT !.epoch = x], r)
           /\ Like([r EXCEPT !.backward = x], r)
           /\ Like([r EXCEPT !.newest = x], r)
           /\ Like([r EXCEPT !.anchor = x], r)
           /\ Like([r EXCEPT !.n = x], r)
           /\ Like([r EXCEPT !.target = x], r)
           /\ Like([r EXCEPT !.generation = x], r)
           /\ Like([r EXCEPT !.bootstrap = x], r)
           /\ Like([r EXCEPT !.whole = x], r)
           /\ Like([r EXCEPT !.since = x], r)
           /\ Like([r EXCEPT !.fenced = x], r)
<1>1. Like([r EXCEPT !.at = x], r)
  <2> DEFINE q == [r EXCEPT !.at = x]
  <2>1. RequestShape(q)
    BY DEF RequestShape
  <2>2. q.kind = r.kind
    BY DEF RequestShape
  <2>3. q.demand = r.demand
    BY DEF RequestShape
  <2>4. q.waiters = r.waiters
    BY DEF RequestShape
  <2>5. q.sent = r.sent
    BY DEF RequestShape
  <2> HIDE DEF q
  <2>6. Like(q, r)
    BY <2>1, <2>2, <2>3, <2>4, <2>5 DEF Like
  <2> QED BY <2>6 DEF q
<1>2. Like([r EXCEPT !.epoch = x], r)
  <2> DEFINE q == [r EXCEPT !.epoch = x]
  <2>1. RequestShape(q)
    BY DEF RequestShape
  <2>2. q.kind = r.kind
    BY DEF RequestShape
  <2>3. q.demand = r.demand
    BY DEF RequestShape
  <2>4. q.waiters = r.waiters
    BY DEF RequestShape
  <2>5. q.sent = r.sent
    BY DEF RequestShape
  <2> HIDE DEF q
  <2>6. Like(q, r)
    BY <2>1, <2>2, <2>3, <2>4, <2>5 DEF Like
  <2> QED BY <2>6 DEF q
<1>3. Like([r EXCEPT !.backward = x], r)
  <2> DEFINE q == [r EXCEPT !.backward = x]
  <2>1. RequestShape(q)
    BY DEF RequestShape
  <2>2. q.kind = r.kind
    BY DEF RequestShape
  <2>3. q.demand = r.demand
    BY DEF RequestShape
  <2>4. q.waiters = r.waiters
    BY DEF RequestShape
  <2>5. q.sent = r.sent
    BY DEF RequestShape
  <2> HIDE DEF q
  <2>6. Like(q, r)
    BY <2>1, <2>2, <2>3, <2>4, <2>5 DEF Like
  <2> QED BY <2>6 DEF q
<1>4. Like([r EXCEPT !.newest = x], r)
  <2> DEFINE q == [r EXCEPT !.newest = x]
  <2>1. RequestShape(q)
    BY DEF RequestShape
  <2>2. q.kind = r.kind
    BY DEF RequestShape
  <2>3. q.demand = r.demand
    BY DEF RequestShape
  <2>4. q.waiters = r.waiters
    BY DEF RequestShape
  <2>5. q.sent = r.sent
    BY DEF RequestShape
  <2> HIDE DEF q
  <2>6. Like(q, r)
    BY <2>1, <2>2, <2>3, <2>4, <2>5 DEF Like
  <2> QED BY <2>6 DEF q
<1>5. Like([r EXCEPT !.anchor = x], r)
  <2> DEFINE q == [r EXCEPT !.anchor = x]
  <2>1. RequestShape(q)
    BY DEF RequestShape
  <2>2. q.kind = r.kind
    BY DEF RequestShape
  <2>3. q.demand = r.demand
    BY DEF RequestShape
  <2>4. q.waiters = r.waiters
    BY DEF RequestShape
  <2>5. q.sent = r.sent
    BY DEF RequestShape
  <2> HIDE DEF q
  <2>6. Like(q, r)
    BY <2>1, <2>2, <2>3, <2>4, <2>5 DEF Like
  <2> QED BY <2>6 DEF q
<1>6. Like([r EXCEPT !.n = x], r)
  <2> DEFINE q == [r EXCEPT !.n = x]
  <2>1. RequestShape(q)
    BY DEF RequestShape
  <2>2. q.kind = r.kind
    BY DEF RequestShape
  <2>3. q.demand = r.demand
    BY DEF RequestShape
  <2>4. q.waiters = r.waiters
    BY DEF RequestShape
  <2>5. q.sent = r.sent
    BY DEF RequestShape
  <2> HIDE DEF q
  <2>6. Like(q, r)
    BY <2>1, <2>2, <2>3, <2>4, <2>5 DEF Like
  <2> QED BY <2>6 DEF q
<1>7. Like([r EXCEPT !.target = x], r)
  <2> DEFINE q == [r EXCEPT !.target = x]
  <2>1. RequestShape(q)
    BY DEF RequestShape
  <2>2. q.kind = r.kind
    BY DEF RequestShape
  <2>3. q.demand = r.demand
    BY DEF RequestShape
  <2>4. q.waiters = r.waiters
    BY DEF RequestShape
  <2>5. q.sent = r.sent
    BY DEF RequestShape
  <2> HIDE DEF q
  <2>6. Like(q, r)
    BY <2>1, <2>2, <2>3, <2>4, <2>5 DEF Like
  <2> QED BY <2>6 DEF q
<1>8. Like([r EXCEPT !.generation = x], r)
  <2> DEFINE q == [r EXCEPT !.generation = x]
  <2>1. RequestShape(q)
    BY DEF RequestShape
  <2>2. q.kind = r.kind
    BY DEF RequestShape
  <2>3. q.demand = r.demand
    BY DEF RequestShape
  <2>4. q.waiters = r.waiters
    BY DEF RequestShape
  <2>5. q.sent = r.sent
    BY DEF RequestShape
  <2> HIDE DEF q
  <2>6. Like(q, r)
    BY <2>1, <2>2, <2>3, <2>4, <2>5 DEF Like
  <2> QED BY <2>6 DEF q
<1>9. Like([r EXCEPT !.bootstrap = x], r)
  <2> DEFINE q == [r EXCEPT !.bootstrap = x]
  <2>1. RequestShape(q)
    BY DEF RequestShape
  <2>2. q.kind = r.kind
    BY DEF RequestShape
  <2>3. q.demand = r.demand
    BY DEF RequestShape
  <2>4. q.waiters = r.waiters
    BY DEF RequestShape
  <2>5. q.sent = r.sent
    BY DEF RequestShape
  <2> HIDE DEF q
  <2>6. Like(q, r)
    BY <2>1, <2>2, <2>3, <2>4, <2>5 DEF Like
  <2> QED BY <2>6 DEF q
<1>10. Like([r EXCEPT !.whole = x], r)
  <2> DEFINE q == [r EXCEPT !.whole = x]
  <2>1. RequestShape(q)
    BY DEF RequestShape
  <2>2. q.kind = r.kind
    BY DEF RequestShape
  <2>3. q.demand = r.demand
    BY DEF RequestShape
  <2>4. q.waiters = r.waiters
    BY DEF RequestShape
  <2>5. q.sent = r.sent
    BY DEF RequestShape
  <2> HIDE DEF q
  <2>6. Like(q, r)
    BY <2>1, <2>2, <2>3, <2>4, <2>5 DEF Like
  <2> QED BY <2>6 DEF q
<1>11. Like([r EXCEPT !.since = x], r)
  <2> DEFINE q == [r EXCEPT !.since = x]
  <2>1. RequestShape(q)
    BY DEF RequestShape
  <2>2. q.kind = r.kind
    BY DEF RequestShape
  <2>3. q.demand = r.demand
    BY DEF RequestShape
  <2>4. q.waiters = r.waiters
    BY DEF RequestShape
  <2>5. q.sent = r.sent
    BY DEF RequestShape
  <2> HIDE DEF q
  <2>6. Like(q, r)
    BY <2>1, <2>2, <2>3, <2>4, <2>5 DEF Like
  <2> QED BY <2>6 DEF q
<1>12. Like([r EXCEPT !.fenced = x], r)
  <2> DEFINE q == [r EXCEPT !.fenced = x]
  <2>1. RequestShape(q)
    BY DEF RequestShape
  <2>2. q.kind = r.kind
    BY DEF RequestShape
  <2>3. q.demand = r.demand
    BY DEF RequestShape
  <2>4. q.waiters = r.waiters
    BY DEF RequestShape
  <2>5. q.sent = r.sent
    BY DEF RequestShape
  <2> HIDE DEF q
  <2>6. Like(q, r)
    BY <2>1, <2>2, <2>3, <2>4, <2>5 DEF Like
  <2> QED BY <2>6 DEF q
<1> QED BY <1>1, <1>2, <1>3, <1>4, <1>5, <1>6, <1>7, <1>8, <1>9, <1>10, <1>11, <1>12

LEMMA LikeTransitive == ASSUME NEW p, NEW q, NEW r, Like(p, q), Like(q, r) PROVE Like(p, r)
BY DEF Like

LEMMA AskShape ==
    ASSUME NEW kind, NEW id
    PROVE  Like(Ask(kind, id), Ask(kind, id))
BY DEF Ask, RequestShape, Like

\* A request that is sent for one demand.
For(r, kind, id) ==
    RequestShape(r) /\ r.kind = kind /\ r.demand = id /\ r.waiters = {id} /\ r.sent = 0

LEMMA SeekFields ==
    ASSUME NEW id, NEW a, NEW e
    PROVE  For([Ask("seek", id) EXCEPT !.at = a, !.epoch = e], "seek", id)
<1> DEFINE new == [Ask("seek", id) EXCEPT !.at = a, !.epoch = e]
           new0 == Ask("seek", id)
           new1 == [new0 EXCEPT !.at = a]
           new2 == [new1 EXCEPT !.epoch = e]
<1>1. new = new2
  BY DEF Ask
<1>2. Like(new0, new0) /\ For(new0, "seek", id)
  BY AskShape DEF Like, For, Ask
<1> HIDE DEF new, new0
<1>3. Like(new1, new0)
  <2>1. RequestShape(new0)
    BY <1>2 DEF Like
  <2>2. Like(new1, new0)
    BY <2>1, RequestWritten
  <2> HIDE DEF new1
  <2> QED BY <1>2, <2>2, LikeTransitive
<1> HIDE DEF new1
<1>4. Like(new2, new0)
  <2>1. RequestShape(new1)
    BY <1>3 DEF Like
  <2>2. Like(new2, new1)
    BY <2>1, RequestWritten
  <2> HIDE DEF new2
  <2> QED BY <1>3, <2>2, LikeTransitive
<1> HIDE DEF new2
<1>5. For(new, "seek", id)
  BY <1>1, <1>2, <1>4 DEF Like, For
<1> QED BY <1>5 DEF new

LEMMA PageFields ==
    ASSUME NEW id, NEW b, NEW c, NEW a, NEW m, NEW k
    PROVE  For([Ask("page", id) EXCEPT !.backward = b, !.newest = c, !.at = a, !.anchor = m, !.n = k], "page", id)
<1> DEFINE new == [Ask("page", id) EXCEPT !.backward = b, !.newest = c, !.at = a, !.anchor = m, !.n = k]
           new0 == Ask("page", id)
           new1 == [new0 EXCEPT !.backward = b]
           new2 == [new1 EXCEPT !.newest = c]
           new3 == [new2 EXCEPT !.at = a]
           new4 == [new3 EXCEPT !.anchor = m]
           new5 == [new4 EXCEPT !.n = k]
<1>1. new = new5
  BY DEF Ask
<1>2. Like(new0, new0) /\ For(new0, "page", id)
  BY AskShape DEF Like, For, Ask
<1> HIDE DEF new, new0
<1>3. Like(new1, new0)
  <2>1. RequestShape(new0)
    BY <1>2 DEF Like
  <2>2. Like(new1, new0)
    BY <2>1, RequestWritten
  <2> HIDE DEF new1
  <2> QED BY <1>2, <2>2, LikeTransitive
<1> HIDE DEF new1
<1>4. Like(new2, new0)
  <2>1. RequestShape(new1)
    BY <1>3 DEF Like
  <2>2. Like(new2, new1)
    BY <2>1, RequestWritten
  <2> HIDE DEF new2
  <2> QED BY <1>3, <2>2, LikeTransitive
<1> HIDE DEF new2
<1>5. Like(new3, new0)
  <2>1. RequestShape(new2)
    BY <1>4 DEF Like
  <2>2. Like(new3, new2)
    BY <2>1, RequestWritten
  <2> HIDE DEF new3
  <2> QED BY <1>4, <2>2, LikeTransitive
<1> HIDE DEF new3
<1>6. Like(new4, new0)
  <2>1. RequestShape(new3)
    BY <1>5 DEF Like
  <2>2. Like(new4, new3)
    BY <2>1, RequestWritten
  <2> HIDE DEF new4
  <2> QED BY <1>5, <2>2, LikeTransitive
<1> HIDE DEF new4
<1>7. Like(new5, new0)
  <2>1. RequestShape(new4)
    BY <1>6 DEF Like
  <2>2. Like(new5, new4)
    BY <2>1, RequestWritten
  <2> HIDE DEF new5
  <2> QED BY <1>6, <2>2, LikeTransitive
<1> HIDE DEF new5
<1>8. For(new, "page", id)
  BY <1>1, <1>2, <1>7 DEF Like, For
<1> QED BY <1>8 DEF new

LEMMA IslandFields ==
    ASSUME NEW id, NEW t, NEW e, NEW g, NEW f, NEW b, NEW m, NEW k
    PROVE  For([Ask("island", id) EXCEPT !.target = t, !.epoch = e, !.generation = g, !.bootstrap = f, !.backward = b, !.anchor = m, !.n = k], "island", id)
<1> DEFINE new == [Ask("island", id) EXCEPT !.target = t, !.epoch = e, !.generation = g, !.bootstrap = f, !.backward = b, !.anchor = m, !.n = k]
           new0 == Ask("island", id)
           new1 == [new0 EXCEPT !.target = t]
           new2 == [new1 EXCEPT !.epoch = e]
           new3 == [new2 EXCEPT !.generation = g]
           new4 == [new3 EXCEPT !.bootstrap = f]
           new5 == [new4 EXCEPT !.backward = b]
           new6 == [new5 EXCEPT !.anchor = m]
           new7 == [new6 EXCEPT !.n = k]
<1>1. new = new7
  BY DEF Ask
<1>2. Like(new0, new0) /\ For(new0, "island", id)
  BY AskShape DEF Like, For, Ask
<1> HIDE DEF new, new0
<1>3. Like(new1, new0)
  <2>1. RequestShape(new0)
    BY <1>2 DEF Like
  <2>2. Like(new1, new0)
    BY <2>1, RequestWritten
  <2> HIDE DEF new1
  <2> QED BY <1>2, <2>2, LikeTransitive
<1> HIDE DEF new1
<1>4. Like(new2, new0)
  <2>1. RequestShape(new1)
    BY <1>3 DEF Like
  <2>2. Like(new2, new1)
    BY <2>1, RequestWritten
  <2> HIDE DEF new2
  <2> QED BY <1>3, <2>2, LikeTransitive
<1> HIDE DEF new2
<1>5. Like(new3, new0)
  <2>1. RequestShape(new2)
    BY <1>4 DEF Like
  <2>2. Like(new3, new2)
    BY <2>1, RequestWritten
  <2> HIDE DEF new3
  <2> QED BY <1>4, <2>2, LikeTransitive
<1> HIDE DEF new3
<1>6. Like(new4, new0)
  <2>1. RequestShape(new3)
    BY <1>5 DEF Like
  <2>2. Like(new4, new3)
    BY <2>1, RequestWritten
  <2> HIDE DEF new4
  <2> QED BY <1>5, <2>2, LikeTransitive
<1> HIDE DEF new4
<1>7. Like(new5, new0)
  <2>1. RequestShape(new4)
    BY <1>6 DEF Like
  <2>2. Like(new5, new4)
    BY <2>1, RequestWritten
  <2> HIDE DEF new5
  <2> QED BY <1>6, <2>2, LikeTransitive
<1> HIDE DEF new5
<1>8. Like(new6, new0)
  <2>1. RequestShape(new5)
    BY <1>7 DEF Like
  <2>2. Like(new6, new5)
    BY <2>1, RequestWritten
  <2> HIDE DEF new6
  <2> QED BY <1>7, <2>2, LikeTransitive
<1> HIDE DEF new6
<1>9. Like(new7, new0)
  <2>1. RequestShape(new6)
    BY <1>8 DEF Like
  <2>2. Like(new7, new6)
    BY <2>1, RequestWritten
  <2> HIDE DEF new7
  <2> QED BY <1>8, <2>2, LikeTransitive
<1> HIDE DEF new7
<1>10. For(new, "island", id)
  BY <1>1, <1>2, <1>9 DEF Like, For
<1> QED BY <1>10 DEF new

LEMMA ValidateFields ==
    ASSUME NEW x, NEW r, r = [Ask("validate", 0) EXCEPT !.waiters = {}, !.whole = x]
    PROVE  RequestShape(r) /\ r.kind = "validate" /\ r.waiters = {}
<1> DEFINE new0 == Ask("validate", 0)
           new1 == [new0 EXCEPT !.waiters = {}]
           new2 == [new1 EXCEPT !.whole = x]
<1>1. r = new2
  BY DEF Ask
<1>2. RequestShape(new0) /\ new0.kind = "validate"
  BY AskShape DEF Like, Ask
<1> HIDE DEF new0
<1>3. RequestShape(new1)
  BY <1>2 DEF RequestShape
<1>4. new1.kind = "validate" /\ new1.waiters = {}
  BY <1>2 DEF RequestShape
<1> HIDE DEF new1
<1>5. Like(new2, new1)
  BY <1>3, RequestWritten
<1> QED BY <1>1, <1>4, <1>5 DEF Like

LEMMA FinishGoing ==
    ASSUME NEW w, NEW d, Going(w, d)
    PROVE  Gone(finishDemand(w, {d.id}), w)
BY FinishOrderly DEF Going, Gone

LEMMA SendGoing ==
    ASSUME NEW w, NEW d, Going(w, d), NEW r, NEW kind \in {"page", "seek", "island"}, For(r, kind, d.id)
    PROVE  Gone(send(w, r), w)
<1>1. Orderly(send(w, r), {d.id} \ r.waiters) /\ send(w, r).demands = w.demands
  <2>1. Orderly(w, {d.id}) /\ r.kind \in Kinds \ {"continue"} /\ r.kind # "validate"
    BY DEF Going, Kinds, For
  <2>2. r.waiters \subseteq {d.id} \cap IdsOf(w) /\ r.demand \in r.waiters
        /\ RequestShape(r) /\ r.waiters = {r.demand}
    BY DEF Going, For
  <2> QED BY <2>1, <2>2, SendOrderly
<1>2. {d.id} \ r.waiters = {}
  BY DEF For
<1> QED BY <1>1, <1>2 DEF Gone, IdsOf

LEMMA UpdateGoing ==
    ASSUME NEW w, NEW d, Going(w, d), NEW e, DemandShape(e), e.id = d.id
    PROVE  Going(Update(w, e), e) /\ IdsOf(Update(w, e)) = IdsOf(w)
BY UpdateOrderly DEF Going

LEMMA SendPageGoes ==
    ASSUME NEW w, NEW t, NEW d, Going(w, d), NEW from, NEW to, NEW left, NEW right, NEW middle
    PROVE  Gone(sendPage(w, t, d, from, to, left, right, middle), w)
<1> DEFINE backward == right - to < from - left
           newest == backward /\ right = Size(t) + 1
           at == IF backward THEN right ELSE left
           anchor == IF newest \/ at = 0 THEN 0 ELSE t.slots[at]
           n == MinOf(MaxFetch, MaxOf(Block, IF backward THEN at - from ELSE to - at))
           key == <<backward, newest, anchor>>
           expected == IF backward THEN MaxOf(1, IF at > n THEN at - n ELSE 1)..(at - 1)
                       ELSE (at + 1)..MinOf(Size(t), at + n)
           far == d.seek /\ MinOf(from - left, right - to) > SeekDistance
           place == Clamp(middle, 1, Size(t))
           seek == [Ask("seek", d.id) EXCEPT !.at = place, !.epoch = epoch]
           new == [d EXCEPT !.cursors = d.cursors \cup {key}, !.expected = expected]
           page == [Ask("page", d.id) EXCEPT !.backward = backward, !.newest = newest,
                                             !.at = at, !.anchor = anchor, !.n = n]
<1>1. sendPage(w, t, d, from, to, left, right, middle) =
        IF far THEN send(w, seek)
        ELSE IF key \in d.cursors THEN finishDemand(w, {d.id}) ELSE send(Update(w, new), page)
  BY DEF sendPage
<1> HIDE DEF key, far, expected, place, n, anchor, at, newest, backward
<1>2. Gone(finishDemand(w, {d.id}), w)
  BY FinishGoing
<1>3. Gone(send(w, seek), w)
  <2>1. For(seek, "seek", d.id)
    BY SeekFields
  <2> HIDE DEF seek
  <2> QED BY <2>1, SendGoing
<1>4. Gone(send(Update(w, new), page), w)
  <2>1. Same(new, d)
    BY CursorFields DEF Going
  <2>2. Going(Update(w, new), new) /\ IdsOf(Update(w, new)) = IdsOf(w)
    BY <2>1, UpdateGoing DEF Same
  <2>3. For(page, "page", d.id)
    BY PageFields
  <2> HIDE DEF new, page
  <2>4. Gone(send(Update(w, new), page), Update(w, new))
    BY <2>1, <2>2, <2>3, SendGoing DEF Same
  <2> QED BY <2>2, <2>4 DEF Gone
<1> QED BY <1>1, <1>2, <1>3, <1>4

LEMMA PageDemandGoes ==
    ASSUME NEW w, NEW t, NEW d, Going(w, d), NEW first, NEW last
    PROVE  Gone(pageDemand(w, t, d, first, last), w)
BY FinishGoing, SendPageGoes DEF pageDemand, continueRun

\* The request a demand joins is one, because a demand waits for one request only.
LEMMA IslandDemandGoes ==
    ASSUME NEW w, NEW t, NEW d, Going(w, d), NEW generation
    PROVE  Gone(islandDemand(w, t, d, generation), w)
<1> DEFINE island == islandForPost(t, d.target)[1]
           joined == {r \in w.underway : /\ r.kind = "island" /\ r.demand = w.load /\ r.epoch = epoch
                                         /\ r.target = island.target /\ r.generation = generation}
           backward == island.ready /\ d.first < island.first
           forward == island.ready /\ d.last > LastSlot(island)
           joining == [w EXCEPT !.underway = (@ \ joined) \cup {[r EXCEPT !.waiters = @ \cup {d.id}] : r \in joined}]
           anchor == IF ~island.ready THEN island.target ELSE IF backward THEN island.lo ELSE island.hi
           n == IF ~island.ready THEN Context
                ELSE Clamp(IF backward THEN island.first - d.first ELSE d.last - LastSlot(island), Block, MaxFetch)
           request == [Ask("island", d.id) EXCEPT
                        !.target = island.target, !.epoch = epoch, !.generation = generation,
                        !.bootstrap = ~island.ready, !.backward = backward, !.anchor = anchor, !.n = n]
<1>1. islandDemand(w, t, d, generation) =
        IF islandForPost(t, d.target) = <<>> THEN finishDemand(w, {d.id})
        ELSE IF joined # {} THEN joining
        ELSE IF island.ready /\ ~backward /\ ~forward THEN finishDemand(w, {d.id})
        ELSE [send(w, request) EXCEPT !.load = d.id]
  BY DEF islandDemand
<1>2. Gone(finishDemand(w, {d.id}), w)
  BY FinishGoing
<1>3. Gone([send(w, request) EXCEPT !.load = d.id], w)
  <2> HIDE DEF anchor, n, backward, island
  <2>1. Gone(send(w, request), w)
    <3>1. For(request, "island", d.id)
      BY IslandFields
    <3> HIDE DEF request
    <3> QED BY <3>1, SendGoing
  <2> DEFINE v == send(w, request)
             u == [v EXCEPT !.load = d.id]
  <2> HIDE DEF v
  <2>2. u = [demands |-> v.demands, underway |-> v.underway, load |-> d.id]
    BY <2>1, WorkFields DEF Gone, Orderly, v
  <2> HIDE DEF u
  <2>3. WorkShape(u) /\ u.demands = v.demands /\ u.underway = v.underway
    BY <2>2 DEF WorkShape
  <2>4. Orderly(v, {}) /\ IdsOf(v) \subseteq IdsOf(w)
    BY <2>1 DEF Gone, v
  <2>5. Orderly(u, {}) /\ IdsOf(u) = IdsOf(v)
    BY <2>3, <2>4 DEF Orderly, DemandsShaped, RequestsShaped, Matched, IdsOf
  <2> QED BY <2>4, <2>5 DEF Gone, u, v
<1>4. ASSUME joined # {} PROVE Gone(joining, w)
  <2>1. PICK j \in joined : TRUE
    BY <1>4
  <2>2. j \in w.underway /\ j.kind = "island" /\ RequestShaped(j) /\ j.demand \in j.waiters
    BY DEF Going, Orderly, RequestsShaped, RequestShaped
  <2>3. joined = {j}
    <3> SUFFICES ASSUME NEW r \in joined PROVE r = j
      BY <2>1
    <3>1. r \in w.underway /\ r.demand \in r.waiters /\ r.demand = j.demand
      BY DEF Going, Orderly, RequestsShaped, RequestShaped
    <3> QED BY <3>1, <2>2 DEF Going, Orderly, Matched
  <2> DEFINE k == [j EXCEPT !.waiters = @ \cup {d.id}]
             U == (w.underway \ {j}) \cup {k}
  <2>4. joining = [w EXCEPT !.underway = U]
    BY <2>3
  <2>5. RequestShape(k) /\ k.kind = "island" /\ k.sent = j.sent /\ k.demand = j.demand
        /\ k.waiters = j.waiters \cup {d.id}
    BY <2>2 DEF RequestShaped, RequestShape
  <2> HIDE DEF joined, joining, U, k
  <2>6. joining = [demands |-> w.demands, underway |-> U, load |-> w.load]
    BY <2>4, WorkFields DEF Going, Orderly
  <2>7. WorkShape(joining) /\ joining.demands = w.demands /\ joining.underway = U
    BY <2>6 DEF WorkShape
  <2> HIDE DEF joining
  <2>8. DemandsShaped(joining) /\ IdsOf(joining) = IdsOf(w)
    BY <2>7 DEF Going, Orderly, DemandsShaped, IdsOf
  <2>9. RequestsShaped(joining)
    <3>1. RequestShaped(k)
      BY <2>2, <2>5 DEF RequestShaped
    <3>2. \A r \in U : r = k \/ (r \in w.underway /\ r # j)
      BY DEF U
    <3>3. \A r \in w.underway : RequestShaped(r)
      BY DEF Going, Orderly, RequestsShaped
    <3>4. \A q, r \in w.underway : q.sent = r.sent /\ q.sent # 0 => q = r
      BY DEF Going, Orderly, RequestsShaped
    <3>5. PICK b \in Nat : \A r \in w.underway : r.sent <= b
      BY DEF Going, Orderly, RequestsShaped
    <3>6. \A q, r \in U : q.sent = r.sent /\ q.sent # 0 => q = r
      BY <3>2, <3>4, <2>2, <2>5
    <3>7. \A r \in U : RequestShaped(r) /\ r.sent <= b
      BY <3>1, <3>2, <3>3, <3>5, <2>2, <2>5
    <3> QED BY <3>6, <3>7, <2>7 DEF RequestsShaped
  <2>10. Matched(joining, {})
    <3>1. \A r \in U : r = k \/ (r \in w.underway /\ r # j)
      BY DEF U
    <3>2. \A q, r \in w.underway : q.waiters \cap r.waiters # {} => q = r
      BY DEF Going, Orderly, Matched
    <3>3. \A r \in w.underway : r.waiters \subseteq IdsOf(w) \ {d.id}
      BY DEF Going, Orderly, Matched
    <3>4. \A q, r \in U : q.waiters \cap r.waiters # {} => q = r
      BY <3>1, <3>2, <3>3, <2>2, <2>5
    <3>5. \A r \in U : r.waiters \subseteq IdsOf(w)
      BY <3>1, <3>3, <2>2, <2>5 DEF Going
    <3>6. ASSUME NEW e \in w.demands PROVE \E r \in U : e.id \in r.waiters
      <4>1. CASE e.id = d.id
        BY <4>1, <2>5 DEF U
      <4>2. CASE e.id # d.id
        <5>1. PICK r \in w.underway : e.id \in r.waiters
          BY <4>2 DEF Going, Orderly, Matched
        <5> QED BY <5>1, <2>5 DEF U
      <4> QED BY <4>1, <4>2
    <3> QED BY <3>4, <3>5, <3>6, <2>7, <2>8 DEF Matched
  <2> QED BY <2>7, <2>8, <2>9, <2>10 DEF Gone, Orderly
<1> HIDE DEF joined, joining, request, island, backward, forward
<1> QED BY <1>1, <1>2, <1>3, <1>4

LEMMA ContinueDemandGoes ==
    ASSUME NEW w, NEW t, NEW d, Going(w, d), NEW generation
    PROVE  Gone(continueDemand(w, t, d, generation), w)
<1> DEFINE confirmed == d.target # 0 /\ d.target \in Mapped(t)
                          /\ isAuthoritativeIndex(t, indexOfPost(t, d.target))
           i == indexOfPost(t, d.target)
           first == IF confirmed THEN IF i > Context THEN i - Context ELSE 0 ELSE d.first
           last == MinOf(Size(t), IF confirmed THEN i + Context ELSE d.last)
           new == [d EXCEPT !.target = 0, !.first = first, !.last = last]
<1>1. continueDemand(w, t, d, generation) =
        IF d.generation < generation THEN finishDemand(w, {d.id})
        ELSE IF d.target # 0 /\ ~confirmed THEN islandDemand(w, t, d, generation)
        ELSE IF first > last THEN finishDemand(w, {d.id})
        ELSE pageDemand(w, t, IF confirmed THEN new ELSE d, first, last)
  BY DEF continueDemand
<1> HIDE DEF first, last, confirmed
<1>2. Same(new, d)
  BY TargetFields DEF Going
<1> HIDE DEF new
<1>3. Going(w, IF confirmed THEN new ELSE d)
  BY <1>2 DEF Going, Same
<1> QED BY <1>1, <1>3, FinishGoing, IslandDemandGoes, PageDemandGoes

-----------------------------------------------------------------------------
(* Requests that go, and marks on those that stay.                         *)

\* "F" marks the requests; the demands of those in "gone" become loose.
Marked(w, F, gone) == [w EXCEPT !.underway = {F[r] : r \in w.underway \ gone}]
Marks(w, F) == \A r \in w.underway : Like(F[r], r)
Loose(w, gone) == UNION {r.waiters : r \in w.underway \cap gone}

LEMMA MarkOrderly ==
    ASSUME NEW w, Orderly(w, {}), NEW F, Marks(w, F), NEW gone
    PROVE  Orderly(Marked(w, F, gone), Loose(w, gone)) /\ Marked(w, F, gone).demands = w.demands
<1> DEFINE U == {F[r] : r \in w.underway \ gone}
           loose == Loose(w, gone)
           v == Marked(w, F, gone)
<1>1. v = [demands |-> w.demands, underway |-> U, load |-> w.load]
  BY WorkFields DEF Orderly, Marked
<1>2. \A u \in U : \E r \in w.underway \ gone : u = F[r] /\ Like(u, r)
  BY DEF Marks
<1>3. \A r \in w.underway \ gone : F[r] \in U /\ Like(F[r], r)
  BY DEF Marks
<1> HIDE DEF U, loose, v
<1>4. WorkShape(v) /\ v.demands = w.demands /\ v.underway = U
  <2>1. v.demands = w.demands /\ v.underway = U /\ v.load = w.load
    BY ONLY <1>1
  <2> QED BY ONLY <1>1, <2>1 DEF WorkShape
<1>5. DemandsShaped(v) /\ IdsOf(v) = IdsOf(w)
  BY <1>4 DEF Orderly, DemandsShaped, IdsOf
<1>6. RequestsShaped(v)
  <2>1. \A u \in U : RequestShaped(u)
    BY <1>2 DEF Orderly, RequestsShaped, RequestShaped, Like
  <2>2. \A p, q \in U : p.sent = q.sent /\ p.sent # 0 => p = q
    BY <1>2 DEF Orderly, RequestsShaped, Like
  <2>3. PICK n \in Nat : \A r \in w.underway : r.sent <= n
    BY DEF Orderly, RequestsShaped
  <2>4. \A u \in U : u.sent <= n
    BY <1>2, <2>3 DEF Like
  <2> QED BY <1>4, <2>1, <2>2, <2>4 DEF RequestsShaped
<1>7. Matched(v, loose)
  <2>1. Matched(w, {})
    BY DEF Orderly
  <2>2. \A p, q \in U : p.waiters \cap q.waiters # {} => p = q
    BY <1>2, <2>1 DEF Matched, Like
  <2>3. ASSUME NEW u \in U PROVE u.waiters \subseteq IdsOf(w) \ loose
    <3>1. PICK r \in w.underway \ gone : Like(u, r)
      BY <1>2
    <3>2. r.waiters \subseteq IdsOf(w)
      BY <2>1 DEF Matched
    <3>3. ASSUME NEW q \in w.underway \cap gone PROVE r.waiters \cap q.waiters = {}
      BY <2>1 DEF Matched
    <3> QED BY <3>1, <3>2, <3>3 DEF Like, loose, Loose
  <2>4. ASSUME NEW d \in w.demands, d.id \notin loose PROVE \E u \in U : d.id \in u.waiters
    <3>1. PICK r \in w.underway : d.id \in r.waiters
      BY <2>1 DEF Matched
    <3>2. r \notin gone
      BY <2>4, <3>1 DEF loose, Loose
    <3> QED BY <1>3, <3>1, <3>2 DEF Like
  <2> QED BY <1>4, <1>5, <2>2, <2>3, <2>4 DEF Matched
<1> QED BY <1>4, <1>5, <1>6, <1>7 DEF Orderly, loose, v

LEMMA LikeItself == ASSUME NEW r, RequestShape(r) PROVE Like(r, r)
BY DEF Like

LEMMA DoneOrderly ==
    ASSUME Orderly(work, {}), NEW request \in work.underway, NEW held
    PROVE  Orderly(Done(request, held), request.waiters) /\ IdsOf(Done(request, held)) = IdsOf(work)
<1> DEFINE Seen(r) == IF r.sent > request.sent THEN [r EXCEPT !.since = MaxOf(@, held)]
                      ELSE [r EXCEPT !.fenced = @ \/ ~request.fenced]
           F == [r \in work.underway |-> Seen(r)]
           v == Done(request, held)
<1>1. v = [work EXCEPT !.underway = {Seen(r) : r \in @ \ {request}}]
  BY DEF Done
<1>2. \A r \in work.underway : F[r] = Seen(r)
  OBVIOUS
<1>3. \A r \in work.underway : Like(F[r], r)
  <2> SUFFICES ASSUME NEW r \in work.underway PROVE Like(Seen(r), r)
    BY <1>2
  <2> DEFINE x == MaxOf(r.since, held)
             y == r.fenced \/ ~request.fenced
  <2>1. RequestShape(r)
    BY DEF Orderly, RequestsShaped, RequestShaped
  <2>2. Like([r EXCEPT !.since = x], r) /\ Like([r EXCEPT !.fenced = y], r)
    <3> HIDE DEF x, y
    <3> QED BY <2>1, RequestWritten
  <2> QED BY <2>2
<1> HIDE DEF Seen, F
<1>4. v = Marked(work, F, {request})
  BY <1>1, <1>2 DEF Marked
<1>5. Marks(work, F)
  BY <1>3 DEF Marks
<1>6. Loose(work, {request}) = request.waiters
  BY DEF Loose
<1> HIDE DEF v, F
<1>7. Orderly(v, request.waiters) /\ v.demands = work.demands
  BY <1>4, <1>5, <1>6, MarkOrderly
<1> QED BY <1>7 DEF v, IdsOf

LEMMA ForgetOrderly ==
    ASSUME Orderly(work, {}), NEW request \in work.underway
    PROVE  Orderly(Forget(request), request.waiters) /\ IdsOf(Forget(request)) = IdsOf(work)
<1> DEFINE F == [r \in work.underway |-> r]
           v == Forget(request)
<1>1. \A r \in work.underway : F[r] = r
  OBVIOUS
<1>2. \A r \in work.underway : Like(F[r], r)
  BY LikeItself DEF Orderly, RequestsShaped, RequestShaped
<1> HIDE DEF F
<1>3. v = Marked(work, F, {request})
  BY <1>1 DEF Forget, Marked
<1>4. Marks(work, F)
  BY <1>2 DEF Marks
<1>5. Loose(work, {request}) = request.waiters
  BY DEF Loose
<1> HIDE DEF v
<1>6. Orderly(v, request.waiters) /\ v.demands = work.demands
  BY <1>3, <1>4, <1>5, MarkOrderly
<1> QED BY <1>6 DEF v, IdsOf

LEMMA LoadOrderly ==
    ASSUME NEW w, NEW loose, Orderly(w, loose), NEW l
    PROVE  Orderly([w EXCEPT !.load = l], loose) /\ IdsOf([w EXCEPT !.load = l]) = IdsOf(w)
<1> DEFINE v == [w EXCEPT !.load = l]
<1>1. v = [demands |-> w.demands, underway |-> w.underway, load |-> l]
  BY WorkFields DEF Orderly
<1> HIDE DEF v
<1>2. WorkShape(v) /\ v.demands = w.demands /\ v.underway = w.underway
  BY <1>1 DEF WorkShape
<1> QED BY <1>2 DEF v, Orderly, DemandsShaped, RequestsShaped, Matched, IdsOf

\* The continuation owns its demand until the next turn.
LEMMA TurnOrderly ==
    ASSUME NEW w, NEW d, Going(w, d)
    PROVE  Gone([w EXCEPT !.underway = @ \cup {Turn(d)}], w)
<1> DEFINE k == Turn(d)
           v == [w EXCEPT !.underway = w.underway \cup {k}]
<1>1. RequestShape(k) /\ k.kind = "continue" /\ k.sent = 0 /\ k.demand = d.id /\ k.waiters = {d.id}
  <2> DEFINE k0 == Ask("continue", d.id)
             k1 == [k0 EXCEPT !.since = 0]
             k2 == [k1 EXCEPT !.fenced = TRUE]
  <2>1. k = k2
    BY DEF Turn, Ask
  <2>2. For(k0, "continue", d.id)
    BY AskShape DEF Like, For, Ask
  <2> HIDE DEF k, k0
  <2>3. Like(k1, k0)
    BY <2>2, RequestWritten DEF For
  <2> HIDE DEF k1
  <2>4. RequestShape(k1)
    BY <2>3 DEF Like
  <2>5. Like(k2, k1)
    BY <2>4, RequestWritten
  <2> QED BY <2>1, <2>2, <2>3, <2>5 DEF Like, For
<1> HIDE DEF k
<1>2. v = [demands |-> w.demands, underway |-> w.underway \cup {k}, load |-> w.load]
  BY WorkFields DEF Going, Orderly
<1> HIDE DEF v
<1>3. WorkShape(v) /\ v.demands = w.demands /\ v.underway = w.underway \cup {k}
  BY <1>2 DEF WorkShape
<1>4. DemandsShaped(v) /\ IdsOf(v) = IdsOf(w)
  BY <1>3 DEF Going, Orderly, DemandsShaped, IdsOf
<1>5. RequestsShaped(v)
  <2>1. RequestShaped(k)
    BY <1>1 DEF RequestShaped, Kinds
  <2>2. PICK n \in Nat : \A r \in w.underway : r.sent <= n
    BY DEF Going, Orderly, RequestsShaped
  <2>3. \A r \in v.underway : RequestShaped(r) /\ r.sent <= n
    BY <1>1, <1>3, <2>1, <2>2 DEF Going, Orderly, RequestsShaped
  <2>4. \A q, r \in v.underway : q.sent = r.sent /\ q.sent # 0 => q = r
    BY <1>1, <1>3 DEF Going, Orderly, RequestsShaped
  <2> QED BY <2>3, <2>4 DEF RequestsShaped
<1>6. Matched(v, {})
  <2>1. Matched(w, {d.id}) /\ d.id \in IdsOf(w)
    BY DEF Going, Orderly
  <2>2. \A q, r \in v.underway : q.waiters \cap r.waiters # {} => q = r
    BY <1>1, <1>3, <2>1 DEF Matched
  <2>3. \A r \in v.underway : r.waiters \subseteq IdsOf(v)
    BY <1>1, <1>3, <1>4, <2>1 DEF Matched
  <2>4. \A e \in v.demands : \E r \in v.underway : e.id \in r.waiters
    BY <1>1, <1>3, <2>1 DEF Matched
  <2> QED BY <2>2, <2>3, <2>4 DEF Matched
<1>7. Gone(v, w)
  BY <1>3, <1>4, <1>5, <1>6 DEF Gone, Orderly
<1> QED BY <1>7 DEF v, k

\* The demand a request names.
LEMMA Named ==
    ASSUME Orderly(work, {}), NEW request \in work.underway,
           request.kind \in {"page", "seek", "continue"},
           NEW d, d = CHOOSE x \in work.demands : x.id = request.demand
    PROVE  /\ d \in work.demands /\ d.id \in IdsOf(work) /\ DemandShape(d)
           /\ request.waiters = {d.id}
<1>1. request.waiters = {request.demand} /\ request.waiters \subseteq IdsOf(work)
  BY DEF Orderly, RequestsShaped, RequestShaped, Matched
<1>2. \E x \in work.demands : x.id = request.demand
  BY <1>1 DEF IdsOf
<1>3. d \in work.demands /\ d.id = request.demand
  BY <1>2
<1> QED BY <1>1, <1>3 DEF IdsOf, Orderly, DemandsShaped

-----------------------------------------------------------------------------
(* The actions.                                                            *)

Wanted(request) == CHOOSE d \in work.demands : d.id = request.demand

\* No demand is added: enough that what is left is in order.
LEMMA Kept ==
    ASSUME IInv, Gone(work', work), asked' = asked
    PROVE  IInv'
<1>1. IdsOf(work') \subseteq IdsOf(work) /\ IsFiniteSet(IdsOf(work))
  BY DEF Gone, IInv, Counted
<1>2. IsFiniteSet(IdsOf(work')) /\ Cardinality(IdsOf(work')) <= Cardinality(IdsOf(work))
  BY <1>1, FS_Subset
<1>3. Cardinality(IdsOf(work')) \in Nat /\ Cardinality(IdsOf(work)) \in Nat
  BY <1>1, <1>2, FS_CardinalityType
<1>4. Cardinality(IdsOf(work')) <= asked'
  BY <1>2, <1>3 DEF IInv, Counted
<1> QED BY <1>2, <1>4 DEF IInv, Counted, Gone

\* A request is gone, and the demands it had finish.
LEMMA EndGone ==
    ASSUME Orderly(work, {}), NEW request \in work.underway, NEW v,
           Orderly(v, request.waiters), IdsOf(v) = IdsOf(work)
    PROVE  Gone(finishDemand(v, request.waiters), work)
BY FinishOrderly DEF Gone

\* Its only demand goes on.
LEMMA OneGoing ==
    ASSUME Orderly(work, {}), NEW request \in work.underway,
           request.kind \in {"page", "seek", "continue"}, NEW v,
           Orderly(v, request.waiters), IdsOf(v) = IdsOf(work)
    PROVE  Going(v, Wanted(request)) /\ request.waiters = {Wanted(request).id}
BY Named DEF Going, Wanted

LEMMA PageWork ==
    ASSUME NEW request, NEW held, NEW t, pageAnswered(request, held, t)
    PROVE  /\ asked' = asked
           /\ \/ work' = finishDemand(Done(request, held), {Wanted(request).id})
              \/ work' = continueDemand(Done(request, held), t, Wanted(request), latest)
              \/ work' = [Done(request, held) EXCEPT !.underway = @ \cup {Turn(Wanted(request))}]
BY DEF pageAnswered, ingest, Wanted

LEMMA PageKeeps ==
    ASSUME IInv, NEW request \in work.underway, request.kind = "page", NEW held, NEW t,
           pageAnswered(request, held, t)
    PROVE  IInv'
<1> DEFINE v == Done(request, held)
           d == Wanted(request)
<1>1. Orderly(work, {})
  BY DEF IInv
<1>2. Orderly(v, request.waiters) /\ IdsOf(v) = IdsOf(work)
  BY <1>1, DoneOrderly
<1> HIDE DEF v
<1>3. Going(v, d)
  BY <1>1, <1>2, OneGoing
<1> HIDE DEF d
<1>4. /\ asked' = asked
      /\ \/ work' = finishDemand(v, {d.id})
         \/ work' = continueDemand(v, t, d, latest)
         \/ work' = [v EXCEPT !.underway = @ \cup {Turn(d)}]
  BY PageWork DEF v, d
<1>5. Gone(work', v)
  BY <1>3, <1>4, FinishGoing, ContinueDemandGoes, TurnOrderly
<1> QED BY <1>2, <1>4, <1>5, Kept DEF Gone

LEMMA IslandKeeps ==
    ASSUME IInv, NEW request \in work.underway, NEW held, NEW known, NEW t,
           islandAnswered(request, held, known, t)
    PROVE  IInv'
<1> DEFINE v == Done(request, held)
           l == IF v.load = request.demand THEN 0 ELSE v.load
           u == [v EXCEPT !.load = l]
<1>1. Orderly(work, {})
  BY DEF IInv
<1>2. asked' = asked /\ work' = finishDemand(u, request.waiters)
  BY DEF islandAnswered, ingest, Waiters
<1>3. Orderly(v, request.waiters) /\ IdsOf(v) = IdsOf(work)
  BY <1>1, DoneOrderly
<1> HIDE DEF v, l
<1>4. Orderly(u, request.waiters) /\ IdsOf(u) = IdsOf(work)
  BY <1>3, LoadOrderly
<1> HIDE DEF u
<1> QED BY <1>1, <1>2, <1>4, EndGone, Kept

LEMMA SeekKeeps ==
    ASSUME IInv, NEW request \in work.underway, request.kind = "seek", NEW held, NEW known, NEW t,
           seekAnswered(request, held, known, t)
    PROVE  IInv'
<1>1. Orderly(work, {})
  BY DEF IInv
<1>2. asked' = asked /\ work' = finishDemand(Done(request, held), {Wanted(request).id})
  BY DEF seekAnswered, ingest, Wanted
<1>3. Orderly(Done(request, held), request.waiters) /\ IdsOf(Done(request, held)) = IdsOf(work)
  BY <1>1, DoneOrderly
<1>4. request.waiters = {Wanted(request).id}
  BY <1>1, <1>3, OneGoing
<1> QED BY <1>1, <1>2, <1>3, <1>4, EndGone, Kept

LEMMA ValidatedKeeps ==
    ASSUME IInv, NEW request \in work.underway, request.kind = "validate", NEW held, NEW t,
           validated(request, held, t)
    PROVE  IInv'
<1>1. Orderly(work, {})
  BY DEF IInv
<1>2. asked' = asked /\ work' = Done(request, held)
  BY DEF validated, ingest
<1>3. Orderly(Done(request, held), request.waiters) /\ IdsOf(Done(request, held)) = IdsOf(work)
  BY <1>1, DoneOrderly
<1>4. request.waiters = {}
  BY <1>1 DEF Orderly, RequestsShaped, RequestShaped
<1> QED BY <1>2, <1>3, <1>4, Kept DEF Gone

LEMMA FailedKeeps ==
    ASSUME IInv, NEW request \in work.underway, failed(request)
    PROVE  IInv'
<1> DEFINE v == Forget(request)
           l == IF request.kind = "island" /\ v.load = request.demand THEN 0 ELSE v.load
           u == [v EXCEPT !.load = l]
<1>1. Orderly(work, {})
  BY DEF IInv
<1>2. asked' = asked /\ work' = finishDemand(u, request.waiters)
  BY DEF failed, Waiters
<1>3. Orderly(v, request.waiters) /\ IdsOf(v) = IdsOf(work)
  BY <1>1, ForgetOrderly
<1> HIDE DEF v, l
<1>4. Orderly(u, request.waiters) /\ IdsOf(u) = IdsOf(work)
  BY <1>3, LoadOrderly
<1> HIDE DEF u
<1> QED BY <1>1, <1>2, <1>4, EndGone, Kept

LEMMA AnswerKeeps == IInv /\ Answer => IInv'
<1> SUFFICES ASSUME IInv, Answer PROVE IInv'
  OBVIOUS
<1>1. PICK request \in work.underway :
        \/ failed(request)
        \/ \E held, t : \/ request.kind = "page" /\ pageAnswered(request, held, t)
                        \/ request.kind = "validate" /\ validated(request, held, t)
                        \/ \E known \in BOOLEAN :
                            \/ islandAnswered(request, held, known, t)
                            \/ request.kind = "seek" /\ seekAnswered(request, held, known, t)
  BY Zenon DEF Answer
<1> QED BY <1>1, FailedKeeps, PageKeeps, ValidatedKeeps, IslandKeeps, SeekKeeps

LEMMA ContinueKeeps == IInv /\ Continue => IInv'
<1> SUFFICES ASSUME IInv, Continue PROVE IInv'
  OBVIOUS
<1>1. PICK request \in work.underway :
        /\ request.kind = "continue"
        /\ work' = continueDemand(Forget(request), timeline, Wanted(request), latest)
        /\ asked' = asked
  BY DEF Continue, Wanted
<1> DEFINE v == Forget(request)
           d == Wanted(request)
<1>2. Orderly(work, {})
  BY DEF IInv
<1>3. Orderly(v, request.waiters) /\ IdsOf(v) = IdsOf(work)
  BY <1>2, ForgetOrderly
<1> HIDE DEF v
<1>4. Going(v, d)
  BY <1>1, <1>2, <1>3, OneGoing
<1> HIDE DEF d
<1>5. Gone(work', v)
  BY <1>1, <1>4, ContinueDemandGoes DEF v, d
<1> QED BY <1>1, <1>3, <1>5, Kept DEF Gone

LEMMA HydrateKeeps == IInv /\ hydrateCachedTail => IInv'
<1> SUFFICES ASSUME IInv, hydrateCachedTail PROVE IInv'
  OBVIOUS
<1>1. asked' = asked /\ Orderly(work, {})
  BY DEF hydrateCachedTail, IInv
<1>2. CASE work' = work
  BY <1>1, <1>2, Kept DEF Gone
<1>3. ASSUME NEW whole,
             work' = send(work, [Ask("validate", 0) EXCEPT !.waiters = {}, !.whole = whole])
      PROVE  IInv'
  <2> DEFINE r == [Ask("validate", 0) EXCEPT !.waiters = {}, !.whole = whole]
  <2>1. RequestShape(r) /\ r.kind = "validate" /\ r.waiters = {}
    BY ValidateFields
  <2>2. work' = send(work, r)
    BY <1>3
  <2> HIDE DEF r
  <2>3. Orderly(work', {}) /\ work'.demands = work.demands
    BY <1>1, <2>1, <2>2, SendOrderly DEF Kinds
  <2> QED BY <1>1, <2>3, Kept DEF Gone, IdsOf
<1>4. \/ work' = work
      \/ \E whole : work' = send(work, [Ask("validate", 0) EXCEPT !.waiters = {}, !.whole = whole])
  BY DEF hydrateCachedTail
<1> QED BY <1>2, <1>3, <1>4

\* The event of a reply only marks the requests.
LEMMA NewPostKeeps == IInv /\ onNewPost => IInv'
<1> SUFFICES ASSUME IInv, onNewPost PROVE IInv'
  OBVIOUS
<1> DEFINE F == [r \in work.underway |-> [r EXCEPT !.fenced = TRUE]]
<1>1. Orderly(work, {}) /\ asked' = asked
  BY DEF IInv, onNewPost
<1>2. work' = [work EXCEPT !.underway = {[r EXCEPT !.fenced = TRUE] : r \in @}]
  BY DEF onNewPost
<1>3. \A r \in work.underway : F[r] = [r EXCEPT !.fenced = TRUE]
  OBVIOUS
<1>4. Marks(work, F)
  <2> SUFFICES ASSUME NEW r \in work.underway PROVE Like(F[r], r)
    BY DEF Marks
  <2>1. RequestShape(r)
    BY <1>1 DEF Orderly, RequestsShaped, RequestShaped
  <2> QED BY <1>3, <2>1, RequestWritten
<1> HIDE DEF F
<1>5. work' = Marked(work, F, {})
  <2>1. {[r EXCEPT !.fenced = TRUE] : r \in work.underway} = {F[r] : r \in work.underway \ {}}
    BY <1>3
  <2> QED BY <1>2, <2>1 DEF Marked
<1>6. Loose(work, {}) = {}
  BY DEF Loose
<1>7. Orderly(work', {}) /\ work'.demands = work.demands
  BY <1>1, <1>4, <1>5, <1>6, MarkOrderly
<1> QED BY <1>1, <1>7, Kept DEF Gone, IdsOf

\* A call of requestRange that joins a demand, or makes one.
Extended(first, last, d) == [d EXCEPT !.first = MinOf(@, first), !.last = MaxOf(@, last)]

LEMMA JoinKeeps ==
    ASSUME IInv, asked < MaxAsks, asked' = asked + 1, NEW d \in work.demands, NEW first, NEW last,
           work' = Update(work, Extended(first, last, d))
    PROVE  IInv'
<1> DEFINE f == MinOf(d.first, first)
           l == MaxOf(d.last, last)
           e == [d EXCEPT !.first = f, !.last = l]
<1>1. DemandShape(d) /\ Orderly(work, {}) /\ d.id \in IdsOf(work)
  BY DEF IInv, Orderly, DemandsShaped, IdsOf
<1>2. Extended(first, last, d) = e
  BY DEF Extended
<1>3. Same(e, d)
  <2> HIDE DEF f, l
  <2> QED BY <1>1, RangeFields
<1> HIDE DEF e
<1>4. Orderly(work', {}) /\ IdsOf(work') = IdsOf(work)
  BY <1>1, <1>2, <1>3, UpdateOrderly DEF Same
<1>5. MaxAsks \in Nat
  OBVIOUS
<1>6. Cardinality(IdsOf(work)) \in Nat
  BY FS_CardinalityType DEF IInv, Counted
<1> QED BY <1>4, <1>5, <1>6 DEF IInv, Counted

LEMMA FreeIdentity ==
    ASSUME IInv, asked < MaxAsks
    PROVE  \E n \in 1 .. MaxAsks : n \notin IdsOf(work)
<1>1. MaxAsks \in Nat /\ IsFiniteSet(1 .. MaxAsks) /\ Cardinality(1 .. MaxAsks) = MaxAsks
  <2>1. MaxAsks \in Nat /\ MaxAsks >= 1 /\ MaxAsks \in Int /\ 1 \in Int
    BY DEF IInv, Counted
  <2>2. IsFiniteSet(1 .. MaxAsks) /\ Cardinality(1 .. MaxAsks) = IF 1 > MaxAsks THEN 0 ELSE MaxAsks - 1 + 1
    BY <2>1, FS_Interval, Zenon
  <2> QED BY <2>1, <2>2
<1>2. SUFFICES ASSUME 1 .. MaxAsks \subseteq IdsOf(work) PROVE FALSE
  OBVIOUS
<1>3. IsFiniteSet(IdsOf(work)) /\ Cardinality(IdsOf(work)) <= asked /\ asked \in Nat
  BY DEF IInv, Counted
<1>4. MaxAsks <= Cardinality(IdsOf(work))
  BY <1>1, <1>2, <1>3, FS_Subset
<1>5. Cardinality(IdsOf(work)) \in Nat
  BY <1>3, FS_CardinalityType
<1> QED BY <1>1, <1>3, <1>4, <1>5

LEMMA NewKeeps ==
    ASSUME IInv, asked < MaxAsks, asked' = asked + 1, NEW d, DemandShape(d), NEW generation,
           d.id = CHOOSE n \in 1 .. MaxAsks : n \notin IdsOf(work),
           work' = continueDemand(Update(work, d), timeline, d, generation)
    PROVE  IInv'
<1>1. d.id \in 1 .. MaxAsks /\ d.id \notin IdsOf(work)
  BY FreeIdentity
<1>2. Orderly(work, {})
  BY DEF IInv
<1>3. Orderly(Update(work, d), {d.id}) /\ IdsOf(Update(work, d)) = IdsOf(work) \cup {d.id}
  BY <1>1, <1>2, NewOrderly
<1>4. Going(Update(work, d), d)
  BY <1>3 DEF Going
<1>5. Orderly(work', {}) /\ IdsOf(work') \subseteq IdsOf(work) \cup {d.id}
  BY <1>3, <1>4, ContinueDemandGoes DEF Gone
<1>6. /\ IsFiniteSet(IdsOf(work)) /\ Cardinality(IdsOf(work)) \in Nat
      /\ Cardinality(IdsOf(work)) <= asked /\ asked \in Nat /\ MaxAsks \in Nat
  BY FS_CardinalityType DEF IInv, Counted
<1>7. /\ IsFiniteSet(IdsOf(work) \cup {d.id})
      /\ Cardinality(IdsOf(work) \cup {d.id}) = Cardinality(IdsOf(work)) + 1
  BY <1>1, <1>6, FS_AddElement
<1>8. /\ IsFiniteSet(IdsOf(work'))
      /\ Cardinality(IdsOf(work')) <= Cardinality(IdsOf(work) \cup {d.id})
  BY <1>5, <1>7, FS_Subset
<1>9. Cardinality(IdsOf(work')) \in Nat
  BY <1>8, FS_CardinalityType
<1>10. Cardinality(IdsOf(work')) <= asked' /\ asked' \in 0 .. MaxAsks
  BY <1>6, <1>7, <1>8, <1>9
<1> QED BY <1>5, <1>8, <1>10 DEF IInv, Counted

LEMMA RequestKeeps == IInv /\ Request => IInv'
<1> SUFFICES ASSUME IInv, NEW first, NEW last, NEW reason, NEW generation,
                    requestRange(first, last, reason, generation)
             PROVE  IInv'
  BY Zenon DEF Request
<1>1. asked < MaxAsks /\ asked' = asked + 1
  BY DEF requestRange
<1>2. \/ \E d \in work.demands : work' = Update(work, Extended(first, last, d))
      \/ \E target, seek :
            LET d == [id |-> CHOOSE n \in 1 .. MaxAsks : n \notin IdsOf(work),
                      first |-> first, last |-> last, generation |-> generation, target |-> target,
                      expected |-> {}, seek |-> seek, cursors |-> {}]
            IN work' = continueDemand(Update(work, d), timeline, d, generation)
  BY DEF requestRange, Extended, IdsOf
<1>3. CASE \E d \in work.demands : work' = Update(work, Extended(first, last, d))
  BY <1>1, <1>3, JoinKeeps
<1>4. ASSUME NEW target, NEW seek, NEW d,
             d = [id |-> CHOOSE n \in 1 .. MaxAsks : n \notin IdsOf(work),
                  first |-> first, last |-> last, generation |-> generation, target |-> target,
                  expected |-> {}, seek |-> seek, cursors |-> {}],
             work' = continueDemand(Update(work, d), timeline, d, generation)
      PROVE  IInv'
  <2>1. DemandShape(d) /\ d.id = CHOOSE n \in 1 .. MaxAsks : n \notin IdsOf(work)
    BY <1>4 DEF DemandShape
  <2> QED BY <1>1, <1>4, <2>1, NewKeeps
<1> QED BY <1>2, <1>3, <1>4

-----------------------------------------------------------------------------
LEMMA Start == Init => IInv
<1> SUFFICES ASSUME Init PROVE IInv
  OBVIOUS
<1>1. /\ work = [demands |-> {}, underway |-> {}, load |-> 0]
      /\ work.demands = {} /\ work.underway = {} /\ asked = 0 /\ IdsOf(work) = {}
  BY DEF Init, IdsOf
<1>2. Orderly(work, {})
  BY <1>1 DEF Orderly, WorkShape, DemandsShaped, RequestsShaped, Matched
<1> QED BY <1>1, <1>2, FS_EmptySet DEF IInv, Counted

LEMMA Step == IInv /\ [Next]_vars => IInv'
<1> SUFFICES ASSUME IInv, [Next]_vars PROVE IInv'
  OBVIOUS
<1>1. CASE Navigate
  BY <1>1 DEF Navigate, ensurePostIndex, IInv, Counted
<1>2. CASE CreateReply
  BY <1>2 DEF CreateReply, IInv, Counted
<1>3. CASE UNCHANGED vars
  BY <1>3 DEF vars, IInv, Counted
<1> QED BY <1>1, <1>2, <1>3, RequestKeeps, AnswerKeeps, ContinueKeeps, HydrateKeeps, NewPostKeeps DEF Next

LEMMA Owned == IInv => DemandsOwned
<1> SUFFICES ASSUME IInv, NEW d \in work.demands
             PROVE  Cardinality({r \in work.underway : d.id \in r.waiters}) = 1
  BY DEF DemandsOwned
<1>1. PICK r \in work.underway : d.id \in r.waiters
  BY DEF IInv, Orderly, Matched
<1>2. {q \in work.underway : d.id \in q.waiters} = {r}
  BY <1>1 DEF IInv, Orderly, Matched
<1> QED BY <1>2, FS_Singleton

\* A demand of the list that has not reported is waited for by exactly one request, one load of
\* an island or one continuation, whatever is asked, answered and failed in whatever order.
THEOREM EveryDemandIsOwned == Spec => []DemandsOwned
<1>1. Spec => []IInv
  BY Start, Step, PTL DEF Spec
<1> QED BY <1>1, Owned, PTL

-----------------------------------------------------------------------------
HIDE ThreadPostsAssumption

(* The recursive functions of the model, by their cases.                   *)

\* A count by induction: what holds of 0, and of the next number, holds of all.
LEMMA Upward ==
    ASSUME NEW n \in Nat, NEW H, H \subseteq 0 .. n, 0 \in H, \A k \in H : k < n => k + 1 \in H
    PROVE  H = 0 .. n
<1> SUFFICES ASSUME NEW m \in 0 .. n, m \notin H PROVE FALSE
  OBVIOUS
<1> DEFINE T == (0 .. n) \ H
<1>1. PICK x \in T : \A y \in T : x <= y
  <2>1. T \subseteq Nat /\ T # {}
    OBVIOUS
  <2> HIDE DEF T
  <2> QED BY <2>1, Least
<1>2. x > 0 /\ x - 1 \in 0 .. n /\ x - 1 \notin T
  BY <1>1
<1> QED BY <1>1, <1>2

\* Others, makeRoom and placeExactWindow go through the islands: each is given by its runs over the
\* first of them.
OthersDef(islands, targets, f, k) ==
    IF k = 0 THEN <<>>
    ELSE IF islands[k].target \in targets THEN f[k - 1] ELSE Append(f[k - 1], islands[k])

OthersRun(islands, targets, m, f) == f = [k \in 0 .. m |-> OthersDef(islands, targets, f, k)]
OthersFrom(islands, targets, n) == CHOOSE f : OthersRun(islands, targets, n, f)

\* One more step of Others.
LEMMA OthersNext ==
    ASSUME NEW islands, NEW targets, NEW m \in Nat, NEW f, OthersRun(islands, targets, m, f)
    PROVE  \E g : OthersRun(islands, targets, m + 1, g)
<1> DEFINE g == [k \in 0 .. m + 1 |-> IF k = m + 1 THEN OthersDef(islands, targets, f, k) ELSE f[k]]
<1>1. \A k \in 0 .. m + 1 : g[k] = OthersDef(islands, targets, g, k)
  <2> SUFFICES ASSUME NEW k \in 0 .. m + 1 PROVE g[k] = OthersDef(islands, targets, g, k)
    OBVIOUS
  <2>1. k # 0 => g[k - 1] = f[k - 1]
    OBVIOUS
  <2>2. OthersDef(islands, targets, g, k) = OthersDef(islands, targets, f, k)
    <3> HIDE DEF g
    <3> QED BY <2>1 DEF OthersDef
  <2>3. k # m + 1 => f[k] = OthersDef(islands, targets, f, k)
    BY DEF OthersRun
  <2>4. g[k] = IF k = m + 1 THEN OthersDef(islands, targets, f, k) ELSE f[k]
    OBVIOUS
  <2> QED BY <2>2, <2>3, <2>4
<1>2. g = [k \in 0 .. m + 1 |-> g[k]]
  OBVIOUS
<1> HIDE DEF g
<1>3. OthersRun(islands, targets, m + 1, g)
  BY <1>1, <1>2 DEF OthersRun
<1> QED BY <1>3

\* Others is defined for any number of islands.
LEMMA OthersDefined ==
    ASSUME NEW islands, NEW targets, NEW n \in Nat
    PROVE  OthersRun(islands, targets, n, OthersFrom(islands, targets, n))
<1> DEFINE H == {m \in 0 .. n : \E f : OthersRun(islands, targets, m, f)}
<1>1. 0 \in H
  <2> DEFINE f == [k \in 0 .. 0 |-> <<>>]
  <2>1. \A k \in 0 .. 0 : f[k] = OthersDef(islands, targets, f, k)
    BY DEF OthersDef
  <2>2. f = [k \in 0 .. 0 |-> f[k]]
    OBVIOUS
  <2> HIDE DEF f
  <2>3. OthersRun(islands, targets, 0, f)
    BY <2>1, <2>2 DEF OthersRun
  <2> QED BY <2>3
<1>2. \A m \in H : m < n => m + 1 \in H
  BY OthersNext
<1>3. H \subseteq 0 .. n
  OBVIOUS
<1>4. n \in H
  <2> HIDE DEF H
  <2>1. H = 0 .. n
    BY <1>1, <1>2, <1>3, Upward
  <2> QED BY <2>1
<1> QED BY <1>4 DEF OthersFrom

\* Others by its cases.
LEMMA OthersMeans ==
    ASSUME NEW islands, NEW targets
    PROVE  Others(islands, targets) = OthersFrom(islands, targets, Len(islands))[Len(islands)]
BY DEF Others, OthersFrom, OthersRun, OthersDef

RoomDef(t, targets, first, last, f, k) ==
    IF k = 0 THEN [ok |-> TRUE, t |-> t] ELSE MakeWay(f[k - 1], t.islands[k], targets, first, last)

RoomRun(t, targets, first, last, m, f) == f = [k \in 0 .. m |-> RoomDef(t, targets, first, last, f, k)]
RoomFrom(t, targets, first, last, n) == CHOOSE f : RoomRun(t, targets, first, last, n, f)

\* One more step of makeRoom.
LEMMA RoomNext ==
    ASSUME NEW t, NEW targets, NEW first, NEW last, NEW m \in Nat, NEW f, RoomRun(t, targets, first, last, m, f)
    PROVE  \E g : RoomRun(t, targets, first, last, m + 1, g)
<1> DEFINE g == [k \in 0 .. m + 1 |-> IF k = m + 1 THEN RoomDef(t, targets, first, last, f, k) ELSE f[k]]
<1>1. \A k \in 0 .. m + 1 : g[k] = RoomDef(t, targets, first, last, g, k)
  <2> SUFFICES ASSUME NEW k \in 0 .. m + 1 PROVE g[k] = RoomDef(t, targets, first, last, g, k)
    OBVIOUS
  <2>1. k # 0 => g[k - 1] = f[k - 1]
    OBVIOUS
  <2>2. RoomDef(t, targets, first, last, g, k) = RoomDef(t, targets, first, last, f, k)
    <3> HIDE DEF g
    <3> QED BY <2>1 DEF RoomDef
  <2>3. k # m + 1 => f[k] = RoomDef(t, targets, first, last, f, k)
    BY DEF RoomRun
  <2>4. g[k] = IF k = m + 1 THEN RoomDef(t, targets, first, last, f, k) ELSE f[k]
    OBVIOUS
  <2> QED BY <2>2, <2>3, <2>4
<1>2. g = [k \in 0 .. m + 1 |-> g[k]]
  OBVIOUS
<1> HIDE DEF g
<1>3. RoomRun(t, targets, first, last, m + 1, g)
  BY <1>1, <1>2 DEF RoomRun
<1> QED BY <1>3

\* makeRoom is defined for any number of islands.
LEMMA RoomDefined ==
    ASSUME NEW t, NEW targets, NEW first, NEW last, NEW n \in Nat
    PROVE  RoomRun(t, targets, first, last, n, RoomFrom(t, targets, first, last, n))
<1> DEFINE H == {m \in 0 .. n : \E f : RoomRun(t, targets, first, last, m, f)}
<1>1. 0 \in H
  <2> DEFINE f == [k \in 0 .. 0 |-> [ok |-> TRUE, t |-> t]]
  <2>1. \A k \in 0 .. 0 : f[k] = RoomDef(t, targets, first, last, f, k)
    BY DEF RoomDef
  <2>2. f = [k \in 0 .. 0 |-> f[k]]
    OBVIOUS
  <2> HIDE DEF f
  <2>3. RoomRun(t, targets, first, last, 0, f)
    BY <2>1, <2>2 DEF RoomRun
  <2> QED BY <2>3
<1>2. \A m \in H : m < n => m + 1 \in H
  BY RoomNext
<1>3. H \subseteq 0 .. n
  OBVIOUS
<1>4. n \in H
  <2> HIDE DEF H
  <2>1. H = 0 .. n
    BY <1>1, <1>2, <1>3, Upward
  <2> QED BY <2>1
<1> QED BY <1>4 DEF RoomFrom

\* makeRoom by its cases.
LEMMA RoomMeans ==
    ASSUME NEW t, NEW targets, NEW first, NEW last
    PROVE  makeRoom(t, targets, first, last) = RoomFrom(t, targets, first, last, Len(t.islands))[Len(t.islands)]
BY DEF makeRoom, RoomFrom, RoomRun, RoomDef

PageDef(t, first, lo, hi, f, k) ==
    IF k = 0 THEN [ok |-> TRUE, t |-> t]
    ELSE MoveAside(f[k - 1], islandForPost(f[k - 1].t, t.islands[k].target), first, lo, hi)

PageRun(t, first, lo, hi, m, f) == f = [k \in 0 .. m |-> PageDef(t, first, lo, hi, f, k)]
PageFrom(t, first, lo, hi, n) == CHOOSE f : PageRun(t, first, lo, hi, n, f)

\* One more step of placeExactWindow.
LEMMA PageNext ==
    ASSUME NEW t, NEW first, NEW lo, NEW hi, NEW m \in Nat, NEW f, PageRun(t, first, lo, hi, m, f)
    PROVE  \E g : PageRun(t, first, lo, hi, m + 1, g)
<1> DEFINE g == [k \in 0 .. m + 1 |-> IF k = m + 1 THEN PageDef(t, first, lo, hi, f, k) ELSE f[k]]
<1>1. \A k \in 0 .. m + 1 : g[k] = PageDef(t, first, lo, hi, g, k)
  <2> SUFFICES ASSUME NEW k \in 0 .. m + 1 PROVE g[k] = PageDef(t, first, lo, hi, g, k)
    OBVIOUS
  <2>1. k # 0 => g[k - 1] = f[k - 1]
    OBVIOUS
  <2>2. PageDef(t, first, lo, hi, g, k) = PageDef(t, first, lo, hi, f, k)
    <3> HIDE DEF g
    <3> QED BY <2>1 DEF PageDef
  <2>3. k # m + 1 => f[k] = PageDef(t, first, lo, hi, f, k)
    BY DEF PageRun
  <2>4. g[k] = IF k = m + 1 THEN PageDef(t, first, lo, hi, f, k) ELSE f[k]
    OBVIOUS
  <2> QED BY <2>2, <2>3, <2>4
<1>2. g = [k \in 0 .. m + 1 |-> g[k]]
  OBVIOUS
<1> HIDE DEF g
<1>3. PageRun(t, first, lo, hi, m + 1, g)
  BY <1>1, <1>2 DEF PageRun
<1> QED BY <1>3

\* placeExactWindow is defined for any number of islands.
LEMMA PageDefined ==
    ASSUME NEW t, NEW first, NEW lo, NEW hi, NEW n \in Nat
    PROVE  PageRun(t, first, lo, hi, n, PageFrom(t, first, lo, hi, n))
<1> DEFINE H == {m \in 0 .. n : \E f : PageRun(t, first, lo, hi, m, f)}
<1>1. 0 \in H
  <2> DEFINE f == [k \in 0 .. 0 |-> [ok |-> TRUE, t |-> t]]
  <2>1. \A k \in 0 .. 0 : f[k] = PageDef(t, first, lo, hi, f, k)
    BY DEF PageDef
  <2>2. f = [k \in 0 .. 0 |-> f[k]]
    OBVIOUS
  <2> HIDE DEF f
  <2>3. PageRun(t, first, lo, hi, 0, f)
    BY <2>1, <2>2 DEF PageRun
  <2> QED BY <2>3
<1>2. \A m \in H : m < n => m + 1 \in H
  BY PageNext
<1>3. H \subseteq 0 .. n
  OBVIOUS
<1>4. n \in H
  <2> HIDE DEF H
  <2>1. H = 0 .. n
    BY <1>1, <1>2, <1>3, Upward
  <2> QED BY <2>1
<1> QED BY <1>4 DEF PageFrom

\* placeExactWindow by its cases.
LEMMA PageMeans ==
    ASSUME NEW t, NEW first, NEW lo, NEW hi
    PROVE  placeExactWindow(t, first, lo, hi) = Confirm(PageFrom(t, first, lo, hi, Len(t.islands))[Len(t.islands)], first, lo, hi)
BY DEF placeExactWindow, PageFrom, PageRun, PageDef

-----------------------------------------------------------------------------
(* Windows, what is left of the islands, and the nearest free slot.        *)

\* The islands as records; those of a timeline tell no end of the thread.
Windows == [target : Nat, lo : Nat, hi : Nat, first : Nat,
            ready : BOOLEAN, oldest : BOOLEAN, newest : BOOLEAN]
Whole(x) == 1 <= x.lo /\ x.lo <= x.target /\ x.target <= x.hi
Stored == {x \in Windows : Whole(x) /\ ~x.oldest /\ ~x.newest}

\* What is left are islands of other targets, in the order they had.
LEMMA OthersKeep ==
    ASSUME NEW islands \in Seq(Stored), NEW targets, NEW u, u = Others(islands, targets)
    PROVE  /\ u \in Seq(Stored)
           /\ \A i \in DOMAIN u : \E k \in DOMAIN islands : u[i] = islands[k] /\ islands[k].target \notin targets
           /\ \A i, j \in DOMAIN u : i < j =>
                \E k, l \in DOMAIN islands : k < l /\ u[i] = islands[k] /\ u[j] = islands[l]
<1> DEFINE n == Len(islands)
           f == OthersFrom(islands, targets, n)
           Good(v, m) == /\ v \in Seq(Stored)
                         /\ \A i \in DOMAIN v : \E k \in 1 .. m : v[i] = islands[k] /\ islands[k].target \notin targets
                         /\ \A i, j \in DOMAIN v : i < j =>
                                \E k, l \in 1 .. m : k < l /\ v[i] = islands[k] /\ v[j] = islands[l]
           H == {m \in 0 .. n : Good(f[m], m)}
<1>1. n \in Nat /\ DOMAIN islands = 1 .. n
  OBVIOUS
<1>2. \A k \in 0 .. n : f[k] = OthersDef(islands, targets, f, k)
  <2> HIDE DEF n
  <2> QED BY <1>1, OthersDefined DEF OthersRun
<1> HIDE DEF f, n
<1>3. 0 \in H
  <2>1. f[0] = <<>>
    BY <1>1, <1>2 DEF OthersDef
  <2>2. Good(<<>>, 0)
    OBVIOUS
  <2> HIDE DEF Good
  <2> QED BY <1>1, <2>1, <2>2
<1>4. ASSUME NEW m \in H, m < n PROVE m + 1 \in H
  <2> DEFINE v == f[m]
             x == islands[m + 1]
  <2>1. m \in Nat /\ Good(v, m) /\ x \in Stored
    BY <1>1, <1>4
  <2>2. f[m + 1] = IF x.target \in targets THEN v ELSE Append(v, x)
    BY <1>1, <1>2, <1>4 DEF OthersDef
  <2>3. Good(v, m + 1)
    BY <2>1
  <2>4. ASSUME x.target \notin targets PROVE Good(Append(v, x), m + 1)
    <3> DEFINE w == Append(v, x)
    <3>0. v \in Seq(Stored) /\ x \in Stored
      BY <2>1
    <3> HIDE DEF v, x
    <3>1. w \in Seq(Stored) /\ Len(w) = Len(v) + 1 /\ w[Len(v) + 1] = x
          /\ \A i \in DOMAIN v : w[i] = v[i]
      BY <3>0
    <3>2. DOMAIN w = 1 .. Len(v) + 1 /\ DOMAIN v = 1 .. Len(v) /\ Len(v) \in Nat
      BY <3>0, <3>1
    <3> HIDE DEF w
    <3>3. ASSUME NEW i \in DOMAIN w
          PROVE  \E k \in 1 .. m + 1 : w[i] = islands[k] /\ islands[k].target \notin targets
      <4>1. CASE i \in DOMAIN v
        <5>1. PICK k \in 1 .. m : v[i] = islands[k] /\ islands[k].target \notin targets
          BY <2>1, <4>1
        <5>2. k \in 1 .. m + 1
          BY <2>1
        <5>3. w[i] = islands[k]
          BY <3>1, <4>1, <5>1
        <5> QED BY <5>1, <5>2, <5>3
      <4>2. CASE i \notin DOMAIN v
        <5>1. i = Len(v) + 1 /\ m + 1 \in 1 .. m + 1
          BY <2>1, <3>2, <4>2
        <5> QED BY <2>4, <3>1, <5>1 DEF x
      <4> QED BY <4>1, <4>2
    <3>4. ASSUME NEW i \in DOMAIN w, NEW j \in DOMAIN w, i < j
          PROVE  \E k, l \in 1 .. m + 1 : k < l /\ w[i] = islands[k] /\ w[j] = islands[l]
      <4>1. i \in DOMAIN v
        BY <3>2, <3>4
      <4>2. CASE j \in DOMAIN v
        <5>1. PICK k, l \in 1 .. m : k < l /\ v[i] = islands[k] /\ v[j] = islands[l]
          BY <2>1, <3>4, <4>1, <4>2
        <5>2. k \in 1 .. m + 1 /\ l \in 1 .. m + 1
          BY <2>1
        <5> QED BY <5>1, <5>2, <4>1, <4>2, <3>1
      <4>3. CASE j \notin DOMAIN v
        <5>1. w[j] = islands[m + 1]
          BY <3>1, <3>2, <4>3 DEF x
        <5>2. PICK k \in 1 .. m : v[i] = islands[k]
          BY <2>1, <4>1
        <5>3. k \in 1 .. m + 1 /\ m + 1 \in 1 .. m + 1 /\ k < m + 1
          BY <2>1
        <5> QED BY <5>1, <5>2, <5>3, <4>1, <3>1
      <4> QED BY <4>2, <4>3
    <3>5. Good(w, m + 1)
      BY <3>1, <3>3, <3>4
    <3> QED BY <3>5 DEF w
  <2>5. Good(f[m + 1], m + 1)
    <3> HIDE DEF Good, v, x
    <3> QED BY <2>2, <2>3, <2>4
  <2> QED BY <2>5, <1>1, <1>4
<1> HIDE DEF Good
<1>5. n \in H
  <2> HIDE DEF H
  <2>1. H \subseteq 0 .. n
    BY DEF H
  <2>2. H = 0 .. n
    BY <1>1, <1>3, <1>4, <2>1, Upward
  <2> QED BY <1>1, <2>2
<1>6. Good(u, n)
  BY <1>5, OthersMeans DEF f, n
<1>7. u \in Seq(Stored) /\ DOMAIN islands = 1 .. n
  BY <1>1, <1>6 DEF Good
<1>8. \A i \in DOMAIN u : \E k \in 1 .. n : u[i] = islands[k] /\ islands[k].target \notin targets
  BY <1>6 DEF Good
<1>9. \A i, j \in DOMAIN u : i < j =>
        \E k, l \in 1 .. n : k < l /\ u[i] = islands[k] /\ u[j] = islands[l]
  BY <1>6 DEF Good
<1> HIDE DEF Good
<1>10. \A i \in DOMAIN u : \E k \in DOMAIN islands : u[i] = islands[k] /\ islands[k].target \notin targets
  BY <1>7, <1>8
<1>11. \A i, j \in DOMAIN u : i < j =>
        \E k, l \in DOMAIN islands : k < l /\ u[i] = islands[k] /\ u[j] = islands[l]
  BY <1>7, <1>9
<1> QED BY <1>7, <1>10, <1>11, Zenon

\* The slot that is nearest is one of those that are free.
LEMMA NearestIsFree ==
    ASSUME NEW free, free \subseteq Nat, NEW preferred \in Nat
    PROVE  (free = {} /\ Nearest(free, preferred) = 0) \/ Nearest(free, preferred) \in free
<1> DEFINE Far(i) == IF i < preferred THEN preferred - i ELSE i - preferred
           T == {Far(i) : i \in free}
           Best(i) == \A j \in free : Far(i) < Far(j) \/ (Far(i) = Far(j) /\ i <= j)
<1>1. CASE free = {}
  BY <1>1 DEF Nearest
<1>2. CASE free # {}
  <2>1. PICK d \in T : \A e \in T : d <= e
    <3>1. T \subseteq Nat /\ T # {}
      <4>1. \A i \in free : Far(i) \in Nat
        OBVIOUS
      <4> HIDE DEF Far
      <4> QED BY <1>2, <4>1
    <3> HIDE DEF T
    <3> QED BY <3>1, Least
  <2> DEFINE U == {i \in free : Far(i) = d}
  <2>2. PICK i \in U : \A j \in U : i <= j
    <3>1. U \subseteq Nat /\ U # {}
      <4> HIDE DEF Far
      <4> QED BY <2>1
    <3> HIDE DEF U
    <3> QED BY <3>1, Least
  <2>3. \A j \in free : d <= Far(j)
    <3> HIDE DEF Far
    <3> QED BY <2>1
  <2>4. i \in free /\ Far(i) = d
    <3> HIDE DEF Far
    <3> QED BY <2>2
  <2>5. Best(i)
    <3> SUFFICES ASSUME NEW j \in free PROVE Far(i) < Far(j) \/ (Far(i) = Far(j) /\ i <= j)
      OBVIOUS
    <3>1. Far(j) \in Nat /\ d \in Nat
      BY <2>4
    <3>2. Far(j) = d => i <= j
      BY <2>2
    <3>3. d <= Far(j)
      BY <2>3
    <3> HIDE DEF Far, U
    <3> QED BY <2>4, <3>1, <3>2, <3>3
  <2>6. Nearest(free, preferred) = CHOOSE k \in free : Best(k)
    BY <1>2 DEF Nearest
  <2> HIDE DEF Best
  <2>7. (CHOOSE k \in free : Best(k)) \in free
    BY <2>4, <2>5
  <2> QED BY <2>6, <2>7
<1> QED BY <1>1, <1>2

-----------------------------------------------------------------------------
(* What shares replies with a window, and the merge of all that does.      *)

\* The islands of a timeline.
StoredIn(t) == {t.islands[k] : k \in DOMAIN t.islands}

\* With a window, or one of some islands, every island that shares replies with it is among them.
ClosedUnder(t, next, some) == \A island \in StoredIn(t) :
    (\E other \in some \cup {next} : Ids(island) \cap Ids(other) # {}) => island \in some

\* Sharing is the least set that is closed.
LEMMA SharingMeans ==
    ASSUME NEW t, NEW next
    PROVE  Sharing(t, next) = {island \in StoredIn(t) :
              \A some \in SUBSET StoredIn(t) : ClosedUnder(t, next, some) => island \in some}
BY DEF Sharing, StoredIn, ClosedUnder

\* It is closed, and in every set that is.
LEMMA SharingFacts ==
    ASSUME NEW t, NEW next, NEW S, S = Sharing(t, next)
    PROVE  /\ S \subseteq StoredIn(t)
           /\ \A x \in StoredIn(t), y \in S \cup {next} : Ids(x) \cap Ids(y) # {} => x \in S
           /\ \A R \in SUBSET StoredIn(t) : ClosedUnder(t, next, R) => S \subseteq R
<1>1. S \subseteq StoredIn(t) /\ \A R \in SUBSET StoredIn(t) : ClosedUnder(t, next, R) => S \subseteq R
  BY SharingMeans
<1>2. ASSUME NEW x \in StoredIn(t), NEW y \in S \cup {next}, Ids(x) \cap Ids(y) # {} PROVE x \in S
  <2> SUFFICES ASSUME NEW some \in SUBSET StoredIn(t), ClosedUnder(t, next, some) PROVE x \in some
    BY SharingMeans
  <2>1. y \in some \cup {next}
    BY <1>1
  <2> QED BY <1>2, <2>1 DEF ClosedUnder
<1> QED BY <1>1, <1>2

\* Every window among those the merge may join ends at or before b.
Below(t, next, b) == b \in Nat /\ \A x \in StoredIn(t) \cup {next} : x.hi <= b

\* The merge is a window around all its parts, with ends of theirs.
LEMMA MergeFacts ==
    ASSUME NEW t, t.islands \in Seq(Stored), NEW next \in Windows, Whole(next), NEW b, Below(t, next, b),
           NEW S, S = Sharing(t, next), NEW whole, whole = Merge(t, next)
    PROVE  /\ whole \in Windows /\ Whole(whole) /\ whole.hi <= b /\ whole.target = next.target
           /\ whole.ready = next.ready
           /\ whole.oldest = next.oldest /\ whole.newest = next.newest
           /\ \A x \in S \cup {next} : whole.lo <= x.lo /\ x.hi <= whole.hi
           /\ \E x \in S \cup {next} : whole.lo = x.lo
           /\ \E x \in S \cup {next} : whole.hi = x.hi
<1> DEFINE all == {next} \cup S
           L == {island.lo : island \in all}
           H == {island.hi : island \in all}
           lo == CHOOSE n \in L : \A island \in all : n <= island.lo
           hi == CHOOSE n \in H : \A island \in all : n >= island.hi
           first == IF next.first + lo >= next.lo THEN next.first + lo - next.lo ELSE 0
           oldest == \E island \in all : island.oldest
           newest == \E island \in all : island.newest
<1>1. S \subseteq Stored
  <2>1. StoredIn(t) \subseteq Stored
    BY DEF StoredIn
  <2> QED BY <2>1, SharingFacts
<1>2. \A x \in all : x \in Windows /\ Whole(x) /\ x.hi <= b
  BY <1>1, SharingFacts DEF Stored, Below
<1>3. \A x \in all : x.lo \in Nat /\ x.hi \in Nat
  BY <1>2 DEF Windows
<1>4. lo \in L /\ \A island \in all : lo <= island.lo
  <2>1. L \subseteq Nat /\ L # {}
    BY <1>3
  <2>2. \E n \in L : \A m \in L : n <= m
    <3> HIDE DEF L
    <3> QED BY <2>1, Least
  <2>3. \E n \in L : \A island \in all : n <= island.lo
    BY <2>2
  <2> HIDE DEF L, all
  <2> QED BY <2>3
<1>5. hi \in H /\ \A island \in all : hi >= island.hi
  <2>1. H \subseteq Nat /\ H # {} /\ b \in Nat /\ \A n \in H : n <= b
    BY <1>2, <1>3 DEF Below
  <2>2. \E n \in H : \A m \in H : m <= n
    <3> HIDE DEF H
    <3> QED BY <2>1, Greatest
  <2>3. \E n \in H : \A island \in all : n >= island.hi
    BY <2>1, <2>2
  <2> HIDE DEF H, all
  <2> QED BY <2>3
<1>6. whole = [next EXCEPT !.lo = lo, !.hi = hi, !.first = first, !.oldest = oldest, !.newest = newest]
  BY DEF Merge
<1> HIDE DEF lo, hi
<1>7. lo \in Nat /\ hi \in Nat /\ first \in Nat
  BY <1>3, <1>4, <1>5 DEF Windows
<1>8. oldest = next.oldest /\ newest = next.newest
  BY <1>1 DEF Stored, Windows
<1>9. oldest \in BOOLEAN /\ newest \in BOOLEAN
  BY <1>8 DEF Windows
<1> HIDE DEF first, oldest, newest
<1>10. /\ whole \in Windows /\ whole.lo = lo /\ whole.hi = hi /\ whole.target = next.target
       /\ whole.ready = next.ready /\ whole.oldest = oldest /\ whole.newest = newest
  BY <1>6, <1>7, <1>9 DEF Windows
<1>11. next \in all /\ hi <= b
  BY <1>2, <1>5
<1>12. Whole(whole)
  <2>1. 1 <= lo
    BY <1>2, <1>4 DEF Whole
  <2>2. lo <= next.lo /\ next.hi <= hi /\ next.lo <= next.target /\ next.target <= next.hi
    BY <1>2, <1>4, <1>5, <1>11 DEF Whole
  <2>3. lo <= next.target /\ next.target <= hi
    BY <2>2, <1>7 DEF Windows
  <2> QED BY <1>10, <2>1, <2>3 DEF Whole
<1> QED BY <1>4, <1>5, <1>8, <1>10, <1>11, <1>12

\* The replies of a window.
LEMMA IdsMeans ==
    ASSUME NEW x \in Windows, NEW r
    PROVE  r \in Ids(x) <=> r \in Nat /\ x.lo <= r /\ r <= x.hi
BY DEF Windows, Ids

\* The merge shows no reply that none of its parts shows.
LEMMA MergeCovers ==
    ASSUME NEW t, t.islands \in Seq(Stored), NEW next \in Windows, Whole(next), NEW b, Below(t, next, b),
           NEW S, S = Sharing(t, next), NEW whole, whole = Merge(t, next)
    PROVE  \A r \in Ids(whole) : \E x \in S \cup {next} : r \in Ids(x)
<1> SUFFICES ASSUME NEW r \in Ids(whole), \A x \in S \cup {next} : r \notin Ids(x) PROVE FALSE
  OBVIOUS
<1>1. S \subseteq StoredIn(t) /\ StoredIn(t) \subseteq Stored
  BY SharingFacts DEF StoredIn
<1>2. \A x \in S \cup {next} : x \in Windows /\ Whole(x) /\ x.lo \in Nat /\ x.hi \in Nat
  BY <1>1 DEF Stored, Windows
<1>3. whole \in Windows /\ r \in Nat /\ whole.lo <= r /\ r <= whole.hi
  BY MergeFacts, IdsMeans
<1>4. \A x \in S \cup {next} : x.hi < r \/ r < x.lo
  BY <1>2, <1>3, IdsMeans
<1>5. CASE next.hi < r
  <2> DEFINE R == {x \in S : x.hi < r}
  <2>1. ClosedUnder(t, next, R)
    <3> SUFFICES ASSUME NEW x \in StoredIn(t), NEW y \in R \cup {next}, Ids(x) \cap Ids(y) # {} PROVE x \in R
      BY DEF ClosedUnder
    <3>1. x \in S /\ x \in Windows
      BY <1>1, SharingFacts DEF Stored
    <3>2. PICK q : q \in Ids(x) /\ q \in Ids(y)
      OBVIOUS
    <3>3. y \in Windows /\ y.hi < r
      BY <1>2, <1>5
    <3>4. q \in Nat /\ q < r /\ x.lo <= q
      <4>1. q \in Nat /\ x.lo <= q /\ q <= y.hi
        BY <3>1, <3>2, <3>3, IdsMeans
      <4> QED BY <1>2, <1>3, <3>3, <4>1
    <3>5. ~(r < x.lo)
      BY <1>3, <3>1, <3>4 DEF Windows
    <3> QED BY <1>4, <3>1, <3>5
  <2>2. S \subseteq R
    <3>1. R \in SUBSET StoredIn(t)
      BY <1>1
    <3> HIDE DEF R
    <3> QED BY <2>1, <3>1, SharingFacts
  <2>3. \A x \in S \cup {next} : x.hi < r
    BY <1>5, <2>2
  <2>4. PICK x \in S \cup {next} : whole.hi = x.hi
    BY MergeFacts
  <2> QED BY <1>2, <1>3, <2>3, <2>4
<1>6. CASE r < next.lo
  <2> DEFINE R == {x \in S : r < x.lo}
  <2>1. ClosedUnder(t, next, R)
    <3> SUFFICES ASSUME NEW x \in StoredIn(t), NEW y \in R \cup {next}, Ids(x) \cap Ids(y) # {} PROVE x \in R
      BY DEF ClosedUnder
    <3>1. x \in S /\ x \in Windows
      BY <1>1, SharingFacts DEF Stored
    <3>2. PICK q : q \in Ids(x) /\ q \in Ids(y)
      OBVIOUS
    <3>3. y \in Windows /\ r < y.lo
      BY <1>2, <1>6
    <3>4. q \in Nat /\ r < q /\ q <= x.hi
      <4>1. q \in Nat /\ q <= x.hi /\ y.lo <= q
        BY <3>1, <3>2, <3>3, IdsMeans
      <4> QED BY <1>2, <1>3, <3>3, <4>1
    <3>5. ~(x.hi < r)
      BY <1>3, <3>1, <3>4 DEF Windows
    <3> QED BY <1>4, <3>1, <3>5
  <2>2. S \subseteq R
    <3>1. R \in SUBSET StoredIn(t)
      BY <1>1
    <3> HIDE DEF R
    <3> QED BY <2>1, <3>1, SharingFacts
  <2>3. \A x \in S \cup {next} : r < x.lo
    BY <1>6, <2>2
  <2>4. PICK x \in S \cup {next} : whole.lo = x.lo
    BY MergeFacts
  <2> QED BY <1>2, <1>3, <2>3, <2>4
<1> QED BY <1>4, <1>5, <1>6

\* The targets of a placement tell the islands it replaces from those it keeps apart.
LEMMA ReplacedFacts ==
    ASSUME NEW t, t.islands \in Seq(Stored), NEW next \in Windows, Whole(next), NEW b, Below(t, next, b),
           NEW S, S = Sharing(t, next), NEW whole, whole = Merge(t, next), NEW x \in StoredIn(t)
    PROVE  /\ x.target \in Replaced(t, next) <=> x \in S
           /\ x \in S => Ids(x) \subseteq Ids(whole)
           /\ x \notin S => Ids(x) \cap Ids(whole) = {}
<1>1. S \subseteq StoredIn(t) /\ StoredIn(t) \subseteq Stored
  BY SharingFacts DEF StoredIn
<1>2. \A y \in StoredIn(t) : y \in Windows /\ y.target \in Ids(y) /\ y.lo \in Nat /\ y.hi \in Nat
  BY <1>1, IdsMeans DEF Stored, Windows, Whole
<1>3. x.target \in Replaced(t, next) <=> x \in S
  <2>1. ASSUME x.target \in Replaced(t, next) PROVE x \in S
    <3>1. PICK y \in S : y.target = x.target
      BY <2>1 DEF Replaced
    <3>2. Ids(x) \cap Ids(y) # {}
      BY <1>1, <1>2, <3>1
    <3> QED BY <3>1, <3>2, SharingFacts
  <2> QED BY <2>1 DEF Replaced
<1>4. ASSUME x \in S PROVE Ids(x) \subseteq Ids(whole)
  <2>1. whole \in Windows /\ whole.lo \in Nat /\ whole.hi \in Nat /\ whole.lo <= x.lo /\ x.hi <= whole.hi
    BY <1>4, MergeFacts DEF Windows
  <2> QED BY <1>2, <2>1, IdsMeans
<1>5. ASSUME x \notin S PROVE Ids(x) \cap Ids(whole) = {}
  <2> SUFFICES ASSUME NEW r \in Ids(x), r \in Ids(whole) PROVE FALSE
    OBVIOUS
  <2>1. PICK y \in S \cup {next} : r \in Ids(y)
    BY MergeCovers
  <2> QED BY <1>5, <2>1, SharingFacts
<1> QED BY <1>3, <1>4, <1>5

-----------------------------------------------------------------------------
(* What a timeline keeps, and what one placement writes.                   *)

\* A timeline by its fields.
Shaped(t) ==
    /\ t = [slots |-> t.slots, provisional |-> t.provisional, islands |-> t.islands, nav |-> t.nav]
    /\ t.slots \in Seq(Nat)
    /\ t.islands \in Seq(Stored)

\* A slot with a reply whose rank is known.
Confirmed(t, i) == t.slots[i] # 0 /\ t.slots[i] \notin t.provisional

\* A confirmed reply has the slot of its rank.
Ranked(t) == \A i \in DOMAIN t.slots : Confirmed(t, i) => t.slots[i] = i

\* No island has a confirmed reply.
Unconfirmed(t) == \A x \in StoredIn(t) : \A i \in DOMAIN t.slots : Confirmed(t, i) => t.slots[i] \notin Ids(x)

\* An island that shares replies with an earlier one lies in it.
Nested(t) == \A k, l \in DOMAIN t.islands :
    k < l => Ids(t.islands[k]) \cap Ids(t.islands[l]) = {} \/ Ids(t.islands[l]) \subseteq Ids(t.islands[k])

\* No island takes all the slots, where there are several.
Fits(t) == \A x \in StoredIn(t) : Count(x) + 2 <= Size(t) \/ Count(x) = 1

\* Where there is one, it is that of the only island.
Small(t) ==
    /\ Size(t) = 0 => StoredIn(t) = {}
    /\ Size(t) = 1 => /\ Len(t.islands) <= 1
                      /\ \A x \in StoredIn(t) : Ids(x) = {t.slots[1]} /\ x.first = 1

\* All of it.
Fine(t) == Shaped(t) /\ Ranked(t) /\ Unconfirmed(t) /\ Nested(t) /\ Fits(t) /\ Small(t)

\* What is confirmed stays.
Keeps(u, t) ==
    /\ Size(u) >= Size(t)
    /\ \A i \in DOMAIN t.slots : Confirmed(t, i) => u.slots[i] = t.slots[i] /\ Confirmed(u, i)

\* Replies lo..hi have the slots from first on, and no others.
Written(u, t, first, lo, hi) ==
    /\ Len(u.slots) = Len(t.slots)
    /\ \A i \in DOMAIN t.slots :
        u.slots[i] = IF i >= first /\ i + lo <= first + hi THEN lo + i - first
                     ELSE IF t.slots[i] \in lo .. hi THEN 0 ELSE t.slots[i]

\* The slots of a timeline are as many as its size.
LEMMA SlotsOf ==
    ASSUME NEW t, t.slots \in Seq(Nat)
    PROVE  Size(t) \in Nat /\ DOMAIN t.slots = 1 .. Size(t) /\ \A i \in DOMAIN t.slots : t.slots[i] \in Nat
BY DEF Size

\* A reply is mapped when a slot has it.
LEMMA MappedMeans ==
    ASSUME NEW t, NEW r
    PROVE  r \in Mapped(t) <=> r # 0 /\ \E i \in DOMAIN t.slots : t.slots[i] = r
BY DEF Mapped

\* What a placement leaves where the ranks are known, and where they are not.
AsExact(u, t, whole, targets, first) ==
    /\ u = [slots |-> u.slots, provisional |-> u.provisional, islands |-> u.islands, nav |-> u.nav]
    /\ u.slots \in Seq(Nat)
    /\ Written(u, t, first, whole.lo, whole.hi)
    /\ u.provisional = Mapped(u) \cap (t.provisional \ (whole.lo .. whole.hi))
    /\ u.islands = Others(t.islands, targets)

AsFree(u, t, whole, targets, first) ==
    /\ u = [slots |-> u.slots, provisional |-> u.provisional, islands |-> u.islands, nav |-> u.nav]
    /\ u.slots \in Seq(Nat)
    /\ Written(u, t, first, whole.lo, whole.hi)
    /\ u.provisional = Mapped(u) \cap (t.provisional \cup (whole.lo .. whole.hi))
    /\ u.islands = Append(Others(t.islands, targets), [whole EXCEPT !.first = first])

\* What a placement writes.
LEMMA SettleFields ==
    ASSUME NEW t, Shaped(t), NEW whole \in Windows, Whole(whole), NEW targets,
           NEW first \in Nat, first >= 1, first + Count(whole) <= Size(t) + 1, NEW exact \in BOOLEAN,
           \A x \in StoredIn(t) : x.target \in targets => Ids(x) \subseteq Ids(whole),
           NEW u, u = settle(t, whole, targets, first, exact)
    PROVE  /\ exact => AsExact(u, t, whole, targets, first)
           /\ ~exact => AsFree(u, t, whole, targets, first)
<1> DEFINE left == Without(t, targets)
           lo == whole.lo
           hi == whole.hi
           slots == [i \in DOMAIN left |->
                        IF i >= first /\ i + lo <= first + hi THEN lo + i - first
                        ELSE IF left[i] \in lo .. hi THEN 0 ELSE left[i]]
           ids == Ids(whole)
           provisional == IF exact THEN t.provisional \ ids ELSE t.provisional \cup ids
           others == Others(t.islands, targets)
           islands == IF exact THEN others ELSE Append(others, [whole EXCEPT !.first = first])
           nav == IF t.nav.post \notin ids THEN t.nav
                  ELSE IF exact THEN NoTarget ELSE [post |-> t.nav.post, estimated |-> ~whole.ready]
           v == [slots |-> slots, provisional |-> provisional, islands |-> islands, nav |-> nav]
<1>1. u = Pruned(v)
  <2>1. [t EXCEPT !.slots = left].slots = left
    BY DEF Shaped
  <2>2. assignExactWindow([t EXCEPT !.slots = left], first, lo, hi).slots = slots
    <3> HIDE DEF left
    <3> QED BY <2>1 DEF assignExactWindow, Shaped
  <2> HIDE DEF slots, left
  <2> QED BY <2>2 DEF settle, left
<1>2. DOMAIN left = DOMAIN t.slots /\ \A i \in DOMAIN t.slots :
        left[i] = t.slots[i] \/ (left[i] = 0 /\ t.slots[i] \in lo .. hi)
  <2> DEFINE gone == UNION {Ids(t.islands[k]) : k \in {j \in DOMAIN t.islands : t.islands[j].target \in targets}}
  <2>1. gone \subseteq Ids(whole)
    BY DEF StoredIn
  <2>2. left = [i \in DOMAIN t.slots |-> IF t.slots[i] \in gone \cap t.provisional THEN 0 ELSE t.slots[i]]
    BY DEF Without
  <2> HIDE DEF gone
  <2> QED BY <2>1, <2>2 DEF Ids
<1>3. DOMAIN t.slots = 1 .. Size(t) /\ Size(t) \in Nat /\ \A i \in DOMAIN t.slots : t.slots[i] \in Nat
  BY SlotsOf DEF Shaped
<1>4. lo \in Nat /\ hi \in Nat /\ lo >= 1
  BY DEF Windows, Whole
<1> HIDE DEF left, lo, hi
<1>5. \A i \in DOMAIN t.slots :
        slots[i] = IF i >= first /\ i + lo <= first + hi THEN lo + i - first
                   ELSE IF t.slots[i] \in lo .. hi THEN 0 ELSE t.slots[i]
  BY <1>2, <1>3, <1>4
<1>6. slots \in Seq(Nat) /\ Len(slots) = Len(t.slots)
  <2>1. \A i \in 1 .. Size(t) : slots[i] \in Nat
    <3> SUFFICES ASSUME NEW i \in DOMAIN t.slots PROVE slots[i] \in Nat
      BY <1>3
    <3>1. i \in Nat /\ t.slots[i] \in Nat
      BY <1>3
    <3>2. slots[i] = lo + i - first \/ slots[i] = 0 \/ slots[i] = t.slots[i]
      BY <1>5
    <3>3. i >= first => lo + i - first \in Nat
      BY <1>4, <3>1
    <3> HIDE DEF slots
    <3>4. slots[i] = lo + i - first => i >= first \/ slots[i] = 0 \/ slots[i] = t.slots[i]
      BY <1>5
    <3> QED BY <3>1, <3>2, <3>3, <3>4
  <2>2. slots = [i \in 1 .. Size(t) |-> slots[i]]
    BY <1>2, <1>3
  <2> HIDE DEF slots
  <2>3. slots \in Seq(Nat) /\ Len(slots) = Size(t)
    BY <1>3, <2>1, <2>2
  <2> QED BY <2>3 DEF Size
<1> HIDE DEF slots, provisional, islands, nav
<1>7. u = [slots |-> slots, provisional |-> provisional \cap Mapped(v), islands |-> islands, nav |-> nav]
  BY <1>1 DEF Pruned
<1>8. Mapped(u) = Mapped(v)
  BY <1>7 DEF Mapped
<1> HIDE DEF v
<1>9. /\ u = [slots |-> u.slots, provisional |-> u.provisional, islands |-> u.islands, nav |-> u.nav]
      /\ u.slots = slots /\ u.provisional = provisional \cap Mapped(u) /\ u.islands = islands
  BY <1>7, <1>8
<1>10. Written(u, t, first, lo, hi)
  BY <1>5, <1>6, <1>9 DEF Written
<1>11. /\ exact => provisional = t.provisional \ (lo .. hi) /\ islands = others
       /\ ~exact => provisional = t.provisional \cup (lo .. hi) /\ islands = Append(others, [whole EXCEPT !.first = first])
  BY DEF provisional, islands, Ids, lo, hi
<1> HIDE DEF others
<1>12. exact => AsExact(u, t, whole, targets, first)
  BY <1>6, <1>9, <1>10, <1>11 DEF AsExact, lo, hi, others
<1>13. ~exact => AsFree(u, t, whole, targets, first)
  BY <1>6, <1>9, <1>10, <1>11 DEF AsFree, lo, hi, others
<1> QED BY <1>12, <1>13

\* A placement writes as much, with or without proof of the rank.
LEMMA AsSettled ==
    ASSUME NEW t, Shaped(t), NEW whole \in Windows, Whole(whole), NEW targets,
           NEW first \in Nat, first >= 1, first + Count(whole) <= Size(t) + 1,
           \A x \in StoredIn(t) : x.target \in targets => Ids(x) \subseteq Ids(whole)
    PROVE  /\ AsExact(settle(t, whole, targets, first, TRUE), t, whole, targets, first)
           /\ AsFree(settle(t, whole, targets, first, FALSE), t, whole, targets, first)
<1>1. \A exact \in BOOLEAN :
        /\ exact => AsExact(settle(t, whole, targets, first, exact), t, whole, targets, first)
        /\ ~exact => AsFree(settle(t, whole, targets, first, exact), t, whole, targets, first)
  BY SettleFields, Zenon
<1>2. TRUE \in BOOLEAN /\ FALSE \in BOOLEAN
  OBVIOUS
<1> QED BY <1>1, <1>2, Zenon

\* Replies that take the slots of their ranks leave the confirmed ones where they are.
LEMMA ExactKeeps ==
    ASSUME NEW t, Fine(t), NEW lo \in Nat, NEW hi \in Nat, 1 <= lo, lo <= hi, hi <= Size(t),
           NEW u, u.slots \in Seq(Nat), Written(u, t, lo, lo, hi),
           u.provisional = Mapped(u) \cap (t.provisional \ (lo .. hi))
    PROVE  /\ Ranked(u) /\ Keeps(u, t) /\ Size(u) = Size(t)
           /\ \A i \in DOMAIN u.slots : Confirmed(u, i) => u.slots[i] \in lo .. hi \/ (i \in DOMAIN t.slots /\ Confirmed(t, i) /\ u.slots[i] = t.slots[i])
<1>1. DOMAIN t.slots = 1 .. Size(t) /\ Size(t) \in Nat /\ \A i \in DOMAIN t.slots : t.slots[i] \in Nat
  BY SlotsOf DEF Fine, Shaped
<1>2. Size(u) = Size(t) /\ DOMAIN u.slots = DOMAIN t.slots
  BY <1>1, SlotsOf DEF Written, Size
<1>3. \A i \in DOMAIN t.slots :
        u.slots[i] = IF i \in lo .. hi THEN i ELSE IF t.slots[i] \in lo .. hi THEN 0 ELSE t.slots[i]
  BY <1>1 DEF Written
<1>4. ASSUME NEW i \in DOMAIN t.slots, Confirmed(u, i), i \notin lo .. hi
      PROVE  Confirmed(t, i) /\ u.slots[i] = t.slots[i] /\ t.slots[i] = i
  <2>1. u.slots[i] = t.slots[i] /\ t.slots[i] # 0 /\ t.slots[i] \notin lo .. hi
    BY <1>3, <1>4 DEF Confirmed
  <2>2. t.slots[i] \in Mapped(u)
    BY <1>2, <2>1, MappedMeans
  <2>3. Confirmed(t, i)
    BY <1>4, <2>1, <2>2 DEF Confirmed
  <2> QED BY <2>1, <2>3 DEF Fine, Ranked
<1>5. ASSUME NEW i \in DOMAIN t.slots, Confirmed(t, i)
      PROVE  u.slots[i] = i /\ t.slots[i] = i /\ Confirmed(u, i)
  <2>1. t.slots[i] = i /\ i # 0 /\ i \notin t.provisional
    BY <1>5 DEF Fine, Ranked, Confirmed
  <2>2. u.slots[i] = i
    BY <1>3, <2>1
  <2> QED BY <2>1, <2>2 DEF Confirmed
<1>6. Ranked(u)
  BY <1>2, <1>3, <1>4 DEF Ranked
<1>7. Keeps(u, t)
  BY <1>1, <1>2, <1>5 DEF Keeps
<1> QED BY <1>2, <1>3, <1>4, <1>6, <1>7

\* Replies that are put into slots without a confirmed reply, and stay unconfirmed, change none.
LEMMA FreeKeeps ==
    ASSUME NEW t, Fine(t), NEW lo \in Nat, NEW hi \in Nat, 1 <= lo, lo <= hi, NEW first \in Nat,
           \A i \in DOMAIN t.slots : i >= first /\ i + lo <= first + hi => ~Confirmed(t, i),
           \A i \in DOMAIN t.slots : Confirmed(t, i) => t.slots[i] \notin lo .. hi,
           NEW u, u.slots \in Seq(Nat), Written(u, t, first, lo, hi),
           u.provisional = Mapped(u) \cap (t.provisional \cup (lo .. hi))
    PROVE  /\ Ranked(u) /\ Keeps(u, t) /\ Size(u) = Size(t)
           /\ \A i \in DOMAIN u.slots : Confirmed(u, i) => i \in DOMAIN t.slots /\ Confirmed(t, i) /\ u.slots[i] = t.slots[i]
<1>1. DOMAIN t.slots = 1 .. Size(t) /\ Size(t) \in Nat /\ \A i \in DOMAIN t.slots : t.slots[i] \in Nat
  BY SlotsOf DEF Fine, Shaped
<1>2. Size(u) = Size(t) /\ DOMAIN u.slots = DOMAIN t.slots
  BY <1>1, SlotsOf DEF Written, Size
<1>3. ASSUME NEW i \in DOMAIN t.slots, Confirmed(u, i)
      PROVE  Confirmed(t, i) /\ u.slots[i] = t.slots[i]
  <2>1. u.slots[i] \in Mapped(u) /\ u.slots[i] # 0
    BY <1>2, <1>3, MappedMeans DEF Confirmed
  <2>2. u.slots[i] \notin t.provisional /\ u.slots[i] \notin lo .. hi
    BY <1>3, <2>1 DEF Confirmed
  <2>3. ~(i >= first /\ i + lo <= first + hi)
    <3> SUFFICES ASSUME i >= first, i + lo <= first + hi PROVE FALSE
      OBVIOUS
    <3>1. u.slots[i] = lo + i - first
      BY DEF Written
    <3>2. lo + i - first \in lo .. hi
      BY <1>1
    <3> QED BY <2>2, <3>1, <3>2
  <2>4. u.slots[i] = t.slots[i]
    BY <2>1, <2>3 DEF Written
  <2> QED BY <2>1, <2>2, <2>4 DEF Confirmed
<1>4. ASSUME NEW i \in DOMAIN t.slots, Confirmed(t, i)
      PROVE  u.slots[i] = t.slots[i] /\ Confirmed(u, i)
  <2>1. u.slots[i] = t.slots[i]
    BY <1>4 DEF Written
  <2> QED BY <1>4, <2>1 DEF Confirmed
<1>5. Ranked(u)
  BY <1>2, <1>3 DEF Ranked, Fine
<1>6. Keeps(u, t)
  BY <1>1, <1>2, <1>4 DEF Keeps
<1> QED BY <1>2, <1>3, <1>5, <1>6

-----------------------------------------------------------------------------
(* One placement keeps it.                                                 *)

\* Nothing is confirmed that was not.
NoneNew(u, t) == \A i \in DOMAIN u.slots :
    Confirmed(u, i) => i \in DOMAIN t.slots /\ Confirmed(t, i) /\ u.slots[i] = t.slots[i]

\* The islands of the targets lie in the window; the others are apart from it.
Parted(t, targets, whole) == \A x \in StoredIn(t) :
    /\ x.target \in targets => Ids(x) \subseteq Ids(whole)
    /\ x.target \notin targets => Ids(x) \cap Ids(whole) = {}

\* The islands that are left are nested as they were.
LEMMA OthersFine ==
    ASSUME NEW t, Fine(t), NEW targets, NEW islands, islands = Others(t.islands, targets),
           NEW u, u.islands = islands
    PROVE  /\ islands \in Seq(Stored)
           /\ \A x \in StoredIn(u) : x \in StoredIn(t) /\ x.target \notin targets
           /\ Nested(u)
<1>1. t.islands \in Seq(Stored)
  BY DEF Fine, Shaped
<1>2. \A x \in StoredIn(u) : x \in StoredIn(t) /\ x.target \notin targets
  <2> SUFFICES ASSUME NEW i \in DOMAIN islands
               PROVE  islands[i] \in StoredIn(t) /\ islands[i].target \notin targets
    BY DEF StoredIn
  <2>1. PICK k \in DOMAIN t.islands : islands[i] = t.islands[k] /\ t.islands[k].target \notin targets
    BY <1>1, OthersKeep
  <2> QED BY <2>1 DEF StoredIn
<1>3. Nested(u)
  <2> SUFFICES ASSUME NEW i \in DOMAIN islands, NEW j \in DOMAIN islands, i < j
               PROVE  Ids(islands[i]) \cap Ids(islands[j]) = {} \/ Ids(islands[j]) \subseteq Ids(islands[i])
    BY DEF Nested
  <2>1. PICK k, l \in DOMAIN t.islands : k < l /\ islands[i] = t.islands[k] /\ islands[j] = t.islands[l]
    BY <1>1, OthersKeep
  <2> QED BY <2>1 DEF Fine, Nested
<1> QED BY <1>1, <1>2, <1>3, OthersKeep

\* What is counted of a window.
LEMMA CountMeans ==
    ASSUME NEW x \in Windows, Whole(x)
    PROVE  /\ Count(x) = x.hi - x.lo + 1 /\ Count(x) \in Nat /\ Count(x) >= 1
           /\ x.lo \in Nat /\ x.hi \in Nat /\ x.target \in Nat /\ x.first \in Nat /\ x.lo <= x.hi
BY DEF Windows, Whole, Count

\* Replies that are placed at their ranks keep the timeline fine and what is confirmed.
LEMMA SettleExact ==
    ASSUME NEW t, Fine(t), NEW whole \in Windows, Whole(whole), NEW targets, Parted(t, targets, whole),
           whole.hi <= Size(t), Size(t) = 1 => \A x \in StoredIn(t) : x.target \in targets,
           NEW u, AsExact(u, t, whole, targets, whole.lo)
    PROVE  /\ Fine(u) /\ Keeps(u, t) /\ Size(u) = Size(t)
           /\ \A x \in StoredIn(u) : x \in StoredIn(t) /\ Ids(x) \cap Ids(whole) = {}
<1> DEFINE lo == whole.lo
           hi == whole.hi
<1>1. lo \in Nat /\ hi \in Nat /\ 1 <= lo /\ lo <= hi /\ Count(whole) = hi - lo + 1
  BY CountMeans DEF Whole
<1>2. Size(t) \in Nat
  BY SlotsOf DEF Fine, Shaped
<1>3. /\ u = [slots |-> u.slots, provisional |-> u.provisional, islands |-> u.islands, nav |-> u.nav]
      /\ u.slots \in Seq(Nat)
      /\ Written(u, t, lo, lo, hi)
      /\ u.provisional = Mapped(u) \cap (t.provisional \ (lo .. hi))
      /\ u.islands = Others(t.islands, targets)
  BY DEF AsExact
<1>4. /\ Ranked(u) /\ Keeps(u, t) /\ Size(u) = Size(t)
      /\ \A i \in DOMAIN u.slots : Confirmed(u, i) => u.slots[i] \in lo .. hi \/ (i \in DOMAIN t.slots /\ Confirmed(t, i) /\ u.slots[i] = t.slots[i])
  <2> QED BY <1>1, <1>3, ExactKeeps
<1>5. u.islands \in Seq(Stored) /\ Nested(u) /\ \A x \in StoredIn(u) : x \in StoredIn(t) /\ x.target \notin targets
  BY <1>3, OthersFine
<1>6. \A x \in StoredIn(u) : x \in StoredIn(t) /\ Ids(x) \cap Ids(whole) = {}
  BY <1>5 DEF Parted
<1>7. Unconfirmed(u)
  <2> SUFFICES ASSUME NEW x \in StoredIn(u), NEW i \in DOMAIN u.slots, Confirmed(u, i)
               PROVE  u.slots[i] \notin Ids(x)
    BY DEF Unconfirmed
  <2>1. CASE u.slots[i] \in lo .. hi
    BY <1>6, <2>1 DEF Ids
  <2>2. CASE i \in DOMAIN t.slots /\ Confirmed(t, i) /\ u.slots[i] = t.slots[i]
    BY <1>6, <2>2 DEF Fine, Unconfirmed
  <2> QED BY <1>4, <2>1, <2>2
<1>8. Fits(u)
  BY <1>4, <1>5 DEF Fits, Fine
<1>9. Small(u)
  <2>1. Size(u) = 0 => StoredIn(u) = {}
    BY <1>4, <1>5 DEF Fine, Small
  <2>2. Size(u) = 1 => StoredIn(u) = {}
    BY <1>4, <1>5
  <2>3. Size(u) = 1 => Len(u.islands) <= 1
    <3> SUFFICES ASSUME StoredIn(u) = {} PROVE Len(u.islands) <= 1
      BY <2>2
    <3>1. DOMAIN u.islands = {}
      BY DEF StoredIn
    <3>2. DOMAIN u.islands = 1 .. Len(u.islands) /\ Len(u.islands) \in Nat
      BY <1>5
    <3>3. ~(Len(u.islands) >= 1)
      <4> SUFFICES ASSUME Len(u.islands) >= 1 PROVE 1 \in DOMAIN u.islands
        BY <3>1
      <4> QED BY <3>2
    <3> QED BY <3>2, <3>3
  <2> QED BY <2>1, <2>2, <2>3 DEF Small
<1>10. Shaped(u)
  BY <1>3, <1>5 DEF Shaped
<1> QED BY <1>4, <1>5, <1>6, <1>7, <1>8, <1>9, <1>10 DEF Fine

\* Replies that are placed elsewhere confirm nothing and keep what is confirmed.
LEMMA SettleFree ==
    ASSUME NEW t, Fine(t), NEW whole \in Stored, NEW targets, Parted(t, targets, whole),
           \A i \in DOMAIN t.slots : Confirmed(t, i) => t.slots[i] \notin Ids(whole),
           NEW first \in Nat, first >= 2, first + Count(whole) <= Size(t),
           \A i \in DOMAIN t.slots : i >= first /\ i < first + Count(whole) => ~Confirmed(t, i),
           NEW u, AsFree(u, t, whole, targets, first)
    PROVE  /\ Fine(u) /\ Keeps(u, t) /\ NoneNew(u, t) /\ Size(u) = Size(t)
           /\ \A x \in StoredIn(u) : \/ x \in StoredIn(t) /\ Ids(x) \cap Ids(whole) = {}
                                     \/ x.target = whole.target /\ Ids(x) = Ids(whole)
<1> DEFINE lo == whole.lo
           hi == whole.hi
           new == [whole EXCEPT !.first = first]
           others == Others(t.islands, targets)
           m == Len(others)
<1>1. lo \in Nat /\ hi \in Nat /\ 1 <= lo /\ lo <= hi /\ Count(whole) = hi - lo + 1 /\ whole \in Windows /\ Whole(whole)
  BY CountMeans DEF Whole, Stored
<1>2. Size(t) \in Nat /\ DOMAIN t.slots = 1 .. Size(t)
  BY SlotsOf DEF Fine, Shaped
<1>3. /\ u = [slots |-> u.slots, provisional |-> u.provisional, islands |-> u.islands, nav |-> u.nav]
      /\ u.slots \in Seq(Nat)
      /\ Written(u, t, first, lo, hi)
      /\ u.provisional = Mapped(u) \cap (t.provisional \cup (lo .. hi))
      /\ u.islands = Append(others, new)
  BY DEF AsFree
<1>4. new \in Stored /\ Ids(new) = Ids(whole) /\ Count(new) = Count(whole) /\ new.target = whole.target
  BY DEF Stored, Windows, Whole, Ids, Count
<1>5. Ranked(u) /\ Keeps(u, t) /\ Size(u) = Size(t) /\ NoneNew(u, t)
  <2>1. \A i \in DOMAIN t.slots : i >= first /\ i + lo <= first + hi => ~Confirmed(t, i)
    BY <1>1, <1>2
  <2>2. \A i \in DOMAIN t.slots : Confirmed(t, i) => t.slots[i] \notin lo .. hi
    BY DEF Ids
  <2> QED BY <1>1, <1>3, <2>1, <2>2, FreeKeeps DEF NoneNew
<1>6. others \in Seq(Stored) /\ \A i \in DOMAIN others : others[i] \in StoredIn(t) /\ others[i].target \notin targets
  <2>1. t.islands \in Seq(Stored)
    BY DEF Fine, Shaped
  <2>2. others \in Seq(Stored) /\ \A i \in DOMAIN others : \E k \in DOMAIN t.islands :
            others[i] = t.islands[k] /\ t.islands[k].target \notin targets
    BY <2>1, OthersKeep
  <2> HIDE DEF others
  <2> QED BY <2>2 DEF StoredIn
<1>7. \A i, j \in DOMAIN others : i < j =>
        Ids(others[i]) \cap Ids(others[j]) = {} \/ Ids(others[j]) \subseteq Ids(others[i])
  <2> SUFFICES ASSUME NEW i \in DOMAIN others, NEW j \in DOMAIN others, i < j
               PROVE  Ids(others[i]) \cap Ids(others[j]) = {} \/ Ids(others[j]) \subseteq Ids(others[i])
    OBVIOUS
  <2>1. PICK k, l \in DOMAIN t.islands : k < l /\ others[i] = t.islands[k] /\ others[j] = t.islands[l]
    <3>1. t.islands \in Seq(Stored)
      BY DEF Fine, Shaped
    <3> HIDE DEF others
    <3> QED BY <3>1, OthersKeep DEF others
  <2> QED BY <2>1 DEF Fine, Nested
<1> HIDE DEF new
<1>8. /\ u.islands \in Seq(Stored) /\ m \in Nat /\ DOMAIN others = 1 .. m /\ DOMAIN u.islands = 1 .. m + 1
      /\ u.islands[m + 1] = new /\ \A i \in 1 .. m : u.islands[i] = others[i]
  <2> HIDE DEF others
  <2>1. others \in Seq(Stored) /\ new \in Stored /\ u.islands = Append(others, new)
    BY <1>3, <1>4, <1>6 DEF others
  <2> QED BY <2>1
<1> HIDE DEF m, others
<1>9. \A i \in 1 .. m : others[i] \in StoredIn(t) /\ Ids(others[i]) \cap Ids(whole) = {}
  BY <1>6, <1>8 DEF Parted
<1>10. \A x \in StoredIn(u) : x = new \/ (x \in StoredIn(t) /\ Ids(x) \cap Ids(whole) = {})
  <2> SUFFICES ASSUME NEW k \in 1 .. m + 1
               PROVE  u.islands[k] = new \/ (u.islands[k] \in StoredIn(t) /\ Ids(u.islands[k]) \cap Ids(whole) = {})
    BY <1>8 DEF StoredIn
  <2>1. k = m + 1 \/ k \in 1 .. m
    BY <1>8
  <2> QED BY <2>1, <1>8, <1>9
<1>11. Unconfirmed(u)
  <2> SUFFICES ASSUME NEW x \in StoredIn(u), NEW i \in DOMAIN u.slots, Confirmed(u, i)
               PROVE  u.slots[i] \notin Ids(x)
    BY DEF Unconfirmed
  <2>1. i \in DOMAIN t.slots /\ Confirmed(t, i) /\ u.slots[i] = t.slots[i]
    BY <1>5 DEF NoneNew
  <2> QED BY <1>4, <1>10, <2>1 DEF Fine, Unconfirmed
<1>12. Nested(u)
  <2> SUFFICES ASSUME NEW i \in 1 .. m + 1, NEW j \in 1 .. m + 1, i < j
               PROVE  Ids(u.islands[i]) \cap Ids(u.islands[j]) = {} \/ Ids(u.islands[j]) \subseteq Ids(u.islands[i])
    BY <1>8 DEF Nested
  <2>1. i \in 1 .. m
    BY <1>8
  <2>2. CASE j \in 1 .. m
    BY <1>7, <1>8, <2>1, <2>2
  <2>3. CASE j = m + 1
    BY <1>4, <1>8, <1>9, <2>1, <2>3
  <2> QED BY <1>8, <2>2, <2>3
<1>13. Fits(u)
  <2> SUFFICES ASSUME NEW x \in StoredIn(u) PROVE Count(x) + 2 <= Size(u) \/ Count(x) = 1
    BY DEF Fits
  <2>1. CASE x = new
    <3>1. Count(x) \in Nat /\ first + Count(x) <= Size(u)
      BY <1>1, <1>4, <1>5, <2>1, CountMeans
    <3> QED BY <1>2, <1>5, <3>1
  <2>2. CASE x \in StoredIn(t)
    BY <1>5, <2>2 DEF Fine, Fits
  <2> QED BY <1>10, <2>1, <2>2
<1>14. Small(u)
  <2>1. Size(u) >= 3
    <3>1. Count(whole) >= 1 /\ Count(whole) \in Nat
      BY <1>1, CountMeans
    <3> QED BY <1>2, <1>5, <3>1
  <2> QED BY <1>2, <1>5, <2>1 DEF Small
<1>15. Shaped(u)
  BY <1>3, <1>8 DEF Shaped
<1> QED BY <1>4, <1>5, <1>10, <1>11, <1>12, <1>13, <1>14, <1>15 DEF Fine

-----------------------------------------------------------------------------
(* A placement at a free place.                                            *)

\* The replies of the islands are among those of B.
Within(t, B) == \A x \in StoredIn(t) : Ids(x) \subseteq B

\* Every island is made of islands there were.
MadeOf(u, t) == \A x \in StoredIn(u) : \A r \in Ids(x) :
    \E y \in StoredIn(t) : r \in Ids(y) /\ Ids(y) \subseteq Ids(x)

\* A placement that confirms nothing: the islands stay or become the part of one.
Moved(u, t, whole) ==
    /\ Fine(u) /\ Keeps(u, t) /\ NoneNew(u, t) /\ Size(u) = Size(t)
    /\ \A x \in StoredIn(u) : \/ x \in StoredIn(t) /\ Ids(x) \cap Ids(whole) = {}
                              \/ x.target = whole.target /\ Ids(x) = Ids(whole)

\* Taking islands out leaves the confirmed replies.
LEMMA WithoutMeans ==
    ASSUME NEW t, NEW targets, NEW i \in DOMAIN t.slots, Confirmed(t, i)
    PROVE  Without(t, targets)[i] = t.slots[i]
BY DEF Without, Confirmed

\* A clamped number is a number.
LEMMA Clamped ==
    ASSUME NEW x \in Nat, NEW a \in Nat, NEW b \in Nat
    PROVE  Clamp(x, a, b) \in Nat /\ MaxOf(a, b) \in Nat /\ MinOf(a, b) \in Nat
BY DEF Clamp, MaxOf, MinOf

\* The result of a placement.
Result(p) == p = [ok |-> p.ok, t |-> p.t]

\* placeFree refuses, or puts the window where nothing is.
LEMMA FreePlaced ==
    ASSUME NEW t, Fine(t), NEW whole \in Stored, NEW targets, Parted(t, targets, whole),
           \A i \in DOMAIN t.slots : Confirmed(t, i) => t.slots[i] \notin Ids(whole),
           NEW reserved, NEW p, p = placeFree(t, whole, targets, reserved)
    PROVE  /\ Result(p)
           /\ \/ ~p.ok /\ p.t = t
              \/ p.ok /\ Moved(p.t, t, whole) /\ Size(t) >= 3
<1> DEFINE free == freeSlots(t, whole, targets, reserved)
           top == MaxOf(1, Size(t) + 1 - Count(whole))
           preferred == Clamp(whole.first, 1, top)
           first == Nearest(free, preferred)
<1>1. Size(t) \in Nat /\ DOMAIN t.slots = 1 .. Size(t)
  BY SlotsOf DEF Fine, Shaped
<1>2. whole \in Windows /\ Whole(whole) /\ Count(whole) \in Nat /\ Count(whole) >= 1 /\ whole.first \in Nat
  BY CountMeans DEF Stored
<1>3. preferred \in Nat
  <2>1. top \in Nat
    BY <1>1, <1>2 DEF MaxOf
  <2> HIDE DEF top
  <2> QED BY <1>2, <2>1, Clamped
<1>4. free \subseteq Nat
  BY <1>1 DEF freeSlots
<1>5. (free = {} /\ first = 0) \/ first \in free
  <2> HIDE DEF free, preferred
  <2> QED BY <1>3, <1>4, NearestIsFree
<1>6. p = IF first = 0 THEN [ok |-> FALSE, t |-> t]
          ELSE [ok |-> TRUE, t |-> settle(t, whole, targets, first, FALSE)]
  BY DEF placeFree
<1> HIDE DEF first, preferred
<1>7. CASE first = 0
  BY <1>6, <1>7 DEF Result
<1>8. CASE first # 0
  <2> DEFINE u == settle(t, whole, targets, first, FALSE)
  <2>1. first \in free
    BY <1>5, <1>8
  <2>2. /\ first \in Nat /\ first >= 2 /\ first + Count(whole) <= Size(t)
        /\ \A i \in (first - 1) .. (first + Count(whole)) : Without(t, targets)[i] = 0
    BY <1>1, <2>1 DEF freeSlots
  <2>3. \A i \in DOMAIN t.slots : i >= first /\ i < first + Count(whole) => ~Confirmed(t, i)
    <3> SUFFICES ASSUME NEW i \in DOMAIN t.slots, i >= first, i < first + Count(whole), Confirmed(t, i)
                 PROVE  FALSE
      OBVIOUS
    <3>1. i \in (first - 1) .. (first + Count(whole))
      BY <1>1, <1>2, <2>2
    <3>2. t.slots[i] = 0
      BY <2>2, <3>1, WithoutMeans
    <3> QED BY <3>2 DEF Confirmed
  <2>4. AsFree(u, t, whole, targets, first)
    <3>1. first >= 1 /\ first + Count(whole) <= Size(t) + 1
      BY <1>1, <1>2, <2>2
    <3>2. \A x \in StoredIn(t) : x.target \in targets => Ids(x) \subseteq Ids(whole)
      BY DEF Parted
    <3>3. Shaped(t)
      BY DEF Fine
    <3> QED BY <1>2, <2>2, <3>1, <3>2, <3>3, AsSettled, Zenon
  <2>5. p = [ok |-> TRUE, t |-> u]
    BY <1>6, <1>8, Zenon
  <2> HIDE DEF u
  <2>6. p.ok = TRUE /\ p.t = u /\ Result(p)
    BY <2>5 DEF Result
  <2>7. Moved(u, t, whole)
    BY <2>2, <2>3, <2>4, SettleFree DEF Moved
  <2>8. Size(t) >= 3
    BY <1>1, <1>2, <2>2
  <2> QED BY <2>6, <2>7, <2>8
<1> QED BY <1>7, <1>8

-----------------------------------------------------------------------------
(* Placements one after the other: room is made.                           *)

\* Keeping is transitive.
LEMMA KeepsOn ==
    ASSUME NEW t, NEW u, NEW v, Shaped(t), Shaped(u), Shaped(v), Keeps(u, t), Keeps(v, u)
    PROVE  Keeps(v, t)
<1>1. /\ Size(t) \in Nat /\ DOMAIN t.slots = 1 .. Size(t)
      /\ Size(u) \in Nat /\ DOMAIN u.slots = 1 .. Size(u) /\ Size(v) \in Nat
  BY SlotsOf DEF Shaped
<1> QED BY <1>1 DEF Keeps

\* Confirming nothing is transitive.
LEMMA NoneNewOn ==
    ASSUME NEW t, NEW u, NEW v, NoneNew(u, t), NoneNew(v, u)
    PROVE  NoneNew(v, t)
BY DEF NoneNew

\* Replies up to b bound the islands that are made of them.
LEMMA WithinBelow ==
    ASSUME NEW t, t.islands \in Seq(Stored), NEW next \in Windows, Whole(next), NEW B, NEW b \in Nat,
           Within(t, B), Ids(next) \subseteq B, \A n \in B : n <= b
    PROVE  Below(t, next, b)
<1>1. \A x \in StoredIn(t) : x \in Windows /\ Whole(x)
  BY DEF StoredIn, Stored
<1>2. ASSUME NEW x \in StoredIn(t) \cup {next} PROVE x.hi <= b
  <2>1. x \in Windows /\ Whole(x) /\ Ids(x) \subseteq B
    BY <1>1 DEF Within
  <2>2. x.hi \in Ids(x)
    BY <2>1 DEF Windows, Whole, Ids
  <2> QED BY <2>1, <2>2
<1> QED BY <1>2 DEF Below

\* What a merge is, and what it does to the islands.
MergedAs(whole, t, next) ==
    /\ whole \in Windows /\ Whole(whole) /\ whole.target = next.target
    /\ whole.oldest = next.oldest /\ whole.newest = next.newest
    /\ Ids(next) \subseteq Ids(whole)
    /\ whole.lo <= next.lo /\ next.hi <= whole.hi
    /\ \A r \in Ids(whole) : r \in Ids(next) \/ \E x \in Sharing(t, next) : r \in Ids(x)
    /\ \A x \in Sharing(t, next) : x \in StoredIn(t) /\ Ids(x) \subseteq Ids(whole)
    /\ Parted(t, Replaced(t, next), whole)
    /\ \A x \in StoredIn(t) : Ids(x) \cap Ids(whole) # {} => x \in Sharing(t, next)

\* Merge is such a merge.
LEMMA Merged ==
    ASSUME NEW t, t.islands \in Seq(Stored), NEW next \in Windows, Whole(next), NEW b, Below(t, next, b)
    PROVE  MergedAs(Merge(t, next), t, next)
<1> DEFINE S == Sharing(t, next)
           whole == Merge(t, next)
<1>1. whole = Merge(t, next) /\ S = Sharing(t, next)
  OBVIOUS
<1> HIDE DEF whole, S
<1>2. /\ whole \in Windows /\ Whole(whole) /\ whole.target = next.target
      /\ whole.oldest = next.oldest /\ whole.newest = next.newest
      /\ whole.lo <= next.lo /\ next.hi <= whole.hi
  BY <1>1, MergeFacts
<1>3. \A r \in Ids(whole) : \E x \in S \cup {next} : r \in Ids(x)
  BY <1>1, MergeCovers
<1>4. Ids(next) \subseteq Ids(whole)
  BY <1>2 DEF Windows, Ids
<1>5. \A x \in StoredIn(t) :
        /\ x.target \in Replaced(t, next) <=> x \in S
        /\ x \in S => Ids(x) \subseteq Ids(whole)
        /\ x \notin S => Ids(x) \cap Ids(whole) = {}
  BY <1>1, ReplacedFacts
<1>6. S \subseteq StoredIn(t)
  BY <1>1, SharingFacts
<1>7. Parted(t, Replaced(t, next), whole)
  BY <1>5 DEF Parted
<1> QED BY <1>1, <1>2, <1>3, <1>4, <1>5, <1>6, <1>7 DEF MergedAs

\* While room is made for "whole": what is confirmed stays, and the islands stay apart from it.
RoomInv(v, t, targets, whole, B) ==
    /\ Fine(v) /\ Keeps(v, t) /\ NoneNew(v, t) /\ Size(v) = Size(t)
    /\ Parted(v, targets, whole)
    /\ Within(v, B)
    /\ MadeOf(v, t)

\* An island that moves out of the way keeps the room that was made.
LEMMA WayMade ==
    ASSUME NEW t, Fine(t), NEW targets, NEW whole \in Windows, Whole(whole), Parted(t, targets, whole),
           NEW B, NEW b \in Nat, \A n \in B : n <= b, Within(t, B),
           NEW v, RoomInv(v, t, targets, whole, B),
           NEW island \in StoredIn(t), island.target \notin targets,
           NEW reserved, NEW p, p = placeFree(v, Merge(v, island), Replaced(v, island), reserved)
    PROVE  RoomInv(p.t, t, targets, whole, B) /\ Result(p) /\ (p.ok => Size(t) >= 3)
<1> DEFINE M == Merge(v, island)
           S == Sharing(v, island)
<1>1. t.islands \in Seq(Stored) /\ v.islands \in Seq(Stored) /\ Shaped(t) /\ Shaped(v)
  BY DEF RoomInv, Fine, Shaped
<1>2. island \in Stored /\ island \in Windows /\ Whole(island)
  BY <1>1 DEF StoredIn, Stored
<1>3. Ids(island) \subseteq B /\ Ids(island) \cap Ids(whole) = {}
  BY DEF Within, Parted
<1>4. MergedAs(M, v, island)
  <2>1. Below(v, island, b)
    BY <1>1, <1>2, <1>3, WithinBelow DEF RoomInv
  <2> QED BY <1>1, <1>2, <2>1, Merged
<1>5. p = placeFree(v, M, Replaced(v, island), reserved)
  OBVIOUS
<1> HIDE DEF M
<1>6. M \in Stored
  BY <1>2, <1>4 DEF MergedAs, Stored
<1>7. \A i \in DOMAIN v.slots : Confirmed(v, i) => v.slots[i] \notin Ids(M)
  <2> SUFFICES ASSUME NEW i \in DOMAIN v.slots, Confirmed(v, i), v.slots[i] \in Ids(M) PROVE FALSE
    OBVIOUS
  <2>1. CASE v.slots[i] \in Ids(island)
    <3>1. i \in DOMAIN t.slots /\ Confirmed(t, i) /\ v.slots[i] = t.slots[i]
      BY DEF RoomInv, NoneNew
    <3> QED BY <2>1, <3>1 DEF Fine, Unconfirmed
  <2>2. CASE \E x \in S : v.slots[i] \in Ids(x)
    BY <1>4, <2>2 DEF MergedAs, RoomInv, Fine, Unconfirmed
  <2> QED BY <1>4, <2>1, <2>2 DEF MergedAs
<1>8. /\ Result(p)
      /\ \/ ~p.ok /\ p.t = v
         \/ p.ok /\ Moved(p.t, v, M) /\ Size(v) >= 3
  BY <1>4, <1>5, <1>6, <1>7, FreePlaced DEF MergedAs, RoomInv
<1>9. CASE ~p.ok /\ p.t = v
  BY <1>8, <1>9
<1>10. CASE p.ok /\ Moved(p.t, v, M) /\ Size(v) >= 3
  <2> DEFINE u == p.t
  <2> HIDE DEF u
  <2>1. /\ Fine(u) /\ Keeps(u, v) /\ NoneNew(u, v) /\ Size(u) = Size(v)
        /\ \A x \in StoredIn(u) : \/ x \in StoredIn(v) /\ Ids(x) \cap Ids(M) = {}
                                  \/ x.target = M.target /\ Ids(x) = Ids(M)
    BY <1>10 DEF Moved, u
  <2>2. Keeps(u, t) /\ NoneNew(u, t) /\ Size(u) = Size(t)
    BY <1>1, <2>1, KeepsOn, NoneNewOn DEF RoomInv, Fine
  <2>3. Ids(M) \cap Ids(whole) = {}
    <3> DEFINE R == {x \in S : Ids(x) \cap Ids(whole) = {}}
    <3>1. ClosedUnder(v, island, R)
      <4> SUFFICES ASSUME NEW x \in StoredIn(v), NEW y \in R \cup {island}, Ids(x) \cap Ids(y) # {}
                   PROVE  x \in R
        BY DEF ClosedUnder
      <4>1. x \in S
        BY SharingFacts
      <4>2. Ids(y) \cap Ids(whole) = {}
        BY <1>3
      <4>3. Ids(x) \cap Ids(whole) = {}
        BY <4>2 DEF RoomInv, Parted
      <4> QED BY <4>1, <4>3
    <3>2. S \subseteq R
      <4>1. R \in SUBSET StoredIn(v)
        BY SharingFacts
      <4> HIDE DEF R
      <4> QED BY <3>1, <4>1, SharingFacts
    <3>3. \A x \in S : Ids(x) \cap Ids(whole) = {}
      BY <3>2
    <3> HIDE DEF R, S
    <3> QED BY <1>3, <1>4, <3>3 DEF MergedAs, S
  <2>4. Parted(u, targets, whole)
    <3> SUFFICES ASSUME NEW x \in StoredIn(u)
                 PROVE  /\ x.target \in targets => Ids(x) \subseteq Ids(whole)
                        /\ x.target \notin targets => Ids(x) \cap Ids(whole) = {}
      BY DEF Parted
    <3>1. CASE x \in StoredIn(v)
      BY <3>1 DEF RoomInv, Parted
    <3>2. CASE x.target = M.target /\ Ids(x) = Ids(M)
      BY <1>4, <2>3, <3>2 DEF MergedAs
    <3> QED BY <2>1, <3>1, <3>2
  <2>5. Ids(M) \subseteq B
    BY <1>3, <1>4 DEF MergedAs, RoomInv, Within
  <2>6. Within(u, B)
    BY <2>1, <2>5 DEF RoomInv, Within
  <2>7. MadeOf(u, t)
    <3> SUFFICES ASSUME NEW x \in StoredIn(u), NEW r \in Ids(x)
                 PROVE  \E y \in StoredIn(t) : r \in Ids(y) /\ Ids(y) \subseteq Ids(x)
      BY DEF MadeOf
    <3>1. CASE x \in StoredIn(v)
      BY <3>1 DEF RoomInv, MadeOf
    <3>2. CASE Ids(x) = Ids(M)
      <4>1. CASE r \in Ids(island)
        BY <1>4, <3>2, <4>1 DEF MergedAs
      <4>2. CASE r \notin Ids(island)
        <5>1. PICK z \in S : r \in Ids(z)
          BY <1>4, <3>2, <4>2 DEF MergedAs
        <5>2. z \in StoredIn(v) /\ Ids(z) \subseteq Ids(x)
          BY <1>4, <3>2 DEF MergedAs
        <5>3. PICK y \in StoredIn(t) : r \in Ids(y) /\ Ids(y) \subseteq Ids(z)
          BY <5>1, <5>2 DEF RoomInv, MadeOf
        <5> QED BY <5>2, <5>3
      <4> QED BY <4>1, <4>2
    <3> QED BY <2>1, <3>1, <3>2
  <2>8. p.ok => Size(t) >= 3
    BY <1>10 DEF RoomInv
  <2> QED BY <1>8, <2>1, <2>2, <2>4, <2>6, <2>7, <2>8 DEF RoomInv, u
<1> QED BY <1>8, <1>9, <1>10

\* Where there is one slot, room is made when there is no island in the way.
AloneUpTo(room, t, targets, k) ==
    Result(room) /\ (Size(t) = 1 /\ room.ok => room.t = t /\ \A j \in 1 .. k : t.islands[j].target \in targets)

\* So does one that need not move.
LEMMA WayMadeOrNot ==
    ASSUME NEW t, Fine(t), NEW targets, NEW whole \in Windows, Whole(whole), Parted(t, targets, whole),
           NEW B, NEW b \in Nat, \A n \in B : n <= b, Within(t, B),
           NEW room, RoomInv(room.t, t, targets, whole, B),
           NEW first \in Nat, NEW last \in Nat, Size(t) = 1 => first = 1 /\ last = 1,
           NEW k \in 1 .. Len(t.islands), AloneUpTo(room, t, targets, k - 1),
           NEW p, p = MakeWay(room, t.islands[k], targets, first, last)
    PROVE  RoomInv(p.t, t, targets, whole, B) /\ AloneUpTo(p, t, targets, k)
<1> DEFINE island == t.islands[k]
<1>1. t.islands \in Seq(Stored) /\ Len(t.islands) \in Nat /\ DOMAIN t.islands = 1 .. Len(t.islands)
  BY DEF Fine, Shaped
<1>2. island \in StoredIn(t) /\ island \in Stored
  BY <1>1 DEF StoredIn
<1>3. p = IF ~room.ok \/ island.target \in targets \/ ~Touching(island, first, last) THEN room
          ELSE placeFree(room.t, Merge(room.t, island), Replaced(room.t, island), first .. last)
  BY DEF MakeWay
<1>4. k \in Nat /\ \A j \in 1 .. k : j = k \/ j \in 1 .. (k - 1)
  BY <1>1
<1>5. Size(t) = 1 => Touching(island, first, last)
  <2> SUFFICES ASSUME Size(t) = 1 PROVE Touching(island, first, last)
    OBVIOUS
  <2>1. island.first = 1 /\ first = 1 /\ last = 1
    BY <1>2 DEF Fine, Small
  <2>2. Count(island) \in Nat /\ Count(island) >= 1
    BY <1>2, CountMeans DEF Stored
  <2> QED BY <2>1, <2>2 DEF Touching, LastSlot
<1> HIDE DEF island
<1>6. CASE ~room.ok \/ island.target \in targets \/ ~Touching(island, first, last)
  <2>1. p = room
    BY <1>3, <1>6
  <2>2. Size(t) = 1 /\ room.ok => island.target \in targets
    BY <1>5, <1>6
  <2>3. AloneUpTo(p, t, targets, k)
    BY <1>4, <2>1, <2>2 DEF AloneUpTo, island
  <2> QED BY <2>1, <2>3
<1>7. CASE room.ok /\ island.target \notin targets /\ Touching(island, first, last)
  <2>1. p = placeFree(room.t, Merge(room.t, island), Replaced(room.t, island), first .. last)
    BY <1>3, <1>7
  <2>2. RoomInv(p.t, t, targets, whole, B) /\ Result(p) /\ (p.ok => Size(t) >= 3)
    BY <1>2, <1>7, <2>1, WayMade
  <2> QED BY <2>2 DEF AloneUpTo
<1> QED BY <1>6, <1>7

\* makeRoom keeps what is confirmed and leaves the window apart from the islands.
LEMMA RoomMade ==
    ASSUME NEW t, Fine(t), NEW targets, NEW whole \in Windows, Whole(whole), Parted(t, targets, whole),
           NEW B, NEW b \in Nat, \A n \in B : n <= b, Within(t, B),
           NEW first \in Nat, NEW last \in Nat, Size(t) = 1 => first = 1 /\ last = 1,
           NEW room, room = makeRoom(t, targets, first, last)
    PROVE  /\ RoomInv(room.t, t, targets, whole, B) /\ Result(room)
           /\ Size(t) = 1 /\ room.ok => room.t = t /\ \A x \in StoredIn(t) : x.target \in targets
<1> DEFINE n == Len(t.islands)
           f == RoomFrom(t, targets, first, last, n)
           Good(p, k) == RoomInv(p.t, t, targets, whole, B) /\ AloneUpTo(p, t, targets, k)
           H == {m \in 0 .. n : Good(f[m], m)}
<1>1. n \in Nat /\ DOMAIN t.islands = 1 .. n
  BY DEF Fine, Shaped
<1>2. \A k \in 0 .. n : f[k] = RoomDef(t, targets, first, last, f, k)
  <2> HIDE DEF n
  <2> QED BY <1>1, RoomDefined DEF RoomRun
<1>3. room = f[n]
  BY RoomMeans
<1> HIDE DEF f
<1>4. 0 \in H
  <2>1. f[0] = [ok |-> TRUE, t |-> t]
    <3> HIDE DEF n
    <3>1. 0 \in 0 .. n
      BY <1>1
    <3>2. f[0] = RoomDef(t, targets, first, last, f, 0)
      BY <1>2, <3>1
    <3>3. RoomDef(t, targets, first, last, f, 0) = [ok |-> TRUE, t |-> t]
      BY DEF RoomDef
    <3> QED BY <3>2, <3>3
  <2>2. f[0].t = t
    BY <2>1
  <2>3. RoomInv(t, t, targets, whole, B)
    <3>1. Size(t) \in Nat
      BY SlotsOf DEF Fine, Shaped
    <3>2. Keeps(t, t) /\ NoneNew(t, t) /\ MadeOf(t, t)
      BY <3>1 DEF Keeps, NoneNew, MadeOf
    <3> QED BY <3>2 DEF RoomInv
  <2>4. AloneUpTo(f[0], t, targets, 0)
    BY <2>1, <2>2 DEF AloneUpTo, Result
  <2> HIDE DEF n
  <2> QED BY <1>1, <2>2, <2>3, <2>4
<1>5. ASSUME NEW m \in H, m < n PROVE m + 1 \in H
  <2>1. m \in Nat /\ m + 1 \in 1 .. n /\ RoomInv(f[m].t, t, targets, whole, B) /\ AloneUpTo(f[m], t, targets, m)
    BY <1>1, <1>5
  <2>2. f[m + 1] = MakeWay(f[m], t.islands[m + 1], targets, first, last)
    BY <1>1, <1>2, <2>1 DEF RoomDef
  <2>3. Good(f[m + 1], m + 1)
    <3> DEFINE k == m + 1
    <3>1. k \in 1 .. Len(t.islands) /\ AloneUpTo(f[m], t, targets, k - 1)
      BY <2>1
    <3>2. f[k] = MakeWay(f[m], t.islands[k], targets, first, last)
      BY <2>2
    <3> HIDE DEF k, n
    <3> QED BY <2>1, <3>1, <3>2, WayMadeOrNot DEF k
  <2> HIDE DEF Good, n
  <2> QED BY <1>1, <2>1, <2>3
<1>6. Good(f[n], n)
  <2>1. H \subseteq 0 .. n
    OBVIOUS
  <2> HIDE DEF H, n
  <2>2. H = 0 .. n
    BY <1>1, <1>4, <1>5, <2>1, Upward
  <2> QED BY <1>1, <2>2 DEF H
<1>7. Result(room) /\ (Size(t) = 1 /\ room.ok => room.t = t /\ \A x \in StoredIn(t) : x.target \in targets)
  BY <1>1, <1>3, <1>6 DEF AloneUpTo, StoredIn
<1> QED BY <1>3, <1>6, <1>7

-----------------------------------------------------------------------------
(* A placement where the rank is known.                                    *)

\* The authoritative slots are the confirmed ones.
LEMMA AuthoritativeMeans ==
    ASSUME NEW t, Shaped(t), NEW i \in DOMAIN t.slots
    PROVE  isAuthoritativeIndex(t, i) <=> Confirmed(t, i)
<1>1. i # 0
  BY SlotsOf DEF Shaped
<1> QED BY <1>1 DEF isAuthoritativeIndex, Confirmed

\* The slot of a mapped reply has it.
LEMMA IndexMeans ==
    ASSUME NEW t, NEW r \in Mapped(t)
    PROVE  indexOfPost(t, r) \in DOMAIN t.slots /\ t.slots[indexOfPost(t, r)] = r
<1>1. \E i \in DOMAIN t.slots : t.slots[i] = r
  BY DEF Mapped
<1>2. indexOfPost(t, r) = CHOOSE i \in DOMAIN t.slots : t.slots[i] = r
  BY DEF indexOfPost
<1> QED BY <1>1, <1>2

\* A placement that may confirm, or be refused after some islands have moved.
Placed(u, t, B) == Fine(u) /\ Keeps(u, t) /\ Size(u) = Size(t) /\ Within(u, B)

\* The islands there are afterwards: made of what there was, and apart from the one that was placed.
Apart(u, t, whole) == \A x \in StoredIn(u) :
    Ids(x) \cap Ids(whole) = {} /\ \A r \in Ids(x) : \E y \in StoredIn(t) : r \in Ids(y) /\ Ids(y) \subseteq Ids(x)

\* Arithmetic: a window that ends in the last slot with another reply.
LEMMA LastOf ==
    ASSUME NEW n \in Nat, NEW lo \in Nat, NEW hi \in Nat, lo <= hi,
           NEW c, c = hi - lo + 1, NEW first \in Nat, first >= 1, first + c = n + 1, hi # n
    PROVE  n \in 1 .. n /\ n \in first .. (first + c - 1) /\ first + c - 1 = n /\ lo + (n - first) # n
OBVIOUS

\* The last slot is confirmed, and not with the last reply of "whole".
LEMMA TakenLast ==
    ASSUME NEW v, Shaped(v), NEW n, n = Size(v), Confirmed(v, n), v.slots[n] = n, NEW targets,
           NEW whole \in Windows, Whole(whole), NEW first \in Nat, first >= 1,
           first + Count(whole) = n + 1, whole.hi # n
    PROVE  \E i \in first .. (first + Count(whole) - 1) :
                /\ Without(v, targets)[i] \notin {0, whole.lo + (i - first)}
                /\ Without(v, targets)[i] \notin v.provisional
<1>1. n \in Nat /\ DOMAIN v.slots = 1 .. n
  BY SlotsOf DEF Shaped
<1>2. n \in 1 .. n /\ n \in first .. (first + Count(whole) - 1) /\ whole.lo + (n - first) # n
  <2> DEFINE c == Count(whole)
             lo == whole.lo
             hi == whole.hi
  <2>1. c = hi - lo + 1 /\ lo \in Nat /\ hi \in Nat /\ lo <= hi /\ first + c = n + 1 /\ hi # n
    BY CountMeans
  <2> HIDE DEF c, lo, hi
  <2>2. n \in 1 .. n /\ n \in first .. (first + c - 1) /\ lo + (n - first) # n
    BY <1>1, <2>1, LastOf
  <2> QED BY <2>2 DEF c, lo
<1>3. Without(v, targets)[n] = n
  BY <1>1, <1>2, WithoutMeans
<1>4. n # 0 /\ n \notin v.provisional
  BY DEF Confirmed
<1> QED BY <1>2, <1>3, <1>4

\* A placement with one origin: at the rank, or refused for the reply that has the last slot.
LEMMA ExactPlaced ==
    ASSUME NEW t, Fine(t), NEW targets, NEW whole \in Windows, Whole(whole), Parted(t, targets, whole),
           NEW B, NEW b \in Nat, \A n \in B : n <= b, Within(t, B),
           NEW first \in Nat, first >= 1, first + Count(whole) <= Size(t) + 1,
           \/ first = whole.lo
           \/ first + Count(whole) = Size(t) + 1 /\ isAuthoritativeIndex(t, Size(t)) /\ whole.hi # Size(t),
           NEW p, p = placeAt(makeRoom(t, targets, first, first + Count(whole) - 1), whole, targets, first)
    PROVE  Result(p) /\ Placed(p.t, t, B) /\ (p.ok => Apart(p.t, t, whole))
<1> DEFINE last == first + Count(whole) - 1
           room == makeRoom(t, targets, first, last)
           left == Without(room.t, targets)
           taken == \E i \in first .. last : left[i] \notin {0, whole.lo + (i - first)} /\ left[i] \notin room.t.provisional
           u == settle(room.t, whole, targets, first, TRUE)
<1>1. /\ Count(whole) = whole.hi - whole.lo + 1 /\ Count(whole) \in Nat /\ Count(whole) >= 1
      /\ whole.lo \in Nat /\ whole.hi \in Nat /\ 1 <= whole.lo /\ whole.lo <= whole.hi
  BY CountMeans DEF Whole
<1>2. Size(t) \in Nat /\ DOMAIN t.slots = 1 .. Size(t)
  BY SlotsOf DEF Fine, Shaped
<1>3. last \in Nat /\ (Size(t) = 1 => first = 1 /\ last = 1)
  BY <1>1, <1>2
<1>4. /\ RoomInv(room.t, t, targets, whole, B) /\ Result(room)
      /\ Size(t) = 1 /\ room.ok => room.t = t /\ \A x \in StoredIn(t) : x.target \in targets
  <2> HIDE DEF last
  <2> QED BY <1>3, RoomMade
<1>5. p = IF ~room.ok \/ taken THEN [room EXCEPT !.ok = FALSE] ELSE [ok |-> TRUE, t |-> u]
  BY DEF placeAt
<1> HIDE DEF room, last
<1>6. CASE ~room.ok \/ taken
  <2>1. p = [room EXCEPT !.ok = FALSE]
    BY <1>5, <1>6, Zenon
  <2>2. ~p.ok /\ p.t = room.t /\ Result(p)
    BY <1>4, <2>1 DEF Result
  <2> QED BY <1>4, <2>2 DEF RoomInv, Placed
<1>7. CASE room.ok /\ ~taken
  <2>1. p = [ok |-> TRUE, t |-> u]
    BY <1>5, <1>7, Zenon
  <2>2. first = whole.lo
    <3> SUFFICES ASSUME first + Count(whole) = Size(t) + 1, isAuthoritativeIndex(t, Size(t)), whole.hi # Size(t)
                 PROVE  taken
      BY <1>7
    <3>1. Size(t) \in DOMAIN t.slots
      BY <1>1, <1>2, CountMeans, LastOf
    <3>2. Confirmed(t, Size(t)) /\ t.slots[Size(t)] = Size(t)
      BY <3>1, AuthoritativeMeans DEF Fine, Ranked
    <3>3. room.t.slots[Size(t)] = Size(t) /\ Confirmed(room.t, Size(t)) /\ Size(room.t) = Size(t) /\ Shaped(room.t)
      BY <1>4, <3>1, <3>2 DEF RoomInv, Keeps, Fine
    <3> HIDE DEF left
    <3> QED BY <3>3, TakenLast DEF left, last
  <2>3. AsExact(u, room.t, whole, targets, whole.lo)
    <3> DEFINE v == room.t
    <3>1. Shaped(v) /\ Size(v) = Size(t) /\ \A x \in StoredIn(v) : x.target \in targets => Ids(x) \subseteq Ids(whole)
      BY <1>4 DEF RoomInv, Fine, Parted
    <3>2. AsExact(u, v, whole, targets, first)
      <4> HIDE DEF v
      <4>1. first + Count(whole) <= Size(v) + 1
        BY <3>1
      <4> QED BY <3>1, <4>1, AsSettled, Zenon DEF v
    <3> HIDE DEF u
    <3> QED BY <2>2, <3>2
  <2> HIDE DEF u
  <2>4. p.ok = TRUE /\ p.t = u /\ Result(p)
    BY <2>1 DEF Result
  <2>5. /\ Fine(u) /\ Keeps(u, room.t) /\ Size(u) = Size(room.t)
        /\ \A x \in StoredIn(u) : x \in StoredIn(room.t) /\ Ids(x) \cap Ids(whole) = {}
    <3>1. whole.hi <= Size(room.t)
      BY <1>1, <1>2, <1>4, <2>2 DEF RoomInv
    <3>2. Size(room.t) = 1 => \A x \in StoredIn(room.t) : x.target \in targets
      BY <1>4, <1>7 DEF RoomInv
    <3> QED BY <1>4, <2>3, <3>1, <3>2, SettleExact DEF RoomInv
  <2>6. Keeps(u, t)
    BY <1>4, <2>5, KeepsOn DEF RoomInv, Fine
  <2>7. Placed(u, t, B)
    BY <1>4, <2>5, <2>6 DEF RoomInv, Placed, Within
  <2>8. Apart(u, t, whole)
    BY <1>4, <2>5 DEF RoomInv, MadeOf, Apart
  <2> QED BY <2>4, <2>7, <2>8
<1> QED BY <1>6, <1>7

\* An origin says the rank of the reply, or another one than the last slot has.
Tells(t, whole, o) ==
    \/ o = whole.lo
    \/ o \in Int /\ o + Count(whole) = Size(t) + 1 /\ isAuthoritativeIndex(t, Size(t)) /\ whole.hi # Size(t)

\* Every origin tells the rank, where nothing is out of step.
LEMMA OriginsTell ==
    ASSUME NEW t, Fine(t), NEW whole \in Windows, Whole(whole), NEW given,
           \A o \in given : o = whole.lo,
           whole.oldest => whole.lo = 1,
           whole.newest \/ Count(whole) = Size(t) => whole.hi = Size(t) \/ isAuthoritativeIndex(t, Size(t)),
           NEW o \in Origins(t, whole, given)
    PROVE  Tells(t, whole, o)
<1>1. /\ Count(whole) = whole.hi - whole.lo + 1 /\ Count(whole) \in Nat /\ Count(whole) >= 1
      /\ whole.lo \in Nat /\ whole.hi \in Nat /\ 1 <= whole.lo /\ whole.lo <= whole.hi
  BY CountMeans DEF Whole
<1>2. Size(t) \in Nat /\ DOMAIN t.slots = 1 .. Size(t)
  BY SlotsOf DEF Fine, Shaped
<1>3. CASE o \in given
  BY <1>3 DEF Tells
<1>4. CASE whole.oldest /\ o = 1
  BY <1>4 DEF Tells
<1>5. CASE Count(whole) = Size(t) /\ o = 1
  BY <1>1, <1>2, <1>5 DEF Tells
<1>6. CASE whole.newest /\ o = Size(t) + 1 - Count(whole)
  <2> DEFINE c == Count(whole)
             s == Size(t)
             lo == whole.lo
             hi == whole.hi
  <2>1. hi = s \/ isAuthoritativeIndex(t, s)
    BY <1>6
  <2>2. c = hi - lo + 1 /\ c \in Nat /\ lo \in Nat /\ hi \in Nat /\ s \in Nat /\ o = s + 1 - c
    BY <1>1, <1>2, <1>6
  <2>3. o = lo \/ (o \in Int /\ o + c = s + 1 /\ isAuthoritativeIndex(t, s) /\ hi # s)
    <3> HIDE DEF c, s, lo, hi
    <3> QED BY ONLY <2>1, <2>2
  <2> QED BY <2>3 DEF Tells
<1>7. CASE \E r \in Ids(whole) : /\ r \in Mapped(t) /\ isAuthoritativeIndex(t, indexOfPost(t, r))
                                 /\ o = indexOfPost(t, r) - (r - whole.lo)
  <2>1. PICK r \in Ids(whole) : /\ r \in Mapped(t) /\ isAuthoritativeIndex(t, indexOfPost(t, r))
                                /\ o = indexOfPost(t, r) - (r - whole.lo)
    BY <1>7
  <2>2. indexOfPost(t, r) \in DOMAIN t.slots /\ t.slots[indexOfPost(t, r)] = r
    BY <2>1, IndexMeans
  <2>3. Confirmed(t, indexOfPost(t, r))
    BY <2>1, <2>2, AuthoritativeMeans DEF Fine
  <2>4. indexOfPost(t, r) = r
    BY <2>2, <2>3 DEF Fine, Ranked
  <2>5. r \in Nat
    BY <1>2, <2>2, <2>4
  <2>6. o = whole.lo
    BY <1>1, <2>1, <2>4, <2>5
  <2> QED BY <2>6 DEF Tells
<1>8. \/ o \in given
      \/ o \in (IF Count(whole) = Size(t) \/ whole.oldest THEN {1} ELSE {})
      \/ o \in (IF whole.newest THEN {Size(t) + 1 - Count(whole)} ELSE {})
      \/ o \in {indexOfPost(t, r) - (r - whole.lo) :
            r \in {q \in Ids(whole) : q \in Mapped(t) /\ isAuthoritativeIndex(t, indexOfPost(t, q))}}
  BY DEF Origins
<1>9. \/ o \in given
      \/ (Count(whole) = Size(t) \/ whole.oldest) /\ o = 1
      \/ whole.newest /\ o = Size(t) + 1 - Count(whole)
      \/ \E r \in Ids(whole) : /\ r \in Mapped(t) /\ isAuthoritativeIndex(t, indexOfPost(t, r))
                               /\ o = indexOfPost(t, r) - (r - whole.lo)
  BY <1>8
<1> QED BY <1>3, <1>4, <1>5, <1>6, <1>7, <1>9

-----------------------------------------------------------------------------
(* placeIsland.                                                            *)

\* A placement, whatever is known of the rank.
LEMMA WholePlaced ==
    ASSUME NEW t, Fine(t), NEW targets, NEW whole \in Windows, Whole(whole), Parted(t, targets, whole),
           NEW B, NEW b \in Nat, \A n \in B : n <= b, Within(t, B), Ids(whole) \subseteq B,
           NEW origins, \A o \in origins : Tells(t, whole, o),
           origins = {} => /\ whole \in Stored
                           /\ \A i \in DOMAIN t.slots : Confirmed(t, i) => t.slots[i] \notin Ids(whole),
           NEW reserved, NEW p, p = placeWhole(t, whole, targets, origins, reserved)
    PROVE  /\ Result(p) /\ Placed(p.t, t, B)
           /\ p.ok /\ origins # {} => Apart(p.t, t, whole)
           /\ p.ok /\ origins = {} => Moved(p.t, t, whole)
<1> DEFINE first == CHOOSE o \in origins : TRUE
           refused == \/ Cardinality(origins) > 1
                      \/ \E o \in origins : o < 1 \/ o + Count(whole) > Size(t) + 1
           room == makeRoom(t, targets, first, first + Count(whole) - 1)
<1>1. /\ Count(whole) \in Nat /\ Count(whole) >= 1 /\ whole.lo \in Nat
  BY CountMeans
<1>2. Size(t) \in Nat
  BY SlotsOf DEF Fine, Shaped
<1>3. p = IF refused THEN [ok |-> FALSE, t |-> t]
          ELSE IF origins = {} THEN placeFree(t, whole, targets, reserved)
          ELSE placeAt(room, whole, targets, first)
  BY DEF placeWhole
<1>4. Placed(t, t, B)
  BY <1>2 DEF Placed, Keeps
<1> HIDE DEF room, first
<1>5. CASE refused
  <2>1. p = [ok |-> FALSE, t |-> t]
    BY <1>3, <1>5, Zenon
  <2>2. Result(p) /\ ~p.ok /\ p.t = t
    BY <2>1 DEF Result
  <2> QED BY <1>4, <2>2
<1>6. CASE ~refused /\ origins = {}
  <2>1. p = placeFree(t, whole, targets, reserved)
    BY <1>3, <1>6, Zenon
  <2> HIDE DEF refused
  <2>2. /\ Result(p)
        /\ \/ ~p.ok /\ p.t = t
           \/ p.ok /\ Moved(p.t, t, whole) /\ Size(t) >= 3
    BY <1>6, <2>1, FreePlaced
  <2>3. CASE ~p.ok /\ p.t = t
    BY <1>4, <1>6, <2>2, <2>3
  <2>4. CASE p.ok /\ Moved(p.t, t, whole)
    <3>1. Within(p.t, B)
      BY <2>4 DEF Moved, Within
    <3>2. Placed(p.t, t, B)
      BY <2>4, <3>1 DEF Moved, Placed
    <3> QED BY <1>6, <2>2, <2>4, <3>2
  <2> QED BY <2>2, <2>3, <2>4
<1>7. CASE ~refused /\ origins # {}
  <2>1. p = placeAt(room, whole, targets, first)
    BY <1>3, <1>7, Zenon
  <2>2. first \in origins
    BY <1>7, Zenon DEF first
  <2>3. ~(first < 1) /\ ~(first + Count(whole) > Size(t) + 1) /\ Tells(t, whole, first)
    BY <1>7, <2>2
  <2> HIDE DEF refused
  <2>4. first \in Nat /\ first >= 1 /\ first + Count(whole) <= Size(t) + 1
    <3>1. first \in Int
      BY <1>1, <2>3 DEF Tells
    <3> QED BY <1>1, <1>2, <2>3, <3>1
  <2>5. \/ first = whole.lo
        \/ first + Count(whole) = Size(t) + 1 /\ isAuthoritativeIndex(t, Size(t)) /\ whole.hi # Size(t)
    BY <2>3 DEF Tells
  <2>6. Result(p) /\ Placed(p.t, t, B) /\ (p.ok => Apart(p.t, t, whole))
    BY <2>1, <2>4, <2>5, ExactPlaced DEF room
  <2> QED BY <1>7, <2>6
<1> QED BY <1>5, <1>6, <1>7

\* What a placement of replies that an island has, or the server has sent, leaves.
LEMMA IslandPlaced ==
    ASSUME NEW t, Fine(t), NEW next \in Windows, Whole(next),
           NEW B, NEW b \in Nat, \A n \in B : n <= b, Within(t, B), Ids(next) \subseteq B,
           NEW given, \A o \in given : o = next.lo,
           next.oldest => next.lo = 1,
           next.newest \/ Count(Merge(t, next)) = Size(t)
              => Merge(t, next).hi = Size(t) \/ isAuthoritativeIndex(t, Size(t)),
           NEW reserved, NEW p, p = placeIsland(t, next, given, reserved)
    PROVE  /\ Result(p) /\ Placed(p.t, t, B)
           /\ MergedAs(Merge(t, next), t, next)
           /\ p.ok /\ given # {} => Apart(p.t, t, Merge(t, next))
           /\ p.ok => \/ Apart(p.t, t, Merge(t, next))
                      \/ Moved(p.t, t, Merge(t, next))
<1> DEFINE whole == Merge(t, next)
           given2 == {o + whole.lo - next.lo : o \in given}
           origins == Origins(t, whole, given2)
<1>1. MergedAs(whole, t, next)
  <2>1. t.islands \in Seq(Stored)
    BY DEF Fine, Shaped
  <2>2. Below(t, next, b)
    BY <2>1, WithinBelow
  <2> QED BY <2>1, <2>2, Merged
<1>2. p = placeWhole(t, whole, Replaced(t, next), origins, reserved)
  BY DEF placeIsland
<1> HIDE DEF whole
<1>3. whole \in Windows /\ Whole(whole) /\ whole.lo \in Nat /\ next.lo \in Nat /\ 1 <= whole.lo /\ whole.lo <= next.lo
  BY <1>1 DEF MergedAs, Windows, Whole
<1>4. \A o \in given2 : o = whole.lo
  BY <1>3
<1>5. whole.oldest => whole.lo = 1
  BY <1>1, <1>3 DEF MergedAs
<1>6. whole.newest \/ Count(whole) = Size(t) => whole.hi = Size(t) \/ isAuthoritativeIndex(t, Size(t))
  BY <1>1 DEF MergedAs, whole
<1>7. Ids(whole) \subseteq B
  BY <1>1 DEF MergedAs, Within
<1>8. given # {} => origins # {}
  <2>1. given # {} => given2 # {}
    OBVIOUS
  <2> HIDE DEF given2
  <2> QED BY <2>1 DEF Origins
<1> HIDE DEF given2
<1>9. \A o \in origins : Tells(t, whole, o)
  BY <1>3, <1>4, <1>5, <1>6, OriginsTell
<1>10. ASSUME origins = {}
       PROVE  /\ whole \in Stored
              /\ \A i \in DOMAIN t.slots : Confirmed(t, i) => t.slots[i] \notin Ids(whole)
  <2>1. ~whole.oldest /\ ~whole.newest
    BY <1>10 DEF Origins
  <2>2. {q \in Ids(whole) : q \in Mapped(t) /\ isAuthoritativeIndex(t, indexOfPost(t, q))} = {}
    BY <1>10 DEF Origins
  <2>3. ASSUME NEW i \in DOMAIN t.slots, Confirmed(t, i), t.slots[i] \in Ids(whole) PROVE FALSE
    <3> DEFINE q == t.slots[i]
    <3>1. q \in Mapped(t)
      BY <2>3 DEF Mapped, Confirmed
    <3>2. indexOfPost(t, q) \in DOMAIN t.slots /\ t.slots[indexOfPost(t, q)] = q
      BY <3>1, IndexMeans
    <3>3. Confirmed(t, indexOfPost(t, q))
      BY <2>3, <3>2 DEF Confirmed
    <3>4. isAuthoritativeIndex(t, indexOfPost(t, q))
      BY <3>2, <3>3, AuthoritativeMeans DEF Fine
    <3> QED BY <2>2, <2>3, <3>1, <3>4
  <2>4. whole \in Stored
    BY <1>3, <2>1 DEF Stored
  <2> QED BY <2>3, <2>4
<1> HIDE DEF origins
<1>11. /\ Result(p) /\ Placed(p.t, t, B)
       /\ p.ok /\ origins # {} => Apart(p.t, t, whole)
       /\ p.ok /\ origins = {} => Moved(p.t, t, whole)
  <2>1. Parted(t, Replaced(t, next), whole)
    BY <1>1 DEF MergedAs
  <2> QED BY <1>2, <1>3, <1>7, <1>9, <1>10, <2>1, WholePlaced
<1> QED BY <1>1, <1>8, <1>11 DEF whole

-----------------------------------------------------------------------------
(* The islands a page meets.                                               *)

\* The islands that share replies with an island lie in one that is there.
LEMMA StoredWhole ==
    ASSUME NEW t, Fine(t), NEW z \in StoredIn(t), NEW M, MergedAs(M, t, z)
    PROVE  \E y \in StoredIn(t) : Ids(M) = Ids(y)
<1> DEFINE S == Sharing(t, z)
           K == {k \in DOMAIN t.islands : t.islands[k] \in S}
<1>1. t.islands \in Seq(Stored) /\ DOMAIN t.islands = 1 .. Len(t.islands) /\ Len(t.islands) \in Nat
  BY DEF Fine, Shaped
<1>2. S \subseteq StoredIn(t) /\ \A x \in StoredIn(t), y \in S \cup {z} : Ids(x) \cap Ids(y) # {} => x \in S
  BY SharingFacts
<1>3. \A x \in StoredIn(t) : Ids(x) # {}
  <2> SUFFICES ASSUME NEW x \in Stored PROVE x.target \in Ids(x)
    BY <1>1 DEF StoredIn
  <2> QED BY DEF Stored, Windows, Whole, Ids
<1>4. z \in S
  BY <1>2, <1>3
<1>5. PICK m \in K : \A k \in K : m <= k
  <2>1. K \subseteq Nat /\ K # {}
    BY <1>1, <1>4 DEF StoredIn
  <2> HIDE DEF K
  <2> QED BY <2>1, Least
<1> DEFINE y == t.islands[m]
<1>6. y \in S /\ m \in DOMAIN t.islands /\ y \in StoredIn(t)
  BY <1>5 DEF StoredIn
<1>7. \A x \in S : Ids(x) \cap Ids(y) = {} \/ Ids(x) \subseteq Ids(y)
  <2> SUFFICES ASSUME NEW x \in S PROVE Ids(x) \cap Ids(y) = {} \/ Ids(x) \subseteq Ids(y)
    OBVIOUS
  <2>1. PICK l \in DOMAIN t.islands : x = t.islands[l]
    BY <1>2 DEF StoredIn
  <2>2. l = m \/ m < l
    <3>1. l \in K
      BY <2>1
    <3> QED BY <1>1, <1>5, <3>1
  <2> QED BY <1>6, <2>1, <2>2 DEF Fine, Nested
<1> HIDE DEF K, S, y
<1>8. Ids(z) \subseteq Ids(y)
  <2> SUFFICES ASSUME Ids(z) \cap Ids(y) = {} PROVE FALSE
    BY <1>4, <1>7
  <2> DEFINE R == {x \in S : Ids(x) \cap Ids(y) = {}}
  <2>1. ClosedUnder(t, z, R)
    <3> SUFFICES ASSUME NEW x \in StoredIn(t), NEW o \in R \cup {z}, Ids(x) \cap Ids(o) # {} PROVE x \in R
      BY DEF ClosedUnder
    <3>1. x \in S
      BY <1>2
    <3>2. Ids(o) \cap Ids(y) = {}
      OBVIOUS
    <3> QED BY <1>7, <3>1, <3>2
  <2>2. R \in SUBSET StoredIn(t)
    BY <1>2
  <2> HIDE DEF R
  <2>3. S \subseteq R
    BY <2>1, <2>2, SharingFacts DEF S
  <2>4. y \in R
    BY <1>6, <2>3
  <2> QED BY <1>3, <1>6, <2>4 DEF R
<1>9. \A x \in S : Ids(x) \subseteq Ids(y)
  <2> DEFINE R == {x \in S : Ids(x) \subseteq Ids(y)}
  <2>1. ClosedUnder(t, z, R)
    <3> SUFFICES ASSUME NEW x \in StoredIn(t), NEW o \in R \cup {z}, Ids(x) \cap Ids(o) # {} PROVE x \in R
      BY DEF ClosedUnder
    <3>1. x \in S
      BY <1>2
    <3>2. Ids(o) \subseteq Ids(y)
      BY <1>8
    <3> QED BY <1>7, <3>1, <3>2
  <2>2. R \in SUBSET StoredIn(t)
    BY <1>2
  <2> HIDE DEF R
  <2>3. S \subseteq R
    BY <2>1, <2>2, SharingFacts DEF S
  <2> QED BY <2>3 DEF R
<1>10. Ids(M) = Ids(y)
  BY <1>6, <1>8, <1>9 DEF MergedAs, S
<1> QED BY <1>6, <1>10

\* Windows of the same replies count the same.
LEMMA SameCount ==
    ASSUME NEW x \in Windows, Whole(x), NEW y \in Windows, Whole(y), Ids(x) = Ids(y)
    PROVE  Count(x) = Count(y)
<1>1. /\ x.lo \in Nat /\ x.hi \in Nat /\ x.lo <= x.hi
      /\ y.lo \in Nat /\ y.hi \in Nat /\ y.lo <= y.hi
  BY CountMeans
<1>2. x.lo = y.lo /\ x.hi = y.hi
  <2>1. x.lo \in Ids(x) /\ x.hi \in Ids(x) /\ y.lo \in Ids(y) /\ y.hi \in Ids(y)
    BY <1>1 DEF Ids
  <2>2. x.lo \in y.lo .. y.hi /\ x.hi \in y.lo .. y.hi /\ y.lo \in x.lo .. x.hi /\ y.hi \in x.lo .. x.hi
    BY <2>1 DEF Ids
  <2> QED BY <1>1, <2>2
<1> QED BY <1>2 DEF Count

\* An island with all that shares replies with it does not take all the slots.
LEMMA NotAll ==
    ASSUME NEW t, Fine(t), Size(t) >= 2, NEW z \in StoredIn(t), NEW M, MergedAs(M, t, z)
    PROVE  Count(M) # Size(t)
<1>1. PICK y \in StoredIn(t) : Ids(M) = Ids(y)
  BY StoredWhole
<1>2. y \in Stored
  BY DEF Fine, Shaped, StoredIn
<1>3. Count(M) = Count(y)
  BY <1>1, <1>2, SameCount DEF MergedAs, Stored
<1>4. Count(y) + 2 <= Size(t) \/ Count(y) = 1
  BY DEF Fine, Fits
<1>5. Count(y) \in Nat /\ Size(t) \in Nat
  BY <1>2, CountMeans, SlotsOf DEF Stored, Fine, Shaped
<1> QED BY <1>3, <1>4, <1>5

\* The island that is found for a reply holds the others that have it.
LEMMA IslandFor ==
    ASSUME NEW t, Fine(t), NEW r
    PROVE  \/ /\ islandForPost(t, r) = <<>>
              /\ \A x \in StoredIn(t) : r \notin Ids(x)
           \/ \E z \in StoredIn(t) :
                /\ islandForPost(t, r) = <<z>> /\ r \in Ids(z)
                /\ \A x \in StoredIn(t) : r \in Ids(x) => Ids(x) \subseteq Ids(z)
<1> DEFINE having == {k \in DOMAIN t.islands : r \in Ids(t.islands[k])}
           a == CHOOSE k \in having : \A j \in having : k <= j
<1>1. DOMAIN t.islands = 1 .. Len(t.islands) /\ Len(t.islands) \in Nat
  BY DEF Fine, Shaped
<1>2. islandForPost(t, r) = IF having = {} THEN <<>> ELSE <<t.islands[a]>>
  BY DEF islandForPost
<1>3. CASE having = {}
  BY <1>2, <1>3 DEF StoredIn
<1>4. CASE having # {}
  <2>1. having \subseteq Nat
    BY <1>1
  <2>2. \E k \in having : \A j \in having : k <= j
    <3> HIDE DEF having
    <3> QED BY <1>4, <2>1, Least
  <2>3. a \in having /\ \A j \in having : a <= j
    <3> HIDE DEF having
    <3> QED BY <2>2
  <2>4. islandForPost(t, r) = <<t.islands[a]>>
    BY <1>2, <1>4, Zenon
  <2> HIDE DEF a
  <2>5. t.islands[a] \in StoredIn(t) /\ r \in Ids(t.islands[a]) /\ a \in DOMAIN t.islands
    BY <2>3 DEF StoredIn
  <2>6. ASSUME NEW x \in StoredIn(t), r \in Ids(x) PROVE Ids(x) \subseteq Ids(t.islands[a])
    <3>1. PICK l \in DOMAIN t.islands : x = t.islands[l]
      BY DEF StoredIn
    <3>2. l = a \/ a < l
      <4>1. l \in having
        BY <2>6, <3>1
      <4> QED BY <1>1, <2>3, <4>1
    <3> QED BY <2>5, <2>6, <3>1, <3>2 DEF Fine, Nested
  <2> QED BY <2>4, <2>5, <2>6
<1> QED BY <1>3, <1>4

-----------------------------------------------------------------------------
(* placeExactWindow: the islands in the way of a page are moved, then it is confirmed. *)

\* Placements one after the other.
LEMMA PlacedOn ==
    ASSUME NEW t, NEW u, NEW v, NEW B, Placed(u, t, B), Placed(v, u, B), Shaped(t)
    PROVE  Placed(v, t, B)
BY KeepsOn DEF Placed, Fine

\* Islands that overlap the page are those that are still to be looked at.
LeftOver(u, t, k, page) == \A x \in StoredIn(u) : Ids(x) \cap page # {} =>
    \E j \in (k + 1) .. Len(t.islands) : t.islands[j].target \in Ids(x)

\* While the islands of a page are looked at.
PageInv(p, t, B, k, page) == Result(p) /\ Placed(p.t, t, B) /\ (p.ok => LeftOver(p.t, t, k, page))

\* One island has been looked at, and those that have its target are no more in the page.
LEMMA LookedAt ==
    ASSUME NEW t, NEW v, NEW u, NEW k \in Nat, NEW page, NEW z, LeftOver(v, t, k - 1, page),
           \A x \in StoredIn(u) : Ids(x) \cap page # {} =>
                \E y \in StoredIn(v) : /\ Ids(y) \cap page # {} /\ Ids(y) \subseteq Ids(x)
                                       /\ t.islands[k].target \notin Ids(y)
    PROVE  LeftOver(u, t, k, page)
<1> SUFFICES ASSUME NEW x \in StoredIn(u), Ids(x) \cap page # {}
             PROVE  \E j \in (k + 1) .. Len(t.islands) : t.islands[j].target \in Ids(x)
  BY DEF LeftOver
<1>1. PICK y \in StoredIn(v) : Ids(y) \cap page # {} /\ Ids(y) \subseteq Ids(x) /\ t.islands[k].target \notin Ids(y)
  OBVIOUS
<1>2. PICK j \in k .. Len(t.islands) : t.islands[j].target \in Ids(y)
  <2>1. (k - 1) + 1 = k
    OBVIOUS
  <2> QED BY <1>1, <2>1 DEF LeftOver
<1>3. j # k
  BY <1>1, <1>2
<1>4. j \in (k + 1) .. Len(t.islands)
  BY <1>2, <1>3
<1> QED BY <1>1, <1>2, <1>4

\* One island of the page: moved, or it has been refused.
LEMMA MovedAside ==
    ASSUME NEW t, Fine(t), Size(t) >= 2, NEW B, NEW b \in Nat, \A n \in B : n <= b,
           NEW lo \in Nat, NEW hi \in Nat, NEW k \in 1 .. Len(t.islands),
           NEW moved, PageInv(moved, t, B, k - 1, lo .. hi),
           NEW p, p = MoveAside(moved, islandForPost(moved.t, t.islands[k].target), lo, lo, hi)
    PROVE  PageInv(p, t, B, k, lo .. hi)
<1> DEFINE v == moved.t
           r == t.islands[k].target
           found == islandForPost(v, r)
           page == lo .. hi
<1>1. Result(moved) /\ Placed(v, t, B) /\ (moved.ok => LeftOver(v, t, k - 1, page))
  BY DEF PageInv
<1>2. Fine(v) /\ Size(v) = Size(t) /\ Within(v, B) /\ Shaped(t)
  BY <1>1 DEF Placed, Fine
<1>3. k \in Nat
  BY DEF Fine, Shaped
<1>4. p = MoveAside(moved, found, lo, lo, hi)
  OBVIOUS
<1>5. \/ /\ found = <<>>
         /\ \A x \in StoredIn(v) : r \notin Ids(x)
      \/ \E z \in StoredIn(v) :
            /\ found = <<z>> /\ r \in Ids(z)
            /\ \A x \in StoredIn(v) : r \in Ids(x) => Ids(x) \subseteq Ids(z)
  BY <1>2, IslandFor
<1> HIDE DEF v, r, found, page
<1>6. CASE ~moved.ok
  <2>1. p = moved
    BY <1>4, <1>6 DEF MoveAside
  <2> QED BY <1>1, <1>6, <2>1 DEF PageInv, v
<1>7. CASE moved.ok /\ found = <<>> /\ \A x \in StoredIn(v) : r \notin Ids(x)
  <2>1. p = moved
    BY <1>4, <1>7 DEF MoveAside
  <2>2. LeftOver(v, t, k, page)
    BY <1>1, <1>3, <1>7, LookedAt DEF r
  <2> QED BY <1>1, <2>1, <2>2 DEF PageInv, v, page
<1>8. ASSUME moved.ok, NEW z \in StoredIn(v), found = <<z>>, r \in Ids(z),
             \A x \in StoredIn(v) : r \in Ids(x) => Ids(x) \subseteq Ids(z)
      PROVE  PageInv(p, t, B, k, page)
  <2> DEFINE M == Merge(v, z)
  <2>1. found # <<>> /\ found[1] = z
    BY <1>8
  <2>2. z \in Stored /\ z \in Windows /\ Whole(z) /\ ~z.oldest /\ ~z.newest /\ z.lo \in Nat /\ Ids(z) \subseteq B
    <3>1. z \in Stored
      BY <1>2 DEF Fine, Shaped, StoredIn
    <3>2. Ids(z) \subseteq B
      BY <1>2 DEF Within
    <3> QED BY <3>1, <3>2 DEF Stored, Windows
  <2>3. MergedAs(M, v, z)
    <3>1. v.islands \in Seq(Stored)
      BY <1>2 DEF Fine, Shaped
    <3>2. Below(v, z, b)
      BY <2>2, <1>2, <3>1, WithinBelow
    <3> QED BY <2>2, <3>1, <3>2, Merged
  <2>4. Count(M) # Size(v)
    BY <1>2, <2>3, NotAll
  <2>5. r \in Ids(M)
    BY <1>8, <2>3 DEF MergedAs
  <2>6. Count(Merge(v, z)) # Size(v)
    BY <2>4
  <2> HIDE DEF M
  <2>7. ASSUME NEW u, Apart(u, v, M) PROVE LeftOver(u, t, k, page)
    <3>1. ASSUME NEW x \in StoredIn(u), Ids(x) \cap page # {}
          PROVE  \E y \in StoredIn(v) : Ids(y) \cap page # {} /\ Ids(y) \subseteq Ids(x) /\ r \notin Ids(y)
      <4>1. PICK q \in Ids(x) : q \in page
        BY <3>1
      <4>2. PICK y \in StoredIn(v) : q \in Ids(y) /\ Ids(y) \subseteq Ids(x)
        BY <2>7 DEF Apart
      <4>3. r \notin Ids(x)
        BY <2>5, <2>7 DEF Apart
      <4> QED BY <4>1, <4>2, <4>3
    <3> QED BY <1>1, <1>3, <1>8, <3>1, LookedAt DEF r
  <2>8. CASE Ids(z) \cap page # {}
    <3> DEFINE given == {lo + z.lo - lo}
    <3>1. p = placeIsland(v, z, given, {})
      BY <1>4, <1>8, <2>1, <2>8, Zenon DEF MoveAside, v, page
    <3>2. given = {z.lo}
      BY <2>2
    <3>3. given # {} /\ \A o \in given : o = z.lo
      BY <3>2
    <3> HIDE DEF given
    <3>4. Result(p) /\ Placed(p.t, v, B) /\ (p.ok => Apart(p.t, v, Merge(v, z)))
      BY <1>2, <2>2, <2>6, <3>1, <3>3, IslandPlaced
    <3>5. Placed(p.t, t, B)
      BY <1>1, <1>2, <3>4, PlacedOn
    <3> QED BY <2>7, <3>4, <3>5 DEF PageInv, M
  <2>9. ASSUME Ids(z) \cap page = {}, NEW x \in StoredIn(v), Ids(x) \cap page # {} PROVE r \notin Ids(x)
    BY <1>8, <2>9
  <2>10. CASE Ids(z) \cap page = {} /\ Touching(z, lo, lo + hi - lo)
    <3> DEFINE reserved == lo .. (lo + hi - lo)
    <3>1. p = placeIsland(v, z, {}, reserved)
      BY <1>4, <1>8, <2>1, <2>10, Zenon DEF MoveAside, v, page
    <3> HIDE DEF reserved
    <3>2. /\ Result(p) /\ Placed(p.t, v, B)
          /\ p.ok => Apart(p.t, v, Merge(v, z)) \/ Moved(p.t, v, Merge(v, z))
      <4> DEFINE given == {}
      <4>1. \A o \in given : o = z.lo
        OBVIOUS
      <4>2. p = placeIsland(v, z, given, reserved)
        BY <3>1
      <4> HIDE DEF given
      <4> QED BY <1>2, <2>2, <2>6, <4>1, <4>2, IslandPlaced
    <3>3. Placed(p.t, t, B)
      BY <1>1, <1>2, <3>2, PlacedOn
    <3>4. ASSUME p.ok, Moved(p.t, v, M) PROVE LeftOver(p.t, t, k, page)
      <4>1. ASSUME NEW x \in StoredIn(p.t), Ids(x) \cap page # {}
            PROVE  \E y \in StoredIn(v) : Ids(y) \cap page # {} /\ Ids(y) \subseteq Ids(x) /\ r \notin Ids(y)
        <5>1. CASE x \in StoredIn(v) /\ Ids(x) \cap Ids(M) = {}
          BY <2>5, <4>1, <5>1
        <5>2. CASE Ids(x) = Ids(M)
          <6>1. PICK q \in Ids(M) : q \in page
            BY <4>1, <5>2
          <6>2. PICK y \in Sharing(v, z) : q \in Ids(y)
            BY <2>3, <2>10, <6>1 DEF MergedAs
          <6>3. y \in StoredIn(v) /\ Ids(y) \subseteq Ids(x)
            BY <2>3, <5>2 DEF MergedAs
          <6>4. r \notin Ids(y)
            BY <2>9, <2>10, <6>1, <6>2, <6>3
          <6> QED BY <6>1, <6>2, <6>3, <6>4
        <5> QED BY <3>4, <4>1, <5>1, <5>2 DEF Moved
      <4> QED BY <1>1, <1>3, <1>8, <4>1, LookedAt DEF r
    <3> QED BY <2>7, <3>2, <3>3, <3>4 DEF PageInv, M
  <2>11. CASE Ids(z) \cap page = {} /\ ~Touching(z, lo, lo + hi - lo)
    <3>1. p = moved
      BY <1>4, <1>8, <2>1, <2>11, Zenon DEF MoveAside, page
    <3>2. LeftOver(v, t, k, page)
      BY <1>1, <1>3, <1>8, <2>9, <2>11, LookedAt DEF r
    <3> QED BY <1>1, <3>1, <3>2 DEF PageInv, v
  <2> QED BY <2>8, <2>10, <2>11
<1> QED BY <1>5, <1>6, <1>7, <1>8 DEF page

\* What the last step of placeExactWindow writes.
AsConfirmed(u, v, lo, hi) ==
    /\ u = [slots |-> u.slots, provisional |-> u.provisional, islands |-> u.islands, nav |-> u.nav]
    /\ u.slots \in Seq(Nat)
    /\ Written(u, v, lo, lo, hi)
    /\ u.provisional = Mapped(u) \cap (v.provisional \ (lo .. hi))
    /\ u.islands = v.islands

\* The page is written as confirmed.
LEMMA ConfirmMeans ==
    ASSUME NEW moved, moved.ok, NEW v, v = moved.t, Shaped(v), NEW lo \in Nat, NEW hi \in Nat, 1 <= lo, lo <= hi,
           NEW p, p = Confirm(moved, lo, lo, hi), NEW u, u = p.t
    PROVE  Result(p) /\ p.ok /\ AsConfirmed(u, v, lo, hi)
<1> DEFINE slots == [i \in DOMAIN v.slots |->
                        IF i >= lo /\ i + lo <= lo + hi THEN lo + i - lo
                        ELSE IF v.slots[i] \in lo .. hi THEN 0 ELSE v.slots[i]]
           nav == IF v.nav.post \in lo .. hi THEN NoTarget ELSE v.nav
           provisional == v.provisional \ (lo .. hi)
           w == [slots |-> slots, provisional |-> provisional, islands |-> v.islands, nav |-> nav]
           x == [v EXCEPT !.provisional = @ \ (lo .. hi), !.nav = IF @.post \in lo .. hi THEN NoTarget ELSE @]
<1>1. p = [ok |-> TRUE, t |-> Pruned(assignExactWindow(x, lo, lo, hi))]
  BY DEF Confirm
<1>2. x = [slots |-> v.slots, provisional |-> provisional, islands |-> v.islands, nav |-> nav]
  <2>1. x = [v EXCEPT !.provisional = provisional, !.nav = nav]
    OBVIOUS
  <2> HIDE DEF x, provisional, nav
  <2> QED BY <2>1 DEF Shaped
<1> HIDE DEF x, nav, provisional
<1>3. assignExactWindow(x, lo, lo, hi) = w
  BY <1>2 DEF assignExactWindow
<1>4. DOMAIN v.slots = 1 .. Size(v) /\ Size(v) \in Nat /\ \A i \in DOMAIN v.slots : v.slots[i] \in Nat
  BY SlotsOf DEF Shaped
<1>5. slots \in Seq(Nat) /\ Len(slots) = Size(v) /\ DOMAIN slots = DOMAIN v.slots
  <2>1. \A i \in 1 .. Size(v) : slots[i] \in Nat
    BY <1>4
  <2>2. slots = [i \in 1 .. Size(v) |-> slots[i]]
    BY <1>4
  <2> HIDE DEF slots
  <2>3. slots \in Seq(Nat) /\ Len(slots) = Size(v)
    BY <1>4, <2>1, <2>2
  <2> QED BY <1>4, <2>2, <2>3
<1>6. \A i \in DOMAIN v.slots :
        slots[i] = IF i >= lo /\ i + lo <= lo + hi THEN lo + i - lo
                   ELSE IF v.slots[i] \in lo .. hi THEN 0 ELSE v.slots[i]
  OBVIOUS
<1> HIDE DEF slots
<1>7. Pruned(w) = [slots |-> slots, provisional |-> provisional \cap Mapped(w), islands |-> v.islands, nav |-> nav]
  BY DEF Pruned
<1>8. u = [slots |-> slots, provisional |-> provisional \cap Mapped(w), islands |-> v.islands, nav |-> nav] /\ p = [ok |-> TRUE, t |-> u]
  <2> HIDE DEF w
  <2> QED BY <1>1, <1>3, <1>7
<1>9. Mapped(w) = Mapped(u)
  BY <1>8 DEF Mapped
<1> HIDE DEF w
<1>10. /\ u = [slots |-> u.slots, provisional |-> u.provisional, islands |-> u.islands, nav |-> u.nav]
       /\ u.slots = slots /\ u.provisional = provisional \cap Mapped(u) /\ u.islands = v.islands
  <2> DEFINE left == provisional \cap Mapped(w)
  <2>1. u = [slots |-> slots, provisional |-> left, islands |-> v.islands, nav |-> nav]
    BY <1>8
  <2>2. left = provisional \cap Mapped(u)
    BY <1>9
  <2> HIDE DEF left
  <2>3. u.slots = slots /\ u.provisional = left /\ u.islands = v.islands /\ u.nav = nav
    BY <2>1
  <2> QED BY <2>1, <2>2, <2>3
<1>11. Written(u, v, lo, lo, hi)
  BY <1>5, <1>6, <1>10 DEF Written, Size
<1>12. p.ok /\ Result(p)
  BY <1>8 DEF Result
<1>13. u.slots \in Seq(Nat) /\ u.provisional = Mapped(u) \cap (v.provisional \ (lo .. hi))
  BY <1>5, <1>10 DEF provisional
<1> QED BY <1>10, <1>11, <1>12, <1>13 DEF AsConfirmed

\* Confirming replies that no island has.
LEMMA PageConfirmed ==
    ASSUME NEW moved, moved.ok, Fine(moved.t), NEW lo \in Nat, NEW hi \in Nat, 1 <= lo, lo <= hi,
           hi <= Size(moved.t), Size(moved.t) >= 2,
           \A x \in StoredIn(moved.t) : Ids(x) \cap (lo .. hi) = {},
           NEW B, Within(moved.t, B), NEW p, p = Confirm(moved, lo, lo, hi)
    PROVE  Result(p) /\ Placed(p.t, moved.t, B)
<1> DEFINE v == moved.t
           u == p.t
<1>1. /\ Result(p)
      /\ u = [slots |-> u.slots, provisional |-> u.provisional, islands |-> u.islands, nav |-> u.nav]
      /\ u.slots \in Seq(Nat)
      /\ Written(u, v, lo, lo, hi)
      /\ u.provisional = Mapped(u) \cap (v.provisional \ (lo .. hi))
      /\ u.islands = v.islands
  BY ConfirmMeans DEF Fine, AsConfirmed
<1> HIDE DEF u
<1>2. /\ Ranked(u) /\ Keeps(u, v) /\ Size(u) = Size(v)
      /\ \A i \in DOMAIN u.slots : Confirmed(u, i) => u.slots[i] \in lo .. hi \/ (i \in DOMAIN v.slots /\ Confirmed(v, i) /\ u.slots[i] = v.slots[i])
  BY <1>1, ExactKeeps
<1>3. StoredIn(u) = StoredIn(v) /\ u.islands \in Seq(Stored)
  BY <1>1 DEF StoredIn, Fine, Shaped
<1>4. Unconfirmed(u)
  <2> SUFFICES ASSUME NEW x \in StoredIn(v), NEW i \in DOMAIN u.slots, Confirmed(u, i)
               PROVE  u.slots[i] \notin Ids(x)
    BY <1>3 DEF Unconfirmed
  <2>1. CASE u.slots[i] \in lo .. hi
    BY <2>1
  <2>2. CASE i \in DOMAIN v.slots /\ Confirmed(v, i) /\ u.slots[i] = v.slots[i]
    BY <2>2 DEF Fine, Unconfirmed
  <2> QED BY <1>2, <2>1, <2>2
<1>5. Nested(u)
  BY <1>1 DEF Fine, Nested
<1>6. Fits(u)
  BY <1>2, <1>3 DEF Fine, Fits
<1>7. Small(u)
  <2>1. Size(v) \in Nat
    BY SlotsOf DEF Fine, Shaped
  <2> QED BY <1>2, <2>1 DEF Small
<1>8. Shaped(u)
  BY <1>1, <1>3 DEF Shaped
<1>9. Within(u, B)
  BY <1>3 DEF Within
<1> QED BY <1>1, <1>2, <1>4, <1>5, <1>6, <1>7, <1>8, <1>9 DEF Placed, Fine, u

\* A single slot is left to the page.
LeftAlone(p, t, B) ==
    /\ Result(p)
    /\ ~p.ok => Placed(p.t, t, B)
    /\ p.ok => Shaped(p.t) /\ Size(p.t) = 1 /\ StoredIn(p.t) = {}

\* Where there is one slot, the only island gives way to a page.
LEMMA AlonePlaced ==
    ASSUME NEW t, Fine(t), Size(t) = 1, NEW z \in StoredIn(t),
           NEW B, NEW b \in Nat, \A n \in B : n <= b, Within(t, B),
           NEW given, given \subseteq Int,
           NEW reserved, NEW p, p = placeIsland(t, z, given, reserved)
    PROVE  LeftAlone(p, t, B)
<1> DEFINE whole == Merge(t, z)
           targets == Replaced(t, z)
           given2 == {o + whole.lo - z.lo : o \in given}
           origins == Origins(t, whole, given2)
           first == CHOOSE o \in origins : TRUE
           refused == \/ Cardinality(origins) > 1
                      \/ \E o \in origins : o < 1 \/ o + Count(whole) > Size(t) + 1
           room == makeRoom(t, targets, first, first + Count(whole) - 1)
<1>1. z \in Windows /\ Whole(z) /\ z \in Stored /\ ~z.oldest /\ ~z.newest /\ Ids(z) \subseteq B
  <2>1. z \in Stored
    BY DEF Fine, Shaped, StoredIn
  <2> QED BY <2>1 DEF Stored, Within
<1>2. MergedAs(whole, t, z)
  <2>1. t.islands \in Seq(Stored)
    BY DEF Fine, Shaped
  <2>2. Below(t, z, b)
    BY <1>1, <2>1, WithinBelow
  <2> QED BY <1>1, <2>1, <2>2, Merged
<1>3. p = placeWhole(t, whole, targets, origins, reserved)
  BY DEF placeIsland
<1>4. p = IF refused THEN [ok |-> FALSE, t |-> t]
          ELSE IF origins = {} THEN placeFree(t, whole, targets, reserved)
          ELSE placeAt(room, whole, targets, first)
  BY <1>3 DEF placeWhole
<1> HIDE DEF whole, room, first
<1>5. Placed(t, t, B)
  BY SlotsOf DEF Placed, Keeps, Fine, Shaped
<1>6. \A x \in StoredIn(t) : Ids(x) = {t.slots[1]} /\ x \in Sharing(t, z) /\ x.target \in targets
  <2> SUFFICES ASSUME NEW x \in StoredIn(t) PROVE Ids(x) = {t.slots[1]} /\ x \in Sharing(t, z) /\ x.target \in targets
    OBVIOUS
  <2>1. Ids(x) = {t.slots[1]} /\ Ids(z) = {t.slots[1]}
    BY DEF Fine, Small
  <2>2. Ids(x) \cap Ids(whole) # {}
    BY <1>2, <2>1 DEF MergedAs
  <2>3. x \in Sharing(t, z)
    BY <1>2, <2>2 DEF MergedAs
  <2> QED BY <2>1, <2>3 DEF Replaced
<1>7. Ids(whole) = Ids(z) /\ Count(whole) = 1
  <2>1. Ids(whole) = Ids(z)
    BY <1>2, <1>6 DEF MergedAs
  <2>2. Count(whole) = Count(z)
    BY <1>1, <1>2, <2>1, SameCount DEF MergedAs
  <2>3. Count(z) = 1
    <3>1. Count(z) + 2 <= Size(t) \/ Count(z) = 1
      BY DEF Fine, Fits
    <3> QED BY <1>1, <3>1, CountMeans
  <2> QED BY <2>1, <2>2, <2>3
<1>8. /\ whole \in Windows /\ Whole(whole) /\ ~whole.oldest /\ ~whole.newest
      /\ whole.lo \in Nat /\ z.lo \in Nat
  BY <1>1, <1>2 DEF MergedAs, Windows
<1>9. 1 \in origins /\ \A o \in origins : o \in Int
  <2>1. given2 \subseteq Int
    BY <1>8
  <2> HIDE DEF given2
  <2>2. {q \in Ids(whole) : q \in Mapped(t) /\ isAuthoritativeIndex(t, indexOfPost(t, q))} = {}
    <3> SUFFICES ASSUME NEW q \in Ids(whole), q \in Mapped(t), isAuthoritativeIndex(t, indexOfPost(t, q)) PROVE FALSE
      OBVIOUS
    <3>1. indexOfPost(t, q) \in DOMAIN t.slots /\ t.slots[indexOfPost(t, q)] = q
      BY IndexMeans
    <3>2. Confirmed(t, indexOfPost(t, q))
      BY <3>1, AuthoritativeMeans DEF Fine
    <3> QED BY <1>7, <3>1, <3>2 DEF Fine, Unconfirmed
  <2>3. \A o \in {indexOfPost(t, r) - (r - whole.lo) :
                r \in {q \in Ids(whole) : q \in Mapped(t) /\ isAuthoritativeIndex(t, indexOfPost(t, q))}} : FALSE
    BY <2>2
  <2>4. origins = given2 \cup {1}
    BY <1>7, <1>8, <2>3 DEF Origins
  <2> HIDE DEF origins
  <2> QED BY <2>1, <2>4
<1> HIDE DEF origins
<1>10. CASE refused
  <2>1. p = [ok |-> FALSE, t |-> t]
    BY <1>4, <1>10, Zenon
  <2>2. Result(p) /\ ~p.ok /\ p.t = t
    BY <2>1 DEF Result
  <2> QED BY <1>5, <2>2 DEF LeftAlone
<1>11. CASE ~refused
  <2>1. p = placeAt(room, whole, targets, first)
    BY <1>4, <1>9, <1>11, Zenon
  <2>2. first = 1
    <3>1. first \in origins
      BY <1>9, Zenon DEF first
    <3>2. ~(first < 1) /\ ~(first + Count(whole) > Size(t) + 1)
      BY <1>11, <3>1
    <3> HIDE DEF refused
    <3> QED BY <1>7, <1>9, <3>1, <3>2
  <2> HIDE DEF refused
  <2>3. /\ RoomInv(room.t, t, targets, whole, B) /\ Result(room)
        /\ Size(t) = 1 /\ room.ok => room.t = t /\ \A x \in StoredIn(t) : x.target \in targets
    <3>1. room = makeRoom(t, targets, 1, 1)
      BY <1>7, <2>2 DEF room
    <3>2. Parted(t, targets, whole)
      BY <1>2 DEF MergedAs
    <3>3. 1 \in Nat
      OBVIOUS
    <3> HIDE DEF targets
    <3> QED BY <1>8, <3>1, <3>2, <3>3, RoomMade
  <2> DEFINE left == Without(room.t, targets)
             taken == \E i \in first .. (first + Count(whole) - 1) :
                        left[i] \notin {0, whole.lo + (i - first)} /\ left[i] \notin room.t.provisional
             u == settle(room.t, whole, targets, first, TRUE)
  <2>4. p = IF ~room.ok \/ taken THEN [room EXCEPT !.ok = FALSE] ELSE [ok |-> TRUE, t |-> u]
    BY <2>1 DEF placeAt
  <2>5. CASE ~room.ok \/ taken
    <3>1. p = [room EXCEPT !.ok = FALSE]
      BY <2>4, <2>5, Zenon
    <3> HIDE DEF taken, u
    <3>2. ~p.ok /\ p.t = room.t /\ Result(p)
      BY <2>3, <3>1 DEF Result
    <3> QED BY <2>3, <3>2 DEF RoomInv, Placed, LeftAlone
  <2>6. CASE room.ok /\ ~taken
    <3>1. p = [ok |-> TRUE, t |-> u]
      BY <2>4, <2>6, Zenon
    <3>2. room.t = t
      BY <2>3, <2>6
    <3>3. AsExact(u, room.t, whole, targets, first)
      <4> DEFINE v == room.t
      <4>1. Shaped(v) /\ Size(v) = Size(t) /\ \A x \in StoredIn(v) : x.target \in targets => Ids(x) \subseteq Ids(whole)
        <5> HIDE DEF u, taken
        <5> QED BY <2>3 DEF RoomInv, Fine, Parted
      <4>2. first + Count(whole) <= Size(v) + 1 /\ first >= 1 /\ first \in Nat
        <5> HIDE DEF u, taken, v
        <5> QED BY <1>7, <2>2, <4>1
      <4> HIDE DEF v, targets
      <4> QED BY <1>8, <4>1, <4>2, AsSettled, Zenon DEF v
    <3> HIDE DEF u, taken
    <3>4. p.ok /\ p.t = u /\ Result(p)
      BY <3>1 DEF Result
    <3>5. AsExact(u, t, whole, targets, first)
      BY <3>2, <3>3
    <3>6. u.islands = Others(t.islands, targets) /\ t.islands \in Seq(Stored)
      BY <3>5 DEF AsExact, Fine, Shaped
    <3> HIDE DEF targets
    <3>7. u.islands \in Seq(Stored) /\ \A x \in StoredIn(u) : x \in StoredIn(t) /\ x.target \notin targets
      BY <3>6, OthersFine
    <3>8. StoredIn(u) = {}
      BY <1>6, <3>7
    <3>9. Shaped(u) /\ Size(u) = 1
      BY <3>5, <3>7 DEF AsExact, Written, Size, Shaped
    <3> QED BY <3>4, <3>8, <3>9 DEF LeftAlone
  <2> QED BY <2>5, <2>6
<1> QED BY <1>10, <1>11

\* The islands in the way have moved, where there are several slots.
LEMMA RoomForPage ==
    ASSUME NEW t, Fine(t), Size(t) >= 2, NEW B, NEW b \in Nat, \A n \in B : n <= b, Within(t, B),
           NEW lo \in Nat, NEW hi \in Nat, NEW n, n = Len(t.islands),
           NEW moved, moved = PageFrom(t, lo, lo, hi, n)[n]
    PROVE  PageInv(moved, t, B, n, lo .. hi)
<1> DEFINE f == PageFrom(t, lo, lo, hi, n)
           H == {m \in 0 .. n : PageInv(f[m], t, B, m, lo .. hi)}
<1>1. n \in Nat /\ DOMAIN t.islands = 1 .. n
  BY DEF Fine, Shaped
<1>2. \A k \in 0 .. n : f[k] = PageDef(t, lo, lo, hi, f, k)
  BY <1>1, PageDefined DEF PageRun
<1> HIDE DEF f
<1>3. 0 \in H
  <2>1. f[0] = [ok |-> TRUE, t |-> t]
    <3>1. 0 \in 0 .. n
      BY <1>1
    <3>2. f[0] = PageDef(t, lo, lo, hi, f, 0)
      BY <1>2, <3>1
    <3>3. PageDef(t, lo, lo, hi, f, 0) = [ok |-> TRUE, t |-> t]
      BY DEF PageDef
    <3> QED BY <3>2, <3>3
  <2>2. f[0].t = t /\ Result(f[0])
    BY <2>1 DEF Result
  <2>3. Placed(t, t, B)
    BY SlotsOf DEF Placed, Keeps, Fine, Shaped
  <2>4. LeftOver(t, t, 0, lo .. hi)
    <3> SUFFICES ASSUME NEW k \in DOMAIN t.islands
                 PROVE  \E j \in (0 + 1) .. Len(t.islands) : t.islands[j].target \in Ids(t.islands[k])
      BY DEF LeftOver, StoredIn
    <3>1. t.islands[k] \in Stored /\ k \in (0 + 1) .. Len(t.islands)
      BY <1>1 DEF Fine, Shaped
    <3>2. t.islands[k].target \in Ids(t.islands[k])
      BY <3>1 DEF Stored, Windows, Whole, Ids
    <3> QED BY <3>1, <3>2
  <2>5. PageInv(f[0], t, B, 0, lo .. hi)
    BY <2>2, <2>3, <2>4 DEF PageInv
  <2> QED BY <1>1, <2>5
<1>4. ASSUME NEW m \in H, m < n PROVE m + 1 \in H
  <2> DEFINE k == m + 1
  <2>1. m \in Nat /\ k \in 1 .. n /\ k - 1 = m /\ PageInv(f[m], t, B, m, lo .. hi)
    BY <1>1, <1>4
  <2>2. f[k] = MoveAside(f[m], islandForPost(f[m].t, t.islands[k].target), lo, lo, hi)
    <3>1. f[k] = PageDef(t, lo, lo, hi, f, k)
      BY <1>1, <1>2, <2>1
    <3>2. k # 0
      BY <2>1
    <3> HIDE DEF k
    <3> QED BY <2>1, <3>1, <3>2 DEF PageDef
  <2> HIDE DEF k
  <2>3. PageInv(f[k], t, B, k, lo .. hi)
    BY <2>1, <2>2, MovedAside
  <2> QED BY <1>1, <2>1, <2>3 DEF k
<1>5. n \in H
  <2>1. H \subseteq 0 .. n
    OBVIOUS
  <2> HIDE DEF H
  <2>2. H = 0 .. n
    BY <1>1, <1>3, <1>4, <2>1, Upward
  <2> QED BY <1>1, <2>2
<1> QED BY <1>5 DEF f

\* Arithmetic.
LEMMA NoneOrOne ==
    ASSUME NEW n \in Nat, n <= 1
    PROVE  n = 0 \/ n = 1
OBVIOUS

\* Where there is one slot, no island is left.
LEMMA RoomAlone ==
    ASSUME NEW t, Fine(t), Size(t) = 1, NEW B, NEW b \in Nat, \A n \in B : n <= b, Within(t, B),
           NEW n, n = Len(t.islands), NEW moved, moved = PageFrom(t, 1, 1, 1, n)[n]
    PROVE  LeftAlone(moved, t, B)
<1> DEFINE f == PageFrom(t, 1, 1, 1, n)
<1>1. n \in Nat /\ DOMAIN t.islands = 1 .. n /\ n <= 1
  BY DEF Fine, Shaped, Small
<1>2. \A k \in 0 .. n : f[k] = PageDef(t, 1, 1, 1, f, k)
  BY <1>1, PageDefined DEF PageRun
<1>3. moved = f[n]
  OBVIOUS
<1> HIDE DEF f
<1>4. f[0] = [ok |-> TRUE, t |-> t]
  <2>1. 0 \in 0 .. n
    BY <1>1
  <2>2. f[0] = PageDef(t, 1, 1, 1, f, 0)
    BY <1>2, <2>1
  <2>3. PageDef(t, 1, 1, 1, f, 0) = [ok |-> TRUE, t |-> t]
    BY DEF PageDef
  <2> QED BY <2>2, <2>3
<1>5. f[0].t = t /\ f[0].ok /\ Result(f[0])
  BY <1>4 DEF Result
<1>6. CASE n = 0
  <2>1. StoredIn(t) = {}
    BY <1>1, <1>6 DEF StoredIn
  <2> QED BY <1>3, <1>5, <1>6, <2>1 DEF Fine, LeftAlone
<1>7. CASE n = 1
  <2> DEFINE z == t.islands[1]
             found == islandForPost(t, z.target)
  <2>1. z \in StoredIn(t) /\ z \in Stored
    BY <1>1, <1>7 DEF StoredIn, Fine, Shaped
  <2>2. z.target \in Ids(z) /\ z.lo \in Nat
    BY <2>1 DEF Stored, Windows, Whole, Ids
  <2>3. found = <<z>>
    <3>1. \A x \in StoredIn(t) : x = z
      BY <1>1, <1>7 DEF StoredIn
    <3> HIDE DEF z
    <3> QED BY <2>1, <2>2, <3>1, IslandFor
  <2>4. moved = MoveAside(f[0], found, 1, 1, 1)
    <3>1. 1 \in 0 .. n
      BY <1>7
    <3>2. f[1] = PageDef(t, 1, 1, 1, f, 1)
      BY <1>2, <3>1
    <3>3. PageDef(t, 1, 1, 1, f, 1) = MoveAside(f[0], islandForPost(f[0].t, t.islands[1].target), 1, 1, 1)
      BY DEF PageDef
    <3> QED BY <1>3, <1>5, <1>7, <3>2, <3>3
  <2>5. Touching(z, 1, 1)
    <3>1. z.first = 1
      BY <2>1 DEF Fine, Small
    <3>2. Count(z) \in Nat /\ Count(z) >= 1
      BY <2>1, CountMeans DEF Stored
    <3> HIDE DEF z
    <3> QED BY <3>1, <3>2 DEF Touching, LastSlot
  <2>6. 1 + 1 - 1 = 1 /\ found # <<>> /\ found[1] = z
    BY <2>3
  <2> HIDE DEF z, found
  <2> DEFINE here == {1 + z.lo - 1}
             none == {}
             page == 1 .. (1 + 1 - 1)
  <2>7. moved = placeIsland(t, z, here, none) \/ moved = placeIsland(t, z, none, page)
    BY <1>5, <2>4, <2>5, <2>6 DEF MoveAside
  <2>8. here \subseteq Int /\ none \subseteq Int
    BY <2>2
  <2> HIDE DEF here, none, page
  <2>9. CASE moved = placeIsland(t, z, here, none)
    BY <2>1, <2>8, <2>9, AlonePlaced, Zenon
  <2>10. CASE moved = placeIsland(t, z, none, page)
    BY <2>1, <2>8, <2>10, AlonePlaced, Zenon
  <2> QED BY <2>7, <2>9, <2>10
<1>8. n = 0 \/ n = 1
  BY <1>1, NoneOrOne, Zenon
<1> QED BY <1>6, <1>7, <1>8

\* The reply that takes the only slot.
LEMMA AloneConfirmed ==
    ASSUME NEW t, Fine(t), Size(t) = 1, NEW B, NEW moved, moved.ok, Shaped(moved.t), Size(moved.t) = 1,
           StoredIn(moved.t) = {}, NEW lo \in Nat, NEW hi \in Nat, lo = 1, hi = 1,
           NEW p, p = Confirm(moved, lo, lo, hi)
    PROVE  Result(p) /\ Placed(p.t, t, B)
<1> DEFINE v == moved.t
           u == p.t
<1>1. /\ Result(p)
      /\ u = [slots |-> u.slots, provisional |-> u.provisional, islands |-> u.islands, nav |-> u.nav]
      /\ u.slots \in Seq(Nat)
      /\ Written(u, v, lo, lo, hi)
      /\ u.provisional = Mapped(u) \cap (v.provisional \ (lo .. hi))
      /\ u.islands = v.islands
  <2>1. 1 <= lo /\ lo <= hi
    OBVIOUS
  <2>2. Result(p) /\ AsConfirmed(p.t, moved.t, lo, hi)
    BY <2>1, ConfirmMeans, Zenon
  <2> QED BY <2>2 DEF AsConfirmed
<1> HIDE DEF u
<1>2. DOMAIN v.slots = 1 .. 1 /\ DOMAIN u.slots = 1 .. 1 /\ Size(u) = 1 /\ DOMAIN t.slots = 1 .. 1
  BY <1>1, SlotsOf DEF Written, Size, Shaped, Fine
<1> HIDE DEF v
<1>3. u.slots[1] = 1
  BY <1>1, <1>2 DEF Written
<1>4. Ranked(u) /\ Confirmed(u, 1)
  BY <1>1, <1>2, <1>3 DEF Ranked, Confirmed
<1>5. StoredIn(u) = {} /\ u.islands \in Seq(Stored) /\ Len(u.islands) <= 1
  <2>1. StoredIn(u) = {} /\ u.islands \in Seq(Stored)
    <3>1. u.islands = v.islands /\ v.islands \in Seq(Stored) /\ StoredIn(v) = {}
      BY <1>1 DEF v, Shaped
    <3>2. StoredIn(u) = StoredIn(v)
      BY ONLY <3>1 DEF StoredIn
    <3> QED BY <3>1, <3>2
  <2>2. DOMAIN u.islands = 1 .. Len(u.islands) /\ Len(u.islands) \in Nat
    BY <2>1
  <2>3. ~(Len(u.islands) >= 1)
    <3> SUFFICES ASSUME Len(u.islands) >= 1 PROVE 1 \in DOMAIN u.islands
      BY <2>1 DEF StoredIn
    <3> QED BY <2>2
  <2> QED BY <2>1, <2>2, <2>3
<1>6. Fine(u)
  <2>1. Shaped(u) /\ Unconfirmed(u) /\ Fits(u)
    BY <1>1, <1>5 DEF Shaped, Unconfirmed, Fits
  <2>2. Nested(u)
    BY <1>5 DEF Nested, StoredIn
  <2>3. Small(u)
    BY <1>2, <1>5 DEF Small
  <2> QED BY <1>4, <2>1, <2>2, <2>3 DEF Fine
<1>7. Keeps(u, t)
  <2>1. \A i \in DOMAIN t.slots : i = 1 /\ (Confirmed(t, i) => t.slots[i] = i)
    BY <1>2 DEF Fine, Ranked
  <2> QED BY <1>2, <1>3, <1>4, <2>1 DEF Keeps
<1>8. Placed(u, t, B)
  BY <1>2, <1>5, <1>6, <1>7 DEF Placed, Within
<1> QED BY <1>1, <1>8 DEF u

\* What a page of confirmed replies, at their ranks, leaves.
LEMMA PagePlaced ==
    ASSUME NEW t, Fine(t), NEW B, NEW b \in Nat, \A n \in B : n <= b, Within(t, B),
           NEW lo \in Nat, NEW hi \in Nat, 1 <= lo, lo <= hi, hi <= Size(t),
           NEW p, p = placeExactWindow(t, lo, lo, hi)
    PROVE  Result(p) /\ Placed(p.t, t, B)
<1> DEFINE n == Len(t.islands)
           moved == PageFrom(t, lo, lo, hi, n)[n]
<1>1. p = Confirm(moved, lo, lo, hi)
  BY PageMeans
<1>2. Size(t) \in Nat
  BY SlotsOf DEF Fine, Shaped
<1>3. CASE Size(t) >= 2
  <2>1. PageInv(moved, t, B, n, lo .. hi)
    <3> HIDE DEF moved
    <3>1. moved = PageFrom(t, lo, lo, hi, n)[n]
      BY DEF moved
    <3> HIDE DEF n
    <3>2. n = Len(t.islands)
      BY DEF n
    <3> QED BY <1>3, <3>1, <3>2, RoomForPage
  <2>2. n \in Nat
    BY DEF Fine, Shaped
  <2> HIDE DEF moved
  <2>3. CASE ~moved.ok
    <3>1. p = moved
      BY <1>1, <2>3 DEF Confirm
    <3> QED BY <2>1, <3>1 DEF PageInv
  <2>4. CASE moved.ok
    <3>1. \A x \in StoredIn(moved.t) : Ids(x) \cap (lo .. hi) = {}
      BY <2>1, <2>2, <2>4 DEF PageInv, LeftOver
    <3>2. Fine(moved.t) /\ Size(moved.t) = Size(t) /\ Within(moved.t, B)
      BY <2>1 DEF PageInv, Placed
    <3>3. Result(p) /\ Placed(p.t, moved.t, B)
      BY <1>1, <1>3, <2>4, <3>1, <3>2, PageConfirmed
    <3> QED BY <2>1, <3>3, PlacedOn DEF PageInv, Fine
  <2> QED BY <2>3, <2>4
<1>4. CASE Size(t) = 1
  <2>1. lo = 1 /\ hi = 1
    BY <1>4
  <2>2. LeftAlone(moved, t, B)
    <3>1. moved = PageFrom(t, 1, 1, 1, n)[n]
      BY <2>1
    <3> HIDE DEF moved
    <3> HIDE DEF n
    <3>2. n = Len(t.islands)
      BY DEF n
    <3> QED BY <1>4, <3>1, <3>2, RoomAlone
  <2> HIDE DEF moved
  <2>2b. /\ Result(moved)
         /\ ~moved.ok => Placed(moved.t, t, B)
         /\ moved.ok => Shaped(moved.t) /\ Size(moved.t) = 1 /\ StoredIn(moved.t) = {}
    BY <2>2 DEF LeftAlone
  <2>3. CASE ~moved.ok
    <3>1. p = moved
      BY <1>1, <2>3 DEF Confirm
    <3> QED BY <2>2b, <2>3, <3>1
  <2>4. CASE moved.ok
    BY <1>1, <1>4, <2>1, <2>2b, <2>4, AloneConfirmed
  <2> QED BY <2>3, <2>4
<1> QED BY <1>2, <1>3, <1>4

-----------------------------------------------------------------------------
(* The number of slots.                                                    *)

\* Slots are added at the end, for replies that the root counts.
LEMMA NoIslands ==
    ASSUME NEW t, t.islands \in Seq(Stored), StoredIn(t) = {}
    PROVE  Len(t.islands) = 0
<1> DEFINE n == Len(t.islands)
<1>1. DOMAIN t.islands = 1 .. n /\ n \in Nat
  OBVIOUS
<1>2. \A k \in DOMAIN t.islands : t.islands[k] \in StoredIn(t)
  BY DEF StoredIn
<1>3. 1 \notin 1 .. n
  BY <1>1, <1>2
<1> HIDE DEF n
<1>4. n = 0
  BY <1>1, <1>3
<1> QED BY <1>4 DEF n

\* More slots, empty.
Grown(t, c) == [i \in 1 .. c |-> IF i \in DOMAIN t.slots THEN t.slots[i] ELSE 0]

\* Empty slots at the end change nothing else.
LEMMA GrownFine ==
    ASSUME NEW t, Fine(t), NEW c \in Nat, c >= Size(t),
           NEW u, u = [slots |-> u.slots, provisional |-> u.provisional, islands |-> u.islands, nav |-> u.nav],
           u.slots = Grown(t, c), u.islands = t.islands,
           \A r \in Mapped(u) : r \in u.provisional <=> r \in t.provisional
    PROVE  /\ Fine(u) /\ Keeps(u, t) /\ Size(u) = c
           /\ \A i \in DOMAIN u.slots : u.slots[i] = IF i \in DOMAIN t.slots THEN t.slots[i] ELSE 0
<1>1. Size(t) \in Nat /\ DOMAIN t.slots = 1 .. Size(t) /\ \A i \in DOMAIN t.slots : t.slots[i] \in Nat
  BY SlotsOf DEF Fine, Shaped
<1>2. /\ DOMAIN u.slots = 1 .. c
      /\ \A i \in 1 .. c : u.slots[i] = IF i \in 1 .. Size(t) THEN t.slots[i] ELSE 0
  BY <1>1 DEF Grown
<1>3. u.slots \in Seq(Nat) /\ Len(u.slots) = c /\ Size(u) = c
  <2>1. u.slots \in [1 .. c -> Nat]
    BY <1>1 DEF Grown
  <2> QED BY <2>1 DEF Size
<1>4. StoredIn(u) = StoredIn(t)
  BY DEF StoredIn
<1>5. Shaped(u)
  BY <1>3 DEF Fine, Shaped
<1>6. \A i \in DOMAIN u.slots : Confirmed(u, i) <=> i \in DOMAIN t.slots /\ Confirmed(t, i)
  <2> SUFFICES ASSUME NEW i \in 1 .. c
               PROVE  Confirmed(u, i) <=> i \in 1 .. Size(t) /\ Confirmed(t, i)
    BY <1>1, <1>2
  <2>1. CASE i \in 1 .. Size(t)
    <3>1. u.slots[i] = t.slots[i]
      BY <1>2, <2>1
    <3>2. u.slots[i] # 0 => u.slots[i] \in Mapped(u)
      BY <1>2, MappedMeans
    <3> QED BY <2>1, <3>1, <3>2 DEF Confirmed
  <2>2. CASE i \notin 1 .. Size(t)
    BY <1>2, <2>2 DEF Confirmed
  <2> QED BY <2>1, <2>2
<1>7. Ranked(u) /\ Unconfirmed(u) /\ Nested(u) /\ Fits(u)
  <2>1. Ranked(u)
    BY <1>1, <1>2, <1>6 DEF Fine, Ranked
  <2>2. Unconfirmed(u)
    BY <1>1, <1>2, <1>4, <1>6 DEF Fine, Unconfirmed
  <2>3. Nested(u)
    BY DEF Fine, Nested
  <2>4. ASSUME NEW x \in StoredIn(u) PROVE Count(x) + 2 <= Size(u) \/ Count(x) = 1
    <3>1. Count(x) + 2 <= Size(t) \/ Count(x) = 1
      BY <1>4, <2>4 DEF Fine, Fits
    <3>2. Count(x) \in Nat
      BY <1>4, <2>4, CountMeans DEF StoredIn, Fine, Shaped, Stored
    <3> QED BY <1>1, <1>3, <3>1, <3>2
  <2> QED BY <2>1, <2>2, <2>3, <2>4 DEF Fits
<1>8. Small(u)
  <2>1. CASE Size(t) = 0
    <3>1. StoredIn(u) = {} /\ Len(u.islands) = 0
      <4>1. StoredIn(u) = {}
        BY <1>4, <2>1 DEF Fine, Small
      <4> QED BY <4>1, <1>5, NoIslands DEF Shaped
    <3> QED BY <3>1 DEF Small
  <2>2. CASE Size(t) >= 1
    <3>1. c = 0 => FALSE
      BY <1>1, <2>2
    <3>2. c = 1 => Size(t) = 1
      BY <1>1, <2>2
    <3>3. c = 1 => u.slots[1] = t.slots[1]
      BY <3>2, <1>2
    <3> QED BY <1>3, <1>4, <3>1, <3>2, <3>3 DEF Fine, Small
  <2> QED BY <1>1, <2>1, <2>2
<1>9. Keeps(u, t)
  <2>1. \A i \in DOMAIN t.slots : i \in DOMAIN u.slots /\ u.slots[i] = t.slots[i]
    BY <1>1, <1>2
  <2> QED BY <1>3, <1>6, <2>1 DEF Keeps
<1> QED BY <1>1, <1>2, <1>3, <1>5, <1>7, <1>8, <1>9 DEF Fine

\* The count is not below the slots, so it is the logical count.
LEMMA LogicalCount ==
    ASSUME NEW t, Fine(t), NEW c \in Nat, c >= Size(t)
    PROVE  currentLogicalCount(t, c) = c
<1> DEFINE held == {i \in DOMAIN t.slots : t.slots[i] # 0 /\ isAuthoritativeIndex(t, i)}
           all == held \cup {c}
<1>1. Size(t) \in Nat /\ DOMAIN t.slots = 1 .. Size(t)
  BY SlotsOf DEF Fine, Shaped
<1>2. all \subseteq Nat /\ c \in all /\ \A m \in all : m <= c
  BY <1>1
<1>3. currentLogicalCount(t, c) = CHOOSE n \in all : \A m \in all : m <= n
  BY DEF currentLogicalCount
<1> HIDE DEF all
<1>4. \A n \in all : (\A m \in all : m <= n) => n = c
  BY <1>2
<1> QED BY <1>2, <1>3, <1>4

\* Following the count adds empty slots.
LEMMA SyncFine ==
    ASSUME NEW t, Fine(t), NEW c \in Nat, c >= Size(t), NEW u, u = syncLogicalCount(t, c)
    PROVE  /\ Fine(u) /\ Keeps(u, t) /\ Size(u) = c /\ u.islands = t.islands
           /\ \A i \in DOMAIN u.slots : u.slots[i] = IF i \in DOMAIN t.slots THEN t.slots[i] ELSE 0
<1>1. currentLogicalCount(t, c) = c
  BY LogicalCount
<1>2. Size(t) \in Nat /\ DOMAIN t.slots = 1 .. Size(t)
  BY SlotsOf DEF Fine, Shaped
<1>3. CASE c = Size(t)
  <2>1. u = t
    BY <1>1, <1>3 DEF syncLogicalCount
  <2> QED BY <1>2, <1>3, <2>1 DEF Keeps
<1>4. CASE c # Size(t)
  <2> DEFINE v == [slots |-> Grown(t, c), provisional |-> t.provisional, islands |-> t.islands, nav |-> t.nav]
             w == [slots |-> Grown(t, c), provisional |-> t.provisional \cap Mapped(v),
                   islands |-> t.islands, nav |-> t.nav]
  <2>1. u = Pruned(resizeLogicalTail(t, c))
    BY <1>1, <1>4 DEF syncLogicalCount
  <2>2. resizeLogicalTail(t, c) = v
    <3> DEFINE s == Grown(t, c)
    <3>1. resizeLogicalTail(t, c) = [t EXCEPT !.slots = s]
      BY DEF resizeLogicalTail, Grown
    <3> HIDE DEF s
    <3> QED BY <3>1 DEF Fine, Shaped, s
  <2>3. Pruned(v) = w
    <3> DEFINE m == Mapped(v)
    <3>1. Pruned(v) = [v EXCEPT !.provisional = @ \cap m]
      BY DEF Pruned
    <3> HIDE DEF m
    <3>2. Pruned(v) = [slots |-> Grown(t, c), provisional |-> t.provisional \cap m,
                       islands |-> t.islands, nav |-> t.nav]
      BY <3>1
    <3> QED BY <3>2 DEF m
  <2>4. u = w
    BY <2>1, <2>2, <2>3
  <2>5. Mapped(w) = Mapped(v)
    BY DEF Mapped
  <2> HIDE DEF v
  <2>6. /\ u = [slots |-> u.slots, provisional |-> u.provisional, islands |-> u.islands, nav |-> u.nav]
        /\ u.slots = Grown(t, c) /\ u.islands = t.islands
        /\ \A r \in Mapped(u) : r \in u.provisional <=> r \in t.provisional
    BY <2>4, <2>5
  <2> HIDE DEF w
  <2> QED BY <2>6, GrownFine
<1> QED BY <1>3, <1>4

-----------------------------------------------------------------------------
(* The cached tail, and a live reply.                                      *)

\* Empty slots are filled, and unconfirmed ones may be written anew.
LEMMA FilledFine ==
    ASSUME NEW t, Fine(t),
           NEW u, u = [slots |-> u.slots, provisional |-> u.provisional, islands |-> u.islands, nav |-> u.nav],
           u.slots \in Seq(Nat), Len(u.slots) = Len(t.slots), u.islands = t.islands,
           \A i \in DOMAIN t.slots : Confirmed(t, i) => u.slots[i] = t.slots[i] /\ Confirmed(u, i),
           \A i \in DOMAIN t.slots : Confirmed(u, i) =>
                \/ Confirmed(t, i) /\ u.slots[i] = t.slots[i]
                \/ u.slots[i] = i /\ \A x \in StoredIn(t) : i \notin Ids(x),
           Size(t) = 1 /\ t.slots[1] # 0 => u.slots[1] = t.slots[1]
    PROVE  Fine(u) /\ Keeps(u, t) /\ Size(u) = Size(t)
<1>1. Size(t) \in Nat /\ DOMAIN t.slots = 1 .. Size(t) /\ Size(u) = Size(t) /\ DOMAIN u.slots = 1 .. Size(t)
  BY SlotsOf DEF Fine, Shaped, Size
<1>2. StoredIn(u) = StoredIn(t)
  BY DEF StoredIn
<1>3. Shaped(u)
  BY DEF Fine, Shaped
<1>4. Ranked(u)
  BY <1>1 DEF Fine, Ranked
<1>5. Unconfirmed(u)
  BY <1>1, <1>2 DEF Fine, Unconfirmed
<1>6. Nested(u) /\ Fits(u)
  BY <1>1, <1>2 DEF Fine, Nested, Fits
<1>7. Small(u)
  <2>1. ASSUME Size(t) = 1, NEW x \in StoredIn(t) PROVE u.slots[1] = t.slots[1]
    <3>1. Ids(x) = {t.slots[1]} /\ x.lo >= 1 /\ x.lo \in Nat /\ x.hi \in Nat
      BY <2>1 DEF Fine, Small, Shaped, StoredIn, Stored, Windows, Whole
    <3>2. 0 \notin Ids(x)
      BY <3>1 DEF Ids
    <3> QED BY <2>1, <3>1, <3>2
  <2>2. Small(t)
    BY DEF Fine
  <2> QED BY <1>1, <1>2, <2>1, <2>2 DEF Small
<1>8. Keeps(u, t)
  BY <1>1 DEF Keeps
<1> QED BY <1>1, <1>3, <1>4, <1>5, <1>6, <1>7, <1>8 DEF Fine

\* A reply that was not there gets the last slot.
LEMMA LiveFine ==
    ASSUME NEW t, Fine(t), NEW c \in Nat, c > Size(t), \A x \in StoredIn(t) : c \notin Ids(x),
           NEW v, v = syncLogicalCount(t, c), NEW u, u = appendLiveReply(v, c, c)
    PROVE  Fine(u) /\ Keeps(u, t) /\ Size(u) = c /\ u.islands = t.islands
<1>1. /\ Fine(v) /\ Keeps(v, t) /\ Size(v) = c /\ v.islands = t.islands
      /\ \A i \in DOMAIN v.slots : v.slots[i] = IF i \in DOMAIN t.slots THEN t.slots[i] ELSE 0
  <2>1. Size(t) \in Nat
    BY SlotsOf DEF Fine, Shaped
  <2>2. c >= Size(t)
    BY <2>1
  <2> QED BY <2>2, SyncFine
<1>2. CASE c \in Mapped(v)
  <2>1. u = v
    BY <1>2 DEF appendLiveReply
  <2> QED BY <1>1, <2>1
<1>3. CASE c \notin Mapped(v)
  <2>1. /\ DOMAIN v.slots = 1 .. c /\ DOMAIN t.slots = 1 .. Size(t) /\ Size(t) \in Nat /\ c >= 1
        /\ \A i \in 1 .. c : v.slots[i] \in Nat
    <3>1. /\ DOMAIN v.slots = 1 .. Size(v) /\ DOMAIN t.slots = 1 .. Size(t) /\ Size(t) \in Nat
          /\ \A i \in DOMAIN v.slots : v.slots[i] \in Nat
      BY <1>1, SlotsOf DEF Fine, Shaped
    <3> QED BY <1>1, <3>1
  <2>2. c \in DOMAIN v.slots /\ v.slots[c] = 0
    <3>1. c \in 1 .. c /\ c \notin 1 .. Size(t)
      BY <2>1
    <3> QED BY <1>1, <2>1, <3>1
  <2>3. currentLogicalCount(v, c) = c
    <3>1. c >= Size(v)
      BY <1>1
    <3> QED BY <1>1, <3>1, LogicalCount
  <2>4. u = assignExactWindow(v, c, c, c)
    BY <1>1, <1>3, <2>1, <2>2, <2>3 DEF appendLiveReply
  <2> DEFINE slots == [i \in DOMAIN v.slots |->
                IF i >= c /\ i + c <= c + c THEN c + i - c ELSE IF v.slots[i] \in c .. c THEN 0 ELSE v.slots[i]]
  <2>5. u = [slots |-> slots, provisional |-> v.provisional, islands |-> v.islands, nav |-> v.nav]
    <3>1. u = [v EXCEPT !.slots = slots]
      BY <2>4 DEF assignExactWindow
    <3> HIDE DEF slots
    <3> QED BY <1>1, <3>1 DEF Fine, Shaped
  <2>6. \A i \in 1 .. c : slots[i] = IF i = c THEN c ELSE v.slots[i]
    <3> SUFFICES ASSUME NEW i \in 1 .. c PROVE slots[i] = IF i = c THEN c ELSE v.slots[i]
      OBVIOUS
    <3>1. v.slots[i] # c
      BY <1>3, <2>1, MappedMeans
    <3>2. v.slots[i] \notin c .. c
      BY <2>1, <3>1
    <3>3. slots[i] = IF i >= c /\ i + c <= c + c THEN c + i - c ELSE v.slots[i]
      BY <2>1, <3>2
    <3> HIDE DEF slots
    <3> QED BY <2>1, <3>3
  <2>7. slots \in Seq(Nat) /\ Len(slots) = c
    <3>1. DOMAIN slots = 1 .. c
      BY <2>1
    <3>2. slots = [i \in 1 .. c |-> IF i = c THEN c ELSE v.slots[i]]
      BY <2>1, <2>6, <3>1
    <3> HIDE DEF slots
    <3>3. slots \in [1 .. c -> Nat]
      BY <2>1, <3>2
    <3> QED BY <3>3
  <2> HIDE DEF slots
  <2>8. /\ u = [slots |-> u.slots, provisional |-> u.provisional, islands |-> u.islands, nav |-> u.nav]
        /\ u.slots \in Seq(Nat) /\ Len(u.slots) = c /\ u.islands = v.islands /\ u.provisional = v.provisional
        /\ \A i \in 1 .. c : u.slots[i] = IF i = c THEN c ELSE v.slots[i]
    BY <2>5, <2>6, <2>7
  <2>9. Len(v.slots) = c
    BY <1>1 DEF Size
  <2>10. StoredIn(v) = StoredIn(t)
    BY <1>1 DEF StoredIn
  <2>11. \A i \in DOMAIN v.slots : Confirmed(v, i) => u.slots[i] = v.slots[i] /\ Confirmed(u, i)
    BY <2>1, <2>2, <2>8 DEF Confirmed
  <2>12. \A i \in DOMAIN v.slots : Confirmed(u, i) =>
                \/ Confirmed(v, i) /\ u.slots[i] = v.slots[i]
                \/ u.slots[i] = i /\ \A x \in StoredIn(v) : i \notin Ids(x)
    BY <2>1, <2>8, <2>10 DEF Confirmed
  <2>13. Size(v) = 1 /\ v.slots[1] # 0 => u.slots[1] = v.slots[1]
    BY <1>1, <2>2
  <2>14. Fine(u) /\ Keeps(u, v) /\ Size(u) = Size(v)
    BY <1>1, <2>8, <2>9, <2>11, <2>12, <2>13, FilledFine
  <2>15. Keeps(u, t)
    BY <1>1, <2>14, KeepsOn DEF Fine
  <2> QED BY <1>1, <2>8, <2>14, <2>15
<1> QED BY <1>2, <1>3

\* Replies are written without a change of the islands.
Assigned(t, p, first, lo, hi) == assignExactWindow([t EXCEPT !.provisional = p], first, lo, hi)

AssignedAs(u, t, p, first, lo, hi) ==
    /\ u = [slots |-> u.slots, provisional |-> u.provisional, islands |-> u.islands, nav |-> u.nav]
    /\ u.slots = [i \in DOMAIN t.slots |->
                     IF i >= first /\ i + lo <= first + hi THEN lo + i - first
                     ELSE IF t.slots[i] \in lo .. hi THEN 0 ELSE t.slots[i]]
    /\ u.provisional = p /\ u.islands = t.islands

\* The fields of a timeline whose slots are written.
LEMMA AssignFields ==
    ASSUME NEW t, Shaped(t), NEW p, NEW first, NEW lo, NEW hi
    PROVE  AssignedAs(Assigned(t, p, first, lo, hi), t, p, first, lo, hi)
<1> DEFINE v == [t EXCEPT !.provisional = p]
           slots == [i \in DOMAIN t.slots |->
                        IF i >= first /\ i + lo <= first + hi THEN lo + i - first
                        ELSE IF t.slots[i] \in lo .. hi THEN 0 ELSE t.slots[i]]
<1>1. v = [slots |-> t.slots, provisional |-> p, islands |-> t.islands, nav |-> t.nav]
  BY DEF Shaped
<1>2. v.slots = t.slots
  BY <1>1
<1> HIDE DEF v
<1>3. assignExactWindow(v, first, lo, hi) = [v EXCEPT !.slots = slots]
  BY <1>2 DEF assignExactWindow
<1> HIDE DEF slots
<1>4. assignExactWindow(v, first, lo, hi) =
        [slots |-> slots, provisional |-> p, islands |-> t.islands, nav |-> t.nav]
  BY <1>1, <1>3
<1> DEFINE u == assignExactWindow(v, first, lo, hi)
<1> HIDE DEF u
<1>5. u = [slots |-> slots, provisional |-> p, islands |-> t.islands, nav |-> t.nav]
  BY <1>4 DEF u
<1>6. /\ u = [slots |-> u.slots, provisional |-> u.provisional, islands |-> u.islands, nav |-> u.nav]
      /\ u.slots = slots /\ u.provisional = p /\ u.islands = t.islands
  BY <1>5
<1>7. AssignedAs(u, t, p, first, lo, hi)
  BY <1>6 DEF AssignedAs, slots
<1>8. Assigned(t, p, first, lo, hi) = u
  BY DEF Assigned, u, v
<1> QED BY <1>7, <1>8

\* The cached tail is written where nothing contradicts it.
Unopposed(t, first, lo, hi) ==
    \A r \in lo .. hi : /\ ~(r \in Mapped(t) /\ indexOfPost(t, r) # first + (r - lo))
                        /\ t.slots[first + (r - lo)] \in {0, r}

\* The cached tail that is written so confirms nothing.
LEMMA CachedFine ==
    ASSUME NEW t, Fine(t), NEW lo \in Nat, NEW hi \in Nat, 1 <= lo, lo <= hi, hi - lo < Size(t),
           NEW first, first = Size(t) + lo - hi, NEW ids, ids = lo .. hi,
           Unopposed(t, first, lo, hi),
           NEW p, p = t.provisional \cup (ids \ Mapped(t)),
           NEW u, AssignedAs(u, t, p, first, lo, hi)
    PROVE  Fine(u) /\ Keeps(u, t) /\ Size(u) = Size(t) /\ u.islands = t.islands
<1> DEFINE n == Size(t)
           slots == [i \in DOMAIN t.slots |->
                IF i >= first /\ i + lo <= first + hi THEN lo + i - first
                ELSE IF t.slots[i] \in lo .. hi THEN 0 ELSE t.slots[i]]
<1>1. n \in Nat /\ DOMAIN t.slots = 1 .. n /\ (\A i \in DOMAIN t.slots : t.slots[i] \in Nat) /\ Len(t.slots) = n
  BY SlotsOf DEF Fine, Shaped, Size
<1>2. first \in Nat /\ first >= 1 /\ first + hi = n + lo
  BY <1>1
<1>3. /\ u.slots = slots /\ u.provisional = p /\ u.islands = t.islands
      /\ u = [slots |-> u.slots, provisional |-> u.provisional, islands |-> u.islands, nav |-> u.nav]
  BY DEF AssignedAs
<1> HIDE DEF n
<1>4. slots \in Seq(Nat) /\ Len(slots) = n
  <2>1. \A i \in 1 .. n : slots[i] \in Nat
    <3> SUFFICES ASSUME NEW i \in 1 .. n PROVE slots[i] \in Nat
      OBVIOUS
    <3>1. slots[i] = IF i >= first /\ i + lo <= first + hi THEN lo + i - first
                     ELSE IF t.slots[i] \in lo .. hi THEN 0 ELSE t.slots[i]
      BY <1>1
    <3>2. t.slots[i] \in Nat
      BY <1>1
    <3> HIDE DEF slots
    <3> QED BY <1>1, <1>2, <3>1, <3>2
  <2>2. slots = [i \in 1 .. n |-> slots[i]]
    BY <1>1
  <2> HIDE DEF slots
  <2>3. slots \in [1 .. n -> Nat]
    BY <2>1, <2>2
  <2> QED BY <1>1, <2>3
<1>5. \A i \in 1 .. n : slots[i] = IF i >= first /\ i + lo <= first + hi THEN lo + i - first
                                   ELSE IF t.slots[i] \in lo .. hi THEN 0 ELSE t.slots[i]
  BY <1>1
<1> HIDE DEF slots
<1>6. /\ u = [slots |-> u.slots, provisional |-> u.provisional, islands |-> u.islands, nav |-> u.nav]
      /\ u.slots = slots /\ u.islands = t.islands /\ u.provisional = p
  BY <1>3
<1>7. ASSUME NEW i \in 1 .. n, i >= first
      PROVE  /\ lo + i - first \in ids /\ i = first + ((lo + i - first) - lo)
             /\ slots[i] = lo + i - first
             /\ t.slots[i] \in {0, slots[i]}
             /\ slots[i] \in Mapped(t) => t.slots[i] = slots[i]
  <2> DEFINE r == lo + i - first
  <2>1. r \in ids /\ i = first + (r - lo) /\ i + lo <= first + hi
    BY <1>1, <1>2, <1>7
  <2>2. slots[i] = r
    BY <1>5, <1>7, <2>1
  <2> HIDE DEF r
  <2>3. t.slots[i] \in {0, r}
    BY <2>1 DEF Unopposed
  <2>4. r \in Mapped(t) => t.slots[i] = r
    BY <2>1, IndexMeans DEF Unopposed
  <2> QED BY <2>1, <2>2, <2>3, <2>4 DEF r
<1>8. ASSUME NEW i \in 1 .. n, ~(i >= first)
      PROVE  slots[i] = t.slots[i] \/ (slots[i] = 0 /\ t.slots[i] \in ids)
  BY <1>5, <1>8
<1>9. \A i \in DOMAIN t.slots : Confirmed(t, i) => u.slots[i] = t.slots[i] /\ Confirmed(u, i)
  <2> SUFFICES ASSUME NEW i \in 1 .. n, Confirmed(t, i) PROVE u.slots[i] = t.slots[i] /\ Confirmed(u, i)
    BY <1>1
  <2>1. t.slots[i] = i /\ i \in Mapped(t) /\ i \notin p
    BY <1>1, MappedMeans DEF Fine, Ranked, Confirmed
  <2>2. slots[i] = t.slots[i]
    <3>1. CASE i >= first
      BY <1>7, <3>1 DEF Confirmed
    <3>2. CASE ~(i >= first)
      <4>1. ASSUME i \in ids PROVE FALSE
        <5>1. indexOfPost(t, i) = first + (i - lo) /\ t.slots[indexOfPost(t, i)] = i /\ indexOfPost(t, i) \in DOMAIN t.slots
          BY <2>1, <4>1, IndexMeans DEF Unopposed
        <5>2. Confirmed(t, indexOfPost(t, i))
          BY <2>1, <5>1 DEF Confirmed
        <5>3. indexOfPost(t, i) = i
          BY <5>1, <5>2 DEF Fine, Ranked
        <5>4. i - lo >= 0
          BY <4>1, <1>1
        <5> QED BY <1>1, <1>2, <3>2, <5>1, <5>3, <5>4
      <4> QED BY <1>8, <2>1, <3>2, <4>1
    <3> QED BY <3>1, <3>2
  <2> QED BY <1>6, <2>1, <2>2 DEF Confirmed
<1>10. \A i \in DOMAIN t.slots : Confirmed(u, i) => Confirmed(t, i) /\ u.slots[i] = t.slots[i]
  <2> SUFFICES ASSUME NEW i \in 1 .. n, Confirmed(u, i) PROVE Confirmed(t, i) /\ u.slots[i] = t.slots[i]
    BY <1>1
  <2>1. slots[i] # 0 /\ slots[i] \notin p
    BY <1>6 DEF Confirmed
  <2>2. slots[i] = t.slots[i]
    <3>1. CASE i >= first
      <4>1. slots[i] \in Mapped(t)
        BY <1>7, <2>1, <3>1
      <4> QED BY <1>7, <3>1, <4>1
    <3>2. CASE ~(i >= first)
      BY <1>8, <2>1, <3>2
    <3> QED BY <3>1, <3>2
  <2> QED BY <1>6, <2>1, <2>2 DEF Confirmed
<1>11. Size(t) = 1 /\ t.slots[1] # 0 => u.slots[1] = t.slots[1]
  <2> SUFFICES ASSUME n = 1, t.slots[1] # 0 PROVE slots[1] = t.slots[1]
    BY <1>6 DEF n
  <2>1. first = 1 /\ 1 \in 1 .. n
    BY <1>2, <1>1
  <2>2. 1 >= first
    BY <2>1
  <2> QED BY <1>7, <2>1, <2>2
<1>12. Fine(u) /\ Keeps(u, t) /\ Size(u) = Size(t)
  <2>1. u.slots \in Seq(Nat) /\ Len(u.slots) = Len(t.slots)
    BY <1>1, <1>4, <1>6
  <2> QED BY <1>6, <1>9, <1>10, <1>11, <2>1, FilledFine
<1> QED BY <1>6, <1>12

-----------------------------------------------------------------------------
(* ensurePostIndex.                                                        *)

\* An island is added at the end.
LEMMA AppendMeans ==
    ASSUME NEW s, s \in Seq(Stored), NEW z \in Stored
    PROVE  /\ Append(s, z) \in Seq(Stored) /\ Len(Append(s, z)) = Len(s) + 1
           /\ DOMAIN Append(s, z) = 1 .. Len(s) + 1
           /\ \A k \in 1 .. Len(s) : Append(s, z)[k] = s[k]
           /\ Append(s, z)[Len(s) + 1] = z
OBVIOUS

\* The island of a single reply.
LEMMA SingleMeans ==
    ASSUME NEW r \in Nat, r >= 1, NEW i \in Nat
    PROVE  /\ Single(r, i) \in Stored /\ Count(Single(r, i)) = 1 /\ Ids(Single(r, i)) = {r}
           /\ Single(r, i).first = i
<1> DEFINE z == Single(r, i)
<1>1. z \in Windows /\ z.lo = r /\ z.hi = r /\ z.target = r /\ z.first = i /\ ~z.oldest /\ ~z.newest
  BY DEF Single, Windows
<1> HIDE DEF z
<1>2. z \in Stored
  BY <1>1 DEF Stored, Whole
<1>3. Count(z) = 1 /\ Ids(z) = {r}
  BY <1>1 DEF Count, Ids
<1> QED BY <1>1, <1>2, <1>3 DEF z

\* Arithmetic: of two islands in order, the first is not the one that was added.
LEMMA NotLast ==
    ASSUME NEW n \in Nat, NEW k \in 1 .. n + 1, NEW l \in 1 .. n + 1, k < l, l # n + 1
    PROVE  k \in 1 .. n /\ l \in 1 .. n
OBVIOUS

\* The record of a timeline.
Formed(u) == u = [slots |-> u.slots, provisional |-> u.provisional, islands |-> u.islands, nav |-> u.nav]

\* One more island.
Appended(u, t, z) == u.islands = Append(t.islands, z)

\* A slot that may take the reply.
Vacant(t, i, r) == t.slots[i] = 0 \/ (t.slots[i] = r /\ \A x \in StoredIn(t) : r \notin Ids(x))

\* A place is kept for a reply that no island before it has, or whose slot was empty.
LEMMA SinglePlaced ==
    ASSUME NEW t, Fine(t), NEW r \in Nat, r >= 1, NEW i \in DOMAIN t.slots,
           Vacant(t, i, r),
           NEW u, Formed(u), u.slots \in Seq(Nat), Len(u.slots) = Len(t.slots), u.slots[i] = r,
           \A j \in DOMAIN t.slots : j # i => u.slots[j] = t.slots[j],
           \A j \in DOMAIN t.slots : Confirmed(u, j) <=> Confirmed(t, j),
           \A j \in DOMAIN t.slots : Confirmed(u, j) => u.slots[j] # r,
           Appended(u, t, Single(r, i)),
           NEW B, Within(t, B)
    PROVE  Fine(u) /\ Keeps(u, t) /\ Size(u) = Size(t) /\ Within(u, B \cup {r})
<1> DEFINE z == Single(r, i)
           n == Len(t.islands)
<1>1. /\ Size(t) \in Nat /\ DOMAIN t.slots = 1 .. Size(t) /\ Size(u) = Size(t) /\ DOMAIN u.slots = 1 .. Size(t)
      /\ i \in Nat /\ i >= 1 /\ i <= Size(t)
  BY SlotsOf DEF Fine, Shaped, Size
<1>2. z \in Stored /\ Count(z) = 1 /\ Ids(z) = {r} /\ z.first = i
  BY <1>1, SingleMeans
<1> HIDE DEF z
<1>3. t.islands \in Seq(Stored) /\ n \in Nat /\ DOMAIN t.islands = 1 .. n
  BY DEF Fine, Shaped
<1>4. /\ u.islands \in Seq(Stored) /\ Len(u.islands) = n + 1 /\ DOMAIN u.islands = 1 .. n + 1
      /\ \A k \in 1 .. n : u.islands[k] = t.islands[k]
      /\ u.islands[n + 1] = z
  BY <1>2, <1>3, AppendMeans DEF z, Appended
<1> HIDE DEF n
<1>5. StoredIn(u) = StoredIn(t) \cup {z}
  <2>1. \A x \in StoredIn(u) : x \in StoredIn(t) \/ x = z
    <3> SUFFICES ASSUME NEW k \in 1 .. n + 1 PROVE u.islands[k] \in StoredIn(t) \/ u.islands[k] = z
      BY <1>4 DEF StoredIn
    <3>1. CASE k \in 1 .. n
      BY <1>3, <1>4, <3>1 DEF StoredIn
    <3>2. CASE k = n + 1
      BY <1>4, <3>2
    <3> QED BY <1>3, <3>1, <3>2
  <2>2. StoredIn(t) \subseteq StoredIn(u)
    <3> SUFFICES ASSUME NEW k \in 1 .. n PROVE t.islands[k] \in StoredIn(u)
      BY <1>3 DEF StoredIn
    <3>1. k \in 1 .. n + 1
      BY <1>3
    <3> QED BY <1>4, <3>1 DEF StoredIn
  <2>3. z \in StoredIn(u)
    <3>1. n + 1 \in 1 .. n + 1
      BY <1>3
    <3> QED BY <1>4, <3>1 DEF StoredIn
  <2> QED BY <2>1, <2>2, <2>3
<1>6. Shaped(u)
  BY <1>4 DEF Shaped, Formed
<1>7. \A j \in DOMAIN t.slots : Confirmed(t, j) => u.slots[j] = t.slots[j]
  <2> SUFFICES ASSUME NEW j \in DOMAIN t.slots, Confirmed(t, j) PROVE u.slots[j] = t.slots[j]
    OBVIOUS
  <2>1. Confirmed(u, j) /\ u.slots[j] # r
    OBVIOUS
  <2> QED BY <2>1
<1>8. Ranked(u)
  BY <1>1, <1>7 DEF Fine, Ranked
<1>9. Unconfirmed(u)
  <2>1. \A j \in DOMAIN t.slots, x \in StoredIn(t) : Confirmed(u, j) => u.slots[j] \notin Ids(x)
    BY <1>7 DEF Fine, Unconfirmed
  <2>2. \A j \in DOMAIN t.slots : Confirmed(u, j) => u.slots[j] \notin Ids(z)
    BY <1>2
  <2> QED BY <1>1, <1>5, <2>1, <2>2 DEF Unconfirmed
<1>10. Nested(u)
  <2> SUFFICES ASSUME NEW k \in 1 .. n + 1, NEW l \in 1 .. n + 1, k < l
               PROVE  \/ Ids(u.islands[k]) \cap Ids(u.islands[l]) = {}
                      \/ Ids(u.islands[l]) \subseteq Ids(u.islands[k])
    BY <1>4 DEF Nested
  <2>1. CASE l = n + 1
    BY <1>2, <1>4, <2>1
  <2>2. CASE l # n + 1
    <3>1. k \in 1 .. n /\ l \in 1 .. n
      BY <1>3, <2>2, NotLast
    <3> QED BY <1>3, <1>4, <3>1 DEF Fine, Nested
  <2> QED BY <2>1, <2>2
<1>11. Fits(u)
  BY <1>1, <1>2, <1>5 DEF Fine, Fits
<1>12. Small(u)
  <2>1. Size(u) # 0
    BY <1>1
  <2>2. ASSUME Size(u) = 1
        PROVE  Len(u.islands) <= 1 /\ \A x \in StoredIn(u) : Ids(x) = {u.slots[1]} /\ x.first = 1
    <3>1. i = 1
      BY <1>1, <2>2
    <3>2. StoredIn(t) = {}
      <4> SUFFICES ASSUME NEW x \in StoredIn(t) PROVE FALSE
        OBVIOUS
      <4>1. Ids(x) = {t.slots[1]} /\ x.lo >= 1 /\ x.lo \in Nat /\ x.hi \in Nat
        BY <1>1, <2>2 DEF Fine, Small, Shaped, StoredIn, Stored, Windows, Whole
      <4>2. 0 \notin Ids(x)
        BY <4>1 DEF Ids
      <4> QED BY <3>1, <4>1, <4>2 DEF Vacant
    <3>3. n = 0
      BY <1>3, <3>2, NoIslands DEF n
    <3> QED BY <1>2, <1>4, <1>5, <3>1, <3>2, <3>3
  <2> QED BY <2>1, <2>2 DEF Small
<1>13. Keeps(u, t)
  BY <1>1, <1>7 DEF Keeps
<1>14. Within(u, B \cup {r})
  BY <1>2, <1>5 DEF Within
<1> QED BY <1>1, <1>6, <1>8, <1>9, <1>10, <1>11, <1>12, <1>13, <1>14 DEF Fine

\* What the first island with a reply is.
LEMMA IslandNone ==
    ASSUME NEW t, Fine(t), NEW r, islandForPost(t, r) = <<>>
    PROVE  \A x \in StoredIn(t) : r \notin Ids(x)
<1>1. \A z : <<z>> # <<>>
  OBVIOUS
<1>2. \/ \A x \in StoredIn(t) : r \notin Ids(x)
      \/ \E z : islandForPost(t, r) = <<z>>
  BY IslandFor
<1> QED BY <1>1, <1>2, Zenon

\* And when there is one.
LEMMA IslandSome ==
    ASSUME NEW t, Fine(t), NEW r, islandForPost(t, r) # <<>>
    PROVE  islandForPost(t, r)[1] \in StoredIn(t) /\ r \in Ids(islandForPost(t, r)[1])
<1>1. PICK z \in StoredIn(t) : islandForPost(t, r) = <<z>> /\ r \in Ids(z)
  BY IslandFor
<1>2. <<z>>[1] = z
  OBVIOUS
<1> QED BY <1>1, <1>2, Zenon

\* One slot is written.
Put(u, t, i, r) == u.slots = [t.slots EXCEPT ![i] = r]

\* ensurePostIndex: a reply that is there, but unconfirmed.
LEMMA KnownPlaced ==
    ASSUME NEW t, Fine(t), NEW B, Within(t, B), NEW r \in Nat, r >= 1, NEW at, at = indexOfPost(t, r),
           at # 0, r \in t.provisional,
           NEW u, Formed(u), u.slots = t.slots, u.provisional = t.provisional,
           islandForPost(t, r) = <<>> => Appended(u, t, Single(r, at)),
           islandForPost(t, r) # <<>> => u.islands = t.islands
    PROVE  Fine(u) /\ Keeps(u, t) /\ Size(u) = Size(t) /\ Within(u, B \cup {r})
<1>1. r \in Mapped(t)
  BY DEF indexOfPost
<1>2. at \in DOMAIN t.slots /\ t.slots[at] = r
  BY <1>1, IndexMeans
<1>3. u.slots = t.slots /\ u.provisional = t.provisional
  OBVIOUS
<1>4. \A j \in DOMAIN t.slots : Confirmed(u, j) <=> Confirmed(t, j)
  BY <1>3 DEF Confirmed
<1>5. t.slots \in Seq(Nat) /\ Size(t) \in Nat
  BY SlotsOf DEF Fine, Shaped
<1>6. CASE islandForPost(t, r) = <<>>
  <2>1. \A x \in StoredIn(t) : r \notin Ids(x)
    BY <1>6, IslandNone
  <2>2. \A j \in DOMAIN t.slots : Confirmed(u, j) => u.slots[j] # r
    BY <1>3, <1>4 DEF Confirmed
  <2>3. Appended(u, t, Single(r, at)) /\ u.slots \in Seq(Nat) /\ Len(u.slots) = Len(t.slots) /\ u.slots[at] = r
    BY <1>2, <1>3, <1>5, <1>6
  <2>4. Vacant(t, at, r) /\ \A j \in DOMAIN t.slots : j # at => u.slots[j] = t.slots[j]
    BY <1>2, <1>3, <2>1 DEF Vacant
  <2> QED BY <1>2, <1>4, <2>2, <2>3, <2>4, SinglePlaced
<1>7. CASE islandForPost(t, r) # <<>>
  <2>1. u.islands = t.islands /\ StoredIn(u) = StoredIn(t)
    BY <1>7 DEF StoredIn
  <2>2. Within(u, B \cup {r})
    BY <2>1 DEF Within
  <2>3. Len(u.slots) = Len(t.slots) /\ u.slots \in Seq(Nat)
    BY <1>3, <1>5
  <2>4. \A i \in DOMAIN t.slots : Confirmed(t, i) => u.slots[i] = t.slots[i] /\ Confirmed(u, i)
    BY <1>3, <1>4
  <2>5. \A i \in DOMAIN t.slots : Confirmed(u, i) =>
                \/ Confirmed(t, i) /\ u.slots[i] = t.slots[i]
                \/ u.slots[i] = i /\ \A x \in StoredIn(t) : i \notin Ids(x)
    BY <1>3, <1>4
  <2>6. Size(t) = 1 /\ t.slots[1] # 0 => u.slots[1] = t.slots[1]
    BY <1>3
  <2>7. Fine(u) /\ Keeps(u, t) /\ Size(u) = Size(t)
    BY <2>1, <2>3, <2>4, <2>5, <2>6, FilledFine DEF Formed
  <2> QED BY <2>2, <2>7
<1> QED BY <1>6, <1>7

\* And one that is not: its place is an estimate.
LEMMA NewPlaced ==
    ASSUME NEW t, Fine(t), NEW B, Within(t, B), NEW r \in Nat, r >= 1, indexOfPost(t, r) = 0,
           NEW i \in DOMAIN t.slots, t.slots[i] = 0,
           NEW u, Formed(u), Put(u, t, i, r), u.provisional = t.provisional \cup {r},
           Appended(u, t, Single(r, i))
    PROVE  Fine(u) /\ Keeps(u, t) /\ Size(u) = Size(t) /\ Within(u, B \cup {r})
<1> DEFINE slots == u.slots
<1>1. Size(t) \in Nat /\ DOMAIN t.slots = 1 .. Size(t) /\ (\A j \in DOMAIN t.slots : t.slots[j] \in Nat) /\ Len(t.slots) = Size(t)
  BY SlotsOf DEF Fine, Shaped, Size
<1>2. \A j \in DOMAIN t.slots : t.slots[j] # r
  <2>1. r \notin Mapped(t)
    <3> SUFFICES ASSUME r \in Mapped(t) PROVE FALSE
      OBVIOUS
    <3>1. 0 \in DOMAIN t.slots
      BY IndexMeans
    <3> QED BY <1>1, <3>1
  <2> QED BY <2>1, MappedMeans
<1>3. slots \in Seq(Nat) /\ Len(slots) = Len(t.slots) /\ slots[i] = r /\ DOMAIN slots = DOMAIN t.slots
      /\ \A j \in DOMAIN t.slots : j # i => slots[j] = t.slots[j]
  <2>1. slots = [t.slots EXCEPT ![i] = r] /\ t.slots \in Seq(Nat)
    BY DEF Fine, Shaped, Put
  <2> HIDE DEF slots
  <2> QED BY ONLY <2>1, i \in DOMAIN t.slots, r \in Nat
<1>4. u.provisional = t.provisional \cup {r}
  OBVIOUS
<1>5. \A j \in DOMAIN t.slots : Confirmed(u, j) <=> Confirmed(t, j)
  <2> SUFFICES ASSUME NEW j \in DOMAIN t.slots PROVE Confirmed(u, j) <=> Confirmed(t, j)
    OBVIOUS
  <2>1. CASE j = i
    BY <1>3, <1>4, <2>1 DEF Confirmed
  <2>2. CASE j # i
    BY <1>2, <1>3, <1>4, <2>2 DEF Confirmed
  <2> QED BY <2>1, <2>2
<1>6. \A j \in DOMAIN t.slots : Confirmed(u, j) => u.slots[j] # r
  BY <1>4 DEF Confirmed
<1>7. /\ u.slots \in Seq(Nat) /\ Len(u.slots) = Len(t.slots) /\ u.slots[i] = r
      /\ \A j \in DOMAIN t.slots : j # i => u.slots[j] = t.slots[j]
      /\ Vacant(t, i, r)
  BY <1>3 DEF Vacant
<1> HIDE DEF slots
<1> QED BY <1>5, <1>6, <1>7, SinglePlaced

-----------------------------------------------------------------------------
(* Requests, field by field.                                               *)

\* The fields of a request that tell where it goes on from.
Alike(q, r) ==
    /\ RequestShape(q) /\ q.kind = r.kind /\ q.target = r.target /\ q.backward = r.backward
    /\ q.at = r.at /\ q.anchor = r.anchor /\ q.n = r.n /\ q.since = r.since /\ q.fenced = r.fenced

\* Writing the waiters leaves the other fields.
LEMMA WriteWaiters ==
    ASSUME NEW r, RequestShape(r), NEW x, NEW q, q = [r EXCEPT !.waiters = x]
    PROVE  Alike(q, r)
<1>1. q = [kind |-> r.kind, demand |-> r.demand, waiters |-> x, target |-> r.target,
            bootstrap |-> r.bootstrap, backward |-> r.backward, newest |-> r.newest, whole |-> r.whole, at |-> r.at,
            anchor |-> r.anchor, n |-> r.n, epoch |-> r.epoch, generation |-> r.generation,
            since |-> r.since, sent |-> r.sent, fenced |-> r.fenced]
  BY DEF RequestShape
<1>2. /\ q.kind = r.kind /\ q.target = r.target /\ q.backward = r.backward /\ q.at = r.at /\ q.anchor = r.anchor /\ q.n = r.n /\ q.since = r.since /\ q.fenced = r.fenced
      /\ q = [kind |-> q.kind, demand |-> q.demand, waiters |-> q.waiters, target |-> q.target, bootstrap |-> q.bootstrap, backward |-> q.backward, newest |-> q.newest, whole |-> q.whole, at |-> q.at, anchor |-> q.anchor, n |-> q.n, epoch |-> q.epoch, generation |-> q.generation, since |-> q.since, sent |-> q.sent, fenced |-> q.fenced]
  BY ONLY <1>1
<1> QED BY <1>2 DEF RequestShape, Alike

\* The same of bootstrap.
LEMMA WriteBootstrap ==
    ASSUME NEW r, RequestShape(r), NEW x, NEW q, q = [r EXCEPT !.bootstrap = x]
    PROVE  Alike(q, r)
<1>1. q = [kind |-> r.kind, demand |-> r.demand, waiters |-> r.waiters, target |-> r.target,
            bootstrap |-> x, backward |-> r.backward, newest |-> r.newest, whole |-> r.whole, at |-> r.at,
            anchor |-> r.anchor, n |-> r.n, epoch |-> r.epoch, generation |-> r.generation,
            since |-> r.since, sent |-> r.sent, fenced |-> r.fenced]
  BY DEF RequestShape
<1>2. /\ q.kind = r.kind /\ q.target = r.target /\ q.backward = r.backward /\ q.at = r.at /\ q.anchor = r.anchor /\ q.n = r.n /\ q.since = r.since /\ q.fenced = r.fenced
      /\ q = [kind |-> q.kind, demand |-> q.demand, waiters |-> q.waiters, target |-> q.target, bootstrap |-> q.bootstrap, backward |-> q.backward, newest |-> q.newest, whole |-> q.whole, at |-> q.at, anchor |-> q.anchor, n |-> q.n, epoch |-> q.epoch, generation |-> q.generation, since |-> q.since, sent |-> q.sent, fenced |-> q.fenced]
  BY ONLY <1>1
<1> QED BY <1>2 DEF RequestShape, Alike

\* The same of newest.
LEMMA WriteNewest ==
    ASSUME NEW r, RequestShape(r), NEW x, NEW q, q = [r EXCEPT !.newest = x]
    PROVE  Alike(q, r)
<1>1. q = [kind |-> r.kind, demand |-> r.demand, waiters |-> r.waiters, target |-> r.target,
            bootstrap |-> r.bootstrap, backward |-> r.backward, newest |-> x, whole |-> r.whole, at |-> r.at,
            anchor |-> r.anchor, n |-> r.n, epoch |-> r.epoch, generation |-> r.generation,
            since |-> r.since, sent |-> r.sent, fenced |-> r.fenced]
  BY DEF RequestShape
<1>2. /\ q.kind = r.kind /\ q.target = r.target /\ q.backward = r.backward /\ q.at = r.at /\ q.anchor = r.anchor /\ q.n = r.n /\ q.since = r.since /\ q.fenced = r.fenced
      /\ q = [kind |-> q.kind, demand |-> q.demand, waiters |-> q.waiters, target |-> q.target, bootstrap |-> q.bootstrap, backward |-> q.backward, newest |-> q.newest, whole |-> q.whole, at |-> q.at, anchor |-> q.anchor, n |-> q.n, epoch |-> q.epoch, generation |-> q.generation, since |-> q.since, sent |-> q.sent, fenced |-> q.fenced]
  BY ONLY <1>1
<1> QED BY <1>2 DEF RequestShape, Alike

\* The same of whole.
LEMMA WriteWhole ==
    ASSUME NEW r, RequestShape(r), NEW x, NEW q, q = [r EXCEPT !.whole = x]
    PROVE  Alike(q, r)
<1>1. q = [kind |-> r.kind, demand |-> r.demand, waiters |-> r.waiters, target |-> r.target,
            bootstrap |-> r.bootstrap, backward |-> r.backward, newest |-> r.newest, whole |-> x, at |-> r.at,
            anchor |-> r.anchor, n |-> r.n, epoch |-> r.epoch, generation |-> r.generation,
            since |-> r.since, sent |-> r.sent, fenced |-> r.fenced]
  BY DEF RequestShape
<1>2. /\ q.kind = r.kind /\ q.target = r.target /\ q.backward = r.backward /\ q.at = r.at /\ q.anchor = r.anchor /\ q.n = r.n /\ q.since = r.since /\ q.fenced = r.fenced
      /\ q = [kind |-> q.kind, demand |-> q.demand, waiters |-> q.waiters, target |-> q.target, bootstrap |-> q.bootstrap, backward |-> q.backward, newest |-> q.newest, whole |-> q.whole, at |-> q.at, anchor |-> q.anchor, n |-> q.n, epoch |-> q.epoch, generation |-> q.generation, since |-> q.since, sent |-> q.sent, fenced |-> q.fenced]
  BY ONLY <1>1
<1> QED BY <1>2 DEF RequestShape, Alike

\* The same of epoch.
LEMMA WriteEpoch ==
    ASSUME NEW r, RequestShape(r), NEW x, NEW q, q = [r EXCEPT !.epoch = x]
    PROVE  Alike(q, r)
<1>1. q = [kind |-> r.kind, demand |-> r.demand, waiters |-> r.waiters, target |-> r.target,
            bootstrap |-> r.bootstrap, backward |-> r.backward, newest |-> r.newest, whole |-> r.whole, at |-> r.at,
            anchor |-> r.anchor, n |-> r.n, epoch |-> x, generation |-> r.generation,
            since |-> r.since, sent |-> r.sent, fenced |-> r.fenced]
  BY DEF RequestShape
<1>2. /\ q.kind = r.kind /\ q.target = r.target /\ q.backward = r.backward /\ q.at = r.at /\ q.anchor = r.anchor /\ q.n = r.n /\ q.since = r.since /\ q.fenced = r.fenced
      /\ q = [kind |-> q.kind, demand |-> q.demand, waiters |-> q.waiters, target |-> q.target, bootstrap |-> q.bootstrap, backward |-> q.backward, newest |-> q.newest, whole |-> q.whole, at |-> q.at, anchor |-> q.anchor, n |-> q.n, epoch |-> q.epoch, generation |-> q.generation, since |-> q.since, sent |-> q.sent, fenced |-> q.fenced]
  BY ONLY <1>1
<1> QED BY <1>2 DEF RequestShape, Alike

\* The same of generation.
LEMMA WriteGeneration ==
    ASSUME NEW r, RequestShape(r), NEW x, NEW q, q = [r EXCEPT !.generation = x]
    PROVE  Alike(q, r)
<1>1. q = [kind |-> r.kind, demand |-> r.demand, waiters |-> r.waiters, target |-> r.target,
            bootstrap |-> r.bootstrap, backward |-> r.backward, newest |-> r.newest, whole |-> r.whole, at |-> r.at,
            anchor |-> r.anchor, n |-> r.n, epoch |-> r.epoch, generation |-> x,
            since |-> r.since, sent |-> r.sent, fenced |-> r.fenced]
  BY DEF RequestShape
<1>2. /\ q.kind = r.kind /\ q.target = r.target /\ q.backward = r.backward /\ q.at = r.at /\ q.anchor = r.anchor /\ q.n = r.n /\ q.since = r.since /\ q.fenced = r.fenced
      /\ q = [kind |-> q.kind, demand |-> q.demand, waiters |-> q.waiters, target |-> q.target, bootstrap |-> q.bootstrap, backward |-> q.backward, newest |-> q.newest, whole |-> q.whole, at |-> q.at, anchor |-> q.anchor, n |-> q.n, epoch |-> q.epoch, generation |-> q.generation, since |-> q.since, sent |-> q.sent, fenced |-> q.fenced]
  BY ONLY <1>1
<1> QED BY <1>2 DEF RequestShape, Alike

\* The same of sent.
LEMMA WriteSent ==
    ASSUME NEW r, RequestShape(r), NEW x, NEW q, q = [r EXCEPT !.sent = x]
    PROVE  Alike(q, r)
<1>1. q = [kind |-> r.kind, demand |-> r.demand, waiters |-> r.waiters, target |-> r.target,
            bootstrap |-> r.bootstrap, backward |-> r.backward, newest |-> r.newest, whole |-> r.whole, at |-> r.at,
            anchor |-> r.anchor, n |-> r.n, epoch |-> r.epoch, generation |-> r.generation,
            since |-> r.since, sent |-> x, fenced |-> r.fenced]
  BY DEF RequestShape
<1>2. /\ q.kind = r.kind /\ q.target = r.target /\ q.backward = r.backward /\ q.at = r.at /\ q.anchor = r.anchor /\ q.n = r.n /\ q.since = r.since /\ q.fenced = r.fenced
      /\ q = [kind |-> q.kind, demand |-> q.demand, waiters |-> q.waiters, target |-> q.target, bootstrap |-> q.bootstrap, backward |-> q.backward, newest |-> q.newest, whole |-> q.whole, at |-> q.at, anchor |-> q.anchor, n |-> q.n, epoch |-> q.epoch, generation |-> q.generation, since |-> q.since, sent |-> q.sent, fenced |-> q.fenced]
  BY ONLY <1>1
<1> QED BY <1>2 DEF RequestShape, Alike

\* The same of target.
LEMMA WriteTarget ==
    ASSUME NEW r, RequestShape(r), NEW x, NEW q, q = [r EXCEPT !.target = x]
    PROVE  /\ RequestShape(q) /\ q.target = x
           /\ q.kind = r.kind /\ q.backward = r.backward /\ q.at = r.at /\ q.anchor = r.anchor /\ q.n = r.n /\ q.since = r.since /\ q.fenced = r.fenced
<1>1. q = [kind |-> r.kind, demand |-> r.demand, waiters |-> r.waiters, target |-> x,
            bootstrap |-> r.bootstrap, backward |-> r.backward, newest |-> r.newest, whole |-> r.whole, at |-> r.at,
            anchor |-> r.anchor, n |-> r.n, epoch |-> r.epoch, generation |-> r.generation,
            since |-> r.since, sent |-> r.sent, fenced |-> r.fenced]
  BY DEF RequestShape
<1>2. /\ q.kind = r.kind /\ q.target = x /\ q.backward = r.backward /\ q.at = r.at /\ q.anchor = r.anchor /\ q.n = r.n /\ q.since = r.since /\ q.fenced = r.fenced
      /\ q = [kind |-> q.kind, demand |-> q.demand, waiters |-> q.waiters, target |-> q.target, bootstrap |-> q.bootstrap, backward |-> q.backward, newest |-> q.newest, whole |-> q.whole, at |-> q.at, anchor |-> q.anchor, n |-> q.n, epoch |-> q.epoch, generation |-> q.generation, since |-> q.since, sent |-> q.sent, fenced |-> q.fenced]
  BY ONLY <1>1
<1> QED BY <1>2 DEF RequestShape

\* The same of backward.
LEMMA WriteBackward ==
    ASSUME NEW r, RequestShape(r), NEW x, NEW q, q = [r EXCEPT !.backward = x]
    PROVE  /\ RequestShape(q) /\ q.backward = x
           /\ q.kind = r.kind /\ q.target = r.target /\ q.at = r.at /\ q.anchor = r.anchor /\ q.n = r.n /\ q.since = r.since /\ q.fenced = r.fenced
<1>1. q = [kind |-> r.kind, demand |-> r.demand, waiters |-> r.waiters, target |-> r.target,
            bootstrap |-> r.bootstrap, backward |-> x, newest |-> r.newest, whole |-> r.whole, at |-> r.at,
            anchor |-> r.anchor, n |-> r.n, epoch |-> r.epoch, generation |-> r.generation,
            since |-> r.since, sent |-> r.sent, fenced |-> r.fenced]
  BY DEF RequestShape
<1>2. /\ q.kind = r.kind /\ q.target = r.target /\ q.backward = x /\ q.at = r.at /\ q.anchor = r.anchor /\ q.n = r.n /\ q.since = r.since /\ q.fenced = r.fenced
      /\ q = [kind |-> q.kind, demand |-> q.demand, waiters |-> q.waiters, target |-> q.target, bootstrap |-> q.bootstrap, backward |-> q.backward, newest |-> q.newest, whole |-> q.whole, at |-> q.at, anchor |-> q.anchor, n |-> q.n, epoch |-> q.epoch, generation |-> q.generation, since |-> q.since, sent |-> q.sent, fenced |-> q.fenced]
  BY ONLY <1>1
<1> QED BY <1>2 DEF RequestShape

\* The same of the slot.
LEMMA WriteAt ==
    ASSUME NEW r, RequestShape(r), NEW x, NEW q, q = [r EXCEPT !.at = x]
    PROVE  /\ RequestShape(q) /\ q.at = x
           /\ q.kind = r.kind /\ q.target = r.target /\ q.backward = r.backward /\ q.anchor = r.anchor /\ q.n = r.n /\ q.since = r.since /\ q.fenced = r.fenced
<1>1. q = [kind |-> r.kind, demand |-> r.demand, waiters |-> r.waiters, target |-> r.target,
            bootstrap |-> r.bootstrap, backward |-> r.backward, newest |-> r.newest, whole |-> r.whole, at |-> x,
            anchor |-> r.anchor, n |-> r.n, epoch |-> r.epoch, generation |-> r.generation,
            since |-> r.since, sent |-> r.sent, fenced |-> r.fenced]
  BY DEF RequestShape
<1>2. /\ q.kind = r.kind /\ q.target = r.target /\ q.backward = r.backward /\ q.at = x /\ q.anchor = r.anchor /\ q.n = r.n /\ q.since = r.since /\ q.fenced = r.fenced
      /\ q = [kind |-> q.kind, demand |-> q.demand, waiters |-> q.waiters, target |-> q.target, bootstrap |-> q.bootstrap, backward |-> q.backward, newest |-> q.newest, whole |-> q.whole, at |-> q.at, anchor |-> q.anchor, n |-> q.n, epoch |-> q.epoch, generation |-> q.generation, since |-> q.since, sent |-> q.sent, fenced |-> q.fenced]
  BY ONLY <1>1
<1> QED BY <1>2 DEF RequestShape

\* The same of anchor.
LEMMA WriteAnchor ==
    ASSUME NEW r, RequestShape(r), NEW x, NEW q, q = [r EXCEPT !.anchor = x]
    PROVE  /\ RequestShape(q) /\ q.anchor = x
           /\ q.kind = r.kind /\ q.target = r.target /\ q.backward = r.backward /\ q.at = r.at /\ q.n = r.n /\ q.since = r.since /\ q.fenced = r.fenced
<1>1. q = [kind |-> r.kind, demand |-> r.demand, waiters |-> r.waiters, target |-> r.target,
            bootstrap |-> r.bootstrap, backward |-> r.backward, newest |-> r.newest, whole |-> r.whole, at |-> r.at,
            anchor |-> x, n |-> r.n, epoch |-> r.epoch, generation |-> r.generation,
            since |-> r.since, sent |-> r.sent, fenced |-> r.fenced]
  BY DEF RequestShape
<1>2. /\ q.kind = r.kind /\ q.target = r.target /\ q.backward = r.backward /\ q.at = r.at /\ q.anchor = x /\ q.n = r.n /\ q.since = r.since /\ q.fenced = r.fenced
      /\ q = [kind |-> q.kind, demand |-> q.demand, waiters |-> q.waiters, target |-> q.target, bootstrap |-> q.bootstrap, backward |-> q.backward, newest |-> q.newest, whole |-> q.whole, at |-> q.at, anchor |-> q.anchor, n |-> q.n, epoch |-> q.epoch, generation |-> q.generation, since |-> q.since, sent |-> q.sent, fenced |-> q.fenced]
  BY ONLY <1>1
<1> QED BY <1>2 DEF RequestShape

\* The same of the number.
LEMMA WriteN ==
    ASSUME NEW r, RequestShape(r), NEW x, NEW q, q = [r EXCEPT !.n = x]
    PROVE  /\ RequestShape(q) /\ q.n = x
           /\ q.kind = r.kind /\ q.target = r.target /\ q.backward = r.backward /\ q.at = r.at /\ q.anchor = r.anchor /\ q.since = r.since /\ q.fenced = r.fenced
<1>1. q = [kind |-> r.kind, demand |-> r.demand, waiters |-> r.waiters, target |-> r.target,
            bootstrap |-> r.bootstrap, backward |-> r.backward, newest |-> r.newest, whole |-> r.whole, at |-> r.at,
            anchor |-> r.anchor, n |-> x, epoch |-> r.epoch, generation |-> r.generation,
            since |-> r.since, sent |-> r.sent, fenced |-> r.fenced]
  BY DEF RequestShape
<1>2. /\ q.kind = r.kind /\ q.target = r.target /\ q.backward = r.backward /\ q.at = r.at /\ q.anchor = r.anchor /\ q.n = x /\ q.since = r.since /\ q.fenced = r.fenced
      /\ q = [kind |-> q.kind, demand |-> q.demand, waiters |-> q.waiters, target |-> q.target, bootstrap |-> q.bootstrap, backward |-> q.backward, newest |-> q.newest, whole |-> q.whole, at |-> q.at, anchor |-> q.anchor, n |-> q.n, epoch |-> q.epoch, generation |-> q.generation, since |-> q.since, sent |-> q.sent, fenced |-> q.fenced]
  BY ONLY <1>1
<1> QED BY <1>2 DEF RequestShape

\* The same of since.
LEMMA WriteSince ==
    ASSUME NEW r, RequestShape(r), NEW x, NEW q, q = [r EXCEPT !.since = x]
    PROVE  /\ RequestShape(q) /\ q.since = x
           /\ q.kind = r.kind /\ q.target = r.target /\ q.backward = r.backward /\ q.at = r.at /\ q.anchor = r.anchor /\ q.n = r.n /\ q.fenced = r.fenced
<1>1. q = [kind |-> r.kind, demand |-> r.demand, waiters |-> r.waiters, target |-> r.target,
            bootstrap |-> r.bootstrap, backward |-> r.backward, newest |-> r.newest, whole |-> r.whole, at |-> r.at,
            anchor |-> r.anchor, n |-> r.n, epoch |-> r.epoch, generation |-> r.generation,
            since |-> x, sent |-> r.sent, fenced |-> r.fenced]
  BY DEF RequestShape
<1>2. /\ q.kind = r.kind /\ q.target = r.target /\ q.backward = r.backward /\ q.at = r.at /\ q.anchor = r.anchor /\ q.n = r.n /\ q.since = x /\ q.fenced = r.fenced
      /\ q = [kind |-> q.kind, demand |-> q.demand, waiters |-> q.waiters, target |-> q.target, bootstrap |-> q.bootstrap, backward |-> q.backward, newest |-> q.newest, whole |-> q.whole, at |-> q.at, anchor |-> q.anchor, n |-> q.n, epoch |-> q.epoch, generation |-> q.generation, since |-> q.since, sent |-> q.sent, fenced |-> q.fenced]
  BY ONLY <1>1
<1> QED BY <1>2 DEF RequestShape

\* The same of fenced.
LEMMA WriteFenced ==
    ASSUME NEW r, RequestShape(r), NEW x, NEW q, q = [r EXCEPT !.fenced = x]
    PROVE  /\ RequestShape(q) /\ q.fenced = x
           /\ q.kind = r.kind /\ q.target = r.target /\ q.backward = r.backward /\ q.at = r.at /\ q.anchor = r.anchor /\ q.n = r.n /\ q.since = r.since
<1>1. q = [kind |-> r.kind, demand |-> r.demand, waiters |-> r.waiters, target |-> r.target,
            bootstrap |-> r.bootstrap, backward |-> r.backward, newest |-> r.newest, whole |-> r.whole, at |-> r.at,
            anchor |-> r.anchor, n |-> r.n, epoch |-> r.epoch, generation |-> r.generation,
            since |-> r.since, sent |-> r.sent, fenced |-> x]
  BY DEF RequestShape
<1>2. /\ q.kind = r.kind /\ q.target = r.target /\ q.backward = r.backward /\ q.at = r.at /\ q.anchor = r.anchor /\ q.n = r.n /\ q.since = r.since /\ q.fenced = x
      /\ q = [kind |-> q.kind, demand |-> q.demand, waiters |-> q.waiters, target |-> q.target, bootstrap |-> q.bootstrap, backward |-> q.backward, newest |-> q.newest, whole |-> q.whole, at |-> q.at, anchor |-> q.anchor, n |-> q.n, epoch |-> q.epoch, generation |-> q.generation, since |-> q.since, sent |-> q.sent, fenced |-> q.fenced]
  BY ONLY <1>1
<1> QED BY <1>2 DEF RequestShape

\* The requests that are sent.
PageLike(r, b, a, m, k) ==
    RequestShape(r) /\ r.kind = "page" /\ r.backward = b /\ r.at = a /\ r.anchor = m /\ r.n = k /\ r.since = server
SeekLike(r, a) ==
    RequestShape(r) /\ r.kind = "seek" /\ r.at = a /\ r.anchor = 0 /\ r.n = 0 /\ r.since = server
IslandLike(r, t, m, k) ==
    RequestShape(r) /\ r.kind = "island" /\ r.target = t /\ r.at = 0 /\ r.anchor = m /\ r.n = k /\ r.since = server
ValidateLike(r) ==
    RequestShape(r) /\ r.kind = "validate" /\ r.at = 0 /\ r.anchor = 0 /\ r.n = 0 /\ r.since = server
TurnLike(r) ==
    RequestShape(r) /\ r.kind = "continue" /\ r.at = 0 /\ r.anchor = 0 /\ r.n = 0 /\ r.since = 0 /\ r.fenced

\* A new request by its fields.
LEMMA AskLike ==
    ASSUME NEW kind, NEW id, NEW r, r = Ask(kind, id)
    PROVE  /\ RequestShape(r) /\ r.kind = kind /\ r.at = 0 /\ r.anchor = 0 /\ r.n = 0 /\ r.since = server
BY DEF Ask, RequestShape

\* A page by its fields.
LEMMA PageSent ==
    ASSUME NEW id, NEW b, NEW c, NEW a, NEW m, NEW k
    PROVE  PageLike([Ask("page", id) EXCEPT !.backward = b, !.newest = c, !.at = a, !.anchor = m, !.n = k], b, a, m, k)
<1> DEFINE new == [Ask("page", id) EXCEPT !.backward = b, !.newest = c, !.at = a, !.anchor = m, !.n = k]
           new0 == Ask("page", id)
           new1 == [new0 EXCEPT !.backward = b]
           new2 == [new1 EXCEPT !.newest = c]
           new3 == [new2 EXCEPT !.at = a]
           new4 == [new3 EXCEPT !.anchor = m]
           new5 == [new4 EXCEPT !.n = k]
<1>1. new = new5
  BY DEF Ask
<1> HIDE DEF new
<1>2. RequestShape(new0) /\ new0.kind = "page" /\ new0.at = 0 /\ new0.anchor = 0 /\ new0.n = 0 /\ new0.since = server
  BY AskLike
<1> HIDE DEF new0
<1>3. RequestShape(new1) /\ new1.kind = "page" /\ new1.at = 0 /\ new1.anchor = 0 /\ new1.n = 0 /\ new1.since = server /\ new1.backward = b
  BY <1>2, WriteBackward DEF Alike
<1> HIDE DEF new1
<1>4. RequestShape(new2) /\ new2.kind = "page" /\ new2.at = 0 /\ new2.anchor = 0 /\ new2.n = 0 /\ new2.since = server /\ new2.backward = b
  BY <1>3, WriteNewest DEF Alike
<1> HIDE DEF new2
<1>5. RequestShape(new3) /\ new3.kind = "page" /\ new3.at = a /\ new3.anchor = 0 /\ new3.n = 0 /\ new3.since = server /\ new3.backward = b
  BY <1>4, WriteAt DEF Alike
<1> HIDE DEF new3
<1>6. RequestShape(new4) /\ new4.kind = "page" /\ new4.at = a /\ new4.anchor = m /\ new4.n = 0 /\ new4.since = server /\ new4.backward = b
  BY <1>5, WriteAnchor DEF Alike
<1> HIDE DEF new4
<1>7. RequestShape(new5) /\ new5.kind = "page" /\ new5.at = a /\ new5.anchor = m /\ new5.n = k /\ new5.since = server /\ new5.backward = b
  BY <1>6, WriteN DEF Alike
<1> HIDE DEF new5
<1>8. PageLike(new, b, a, m, k)
  BY <1>1, <1>7 DEF PageLike
<1> QED BY <1>8 DEF new

\* A seek by its fields.
LEMMA SeekSent ==
    ASSUME NEW id, NEW a, NEW e
    PROVE  SeekLike([Ask("seek", id) EXCEPT !.at = a, !.epoch = e], a)
<1> DEFINE new == [Ask("seek", id) EXCEPT !.at = a, !.epoch = e]
           new0 == Ask("seek", id)
           new1 == [new0 EXCEPT !.at = a]
           new2 == [new1 EXCEPT !.epoch = e]
<1>1. new = new2
  BY DEF Ask
<1> HIDE DEF new
<1>2. RequestShape(new0) /\ new0.kind = "seek" /\ new0.at = 0 /\ new0.anchor = 0 /\ new0.n = 0 /\ new0.since = server
  BY AskLike
<1> HIDE DEF new0
<1>3. RequestShape(new1) /\ new1.kind = "seek" /\ new1.at = a /\ new1.anchor = 0 /\ new1.n = 0 /\ new1.since = server
  BY <1>2, WriteAt DEF Alike
<1> HIDE DEF new1
<1>4. RequestShape(new2) /\ new2.kind = "seek" /\ new2.at = a /\ new2.anchor = 0 /\ new2.n = 0 /\ new2.since = server
  BY <1>3, WriteEpoch DEF Alike
<1> HIDE DEF new2
<1>5. SeekLike(new, a)
  BY <1>1, <1>4 DEF SeekLike
<1> QED BY <1>5 DEF new

\* A load of an island by its fields.
LEMMA IslandSent ==
    ASSUME NEW id, NEW t, NEW e, NEW g, NEW f, NEW b, NEW m, NEW k
    PROVE  IslandLike([Ask("island", id) EXCEPT !.target = t, !.epoch = e, !.generation = g, !.bootstrap = f, !.backward = b, !.anchor = m, !.n = k], t, m, k)
<1> DEFINE new == [Ask("island", id) EXCEPT !.target = t, !.epoch = e, !.generation = g, !.bootstrap = f, !.backward = b, !.anchor = m, !.n = k]
           new0 == Ask("island", id)
           new1 == [new0 EXCEPT !.target = t]
           new2 == [new1 EXCEPT !.epoch = e]
           new3 == [new2 EXCEPT !.generation = g]
           new4 == [new3 EXCEPT !.bootstrap = f]
           new5 == [new4 EXCEPT !.backward = b]
           new6 == [new5 EXCEPT !.anchor = m]
           new7 == [new6 EXCEPT !.n = k]
<1>1. new = new7
  BY DEF Ask
<1> HIDE DEF new
<1>2. RequestShape(new0) /\ new0.kind = "island" /\ new0.at = 0 /\ new0.anchor = 0 /\ new0.n = 0 /\ new0.since = server
  BY AskLike
<1> HIDE DEF new0
<1>3. RequestShape(new1) /\ new1.kind = "island" /\ new1.at = 0 /\ new1.anchor = 0 /\ new1.n = 0 /\ new1.since = server /\ new1.target = t
  BY <1>2, WriteTarget DEF Alike
<1> HIDE DEF new1
<1>4. RequestShape(new2) /\ new2.kind = "island" /\ new2.at = 0 /\ new2.anchor = 0 /\ new2.n = 0 /\ new2.since = server /\ new2.target = t
  BY <1>3, WriteEpoch DEF Alike
<1> HIDE DEF new2
<1>5. RequestShape(new3) /\ new3.kind = "island" /\ new3.at = 0 /\ new3.anchor = 0 /\ new3.n = 0 /\ new3.since = server /\ new3.target = t
  BY <1>4, WriteGeneration DEF Alike
<1> HIDE DEF new3
<1>6. RequestShape(new4) /\ new4.kind = "island" /\ new4.at = 0 /\ new4.anchor = 0 /\ new4.n = 0 /\ new4.since = server /\ new4.target = t
  BY <1>5, WriteBootstrap DEF Alike
<1> HIDE DEF new4
<1>7. RequestShape(new5) /\ new5.kind = "island" /\ new5.at = 0 /\ new5.anchor = 0 /\ new5.n = 0 /\ new5.since = server /\ new5.target = t /\ new5.backward = b
  BY <1>6, WriteBackward DEF Alike
<1> HIDE DEF new5
<1>8. RequestShape(new6) /\ new6.kind = "island" /\ new6.at = 0 /\ new6.anchor = m /\ new6.n = 0 /\ new6.since = server /\ new6.target = t /\ new6.backward = b
  BY <1>7, WriteAnchor DEF Alike
<1> HIDE DEF new6
<1>9. RequestShape(new7) /\ new7.kind = "island" /\ new7.at = 0 /\ new7.anchor = m /\ new7.n = k /\ new7.since = server /\ new7.target = t /\ new7.backward = b
  BY <1>8, WriteN DEF Alike
<1> HIDE DEF new7
<1>10. IslandLike(new, t, m, k)
  BY <1>1, <1>9 DEF IslandLike
<1> QED BY <1>10 DEF new

\* The confirmation of the cached tail by its fields.
LEMMA ValidateSent ==
    ASSUME NEW x
    PROVE  ValidateLike([Ask("validate", 0) EXCEPT !.waiters = {}, !.whole = x])
<1> DEFINE new == [Ask("validate", 0) EXCEPT !.waiters = {}, !.whole = x]
           new0 == Ask("validate", 0)
           new1 == [new0 EXCEPT !.waiters = {}]
           new2 == [new1 EXCEPT !.whole = x]
<1>1. new = new2
  BY DEF Ask
<1> HIDE DEF new
<1>2. RequestShape(new0) /\ new0.kind = "validate" /\ new0.at = 0 /\ new0.anchor = 0 /\ new0.n = 0 /\ new0.since = server
  BY AskLike
<1> HIDE DEF new0
<1>3. RequestShape(new1) /\ new1.kind = "validate" /\ new1.at = 0 /\ new1.anchor = 0 /\ new1.n = 0 /\ new1.since = server
  BY <1>2, WriteWaiters DEF Alike
<1> HIDE DEF new1
<1>4. RequestShape(new2) /\ new2.kind = "validate" /\ new2.at = 0 /\ new2.anchor = 0 /\ new2.n = 0 /\ new2.since = server
  BY <1>3, WriteWhole DEF Alike
<1> HIDE DEF new2
<1>5. ValidateLike(new)
  BY <1>1, <1>4 DEF ValidateLike
<1> QED BY <1>5 DEF new

\* A continuation by its fields.
LEMMA TurnSent ==
    ASSUME NEW d
    PROVE  TurnLike(Turn(d))
<1> DEFINE new == Turn(d)
           new0 == Ask("continue", d.id)
           new1 == [new0 EXCEPT !.since = 0]
           new2 == [new1 EXCEPT !.fenced = TRUE]
<1>1. new = new2
  BY DEF Ask, Turn
<1> HIDE DEF new
<1>2. RequestShape(new0) /\ new0.kind = "continue" /\ new0.at = 0 /\ new0.anchor = 0 /\ new0.n = 0 /\ new0.since = server
  BY AskLike
<1> HIDE DEF new0
<1>3. RequestShape(new1) /\ new1.kind = "continue" /\ new1.at = 0 /\ new1.anchor = 0 /\ new1.n = 0 /\ new1.since = 0
  BY <1>2, WriteSince DEF Alike
<1> HIDE DEF new1
<1>4. RequestShape(new2) /\ new2.kind = "continue" /\ new2.at = 0 /\ new2.anchor = 0 /\ new2.n = 0 /\ new2.since = 0 /\ new2.fenced = TRUE
  BY <1>3, WriteFenced DEF Alike
<1> HIDE DEF new2
<1>5. TurnLike(new)
  BY <1>1, <1>4 DEF TurnLike
<1> QED BY <1>5 DEF new

-----------------------------------------------------------------------------
(* What is under way fits the timeline.                                    *)

\* A request is of a server that had all the root counts, or its root is not taken; a page goes on
\* from a slot, and an island from a reply that is known like all those up to its target.
Fit(r, count, known) ==
    /\ r.at \in Nat /\ r.anchor \in Nat /\ r.n \in Nat /\ r.since \in Nat
    /\ r.anchor <= r.since
    /\ r.fenced \/ r.since >= count
    /\ r.kind = "page" => (r.at = 0 => r.anchor = 0) /\ (r.backward => r.at >= 1)
    /\ r.kind = "island" => /\ r.anchor >= 1 /\ r.target \in Nat
                            /\ r.target .. r.anchor \subseteq known
                            /\ r.anchor .. r.target \subseteq known

\* A demand for slots.
Sited(d) == d.first \in Nat /\ d.last \in Nat

\* All that is under way.
Ready(w, count, known) ==
    /\ \A r \in w.underway : Fit(r, count, known)
    /\ \A d \in w.demands : Sited(d)

\* A timeline and what is counted and known of it.
Timely(t, count, known) ==
    /\ Fine(t) /\ Within(t, known)
    /\ server \in Nat /\ count \in Nat /\ count <= server /\ Size(t) <= server
    /\ \A n \in known : n <= server

\* Demands that finish leave the others ready.
LEMMA FinishReady ==
    ASSUME NEW w, WorkShape(w), NEW ids, NEW count, NEW known, Ready(w, count, known)
    PROVE  Ready(finishDemand(w, ids), count, known)
<1> DEFINE v == finishDemand(w, ids)
           D == {e \in w.demands : e.id \notin ids}
<1>1. v = [demands |-> D, underway |-> w.underway, load |-> w.load]
  BY FinishFields
<1> HIDE DEF v
<1>2. v.demands = D /\ v.underway = w.underway
  BY <1>1
<1>3. Ready(v, count, known)
  BY <1>2 DEF Ready
<1> QED BY <1>3 DEF v

\* A demand is written anew.
LEMMA UpdateReady ==
    ASSUME NEW w, WorkShape(w), NEW d, Sited(d), NEW count, NEW known, Ready(w, count, known)
    PROVE  Ready(Update(w, d), count, known)
<1> DEFINE v == Update(w, d)
           D == {e \in w.demands : e.id \notin {d.id}} \cup {d}
<1>1. v = [demands |-> D, underway |-> w.underway, load |-> w.load]
  BY UpdateFields
<1> HIDE DEF v
<1>2. v.demands = D /\ v.underway = w.underway
  BY <1>1
<1>3. Ready(v, count, known)
  BY <1>2 DEF Ready
<1> QED BY <1>3 DEF v

\* Requests that are alike fit alike.
LEMMA AlikeFit ==
    ASSUME NEW r, NEW q, Alike(q, r), NEW count, NEW known, Fit(r, count, known)
    PROVE  Fit(q, count, known)
BY DEF Alike, Fit

\* A request that fits is sent.
LEMMA SendReady ==
    ASSUME NEW w, WorkShape(w), NEW r, RequestShape(r), NEW count, NEW known,
           Fit(r, count, known), Ready(w, count, known)
    PROVE  Ready(send(w, r), count, known)
<1> DEFINE later == {q.sent + 1 : q \in w.underway} \cup {1}
           n == CHOOSE m \in later : \A k \in later : k <= m
           sent == [r EXCEPT !.sent = n]
           v == send(w, r)
<1>1. v = [demands |-> w.demands, underway |-> w.underway \cup {sent}, load |-> w.load]
  <2> DEFINE U == w.underway \cup {sent}
  <2>1. v = [w EXCEPT !.underway = U]
    BY DEF send
  <2> HIDE DEF U, v
  <2> QED BY <2>1, WorkFields DEF U
<1> HIDE DEF n
<1>2. Alike(sent, r)
  BY WriteSent
<1> HIDE DEF sent
<1>3. Fit(sent, count, known)
  BY <1>2, AlikeFit
<1> HIDE DEF v
<1>4. v.demands = w.demands /\ v.underway = w.underway \cup {sent}
  BY <1>1
<1>5. Ready(v, count, known)
  BY <1>3, <1>4 DEF Ready
<1> QED BY <1>5 DEF v

\* The slots a page goes on from.
LEMMA LeftFound ==
    ASSUME NEW t, NEW from \in Nat, from >= 1,
           NEW left, left = CHOOSE i \in 0 .. (from - 1) :
                 isAuthoritativeIndex(t, i) /\ \A j \in (i + 1) .. (from - 1) : ~isAuthoritativeIndex(t, j)
    PROVE  left \in 0 .. (from - 1) /\ isAuthoritativeIndex(t, left)
<1> DEFINE T == {i \in 0 .. (from - 1) : isAuthoritativeIndex(t, i)}
<1>1. T \subseteq Nat /\ 0 \in T /\ \A n \in T : n <= from
  BY DEF isAuthoritativeIndex
<1>2. PICK m \in T : \A n \in T : n <= m
  <2> HIDE DEF T
  <2>1. T # {}
    BY <1>1
  <2> QED BY <1>1, <2>1, Greatest
<1>3. \A j \in (m + 1) .. (from - 1) : ~isAuthoritativeIndex(t, j)
  <2> SUFFICES ASSUME NEW j \in (m + 1) .. (from - 1), isAuthoritativeIndex(t, j) PROVE FALSE
    OBVIOUS
  <2>1. j \in T /\ j > m
    BY <1>1
  <2> QED BY <1>1, <1>2, <2>1
<1>4. \E i \in 0 .. (from - 1) :
        isAuthoritativeIndex(t, i) /\ \A j \in (i + 1) .. (from - 1) : ~isAuthoritativeIndex(t, j)
  BY <1>2, <1>3
<1> QED BY <1>4

\* And those on the other side.
LEMMA RightFound ==
    ASSUME NEW t, NEW n \in Nat, NEW to \in Nat, to <= n,
           NEW right, right = CHOOSE i \in (to + 1) .. (n + 1) :
                 /\ i = n + 1 \/ isAuthoritativeIndex(t, i)
                 /\ \A j \in (to + 1) .. (i - 1) : ~isAuthoritativeIndex(t, j)
    PROVE  right \in (to + 1) .. (n + 1) /\ (right = n + 1 \/ isAuthoritativeIndex(t, right))
<1> DEFINE T == {i \in (to + 1) .. (n + 1) : i = n + 1 \/ isAuthoritativeIndex(t, i)}
<1>1. T \subseteq Nat /\ n + 1 \in T
  OBVIOUS
<1>2. PICK m \in T : \A k \in T : m <= k
  <2> HIDE DEF T
  <2>1. T # {}
    BY <1>1
  <2> QED BY <1>1, <2>1, Least
<1>3. \A j \in (to + 1) .. (m - 1) : ~isAuthoritativeIndex(t, j)
  <2> SUFFICES ASSUME NEW j \in (to + 1) .. (m - 1), isAuthoritativeIndex(t, j) PROVE FALSE
    OBVIOUS
  <2>1. j \in T /\ j < m
    BY <1>1
  <2> QED BY <1>1, <1>2, <2>1
<1>4. \E i \in (to + 1) .. (n + 1) :
         /\ i = n + 1 \/ isAuthoritativeIndex(t, i)
         /\ \A j \in (to + 1) .. (i - 1) : ~isAuthoritativeIndex(t, j)
  BY <1>2, <1>3
<1> QED BY <1>4

\* The first slot to look at.
LEMMA FromFound ==
    ASSUME NEW missing, missing \subseteq Nat, missing # {},
           NEW from, from = CHOOSE i \in missing : \A j \in missing : i <= j
    PROVE  from \in missing /\ \A j \in missing : from <= j
BY Least

\* The last slot to look at.
LEMMA ToFound ==
    ASSUME NEW missing, NEW from \in Nat, NEW last \in Nat, from <= last, from \in missing,
           \A j \in missing : j <= last,
           NEW to, to = CHOOSE i \in from .. last : from .. i \subseteq missing /\ i + 1 \notin missing
    PROVE  to \in from .. last
<1> DEFINE T == {i \in from .. last : i + 1 \notin missing}
<1>1. T \subseteq Nat /\ last \in T
  OBVIOUS
<1>2. PICK m \in T : \A k \in T : m <= k
  <2> HIDE DEF T
  <2>1. T # {}
    BY <1>1
  <2> QED BY <1>1, <2>1, Least
<1>3. from .. m \subseteq missing
  <2> SUFFICES ASSUME NEW j \in from .. m, j \notin missing PROVE FALSE
    OBVIOUS
  <2>1. j - 1 \in T /\ j - 1 < m /\ m \in Nat
    BY <1>1, <1>2
  <2> QED BY <1>1, <1>2, <2>1
<1>4. \E i \in from .. last : from .. i \subseteq missing /\ i + 1 \notin missing
  BY <1>2, <1>3
<1> QED BY <1>4

\* A demand goes on with other cursors.
LEMMA CursorSited ==
    ASSUME NEW d, DemandShape(d), Sited(d), NEW c, NEW e
    PROVE  Sited([d EXCEPT !.cursors = c, !.expected = e])
<1> DEFINE new == [d EXCEPT !.cursors = c, !.expected = e]
           new1 == [d EXCEPT !.cursors = c]
           new2 == [new1 EXCEPT !.expected = e]
<1>1. new = new2
  BY DEF DemandShape
<1> HIDE DEF new
<1>2. new1 = [id |-> d.id, first |-> d.first, last |-> d.last, generation |-> d.generation,
              target |-> d.target, expected |-> d.expected, seek |-> d.seek, cursors |-> c]
  BY DEF DemandShape
<1> HIDE DEF new1
<1>3. new2 = [id |-> d.id, first |-> d.first, last |-> d.last, generation |-> d.generation,
              target |-> d.target, expected |-> e, seek |-> d.seek, cursors |-> c]
  BY <1>2
<1> HIDE DEF new2
<1>4. new2.first = d.first /\ new2.last = d.last
  BY ONLY <1>3
<1> QED BY <1>1, <1>4 DEF Sited, new

\* A demand goes on with another target.
LEMMA TargetSited ==
    ASSUME NEW d, DemandShape(d), NEW t, NEW f \in Nat, NEW l \in Nat
    PROVE  Sited([d EXCEPT !.target = t, !.first = f, !.last = l])
<1> DEFINE new == [d EXCEPT !.target = t, !.first = f, !.last = l]
           new1 == [d EXCEPT !.target = t]
           new2 == [new1 EXCEPT !.first = f]
           new3 == [new2 EXCEPT !.last = l]
<1>1. new = new3
  BY DEF DemandShape
<1> HIDE DEF new
<1>2. new1 = [id |-> d.id, first |-> d.first, last |-> d.last, generation |-> d.generation,
              target |-> t, expected |-> d.expected, seek |-> d.seek, cursors |-> d.cursors]
  BY DEF DemandShape
<1> HIDE DEF new1
<1>3. new2 = [id |-> d.id, first |-> f, last |-> d.last, generation |-> d.generation,
              target |-> t, expected |-> d.expected, seek |-> d.seek, cursors |-> d.cursors]
  BY <1>2
<1> HIDE DEF new2
<1>4. new3 = [id |-> d.id, first |-> f, last |-> l, generation |-> d.generation,
              target |-> t, expected |-> d.expected, seek |-> d.seek, cursors |-> d.cursors]
  BY <1>3
<1> HIDE DEF new3
<1>5. new3.first = f /\ new3.last = l
  BY ONLY <1>4
<1> QED BY <1>1, <1>5 DEF Sited, new

\* A page that goes on from a confirmed slot.
LEMMA PageFits ==
    ASSUME NEW r, NEW b, NEW a \in Nat, NEW m \in Nat, NEW k \in Nat, PageLike(r, b, a, m, k),
           NEW count \in Nat, NEW known, server \in Nat, count <= server, m <= server,
           a = 0 => m = 0, b => a >= 1
    PROVE  Fit(r, count, known)
BY DEF PageLike, Fit

\* A seek fits any timeline.
LEMMA SeekFits ==
    ASSUME NEW r, NEW a \in Nat, SeekLike(r, a),
           NEW count \in Nat, NEW known, server \in Nat, count <= server
    PROVE  Fit(r, count, known)
BY DEF SeekLike, Fit

\* The larger of two numbers.
LEMMA MaxNat ==
    ASSUME NEW a \in Nat, NEW y \in Int
    PROVE  MaxOf(a, y) \in Nat
BY DEF MaxOf

\* The smaller of two numbers.
LEMMA MinNat ==
    ASSUME NEW a \in Nat, NEW y \in Nat
    PROVE  MinOf(a, y) \in Nat
BY DEF MinOf

\* The size of a page.
LEMMA FetchSize ==
    ASSUME NEW x \in Int
    PROVE  MinOf(MaxFetch, MaxOf(Block, x)) \in Nat /\ Clamp(x, Block, MaxFetch) \in Nat
<1>1. Block \in Nat /\ MaxFetch \in Nat
  BY ThreadPostsAssumption
<1>2. MaxOf(Block, x) \in Nat
  BY <1>1, MaxNat
<1>3. MinOf(x, MaxFetch) \in Int
  BY <1>1 DEF MinOf
<1>4. MaxOf(Block, MinOf(x, MaxFetch)) \in Nat
  BY <1>1, <1>3, MaxNat
<1>5. MinOf(MaxFetch, MaxOf(Block, x)) \in Nat
  BY <1>1, <1>2, MinNat
<1> QED BY <1>4, <1>5 DEF Clamp

\* continueDemand asks for a page, or a seek.
LEMMA SendPageReady ==
    ASSUME NEW w, NEW t, NEW d, Going(w, d), Sited(d), NEW count, NEW known, Timely(t, count, known),
           Ready(w, count, known), NEW from \in Nat, NEW to \in Nat, from >= 1, from <= to, to <= Size(t),
           NEW left \in 0 .. (from - 1), isAuthoritativeIndex(t, left),
           NEW right \in (to + 1) .. (Size(t) + 1), right = Size(t) + 1 \/ isAuthoritativeIndex(t, right),
           NEW middle \in Nat
    PROVE  Ready(sendPage(w, t, d, from, to, left, right, middle), count, known)
<1> DEFINE size == Size(t)
           backward == right - to < from - left
           newest == backward /\ right = size + 1
           at == IF backward THEN right ELSE left
           anchor == IF newest \/ at = 0 THEN 0 ELSE t.slots[at]
           n == MinOf(MaxFetch, MaxOf(Block, IF backward THEN at - from ELSE to - at))
           key == <<backward, newest, anchor>>
           expected == IF backward THEN MaxOf(1, IF at > n THEN at - n ELSE 1)..(at - 1)
                       ELSE (at + 1)..MinOf(size, at + n)
           far == d.seek /\ MinOf(from - left, right - to) > SeekDistance
           place == Clamp(middle, 1, size)
           seek == [Ask("seek", d.id) EXCEPT !.at = place, !.epoch = epoch]
           new == [d EXCEPT !.cursors = d.cursors \cup {key}, !.expected = expected]
           page == [Ask("page", d.id) EXCEPT !.backward = backward, !.newest = newest,
                                             !.at = at, !.anchor = anchor, !.n = n]
<1>1. sendPage(w, t, d, from, to, left, right, middle) =
        IF far THEN send(w, seek)
        ELSE IF key \in d.cursors THEN finishDemand(w, {d.id}) ELSE send(Update(w, new), page)
  BY DEF sendPage
<1>2. size \in Nat /\ DOMAIN t.slots = 1 .. size
  BY SlotsOf DEF Timely, Fine, Shaped
<1>3. /\ count \in Nat /\ server \in Nat /\ count <= server /\ size <= server
      /\ WorkShape(w) /\ DemandShape(d)
  BY DEF Timely, Going, Orderly
<1> HIDE DEF size
<1>4. at \in Nat /\ (backward => at >= 1) /\ (~newest => isAuthoritativeIndex(t, at)) /\ (~newest => at <= size)
  <2>1. right \in Nat /\ left \in Nat /\ right >= 1 /\ left <= size
    BY <1>2 DEF size
  <2>2. right \in (to + 1) .. (size + 1) /\ (right = size + 1 \/ isAuthoritativeIndex(t, right))
    BY DEF size
  <2>3. CASE backward
    <3>1. at = right
      BY <2>3
    <3>2. ~newest => right # size + 1
      BY <2>3
    <3> HIDE DEF backward, newest, at
    <3> QED BY <1>2, <2>1, <2>2, <3>1, <3>2
  <2>4. CASE ~backward
    <3>1. at = left
      BY <2>4
    <3> HIDE DEF backward, newest, at
    <3> QED BY <1>2, <2>1, <2>4, <3>1
  <2> QED BY <2>3, <2>4
<1>5. n \in Nat
  <2> DEFINE x == IF backward THEN at - from ELSE to - at
  <2>1. x \in Int
    BY <1>2 DEF size
  <2> HIDE DEF x
  <2>2. MinOf(MaxFetch, MaxOf(Block, x)) \in Nat
    BY <2>1, FetchSize
  <2> QED BY <2>2 DEF x
<1> HIDE DEF backward, n
<1>6. anchor \in Nat /\ anchor <= server /\ (at = 0 => anchor = 0)
  <2>1. CASE newest \/ at = 0
    <3>1. anchor = 0
      BY <2>1
    <3> HIDE DEF anchor, at, newest
    <3> QED BY <1>3, <3>1
  <2>2. CASE ~newest /\ at # 0
    <3>1. anchor = t.slots[at]
      BY <2>2
    <3>2. isAuthoritativeIndex(t, at) /\ at \in 1 .. size
      <4> HIDE DEF at, newest, anchor
      <4> QED BY <1>2, <1>4, <2>2
    <3> HIDE DEF anchor, at, newest
    <3>3. t.slots[at] = at
      <4>1. Confirmed(t, at)
        BY <1>2, <3>2, AuthoritativeMeans DEF Timely, Fine
      <4> QED BY <1>2, <3>2, <4>1 DEF Timely, Fine, Ranked
    <3> QED BY <1>2, <1>3, <2>2, <3>1, <3>2, <3>3
  <2> QED BY <2>1, <2>2
<1>7. place \in Nat
  <2>1. 1 \in Nat
    OBVIOUS
  <2> QED BY <1>2, <2>1, Clamped
<1> HIDE DEF key, far, expected, place, anchor, at, newest
<1>8. Ready(finishDemand(w, {d.id}), count, known)
  BY <1>3, FinishReady
<1>9. Ready(send(w, seek), count, known)
  <2>1. SeekLike(seek, place)
    BY SeekSent
  <2> HIDE DEF seek
  <2>2. Fit(seek, count, known) /\ RequestShape(seek)
    BY <1>3, <1>7, <2>1, SeekFits DEF SeekLike
  <2> QED BY <1>3, <2>2, SendReady
<1>10. Ready(send(Update(w, new), page), count, known)
  <2>1. Same(new, d) /\ Sited(new)
    BY <1>3, CursorFields, CursorSited
  <2>2. PageLike(page, backward, at, anchor, n)
    BY PageSent
  <2> HIDE DEF new, page
  <2>3. Fit(page, count, known) /\ RequestShape(page)
    <3>1. RequestShape(page)
      BY <2>2 DEF PageLike
    <3> QED BY <1>3, <1>4, <1>5, <1>6, <2>2, <3>1, PageFits
  <2>4. WorkShape(Update(w, new))
    BY <2>1, UpdateGoing DEF Same, Going, Orderly
  <2>5. Ready(Update(w, new), count, known)
    BY <1>3, <2>1, UpdateReady
  <2> QED BY <2>3, <2>4, <2>5, SendReady
<1> QED BY <1>1, <1>8, <1>9, <1>10

\* continueDemand looks for an empty run of slots.
LEMMA ContinueRunReady ==
    ASSUME NEW w, NEW t, NEW d, Going(w, d), Sited(d), NEW count, NEW known, Timely(t, count, known),
           Ready(w, count, known), NEW from \in Nat, NEW to \in Nat, from >= 1, from <= to, to <= Size(t),
           NEW middle \in Nat
    PROVE  Ready(continueRun(w, t, d, from, to, middle), count, known)
<1> DEFINE left == CHOOSE i \in 0..(from - 1) :
                 isAuthoritativeIndex(t, i) /\ \A j \in (i + 1)..(from - 1) : ~isAuthoritativeIndex(t, j)
           right == CHOOSE i \in (to + 1)..(Size(t) + 1) :
                 /\ i = Size(t) + 1 \/ isAuthoritativeIndex(t, i)
                 /\ \A j \in (to + 1)..(i - 1) : ~isAuthoritativeIndex(t, j)
<1>1. continueRun(w, t, d, from, to, middle) = sendPage(w, t, d, from, to, left, right, middle)
  BY DEF continueRun
<1>2. left \in 0 .. (from - 1) /\ isAuthoritativeIndex(t, left)
  BY LeftFound
<1>3. Size(t) \in Nat
  BY SlotsOf DEF Timely, Fine, Shaped
<1>4. right \in (to + 1) .. (Size(t) + 1) /\ (right = Size(t) + 1 \/ isAuthoritativeIndex(t, right))
  BY <1>3, RightFound
<1> HIDE DEF left, right
<1> QED BY <1>1, <1>2, <1>4, SendPageReady

\* A demand without a target.
LEMMA PageDemandReady ==
    ASSUME NEW w, NEW t, NEW d, Going(w, d), Sited(d), NEW count, NEW known, Timely(t, count, known),
           Ready(w, count, known), NEW first \in Nat, NEW last \in Nat, last <= Size(t)
    PROVE  Ready(pageDemand(w, t, d, first, last), count, known)
<1> DEFINE missing == {i \in first..last : ~(isAvailable(t, i) /\ isAuthoritativeIndex(t, i))}
           from == CHOOSE i \in missing : \A j \in missing : i <= j
           to == CHOOSE i \in from..last : from..i \subseteq missing /\ i + 1 \notin missing
           middle == (first + last) \div 2
<1>1. pageDemand(w, t, d, first, last) =
        IF missing = {} THEN finishDemand(w, {d.id}) ELSE continueRun(w, t, d, from, to, middle)
  BY DEF pageDemand
<1>2. missing \subseteq Nat /\ (\A j \in missing : j <= last) /\ 0 \notin missing
  BY DEF isAvailable, isAuthoritativeIndex
<1>3. middle \in Nat
  OBVIOUS
<1>4. Size(t) \in Nat
  BY SlotsOf DEF Timely, Fine, Shaped
<1>5. Ready(finishDemand(w, {d.id}), count, known)
  BY FinishReady DEF Going, Orderly
<1>6. ASSUME missing # {} PROVE Ready(continueRun(w, t, d, from, to, middle), count, known)
  <2> HIDE DEF missing, middle
  <2>1. from \in missing
    BY <1>2, <1>6, FromFound
  <2>2. from \in Nat /\ from >= 1 /\ from <= last
    <3> HIDE DEF from
    <3>1. from \in Nat /\ from # 0 /\ from <= last
      BY <1>2, <2>1
    <3> QED BY <3>1
  <2> HIDE DEF from
  <2>3. to \in from .. last
    BY <1>2, <2>1, <2>2, ToFound
  <2> HIDE DEF to
  <2>4. to \in Nat /\ from <= to /\ to <= Size(t)
    BY <1>4, <2>2, <2>3
  <2> QED BY <1>3, <2>2, <2>4, ContinueRunReady
<1> HIDE DEF missing, from, to, middle
<1> QED BY <1>1, <1>5, <1>6

\* Replies of an interval are known from any of them to any other.
LEMMA Between ==
    ASSUME NEW lo \in Nat, NEW hi \in Nat, NEW a \in lo .. hi, NEW m \in lo .. hi, NEW known, lo .. hi \subseteq known
    PROVE  a .. m \subseteq known /\ m .. a \subseteq known
<1>1. a .. m \subseteq lo .. hi
  OBVIOUS
<1>2. m .. a \subseteq lo .. hi
  OBVIOUS
<1> QED BY <1>1, <1>2

\* A load of an island starts at its target, or at one of its ends.
LEMMA IslandFits ==
    ASSUME NEW t, NEW count, NEW known, Timely(t, count, known), NEW x \in StoredIn(t),
           NEW m, m \in {x.target, x.lo, x.hi}, NEW k \in Nat, NEW r, IslandLike(r, x.target, m, k)
    PROVE  Fit(r, count, known)
<1>1. /\ x.target \in Nat /\ x.lo \in Nat /\ x.hi \in Nat
      /\ 1 <= x.lo /\ x.lo <= x.target /\ x.target <= x.hi
  BY DEF Timely, Fine, Shaped, StoredIn, Stored, Windows, Whole
<1>2. x.lo .. x.hi \subseteq known
  BY DEF Timely, Within, Ids
<1>3. m \in x.lo .. x.hi /\ x.target \in x.lo .. x.hi /\ m \in Nat /\ m >= 1
  BY <1>1
<1>4. x.target .. m \subseteq known /\ m .. x.target \subseteq known
  BY <1>1, <1>2, <1>3, Between
<1>5. m <= server /\ count \in Nat /\ server \in Nat /\ count <= server
  BY <1>2, <1>3 DEF Timely
<1> QED BY <1>1, <1>3, <1>4, <1>5 DEF IslandLike, Fit

\* A demand with a target: its island is loaded, or waited for.
LEMMA IslandDemandReady ==
    ASSUME NEW w, NEW t, NEW d, Going(w, d), Sited(d), NEW count, NEW known, Timely(t, count, known),
           Ready(w, count, known), NEW generation
    PROVE  Ready(islandDemand(w, t, d, generation), count, known)
<1> DEFINE island == islandForPost(t, d.target)[1]
           joined == {r \in w.underway : /\ r.kind = "island" /\ r.demand = w.load /\ r.epoch = epoch
                                         /\ r.target = island.target /\ r.generation = generation}
           backward == island.ready /\ d.first < island.first
           forward == island.ready /\ d.last > LastSlot(island)
           U == (w.underway \ joined) \cup {[r EXCEPT !.waiters = @ \cup {d.id}] : r \in joined}
           joining == [w EXCEPT !.underway = U]
           anchor == IF ~island.ready THEN island.target ELSE IF backward THEN island.lo ELSE island.hi
           n == IF ~island.ready THEN Context
                ELSE Clamp(IF backward THEN island.first - d.first ELSE d.last - LastSlot(island), Block, MaxFetch)
           request == [Ask("island", d.id) EXCEPT
                        !.target = island.target, !.epoch = epoch, !.generation = generation,
                        !.bootstrap = ~island.ready, !.backward = backward, !.anchor = anchor, !.n = n]
<1>1. islandDemand(w, t, d, generation) =
        IF islandForPost(t, d.target) = <<>> THEN finishDemand(w, {d.id})
        ELSE IF joined # {} THEN joining
        ELSE IF island.ready /\ ~backward /\ ~forward THEN finishDemand(w, {d.id})
        ELSE [send(w, request) EXCEPT !.load = d.id]
  BY DEF islandDemand
<1>2. WorkShape(w) /\ \A r \in w.underway : RequestShape(r)
  BY DEF Going, Orderly, RequestsShaped, RequestShaped
<1>3. Ready(finishDemand(w, {d.id}), count, known)
  BY <1>2, FinishReady
<1>4. ASSUME islandForPost(t, d.target) # <<>> PROVE Ready([send(w, request) EXCEPT !.load = d.id], count, known)
  <2>1. island \in StoredIn(t)
    BY <1>4, IslandSome DEF Timely
  <2>2. anchor \in {island.target, island.lo, island.hi}
    <3> HIDE DEF backward, island
    <3> QED OBVIOUS
  <2>3. n \in Nat
    <3> DEFINE x == IF backward THEN island.first - d.first ELSE d.last - LastSlot(island)
    <3>1. island \in Stored
      BY <2>1 DEF Timely, Fine, Shaped, StoredIn
    <3> HIDE DEF island
    <3>2. island.first \in Nat /\ LastSlot(island) \in Int
      BY <3>1 DEF Stored, Windows, LastSlot, Count
    <3>3. x \in Int
      <4> HIDE DEF backward
      <4> QED BY <3>2 DEF Sited
    <3> HIDE DEF x
    <3>4. Clamp(x, Block, MaxFetch) \in Nat
      BY <3>3, FetchSize
    <3>5. Context \in Nat
      BY ThreadPostsAssumption
    <3>6. n = IF ~island.ready THEN Context ELSE Clamp(x, Block, MaxFetch)
      BY DEF x
    <3> HIDE DEF n
    <3> QED BY <3>4, <3>5, <3>6
  <2> HIDE DEF anchor, n, backward, island
  <2>4. IslandLike(request, island.target, anchor, n)
    BY IslandSent
  <2> HIDE DEF request
  <2>5. Fit(request, count, known) /\ RequestShape(request)
    <3>1. RequestShape(request)
      BY <2>4 DEF IslandLike
    <3> QED BY <2>1, <2>2, <2>3, <2>4, <3>1, IslandFits
  <2>6. Ready(send(w, request), count, known)
    BY <1>2, <2>5, SendReady
  <2> DEFINE v == send(w, request)
             u == [v EXCEPT !.load = d.id]
  <2>7. WorkShape(v)
    <3> DEFINE later == {r.sent + 1 : r \in w.underway} \cup {1}
               m == CHOOSE i \in later : \A j \in later : j <= i
               V == w.underway \cup {[request EXCEPT !.sent = m]}
    <3>1. v = [w EXCEPT !.underway = V]
      BY DEF send
    <3> HIDE DEF V, v
    <3>2. v = [demands |-> w.demands, underway |-> V, load |-> w.load]
      BY <1>2, <3>1, WorkFields
    <3> QED BY <3>2 DEF WorkShape
  <2> HIDE DEF v
  <2>8. u = [demands |-> v.demands, underway |-> v.underway, load |-> d.id]
    BY <2>7, WorkFields
  <2> HIDE DEF u
  <2>9. u.demands = v.demands /\ u.underway = v.underway
    BY <2>8
  <2>10. Ready(u, count, known)
    BY <2>6, <2>9 DEF Ready, v
  <2> QED BY <2>10 DEF u, v
<1>5. Ready(joining, count, known)
  <2>1. \A q \in U : Fit(q, count, known)
    <3> SUFFICES ASSUME NEW r \in joined PROVE Fit([r EXCEPT !.waiters = @ \cup {d.id}], count, known)
      BY DEF Ready
    <3> DEFINE x == r.waiters \cup {d.id}
               q == [r EXCEPT !.waiters = x]
    <3>1. r \in w.underway /\ RequestShape(r) /\ Fit(r, count, known)
      BY <1>2 DEF Ready
    <3> HIDE DEF x, joined
    <3>2. Alike(q, r)
      BY <3>1, WriteWaiters
    <3> HIDE DEF q
    <3>3. Fit(q, count, known)
      BY <3>1, <3>2, AlikeFit
    <3> QED BY <3>3 DEF q, x
  <2> HIDE DEF U, joining
  <2>2. joining = [demands |-> w.demands, underway |-> U, load |-> w.load]
    BY <1>2, WorkFields DEF joining
  <2>3. joining.demands = w.demands /\ joining.underway = U
    BY <2>2
  <2> QED BY <2>1, <2>3 DEF Ready
<1> HIDE DEF joined, joining, request, island, backward, forward, U
<1> QED BY <1>1, <1>3, <1>4, <1>5

\* continueDemand sends what fits the timeline.
LEMMA ContinueDemandReady ==
    ASSUME NEW w, NEW t, NEW d, Going(w, d), Sited(d), NEW count, NEW known, Timely(t, count, known),
           Ready(w, count, known), NEW generation
    PROVE  Ready(continueDemand(w, t, d, generation), count, known)
<1> DEFINE confirmed == d.target # 0 /\ d.target \in Mapped(t)
                          /\ isAuthoritativeIndex(t, indexOfPost(t, d.target))
           i == indexOfPost(t, d.target)
           first == IF confirmed THEN IF i > Context THEN i - Context ELSE 0 ELSE d.first
           last == MinOf(Size(t), IF confirmed THEN i + Context ELSE d.last)
           new == [d EXCEPT !.target = 0, !.first = first, !.last = last]
           next == IF confirmed THEN new ELSE d
<1>1. continueDemand(w, t, d, generation) =
        IF d.generation < generation THEN finishDemand(w, {d.id})
        ELSE IF d.target # 0 /\ ~confirmed THEN islandDemand(w, t, d, generation)
        ELSE IF first > last THEN finishDemand(w, {d.id})
        ELSE pageDemand(w, t, next, first, last)
  BY DEF continueDemand
<1>2. WorkShape(w) /\ DemandShape(d) /\ Context \in Nat
  BY ThreadPostsAssumption DEF Going, Orderly
<1>3. Size(t) \in Nat
  BY SlotsOf DEF Timely, Fine, Shaped
<1>4. confirmed => i \in Nat
  <2>1. confirmed => i \in DOMAIN t.slots
    BY IndexMeans
  <2>2. DOMAIN t.slots = 1 .. Size(t)
    BY SlotsOf DEF Timely, Fine, Shaped
  <2> HIDE DEF i, confirmed
  <2> QED BY <1>3, <2>1, <2>2
<1> HIDE DEF i, confirmed
<1>5. first \in Nat
  BY <1>2, <1>4 DEF Sited
<1>6. last \in Nat /\ last <= Size(t)
  <2> DEFINE x == IF confirmed THEN i + Context ELSE d.last
  <2>1. x \in Nat
    BY <1>2, <1>4 DEF Sited
  <2> HIDE DEF x
  <2>2. MinOf(Size(t), x) \in Nat /\ MinOf(Size(t), x) <= Size(t)
    BY <1>3, <2>1 DEF MinOf
  <2> QED BY <2>2 DEF x
<1> HIDE DEF first, last
<1>7. Same(new, d) /\ Sited(new)
  BY <1>2, <1>5, <1>6, TargetFields, TargetSited
<1> HIDE DEF new
<1>8. Going(w, next) /\ Sited(next)
  BY <1>7 DEF Going, Same
<1> HIDE DEF next
<1>9. Ready(finishDemand(w, {d.id}), count, known)
  BY <1>2, FinishReady
<1> QED BY <1>1, <1>5, <1>6, <1>8, <1>9, IslandDemandReady, PageDemandReady

\* More is known, and what was sent stays as fit.
LEMMA MoreKnown ==
    ASSUME NEW w, NEW count, NEW known, NEW more, known \subseteq more, Ready(w, count, known)
    PROVE  Ready(w, count, more)
BY DEF Ready, Fit

\* Other requests are under way.
LEMMA Underway ==
    ASSUME NEW w, WorkShape(w), NEW U, NEW v, v = [w EXCEPT !.underway = U]
    PROVE  WorkShape(v) /\ v.demands = w.demands /\ v.underway = U
<1>1. v = [demands |-> w.demands, underway |-> U, load |-> w.load]
  BY WorkFields
<1>2. v.demands = w.demands /\ v.underway = U /\ v.load = w.load
  BY ONLY <1>1
<1> QED BY ONLY <1>1, <1>2 DEF WorkShape

\* Another load of an island is noted.
LEMMA Loaded ==
    ASSUME NEW w, WorkShape(w), NEW l, NEW v, v = [w EXCEPT !.load = l]
    PROVE  WorkShape(v) /\ v.demands = w.demands /\ v.underway = w.underway
<1>1. v = [demands |-> w.demands, underway |-> w.underway, load |-> l]
  BY WorkFields
<1>2. v.demands = w.demands /\ v.underway = w.underway /\ v.load = l
  BY ONLY <1>1
<1> QED BY ONLY <1>1, <1>2 DEF WorkShape

\* The root an answer brings: of the server at that moment, unless it is out of date.
LEMMA IngestedCount ==
    ASSUME NEW request, NEW held
    PROVE  /\ request.fenced => Ingested(request, held) = root
           /\ ~request.fenced => Ingested(request, held).count = held /\ Ingested(request, held).last = held
BY DEF Ingested

\* The server had at least what an earlier request was answered with.
LEMMA LaterFits ==
    ASSUME NEW r, RequestShape(r), NEW count, NEW known, Fit(r, count, known), NEW held \in Nat,
           NEW x, x = MaxOf(r.since, held), NEW q, q = [r EXCEPT !.since = x],
           NEW c, c = count \/ c = held, count \in Nat
    PROVE  Fit(q, c, known)
<1>1. /\ RequestShape(q) /\ q.since = x
      /\ q.kind = r.kind /\ q.target = r.target /\ q.backward = r.backward /\ q.at = r.at /\ q.anchor = r.anchor /\ q.n = r.n /\ q.fenced = r.fenced
  BY WriteSince
<1>2. r.since \in Nat /\ x \in Nat /\ x >= r.since /\ x >= held
  BY DEF Fit, MaxOf
<1> QED BY <1>1, <1>2 DEF Fit

\* The root in the answer to an earlier request is out of date.
LEMMA EarlierFits ==
    ASSUME NEW r, RequestShape(r), NEW count, NEW known, Fit(r, count, known),
           NEW x, NEW q, q = [r EXCEPT !.fenced = x], r.fenced => x,
           NEW c, x \/ c = count
    PROVE  Fit(q, c, known)
<1>1. /\ RequestShape(q) /\ q.fenced = x
      /\ q.kind = r.kind /\ q.target = r.target /\ q.backward = r.backward /\ q.at = r.at /\ q.anchor = r.anchor /\ q.n = r.n /\ q.since = r.since
  BY WriteFenced
<1> QED BY <1>1 DEF Fit

\* An answer leaves the others fit for what its root counts.
LEMMA DoneReady ==
    ASSUME Orderly(work, {}), root.count \in Nat, Ready(work, root.count, bodies), NEW request \in work.underway,
           NEW held \in Nat
    PROVE  Ready(Done(request, held), Ingested(request, held).count, bodies)
<1> DEFINE Seen(r) == IF r.sent > request.sent THEN [r EXCEPT !.since = MaxOf(@, held)]
                      ELSE [r EXCEPT !.fenced = @ \/ ~request.fenced]
           U == {Seen(r) : r \in work.underway \ {request}}
           v == Done(request, held)
           c == Ingested(request, held).count
<1>1. v = [work EXCEPT !.underway = U]
  BY DEF Done
<1>2. ASSUME NEW r \in work.underway PROVE Fit(Seen(r), c, bodies)
  <2> DEFINE x == MaxOf(r.since, held)
             y == r.fenced \/ ~request.fenced
             later == [r EXCEPT !.since = x]
             earlier == [r EXCEPT !.fenced = y]
  <2>1. RequestShape(r) /\ Fit(r, root.count, bodies)
    BY DEF Orderly, RequestsShaped, RequestShaped, Ready
  <2>2. c = root.count \/ c = held
    BY IngestedCount
  <2>3. y \/ c = root.count
    BY IngestedCount
  <2>4. r.fenced => y
    OBVIOUS
  <2>5. Seen(r) = later \/ Seen(r) = earlier
    OBVIOUS
  <2> HIDE DEF c, y, x, Seen
  <2>6. Fit(later, c, bodies)
    BY <2>1, <2>2, LaterFits DEF x
  <2>7. Fit(earlier, c, bodies)
    BY <2>1, <2>3, <2>4, EarlierFits
  <2> QED BY <2>5, <2>6, <2>7
<1>3. \A q \in U : Fit(q, c, bodies)
  <2> HIDE DEF Seen, c
  <2> QED BY <1>2
<1> HIDE DEF U, v
<1>4. v.demands = work.demands /\ v.underway = U
  BY <1>1, Underway DEF Orderly
<1> QED BY <1>3, <1>4 DEF Ready, v

\* A request that is forgotten leaves the others.
LEMMA ForgetReady ==
    ASSUME Orderly(work, {}), NEW count, NEW known, Ready(work, count, known), NEW request
    PROVE  Ready(Forget(request), count, known) /\ WorkShape(Forget(request))
<1> DEFINE v == Forget(request)
           U == work.underway \ {request}
<1>1. v = [work EXCEPT !.underway = U]
  BY DEF Forget
<1> HIDE DEF v, U
<1>2. WorkShape(v) /\ v.demands = work.demands /\ v.underway = U
  BY <1>1, Underway DEF Orderly
<1>3. Ready(v, count, known)
  BY <1>2 DEF Ready, U
<1> QED BY <1>2, <1>3 DEF v

\* A continuation is scheduled.
LEMMA TurnReady ==
    ASSUME NEW w, WorkShape(w), NEW count, NEW known, Ready(w, count, known), NEW d
    PROVE  Ready([w EXCEPT !.underway = @ \cup {Turn(d)}], count, known)
<1> DEFINE k == Turn(d)
           U == w.underway \cup {k}
           v == [w EXCEPT !.underway = U]
<1>1. Fit(k, count, known)
  <2>1. TurnLike(k)
    BY TurnSent
  <2> HIDE DEF k
  <2> QED BY <2>1 DEF TurnLike, Fit
<1> HIDE DEF k, U, v
<1>2. v.demands = w.demands /\ v.underway = U
  BY Underway DEF v
<1>3. Ready(v, count, known)
  BY <1>1, <1>2 DEF Ready, U
<1> QED BY <1>3 DEF v, U, k

\* The confirmation of the cached tail is sent.
LEMMA ValidateReady ==
    ASSUME NEW w, WorkShape(w), NEW count \in Nat, NEW known, Ready(w, count, known), server \in Nat, count <= server,
           NEW x
    PROVE  Ready(send(w, [Ask("validate", 0) EXCEPT !.waiters = {}, !.whole = x]), count, known)
<1> DEFINE r == [Ask("validate", 0) EXCEPT !.waiters = {}, !.whole = x]
<1>1. ValidateLike(r)
  BY ValidateSent
<1> HIDE DEF r
<1>2. RequestShape(r) /\ Fit(r, count, known)
  BY <1>1 DEF ValidateLike, Fit
<1>3. Ready(send(w, r), count, known)
  BY <1>2, SendReady
<1> QED BY <1>3 DEF r

\* After an event every root under way is out of date.
LEMMA FencedReady ==
    ASSUME Orderly(work, {}), NEW count, NEW known, Ready(work, count, known), NEW c,
           NEW v, v = [work EXCEPT !.underway = {[q EXCEPT !.fenced = TRUE] : q \in @}]
    PROVE  Ready(v, c, known)
<1> DEFINE U == {[q EXCEPT !.fenced = TRUE] : q \in work.underway}
<1>1. \A q \in U : Fit(q, c, known)
  <2> SUFFICES ASSUME NEW r \in work.underway PROVE Fit([r EXCEPT !.fenced = TRUE], c, known)
    OBVIOUS
  <2> DEFINE x == TRUE
             q == [r EXCEPT !.fenced = x]
  <2>1. RequestShape(r) /\ Fit(r, count, known)
    BY DEF Orderly, RequestsShaped, RequestShaped, Ready
  <2>2. x
    OBVIOUS
  <2> HIDE DEF x
  <2>3. Fit(q, c, known)
    BY <2>1, <2>2, EarlierFits
  <2> QED BY <2>3 DEF x
<1> HIDE DEF U
<1>2. v.demands = work.demands /\ v.underway = U
  BY Underway DEF Orderly, U
<1> QED BY <1>1, <1>2 DEF Ready

-----------------------------------------------------------------------------
(* The actions, as long as the count is in step.                           *)

\* What holds as long as the count is in step: the timeline is fine, as long as the root counts, its
\* islands are of known replies, and what is under way fits it.
Tidy ==
    /\ Timely(timeline, root.count, bodies)
    /\ Size(timeline) = root.count
    /\ seen \in Nat /\ root.last \in Nat /\ bodies \subseteq Nat
    /\ Ready(work, root.count, bodies)

\* What a step has to keep.
TidyStep == Tidy' /\ Keeps(timeline', timeline)

\* A timeline keeps what it has.
LEMMA KeepsSelf ==
    ASSUME NEW t
    PROVE  Keeps(t, t) \/ ~(Size(t) \in Nat)
BY DEF Keeps

\* A demand goes on with another range.
LEMMA RangeSited ==
    ASSUME NEW d, DemandShape(d), NEW f \in Nat, NEW l \in Nat
    PROVE  Sited([d EXCEPT !.first = f, !.last = l])
<1> DEFINE new == [d EXCEPT !.first = f, !.last = l]
           new1 == [d EXCEPT !.first = f]
           new2 == [new1 EXCEPT !.last = l]
<1>1. new = new2
  BY DEF DemandShape
<1> HIDE DEF new
<1>2. new1 = [id |-> d.id, first |-> f, last |-> d.last, generation |-> d.generation,
              target |-> d.target, expected |-> d.expected, seek |-> d.seek, cursors |-> d.cursors]
  BY DEF DemandShape
<1> HIDE DEF new1
<1>3. new2 = [id |-> d.id, first |-> f, last |-> l, generation |-> d.generation,
              target |-> d.target, expected |-> d.expected, seek |-> d.seek, cursors |-> d.cursors]
  BY <1>2
<1> HIDE DEF new2
<1>4. new2.first = f /\ new2.last = l
  BY ONLY <1>3
<1> QED BY <1>1, <1>4 DEF Sited, new

\* The timeline stays as it is, and what is written of the work is fit.
LEMMA SameTidy ==
    ASSUME Tidy, UNCHANGED <<seen, root, bodies, timeline>>, server' \in Nat, server <= server',
           Ready(work', root.count, bodies)
    PROVE  TidyStep
<1>1. Size(timeline) \in Nat
  BY SlotsOf DEF Tidy, Timely, Fine, Shaped
<1>2. Keeps(timeline', timeline)
  BY <1>1, KeepsSelf
<1>3. Timely(timeline, root.count, bodies)'
  BY DEF Tidy, Timely
<1>4. Ready(work', root'.count, bodies')
  OBVIOUS
<1> QED BY <1>2, <1>3, <1>4 DEF Tidy, TidyStep

\* A reply is created on the server.
LEMMA CreateTidy == ASSUME Tidy, CreateReply PROVE TidyStep
<1>1. server' = server + 1 /\ server \in Nat
  BY DEF CreateReply, Tidy, Timely
<1>2. UNCHANGED <<seen, root, bodies, timeline, work>>
  BY DEF CreateReply
<1>3. Ready(work', root.count, bodies)
  BY <1>2 DEF Tidy
<1> QED BY <1>1, <1>2, <1>3, SameTidy

\* Nothing happens.
LEMMA IdleTidy == ASSUME Tidy, UNCHANGED vars PROVE TidyStep
<1>1. server' = server /\ server \in Nat
  BY DEF vars, Tidy, Timely
<1>2. UNCHANGED <<seen, root, bodies, timeline, work>>
  BY DEF vars
<1>3. Ready(work', root.count, bodies)
  BY <1>2 DEF Tidy
<1> QED BY <1>1, <1>2, <1>3, SameTidy

\* The demand of a request.
LEMMA WantedSited ==
    ASSUME Orderly(work, {}), NEW request \in work.underway,
           request.kind \in {"page", "seek", "continue"}, NEW count, NEW known, Ready(work, count, known)
    PROVE  Sited(Wanted(request))
<1>1. Wanted(request) \in work.demands
  BY Named DEF Wanted
<1> QED BY <1>1 DEF Ready

\* The next turn of the event loop.
LEMMA ContinueTidy == ASSUME IInv, Tidy, Continue PROVE TidyStep
<1>1. PICK request \in work.underway :
        /\ request.kind = "continue"
        /\ work' = continueDemand(Forget(request), timeline, Wanted(request), latest)
        /\ UNCHANGED <<server, seen, root, bodies, timeline>>
  BY DEF Continue, Wanted
<1> DEFINE v == Forget(request)
           d == Wanted(request)
<1>2. Orderly(work, {}) /\ Ready(work, root.count, bodies) /\ Timely(timeline, root.count, bodies) /\ server \in Nat
  BY DEF IInv, Tidy, Timely
<1>3. Orderly(v, request.waiters) /\ IdsOf(v) = IdsOf(work)
  BY <1>2, ForgetOrderly
<1>4. Ready(v, root.count, bodies)
  BY <1>2, ForgetReady
<1> HIDE DEF v
<1>5. Going(v, d) /\ Sited(d)
  BY <1>1, <1>2, <1>3, OneGoing, WantedSited
<1> HIDE DEF d
<1>6. Ready(continueDemand(v, timeline, d, latest), root.count, bodies)
  BY <1>2, <1>4, <1>5, ContinueDemandReady
<1>7. Ready(work', root.count, bodies)
  BY <1>1, <1>6 DEF v, d
<1> QED BY <1>1, <1>2, <1>7, SameTidy

\* A request fails.
LEMMA FailedTidy ==
    ASSUME IInv, Tidy, NEW request \in work.underway, failed(request)
    PROVE  TidyStep
<1> DEFINE v == Forget(request)
           l == IF request.kind = "island" /\ v.load = request.demand THEN 0 ELSE v.load
           u == [v EXCEPT !.load = l]
<1>1. Orderly(work, {}) /\ Ready(work, root.count, bodies) /\ server \in Nat
  BY DEF IInv, Tidy, Timely
<1>2. work' = finishDemand(u, request.waiters) /\ UNCHANGED <<server, seen, root, bodies, timeline>>
  BY DEF failed, Waiters
<1>3. Ready(v, root.count, bodies) /\ WorkShape(v)
  BY <1>1, ForgetReady
<1> HIDE DEF v, l
<1>4. WorkShape(u) /\ u.demands = v.demands /\ u.underway = v.underway
  BY <1>3, Loaded
<1> HIDE DEF u
<1>5. Ready(u, root.count, bodies)
  BY <1>3, <1>4 DEF Ready
<1>6. Ready(work', root.count, bodies)
  BY <1>2, <1>4, <1>5, FinishReady
<1> QED BY <1>1, <1>2, <1>6, SameTidy

\* A call of requestRange joins a demand.
LEMMA JoinTidy ==
    ASSUME IInv, Tidy, NEW d \in work.demands, NEW first \in Nat, NEW last \in Nat,
           UNCHANGED <<server, seen, root, bodies, timeline>>, work' = Update(work, Extended(first, last, d))
    PROVE  TidyStep
<1> DEFINE f == MinOf(d.first, first)
           l == MaxOf(d.last, last)
           e == [d EXCEPT !.first = f, !.last = l]
<1>1. DemandShape(d) /\ WorkShape(work) /\ Ready(work, root.count, bodies) /\ server \in Nat
  BY DEF IInv, Orderly, DemandsShaped, Tidy, Timely
<1>2. Extended(first, last, d) = e
  BY DEF Extended
<1>3. d.first \in Nat /\ d.last \in Nat
  BY <1>1 DEF Ready, Sited
<1>4. f \in Nat /\ l \in Nat
  BY <1>3 DEF MinOf, MaxOf
<1> HIDE DEF f, l
<1>5. Sited(e)
  BY <1>1, <1>4, RangeSited
<1> HIDE DEF e
<1>6. Ready(work', root.count, bodies)
  BY <1>1, <1>2, <1>5, UpdateReady
<1> QED BY <1>1, <1>6, SameTidy

\* A call of requestRange makes a demand.
LEMMA AskedTidy ==
    ASSUME IInv, Tidy, asked < MaxAsks, NEW d, DemandShape(d), Sited(d), NEW generation,
           d.id = CHOOSE n \in 1 .. MaxAsks : n \notin IdsOf(work),
           UNCHANGED <<server, seen, root, bodies, timeline>>,
           work' = continueDemand(Update(work, d), timeline, d, generation)
    PROVE  TidyStep
<1>1. d.id \in 1 .. MaxAsks /\ d.id \notin IdsOf(work)
  BY FreeIdentity
<1>2. /\ Orderly(work, {}) /\ Ready(work, root.count, bodies) /\ Timely(timeline, root.count, bodies)
      /\ server \in Nat /\ WorkShape(work)
  BY DEF IInv, Tidy, Timely, Orderly
<1>3. Orderly(Update(work, d), {d.id}) /\ IdsOf(Update(work, d)) = IdsOf(work) \cup {d.id}
  BY <1>1, <1>2, NewOrderly
<1>4. Going(Update(work, d), d)
  BY <1>3 DEF Going
<1>5. Ready(Update(work, d), root.count, bodies)
  BY <1>2, UpdateReady
<1>6. Ready(work', root.count, bodies)
  BY <1>2, <1>4, <1>5, ContinueDemandReady
<1> QED BY <1>2, <1>6, SameTidy

\* requestRange.
LEMMA RequestTidy == ASSUME IInv, Tidy, Request PROVE TidyStep
<1>0. PICK first \in Nat, last \in Nat : \E reason, generation : requestRange(first, last, reason, generation)
  <2>1. Size(timeline) \in Nat
    BY SlotsOf DEF Tidy, Timely, Fine, Shaped
  <2>2. PICK first \in 0 .. Size(timeline), reason \in {"scroll", "seek", "visible"} :
          \E last \in first .. MinOf(first + 1, Size(timeline)) :
             \E generation : requestRange(first, last, reason, generation)
    BY Zenon DEF Request
  <2>3. first \in Nat /\ MinOf(first + 1, Size(timeline)) \in Nat
    <3>1. first \in Nat /\ first + 1 \in Nat
      BY <2>1
    <3> QED BY <2>1, <3>1, MinNat
  <2> QED BY <2>2, <2>3
<1>1. PICK reason, generation : requestRange(first, last, reason, generation)
  BY <1>0
<1>2. asked < MaxAsks /\ UNCHANGED <<server, seen, root, bodies, timeline>>
  BY <1>1 DEF requestRange
<1>3. \/ \E d \in work.demands : work' = Update(work, Extended(first, last, d))
      \/ \E target, seek :
            LET d == [id |-> CHOOSE n \in 1 .. MaxAsks : n \notin IdsOf(work),
                      first |-> first, last |-> last, generation |-> generation, target |-> target,
                      expected |-> {}, seek |-> seek, cursors |-> {}]
            IN work' = continueDemand(Update(work, d), timeline, d, generation)
  BY <1>1 DEF requestRange, Extended, IdsOf
<1>4. CASE \E d \in work.demands : work' = Update(work, Extended(first, last, d))
  BY <1>0, <1>2, <1>4, JoinTidy
<1>5. ASSUME NEW target, NEW seek, NEW d,
             d = [id |-> CHOOSE n \in 1 .. MaxAsks : n \notin IdsOf(work),
                  first |-> first, last |-> last, generation |-> generation, target |-> target,
                  expected |-> {}, seek |-> seek, cursors |-> {}],
             work' = continueDemand(Update(work, d), timeline, d, generation)
      PROVE  TidyStep
  <2>1. DemandShape(d) /\ d.id = (CHOOSE n \in 1 .. MaxAsks : n \notin IdsOf(work)) /\ Sited(d)
    BY <1>0, <1>5 DEF DemandShape, Sited
  <2> QED BY <1>0, <1>2, <1>5, <2>1, AskedTidy
<1> QED BY <1>3, <1>4, <1>5

-----------------------------------------------------------------------------
(* Navigation, the cached tail and live replies.                           *)

\* What has to hold after a step that changes the timeline.
LEMMA StepTidy ==
    ASSUME Tidy, server' = server, seen' \in Nat, root'.count \in Nat, root'.last \in Nat, root'.count <= server,
           Fine(timeline'), Keeps(timeline', timeline), Size(timeline') = root'.count,
           Within(timeline', bodies'), bodies' \subseteq Nat, \A n \in bodies' : n <= server,
           Ready(work', root'.count, bodies')
    PROVE  TidyStep
<1>1. Timely(timeline, root.count, bodies)'
  BY DEF Tidy, Timely
<1> QED BY <1>1 DEF Tidy, TidyStep

\* Only islands are added.
NavigatedAs(u, t, i) == Formed(u) /\ u.slots = t.slots /\ u.provisional = t.provisional /\ u.islands = i

\* The fields after a navigation that moves nothing.
LEMMA NavigatedFields ==
    ASSUME NEW t, Formed(t), NEW n, NEW i
    PROVE  NavigatedAs([t EXCEPT !.nav = n, !.islands = i], t, i)
<1> DEFINE u == [t EXCEPT !.nav = n, !.islands = i]
           new1 == [t EXCEPT !.nav = n]
           new2 == [new1 EXCEPT !.islands = i]
<1>1. u = new2
  BY DEF Formed
<1> HIDE DEF u
<1>2. new1 = [slots |-> t.slots, provisional |-> t.provisional, islands |-> t.islands, nav |-> n]
  BY DEF Formed
<1> HIDE DEF new1
<1>3. new2 = [slots |-> t.slots, provisional |-> t.provisional, islands |-> i, nav |-> n]
  BY <1>2
<1> HIDE DEF new2
<1>4. new2.slots = t.slots /\ new2.provisional = t.provisional /\ new2.islands = i /\ new2.nav = n
  BY ONLY <1>3
<1>5. NavigatedAs(u, t, i)
  BY <1>1, <1>3, <1>4 DEF Formed, NavigatedAs
<1> QED BY <1>5 DEF u

\* A slot is written and an island added.
PutAs(u, t, k, r, p, i) == Formed(u) /\ Put(u, t, k, r) /\ u.provisional = p /\ u.islands = i

\* The fields after a reply has been put into a slot.
LEMMA PutFields ==
    ASSUME NEW t, Formed(t), NEW k, NEW r, NEW p, NEW n, NEW i
    PROVE  PutAs([t EXCEPT !.slots[k] = r, !.provisional = p, !.nav = n, !.islands = i], t, k, r, p, i)
<1> DEFINE u == [t EXCEPT !.slots[k] = r, !.provisional = p, !.nav = n, !.islands = i]
           s == [t.slots EXCEPT ![k] = r]
           new0 == [t EXCEPT !.slots = s]
           new1 == [new0 EXCEPT !.provisional = p]
           new2 == [new1 EXCEPT !.nav = n]
           new3 == [new2 EXCEPT !.islands = i]
<1>1. u = new3
  BY DEF Formed
<1> HIDE DEF u
<1> HIDE DEF s
<1>2. new0 = [slots |-> s, provisional |-> t.provisional, islands |-> t.islands, nav |-> t.nav]
  BY DEF Formed
<1> HIDE DEF new0
<1>3. new1 = [slots |-> s, provisional |-> p, islands |-> t.islands, nav |-> t.nav]
  BY <1>2
<1> HIDE DEF new1
<1>4. new2 = [slots |-> s, provisional |-> p, islands |-> t.islands, nav |-> n]
  BY <1>3
<1> HIDE DEF new2
<1>5. new3 = [slots |-> s, provisional |-> p, islands |-> i, nav |-> n]
  BY <1>4
<1> HIDE DEF new3
<1>6. new3.slots = s /\ new3.provisional = p /\ new3.islands = i /\ new3.nav = n
  BY ONLY <1>5
<1>7. new3 = [slots |-> new3.slots, provisional |-> new3.provisional, islands |-> new3.islands, nav |-> new3.nav]
  BY <1>5, <1>6
<1>8. u.slots = s
  BY <1>1, <1>6
<1>9. Put(u, t, k, r)
  BY <1>8 DEF Put, s
<1>10. PutAs(u, t, k, r, p, i)
  BY <1>1, <1>6, <1>7, <1>9 DEF Formed, PutAs
<1> QED BY <1>10 DEF u

\* ensurePostIndex.
LEMMA NavigateTidy == ASSUME Tidy, Navigate PROVE TidyStep
<1>1. PICK r \in 1 .. server : ensurePostIndex(r)
  BY DEF Navigate
<1> DEFINE t == timeline
           at == indexOfPost(t, r)
<1>2. /\ server \in Nat /\ root.count \in Nat /\ root.count <= server /\ seen \in Nat /\ root.last \in Nat
      /\ Fine(t) /\ Within(t, bodies) /\ Size(t) = root.count /\ bodies \subseteq Nat
      /\ (\A n \in bodies : n <= server) /\ Ready(work, root.count, bodies)
  BY DEF Tidy, Timely
<1>3. r \in Nat /\ r >= 1 /\ r <= server
  BY <1>1, <1>2
<1>4. Formed(t)
  BY <1>2 DEF Fine, Shaped, Formed
<1>5. /\ bodies' = bodies \cup {r} /\ UNCHANGED <<server, seen, root, work>>
  BY <1>1 DEF ensurePostIndex
<1>9. ASSUME /\ Fine(timeline') /\ Keeps(timeline', timeline) /\ Size(timeline') = root.count
             /\ Within(timeline', bodies')
      PROVE  TidyStep
  <2>1. bodies' \subseteq Nat /\ \A n \in bodies' : n <= server
    BY <1>2, <1>3, <1>5
  <2>2. Ready(work', root.count, bodies')
    BY <1>2, <1>5, MoreKnown
  <2>3. root' = root /\ seen' = seen /\ server' = server
    BY <1>5
  <2> QED BY <1>2, <1>9, <2>1, <2>2, <2>3, StepTidy
<1>6. CASE /\ at # 0 /\ r \in t.provisional
           /\ timeline' = [timeline EXCEPT
                    !.nav = IF @.post = r THEN @ ELSE [post |-> r, estimated |-> FALSE],
                    !.islands = IF islandForPost(timeline, r) = <<>> THEN Append(@, Single(r, at)) ELSE @]
  <2> DEFINE n == IF t.nav.post = r THEN t.nav ELSE [post |-> r, estimated |-> FALSE]
             i == IF islandForPost(t, r) = <<>> THEN Append(t.islands, Single(r, at)) ELSE t.islands
             u == [t EXCEPT !.nav = n, !.islands = i]
  <2>1. timeline' = u
    BY <1>6, Zenon
  <2>2. islandForPost(t, r) = <<>> => i = Append(t.islands, Single(r, at))
    BY Zenon
  <2>3. islandForPost(t, r) # <<>> => i = t.islands
    BY Zenon
  <2> HIDE DEF n, i
  <2>4a. NavigatedAs(u, t, i)
    BY <1>4, NavigatedFields, Zenon
  <2> HIDE DEF u
  <2>4. Formed(u) /\ u.slots = t.slots /\ u.provisional = t.provisional /\ u.islands = i
    BY <2>4a DEF NavigatedAs
  <2>5. islandForPost(t, r) = <<>> => Appended(u, t, Single(r, at))
    BY <2>2, <2>4, Zenon DEF Appended
  <2>6. at # 0 /\ r \in t.provisional
    BY <1>6
  <2> HIDE DEF t
  <2>7. Fine(u) /\ Keeps(u, t) /\ Size(u) = Size(t) /\ Within(u, bodies \cup {r})
    BY <1>2, <1>3, <2>3, <2>4, <2>5, <2>6, KnownPlaced, Zenon
  <2>8. /\ Fine(timeline') /\ Keeps(timeline', timeline) /\ Size(timeline') = root.count
        /\ Within(timeline', bodies')
    BY <1>2, <1>5, <2>1, <2>7, Zenon DEF t
  <2> QED BY <1>9, <2>8
<1>7. CASE /\ at = 0
           /\ \E estimate \in DOMAIN timeline.slots :
                    LET i == nearestEmptyIndex(timeline, estimate)
                    IN /\ i # 0
                       /\ timeline' = [timeline EXCEPT !.slots[i] = r,
                                                       !.provisional = @ \cup {r},
                                                       !.nav = [post |-> r, estimated |-> TRUE],
                                                       !.islands = Append(@, Single(r, i))]
  <2>1. PICK estimate \in DOMAIN t.slots : LET i == nearestEmptyIndex(timeline, estimate)
                    IN /\ i # 0
                       /\ timeline' = [timeline EXCEPT !.slots[i] = r,
                                                       !.provisional = @ \cup {r},
                                                       !.nav = [post |-> r, estimated |-> TRUE],
                                                       !.islands = Append(@, Single(r, i))]
    BY <1>7, Zenon
  <2> DEFINE i == nearestEmptyIndex(t, estimate)
             p == t.provisional \cup {r}
             n == [post |-> r, estimated |-> TRUE]
             l == Append(t.islands, Single(r, i))
             u == [t EXCEPT !.slots[i] = r, !.provisional = p, !.nav = n, !.islands = l]
  <2>2. i # 0 /\ timeline' = u
    BY <2>1, Zenon
  <2>3. i \in DOMAIN t.slots /\ t.slots[i] = 0
    <3> DEFINE free == {k \in DOMAIN t.slots : t.slots[k] = 0}
    <3>1. i = Nearest(free, estimate)
      BY DEF nearestEmptyIndex
    <3>2. DOMAIN t.slots \subseteq Nat
      BY <1>2, SlotsOf DEF Fine, Shaped
    <3>3. free \subseteq Nat /\ estimate \in Nat
      BY <3>2
    <3> HIDE DEF free
    <3>4. (free = {} /\ Nearest(free, estimate) = 0) \/ Nearest(free, estimate) \in free
      BY <3>3, NearestIsFree
    <3>5. i \in free
      BY <2>2, <3>1, <3>4, Zenon
    <3> QED BY <3>5 DEF free
  <2>4. indexOfPost(t, r) = 0
    BY <1>7, Zenon
  <2>5. l = Append(t.islands, Single(r, i)) /\ p = t.provisional \cup {r}
    OBVIOUS
  <2> HIDE DEF i, p, n, l
  <2>6. PutAs(u, t, i, r, p, l)
    BY <1>4, PutFields, Zenon
  <2> HIDE DEF u
  <2>7. Formed(u) /\ Put(u, t, i, r) /\ u.provisional = t.provisional \cup {r} /\ Appended(u, t, Single(r, i))
    BY <2>5, <2>6, Zenon DEF PutAs, Appended
  <2> HIDE DEF t
  <2>8. Fine(u) /\ Keeps(u, t) /\ Size(u) = Size(t) /\ Within(u, bodies \cup {r})
    BY <1>2, <1>3, <2>3, <2>4, <2>7, NewPlaced, Zenon
  <2>9. /\ Fine(timeline') /\ Keeps(timeline', timeline) /\ Size(timeline') = root.count
        /\ Within(timeline', bodies')
    BY <1>2, <1>5, <2>2, <2>8, Zenon DEF t
  <2> QED BY <1>9, <2>9
<1> QED BY <1>1, <1>6, <1>7 DEF ensurePostIndex

\* Rows of the cached tail are shown, and the server is asked to confirm them.
LEMMA HydratedTidy ==
    ASSUME Orderly(work, {}), Tidy, NEW lo \in Nat, NEW hi \in Nat, hi = root.last, 1 <= lo, lo <= hi, hi <= server,
           hi - lo < Size(timeline), NEW first, first = Size(timeline) + lo - hi,
           UNCHANGED <<server, seen, root>>, bodies' = bodies \cup (lo .. hi),
           NEW whole,
           \/ UNCHANGED <<timeline, work>>
           \/ /\ Unopposed(timeline, first, lo, hi)
              /\ timeline' = Assigned(timeline, timeline.provisional \cup ((lo .. hi) \ Mapped(timeline)), first, lo, hi)
              /\ work' = send(work, [Ask("validate", 0) EXCEPT !.waiters = {}, !.whole = whole])
    PROVE  TidyStep
<1> DEFINE t == timeline
           ids == lo .. hi
           p == t.provisional \cup (ids \ Mapped(t))
<1>1. /\ server \in Nat /\ root.count \in Nat /\ root.count <= server /\ seen \in Nat /\ root.last \in Nat
      /\ Fine(t) /\ Within(t, bodies) /\ Size(t) = root.count /\ bodies \subseteq Nat
      /\ (\A n \in bodies : n <= server) /\ Ready(work, root.count, bodies)
  BY DEF Tidy, Timely
<1>2. bodies' \subseteq Nat /\ (\A n \in bodies' : n <= server) /\ bodies \subseteq bodies'
  BY <1>1
<1>3. ASSUME /\ Fine(timeline') /\ Keeps(timeline', timeline) /\ Size(timeline') = Size(t)
             /\ timeline'.islands = t.islands /\ Ready(work', root.count, bodies)
      PROVE  TidyStep
  <2>1. Within(timeline', bodies')
    BY <1>1, <1>2, <1>3 DEF Within, StoredIn
  <2>2. Ready(work', root.count, bodies')
    BY <1>2, <1>3, MoreKnown
  <2>3. root' = root /\ seen' = seen /\ server' = server
    OBVIOUS
  <2> QED BY <1>1, <1>2, <1>3, <2>1, <2>2, <2>3, StepTidy
<1>4. CASE UNCHANGED <<timeline, work>>
  <2>1. Size(t) \in Nat
    BY <1>1
  <2>2. Keeps(t, t)
    BY <2>1, KeepsSelf
  <2> QED BY <1>1, <1>3, <1>4, <2>2
<1>5. CASE /\ Unopposed(timeline, first, lo, hi)
           /\ timeline' = Assigned(timeline, timeline.provisional \cup ((lo .. hi) \ Mapped(timeline)), first, lo, hi)
           /\ work' = send(work, [Ask("validate", 0) EXCEPT !.waiters = {}, !.whole = whole])
  <2>1. AssignedAs(timeline', t, p, first, lo, hi)
    <3>1. Shaped(t)
      BY <1>1 DEF Fine
    <3>2. timeline' = Assigned(t, p, first, lo, hi)
      BY <1>5, Zenon
    <3> HIDE DEF p
    <3>3. AssignedAs(Assigned(t, p, first, lo, hi), t, p, first, lo, hi)
      BY <3>1, AssignFields, Zenon
    <3> QED BY <3>2, <3>3, Zenon
  <2>2. Unopposed(t, first, lo, hi) /\ p = t.provisional \cup (ids \ Mapped(t)) /\ ids = lo .. hi
    BY <1>5, Zenon
  <2>3. hi - lo < Size(t) /\ first = Size(t) + lo - hi /\ lo \in Nat /\ hi \in Nat /\ 1 <= lo /\ lo <= hi
    OBVIOUS
  <2> HIDE DEF t, p, ids
  <2>4. Fine(timeline') /\ Keeps(timeline', t) /\ Size(timeline') = Size(t) /\ timeline'.islands = t.islands
    <3>1. Fine(t)
      BY <1>1
    <3>2. \A u : AssignedAs(u, t, p, first, lo, hi) =>
                Fine(u) /\ Keeps(u, t) /\ Size(u) = Size(t) /\ u.islands = t.islands
      BY ONLY <3>1, <2>2, <2>3, CachedFine
    <3> QED BY ONLY <2>1, <3>2
  <2>5. WorkShape(work)
    BY DEF Orderly
  <2>6. Ready(send(work, [Ask("validate", 0) EXCEPT !.waiters = {}, !.whole = whole]), root.count, bodies)
    BY <1>1, <2>5, ValidateReady, Zenon
  <2>7. Ready(work', root.count, bodies)
    BY <1>5, <2>6, Zenon
  <2> QED BY <1>3, <2>4, <2>7 DEF t
<1> QED BY <1>4, <1>5

\* hydrateCachedTail.
LEMMA HydrateTidy == ASSUME IInv, Tidy, hydrateCachedTail PROVE TidyStep
<1> DEFINE t == timeline
           n == Size(t)
<1>1. /\ server \in Nat /\ root.last \in Nat /\ n \in Nat /\ Orderly(work, {})
      /\ UNCHANGED <<server, seen, root>>
  BY DEF Tidy, Timely, IInv, hydrateCachedTail
<1>2. CASE UNCHANGED <<bodies, timeline, work>>
  <2>1. Ready(work', root.count, bodies)
    BY <1>2 DEF Tidy
  <2> QED BY <1>1, <1>2, <2>1, SameTidy
<1>3. ASSUME NEW lo \in 1 .. root.last,
             LET hi == root.last
                 first == Size(t) + lo - hi
                 target == indexOfPost(t, t.nav.post)
                 ids == lo..hi
             IN /\ hi <= server
                /\ hi - lo < MinOf(Block, Size(t))
                /\ bodies' = bodies \cup ids
                /\ IF \/ t.nav.estimated /\ target \in first..Size(t)
                      \/ \E r \in ids : \/ r \in Mapped(t) /\ indexOfPost(t, r) # first + (r - lo)
                                        \/ t.slots[first + (r - lo)] \notin {0, r}
                   THEN UNCHANGED <<timeline, work>>
                   ELSE /\ timeline' = assignExactWindow([t EXCEPT !.provisional = @ \cup (ids \ Mapped(t))],
                                                         first, lo, hi)
                        /\ work' = send(work, [Ask("validate", 0) EXCEPT !.waiters = {}, !.whole = Size(t) <= Block])
      PROVE  TidyStep
  <2> DEFINE hi == root.last
             first == n + lo - hi
             ids == lo .. hi
             p == t.provisional \cup (ids \ Mapped(t))
             opposed == \/ t.nav.estimated /\ indexOfPost(t, t.nav.post) \in first..Size(t)
                        \/ \E r \in ids : \/ r \in Mapped(t) /\ indexOfPost(t, r) # first + (r - lo)
                                          \/ t.slots[first + (r - lo)] \notin {0, r}
             whole == Size(t) <= Block
  <2>1. /\ hi <= server /\ hi - lo < MinOf(Block, Size(t)) /\ bodies' = bodies \cup ids
        /\ IF opposed THEN UNCHANGED <<timeline, work>>
           ELSE /\ timeline' = assignExactWindow([t EXCEPT !.provisional = p], first, lo, hi)
                /\ work' = send(work, [Ask("validate", 0) EXCEPT !.waiters = {}, !.whole = whole])
    BY <1>3, Zenon
  <2>2. lo \in Nat /\ hi \in Nat /\ 1 <= lo /\ lo <= hi
    BY <1>1
  <2>3. hi - lo < n
    <3>1. MinOf(Block, n) <= n /\ MinOf(Block, n) \in Nat
      BY <1>1, ThreadPostsAssumption DEF MinOf
    <3>2. hi - lo < MinOf(Block, n)
      BY <2>1
    <3> HIDE DEF n, hi
    <3> QED BY <1>1, <2>2, <3>1, <3>2
  <2>4. \/ UNCHANGED <<timeline, work>>
        \/ /\ Unopposed(t, first, lo, hi)
           /\ timeline' = Assigned(t, p, first, lo, hi)
           /\ work' = send(work, [Ask("validate", 0) EXCEPT !.waiters = {}, !.whole = whole])
    <3>1. CASE opposed
      BY <2>1, <3>1, Zenon
    <3>2. CASE ~opposed
      <4>1. \A r \in ids : ~(\/ r \in Mapped(t) /\ indexOfPost(t, r) # first + (r - lo)
                             \/ t.slots[first + (r - lo)] \notin {0, r})
        BY <3>2, Zenon
      <4>2. Unopposed(t, first, lo, hi)
        <5> HIDE DEF first, t, hi
        <5> QED BY <4>1 DEF Unopposed
      <4>3. /\ timeline' = assignExactWindow([t EXCEPT !.provisional = p], first, lo, hi)
            /\ work' = send(work, [Ask("validate", 0) EXCEPT !.waiters = {}, !.whole = whole])
        BY <2>1, <3>2, Zenon
      <4> HIDE DEF opposed, whole, p, first, t, hi
      <4> QED BY <4>2, <4>3, Zenon DEF Assigned
    <3> HIDE DEF opposed
    <3> QED BY <3>1, <3>2
  <2>5. first = n + lo - hi /\ hi = root.last
    OBVIOUS
  <2> HIDE DEF hi, whole, opposed, first
  <2>6. bodies' = bodies \cup (lo .. hi) /\ hi <= server
    BY <2>1
  <2> QED BY <1>1, <2>2, <2>3, <2>4, <2>5, <2>6, HydratedTidy, Zenon
<1>4. \/ UNCHANGED <<bodies, timeline, work>>
      \/ \E lo \in 1 .. root.last :
            LET hi == root.last
                first == Size(t) + lo - hi
                target == indexOfPost(t, t.nav.post)
                ids == lo..hi
            IN /\ hi <= server
               /\ hi - lo < MinOf(Block, Size(t))
               /\ bodies' = bodies \cup ids
               /\ IF \/ t.nav.estimated /\ target \in first..Size(t)
                     \/ \E r \in ids : \/ r \in Mapped(t) /\ indexOfPost(t, r) # first + (r - lo)
                                       \/ t.slots[first + (r - lo)] \notin {0, r}
                  THEN UNCHANGED <<timeline, work>>
                  ELSE /\ timeline' = assignExactWindow([t EXCEPT !.provisional = @ \cup (ids \ Mapped(t))],
                                                        first, lo, hi)
                       /\ work' = send(work, [Ask("validate", 0) EXCEPT !.waiters = {}, !.whole = Size(t) <= Block])
  BY Zenon DEF hydrateCachedTail
<1> QED BY <1>2, <1>3, <1>4, Zenon

\* A live reply: the root has counted it, or it is the next one.
LEMMA NewPostTidy == ASSUME IInv, Tidy, onNewPost, ~drifted' PROVE TidyStep
<1> DEFINE t == timeline
           r == seen + 1
           known == r \in bodies
           new == [count |-> root.count + 1, last |-> MaxOf(root.last, r)]
           summary == IF known THEN root ELSE new
           v == IF known THEN t ELSE syncLogicalCount(t, summary.count)
<1>1. /\ server \in Nat /\ root.count \in Nat /\ root.count <= server /\ seen \in Nat /\ root.last \in Nat
      /\ Fine(t) /\ Within(t, bodies) /\ Size(t) = root.count /\ bodies \subseteq Nat
      /\ (\A n \in bodies : n <= server) /\ Ready(work, root.count, bodies) /\ Orderly(work, {})
  BY DEF Tidy, Timely, IInv
<1>2. /\ seen < server /\ seen' = r /\ bodies' = bodies \cup {r} /\ root' = summary /\ server' = server
      /\ timeline' = appendLiveReply(v, summary.count, r)
      /\ work' = [work EXCEPT !.underway = {[q EXCEPT !.fenced = TRUE] : q \in @}]
  BY DEF onNewPost
<1>3. summary.count = r /\ (known => r \in Mapped(t))
  BY DEF onNewPost
<1>4. r \in Nat /\ r <= server /\ seen' \in Nat
  <2>1. seen < server /\ seen' = r
    BY <1>2
  <2> QED BY <1>1, <2>1
<1>5. bodies' \subseteq Nat /\ (\A n \in bodies' : n <= server) /\ bodies \subseteq bodies'
  <2>1. bodies' = bodies \cup {r}
    BY <1>2
  <2> QED BY <1>1, <1>4, <2>1
<1>6. Ready(work', root'.count, bodies')
  <2>1. Ready(work', root'.count, bodies)
    BY <1>1, <1>2, FencedReady, Zenon
  <2> QED BY <1>5, <2>1, MoreKnown
<1>7. ASSUME /\ Fine(timeline') /\ Keeps(timeline', timeline) /\ Size(timeline') = root'.count
             /\ timeline'.islands = t.islands /\ root'.count = r /\ root'.last \in Nat
      PROVE  TidyStep
  <2>1. Within(timeline', bodies')
    BY <1>1, <1>5, <1>7 DEF Within, StoredIn
  <2>2. server' = server
    BY <1>2
  <2> HIDE DEF r
  <2> QED BY <1>1, <1>4, <1>5, <1>6, <1>7, <2>1, <2>2, StepTidy
<1>8. CASE known
  <2>1. summary = root /\ v = t /\ r \in Mapped(t)
    BY <1>3, <1>8, Zenon
  <2>2. timeline' = t /\ root' = root /\ root.count = r
    <3>1. appendLiveReply(t, summary.count, r) = t
      BY <2>1 DEF appendLiveReply
    <3> QED BY <1>2, <1>3, <2>1, <3>1, Zenon
  <2>3. Keeps(t, t)
    <3>1. Size(t) \in Nat
      BY <1>1
    <3> QED BY <3>1, KeepsSelf
  <2> HIDE DEF r
  <2> QED BY <1>1, <1>7, <2>2, <2>3
<1>9. CASE ~known
  <2>1. summary = new /\ v = syncLogicalCount(t, summary.count)
    BY <1>9, Zenon
  <2>2. root' = new /\ new.count = r /\ timeline' = appendLiveReply(syncLogicalCount(t, r), r, r)
    BY <1>2, <1>3, <2>1, Zenon
  <2>3. new.count = root.count + 1 /\ new.last \in Nat
    <3>1. MaxOf(root.last, r) \in Nat
      BY <1>1, <1>4 DEF MaxOf
    <3> QED BY <3>1
  <2>4. r > Size(t) /\ \A x \in StoredIn(t) : r \notin Ids(x)
    <3>1. \A x \in StoredIn(t) : r \notin Ids(x)
      BY <1>1, <1>9 DEF Within
    <3>2. r = Size(t) + 1
      <4> HIDE DEF r
      <4> QED BY <1>1, <2>2, <2>3
    <3> HIDE DEF r
    <3> QED BY <1>1, <3>1, <3>2
  <2> HIDE DEF r, new
  <2>5. Fine(timeline') /\ Keeps(timeline', t) /\ Size(timeline') = r /\ timeline'.islands = t.islands
    <3>1. \A u : u = appendLiveReply(syncLogicalCount(t, r), r, r) =>
                Fine(u) /\ Keeps(u, t) /\ Size(u) = r /\ u.islands = t.islands
      BY ONLY <1>1, <1>4, <2>4, LiveFine
    <3> QED BY ONLY <2>2, <3>1
  <2> QED BY <1>7, <2>2, <2>3, <2>5
<1> QED BY <1>8, <1>9

-----------------------------------------------------------------------------
(* Answers.                                                                *)

\* What holds when a request is answered, of the timeline after the root in the answer was taken.
Arrived(request, held, t) ==
    /\ server \in Nat /\ held \in Nat /\ held <= server /\ seen \in Nat
    /\ Fit(request, root.count, bodies) /\ request.since <= held /\ request.anchor <= held
    /\ Ingested(request, held).count = Size(t) /\ Ingested(request, held).last \in Nat
    /\ Size(t) \in Nat /\ Size(t) <= server
    /\ Fine(t) /\ Keeps(t, timeline) /\ Within(t, bodies)
    /\ bodies \subseteq Nat /\ \A n \in bodies : n <= server
    /\ Ready(Done(request, held), Size(t), bodies)

\* The timeline that follows the root in an answer.
LEMMA AnswerArrives ==
    ASSUME Orderly(work, {}), Tidy, NEW request \in work.underway, NEW held \in request.since .. server,
           NEW t, t = syncLogicalCount(timeline, Ingested(request, held).count)
    PROVE  Arrived(request, held, t)
<1> DEFINE c == Ingested(request, held).count
           l == Ingested(request, held).last
<1>1. /\ server \in Nat /\ root.count \in Nat /\ root.count <= server /\ seen \in Nat /\ root.last \in Nat
      /\ Fine(timeline) /\ Within(timeline, bodies) /\ Size(timeline) = root.count /\ bodies \subseteq Nat
      /\ (\A n \in bodies : n <= server) /\ Ready(work, root.count, bodies)
  BY DEF Tidy, Timely
<1>2. Fit(request, root.count, bodies)
  BY <1>1 DEF Ready
<1>3. request.since \in Nat /\ request.anchor \in Nat /\ request.anchor <= request.since
  BY <1>2 DEF Fit
<1>4. held \in Nat /\ held <= server /\ request.since <= held /\ request.anchor <= held
  BY <1>1, <1>3
<1>5. c \in Nat /\ c >= root.count /\ c <= server /\ l \in Nat
  <2>1. CASE request.fenced
    <3>1. c = root.count /\ l = root.last
      BY <2>1, IngestedCount
    <3> HIDE DEF c, l
    <3> QED BY <1>1, <3>1
  <2>2. CASE ~request.fenced
    <3>1. c = held /\ l = held
      BY <2>2, IngestedCount
    <3>2. request.since >= root.count
      BY <1>2, <2>2 DEF Fit
    <3> HIDE DEF c, l
    <3> QED BY <1>1, <1>3, <1>4, <3>1, <3>2
  <2> QED BY <2>1, <2>2
<1>6. Ready(Done(request, held), c, bodies)
  BY <1>1, <1>4, DoneReady, Zenon
<1> HIDE DEF c, l
<1>7. t = syncLogicalCount(timeline, c)
  BY DEF c
<1>8. Fine(t) /\ Keeps(t, timeline) /\ Size(t) = c /\ t.islands = timeline.islands
  BY <1>1, <1>5, <1>7, SyncFine
<1>9. Within(t, bodies)
  BY <1>1, <1>8 DEF Within, StoredIn
<1> QED BY <1>1, <1>2, <1>4, <1>5, <1>6, <1>8, <1>9 DEF Arrived, c, l

\* What is left to show of an answer that brought replies lo..hi.
LEMMA ArrivedTidy ==
    ASSUME Tidy, NEW request, NEW held, NEW t, Arrived(request, held, t),
           NEW lo \in Nat, NEW hi \in Int, hi <= held, ingest(request, held, lo, hi),
           Fine(timeline'), Keeps(timeline', t), Size(timeline') = Size(t), Within(timeline', bodies \cup lo .. hi),
           Ready(work', Size(t), bodies \cup lo .. hi)
    PROVE  TidyStep
<1>1. /\ server \in Nat /\ held \in Nat /\ held <= server /\ seen \in Nat
      /\ Ingested(request, held).count = Size(t) /\ Ingested(request, held).last \in Nat
      /\ Size(t) \in Nat /\ Size(t) <= server /\ Fine(t) /\ Keeps(t, timeline)
      /\ bodies \subseteq Nat /\ \A n \in bodies : n <= server
  BY DEF Arrived
<1>2. root' = Ingested(request, held) /\ bodies' = bodies \cup lo .. hi /\ server' = server /\ seen' = seen
  BY DEF ingest
<1>3. bodies \cup lo .. hi \subseteq Nat /\ \A n \in bodies \cup lo .. hi : n <= server
  BY <1>1
<1>4. Keeps(timeline', timeline)
  BY <1>1, KeepsOn DEF Fine, Tidy, Timely
<1>5. root'.count = Size(t) /\ root'.last \in Nat
  BY <1>1, <1>2
<1>6. seen' \in Nat /\ root'.count \in Nat /\ root'.count <= server
  BY <1>1, <1>2, <1>5
<1>7. Fine(timeline') /\ Size(timeline') = root'.count /\ Within(timeline', bodies')
  BY <1>2, <1>5
<1>8. bodies' \subseteq Nat /\ \A n \in bodies' : n <= server
  BY <1>2, <1>3
<1>9. Ready(work', root'.count, bodies')
  BY <1>2, <1>5
<1>10. server' = server
  BY <1>2
<1> QED BY <1>4, <1>5, <1>6, <1>7, <1>8, <1>9, <1>10, StepTidy

\* An answer that leaves the timeline as it is.
LEMMA UnplacedTidy ==
    ASSUME Tidy, NEW request, NEW held, NEW t, Arrived(request, held, t),
           NEW lo \in Nat, NEW hi \in Int, hi <= held, ingest(request, held, lo, hi),
           timeline' = t, Ready(work', Size(t), bodies)
    PROVE  TidyStep
<1>1. Fine(t) /\ Size(t) \in Nat /\ Within(t, bodies)
  BY DEF Arrived
<1>2. Keeps(t, t)
  BY <1>1, KeepsSelf
<1>3. bodies \subseteq bodies \cup lo .. hi
  OBVIOUS
<1>4. Within(t, bodies \cup lo .. hi)
  BY <1>1 DEF Within
<1>5. Ready(work', Size(t), bodies \cup lo .. hi)
  BY <1>3, MoreKnown
<1> QED BY <1>1, <1>2, <1>4, <1>5, ArrivedTidy

-----------------------------------------------------------------------------
(* A page of the server.                                                   *)

\* The range of a page, the slot it starts from, and when that slot has changed.
PageLo(request, held) ==
    IF request.newest THEN Before(held + 1, request.n)
    ELSE IF request.backward THEN Before(request.anchor, request.n) ELSE request.anchor + 1

PageHi(request, held) ==
    IF request.newest THEN held
    ELSE IF request.backward THEN request.anchor - 1 ELSE MinOf(held, request.anchor + request.n)

PageFirst(request, t, lo, hi) ==
    IF request.newest THEN Size(t) + lo - hi
    ELSE IF request.backward THEN request.at + lo - hi - 1 ELSE request.at + 1

PageMoved(request, t) ==
    ~request.newest /\ ~(/\ isAuthoritativeIndex(t, request.at)
                         /\ request.at = 0 \/ t.slots[request.at] = request.anchor)

\* Before is a number of a reply.
LEMMA BeforeMeans ==
    ASSUME NEW a \in Nat, NEW n \in Nat
    PROVE  Before(a, n) \in Nat /\ Before(a, n) >= 1
BY DEF Before

\* The replies of a page.
LEMMA PageRange ==
    ASSUME NEW request, NEW held \in Nat, request.anchor \in Nat, request.n \in Nat, request.anchor <= held,
           NEW lo, lo = PageLo(request, held), NEW hi, hi = PageHi(request, held)
    PROVE  lo \in Nat /\ lo >= 1 /\ hi \in Int /\ hi <= held
<1> DEFINE a == request.anchor
           n == request.n
<1>1. a \in Nat /\ n \in Nat /\ a <= held /\ held + 1 \in Nat
  OBVIOUS
<1>2. CASE request.newest
  <2>1. lo = Before(held + 1, n) /\ hi = held
    BY <1>2 DEF PageLo, PageHi
  <2> HIDE DEF n
  <2> QED BY <1>1, <2>1, BeforeMeans
<1>3. CASE ~request.newest /\ request.backward
  <2>1. lo = Before(a, n) /\ hi = a - 1
    BY <1>3 DEF PageLo, PageHi
  <2> HIDE DEF n, a
  <2> QED BY <1>1, <2>1, BeforeMeans
<1>4. CASE ~request.newest /\ ~request.backward
  <2>1. lo = a + 1 /\ hi = MinOf(held, a + n)
    BY <1>4 DEF PageLo, PageHi
  <2> HIDE DEF n, a
  <2>2. hi \in Int /\ hi <= held
    BY <1>1, <2>1 DEF MinOf
  <2> QED BY <1>1, <2>1, <2>2
<1> QED BY <1>2, <1>3, <1>4

\* A page that is placed where nothing contradicts it is placed at its rank.
LEMMA PageExact ==
    ASSUME NEW t, Fine(t), NEW request, NEW held \in Nat, Fit(request, root.count, bodies), request.kind = "page",
           request.anchor <= held,
           NEW lo, lo = PageLo(request, held), NEW hi, hi = PageHi(request, held), lo <= hi,
           NEW first, first = PageFirst(request, t, lo, hi), first >= 1,
           ~PageMoved(request, t), ~Conflict(t, first, lo, hi), ~(request.newest /\ OutOfStep(t, held))
    PROVE  first = lo
<1> DEFINE a == request.anchor
           at == request.at
           n == request.n
           size == Size(t)
<1>1. /\ a \in Nat /\ at \in Nat /\ n \in Nat /\ (at = 0 => a = 0) /\ (request.backward => at >= 1)
      /\ size \in Nat /\ DOMAIN t.slots = 1 .. size /\ \A i \in DOMAIN t.slots : t.slots[i] \in Nat
  BY SlotsOf DEF Fit, Fine, Shaped
<1>2. lo \in Nat /\ lo >= 1 /\ hi \in Int /\ hi <= held /\ hi \in Nat
  <2>1. lo \in Nat /\ lo >= 1 /\ hi \in Int /\ hi <= held
    BY <1>1, PageRange
  <2> QED BY <2>1
<1>3. CASE ~request.newest
  <2>1. isAuthoritativeIndex(t, at) /\ (at = 0 \/ t.slots[at] = a)
    BY <1>3 DEF PageMoved
  <2>2. at = a
    <3>1. CASE at = 0
      BY <1>1, <3>1
    <3>2. CASE at # 0
      <4> HIDE DEF at, a
      <4>1. at \in DOMAIN t.slots /\ t.slots[at] = a
        BY <2>1, <3>2 DEF isAuthoritativeIndex
      <4>2. Confirmed(t, at)
        BY <2>1, <4>1, AuthoritativeMeans DEF Fine
      <4> QED BY <4>1, <4>2 DEF Fine, Ranked
    <3> QED BY <3>1, <3>2
  <2>3. CASE request.backward
    <3>1. hi = a - 1 /\ first = at + lo - hi - 1
      BY <1>3, <2>3 DEF PageHi, PageFirst
    <3> HIDE DEF a, at
    <3> QED BY <1>1, <1>2, <2>2, <3>1
  <2>4. CASE ~request.backward
    <3>1. lo = a + 1 /\ first = at + 1
      BY <1>3, <2>4 DEF PageLo, PageFirst
    <3> HIDE DEF a, at
    <3> QED BY <1>1, <1>2, <2>2, <3>1
  <2> QED BY <2>3, <2>4
<1>4. CASE request.newest
  <2>1. hi = held /\ first = size + lo - hi
    BY <1>4 DEF PageHi, PageFirst
  <2>2. held = size \/ isAuthoritativeIndex(t, size)
    BY <1>4 DEF OutOfStep
  <2>3. ASSUME held # size PROVE FALSE
    <3>1. size >= 1 /\ size \in DOMAIN t.slots
      <4> HIDE DEF size
      <4> QED BY <1>1, <1>2, <2>1
    <3>2. Confirmed(t, size)
      BY <2>2, <2>3, <3>1, AuthoritativeMeans DEF Fine
    <3>3. t.slots[size] = size
      BY <3>1, <3>2 DEF Fine, Ranked
    <3>4. hi \in lo .. hi /\ first + (hi - lo) = size
      <4> HIDE DEF size
      <4> QED BY <1>1, <1>2, <2>1
    <3>5. isAuthoritativeIndex(t, size) /\ t.slots[size] # hi
      BY <2>1, <2>2, <2>3, <3>3
    <3>6. Conflict(t, first, lo, hi)
      <4> HIDE DEF size
      <4> QED BY <3>4, <3>5 DEF Conflict
    <3> QED BY <3>6
  <2>4. held = size
    BY <2>3
  <2> HIDE DEF size
  <2> QED BY <1>1, <1>2, <2>1, <2>4
<1> QED BY <1>3, <1>4

\* The answer to a page by its cases.
LEMMA PageUnpacked ==
    ASSUME NEW request, NEW held, NEW t, pageAnswered(request, held, t),
           NEW lo, lo = PageLo(request, held), NEW hi, hi = PageHi(request, held),
           NEW first, first = PageFirst(request, t, lo, hi), NEW d, d = Wanted(request),
           NEW placed, placed = placeExactWindow(t, first, lo, hi)
    PROVE  /\ ingest(request, held, lo, hi)
           /\ drifted' = (drifted \/ (request.newest /\ OutOfStep(t, held)))
           /\ \/ timeline' = t /\ work' = finishDemand(Done(request, held), {d.id})
              \/ timeline' = t /\ work' = continueDemand(Done(request, held), t, d, latest)
              \/ /\ ~PageMoved(request, t) /\ ~Conflict(t, first, lo, hi)
                 /\ ~(hi < lo) /\ ~(first < 1) /\ ~(first + hi - lo > Size(t))
                 /\ timeline' = placed.t
                 /\ \/ work' = [Done(request, held) EXCEPT !.underway = @ \cup {Turn(d)}]
                    \/ work' = finishDemand(Done(request, held), {d.id})
BY DEF pageAnswered, PageLo, PageHi, PageFirst, PageMoved, Wanted

\* What is known after an answer is on the server.
LEMMA ArrivedBodies ==
    ASSUME NEW request, NEW held, NEW t, Arrived(request, held, t), NEW lo \in Nat, NEW hi \in Int, hi <= held,
           NEW B, B = bodies \cup lo .. hi
    PROVE  bodies \subseteq B /\ Within(t, B) /\ \A n \in B : n <= server
<1>1. /\ server \in Nat /\ held \in Nat /\ held <= server /\ Within(t, bodies)
      /\ bodies \subseteq Nat /\ \A n \in bodies : n <= server
  BY DEF Arrived
<1>2. \A n \in B : n <= server
  BY <1>1
<1>3. Within(t, B)
  BY <1>1 DEF Within
<1> QED BY <1>2, <1>3

\* A page is answered.
LEMMA PageTidy ==
    ASSUME IInv, Tidy, NEW request \in work.underway, request.kind = "page", NEW held, NEW t,
           Arrived(request, held, t), pageAnswered(request, held, t), ~drifted'
    PROVE  TidyStep
<1> DEFINE lo == PageLo(request, held)
           hi == PageHi(request, held)
           first == PageFirst(request, t, lo, hi)
           d == Wanted(request)
           v == Done(request, held)
           placed == placeExactWindow(t, first, lo, hi)
           B == bodies \cup lo .. hi
<1>1. /\ Orderly(work, {}) /\ Ready(work, root.count, bodies)
      /\ held \in Nat /\ request.anchor \in Nat /\ request.n \in Nat /\ request.anchor <= held
      /\ Fit(request, root.count, bodies) /\ server \in Nat /\ Size(t) \in Nat /\ Size(t) <= server
      /\ Fine(t) /\ Ready(v, Size(t), bodies) /\ Within(t, bodies) /\ \A n \in bodies : n <= server
  BY DEF IInv, Tidy, Arrived, Fit
<1>2. /\ ingest(request, held, lo, hi)
      /\ drifted' = (drifted \/ (request.newest /\ OutOfStep(t, held)))
      /\ \/ timeline' = t /\ work' = finishDemand(v, {d.id})
         \/ timeline' = t /\ work' = continueDemand(v, t, d, latest)
         \/ /\ ~PageMoved(request, t) /\ ~Conflict(t, first, lo, hi)
            /\ ~(hi < lo) /\ ~(first < 1) /\ ~(first + hi - lo > Size(t))
            /\ timeline' = placed.t
            /\ \/ work' = [v EXCEPT !.underway = @ \cup {Turn(d)}]
               \/ work' = finishDemand(v, {d.id})
  <2>1. /\ lo = PageLo(request, held) /\ hi = PageHi(request, held) /\ first = PageFirst(request, t, lo, hi)
        /\ d = Wanted(request) /\ placed = placeExactWindow(t, first, lo, hi)
    OBVIOUS
  <2> HIDE DEF lo, hi, first, d, placed
  <2> QED BY <2>1, PageUnpacked
<1>3. lo \in Nat /\ lo >= 1 /\ hi \in Int /\ hi <= held
  BY <1>1, PageRange
<1>4. first = PageFirst(request, t, lo, hi) /\ lo = PageLo(request, held) /\ hi = PageHi(request, held)
  OBVIOUS
<1>5. Orderly(v, request.waiters) /\ IdsOf(v) = IdsOf(work)
  BY <1>1, DoneOrderly
<1> HIDE DEF v
<1>6. Going(v, d) /\ Sited(d) /\ WorkShape(v)
  <2>1. Going(v, d) /\ Sited(d)
    BY <1>1, <1>5, OneGoing, WantedSited
  <2> QED BY <2>1 DEF Going, Orderly
<1> HIDE DEF d
<1>7. Ready(finishDemand(v, {d.id}), Size(t), bodies)
  BY <1>1, <1>6, FinishReady
<1>8. Ready(continueDemand(v, t, d, latest), Size(t), bodies)
  <2>1. Timely(t, Size(t), bodies)
    BY <1>1 DEF Timely
  <2> QED BY <1>1, <1>6, <2>1, ContinueDemandReady
<1>9. Ready([v EXCEPT !.underway = @ \cup {Turn(d)}], Size(t), bodies)
  BY <1>1, <1>6, TurnReady
<1> HIDE DEF lo, hi, first
<1>10. CASE timeline' = t /\ (work' = finishDemand(v, {d.id}) \/ work' = continueDemand(v, t, d, latest))
  <2>1. Ready(work', Size(t), bodies)
    BY <1>7, <1>8, <1>10
  <2> QED BY <1>2, <1>3, <1>10, <2>1, UnplacedTidy
<1>11. CASE /\ ~PageMoved(request, t) /\ ~Conflict(t, first, lo, hi)
            /\ ~(hi < lo) /\ ~(first < 1) /\ ~(first + hi - lo > Size(t))
            /\ timeline' = placed.t
            /\ \/ work' = [v EXCEPT !.underway = @ \cup {Turn(d)}]
               \/ work' = finishDemand(v, {d.id})
  <2>1. first \in Int
    <3>1. request.at \in Nat
      BY <1>1 DEF Fit
    <3> QED BY <1>1, <1>3, <1>4, <3>1 DEF PageFirst
  <2>2. lo <= hi /\ hi \in Nat /\ first >= 1 /\ first + hi - lo <= Size(t)
    BY <1>1, <1>3, <1>11, <2>1
  <2>3. ~(request.newest /\ OutOfStep(t, held))
    BY <1>2
  <2>4. first = lo
    BY <1>1, <1>4, <1>11, <2>2, <2>3, PageExact
  <2>5. hi <= Size(t)
    BY <1>1, <1>3, <2>2, <2>4
  <2>6. timeline' = placeExactWindow(t, lo, lo, hi).t
    BY <1>11, <2>4
  <2>7. bodies \subseteq B /\ Within(t, B) /\ \A n \in B : n <= server
    BY <1>3, ArrivedBodies
  <2> HIDE DEF B
  <2>8. Placed(placeExactWindow(t, lo, lo, hi).t, t, B)
    BY <1>1, <1>3, <2>2, <2>5, <2>7, PagePlaced
  <2>9. Fine(timeline') /\ Keeps(timeline', t) /\ Size(timeline') = Size(t) /\ Within(timeline', B)
    BY <2>6, <2>8 DEF Placed
  <2>10. Ready(work', Size(t), bodies)
    BY <1>7, <1>9, <1>11, Zenon
  <2>11. Ready(work', Size(t), B)
    BY <2>7, <2>10, MoreKnown
  <2> QED BY <1>2, <1>3, <2>9, <2>11, ArrivedTidy DEF B
<1> QED BY <1>2, <1>10, <1>11

-----------------------------------------------------------------------------
(* An island of replies around a target.                                   *)

\* What is merged with a window depends on its replies only.
LEMMA SameSharing ==
    ASSUME NEW t, NEW x, NEW y, Ids(x) = Ids(y)
    PROVE  Sharing(t, x) = Sharing(t, y)
<1>1. \A some : ClosedUnder(t, x, some) <=> ClosedUnder(t, y, some)
  BY DEF ClosedUnder
<1> QED BY <1>1, SharingMeans

\* And so do its ends.
LEMMA SameMerge ==
    ASSUME NEW t, t.islands \in Seq(Stored), NEW x \in Windows, Whole(x), NEW y \in Windows, Whole(y),
           x.lo = y.lo, x.hi = y.hi, NEW b, Below(t, x, b)
    PROVE  /\ Merge(t, x).lo = Merge(t, y).lo /\ Merge(t, x).hi = Merge(t, y).hi
           /\ Count(Merge(t, x)) = Count(Merge(t, y))
<1> DEFINE S == Sharing(t, x)
           v == Merge(t, x)
           w == Merge(t, y)
<1>1. S = Sharing(t, y)
  <2>1. Ids(x) = Ids(y)
    BY DEF Ids
  <2> QED BY <2>1, SameSharing
<1>2. Below(t, y, b)
  BY DEF Below
<1>3. /\ v \in Windows
      /\ \A z \in S \cup {x} : v.lo <= z.lo /\ z.hi <= v.hi
      /\ \E z \in S \cup {x} : v.lo = z.lo
      /\ \E z \in S \cup {x} : v.hi = z.hi
  BY MergeFacts
<1>4. /\ w \in Windows
      /\ \A z \in S \cup {y} : w.lo <= z.lo /\ z.hi <= w.hi
      /\ \E z \in S \cup {y} : w.lo = z.lo
      /\ \E z \in S \cup {y} : w.hi = z.hi
  BY <1>1, <1>2, MergeFacts
<1> HIDE DEF S, v, w
<1>5. v.lo \in Nat /\ v.hi \in Nat /\ w.lo \in Nat /\ w.hi \in Nat
  BY <1>3, <1>4 DEF Windows
<1>6. v.lo <= w.lo /\ w.lo <= v.lo /\ w.hi <= v.hi /\ v.hi <= w.hi
  BY <1>3, <1>4
<1>7. v.lo = w.lo /\ v.hi = w.hi
  BY <1>5, <1>6
<1> QED BY <1>7 DEF Count, v, w

\* A window with other ends, at another place.
WidenedAs(u, x, a, b, f, r, o, n) ==
    u = [target |-> x.target, lo |-> a, hi |-> b, first |-> f, ready |-> r, oldest |-> o, newest |-> n]

\* The window that an answer widens.
LEMMA Widened ==
    ASSUME NEW x \in Windows, NEW a, NEW b, NEW r, NEW o, NEW n
    PROVE  WidenedAs([x EXCEPT !.lo = a, !.hi = b, !.ready = r, !.oldest = o, !.newest = n], x, a, b, x.first, r, o, n)
<1> DEFINE u == [x EXCEPT !.lo = a, !.hi = b, !.ready = r, !.oldest = o, !.newest = n]
           u1 == [x EXCEPT !.lo = a]
           u2 == [u1 EXCEPT !.hi = b]
           u3 == [u2 EXCEPT !.ready = r]
           u4 == [u3 EXCEPT !.oldest = o]
           u5 == [u4 EXCEPT !.newest = n]
<1>0. x = [target |-> x.target, lo |-> x.lo, hi |-> x.hi, first |-> x.first, ready |-> x.ready,
           oldest |-> x.oldest, newest |-> x.newest]
  BY DEF Windows
<1>1. u = u5
  BY <1>0
<1> HIDE DEF u
<1>2. u1 = [target |-> x.target, lo |-> a, hi |-> x.hi, first |-> x.first, ready |-> x.ready,
            oldest |-> x.oldest, newest |-> x.newest]
  BY <1>0
<1> HIDE DEF u1
<1>3. u2 = [target |-> x.target, lo |-> a, hi |-> b, first |-> x.first, ready |-> x.ready,
            oldest |-> x.oldest, newest |-> x.newest]
  BY <1>2
<1> HIDE DEF u2
<1>4. u3 = [target |-> x.target, lo |-> a, hi |-> b, first |-> x.first, ready |-> r,
            oldest |-> x.oldest, newest |-> x.newest]
  BY <1>3
<1> HIDE DEF u3
<1>5. u4 = [target |-> x.target, lo |-> a, hi |-> b, first |-> x.first, ready |-> r,
            oldest |-> o, newest |-> x.newest]
  BY <1>4
<1> HIDE DEF u4
<1>6. u5 = [target |-> x.target, lo |-> a, hi |-> b, first |-> x.first, ready |-> r,
            oldest |-> o, newest |-> n]
  BY <1>5
<1> HIDE DEF u5
<1>7. WidenedAs(u, x, a, b, x.first, r, o, n)
  BY <1>1, <1>6 DEF WidenedAs
<1> QED BY <1>7 DEF u

\* And moves.
LEMMA Shifted ==
    ASSUME NEW x, NEW a, NEW b, NEW f, NEW g, NEW r, NEW o, NEW n, NEW u, WidenedAs(u, x, a, b, f, r, o, n)
    PROVE  WidenedAs([u EXCEPT !.first = g], x, a, b, g, r, o, n)
<1> DEFINE v == [u EXCEPT !.first = g]
<1>1. u = [target |-> x.target, lo |-> a, hi |-> b, first |-> f, ready |-> r, oldest |-> o, newest |-> n]
  BY DEF WidenedAs
<1>2. v = [target |-> x.target, lo |-> a, hi |-> b, first |-> g, ready |-> r, oldest |-> o, newest |-> n]
  BY <1>1
<1> HIDE DEF v
<1>3. WidenedAs(v, x, a, b, g, r, o, n)
  BY <1>2 DEF WidenedAs
<1> QED BY <1>3 DEF v

\* What it is.
LEMMA WidenedMeans ==
    ASSUME NEW x \in Windows, NEW a \in Nat, NEW b \in Nat, NEW f \in Nat, NEW r \in BOOLEAN, NEW o \in BOOLEAN,
           NEW n \in BOOLEAN, NEW u, WidenedAs(u, x, a, b, f, r, o, n)
    PROVE  /\ u \in Windows /\ u.target = x.target /\ u.lo = a /\ u.hi = b /\ u.first = f
           /\ u.oldest = o /\ u.newest = n
<1>1. u = [target |-> x.target, lo |-> a, hi |-> b, first |-> f, ready |-> r, oldest |-> o, newest |-> n]
  BY DEF WidenedAs
<1>2. x.target \in Nat
  BY DEF Windows
<1>3. u.target = x.target /\ u.lo = a /\ u.hi = b /\ u.first = f /\ u.oldest = o /\ u.newest = n
  BY ONLY <1>1
<1>4. u \in Windows
  BY <1>1, <1>2 DEF Windows
<1> QED BY <1>3, <1>4

\* A window whose rank is told by the count, if at all, keeps its rank when it is placed.
LEMMA WindowPlaced ==
    ASSUME NEW request, NEW held, NEW t, Arrived(request, held, t),
           NEW next \in Windows, Whole(next), next.oldest => next.lo = 1,
           NEW like \in Windows, Whole(like), like.lo = next.lo, like.hi = next.hi, like.newest = next.newest,
           ~(ByTheCount(t, like) /\ OutOfStep(t, Merge(t, like).hi)),
           NEW B, \A n \in B : n <= server, Within(t, B), Ids(next) \subseteq B,
           NEW p, p = placeIsland(t, next, {}, {})
    PROVE  Placed(p.t, t, B)
<1>1. server \in Nat /\ Fine(t)
  BY DEF Arrived
<1>2. t.islands \in Seq(Stored)
  BY <1>1 DEF Fine, Shaped
<1>3. Below(t, next, server)
  BY <1>1, <1>2, WithinBelow
<1>4. Merge(t, next).hi = Merge(t, like).hi /\ Count(Merge(t, next)) = Count(Merge(t, like))
  BY <1>2, <1>3, SameMerge
<1>5. next.newest \/ Count(Merge(t, next)) = Size(t)
              => Merge(t, next).hi = Size(t) \/ isAuthoritativeIndex(t, Size(t))
  BY <1>4 DEF ByTheCount, OutOfStep
<1> DEFINE given == {}
<1>6. \A o \in given : o = next.lo
  OBVIOUS
<1>7. p = placeIsland(t, next, given, {})
  OBVIOUS
<1> HIDE DEF given
<1> QED BY <1>1, <1>5, <1>6, <1>7, IslandPlaced

\* The range read around an anchor, the island with it, and where it is tried.
IslandLo(request) ==
    IF request.bootstrap \/ request.backward THEN Before(request.anchor, request.n) ELSE request.anchor

IslandHi(request, held) ==
    IF request.bootstrap \/ ~request.backward THEN MinOf(held, request.anchor + request.n) ELSE request.anchor

IslandRead(request, held, known, x) ==
    [x EXCEPT !.lo = MinOf(@, IslandLo(request)), !.hi = MaxOf(@, IslandHi(request, held)),
              !.ready = TRUE,
              !.oldest = @ \/ ((request.bootstrap \/ request.backward) /\ known /\ IslandLo(request) = 1),
              !.newest = @ \/ ((request.bootstrap \/ ~request.backward) /\ known /\ IslandHi(request, held) = held)]

IslandAt(t, x, next) ==
    IF indexOfPost(t, x.target) + next.lo > x.target THEN (indexOfPost(t, x.target) + next.lo) - x.target ELSE 0

\* The replies around an anchor.
LEMMA IslandRange ==
    ASSUME NEW request, NEW held \in Nat, request.anchor \in Nat, request.n \in Nat, request.anchor >= 1,
           request.anchor <= held, NEW lo, lo = IslandLo(request), NEW hi, hi = IslandHi(request, held)
    PROVE  lo \in Nat /\ lo >= 1 /\ hi \in Nat /\ hi <= held /\ request.anchor \in lo .. hi
<1> DEFINE a == request.anchor
           n == request.n
<1>1. a \in Nat /\ n \in Nat /\ a >= 1 /\ a <= held
  OBVIOUS
<1>2. lo = Before(a, n) \/ lo = a
  BY DEF IslandLo
<1>3. hi = MinOf(held, a + n) \/ hi = a
  BY DEF IslandHi
<1> HIDE DEF a, n
<1>4. lo \in Nat /\ lo >= 1 /\ lo <= a
  BY <1>1, <1>2 DEF Before
<1>5. hi \in Nat /\ hi <= held /\ a <= hi
  BY <1>1, <1>3 DEF MinOf
<1> QED BY <1>1, <1>4, <1>5 DEF a

\* What the answer to a load does.
IslandOutcome(request, held, t, lo, hi, next, f, v) ==
    /\ ingest(request, held, lo, hi)
    /\ \E l : work' = finishDemand([v EXCEPT !.load = l], request.waiters)
    /\ \/ timeline' = t
       \/ /\ islandForPost(t, request.target) # <<>>
          /\ timeline' = placeIsland(t, [next EXCEPT !.first = f], {}, {}).t
          /\ ~(ByTheCount(t, next) /\ OutOfStep(t, Merge(t, next).hi))

\* The answer to the load of an island by its cases.
LEMMA IslandUnpacked ==
    ASSUME NEW request, NEW held, NEW known, NEW t, islandAnswered(request, held, known, t), ~drifted',
           NEW lo, lo = IslandLo(request), NEW hi, hi = IslandHi(request, held),
           NEW x, x = islandForPost(t, request.target)[1], NEW next, next = IslandRead(request, held, known, x),
           NEW f, f = IslandAt(t, x, next), NEW v, v = Done(request, held)
    PROVE  IslandOutcome(request, held, t, lo, hi, next, f, v)
<1> DEFINE stale == \/ request.epoch # epoch \/ request.generation # latest
                    \/ islandForPost(t, request.target) = <<>>
           refused == \/ ~request.bootstrap /\ lo = hi /\ ~known
                      \/ request.bootstrap /\ lo = hi /\ Size(t) > 1
<1>1. /\ ingest(request, held, lo, hi)
      /\ work' = finishDemand([v EXCEPT !.load = IF @ = request.demand THEN 0 ELSE @], request.waiters)
      /\ timeline' = IF stale \/ refused THEN t ELSE placeIsland(t, [next EXCEPT !.first = f], {}, {}).t
      /\ drifted' = (drifted \/ (~stale /\ ByTheCount(t, next) /\ OutOfStep(t, Merge(t, next).hi)))
  <2> DEFINE lo2 == IslandLo(request)
             hi2 == IslandHi(request, held)
             x2 == islandForPost(t, request.target)[1]
             next2 == IslandRead(request, held, known, x2)
             f2 == IslandAt(t, x2, next2)
             refused2 == \/ ~request.bootstrap /\ lo2 = hi2 /\ ~known
                         \/ request.bootstrap /\ lo2 = hi2 /\ Size(t) > 1
  <2>1. /\ ingest(request, held, lo2, hi2)
        /\ work' = finishDemand([Done(request, held) EXCEPT !.load = IF @ = request.demand THEN 0 ELSE @],
                                request.waiters)
        /\ timeline' = IF stale \/ refused2 THEN t ELSE placeIsland(t, [next2 EXCEPT !.first = f2], {}, {}).t
        /\ drifted' = (drifted \/ (~stale /\ ByTheCount(t, next2) /\ OutOfStep(t, Merge(t, next2).hi)))
    BY Zenon DEF islandAnswered, IslandLo, IslandHi, IslandRead, IslandAt, Waiters
  <2>2. lo = lo2 /\ hi = hi2 /\ x = x2 /\ next = next2 /\ f = f2
    OBVIOUS
  <2>3. refused = refused2
    BY <2>2, Zenon
  <2> HIDE DEF lo2, hi2, x2, next2, f2, refused2, refused, stale
  <2> QED BY <2>1, <2>2, <2>3, Zenon
<1> DEFINE l == IF v.load = request.demand THEN 0 ELSE v.load
<1>2. work' = finishDemand([v EXCEPT !.load = l], request.waiters)
  BY <1>1, Zenon
<1> HIDE DEF l, refused
<1>3. \/ timeline' = t
      \/ ~stale /\ timeline' = placeIsland(t, [next EXCEPT !.first = f], {}, {}).t
  BY <1>1, Zenon
<1>4. ~stale => ~(ByTheCount(t, next) /\ OutOfStep(t, Merge(t, next).hi))
  BY <1>1, Zenon
<1> QED BY <1>1, <1>2, <1>3, <1>4, Zenon DEF IslandOutcome

\* The window of an island with what was read around it.
Around(u, next, x, lo, hi) ==
    /\ next \in Windows /\ Whole(next) /\ u \in Windows /\ Whole(u)
    /\ next.lo = MinOf(x.lo, lo) /\ next.hi = MaxOf(x.hi, hi)
    /\ u.lo = next.lo /\ u.hi = next.hi /\ u.newest = next.newest
    /\ u.oldest => u.lo = 1

\* A widened window around its target.
LEMMA WidenedFits ==
    ASSUME NEW x \in Windows, Whole(x), NEW lo, NEW hi, NEW a \in Nat, a = MinOf(x.lo, lo), NEW b \in Nat, b = MaxOf(x.hi, hi),
           a <= x.target, x.target <= b, 1 <= a, NEW r \in BOOLEAN, NEW o \in BOOLEAN, NEW n \in BOOLEAN, o => a = 1,
           NEW next, WidenedAs(next, x, a, b, x.first, r, o, n), NEW f \in Nat, NEW u, WidenedAs(u, x, a, b, f, r, o, n)
    PROVE  Around(u, next, x, lo, hi)
<1>1. x.first \in Nat
  BY DEF Windows
<1>2. next \in Windows /\ next.target = x.target /\ next.lo = a /\ next.hi = b /\ next.newest = n
  BY <1>1, WidenedMeans
<1>3. u \in Windows /\ u.target = x.target /\ u.lo = a /\ u.hi = b /\ u.oldest = o /\ u.newest = n
  BY WidenedMeans
<1>4. Whole(next) /\ Whole(u)
  BY <1>2, <1>3 DEF Whole
<1> QED BY <1>2, <1>3, <1>4 DEF Around

\* The island with what was read is such a window.
LEMMA IslandWindow ==
    ASSUME NEW t, Fine(t), NEW x \in StoredIn(t), NEW request, NEW held, NEW known \in BOOLEAN,
           NEW lo \in Nat, lo = IslandLo(request), lo >= 1, NEW hi \in Nat, hi = IslandHi(request, held),
           NEW next, next = IslandRead(request, held, known, x), NEW f \in Nat
    PROVE  Around([next EXCEPT !.first = f], next, x, lo, hi)
<1> DEFINE a == MinOf(x.lo, lo)
           b == MaxOf(x.hi, hi)
           r == TRUE
           o == x.oldest \/ ((request.bootstrap \/ request.backward) /\ known /\ lo = 1)
           n == x.newest \/ ((request.bootstrap \/ ~request.backward) /\ known /\ hi = held)
           u == [next EXCEPT !.first = f]
<1>1. /\ x \in Windows /\ Whole(x) /\ x.lo \in Nat /\ x.hi \in Nat /\ x.target \in Nat /\ ~x.oldest
      /\ 1 <= x.lo /\ x.lo <= x.target /\ x.target <= x.hi
  BY DEF Fine, Shaped, StoredIn, Stored, Windows, Whole
<1>2. next = [x EXCEPT !.lo = a, !.hi = b, !.ready = r, !.oldest = o, !.newest = n]
  BY Zenon DEF IslandRead
<1>3. o \in BOOLEAN /\ n \in BOOLEAN /\ r \in BOOLEAN
  OBVIOUS
<1>4. a \in Nat /\ b \in Nat /\ 1 <= a /\ a <= x.target /\ x.target <= b
  BY <1>1 DEF MinOf, MaxOf
<1>5. o => a = 1
  <2>1. o => lo = 1
    BY <1>1
  <2> HIDE DEF o
  <2>2. lo = 1 => a = 1
    BY <1>1 DEF MinOf
  <2> QED BY <2>1, <2>2
<1>6. a = MinOf(x.lo, lo) /\ b = MaxOf(x.hi, hi)
  OBVIOUS
<1> HIDE DEF a, b, r, o, n, u
<1>7. WidenedAs(next, x, a, b, x.first, r, o, n)
  <2>1. WidenedAs([x EXCEPT !.lo = a, !.hi = b, !.ready = r, !.oldest = o, !.newest = n], x, a, b, x.first, r, o, n)
    BY <1>1, Widened, Zenon
  <2> QED BY <1>2, <2>1, Zenon
<1>8. WidenedAs(u, x, a, b, f, r, o, n)
  <2>1. WidenedAs([next EXCEPT !.first = f], x, a, b, f, r, o, n)
    BY <1>7, Shifted, Zenon
  <2> QED BY <2>1, Zenon DEF u
<1>9. f \in Nat
  OBVIOUS
<1>10. Around(u, next, x, lo, hi)
  BY ONLY <1>1, <1>3, <1>4, <1>5, <1>6, <1>7, <1>8, <1>9, WidenedFits
<1> QED BY <1>10 DEF u

\* The load of an island is answered.
LEMMA IslandTidy ==
    ASSUME IInv, Tidy, NEW request \in work.underway, request.kind = "island", NEW held, NEW known \in BOOLEAN, NEW t,
           Arrived(request, held, t), islandAnswered(request, held, known, t), ~drifted'
    PROVE  TidyStep
<1> DEFINE lo == IslandLo(request)
           hi == IslandHi(request, held)
           x == islandForPost(t, request.target)[1]
           next == IslandRead(request, held, known, x)
           f == IslandAt(t, x, next)
           v == Done(request, held)
           B == bodies \cup lo .. hi
<1>1. /\ Orderly(work, {}) /\ held \in Nat /\ server \in Nat /\ Size(t) \in Nat
      /\ request.anchor \in Nat /\ request.n \in Nat /\ request.anchor <= held /\ request.anchor >= 1
      /\ request.target \in Nat /\ request.target .. request.anchor \subseteq bodies
      /\ request.anchor .. request.target \subseteq bodies
      /\ Fine(t) /\ Ready(v, Size(t), bodies) /\ Within(t, bodies)
  BY DEF IInv, Arrived, Fit
<1>2. /\ ingest(request, held, lo, hi)
      /\ \E l : work' = finishDemand([v EXCEPT !.load = l], request.waiters)
      /\ \/ timeline' = t
         \/ /\ islandForPost(t, request.target) # <<>>
            /\ timeline' = placeIsland(t, [next EXCEPT !.first = f], {}, {}).t
            /\ ~(ByTheCount(t, next) /\ OutOfStep(t, Merge(t, next).hi))
  <2>1. /\ lo = IslandLo(request) /\ hi = IslandHi(request, held) /\ x = islandForPost(t, request.target)[1]
        /\ next = IslandRead(request, held, known, x) /\ f = IslandAt(t, x, next) /\ v = Done(request, held)
    OBVIOUS
  <2> HIDE DEF lo, hi, x, next, f, v
  <2>2. IslandOutcome(request, held, t, lo, hi, next, f, v)
    BY <2>1, IslandUnpacked
  <2> QED BY <2>2, Zenon DEF IslandOutcome
<1>3. lo \in Nat /\ lo >= 1 /\ hi \in Nat /\ hi <= held /\ request.anchor \in lo .. hi
  BY <1>1, IslandRange
<1>4. Orderly(v, request.waiters)
  BY <1>1, DoneOrderly
<1>5. lo = IslandLo(request) /\ hi = IslandHi(request, held) /\ next = IslandRead(request, held, known, x)
  OBVIOUS
<1> HIDE DEF v, lo, hi
<1>6. Ready(work', Size(t), bodies)
  <2>1. PICK l : work' = finishDemand([v EXCEPT !.load = l], request.waiters)
    BY <1>2
  <2> DEFINE w == [v EXCEPT !.load = l]
  <2>2. WorkShape(w) /\ w.demands = v.demands /\ w.underway = v.underway
    BY <1>4, Loaded DEF Orderly
  <2> HIDE DEF w
  <2>3. Ready(w, Size(t), bodies)
    BY <1>1, <2>2 DEF Ready
  <2>4. Ready(finishDemand(w, request.waiters), Size(t), bodies)
    BY <2>2, <2>3, FinishReady
  <2> QED BY <2>1, <2>4 DEF w
<1>7. CASE timeline' = t
  BY <1>2, <1>3, <1>6, <1>7, UnplacedTidy
<1> HIDE DEF x, next, f
<1>8. CASE /\ islandForPost(t, request.target) # <<>>
           /\ timeline' = placeIsland(t, [next EXCEPT !.first = f], {}, {}).t
           /\ ~(ByTheCount(t, next) /\ OutOfStep(t, Merge(t, next).hi))
  <2>1. x \in StoredIn(t) /\ request.target \in Ids(x)
    BY <1>1, <1>8, IslandSome DEF x
  <2>2. /\ x \in Windows /\ x.lo \in Nat /\ x.hi \in Nat /\ x.target \in Nat
    <3>1. t.islands \in Seq(Stored)
      BY <1>1 DEF Fine, Shaped
    <3>2. x \in Stored
      BY ONLY <2>1, <3>1 DEF StoredIn
    <3> QED BY ONLY <3>2 DEF Stored, Windows
  <2>3. \A g \in Nat : Around([next EXCEPT !.first = g], next, x, lo, hi)
    BY <1>1, <1>3, <1>5, <2>1, IslandWindow, Zenon
  <2> DEFINE zero == 0
             v0 == [next EXCEPT !.first = zero]
  <2>4. next.lo = MinOf(x.lo, lo)
    <3>1. Around(v0, next, x, lo, hi)
      <4>1. zero \in Nat
        OBVIOUS
      <4> HIDE DEF zero
      <4> QED BY <2>3, <4>1, Zenon
    <3> HIDE DEF v0
    <3> QED BY ONLY <3>1 DEF Around
  <2>5. f \in Nat
    <3> DEFINE at == indexOfPost(t, x.target)
    <3>1. at \in Nat
      <4>1. at = 0 \/ at \in DOMAIN t.slots
        <5>1. CASE x.target \in Mapped(t)
          BY <5>1, IndexMeans
        <5>2. CASE x.target \notin Mapped(t)
          BY <5>2 DEF indexOfPost
        <5> QED BY <5>1, <5>2
      <4>2. DOMAIN t.slots = 1 .. Size(t)
        BY <1>1, SlotsOf DEF Fine, Shaped
      <4> HIDE DEF at
      <4> QED BY <1>1, <4>1, <4>2
    <3>2. MinOf(x.lo, lo) \in Nat
      BY <1>3, <2>2, MinNat
    <3>3. f = IF at + next.lo > x.target THEN (at + next.lo) - x.target ELSE 0
      BY DEF IslandAt, f
    <3> HIDE DEF at
    <3> QED BY <2>2, <2>4, <3>1, <3>2, <3>3
  <2> DEFINE u == [next EXCEPT !.first = f]
  <2>6. Around(u, next, x, lo, hi)
    BY <2>3, <2>5, Zenon
  <2>7. timeline' = placeIsland(t, u, {}, {}).t /\ ~(ByTheCount(t, next) /\ OutOfStep(t, Merge(t, next).hi))
    BY <1>8, Zenon
  <2> HIDE DEF u, v0, zero
  <2>8. /\ next \in Windows /\ Whole(next) /\ u \in Windows /\ Whole(u)
        /\ next.lo = MinOf(x.lo, lo) /\ next.hi = MaxOf(x.hi, hi)
        /\ u.lo = next.lo /\ u.hi = next.hi /\ u.newest = next.newest
        /\ u.oldest => u.lo = 1
    BY ONLY <2>6 DEF Around
  <2>9. bodies \subseteq B /\ Within(t, B) /\ \A n \in B : n <= server
    BY <1>3, ArrivedBodies
  <2>10. Ids(u) \subseteq B
    <3>1. Ids(x) \subseteq bodies
      BY <1>1, <2>1 DEF Within
    <3>2. x.lo .. x.hi \subseteq bodies /\ request.target \in x.lo .. x.hi
      BY ONLY <2>1, <3>1 DEF Ids
    <3>3. MinOf(x.lo, lo) .. MaxOf(x.hi, hi) \subseteq bodies \cup lo .. hi
      <4>1. /\ request.target .. request.anchor \subseteq bodies /\ request.anchor .. request.target \subseteq bodies
            /\ request.anchor \in lo .. hi
        BY <1>1, <1>3
      <4> DEFINE ilo == x.lo
                 ihi == x.hi
                 target == request.target
                 anchor == request.anchor
      <4>2. /\ ilo \in Nat /\ ihi \in Nat /\ target \in ilo .. ihi /\ lo \in Nat /\ hi \in Nat /\ anchor \in lo .. hi
            /\ ilo .. ihi \subseteq bodies /\ target .. anchor \subseteq bodies /\ anchor .. target \subseteq bodies
        BY <1>3, <2>2, <3>2, <4>1
      <4> HIDE DEF ilo, ihi, target, anchor
      <4>3. MinOf(ilo, lo) .. MaxOf(ihi, hi) \subseteq bodies \cup lo .. hi
        <5> SUFFICES ASSUME NEW n \in MinOf(ilo, lo) .. MaxOf(ihi, hi) PROVE n \in bodies \cup lo .. hi
          OBVIOUS
        <5>1. n \in ilo .. ihi \/ n \in lo .. hi \/ n \in target .. anchor \/ n \in anchor .. target
          BY ONLY <4>2, n \in MinOf(ilo, lo) .. MaxOf(ihi, hi) DEF MinOf, MaxOf
        <5> QED BY <4>2, <5>1
      <4> QED BY <4>3 DEF ilo, ihi
    <3> QED BY <2>8, <3>3 DEF Ids
  <2> HIDE DEF B
  <2>11. Placed(placeIsland(t, u, {}, {}).t, t, B)
    BY <2>7, <2>8, <2>9, <2>10, WindowPlaced
  <2>12. Fine(timeline') /\ Keeps(timeline', t) /\ Size(timeline') = Size(t) /\ Within(timeline', B)
    BY <2>7, <2>11 DEF Placed
  <2>13. Ready(work', Size(t), B)
    BY <1>6, <2>9, MoreKnown
  <2> QED BY <1>2, <1>3, <2>12, <2>13, ArrivedTidy DEF B
<1> QED BY <1>2, <1>7, <1>8

-----------------------------------------------------------------------------
(* A seek by time, and the page that confirms the cached tail.             *)

\* The last reply of a seek, its window, and what its answer does.
SeekHi(held, lo) == MinOf(held, lo + MaxFetch - 1)

SeekRead(request, held, known, lo, middle) ==
    [target |-> lo + middle, lo |-> lo, hi |-> SeekHi(held, lo),
     first |-> IF request.at > middle THEN request.at - middle ELSE 0,
     ready |-> TRUE, oldest |-> FALSE, newest |-> known /\ SeekHi(held, lo) = held]

SeekOutcome(request, held, t, lo, hi, next) ==
    /\ ingest(request, held, lo, hi)
    /\ work' = finishDemand(Done(request, held), {Wanted(request).id})
    /\ \/ timeline' = t
       \/ /\ timeline' = placeIsland(t, next, {}, {}).t
          /\ ~(ByTheCount(t, next) /\ OutOfStep(t, Merge(t, next).hi))

\* The answer to a seek by its cases.
LEMMA SeekUnpacked ==
    ASSUME NEW request, NEW held, NEW known, NEW t, seekAnswered(request, held, known, t), ~drifted'
    PROVE  \E lo \in 1 .. held :
              SeekOutcome(request, held, t, lo, SeekHi(held, lo),
                          SeekRead(request, held, known, lo, (SeekHi(held, lo) + 1 - lo) \div 2))
<1>1. PICK lo \in 1 .. held :
         LET d == Wanted(request)
             middle == (SeekHi(held, lo) + 1 - lo) \div 2
             next == SeekRead(request, held, known, lo, middle)
         IN /\ ingest(request, held, lo, SeekHi(held, lo))
            /\ timeline' = IF d.generation # latest \/ request.epoch # epoch THEN t
                           ELSE placeIsland(t, next, {}, {}).t
            /\ work' = finishDemand(Done(request, held), {d.id})
            /\ drifted' = (drifted \/ (ByTheCount(t, next) /\ OutOfStep(t, Merge(t, next).hi)))
  BY Zenon DEF seekAnswered, SeekHi, SeekRead, Wanted
<1> DEFINE next == SeekRead(request, held, known, lo, (SeekHi(held, lo) + 1 - lo) \div 2)
<1>2. ~(ByTheCount(t, next) /\ OutOfStep(t, Merge(t, next).hi))
  BY <1>1, Zenon
<1>3. timeline' = t \/ timeline' = placeIsland(t, next, {}, {}).t
  BY <1>1, Zenon
<1>4. SeekOutcome(request, held, t, lo, SeekHi(held, lo), next)
  BY <1>1, <1>2, <1>3, Zenon DEF SeekOutcome
<1> QED BY <1>4, Zenon

\* The window of a seek.
LEMMA SeekWindow ==
    ASSUME NEW request, request.at \in Nat, NEW held \in Nat, NEW known \in BOOLEAN, NEW lo \in 1 .. held,
           NEW hi, hi = SeekHi(held, lo), NEW middle, middle = (hi + 1 - lo) \div 2,
           NEW next, next = SeekRead(request, held, known, lo, middle)
    PROVE  /\ next \in Windows /\ Whole(next) /\ ~next.oldest
           /\ next.lo = lo /\ next.hi = hi /\ hi \in Nat /\ lo <= hi /\ hi <= held
<1> DEFINE at == request.at
           yes == TRUE
           no == FALSE
           n == known /\ hi = held
           first == IF at > middle THEN at - middle ELSE 0
           target == lo + middle
<1>1. MaxFetch \in Nat /\ MaxFetch >= 1 /\ lo \in Nat /\ lo >= 1 /\ lo <= held
  BY ThreadPostsAssumption
<1>2. hi \in Nat /\ lo <= hi /\ hi <= held
  BY <1>1 DEF SeekHi, MinOf
<1>3. middle \in Nat /\ lo + middle <= hi
  <2> DEFINE c == hi + 1 - lo
  <2>1. c \in Nat /\ c >= 1 /\ middle = c \div 2
    BY <1>1, <1>2
  <2>2. c = (hi + 1) - lo
    BY <1>1, <1>2
  <2> HIDE DEF c
  <2>3. middle \in Nat /\ middle + 1 <= c
    BY <2>1
  <2> QED BY <1>1, <1>2, <2>2, <2>3
<1>4. next = [target |-> target, lo |-> lo, hi |-> hi, first |-> first, ready |-> yes, oldest |-> no, newest |-> n]
  BY Zenon DEF SeekRead
<1>5. first \in Nat /\ target \in Nat /\ target >= lo /\ target <= hi
  BY <1>1, <1>2, <1>3
<1>6. yes \in BOOLEAN /\ no \in BOOLEAN /\ n \in BOOLEAN /\ ~no
  OBVIOUS
<1> HIDE DEF at, yes, no, n, first, target
<1>7. /\ next.lo = lo /\ next.hi = hi /\ next.target = target /\ next.oldest = no
  BY ONLY <1>4
<1>8. next \in Windows
  BY ONLY <1>1, <1>2, <1>4, <1>5, <1>6 DEF Windows
<1>9. Whole(next)
  BY ONLY <1>1, <1>2, <1>5, <1>7 DEF Whole
<1> QED BY ONLY <1>2, <1>6, <1>7, <1>8, <1>9

\* A seek is answered.
LEMMA SeekTidy ==
    ASSUME IInv, Tidy, NEW request \in work.underway, request.kind = "seek", NEW held, NEW known \in BOOLEAN, NEW t,
           Arrived(request, held, t), seekAnswered(request, held, known, t), ~drifted'
    PROVE  TidyStep
<1>1. /\ Orderly(work, {}) /\ held \in Nat /\ request.at \in Nat
      /\ Fine(t) /\ Ready(Done(request, held), Size(t), bodies) /\ server \in Nat
  BY DEF IInv, Arrived, Fit
<1>2. PICK lo \in 1 .. held :
         SeekOutcome(request, held, t, lo, SeekHi(held, lo),
                     SeekRead(request, held, known, lo, (SeekHi(held, lo) + 1 - lo) \div 2))
  BY SeekUnpacked, Zenon
<1> DEFINE hi == SeekHi(held, lo)
           middle == (hi + 1 - lo) \div 2
           next == SeekRead(request, held, known, lo, middle)
           v == Done(request, held)
           d == Wanted(request)
           B == bodies \cup lo .. hi
<1>3. SeekOutcome(request, held, t, lo, hi, next)
  BY <1>2
<1>4. /\ next \in Windows /\ Whole(next) /\ ~next.oldest
      /\ next.lo = lo /\ next.hi = hi /\ hi \in Nat /\ lo <= hi /\ hi <= held
  <2>1. hi = SeekHi(held, lo) /\ middle = (hi + 1 - lo) \div 2 /\ next = SeekRead(request, held, known, lo, middle)
    OBVIOUS
  <2> HIDE DEF hi, middle, next
  <2> QED BY <1>1, <2>1, SeekWindow
<1>5. Orderly(v, request.waiters) /\ IdsOf(v) = IdsOf(work)
  BY <1>1, DoneOrderly
<1> HIDE DEF hi, middle, next
<1>6. /\ ingest(request, held, lo, hi)
      /\ work' = finishDemand(v, {d.id})
      /\ \/ timeline' = t
         \/ /\ timeline' = placeIsland(t, next, {}, {}).t
            /\ ~(ByTheCount(t, next) /\ OutOfStep(t, Merge(t, next).hi))
  BY <1>3, Zenon DEF SeekOutcome
<1> HIDE DEF v, d
<1>7. WorkShape(v)
  BY <1>5 DEF Orderly
<1>8. Ready(work', Size(t), bodies)
  <2>1. Ready(v, Size(t), bodies)
    BY <1>1 DEF v
  <2> QED BY <1>6, <1>7, <2>1, FinishReady
<1>9. lo \in Nat /\ hi \in Int /\ hi <= held
  BY <1>1, <1>4
<1>10. CASE timeline' = t
  BY <1>6, <1>8, <1>9, <1>10, UnplacedTidy
<1>11. CASE /\ timeline' = placeIsland(t, next, {}, {}).t
            /\ ~(ByTheCount(t, next) /\ OutOfStep(t, Merge(t, next).hi))
  <2>1. bodies \subseteq B /\ Within(t, B) /\ \A n \in B : n <= server
    BY <1>9, ArrivedBodies
  <2>2. Ids(next) \subseteq B
    BY <1>4 DEF Ids
  <2> HIDE DEF B
  <2>3. Placed(placeIsland(t, next, {}, {}).t, t, B)
    BY <1>4, <1>11, <2>1, <2>2, WindowPlaced
  <2>4. Fine(timeline') /\ Keeps(timeline', t) /\ Size(timeline') = Size(t) /\ Within(timeline', B)
    BY <1>11, <2>3 DEF Placed
  <2>5. Ready(work', Size(t), B)
    BY <1>8, <2>1, MoreKnown
  <2> QED BY <1>6, <1>9, <2>4, <2>5, ArrivedTidy DEF B
<1> QED BY <1>6, <1>10, <1>11

\* The confirmation of the cached tail is answered.
LEMMA ValidatedTidy ==
    ASSUME IInv, Tidy, NEW request \in work.underway, NEW held, NEW t,
           Arrived(request, held, t), validated(request, held, t), ~drifted'
    PROVE  TidyStep
<1> DEFINE lo == IF request.whole THEN 1 ELSE Before(held + 1, Block)
           hi == IF request.whole THEN MinOf(held, Block) ELSE held
           n == MinOf(hi + 1 - lo, Size(t))
           B == bodies \cup lo .. hi
<1>1. /\ held \in Nat /\ server \in Nat /\ Size(t) \in Nat /\ Size(t) <= server
      /\ Fine(t) /\ Ready(Done(request, held), Size(t), bodies)
  BY DEF Arrived
<1>2. /\ ingest(request, held, lo, hi)
      /\ timeline' = IF n = 0 THEN t
                     ELSE IF request.whole THEN placeExactWindow(t, 1, 1, n).t
                     ELSE placeExactWindow(t, Size(t) + 1 - n, hi + 1 - n, hi).t
      /\ work' = Done(request, held)
      /\ drifted' = (drifted \/ (~request.whole /\ held # Size(t)))
  BY Zenon DEF validated
<1>3. request.whole \/ held = Size(t)
  BY <1>2
<1>4. Block \in Nat /\ Block >= 1
  BY ThreadPostsAssumption
<1>5. lo \in Nat /\ lo >= 1 /\ hi \in Nat /\ hi <= held /\ (request.whole => lo = 1) /\ (~request.whole => hi = held)
  <2>1. CASE request.whole
    BY <1>1, <1>4, <2>1 DEF MinOf
  <2>2. CASE ~request.whole
    <3>1. lo = Before(held + 1, Block) /\ hi = held /\ held + 1 \in Nat
      BY <1>1, <2>2
    <3> HIDE DEF lo, hi
    <3>2. lo \in Nat /\ lo >= 1
      BY ONLY <1>4, <3>1, BeforeMeans
    <3>3. hi \in Nat /\ hi <= held
      BY ONLY <1>1, <3>1
    <3> QED BY <2>2, <3>1, <3>2, <3>3, Zenon
  <2> QED BY <2>1, <2>2
<1>6. Ready(work', Size(t), bodies)
  BY <1>1, <1>2
<1> HIDE DEF lo, hi
<1>7. CASE n = 0
  <2>1. timeline' = t
    BY <1>2, <1>7
  <2> QED BY <1>2, <1>5, <1>6, <2>1, UnplacedTidy
<1>8. CASE n # 0
  <2>1. PICK low \in Nat, high \in Nat : /\ 1 <= low /\ low <= high /\ high <= Size(t)
                                         /\ timeline' = placeExactWindow(t, low, low, high).t
    <3>1. n \in Int /\ n <= Size(t) /\ n <= (hi + 1) - lo
      <4> DEFINE m == hi + 1 - lo
                 size == Size(t)
      <4>1. m \in Int /\ m = (hi + 1) - lo /\ size \in Nat /\ n = MinOf(m, size)
        BY <1>1, <1>5
      <4> HIDE DEF m, size, n
      <4>2. n \in Int /\ n <= size /\ n <= m
        BY <4>1 DEF MinOf
      <4> QED BY <4>1, <4>2 DEF size
    <3>2. CASE n < 0
      <4>1. n = (hi + 1) - lo
        BY <1>1, <1>5, <3>2 DEF MinOf
      <4>2. ~request.whole
        BY <1>5, <3>2, <4>1
      <4>3. lo <= held + 1
        <5>1. lo = Before(held + 1, Block)
          BY <4>2 DEF lo
        <5> QED BY <1>1, <1>4, <5>1 DEF Before
      <4> QED BY <1>1, <1>5, <3>2, <4>1, <4>2, <4>3
    <3>3. CASE n >= 1 /\ request.whole
      <4>1. timeline' = placeExactWindow(t, 1, 1, n).t
        BY <1>2, <1>8, <3>3
      <4> QED BY <3>1, <3>3, <4>1
    <3>4. CASE n >= 1 /\ ~request.whole
      <4> DEFINE low == hi + 1 - n
      <4>1. timeline' = placeExactWindow(t, Size(t) + 1 - n, hi + 1 - n, hi).t
        BY <1>2, <1>8, <3>4
      <4>2. hi = Size(t)
        BY <1>3, <1>5, <3>4
      <4>3. low \in Nat /\ 1 <= low /\ low <= hi
        BY <1>1, <1>5, <3>1, <3>4, <4>2
      <4>4. timeline' = placeExactWindow(t, low, low, hi).t
        BY <4>1, <4>2
      <4> QED BY <1>5, <4>2, <4>3, <4>4
    <3>5. n < 0 \/ n >= 1
      BY <1>8, <3>1
    <3> HIDE DEF n
    <3> QED BY <3>2, <3>3, <3>4, <3>5
  <2>2. hi \in Int
    BY <1>5
  <2>3. bodies \subseteq B /\ Within(t, B) /\ \A r \in B : r <= server
    BY <1>5, <2>2, ArrivedBodies
  <2> HIDE DEF B
  <2>4. Placed(placeExactWindow(t, low, low, high).t, t, B)
    BY <1>1, <2>1, <2>3, PagePlaced
  <2>5. Fine(timeline') /\ Keeps(timeline', t) /\ Size(timeline') = Size(t) /\ Within(timeline', B)
    BY <2>1, <2>4 DEF Placed
  <2>6. Ready(work', Size(t), B)
    BY <1>6, <2>3, MoreKnown
  <2> QED BY <1>2, <1>5, <2>2, <2>5, <2>6, ArrivedTidy DEF B
<1> QED BY <1>7, <1>8

\* An answer.
LEMMA AnswerTidy == ASSUME IInv, Tidy, Answer, ~drifted' PROVE TidyStep
<1>1. Orderly(work, {}) /\ server \in Nat
  BY DEF IInv, Tidy, Timely
<1>2. PICK request \in work.underway :
        \/ failed(request)
        \/ \E held \in request.since .. server : \E t :
             /\ t = syncLogicalCount(timeline, Ingested(request, held).count)
             /\ \/ request.kind = "page" /\ pageAnswered(request, held, t)
                \/ request.kind = "validate" /\ validated(request, held, t)
                \/ \E known \in BOOLEAN :
                    \/ request.kind = "island" /\ islandAnswered(request, held, known, t)
                    \/ request.kind = "seek" /\ seekAnswered(request, held, known, t)
  BY Zenon DEF Answer
<1>3. CASE failed(request)
  BY <1>3, FailedTidy
<1>4. ASSUME NEW held \in request.since .. server, NEW t,
             t = syncLogicalCount(timeline, Ingested(request, held).count),
             \/ request.kind = "page" /\ pageAnswered(request, held, t)
             \/ request.kind = "validate" /\ validated(request, held, t)
             \/ \E known \in BOOLEAN :
                 \/ request.kind = "island" /\ islandAnswered(request, held, known, t)
                 \/ request.kind = "seek" /\ seekAnswered(request, held, known, t)
      PROVE  TidyStep
  <2>1. Arrived(request, held, t)
    BY <1>1, <1>4, AnswerArrives
  <2> QED BY <1>4, <2>1, PageTidy, ValidatedTidy, IslandTidy, SeekTidy
<1> QED BY <1>2, <1>3, <1>4

-----------------------------------------------------------------------------
(* The specification.                                                      *)

\* Until the count was out of step.
RInv == drifted \in BOOLEAN /\ (drifted \/ Tidy)

\* It holds at first.
LEMMA StartTidy == Init => RInv
<1> SUFFICES ASSUME Init PROVE RInv
  OBVIOUS
<1>1. /\ server \in Nat /\ seen = server /\ root.count = server /\ root.last = server /\ drifted = FALSE
      /\ work.demands = {} /\ work.underway = {} /\ (bodies = {} \/ bodies = 1 .. server)
  BY ThreadPostsAssumption DEF Init
<1>2. /\ timeline = [slots |-> timeline.slots, provisional |-> timeline.provisional, islands |-> timeline.islands,
                     nav |-> timeline.nav]
      /\ timeline.provisional = {} /\ timeline.islands = <<>>
      /\ timeline.slots = [i \in 1 .. server |-> IF bodies = 1 .. server THEN i ELSE 0]
  BY DEF Init
<1>3. timeline.slots \in Seq(Nat) /\ DOMAIN timeline.slots = 1 .. server /\ Len(timeline.slots) = server
  <2>1. timeline.slots \in [1 .. server -> Nat]
    BY <1>1, <1>2
  <2> QED BY <1>1, <2>1
<1>4. StoredIn(timeline) = {} /\ timeline.islands \in Seq(Stored) /\ Len(timeline.islands) = 0
  BY <1>2 DEF StoredIn
<1>5. Shaped(timeline)
  BY <1>2, <1>3, <1>4 DEF Shaped
<1>6. Ranked(timeline)
  BY <1>2, <1>3 DEF Ranked, Confirmed
<1>7. Nested(timeline)
  BY <1>2 DEF Nested
<1>8. Fine(timeline)
  BY <1>4, <1>5, <1>6, <1>7 DEF Fine, Unconfirmed, Fits, Small
<1>9. Within(timeline, bodies)
  BY <1>4 DEF Within
<1>10. Size(timeline) = server
  BY <1>3 DEF Size
<1>11. Timely(timeline, root.count, bodies)
  BY <1>1, <1>8, <1>9, <1>10 DEF Timely
<1>12. Ready(work, root.count, bodies)
  BY <1>1 DEF Ready
<1>13. bodies \subseteq Nat
  BY <1>1
<1> QED BY <1>1, <1>10, <1>11, <1>12, <1>13 DEF RInv, Tidy

\* Once out of step, always.
LEMMA DriftStays ==
    ASSUME RInv, [Next]_vars
    PROVE  drifted' \in BOOLEAN /\ (drifted => drifted')
<1>1. drifted \in BOOLEAN
  BY DEF RInv
<1>2. \/ drifted' = drifted
      \/ \E b : drifted' = (drifted \/ b)
  <2>1. CASE Request
    <3>1. PICK first, last, reason, generation : requestRange(first, last, reason, generation)
      BY <2>1, Zenon DEF Request
    <3> QED BY <3>1, Zenon DEF requestRange
  <2>2. CASE Navigate
    BY <2>2 DEF Navigate, ensurePostIndex
  <2>3. CASE Answer
    <3>1. PICK request, held, t, known :
             \/ failed(request)
             \/ pageAnswered(request, held, t)
             \/ validated(request, held, t)
             \/ islandAnswered(request, held, known, t)
             \/ seekAnswered(request, held, known, t)
      BY <2>3, Zenon DEF Answer
    <3>2. CASE failed(request)
      BY <3>2 DEF failed
    <3>3. CASE pageAnswered(request, held, t)
      BY <3>3, Zenon DEF pageAnswered
    <3>4. CASE validated(request, held, t)
      BY <3>4, Zenon DEF validated
    <3>5. CASE islandAnswered(request, held, known, t)
      BY <3>5, Zenon DEF islandAnswered
    <3>6. CASE seekAnswered(request, held, known, t)
      BY <3>6, Zenon DEF seekAnswered
    <3> QED BY <3>1, <3>2, <3>3, <3>4, <3>5, <3>6
  <2>4. CASE Continue
    BY <2>4 DEF Continue
  <2>5. CASE hydrateCachedTail
    BY <2>5 DEF hydrateCachedTail
  <2>6. CASE onNewPost
    BY <2>6, Zenon DEF onNewPost
  <2>7. CASE CreateReply
    BY <2>7 DEF CreateReply
  <2>8. CASE UNCHANGED vars
    BY <2>8 DEF vars
  <2> QED BY <2>1, <2>2, <2>3, <2>4, <2>5, <2>6, <2>7, <2>8 DEF Next
<1> QED BY <1>1, <1>2

\* Every step keeps it.
LEMMA StepStays ==
    ASSUME IInv, RInv, [Next]_vars
    PROVE  RInv' /\ (drifted' \/ (Tidy /\ TidyStep))
<1>1. drifted' \in BOOLEAN /\ (drifted => drifted')
  BY DriftStays
<1>2. ASSUME ~drifted' PROVE Tidy /\ TidyStep
  <2>1. Tidy
    BY <1>1, <1>2 DEF RInv
  <2>2. TidyStep
    BY <1>2, <2>1, RequestTidy, NavigateTidy, AnswerTidy, ContinueTidy, HydrateTidy, NewPostTidy, CreateTidy, IdleTidy
       DEF Next
  <2> QED BY <2>1, <2>2
<1> QED BY <1>1, <1>2 DEF RInv, TidyStep

\* Confirmed replies are ranked.
LEMMA TidyExact == RInv => ExactRanks
<1> SUFFICES ASSUME Tidy, NEW i \in DOMAIN timeline.slots, timeline.slots[i] # 0, isAuthoritativeIndex(timeline, i)
             PROVE  timeline.slots[i] = i
  BY DEF RInv, ExactRanks
<1>1. Shaped(timeline) /\ Ranked(timeline)
  BY DEF Tidy, Timely, Fine
<1> QED BY <1>1, AuthoritativeMeans DEF Ranked

\* What is kept is authoritative.
LEMMA KeepsConfirmed ==
    ASSUME Tidy, TidyStep, NEW i \in DOMAIN timeline.slots, timeline.slots[i] # 0, isAuthoritativeIndex(timeline, i)
    PROVE  /\ i \in DOMAIN timeline'.slots
           /\ timeline'.slots[i] = timeline.slots[i]
           /\ isAuthoritativeIndex(timeline', i)
<1>1. Shaped(timeline) /\ Shaped(timeline') /\ Keeps(timeline', timeline)
  BY DEF Tidy, TidyStep, Timely, Fine
<1>2. Confirmed(timeline, i)
  BY <1>1, AuthoritativeMeans
<1>3. timeline'.slots[i] = timeline.slots[i] /\ Confirmed(timeline', i) /\ Size(timeline') >= Size(timeline)
  BY <1>1, <1>2 DEF Keeps
<1>4. i \in DOMAIN timeline'.slots
  <2>1. /\ Size(timeline) \in Nat /\ DOMAIN timeline.slots = 1 .. Size(timeline)
        /\ Size(timeline') \in Nat /\ DOMAIN timeline'.slots = 1 .. Size(timeline')
    BY <1>1, SlotsOf DEF Shaped
  <2> QED BY <1>3, <2>1
<1>5. \A u : Shaped(u) => \A k \in DOMAIN u.slots : Confirmed(u, k) => isAuthoritativeIndex(u, k)
  BY AuthoritativeMeans
<1>6. isAuthoritativeIndex(timeline', i)
  BY <1>1, <1>3, <1>4, <1>5
<1> QED BY <1>3, <1>4, <1>6

\* In every reachable state in which the count was not out of step, a confirmed reply has the slot of
\* its rank, however pages, islands, cached rows and live replies have been placed.
THEOREM RanksAreExact == Spec => []ExactRanks
<1>1. Init => IInv /\ RInv
  BY Start, StartTidy
<1>2. IInv /\ RInv /\ [Next]_vars => (IInv /\ RInv)'
  BY Step, StepStays
<1>3. IInv /\ RInv => ExactRanks
  BY TidyExact
<1> QED BY <1>1, <1>2, <1>3, PTL DEF Spec

\* No page, failed demand, change of the count, live reply or navigation forgets a confirmed reply or
\* moves it.
THEOREM ConfirmedRepliesStay == Spec => ConfirmedStays
<1>1. Init => IInv /\ RInv
  BY Start, StartTidy
<1>2. IInv /\ RInv /\ [Next]_vars => (IInv /\ RInv)'
  BY Step, StepStays
<1>3. IInv /\ RInv /\ [Next]_vars =>
        [drifted' \/ \A i \in DOMAIN timeline.slots :
            timeline.slots[i] # 0 /\ isAuthoritativeIndex(timeline, i)
                => /\ i \in DOMAIN timeline'.slots
                   /\ timeline'.slots[i] = timeline.slots[i]
                   /\ isAuthoritativeIndex(timeline', i)]_vars
  BY StepStays, KeepsConfirmed
<1> QED BY <1>1, <1>2, <1>3, PTL DEF Spec, ConfirmedStays

===============================================================================
