------------------------------ MODULE Services_proofs ------------------------------
(***************************************************************************)
(* Invariance proofs for two services of the client.                       *)
(*                                                                         *)
(* HTTPConnector, for any set of connectors and any finite set of          *)
(* requests: slots are counted exactly and kept below the limit, every     *)
(* pending call is in exactly one place, writes are sent once and no slot  *)
(* is left idle.                                                           *)
(*                                                                         *)
(* UserProfiles, for any finite set of users and any views: every view is  *)
(* told of all it waits for, and when nothing is on its way the profiles   *)
(* and the pictures are the server's.                                      *)
(***************************************************************************)
EXTENDS HTTPConnector, UserProfiles, FiniteSetTheorems, SequenceTheorems, WellFoundedInduction, TLAPS

-------------------------------------------------------------------------------
(* The inductive invariant                                                    *)

\* A queue of c holds requests of c and of its priority, none twice.
QueueOf(q, c, S) ==
    /\ q \in Seq(Requests)
    /\ \A i \in 1 .. Len(q) : q[i] \in S /\ Owner[q[i]] = c
    /\ \A i, j \in 1 .. Len(q) : q[i] = q[j] => i = j

Wellformed(h, l) ==
    \A c \in Connectors : QueueOf(h[c], c, Requests \ Low) /\ QueueOf(l[c], c, Low)

Waiting(h, l) == {r \in Requests : \E c \in Connectors : r \in Range(h[c]) \cup Range(l[c])}

\* With the queues h and l, the replies a, of which ab are to be aborted, and the
\* outcomes o: a request is pending while it waits or is out; both only as a read that
\* is replayed and whose old reply is still to be aborted.
PlacesOf(h, l, a, ab, o) ==
    /\ Wellformed(h, l)
    /\ \A r \in Requests : o[r] = "pending" <=> r \in Waiting(h, l) \cup a
    /\ Waiting(h, l) \cap a = ab \cap Gets

Places ==
    /\ PlacesOf(high, low, active, aborting, outcome)
    /\ \A r \in handling \cup old : outcome[r] \notin {"none", "pending"}

Control ==
    /\ handling = {} \/ \E r \in Requests : handling = {r}
    /\ restarting = {} \/ \E c \in Connectors : restarting = {c}
    /\ \A r \in aborting : Owner[r] \in restarting

\* A write that is still to be sent has not been sent.
SentOf(h, l, o, s) ==
    \A r \in Requests \ Gets :
        s[r] =< 1 /\ (o[r] = "none" \/ r \in Waiting(h, l) => s[r] = 0)

Sent == SentOf(high, low, outcome, sends)

\* While no connector is being restarted, the queues are served.
Served ==
    \/ restarting # {} \/ globalActiveRequests >= MaxConcurrentRequests
    \/ \A c \in connectors : high[c] = <<>> /\ low[c] = <<>>

IInv == TypeOK /\ Places /\ Control /\ Sent /\ Served /\ SlotsMatch /\ LimitKept

-------------------------------------------------------------------------------
(* Queues                                                                     *)

\* The range of a queue, index by index.
LEMMA InQueue ==
    ASSUME NEW q \in Seq(Requests), NEW r
    PROVE  r \in Range(q) <=> \E i \in 1 .. Len(q) : r = q[i]
<1>1. DOMAIN q = 1 .. Len(q)
  OBVIOUS
<1>2. QED BY <1>1 DEF Range

\* Taking k requests from the front of a queue leaves the others.
LEMMA Dequeue ==
    ASSUME NEW c, NEW S, NEW q, QueueOf(q, c, S), NEW k \in Nat, k =< Len(q)
    PROVE  /\ QueueOf(SubSeq(q, k + 1, Len(q)), c, S)
           /\ Leading(q, k) \subseteq Range(q)
           /\ Range(SubSeq(q, k + 1, Len(q))) = Range(q) \ Leading(q, k)
<1> DEFINE rest == SubSeq(q, k + 1, Len(q))
<1>1. /\ rest \in Seq(Requests) /\ Len(rest) = Len(q) - k
      /\ \A i \in 1 .. Len(rest) : rest[i] = q[k + i] /\ k + i \in 1 .. Len(q)
  BY DEF QueueOf
<1> HIDE DEF rest
<1>2. QueueOf(rest, c, S)
  <2>1. \A i \in 1 .. Len(rest) : rest[i] \in S /\ Owner[rest[i]] = c
    BY <1>1 DEF QueueOf
  <2>2. ASSUME NEW i \in 1 .. Len(rest), NEW j \in 1 .. Len(rest), rest[i] = rest[j]
        PROVE  i = j
    <3>1. k + i = k + j
      BY <1>1, <2>2 DEF QueueOf
    <3> QED BY <3>1
  <2> QED BY <1>1, <2>1, <2>2 DEF QueueOf
<1>3. Leading(q, k) \subseteq Range(q)
  BY DEF Leading, Range, QueueOf
<1>4. /\ \A r : r \in Range(rest) <=> \E i \in 1 .. Len(rest) : r = rest[i]
      /\ \A r : r \in Range(q) <=> \E i \in 1 .. Len(q) : r = q[i]
  <2>1. q \in Seq(Requests)
    BY DEF QueueOf
  <2> QED BY <1>1, <2>1, InQueue
<1>5. ASSUME NEW r \in Range(rest) PROVE r \in Range(q) \ Leading(q, k)
  <2>1. PICK i \in 1 .. Len(rest) : r = rest[i]
    BY <1>4
  <2>2. r = q[k + i] /\ k + i \in 1 .. Len(q) /\ k + i \notin 1 .. k
    BY <1>1, <2>1
  <2>3. r \notin Leading(q, k)
    BY <2>2 DEF Leading, QueueOf
  <2> QED BY <1>4, <2>2, <2>3
<1>6. ASSUME NEW r \in Range(q), r \notin Leading(q, k) PROVE r \in Range(rest)
  <2>1. PICK i \in 1 .. Len(q) : r = q[i]
    BY <1>4
  <2>2. i \notin 1 .. k
    BY <1>6, <2>1 DEF Leading
  <2>3. i - k \in 1 .. Len(rest) /\ rest[i - k] = q[i]
    BY <1>1, <2>2, Len(q) \in Nat DEF QueueOf
  <2> QED BY <1>4, <2>1, <2>3
<1> QED BY <1>2, <1>3, <1>5, <1>6 DEF rest

\* A request that is not in a queue can be appended to it.
LEMMA Enqueue ==
    ASSUME NEW c, NEW S, NEW q, QueueOf(q, c, S),
           NEW r \in Requests, r \in S, Owner[r] = c, r \notin Range(q)
    PROVE  QueueOf(Append(q, r), c, S) /\ Range(Append(q, r)) = Range(q) \cup {r}
<1> DEFINE longer == Append(q, r)
<1>1. /\ longer \in Seq(Requests) /\ Len(longer) = Len(q) + 1 /\ Len(q) \in Nat
      /\ \A i \in 1 .. Len(q) : longer[i] = q[i]
      /\ longer[Len(q) + 1] = r
  BY DEF QueueOf
<1> HIDE DEF longer
<1>2. /\ \A x : x \in Range(longer) <=> \E i \in 1 .. Len(longer) : x = longer[i]
      /\ \A x : x \in Range(q) <=> \E i \in 1 .. Len(q) : x = q[i]
  <2>1. q \in Seq(Requests)
    BY DEF QueueOf
  <2> QED BY <1>1, <2>1, InQueue
<1>3. \A i \in 1 .. Len(longer) : i \in 1 .. Len(q) \/ i = Len(q) + 1
  BY <1>1
<1>4. QueueOf(longer, c, S)
  BY <1>1, <1>2, <1>3 DEF QueueOf
<1>5. Range(longer) = Range(q) \cup {r}
  BY <1>1, <1>2, <1>3
<1> QED BY <1>4, <1>5 DEF longer

\* A finite set of requests that are not in a queue can be put before it, in any order.
LEMMA Prepend ==
    ASSUME NEW c, NEW S, NEW q, QueueOf(q, c, S),
           NEW T \in SUBSET Requests, T \subseteq S, \A r \in T : Owner[r] = c,
           T \cap Range(q) = {}, NEW p \in SetToSeqs(T)
    PROVE  QueueOf(p \o q, c, S) /\ Range(p \o q) = T \cup Range(q)
<1>1. IsFiniteSet(T) /\ Cardinality(T) \in Nat
  BY FS_Subset, FS_CardinalityType, HTTPAssumption DEF HTTPAssumption
<1>2. /\ p \in [1 .. Cardinality(T) -> T]
      /\ \A i, j \in 1 .. Cardinality(T) : i # j => p[i] # p[j]
  BY DEF SetToSeqs
<1>3. p \in Injection(1 .. Cardinality(T), T)
  BY <1>2 DEF Injection, IsInjective
<1>4. IsFiniteSet(1 .. Cardinality(T)) /\ Cardinality(1 .. Cardinality(T)) = Cardinality(T)
  <2>1. Cardinality(1 .. Cardinality(T)) = IF 1 > Cardinality(T) THEN 0 ELSE Cardinality(T) - 1 + 1
    BY <1>1, FS_Interval
  <2> QED BY <1>1, <2>1, FS_Interval
<1>5. p \in Surjection(1 .. Cardinality(T), T)
  BY <1>1, <1>3, <1>4, FS_Injection
<1>6. p \in Seq(Requests) /\ Len(p) = Cardinality(T)
  BY <1>1, <1>2
<1>7. Range(p) = T
  BY <1>2, <1>5 DEF Range, Surjection
<1> DEFINE longer == p \o q
<1>8. /\ longer \in Seq(Requests) /\ Len(longer) = Len(p) + Len(q)
      /\ Len(p) \in Nat /\ Len(q) \in Nat
      /\ \A i \in 1 .. Len(p) : longer[i] = p[i]
      /\ \A i \in 1 .. Len(q) : longer[Len(p) + i] = q[i] /\ Len(p) + i \in 1 .. Len(longer)
  BY <1>6 DEF QueueOf
<1>9. \A i \in 1 .. Len(longer) : i \in 1 .. Len(p) \/ (i - Len(p) \in 1 .. Len(q) /\ longer[i] = q[i - Len(p)])
  BY <1>6 DEF QueueOf
<1> HIDE DEF longer
<1>10. /\ \A r : r \in Range(longer) <=> \E i \in 1 .. Len(longer) : r = longer[i]
       /\ \A r : r \in Range(q) <=> \E i \in 1 .. Len(q) : r = q[i]
       /\ \A r : r \in T <=> \E i \in 1 .. Len(p) : r = p[i]
  <2>1. q \in Seq(Requests)
    BY DEF QueueOf
  <2> QED BY <1>6, <1>7, <1>8, <2>1, InQueue
<1>11. Range(longer) = T \cup Range(q)
  <2>1. q \in Seq(Requests)
    BY DEF QueueOf
  <2> QED BY <1>6, <1>7, <2>1, RangeConcatenation DEF longer
<1>12. ASSUME NEW i \in 1 .. Len(longer), NEW j \in 1 .. Len(longer), longer[i] = longer[j]
       PROVE  i = j
  <2>1. CASE i \in 1 .. Len(p) /\ j \in 1 .. Len(p)
    BY <1>2, <1>6, <1>8, <1>12, <2>1
  <2>2. CASE i \in 1 .. Len(p) /\ j \notin 1 .. Len(p)
    BY <1>8, <1>9, <1>10, <1>12, <2>2
  <2>3. CASE i \notin 1 .. Len(p) /\ j \in 1 .. Len(p)
    BY <1>8, <1>9, <1>10, <1>12, <2>3
  <2>4. CASE i \notin 1 .. Len(p) /\ j \notin 1 .. Len(p)
    <3>1. i - Len(p) = j - Len(p)
      <4>1. /\ i - Len(p) \in 1 .. Len(q) /\ longer[i] = q[i - Len(p)]
            /\ j - Len(p) \in 1 .. Len(q) /\ longer[j] = q[j - Len(p)]
        BY <1>9, <2>4
      <4>2. \A m, n \in 1 .. Len(q) : q[m] = q[n] => m = n
        BY DEF QueueOf
      <4> QED BY <1>12, <4>1, <4>2
    <3> QED BY <1>8, <3>1
  <2> QED BY <2>1, <2>2, <2>3, <2>4
<1>13. ASSUME NEW r \in Range(longer) PROVE r \in S /\ Owner[r] = c
  <2>1. CASE r \in T
    BY <2>1
  <2>2. CASE r \in Range(q)
    <3>1. PICK i \in 1 .. Len(q) : r = q[i]
      BY <1>10, <2>2
    <3> QED BY <3>1 DEF QueueOf
  <2> QED BY <1>11, <2>1, <2>2
<1>14. QueueOf(longer, c, S)
  BY <1>8, <1>10, <1>12, <1>13 DEF QueueOf
<1> QED BY <1>11, <1>14 DEF longer

\* The empty queue is a queue of any connector.
LEMMA EmptyQueue == \A c, S : QueueOf(<<>>, c, S) /\ Range(<<>>) = {}
BY DEF QueueOf, Range

\* What is in a queue belongs to its connector and has its priority.
LEMMA QueueMember ==
    ASSUME NEW c, NEW S, NEW q, QueueOf(q, c, S), NEW r \in Range(q)
    PROVE  r \in S /\ r \in Requests /\ Owner[r] = c
<1>1. q \in Seq(Requests)
  BY DEF QueueOf
<1>2. PICK i \in 1 .. Len(q) : r = q[i]
  BY <1>1, InQueue
<1> QED BY <1>1, <1>2 DEF QueueOf

\* A waiting request waits in a queue of its own connector.
LEMMA WaitsAtOwner ==
    ASSUME NEW h, NEW l, Wellformed(h, l), NEW r \in Waiting(h, l)
    PROVE  /\ r \in Requests /\ Owner[r] \in Connectors
           /\ r \in Low => r \in Range(l[Owner[r]])
           /\ r \notin Low => r \in Range(h[Owner[r]])
<1>1. PICK c \in Connectors : r \in Range(h[c]) \cup Range(l[c])
  BY DEF Waiting
<1>2. CASE r \in Range(h[c])
  BY <1>1, <1>2, QueueMember DEF Wellformed
<1>3. CASE r \in Range(l[c])
  BY <1>1, <1>3, QueueMember DEF Wellformed
<1> QED BY <1>1, <1>2, <1>3

\* To wait is to be in a queue of the own connector.
LEMMA WaitsOnlyAtOwner ==
    ASSUME NEW h, NEW l, Wellformed(h, l), NEW r \in Requests
    PROVE  r \in Waiting(h, l) <=> r \in Range(h[Owner[r]]) \cup Range(l[Owner[r]])
<1>1. Owner[r] \in Connectors
  BY HTTPAssumption DEF HTTPAssumption
<1>2. r \in Range(h[Owner[r]]) \cup Range(l[Owner[r]]) => r \in Waiting(h, l)
  BY <1>1 DEF Waiting
<1> QED BY <1>2, WaitsAtOwner

\* When the queues of one connector change, what waits at the others stays.
LEMMA QueuesChanged ==
    ASSUME NEW h \in [Connectors -> Seq(Requests)], NEW l \in [Connectors -> Seq(Requests)],
           Wellformed(h, l), NEW c \in Connectors,
           NEW q, QueueOf(q, c, Requests \ Low), NEW p, QueueOf(p, c, Low)
    PROVE  /\ Wellformed([h EXCEPT ![c] = q], [l EXCEPT ![c] = p])
           /\ \A r \in Requests :
                 r \in Waiting([h EXCEPT ![c] = q], [l EXCEPT ![c] = p])
                   <=> \/ Owner[r] # c /\ r \in Waiting(h, l)
                       \/ Owner[r] = c /\ r \in Range(q) \cup Range(p)
<1> DEFINE hh == [h EXCEPT ![c] = q]
           ll == [l EXCEPT ![c] = p]
<1>1. \A d \in Connectors : /\ d # c => hh[d] = h[d] /\ ll[d] = l[d]
                            /\ d = c => hh[d] = q /\ ll[d] = p
  OBVIOUS
<1> HIDE DEF hh, ll
<1>2. Wellformed(hh, ll)
  BY <1>1 DEF Wellformed
<1>3. ASSUME NEW r \in Requests
      PROVE  r \in Waiting(hh, ll) <=> \/ Owner[r] # c /\ r \in Waiting(h, l)
                                       \/ Owner[r] = c /\ r \in Range(q) \cup Range(p)
  <2>1. Owner[r] \in Connectors
    BY HTTPAssumption DEF HTTPAssumption
  <2>2. r \in Waiting(hh, ll) <=> r \in Range(hh[Owner[r]]) \cup Range(ll[Owner[r]])
    BY <1>2, WaitsOnlyAtOwner
  <2>3. r \in Waiting(h, l) <=> r \in Range(h[Owner[r]]) \cup Range(l[Owner[r]])
    BY WaitsOnlyAtOwner
  <2> QED BY <1>1, <2>1, <2>2, <2>3
<1> QED BY <1>2, <1>3 DEF hh, ll

\* Queues emptied by GiveUp.
LEMMA Cleared ==
    ASSUME NEW h \in [Connectors -> Seq(Requests)], NEW l \in [Connectors -> Seq(Requests)],
           Wellformed(h, l), NEW c \in Connectors
    PROVE  /\ Wellformed([h EXCEPT ![c] = <<>>], [l EXCEPT ![c] = <<>>])
           /\ \A r \in Requests : r \in Waiting([h EXCEPT ![c] = <<>>], [l EXCEPT ![c] = <<>>])
                                    <=> Owner[r] # c /\ r \in Waiting(h, l)
<1> DEFINE q == <<>>
<1>1. QueueOf(q, c, Requests \ Low) /\ QueueOf(q, c, Low) /\ Range(q) = {}
  BY EmptyQueue
<1> HIDE DEF q
<1>2. /\ Wellformed([h EXCEPT ![c] = q], [l EXCEPT ![c] = q])
      /\ \A r \in Requests :
            r \in Waiting([h EXCEPT ![c] = q], [l EXCEPT ![c] = q])
              <=> \/ Owner[r] # c /\ r \in Waiting(h, l)
                  \/ Owner[r] = c /\ r \in Range(q) \cup Range(q)
  BY <1>1, QueuesChanged
<1> QED BY <1>1, <1>2 DEF q

Joined(h, r) == IF r \in Low THEN h ELSE [h EXCEPT ![Owner[r]] = Append(@, r)]
JoinedLow(l, r) == IF r \in Low THEN [l EXCEPT ![Owner[r]] = Append(@, r)] ELSE l

\* A request added by enqueue.
LEMMA Appended ==
    ASSUME NEW h \in [Connectors -> Seq(Requests)], NEW l \in [Connectors -> Seq(Requests)],
           Wellformed(h, l), NEW r \in Requests, r \notin Waiting(h, l)
    PROVE  /\ Wellformed(Joined(h, r), JoinedLow(l, r))
           /\ \A x \in Requests :
                 x \in Waiting(Joined(h, r), JoinedLow(l, r)) <=> x \in Waiting(h, l) \cup {r}
<1> DEFINE hh == Joined(h, r)
           ll == JoinedLow(l, r)
<1> DEFINE c == Owner[r]
           q == IF r \in Low THEN h[c] ELSE Append(h[c], r)
           p == IF r \in Low THEN Append(l[c], r) ELSE l[c]
<1>1. c \in Connectors
  BY HTTPAssumption DEF HTTPAssumption
<1>2. /\ QueueOf(h[c], c, Requests \ Low) /\ QueueOf(l[c], c, Low)
      /\ r \notin Range(h[c]) /\ r \notin Range(l[c])
  BY <1>1 DEF Wellformed, Waiting
<1>3. /\ QueueOf(q, c, Requests \ Low)
      /\ Range(q) = Range(h[c]) \cup (IF r \in Low THEN {} ELSE {r})
  <2>1. CASE r \in Low
    BY <1>2, <2>1
  <2>2. CASE r \notin Low
    <3>1. r \in Requests \ Low /\ Owner[r] = c
      BY <2>2
    <3>2. r \in Requests \ Low /\ r \notin Range(h[c]) /\ QueueOf(h[c], c, Requests \ Low)
      BY <1>2, <3>1
    <3> HIDE DEF c
    <3>3. QueueOf(Append(h[c], r), c, Requests \ Low) /\ Range(Append(h[c], r)) = Range(h[c]) \cup {r}
      BY <3>1, <3>2, Enqueue
    <3> QED BY <2>2, <3>3
  <2> QED BY <2>1, <2>2
<1>4. /\ QueueOf(p, c, Low)
      /\ Range(p) = Range(l[c]) \cup (IF r \in Low THEN {r} ELSE {})
  <2>1. CASE r \notin Low
    BY <1>2, <2>1
  <2>2. CASE r \in Low
    <3>1. Owner[r] = c
      OBVIOUS
    <3>2. r \in Low /\ r \notin Range(l[c]) /\ QueueOf(l[c], c, Low)
      BY <1>2, <2>2
    <3> HIDE DEF c
    <3>3. QueueOf(Append(l[c], r), c, Low) /\ Range(Append(l[c], r)) = Range(l[c]) \cup {r}
      BY <3>1, <3>2, Enqueue
    <3> QED BY <2>2, <3>3
  <2> QED BY <2>1, <2>2
<1>5. hh = [h EXCEPT ![c] = q] /\ ll = [l EXCEPT ![c] = p]
  BY <1>1 DEF Joined, JoinedLow
<1> HIDE DEF c, q, p, hh, ll
<1>6. /\ Wellformed(hh, ll)
      /\ \A x \in Requests : x \in Waiting(hh, ll)
                               <=> \/ Owner[x] # c /\ x \in Waiting(h, l)
                                   \/ Owner[x] = c /\ x \in Range(q) \cup Range(p)
  <2>1. QueueOf(q, c, Requests \ Low) /\ QueueOf(p, c, Low)
    BY <1>3, <1>4
  <2>2. /\ Wellformed([h EXCEPT ![c] = q], [l EXCEPT ![c] = p])
        /\ \A x \in Requests :
              x \in Waiting([h EXCEPT ![c] = q], [l EXCEPT ![c] = p])
                <=> \/ Owner[x] # c /\ x \in Waiting(h, l)
                    \/ Owner[x] = c /\ x \in Range(q) \cup Range(p)
    BY <1>1, <2>1, QueuesChanged
  <2> QED BY <1>5, <2>2, Zenon
<1>7. ASSUME NEW x \in Requests PROVE x \in Waiting(hh, ll) <=> x \in Waiting(h, l) \cup {r}
  <2>1. x \in Waiting(h, l) <=> x \in Range(h[Owner[x]]) \cup Range(l[Owner[x]])
    BY WaitsOnlyAtOwner
  <2>2. x = r => Owner[x] = c
    BY DEF c
  <2> QED BY <1>3, <1>4, <1>6, <2>1, <2>2
<1> QED BY <1>6, <1>7 DEF hh, ll

\* Reads put back by restartTransport.
LEMMA PutBack ==
    ASSUME NEW h \in [Connectors -> Seq(Requests)], NEW l \in [Connectors -> Seq(Requests)],
           Wellformed(h, l), NEW c \in Connectors, NEW T \in SUBSET Requests,
           \A r \in T : Owner[r] = c /\ r \notin Waiting(h, l),
           NEW s \in SetToSeqs(T \ Low), NEW t \in SetToSeqs(T \cap Low)
    PROVE  /\ Wellformed([h EXCEPT ![c] = s \o @], [l EXCEPT ![c] = t \o @])
           /\ \A r \in Requests : r \in Waiting([h EXCEPT ![c] = s \o @], [l EXCEPT ![c] = t \o @])
                                    <=> r \in Waiting(h, l) \cup T
<1> DEFINE hh == [h EXCEPT ![c] = s \o h[c]]
           ll == [l EXCEPT ![c] = t \o l[c]]
<1>1. QueueOf(h[c], c, Requests \ Low) /\ QueueOf(l[c], c, Low)
  BY DEF Wellformed
<1>2. \A r \in T : r \notin Range(h[c]) /\ r \notin Range(l[c])
  BY DEF Waiting
<1>3. QueueOf(s \o h[c], c, Requests \ Low) /\ Range(s \o h[c]) = (T \ Low) \cup Range(h[c])
  <2> DEFINE U == T \ Low
  <2>1. /\ U \in SUBSET Requests /\ U \subseteq Requests \ Low
        /\ \A r \in U : Owner[r] = c
        /\ U \cap Range(h[c]) = {} /\ s \in SetToSeqs(U)
    BY <1>2
  <2> HIDE DEF U
  <2>2. QueueOf(s \o h[c], c, Requests \ Low) /\ Range(s \o h[c]) = U \cup Range(h[c])
    BY <1>1, <2>1, Prepend, SMTT(60)
  <2> QED BY <2>2 DEF U
<1>4. QueueOf(t \o l[c], c, Low) /\ Range(t \o l[c]) = (T \cap Low) \cup Range(l[c])
  <2> DEFINE U == T \cap Low
  <2>1. /\ U \in SUBSET Requests /\ U \subseteq Low
        /\ \A r \in U : Owner[r] = c
        /\ U \cap Range(l[c]) = {} /\ t \in SetToSeqs(U)
    BY <1>2
  <2> HIDE DEF U
  <2>2. QueueOf(t \o l[c], c, Low) /\ Range(t \o l[c]) = U \cup Range(l[c])
    BY <1>1, <2>1, Prepend, SMTT(60)
  <2> QED BY <2>2 DEF U
<1>5. /\ Wellformed(hh, ll)
      /\ \A r \in Requests : r \in Waiting(hh, ll)
                               <=> \/ Owner[r] # c /\ r \in Waiting(h, l)
                                   \/ Owner[r] = c /\ r \in Range(s \o h[c]) \cup Range(t \o l[c])
  <2> DEFINE q == s \o h[c]
             p == t \o l[c]
  <2>1. QueueOf(q, c, Requests \ Low) /\ QueueOf(p, c, Low)
    BY <1>3, <1>4
  <2>2. hh = [h EXCEPT ![c] = q] /\ ll = [l EXCEPT ![c] = p]
    OBVIOUS
  <2> HIDE DEF q, p
  <2>3. /\ Wellformed([h EXCEPT ![c] = q], [l EXCEPT ![c] = p])
        /\ \A r \in Requests :
              r \in Waiting([h EXCEPT ![c] = q], [l EXCEPT ![c] = p])
                <=> \/ Owner[r] # c /\ r \in Waiting(h, l)
                    \/ Owner[r] = c /\ r \in Range(q) \cup Range(p)
    BY <2>1, QueuesChanged
  <2> HIDE DEF hh, ll
  <2>4. /\ Wellformed(hh, ll)
        /\ \A r \in Requests : r \in Waiting(hh, ll)
                                 <=> \/ Owner[r] # c /\ r \in Waiting(h, l)
                                     \/ Owner[r] = c /\ r \in Range(q) \cup Range(p)
    BY <2>2, <2>3, Zenon
  <2> QED BY <2>4 DEF q, p
<1> HIDE DEF hh, ll
<1>6. ASSUME NEW r \in Requests PROVE r \in Waiting(hh, ll) <=> r \in Waiting(h, l) \cup T
  <2>1. r \in Waiting(h, l) <=> r \in Range(h[Owner[r]]) \cup Range(l[Owner[r]])
    BY WaitsOnlyAtOwner
  <2> QED BY <1>3, <1>4, <1>5, <2>1
<1>7. hh = [h EXCEPT ![c] = s \o @] /\ ll = [l EXCEPT ![c] = t \o @]
  BY DEF hh, ll
<1> QED BY <1>5, <1>6, <1>7

-------------------------------------------------------------------------------
(* Counting                                                                   *)

\* The cardinality of a disjoint union of sets of requests.
LEMMA Counting ==
    ASSUME NEW X \in SUBSET Requests, NEW Y \in SUBSET Requests, X \cap Y = {}
    PROVE  /\ Cardinality(X) \in Nat /\ Cardinality(Y) \in Nat
           /\ Cardinality(X \cup Y) = Cardinality(X) + Cardinality(Y)
<1>1. IsFiniteSet(X) /\ IsFiniteSet(Y)
  BY FS_Subset, HTTPAssumption DEF HTTPAssumption
<1>2. Cardinality(X) \in Nat /\ Cardinality(Y) \in Nat
  BY <1>1, FS_CardinalityType
<1>3. Cardinality(X \cup Y) = Cardinality(X) + Cardinality(Y) - Cardinality(X \cap Y)
  BY <1>1, FS_Union
<1>4. Cardinality(X \cap Y) = 0
  BY FS_EmptySet
<1> QED BY <1>2, <1>3, <1>4

\* One request less.
LEMMA CountingOne ==
    ASSUME NEW X \in SUBSET Requests, NEW r \in X
    PROVE  /\ Cardinality(X) \in Nat \ {0} /\ Cardinality(X \ {r}) = Cardinality(X) - 1
           /\ \A c : Of(c, X \ {r}) = Of(c, X) \ (IF Owner[r] = c THEN {r} ELSE {})
<1>1. X \ {r} \in SUBSET Requests /\ {r} \in SUBSET Requests /\ X = (X \ {r}) \cup {r}
  OBVIOUS
<1>2. /\ Cardinality(X \ {r}) \in Nat
      /\ Cardinality((X \ {r}) \cup {r}) = Cardinality(X \ {r}) + Cardinality({r})
  BY <1>1, Counting
<1>3. Cardinality({r}) = 1
  BY FS_Singleton
<1>4. \A c : Of(c, X \ {r}) = Of(c, X) \ (IF Owner[r] = c THEN {r} ELSE {})
  BY DEF Of
<1>5. Cardinality(X) = Cardinality(X \ {r}) + 1
  <2>1. Cardinality(X) = Cardinality((X \ {r}) \cup {r})
    BY <1>1
  <2> QED BY <1>2, <1>3, <2>1
<1>6. Cardinality(X) \in Nat \ {0} /\ Cardinality(X \ {r}) = Cardinality(X) - 1
  BY <1>2, <1>5
<1> QED BY <1>4, <1>6

-------------------------------------------------------------------------------
(* Serving the queues                                                         *)

\* What processQueues does: it moves some waiting requests of serving connectors out.
Starts(serving, h, l, a, count, total, started) ==
    /\ \A r \in started : Owner[r] \in serving
    /\ high' \in [Connectors -> Seq(Requests)] /\ low' \in [Connectors -> Seq(Requests)]
    /\ Wellformed(high', low')
    /\ Waiting(high', low') = Waiting(h, l) \ started
    /\ active' = a \cup started
    /\ activeRequests' = [c \in Connectors |-> count[c] + Cardinality(Of(c, started))]
    /\ globalActiveRequests' = total + Cardinality(started)
    /\ started # {} => globalActiveRequests' =< MaxConcurrentRequests
    /\ \/ globalActiveRequests' >= MaxConcurrentRequests
       \/ \A c \in serving : high'[c] = <<>> /\ low'[c] = <<>>
    /\ sends' = [r \in Requests |-> sends[r] + IF r \in started THEN 1 ELSE 0]

LEMMA Started ==
    ASSUME NEW serving \in SUBSET Connectors, NEW h, NEW l, Wellformed(h, l),
           NEW a, NEW count, NEW total, processQueues(serving, h, l, a, count, total)
    PROVE  \E started \in SUBSET Waiting(h, l) : Starts(serving, h, l, a, count, total, started)
<1>1. PICK m \in [Connectors -> 0 .. MaxConcurrentRequests],
           n \in [Connectors -> 0 .. MaxConcurrentRequests] :
        processQueues(serving, h, l, a, count, total)!(m, n)
  BY DEF processQueues
<1> DEFINE started == UNION {Leading(h[c], m[c]) \cup Leading(l[c], n[c]) : c \in Connectors}
<1>2. \A c \in Connectors :
        /\ m[c] \in Nat /\ m[c] =< Len(h[c]) /\ n[c] \in Nat /\ n[c] =< Len(l[c])
        /\ c \notin serving => m[c] = 0 /\ n[c] = 0
  BY <1>1, HTTPAssumption DEF HTTPAssumption
<1>3. \A c \in Connectors : high'[c] = SubSeq(h[c], m[c] + 1, Len(h[c]))
                          /\ low'[c] = SubSeq(l[c], n[c] + 1, Len(l[c]))
  BY <1>1
<1>4. \A c \in Connectors :
        /\ QueueOf(high'[c], c, Requests \ Low) /\ QueueOf(low'[c], c, Low)
        /\ Leading(h[c], m[c]) \subseteq Range(h[c]) /\ Leading(l[c], n[c]) \subseteq Range(l[c])
        /\ Range(high'[c]) = Range(h[c]) \ Leading(h[c], m[c])
        /\ Range(low'[c]) = Range(l[c]) \ Leading(l[c], n[c])
  <2> SUFFICES ASSUME NEW c \in Connectors
               PROVE  /\ QueueOf(high'[c], c, Requests \ Low) /\ QueueOf(low'[c], c, Low)
                      /\ Leading(h[c], m[c]) \subseteq Range(h[c])
                      /\ Leading(l[c], n[c]) \subseteq Range(l[c])
                      /\ Range(high'[c]) = Range(h[c]) \ Leading(h[c], m[c])
                      /\ Range(low'[c]) = Range(l[c]) \ Leading(l[c], n[c])
    OBVIOUS
  <2>1. QueueOf(h[c], c, Requests \ Low) /\ QueueOf(l[c], c, Low)
    BY DEF Wellformed
  <2>2. m[c] \in Nat /\ m[c] =< Len(h[c]) /\ n[c] \in Nat /\ n[c] =< Len(l[c])
    BY <1>2
  <2>3. /\ QueueOf(SubSeq(h[c], m[c] + 1, Len(h[c])), c, Requests \ Low)
        /\ Leading(h[c], m[c]) \subseteq Range(h[c])
        /\ Range(SubSeq(h[c], m[c] + 1, Len(h[c]))) = Range(h[c]) \ Leading(h[c], m[c])
    BY <2>1, <2>2, Dequeue
  <2>4. /\ QueueOf(SubSeq(l[c], n[c] + 1, Len(l[c])), c, Low)
        /\ Leading(l[c], n[c]) \subseteq Range(l[c])
        /\ Range(SubSeq(l[c], n[c] + 1, Len(l[c]))) = Range(l[c]) \ Leading(l[c], n[c])
    BY <2>1, <2>2, Dequeue
  <2> QED BY <1>3, <2>3, <2>4
<1>5. ASSUME NEW c \in Connectors, NEW r
      PROVE  /\ r \in Range(h[c]) => r \in Requests \ Low /\ Owner[r] = c
             /\ r \in Range(l[c]) => r \in Requests \cap Low /\ Owner[r] = c
  <2>1. QueueOf(h[c], c, Requests \ Low) /\ QueueOf(l[c], c, Low)
    BY DEF Wellformed
  <2>2. CASE r \in Range(h[c]) /\ r \notin Range(l[c])
    BY <2>1, <2>2, QueueMember
  <2>3. CASE r \in Range(l[c])
    <3>1. r \in Low /\ r \in Requests /\ Owner[r] = c
      BY <2>1, <2>3, QueueMember
    <3>2. r \notin Range(h[c])
      BY <2>1, <3>1, QueueMember
    <3> QED BY <3>1, <3>2
  <2> QED BY <2>2, <2>3
<1>6. ASSUME NEW r
      PROVE  r \in started <=> \E c \in Connectors : \/ r \in Leading(h[c], m[c])
                                                   \/ r \in Leading(l[c], n[c])
  OBVIOUS
<1>7. /\ active' = a \cup started
      /\ activeRequests' = [c \in Connectors |-> count[c] + Cardinality(Of(c, started))]
      /\ globalActiveRequests' = total + Cardinality(started)
      /\ started # {} => globalActiveRequests' =< MaxConcurrentRequests
      /\ \/ globalActiveRequests' >= MaxConcurrentRequests
         \/ \A c \in serving : high'[c] = <<>> /\ low'[c] = <<>>
      /\ sends' = [r \in Requests |-> sends[r] + IF r \in started THEN 1 ELSE 0]
  BY <1>1
<1>8. high' \in [Connectors -> Seq(Requests)] /\ low' \in [Connectors -> Seq(Requests)]
  <2>1. \A c \in Connectors : high'[c] \in Seq(Requests) /\ low'[c] \in Seq(Requests)
    BY <1>4 DEF QueueOf
  <2>2. /\ high' = [c \in Connectors |-> SubSeq(h[c], m[c] + 1, Len(h[c]))]
        /\ low' = [c \in Connectors |-> SubSeq(l[c], n[c] + 1, Len(l[c]))]
    BY <1>1
  <2> QED BY <1>3, <2>1, <2>2
<1>9. Wellformed(high', low')
  BY <1>4 DEF Wellformed
<1> HIDE DEF started
<1>10. started \subseteq Waiting(h, l)
  BY <1>4, <1>5, <1>6 DEF Waiting
<1>11. ASSUME NEW r \in started PROVE Owner[r] \in serving
  <2>1. PICK c \in Connectors : r \in Leading(h[c], m[c]) \/ r \in Leading(l[c], n[c])
    BY <1>6
  <2>2. Owner[r] = c
    BY <1>4, <1>5, <2>1
  <2>3. Leading(h[c], 0) = {} /\ Leading(l[c], 0) = {}
    BY DEF Leading
  <2> QED BY <1>2, <2>1, <2>2, <2>3
<1>12. Waiting(high', low') = Waiting(h, l) \ started
  <2>1. ASSUME NEW r \in Waiting(high', low') PROVE r \in Waiting(h, l) /\ r \notin started
    <3>0. r \in Requests /\ \E c \in Connectors : r \in Range(high'[c]) \cup Range(low'[c])
      BY DEF Waiting
    <3>4. PICK c \in Connectors : r \in Range(high'[c]) \cup Range(low'[c])
      BY <3>0
    <3>1. \/ r \in Range(h[c]) /\ r \notin Leading(h[c], m[c])
          \/ r \in Range(l[c]) /\ r \notin Leading(l[c], n[c])
      <4>1. /\ Range(high'[c]) = Range(h[c]) \ Leading(h[c], m[c])
            /\ Range(low'[c]) = Range(l[c]) \ Leading(l[c], n[c])
        BY <1>4
      <4> QED BY <3>4, <4>1
    <3>2. ASSUME r \in started PROVE FALSE
      <4>1. PICK d \in Connectors : r \in Leading(h[d], m[d]) \/ r \in Leading(l[d], n[d])
        BY <1>6, <3>2
      <4>2. \/ r \in Range(h[d]) /\ r \in Leading(h[d], m[d])
            \/ r \in Range(l[d]) /\ r \in Leading(l[d], n[d])
        <5>1. Leading(h[d], m[d]) \subseteq Range(h[d]) /\ Leading(l[d], n[d]) \subseteq Range(l[d])
          BY <1>4
        <5> QED BY <4>1, <5>1
      <4> QED BY <1>5, <3>1, <4>2
    <3>3. r \in Waiting(h, l)
      BY <3>0, <3>1 DEF Waiting
    <3> QED BY <3>2, <3>3
  <2>2. ASSUME NEW r \in Waiting(h, l), r \notin started PROVE r \in Waiting(high', low')
    <3>1. r \in Requests
      BY DEF Waiting
    <3>2. PICK c \in Connectors : r \in Range(h[c]) \cup Range(l[c])
      BY DEF Waiting
    <3>3. r \in Range(high'[c]) \cup Range(low'[c])
      BY <1>4, <1>6, <2>2, <3>2
    <3> QED BY <3>1, <3>3 DEF Waiting
  <2> QED BY <2>1, <2>2
<1>13. Starts(serving, h, l, a, count, total, started)
  BY <1>7, <1>8, <1>9, <1>11, <1>12 DEF Starts
<1> QED BY <1>10, <1>13

\* What a handler needs to show before it serves the queues h and l of the connectors in
\* serving with the replies a: then the invariant holds afterwards.
Ready(serving, h, l, a, count, total) ==
    /\ a \in SUBSET Requests /\ count \in [Connectors -> Nat] /\ total \in Nat
    /\ PlacesOf(h, l, a, aborting', outcome') /\ SentOf(h, l, outcome', sends)
    /\ aborting' \subseteq a /\ \A r \in aborting' : Owner[r] \in restarting'
    /\ handling' \subseteq Requests /\ \A r \in handling' : outcome'[r] # "pending"
    /\ \A c \in Connectors : count[c] = Cardinality(Of(c, a \cup (handling' \ old')))
    /\ total = Cardinality(a \cup (handling' \ old')) /\ total =< MaxConcurrentRequests
    /\ serving \in SUBSET Connectors /\ serving \cap restarting' = {}
    /\ restarting' # {} \/ connectors' \subseteq serving

Limits ==
    /\ high \in [Connectors -> Seq(Requests)] /\ low \in [Connectors -> Seq(Requests)]
    /\ active \subseteq Requests /\ aborting \subseteq active
    /\ activeRequests \in [Connectors -> Nat] /\ globalActiveRequests \in Nat
    /\ sends \in [Requests -> Nat]
    /\ PlacesOf(high, low, active, aborting, outcome)
    /\ Sent /\ Served /\ SlotsMatch /\ LimitKept

\* After processQueues everything that concerns the limiter holds, if its caller was ready.
LEMMA Serve ==
    ASSUME sends \in [Requests -> Nat],
           NEW serving, NEW h, NEW l, NEW a, NEW count, NEW total,
           Ready(serving, h, l, a, count, total),
           processQueues(serving, h, l, a, count, total)
    PROVE  Limits'
<1> DEFINE busy == a \cup (handling' \ old')
<1>1. serving \in SUBSET Connectors /\ Wellformed(h, l)
  BY DEF Ready, PlacesOf
<1>2. PICK started \in SUBSET Waiting(h, l) : Starts(serving, h, l, a, count, total, started)
  BY <1>1, Started
<1>3. started \in SUBSET Requests
  BY DEF Waiting
<1>4. started \cap a = {}
  <2> SUFFICES ASSUME NEW r \in started, r \in a PROVE FALSE
    OBVIOUS
  <2>1. r \in aborting'
    BY DEF Ready, PlacesOf
  <2>2. Owner[r] \in restarting' /\ Owner[r] \in serving
    BY <1>2, <2>1 DEF Starts, Ready
  <2> QED BY <2>2 DEF Ready
<1>5. started \cap busy = {}
  <2>1. \A r \in started : outcome'[r] = "pending"
    BY <1>3 DEF Ready, PlacesOf
  <2>2. started \cap handling' = {}
    BY <2>1 DEF Ready
  <2> QED BY <1>4, <2>2
<1>6. busy \in SUBSET Requests /\ active' \cup (handling' \ old') = busy \cup started
  BY <1>2 DEF Starts, Ready
<1> HIDE DEF busy
<1>7. Cardinality(busy \cup started) = Cardinality(busy) + Cardinality(started)
      /\ Cardinality(started) \in Nat
  BY <1>3, <1>5, <1>6, Counting
<1>8. ASSUME NEW c \in Connectors
      PROVE  /\ Cardinality(Of(c, busy \cup started))
                  = Cardinality(Of(c, busy)) + Cardinality(Of(c, started))
             /\ Cardinality(Of(c, started)) \in Nat
  <2>1. /\ Of(c, busy) \in SUBSET Requests /\ Of(c, started) \in SUBSET Requests
        /\ Of(c, busy) \cap Of(c, started) = {}
        /\ Of(c, busy \cup started) = Of(c, busy) \cup Of(c, started)
    BY <1>3, <1>5, <1>6 DEF Of
  <2> QED BY <2>1, Counting
<1>9. SlotsMatch'
  <2>1. \A c \in Connectors : count[c] = Cardinality(Of(c, busy))
    BY DEF Ready, busy
  <2>2. \A c \in Connectors : activeRequests'[c] = Cardinality(Of(c, busy \cup started))
    BY <1>2, <1>8, <2>1 DEF Starts
  <2>3. globalActiveRequests' = Cardinality(busy \cup started)
    BY <1>2, <1>7 DEF Starts, Ready, busy
  <2> QED BY <1>6, <2>2, <2>3 DEF SlotsMatch, Occupied
<1>10. globalActiveRequests' \in Nat /\ globalActiveRequests' =< MaxConcurrentRequests
  <2>1. total \in Nat /\ total =< MaxConcurrentRequests
    BY DEF Ready
  <2>2. CASE started = {}
    BY <1>2, <2>1, <2>2, FS_EmptySet DEF Starts
  <2>3. CASE started # {}
    BY <1>2, <1>7, <2>1, <2>3 DEF Starts
  <2> QED BY <2>2, <2>3
<1>11. LimitKept'
  BY <1>9, <1>10 DEF LimitKept, SlotsMatch
<1>12. activeRequests' \in [Connectors -> Nat] /\ sends' \in [Requests -> Nat]
  <2>1. \A c \in Connectors : count[c] + Cardinality(Of(c, started)) \in Nat
    BY <1>8 DEF Ready
  <2>2. \A r \in Requests : sends[r] + (IF r \in started THEN 1 ELSE 0) \in Nat
    OBVIOUS
  <2> QED BY <1>2, <2>1, <2>2 DEF Starts
<1>13. Served'
  BY <1>2 DEF Starts, Served, Ready
<1>14. PlacesOf(high', low', active', aborting', outcome')
  <2>1. \A r \in Requests : outcome'[r] = "pending" <=> r \in Waiting(high', low') \cup active'
    BY <1>2 DEF Starts, Ready, PlacesOf
  <2>2. Waiting(high', low') \cap active' = aborting' \cap Gets
    <3>1. Waiting(h, l) \cap a = aborting' \cap Gets
      BY DEF Ready, PlacesOf
    <3> QED BY <1>2, <1>4, <3>1 DEF Starts
  <2> QED BY <1>2, <2>1, <2>2 DEF Starts, PlacesOf
<1>15. Sent'
  <2> SUFFICES ASSUME NEW r \in Requests \ Gets
               PROVE  /\ sends'[r] =< 1
                      /\ (outcome'[r] = "none" \/ r \in Waiting(high', low') => sends'[r] = 0)
    BY DEF Sent, SentOf
  <2>1. sends'[r] = sends[r] + IF r \in started THEN 1 ELSE 0
    BY <1>2 DEF Starts
  <2>2. /\ sends[r] \in Nat /\ sends[r] =< 1
        /\ (outcome'[r] = "none" \/ r \in Waiting(h, l) => sends[r] = 0)
    BY DEF Ready, SentOf
  <2>3. r \in started => outcome'[r] = "pending" /\ r \in Waiting(h, l)
    BY DEF Ready, PlacesOf
  <2>4. CASE r \in started
    <3>1. sends'[r] = 1
      BY <2>1, <2>2, <2>3, <2>4
    <3>2. outcome'[r] # "none" /\ r \notin Waiting(high', low')
      BY <1>2, <2>3, <2>4 DEF Starts
    <3> QED BY <3>1, <3>2
  <2>5. CASE r \notin started
    <3>1. sends'[r] = sends[r]
      BY <2>1, <2>2, <2>5
    <3> QED BY <1>2, <2>2, <3>1 DEF Starts
  <2> QED BY <2>4, <2>5
<1>16. active' \subseteq Requests /\ aborting' \subseteq active'
  BY <1>2, <1>3 DEF Starts, Ready
<1> QED BY <1>2, <1>9, <1>10, <1>11, <1>12, <1>13, <1>14, <1>15, <1>16 DEF Starts, Limits

-------------------------------------------------------------------------------
(* The actions that serve the queues                                          *)

\* What a step leaves to show beside Limits'.
Rest ==
    /\ old \subseteq Requests /\ handling \subseteq Requests
    /\ restarting \subseteq Connectors /\ toRestart \subseteq Connectors
    /\ connectors \subseteq Connectors
    /\ outcome \in [Requests -> {"none", "pending", "answered", "cancelled", "dropped"}]
    /\ restarts \in 0 .. MaxRestarts /\ resets \in 0 .. MaxResets
    /\ \A r \in handling \cup old : outcome[r] \notin {"none", "pending"}
    /\ Control

\* The invariant is what processQueues establishes and the rest.
LEMMA Together == IInv <=> Limits /\ Rest
BY DEF IInv, Limits, Rest, TypeOK, Places

\* The same of the next state.
LEMMA TogetherAfter == Limits' /\ Rest' => IInv'
BY DEF IInv, Limits, Rest, TypeOK, Places

\* The invariant holds initially.
LEMMA InitHolds == Init => IInv
<1> SUFFICES ASSUME Init PROVE IInv
  OBVIOUS
<1>1. TypeOK
  <2>1. <<>> \in Seq(Requests)
    OBVIOUS
  <2> QED BY <2>1, HTTPAssumption DEF Init, TypeOK, HTTPAssumption
<1>2. Wellformed(high, low) /\ Waiting(high, low) = {}
  <2>1. \A c \in Connectors : high[c] = <<>> /\ low[c] = <<>>
    BY DEF Init
  <2> QED BY <2>1, EmptyQueue DEF Wellformed, Waiting
<1>3. Places
  BY <1>2 DEF Init, Places, PlacesOf
<1>4. Control
  BY DEF Init, Control
<1>5. Sent
  <2>1. \A r \in Requests : sends[r] = 0
    BY DEF Init
  <2> QED BY <2>1 DEF Sent, SentOf
<1>6. Served
  BY DEF Init, Served
<1>7. SlotsMatch /\ LimitKept
  <2>1. Occupied = {} /\ \A c : Of(c, Occupied) = {}
    BY DEF Init, Occupied, Of
  <2>2. Cardinality({}) = 0
    BY FS_EmptySet
  <2>3. LimitKept
    <3>1. MaxConcurrentRequests \in Nat
      BY HTTPAssumption DEF HTTPAssumption
    <3> QED BY <2>1, <2>2, <3>1 DEF LimitKept
  <2>4. SlotsMatch
    BY <2>1, <2>2 DEF Init, SlotsMatch
  <2> QED BY <2>3, <2>4
<1> QED BY <1>1, <1>3, <1>4, <1>5, <1>6, <1>7 DEF IInv

\* enqueue keeps the invariant.
LEMMA EnqueueKeeps ==
    ASSUME IInv, NEW r \in Requests, enqueue(r)
    PROVE  IInv'
<1> DEFINE h == Joined(high, r)
           l == JoinedLow(low, r)
<1>2. processQueues(Serving, h, l, active, activeRequests, globalActiveRequests)
  BY DEF enqueue, Joined, JoinedLow
<1> HIDE DEF h, l
<1>3. /\ outcome[r] = "none" /\ outcome' = [outcome EXCEPT ![r] = "pending"]
      /\ UNCHANGED <<connectors, restarting, toRestart, aborting, handling, old, restarts, resets>>
  BY DEF enqueue, control, budgets
<1>4. Limits /\ Rest
  BY Together
<1>5. outcome'[r] = "pending" /\ \A x \in Requests : x # r => outcome'[x] = outcome[x]
  BY <1>3, <1>4 DEF Rest
<1>6. r \notin Waiting(high, low) /\ r \notin active /\ r \notin handling \cup old
  <2>1. outcome[r] # "pending" /\ outcome[r] = "none"
    BY <1>3
  <2> QED BY <1>4, <2>1 DEF Limits, PlacesOf, Rest
<1>7. Wellformed(h, l) /\ \A x \in Requests : x \in Waiting(h, l) <=> x \in Waiting(high, low) \cup {r}
  <2>1. /\ high \in [Connectors -> Seq(Requests)] /\ low \in [Connectors -> Seq(Requests)]
        /\ Wellformed(high, low)
    BY <1>4 DEF Limits, PlacesOf
  <2> QED BY <1>6, <2>1, Appended DEF h, l
<1>8. Waiting(h, l) = Waiting(high, low) \cup {r}
  <2>1. Waiting(h, l) \subseteq Requests /\ Waiting(high, low) \subseteq Requests
    BY DEF Waiting
  <2> QED BY <1>7, <2>1
<1>9. PlacesOf(h, l, active, aborting', outcome')
  <2>1. /\ \A x \in Requests : outcome[x] = "pending" <=> x \in Waiting(high, low) \cup active
        /\ Waiting(high, low) \cap active = aborting \cap Gets
    BY <1>4 DEF Limits, PlacesOf
  <2>2. \A x \in Requests : outcome'[x] = "pending" <=> x \in Waiting(h, l) \cup active
    BY <1>5, <1>8, <2>1
  <2>3. Waiting(h, l) \cap active = aborting' \cap Gets
    BY <1>3, <1>6, <1>8, <2>1
  <2> QED BY <1>7, <2>2, <2>3 DEF PlacesOf
<1>10. SentOf(h, l, outcome', sends)
  BY <1>3, <1>4, <1>5, <1>8 DEF Limits, Sent, SentOf
<1>11. Ready(Serving, h, l, active, activeRequests, globalActiveRequests)
  <2>1. /\ aborting' \subseteq active /\ \A x \in aborting' : Owner[x] \in restarting'
        /\ handling' \subseteq Requests
    BY <1>3, <1>4 DEF Limits, Rest, Control
  <2>2. \A x \in handling' : outcome'[x] # "pending"
    BY <1>3, <1>4, <1>5, <1>6 DEF Rest
  <2>3. /\ \A c \in Connectors : activeRequests[c] = Cardinality(Of(c, active \cup (handling' \ old')))
        /\ globalActiveRequests = Cardinality(active \cup (handling' \ old'))
        /\ globalActiveRequests =< MaxConcurrentRequests
    BY <1>3, <1>4 DEF Limits, SlotsMatch, LimitKept, Occupied
  <2>4. /\ Serving \in SUBSET Connectors /\ Serving \cap restarting' = {}
        /\ restarting' # {} \/ connectors' \subseteq Serving
    BY <1>3, <1>4 DEF Serving, Rest
  <2> QED BY <1>4, <1>9, <1>10, <2>1, <2>2, <2>3, <2>4 DEF Ready, Limits
<1>12. Limits'
  BY <1>2, <1>4, <1>11, Serve DEF Limits
<1>13. Rest'
  <2>1. Control'
    BY <1>3, <1>4 DEF Rest, Control
  <2>2. outcome' \in [Requests -> {"none", "pending", "answered", "cancelled", "dropped"}]
    BY <1>3, <1>4 DEF Rest
  <2>3. \A x \in handling' \cup old' : outcome'[x] \notin {"none", "pending"}
    BY <1>3, <1>4, <1>5, <1>6 DEF Rest
  <2> QED BY <1>3, <1>4, <2>1, <2>2, <2>3 DEF Rest
<1> QED BY <1>12, <1>13, TogetherAfter

\* One slot less: the counters after Release.
LEMMA Released ==
    ASSUME Limits, NEW r \in Occupied, Occupied \subseteq Requests
    PROVE  /\ Release(Owner[r]) \in [Connectors -> Nat] /\ Minus(globalActiveRequests, 1) \in Nat
           /\ \A c \in Connectors : Release(Owner[r])[c] = Cardinality(Of(c, Occupied \ {r}))
           /\ Minus(globalActiveRequests, 1) = Cardinality(Occupied \ {r})
           /\ Minus(globalActiveRequests, 1) =< MaxConcurrentRequests
<1>1. Owner[r] \in Connectors /\ r \in Requests /\ MaxConcurrentRequests \in Nat
  BY HTTPAssumption DEF HTTPAssumption
<1>2. /\ activeRequests \in [Connectors -> Nat] /\ globalActiveRequests \in Nat
      /\ \A c \in Connectors : activeRequests[c] = Cardinality(Of(c, Occupied))
      /\ globalActiveRequests = Cardinality(Occupied)
      /\ Cardinality(Occupied) =< MaxConcurrentRequests
  BY DEF Limits, SlotsMatch, LimitKept
<1>3. \A n \in Nat \ {0} : Minus(n, 1) = n - 1 /\ n - 1 \in Nat
  BY DEF Minus
<1>4. /\ Cardinality(Occupied) \in Nat \ {0}
      /\ Cardinality(Occupied \ {r}) = Cardinality(Occupied) - 1
      /\ \A c : Of(c, Occupied \ {r}) = Of(c, Occupied) \ (IF Owner[r] = c THEN {r} ELSE {})
  BY CountingOne
<1>5. /\ Minus(globalActiveRequests, 1) = Cardinality(Occupied \ {r})
      /\ Minus(globalActiveRequests, 1) \in Nat
      /\ Minus(globalActiveRequests, 1) =< MaxConcurrentRequests
  BY <1>1, <1>2, <1>3, <1>4
<1> DEFINE c0 == Owner[r]
<1>6. /\ Cardinality(Of(c0, Occupied)) \in Nat \ {0}
      /\ Cardinality(Of(c0, Occupied) \ {r}) = Cardinality(Of(c0, Occupied)) - 1
  <2>1. Of(c0, Occupied) \in SUBSET Requests /\ r \in Of(c0, Occupied)
    BY DEF Of
  <2> QED BY <2>1, CountingOne
<1>7. Release(c0) = [activeRequests EXCEPT ![c0] = Minus(activeRequests[c0], 1)]
  BY DEF Release
<1> HIDE DEF c0
<1>8. c0 \in Connectors /\ c0 = Owner[r]
  BY <1>1 DEF c0
<1>9. ASSUME NEW c \in Connectors
      PROVE  Release(c0)[c] = Cardinality(Of(c, Occupied \ {r})) /\ Release(c0)[c] \in Nat
  <2>1. CASE c = c0
    <3>1. Release(c0)[c] = Minus(activeRequests[c0], 1)
      BY <1>2, <1>7, <1>8, <2>1
    <3>2. Of(c, Occupied \ {r}) = Of(c0, Occupied) \ {r}
      BY <1>4, <1>8, <2>1
    <3> QED BY <1>2, <1>3, <1>6, <1>8, <3>1, <3>2
  <2>2. CASE c # c0
    <3>1. Release(c0)[c] = activeRequests[c]
      BY <1>2, <1>7, <1>8, <2>2
    <3>2. Of(c, Occupied \ {r}) = Of(c, Occupied)
      BY <1>4, <1>8, <2>2
    <3> QED BY <1>2, <3>1, <3>2
  <2> QED BY <2>1, <2>2
<1>10. Release(c0) \in [Connectors -> Nat]
  BY <1>2, <1>7, <1>9
<1> QED BY <1>5, <1>8, <1>9, <1>10

\* All slots of a connector less: the counters after GiveUp.
LEMMA ReleasedAll ==
    ASSUME Limits, NEW c \in Connectors, Occupied \subseteq Requests,
           NEW busy, busy = Occupied \ Of(c, Occupied)
    PROVE  /\ [activeRequests EXCEPT ![c] = 0] \in [Connectors -> Nat]
           /\ \A d \in Connectors : [activeRequests EXCEPT ![c] = 0][d] = Cardinality(Of(d, busy))
           /\ Minus(globalActiveRequests, activeRequests[c]) \in Nat
           /\ Minus(globalActiveRequests, activeRequests[c]) = Cardinality(busy)
           /\ Minus(globalActiveRequests, activeRequests[c]) =< MaxConcurrentRequests
<1>1. /\ activeRequests \in [Connectors -> Nat] /\ globalActiveRequests \in Nat
      /\ \A d \in Connectors : activeRequests[d] = Cardinality(Of(d, Occupied))
      /\ globalActiveRequests = Cardinality(Occupied)
      /\ Cardinality(Occupied) =< MaxConcurrentRequests
  BY DEF Limits, SlotsMatch, LimitKept
<1>2. MaxConcurrentRequests \in Nat
  BY HTTPAssumption DEF HTTPAssumption
<1>3. /\ busy \in SUBSET Requests /\ Of(c, Occupied) \in SUBSET Requests
      /\ busy \cap Of(c, Occupied) = {} /\ Occupied = busy \cup Of(c, Occupied)
      /\ Of(c, busy) = {} /\ \A d : d # c => Of(d, busy) = Of(d, Occupied)
  BY DEF Of
<1>4. /\ Cardinality(busy) \in Nat /\ Cardinality(Of(c, Occupied)) \in Nat
      /\ Cardinality(busy \cup Of(c, Occupied)) = Cardinality(busy) + Cardinality(Of(c, Occupied))
  BY <1>3, Counting
<1>5. globalActiveRequests = Cardinality(busy) + activeRequests[c]
  BY <1>1, <1>3, <1>4
<1>6. \A k, n \in Nat : Minus(k + n, n) = k
  BY DEF Minus
<1>7. /\ Minus(globalActiveRequests, activeRequests[c]) = Cardinality(busy)
      /\ Cardinality(busy) =< MaxConcurrentRequests
  <2>1. activeRequests[c] \in Nat
    BY <1>1
  <2>2. Minus(Cardinality(busy) + activeRequests[c], activeRequests[c]) = Cardinality(busy)
    BY <1>4, <1>6, <2>1
  <2> QED BY <1>1, <1>2, <1>4, <1>5, <2>1, <2>2
<1>8. \A d \in Connectors : [activeRequests EXCEPT ![c] = 0][d] = Cardinality(Of(d, busy))
  <2>1. Cardinality(Of(c, busy)) = 0
    BY <1>3, FS_EmptySet
  <2> QED BY <1>1, <1>3, <2>1
<1> QED BY <1>1, <1>4, <1>7, <1>8

\* What reset and destroy have in common: GiveUp keeps the limiter exact.
LEMMA GivenUp ==
    ASSUME Limits, Rest, NEW c \in Connectors, NEW serving, GiveUp(c, serving),
           aborting' = aborting \ Of(c, aborting),
           \A r \in aborting' : Owner[r] \in restarting',
           handling' = handling, handling' \ old' = (handling \ old) \ Of(c, handling \ old),
           serving \in SUBSET Connectors, serving \cap restarting' = {},
           restarting' # {} \/ connectors' \subseteq serving
    PROVE  /\ Limits'
           /\ outcome' \in [Requests -> {"none", "pending", "answered", "cancelled", "dropped"}]
           /\ \A r \in Requests : /\ outcome[r] \notin {"none", "pending"} => outcome'[r] = outcome[r]
                                  /\ r \in Of(c, active) => outcome'[r] = "dropped"
<1> DEFINE h == [high EXCEPT ![c] = <<>>]
           l == [low EXCEPT ![c] = <<>>]
           a == active \ Of(c, active)
           count == [activeRequests EXCEPT ![c] = 0]
           total == Minus(globalActiveRequests, activeRequests[c])
           busy == a \cup (handling' \ old')
<1>1. processQueues(serving, h, l, a, count, total)
  BY DEF GiveUp
<1>2. outcome' = [r \in Requests |-> IF Owner[r] = c /\ outcome[r] = "pending" THEN "dropped"
                                     ELSE outcome[r]]
  BY DEF GiveUp
<1>3. /\ Wellformed(h, l)
      /\ \A r \in Requests : r \in Waiting(h, l) <=> Owner[r] # c /\ r \in Waiting(high, low)
  BY Cleared DEF Limits, PlacesOf
<1> HIDE DEF h, l
<1>4. PlacesOf(h, l, a, aborting', outcome')
  <2>1. /\ \A r \in Requests : outcome[r] = "pending" <=> r \in Waiting(high, low) \cup active
        /\ Waiting(high, low) \cap active = aborting \cap Gets
    BY DEF Limits, PlacesOf
  <2>2. \A r \in Requests : outcome'[r] = "pending" <=> r \in Waiting(h, l) \cup a
    BY <1>2, <1>3, <2>1 DEF Of
  <2>3. Waiting(h, l) \subseteq Requests /\ aborting \subseteq Requests
    BY DEF Waiting, Limits
  <2>4. Waiting(h, l) \cap a = aborting' \cap Gets
    BY <1>3, <2>1, <2>3 DEF Of
  <2> QED BY <1>3, <2>2, <2>4 DEF PlacesOf
<1>5. SentOf(h, l, outcome', sends)
  <2>1. \A r \in Requests : outcome'[r] = "none" => outcome[r] = "none"
    BY <1>2
  <2> QED BY <1>3, <2>1 DEF Limits, Sent, SentOf
<1>6. Occupied \subseteq Requests /\ busy = Occupied \ Of(c, Occupied)
  BY DEF Limits, Rest, Occupied, Of
<1> HIDE DEF busy
<1>7. /\ count \in [Connectors -> Nat] /\ total \in Nat
      /\ \A d \in Connectors : count[d] = Cardinality(Of(d, busy))
      /\ total = Cardinality(busy) /\ total =< MaxConcurrentRequests
  BY <1>6, ReleasedAll
<1>8. /\ a \in SUBSET Requests /\ aborting' \subseteq a
  BY DEF Limits, Of
<1>9. handling' \subseteq Requests /\ \A r \in handling' : outcome'[r] # "pending"
  BY <1>2 DEF Rest
<1> HIDE DEF a, count, total
<1>10. Ready(serving, h, l, a, count, total)
  BY <1>4, <1>5, <1>7, <1>8, <1>9 DEF Ready, busy
<1>11. sends \in [Requests -> Nat]
  BY DEF Limits
<1>12. Limits'
  BY <1>1, <1>10, <1>11, Serve
<1>13. outcome' \in [Requests -> {"none", "pending", "answered", "cancelled", "dropped"}]
  BY <1>2 DEF Rest
<1>14. ASSUME NEW r \in Requests
       PROVE  /\ outcome[r] \notin {"none", "pending"} => outcome'[r] = outcome[r]
              /\ r \in Of(c, active) => outcome'[r] = "dropped"
  <2>1. r \in active => outcome[r] = "pending"
    BY DEF Limits, PlacesOf
  <2> QED BY <1>2, <2>1 DEF Of
<1> QED BY <1>12, <1>13, <1>14

\* reset keeps the invariant, also inside a handler that a restart runs.
LEMMA ResetKeeps ==
    ASSUME IInv, NEW c \in connectors, reset(c)
    PROVE  IInv'
<1>1. Limits /\ Rest /\ c \in Connectors
  <2>1. Limits /\ Rest
    BY Together
  <2> QED BY <2>1 DEF Rest
<1>2. /\ old' = old \cup Of(c, active) \cup Of(c, handling)
      /\ restarting' = restarting \ {c} /\ aborting' = aborting \ Of(c, aborting)
      /\ GiveUp(c, connectors \ restarting')
      /\ resets < MaxResets /\ resets' = resets + 1
      /\ UNCHANGED <<connectors, toRestart, handling, restarts>>
  BY DEF reset
<1>3. \A r \in aborting' : Owner[r] \in restarting'
  <2>1. aborting \subseteq Requests /\ \A r \in aborting : Owner[r] \in restarting
    BY <1>1 DEF Limits, Rest, Control
  <2> QED BY <1>2, <2>1 DEF Of
<1>4. handling' \ old' = (handling \ old) \ Of(c, handling \ old)
  <2>1. \A r \in handling : r \notin active
    BY <1>1 DEF Limits, Rest, PlacesOf
  <2> QED BY <1>2, <2>1 DEF Of
<1>5. connectors \ restarting' \in SUBSET Connectors
  BY <1>1 DEF Rest
<1>6. \/ restarting' # {}
      \/ connectors' \subseteq connectors \ restarting'
  BY <1>2
<1>7. /\ Limits'
      /\ outcome' \in [Requests -> {"none", "pending", "answered", "cancelled", "dropped"}]
      /\ \A r \in Requests : /\ outcome[r] \notin {"none", "pending"} => outcome'[r] = outcome[r]
                             /\ r \in Of(c, active) => outcome'[r] = "dropped"
  <2> DEFINE serving == connectors \ restarting'
  <2>1. /\ GiveUp(c, serving) /\ serving \in SUBSET Connectors /\ serving \cap restarting' = {}
        /\ restarting' # {} \/ connectors' \subseteq serving
        /\ handling' = handling
    BY <1>2, <1>5, <1>6
  <2> HIDE DEF serving
  <2> QED BY <1>1, <1>2, <1>3, <1>4, <2>1, GivenUp
<1>8. Rest'
  <2>1. old' \subseteq Requests /\ handling' \subseteq Requests
    BY <1>1, <1>2 DEF Limits, Rest, Of
  <2>2. \A r \in handling' \cup old' : outcome'[r] \notin {"none", "pending"}
    BY <1>1, <1>2, <1>7 DEF Limits, Rest, Of
  <2>3. Control'
    <3>1. restarting' = {} \/ \E d \in Connectors : restarting' = {d}
      BY <1>1, <1>2 DEF Rest, Control
    <3> QED BY <1>1, <1>2, <1>3, <3>1 DEF Rest, Control
  <2>4. resets' \in 0 .. MaxResets
    <3>1. resets \in Nat /\ MaxResets \in Nat
      BY <1>1, HTTPAssumption DEF Rest, HTTPAssumption
    <3> QED BY <1>2, <3>1
  <2> QED BY <1>1, <1>2, <1>7, <2>1, <2>2, <2>3, <2>4 DEF Rest
<1> QED BY <1>7, <1>8, TogetherAfter

\* destroy keeps the invariant.
LEMMA DestroyKeeps ==
    ASSUME IInv, NEW c \in connectors, destroy(c)
    PROVE  IInv'
<1>1. Limits /\ Rest /\ c \in Connectors
  <2>1. Limits /\ Rest
    BY Together
  <2> QED BY <2>1 DEF Rest
<1>2. /\ connectors' = connectors \ {c} /\ old' = old \ Of(c, old)
      /\ handling = {} /\ restarting = {} /\ GiveUp(c, connectors')
      /\ UNCHANGED <<restarting, toRestart, aborting, handling, restarts, resets>>
  BY DEF destroy, EventLoop, control, budgets
<1>3. aborting = {} /\ aborting' = aborting \ Of(c, aborting)
  <2>1. aborting = {}
    BY <1>1, <1>2 DEF Rest, Control
  <2> QED BY <1>2, <2>1
<1>4. handling' \ old' = (handling \ old) \ Of(c, handling \ old)
  BY <1>2 DEF Of
<1>5. /\ connectors' \in SUBSET Connectors /\ connectors' \cap restarting' = {}
      /\ \A r \in aborting' : Owner[r] \in restarting'
      /\ restarting' # {} \/ connectors' \subseteq connectors'
  BY <1>1, <1>2, <1>3 DEF Rest
<1>6. /\ Limits'
      /\ outcome' \in [Requests -> {"none", "pending", "answered", "cancelled", "dropped"}]
      /\ \A r \in Requests : outcome[r] \notin {"none", "pending"} => outcome'[r] = outcome[r]
  BY <1>1, <1>2, <1>3, <1>4, <1>5, GivenUp
<1>7. Rest'
  <2>1. \A r \in handling' \cup old' : outcome'[r] \notin {"none", "pending"}
    BY <1>1, <1>2, <1>6 DEF Rest
  <2>2. Control'
    BY <1>1, <1>2 DEF Rest, Control
  <2> QED BY <1>1, <1>2, <1>6, <2>1, <2>2 DEF Rest
<1> QED BY <1>6, <1>7, TogetherAfter

\* handlerReturned keeps the invariant: it releases the slot unless reset did.
LEMMA HandlerReturnedKeeps ==
    ASSUME IInv, NEW r \in Requests, handlerReturned(r)
    PROVE  IInv'
<1>1. Limits /\ Rest
  BY Together
<1>2. /\ handling = {r} /\ handling' = {}
      /\ UNCHANGED <<connectors, restarting, toRestart, aborting, outcome, restarts, resets>>
  <2>1. r \in handling
    BY DEF handlerReturned
  <2> QED BY <1>1, <2>1 DEF handlerReturned, control, budgets, Rest, Control
<1>3. old' \subseteq old
  BY DEF handlerReturned
<1>4. Rest'
  BY <1>1, <1>2, <1>3 DEF Rest, Control
<1>5. r \notin active
  BY <1>1, <1>2 DEF Limits, Rest, PlacesOf
<1>6. CASE r \in old
  <2>1. UNCHANGED <<high, low, active, activeRequests, globalActiveRequests, sends>>
    BY <1>6 DEF handlerReturned, limiter
  <2>2. Occupied' = Occupied
    BY <1>2, <1>6, <2>1 DEF Occupied
  <2> QED BY <1>1, <1>2, <1>4, <2>1, <2>2, TogetherAfter
        DEF Limits, Sent, Served, SlotsMatch, LimitKept
<1>7. CASE r \notin old
  <2>1. old' = old
    BY <1>7 DEF handlerReturned
  <2>2. Occupied = active \cup {r} /\ Occupied \subseteq Requests
    BY <1>1, <1>2, <1>7 DEF Occupied, Limits
  <2>3. Occupied \ {r} = active \cup (handling' \ old')
    BY <1>2, <1>5, <2>2
  <2> DEFINE count == Release(Owner[r])
             total == Minus(globalActiveRequests, 1)
  <2>4. /\ count \in [Connectors -> Nat] /\ total \in Nat
        /\ \A c \in Connectors : count[c] = Cardinality(Of(c, active \cup (handling' \ old')))
        /\ total = Cardinality(active \cup (handling' \ old')) /\ total =< MaxConcurrentRequests
    <3>1. r \in Occupied
      BY <2>2
    <3> QED BY <1>1, <2>2, <2>3, <3>1, Released
  <2>5. CASE Owner[r] \in restarting
    <3>1. /\ activeRequests' = count /\ globalActiveRequests' = total
          /\ UNCHANGED <<high, low, active, sends>>
      BY <1>7, <2>5 DEF handlerReturned
    <3> HIDE DEF count, total
    <3>2. Occupied' = active \cup (handling' \ old')
      BY <3>1 DEF Occupied
    <3>3. SlotsMatch' /\ LimitKept'
      BY <2>4, <3>1, <3>2 DEF SlotsMatch, LimitKept
    <3>4. Served'
      BY <1>2, <2>5 DEF Served
    <3>5. Limits'
      BY <1>1, <1>2, <2>4, <3>1, <3>3, <3>4 DEF Limits, Sent
    <3> QED BY <1>4, <3>5, TogetherAfter
  <2>6. CASE Owner[r] \notin restarting
    <3>1. processQueues(Serving, high, low, active, count, total)
      BY <1>7, <2>6 DEF handlerReturned
    <3> HIDE DEF count, total
    <3>2. /\ Serving \in SUBSET Connectors /\ Serving \cap restarting' = {}
          /\ restarting' # {} \/ connectors' \subseteq Serving
      BY <1>1, <1>2 DEF Serving, Rest
    <3>3. /\ aborting' \subseteq active /\ \A x \in aborting' : Owner[x] \in restarting'
          /\ active \in SUBSET Requests
      BY <1>1, <1>2 DEF Limits, Rest, Control
    <3>4. PlacesOf(high, low, active, aborting', outcome') /\ SentOf(high, low, outcome', sends)
      BY <1>1, <1>2 DEF Limits, Sent
    <3>5. Ready(Serving, high, low, active, count, total)
      BY <1>2, <2>4, <3>2, <3>3, <3>4 DEF Ready
    <3>6. sends \in [Requests -> Nat]
      BY <1>1 DEF Limits
    <3>7. Limits'
      BY <3>1, <3>5, <3>6, Serve
    <3> QED BY <1>4, <3>7, TogetherAfter
  <2> QED BY <2>5, <2>6
<1> QED BY <1>6, <1>7

\* restartFinished keeps the invariant.
LEMMA RestartFinishedKeeps ==
    ASSUME IInv, NEW c \in Connectors, restartFinished(c)
    PROVE  IInv'
<1>1. Limits /\ Rest
  BY Together
<1>2. /\ aborting = {} /\ handling = {} /\ restarting' = {}
      /\ processQueues(connectors, high, low, active, activeRequests, globalActiveRequests)
      /\ UNCHANGED <<connectors, toRestart, aborting, handling, old, outcome, restarts, resets>>
  BY DEF restartFinished, budgets
<1>3. Rest'
  BY <1>1, <1>2 DEF Rest, Control
<1>4. PlacesOf(high, low, active, aborting', outcome') /\ SentOf(high, low, outcome', sends)
  BY <1>1, <1>2 DEF Limits, Sent
<1>5. /\ \A d \in Connectors : activeRequests[d] = Cardinality(Of(d, active \cup (handling' \ old')))
      /\ globalActiveRequests = Cardinality(active \cup (handling' \ old'))
      /\ globalActiveRequests =< MaxConcurrentRequests
  BY <1>1, <1>2 DEF Limits, SlotsMatch, LimitKept, Occupied
<1>6. /\ active \in SUBSET Requests
      /\ activeRequests \in [Connectors -> Nat] /\ globalActiveRequests \in Nat
      /\ sends \in [Requests -> Nat] /\ connectors \in SUBSET Connectors
  BY <1>1 DEF Limits, Rest
<1>7. Ready(connectors, high, low, active, activeRequests, globalActiveRequests)
  BY <1>2, <1>4, <1>5, <1>6 DEF Ready
<1>8. Limits'
  BY <1>2, <1>6, <1>7, Serve
<1> QED BY <1>3, <1>8, TogetherAfter

-------------------------------------------------------------------------------
(* The actions that leave the queues                                          *)

\* finished keeps the invariant.
LEMMA FinishedKeeps ==
    ASSUME IInv, NEW r \in Requests, finished(r)
    PROVE  IInv'
<1>1. Limits /\ Rest
  BY Together
<1>2. /\ handling = {} /\ restarting = {} /\ r \in active
      /\ active' = active \ {r} /\ handling' = {r}
      /\ outcome' = [outcome EXCEPT ![r] = "answered"]
      /\ UNCHANGED <<connectors, high, low, activeRequests, globalActiveRequests, sends,
                     restarting, toRestart, aborting, old, restarts, resets>>
  BY DEF finished, EventLoop, control, budgets
<1>3. aborting = {} /\ outcome[r] = "pending" /\ r \notin Waiting(high, low) /\ r \notin old
  BY <1>1, <1>2 DEF Limits, Rest, Control, PlacesOf
<1>4. outcome'[r] = "answered" /\ \A x \in Requests : x # r => outcome'[x] = outcome[x]
  BY <1>1, <1>2 DEF Rest
<1>5. Rest'
  <2>1. outcome' \in [Requests -> {"none", "pending", "answered", "cancelled", "dropped"}]
    BY <1>1, <1>2 DEF Rest
  <2>2. \A x \in handling' \cup old' : outcome'[x] \notin {"none", "pending"}
    BY <1>1, <1>2, <1>4 DEF Rest
  <2>3. Control'
    BY <1>1, <1>2 DEF Rest, Control
  <2> QED BY <1>1, <1>2, <2>1, <2>2, <2>3 DEF Rest
<1>6. PlacesOf(high', low', active', aborting', outcome')
  <2>1. /\ Wellformed(high, low)
        /\ \A x \in Requests : outcome[x] = "pending" <=> x \in Waiting(high, low) \cup active
        /\ Waiting(high, low) \cap active = {}
    BY <1>1, <1>3 DEF Limits, PlacesOf
  <2>2. Wellformed(high', low') /\ Waiting(high', low') = Waiting(high, low)
    BY <1>2, <2>1
  <2>3. \A x \in Requests : outcome'[x] = "pending" <=> x \in Waiting(high', low') \cup active'
    BY <1>2, <1>3, <1>4, <2>1, <2>2
  <2>4. Waiting(high', low') \cap active' = aborting' \cap Gets
    BY <1>2, <1>3, <2>1, <2>2
  <2> QED BY <2>2, <2>3, <2>4 DEF PlacesOf
<1>7. Occupied' = Occupied
  BY <1>2, <1>3 DEF Occupied
<1>8. Sent'
  <2>1. \A x \in Requests : outcome'[x] = "none" => outcome[x] = "none"
    BY <1>4
  <2>2. Waiting(high', low') = Waiting(high, low)
    BY <1>2
  <2> QED BY <1>1, <1>2, <2>1, <2>2 DEF Limits, Sent, SentOf
<1>9. Limits'
  BY <1>1, <1>2, <1>3, <1>6, <1>7, <1>8 DEF Limits, Served, SlotsMatch, LimitKept
<1> QED BY <1>5, <1>9, TogetherAfter

\* lateFinished keeps the invariant.
LEMMA LateFinishedKeeps ==
    ASSUME IInv, NEW r \in Requests, lateFinished(r)
    PROVE  IInv'
<1>1. Limits /\ Rest
  BY Together
<1>2. /\ handling = {} /\ old' = old \ {r}
      /\ UNCHANGED <<connectors, high, low, active, activeRequests, globalActiveRequests, sends,
                     restarting, toRestart, aborting, handling, outcome, restarts, resets>>
  BY DEF lateFinished, EventLoop, limiter, control, budgets
<1>3. Occupied' = Occupied
  BY <1>2 DEF Occupied
<1>4. Limits'
  BY <1>1, <1>2, <1>3 DEF Limits, Sent, Served, SlotsMatch, LimitKept
<1>5. Rest'
  BY <1>1, <1>2 DEF Rest, Control
<1> QED BY <1>4, <1>5, TogetherAfter

\* restart keeps the invariant.
LEMMA RestartKeeps ==
    ASSUME IInv, NEW S \in SUBSET connectors, restart(S)
    PROVE  IInv'
<1>1. Limits /\ Rest
  BY Together
<1>2. /\ toRestart' = S /\ restarts < MaxRestarts /\ restarts' = restarts + 1
      /\ UNCHANGED <<connectors, high, low, active, activeRequests, globalActiveRequests, sends,
                     restarting, aborting, handling, old, outcome, resets>>
  BY DEF restart, limiter
<1>3. Occupied' = Occupied
  BY <1>2 DEF Occupied
<1>4. Limits'
  BY <1>1, <1>2, <1>3 DEF Limits, Sent, Served, SlotsMatch, LimitKept
<1>5. restarts' \in 0 .. MaxRestarts
  <2>1. restarts \in Nat /\ MaxRestarts \in Nat
    BY <1>1, HTTPAssumption DEF Rest, HTTPAssumption
  <2> QED BY <1>2, <2>1
<1>6. Rest'
  BY <1>1, <1>2, <1>5 DEF Rest, Control
<1> QED BY <1>4, <1>6, TogetherAfter

\* restartTransport keeps the invariant.
LEMMA RestartTransportKeeps ==
    ASSUME IInv, NEW c \in Connectors, restartTransport(c)
    PROVE  IInv'
<1>1. Limits /\ Rest
  BY Together
<1> DEFINE T == Replayed(Of(c, active))
<1>2. /\ restarting = {} /\ handling = {} /\ restarting' = {c}
      /\ toRestart' = toRestart \ {c} /\ aborting' = Of(c, active)
      /\ UNCHANGED <<connectors, active, activeRequests, globalActiveRequests, sends,
                     handling, old, outcome, restarts, resets>>
  BY DEF restartTransport, budgets
<1>3. PICK s \in SetToSeqs(T \ Low) : high' = [high EXCEPT ![c] = s \o @]
  BY DEF restartTransport
<1>4. PICK t \in SetToSeqs(T \cap Low) : low' = [low EXCEPT ![c] = t \o @]
  BY DEF restartTransport
<1>5. \A r : r \in T <=> r \in active /\ Owner[r] = c /\ r \in Gets
  BY DEF Replayed, Of
<1> HIDE DEF T
<1>6. /\ Wellformed(high, low) /\ active \subseteq Requests
      /\ high \in [Connectors -> Seq(Requests)] /\ low \in [Connectors -> Seq(Requests)]
      /\ \A r \in Requests : outcome[r] = "pending" <=> r \in Waiting(high, low) \cup active
  BY <1>1 DEF Limits, PlacesOf
<1>7. aborting = {} /\ Waiting(high, low) \cap active = {}
  <2>1. aborting = {}
    BY <1>1, <1>2 DEF Rest, Control
  <2> QED BY <1>1, <2>1 DEF Limits, PlacesOf
<1>8. /\ Wellformed(high', low')
      /\ \A r \in Requests : r \in Waiting(high', low') <=> r \in Waiting(high, low) \cup T
  <2>1. T \in SUBSET Requests /\ \A r \in T : Owner[r] = c /\ r \notin Waiting(high, low)
    BY <1>5, <1>6, <1>7
  <2>2. /\ Wellformed([high EXCEPT ![c] = s \o @], [low EXCEPT ![c] = t \o @])
        /\ \A r \in Requests :
              r \in Waiting([high EXCEPT ![c] = s \o @], [low EXCEPT ![c] = t \o @])
                <=> r \in Waiting(high, low) \cup T
    BY <1>6, <2>1, PutBack
  <2> QED BY <1>3, <1>4, <2>2, Zenon
<1>9. high' \in [Connectors -> Seq(Requests)] /\ low' \in [Connectors -> Seq(Requests)]
  <2>1. \A d \in Connectors : high'[d] \in Seq(Requests) /\ low'[d] \in Seq(Requests)
    BY <1>8 DEF Wellformed, QueueOf
  <2> QED BY <1>3, <1>4, <1>6, <2>1
<1>10. Waiting(high', low') \subseteq Requests /\ Waiting(high, low) \subseteq Requests
  BY DEF Waiting
<1>11. PlacesOf(high', low', active', aborting', outcome')
  <2>1. \A r \in Requests : outcome'[r] = "pending" <=> r \in Waiting(high', low') \cup active'
    BY <1>2, <1>5, <1>6, <1>8
  <2>2. \A r : r \in aborting' <=> r \in active /\ Owner[r] = c
    BY <1>2 DEF Of
  <2>3. Waiting(high', low') \cap active' = aborting' \cap Gets
    BY <1>2, <1>5, <1>6, <1>7, <1>8, <1>10, <2>2
  <2> QED BY <1>8, <2>1, <2>3 DEF PlacesOf
<1>12. Sent'
  <2>1. \A r \in Requests \ Gets : r \in Waiting(high', low') => r \in Waiting(high, low)
    BY <1>5, <1>8
  <2> QED BY <1>1, <1>2, <2>1 DEF Limits, Sent, SentOf
<1>13. Occupied' = Occupied
  BY <1>2 DEF Occupied
<1>14. /\ Served' /\ aborting' \subseteq active' /\ \A r \in aborting' : Owner[r] \in restarting'
  BY <1>2 DEF Served, Of
<1>15. Limits'
  BY <1>1, <1>2, <1>9, <1>11, <1>12, <1>13, <1>14 DEF Limits, SlotsMatch, LimitKept
<1>16. Rest'
  BY <1>1, <1>2, <1>14 DEF Rest, Control
<1> QED BY <1>15, <1>16, TogetherAfter

\* abort keeps the invariant, for a read and for a write.
LEMMA AbortKeeps ==
    ASSUME IInv, NEW r \in Requests, abort(r)
    PROVE  IInv'
<1>1. Limits /\ Rest
  BY Together
<1>2. /\ r \in aborting /\ handling = {} /\ r \in active
      /\ aborting' = aborting \ {r} /\ active' = active \ {r}
      /\ UNCHANGED <<connectors, high, low, sends, restarting, toRestart, old, restarts, resets>>
  BY <1>1 DEF abort, budgets, Limits
<1>3. /\ \A x \in Requests : outcome[x] = "pending" <=> x \in Waiting(high, low) \cup active
      /\ Waiting(high, low) \cap active = aborting \cap Gets /\ Wellformed(high, low)
      /\ Waiting(high', low') = Waiting(high, low) /\ Waiting(high, low) \subseteq Requests
      /\ active \subseteq Requests
  <2>1. Waiting(high', low') = Waiting(high, low)
    BY <1>2
  <2> QED BY <1>1, <2>1 DEF Limits, PlacesOf, Waiting
<1>4. Owner[r] \in restarting /\ restarting # {}
  BY <1>1, <1>2 DEF Rest, Control
<1>5. Served' /\ aborting' \subseteq active'
  BY <1>1, <1>2, <1>4 DEF Served, Limits
<1>6. outcome[r] = "pending" /\ r \notin old
  BY <1>1, <1>2, <1>3 DEF Rest
<1>7. r \in Replayed({r}) <=> r \in Gets
  BY DEF Replayed
<1>8. CASE r \in Gets
  <2>1. /\ activeRequests' = Release(Owner[r]) /\ globalActiveRequests' = Minus(globalActiveRequests, 1)
        /\ UNCHANGED <<handling, outcome>>
    BY <1>7, <1>8 DEF abort
  <2>2. /\ r \in Occupied /\ Occupied \subseteq Requests /\ Occupied' = Occupied \ {r}
    BY <1>1, <1>2, <2>1 DEF Occupied, Limits
  <2>3. /\ Release(Owner[r]) \in [Connectors -> Nat] /\ Minus(globalActiveRequests, 1) \in Nat
        /\ \A c \in Connectors : Release(Owner[r])[c] = Cardinality(Of(c, Occupied \ {r}))
        /\ Minus(globalActiveRequests, 1) = Cardinality(Occupied \ {r})
        /\ Minus(globalActiveRequests, 1) =< MaxConcurrentRequests
    BY <1>1, <2>2, Released
  <2>4. SlotsMatch' /\ LimitKept'
    BY <2>1, <2>2, <2>3 DEF SlotsMatch, LimitKept
  <2>5. PlacesOf(high', low', active', aborting', outcome')
    <3>1. r \in Waiting(high, low)
      BY <1>2, <1>3, <1>8
    <3>2. \A x \in Requests : outcome'[x] = "pending" <=> x \in Waiting(high', low') \cup active'
      BY <1>2, <1>3, <2>1, <3>1
    <3>3. Waiting(high', low') \cap active' = aborting' \cap Gets
      BY <1>2, <1>3
    <3>4. Wellformed(high', low')
      BY <1>2, <1>3
    <3> QED BY <3>2, <3>3, <3>4 DEF PlacesOf
  <2>6. Sent'
    BY <1>1, <1>2, <1>3, <2>1 DEF Limits, Sent, SentOf
  <2>7. Limits'
    BY <1>1, <1>2, <1>5, <2>1, <2>3, <2>4, <2>5, <2>6 DEF Limits
  <2>8. Rest'
    BY <1>1, <1>2, <2>1 DEF Rest, Control
  <2> QED BY <2>7, <2>8, TogetherAfter
<1>9. CASE r \notin Gets
  <2>1. /\ handling' = {r} /\ outcome' = [outcome EXCEPT ![r] = "cancelled"]
        /\ UNCHANGED <<activeRequests, globalActiveRequests>>
    BY <1>7, <1>9 DEF abort
  <2>2. outcome'[r] = "cancelled" /\ \A x \in Requests : x # r => outcome'[x] = outcome[x]
    BY <1>1, <2>1 DEF Rest
  <2>3. r \notin Waiting(high, low)
    BY <1>2, <1>3, <1>9
  <2>4. Occupied' = Occupied
    BY <1>2, <1>6, <2>1 DEF Occupied
  <2>5. PlacesOf(high', low', active', aborting', outcome')
    <3>2. \A x \in Requests : outcome'[x] = "pending" <=> x \in Waiting(high', low') \cup active'
      BY <1>2, <1>3, <2>2, <2>3
    <3>3. Waiting(high', low') \cap active' = aborting' \cap Gets
      BY <1>2, <1>3, <1>9
    <3>4. Wellformed(high', low')
      BY <1>2, <1>3
    <3> QED BY <3>2, <3>3, <3>4 DEF PlacesOf
  <2>6. Sent'
    <3>1. \A x \in Requests : outcome'[x] = "none" => outcome[x] = "none"
      BY <2>2
    <3> QED BY <1>1, <1>2, <1>3, <3>1 DEF Limits, Sent, SentOf
  <2>7. Limits'
    BY <1>1, <1>2, <1>5, <2>1, <2>4, <2>5, <2>6 DEF Limits, SlotsMatch, LimitKept
  <2>8. Rest'
    <3>1. outcome' \in [Requests -> {"none", "pending", "answered", "cancelled", "dropped"}]
      BY <1>1, <2>1 DEF Rest
    <3>2. \A x \in handling' \cup old' : outcome'[x] \notin {"none", "pending"}
      BY <1>1, <1>2, <2>1, <2>2 DEF Rest
    <3>3. Control'
      BY <1>1, <1>2, <2>1 DEF Rest, Control
    <3> QED BY <1>1, <1>2, <2>1, <3>1, <3>2, <3>3 DEF Rest
  <2> QED BY <2>7, <2>8, TogetherAfter
<1> QED BY <1>8, <1>9

-------------------------------------------------------------------------------
(* The theorems                                                               *)

\* Every step keeps the invariant.
LEMMA StepKeeps == IInv /\ [Next]_vars => IInv'
<1> SUFFICES ASSUME IInv, [Next]_vars PROVE IInv'
  OBVIOUS
<1>1. connectors \subseteq Connectors
  BY DEF IInv, TypeOK
<1>2. CASE \E r \in Requests : enqueue(r)
  BY <1>2, EnqueueKeeps
<1>3. CASE \E r \in Requests : finished(r)
  BY <1>3, FinishedKeeps
<1>4. CASE \E r \in Requests : handlerReturned(r)
  BY <1>4, HandlerReturnedKeeps
<1>5. CASE \E r \in Requests : lateFinished(r)
  BY <1>5, LateFinishedKeeps
<1>6. CASE \E r \in Requests : abort(r)
  BY <1>6, AbortKeeps
<1>7. CASE \E c \in connectors : restart({c})
  <2>1. PICK c \in connectors : restart({c})
    BY <1>7
  <2>2. {c} \in SUBSET connectors
    OBVIOUS
  <2> QED BY <2>1, <2>2, RestartKeeps
<1>8. CASE restart(connectors)
  <2>1. connectors \in SUBSET connectors
    OBVIOUS
  <2> QED BY <1>8, <2>1, RestartKeeps
<1>9. CASE \E c \in connectors : reset(c)
  BY <1>9, ResetKeeps
<1>10. CASE \E c \in connectors : destroy(c)
  BY <1>10, DestroyKeeps
<1>11. CASE \E c \in Connectors : restartTransport(c)
  BY <1>11, RestartTransportKeeps
<1>12. CASE \E c \in Connectors : restartFinished(c)
  BY <1>12, RestartFinishedKeeps
<1>13. CASE UNCHANGED vars
  <2>1. UNCHANGED <<connectors, high, low, active, activeRequests, globalActiveRequests, sends,
                    restarting, toRestart, aborting, handling, old, outcome, restarts, resets>>
    BY <1>13 DEF vars, limiter, control, budgets
  <2>2. Occupied' = Occupied
    BY <2>1 DEF Occupied
  <2>3. TypeOK' /\ Places'
    BY <2>1 DEF IInv, TypeOK, Places
  <2>4. Control' /\ Sent' /\ Served'
    BY <2>1 DEF IInv, Control, Sent, Served
  <2>5. SlotsMatch' /\ LimitKept'
    BY <2>1, <2>2 DEF IInv, SlotsMatch, LimitKept
  <2> QED BY <2>3, <2>4, <2>5 DEF IInv
<1> QED BY <1>2, <1>3, <1>4, <1>5, <1>6, <1>7, <1>8, <1>9, <1>10, <1>11, <1>12, <1>13 DEF Next

\* The invariant holds in every reachable state.
LEMMA Inductive == Spec => []IInv
<1> QED BY InitHolds, StepKeeps, PTL DEF Spec

\* Type correctness.
THEOREM TypeCorrect == Spec => []TypeOK
<1>1. IInv => TypeOK
  BY DEF IInv
<1> QED BY <1>1, Inductive, PTL

\* HTTPConnector's counters activeRequests and globalActiveRequests tell the slots that
\* are held exactly, whatever is restarted, reset and destroyed.
THEOREM SlotsExact == Spec => []SlotsMatch
<1>1. IInv => SlotsMatch
  BY DEF IInv
<1> QED BY <1>1, Inductive, PTL

\* No more than MaxConcurrentRequests requests are out.
THEOREM LimitHolds == Spec => []LimitKept
<1>1. IInv => LimitKept
  BY DEF IInv
<1> QED BY <1>1, Inductive, PTL

\* A call that is pending is queued or out, and not both: restartTransport neither loses
\* nor doubles a read.
THEOREM CallsAccounted == Spec => []Accounted
<1>1. IInv => Accounted
  <2> SUFFICES ASSUME IInv, NEW r \in Requests
               PROVE  /\ outcome[r] = "pending" <=> Queued(r) \/ Out(r)
                      /\ ~(Queued(r) /\ Out(r))
    BY DEF Accounted
  <2>1. Queued(r) <=> r \in Waiting(high, low)
    BY DEF Queued, Waiting
  <2>2. /\ outcome[r] = "pending" <=> r \in Waiting(high, low) \cup active
        /\ Waiting(high, low) \cap active = aborting \cap Gets
    BY DEF IInv, Places, PlacesOf
  <2> QED BY <2>1, <2>2 DEF Out
<1> QED BY <1>1, Inductive, PTL

\* A write is handed to the network at most once.
THEOREM WritesNotRepeated == Spec => []WritesSentOnce
<1>1. IInv => WritesSentOnce
  BY DEF IInv, Sent, SentOf, WritesSentOnce
<1> QED BY <1>1, Inductive, PTL

\* In the event loop no request waits for a free slot.
THEOREM NoSlotIdle == Spec => []NoIdleSlot
<1>1. IInv => NoIdleSlot
  <2> SUFFICES ASSUME IInv, EventLoop, globalActiveRequests < MaxConcurrentRequests
               PROVE  \A c \in connectors : high[c] = <<>> /\ low[c] = <<>>
    BY DEF NoIdleSlot
  <2>1. restarting = {} /\ ~(globalActiveRequests >= MaxConcurrentRequests)
    <3>1. globalActiveRequests \in Nat /\ MaxConcurrentRequests \in Nat
      BY HTTPAssumption DEF IInv, TypeOK, HTTPAssumption
    <3> QED BY <3>1 DEF EventLoop
  <2> QED BY <2>1 DEF IInv, Served
<1> QED BY <1>1, Inductive, PTL

\* The three together: slots are exact, within the limit and in use.
THEOREM SlotsAlwaysServed == Spec => []SlotsServed
<1>1. SlotsMatch /\ LimitKept /\ NoIdleSlot => SlotsServed
  BY DEF SlotsServed
<1> QED BY <1>1, SlotsExact, LimitHolds, NoSlotIdle, PTL

-------------------------------------------------------------------------------
(* Records of the client's state, by their fields                             *)

\* A client, a service, the views and the lapses with these fields, and records that are one.
ClientOf(a, b, s, v, l) == [users |-> a, avatar |-> b, service |-> s, views |-> v, lapses |-> l]
ServiceOf(q, i, w, h, p) == [queued |-> q, inFlight |-> i, waiters |-> w, scheduled |-> h, pictures |-> p]
ViewsOf(s, l) == [shown |-> s, left |-> l]
LapsesOf(l, u, d, o, w) == [late |-> l, unrefreshed |-> u, denied |-> d, overtaken |-> o, wanted |-> w]

IsClient(c) == c = ClientOf(c.users, c.avatar, c.service, c.views, c.lapses)
IsService(s) == s = ServiceOf(s.queued, s.inFlight, s.waiters, s.scheduled, s.pictures)
IsViews(w) == w = ViewsOf(w.shown, w.left)
IsLapses(l) == l = LapsesOf(l.late, l.unrefreshed, l.denied, l.overtaken, l.wanted)

\* The fields of a client written out.
LEMMA ClientIs ==
    ASSUME NEW a, NEW b, NEW s, NEW v, NEW l
    PROVE  LET c == ClientOf(a, b, s, v, l)
           IN IsClient(c) /\ c.users = a /\ c.avatar = b /\ c.service = s /\ c.views = v /\ c.lapses = l
BY DEF IsClient, ClientOf

\* The fields of a service written out.
LEMMA ServiceIs ==
    ASSUME NEW q, NEW i, NEW w, NEW h, NEW p
    PROVE  LET s == ServiceOf(q, i, w, h, p)
           IN /\ IsService(s) /\ s.queued = q /\ s.inFlight = i /\ s.waiters = w
              /\ s.scheduled = h /\ s.pictures = p
BY DEF IsService, ServiceOf

\* The fields of the views written out.
LEMMA ViewsIs ==
    ASSUME NEW s, NEW l
    PROVE  LET w == ViewsOf(s, l) IN IsViews(w) /\ w.shown = s /\ w.left = l
BY DEF IsViews, ViewsOf

\* The fields of the lapses written out.
LEMMA LapsesIs ==
    ASSUME NEW a, NEW u, NEW d, NEW o, NEW w
    PROVE  LET l == LapsesOf(a, u, d, o, w)
           IN /\ IsLapses(l) /\ l.late = a /\ l.unrefreshed = u /\ l.denied = d
              /\ l.overtaken = o /\ l.wanted = w
BY DEF IsLapses, LapsesOf

\* One field of a client is replaced.
LEMMA WriteClient ==
    ASSUME NEW c, IsClient(c), NEW x
    PROVE  /\ [c EXCEPT !.users = x] = ClientOf(x, c.avatar, c.service, c.views, c.lapses)
           /\ [c EXCEPT !.service = x] = ClientOf(c.users, c.avatar, x, c.views, c.lapses)
           /\ [c EXCEPT !.views = x] = ClientOf(c.users, c.avatar, c.service, x, c.lapses)
           /\ [c EXCEPT !.lapses = x] = ClientOf(c.users, c.avatar, c.service, c.views, x)
<1>1. c = [users |-> c.users, avatar |-> c.avatar, service |-> c.service, views |-> c.views, lapses |-> c.lapses]
  BY DEF IsClient, ClientOf
<1>2. /\ [c EXCEPT !.users = x] = ClientOf(x, c.avatar, c.service, c.views, c.lapses)
      /\ [c EXCEPT !.service = x] = ClientOf(c.users, c.avatar, x, c.views, c.lapses)
  BY <1>1 DEF ClientOf
<1>3. /\ [c EXCEPT !.views = x] = ClientOf(c.users, c.avatar, c.service, x, c.lapses)
      /\ [c EXCEPT !.lapses = x] = ClientOf(c.users, c.avatar, c.service, c.views, x)
  BY <1>1 DEF ClientOf
<1> QED BY <1>2, <1>3

\* The service and the lapses of a client are replaced (ensureAvatar).
LEMMA WriteLapses ==
    ASSUME NEW c, IsClient(c), NEW x, NEW y, NEW d, d = [c EXCEPT !.service = x, !.lapses = y]
    PROVE  d = ClientOf(c.users, c.avatar, x, c.views, y)
<1> DEFINE b == ClientOf(c.users, c.avatar, x, c.views, c.lapses)
<1>1. [c EXCEPT !.service = x] = b
  BY WriteClient
<1>2. [b EXCEPT !.lapses = y] = ClientOf(c.users, c.avatar, x, c.views, y)
  BY DEF ClientOf
<1>3. d = [[c EXCEPT !.service = x] EXCEPT !.lapses = y]
  OBVIOUS
<1> QED BY <1>1, <1>2, <1>3

\* The service and the views of a client are replaced (finishProfile).
LEMMA WriteViewed ==
    ASSUME NEW c, IsClient(c), NEW x, NEW y, NEW d, d = [c EXCEPT !.service = x, !.views = y]
    PROVE  d = ClientOf(c.users, c.avatar, x, y, c.lapses)
<1> DEFINE b == ClientOf(c.users, c.avatar, x, c.views, c.lapses)
<1>1. [c EXCEPT !.service = x] = b
  BY WriteClient
<1>2. [b EXCEPT !.views = y] = ClientOf(c.users, c.avatar, x, y, c.lapses)
  BY DEF ClientOf
<1>3. d = [[c EXCEPT !.service = x] EXCEPT !.views = y]
  OBVIOUS
<1> QED BY <1>1, <1>2, <1>3

\* One field of a service is replaced.
LEMMA WriteService ==
    ASSUME NEW s, IsService(s), NEW x
    PROVE  /\ [s EXCEPT !.pictures = x] = ServiceOf(s.queued, s.inFlight, s.waiters, s.scheduled, x)
           /\ [s EXCEPT !.scheduled = x] = ServiceOf(s.queued, s.inFlight, s.waiters, x, s.pictures)
           /\ [s EXCEPT !.inFlight = x] = ServiceOf(s.queued, x, s.waiters, s.scheduled, s.pictures)
<1>1. s = [queued |-> s.queued, inFlight |-> s.inFlight, waiters |-> s.waiters, scheduled |-> s.scheduled,
           pictures |-> s.pictures]
  BY DEF IsService, ServiceOf
<1>2. [s EXCEPT !.pictures = x] = ServiceOf(s.queued, s.inFlight, s.waiters, s.scheduled, x)
  BY <1>1 DEF ServiceOf
<1>3. [s EXCEPT !.scheduled = x] = ServiceOf(s.queued, s.inFlight, s.waiters, x, s.pictures)
  BY <1>1 DEF ServiceOf
<1>4. [s EXCEPT !.inFlight = x] = ServiceOf(s.queued, x, s.waiters, s.scheduled, s.pictures)
  BY <1>1 DEF ServiceOf
<1> QED BY <1>2, <1>3, <1>4

\* A user is answered: nobody waits for it any more.
LEMMA WriteAnswered ==
    ASSUME NEW s, IsService(s), NEW x, NEW u, NEW t, t = [s EXCEPT !.inFlight = x, !.waiters[u] = {}]
    PROVE  t = ServiceOf(s.queued, x, [s.waiters EXCEPT ![u] = {}], s.scheduled, s.pictures)
<1> DEFINE b == ServiceOf(s.queued, x, s.waiters, s.scheduled, s.pictures)
<1>1. [s EXCEPT !.inFlight = x] = b
  BY WriteService
<1>2. [b EXCEPT !.waiters[u] = {}] = ServiceOf(s.queued, x, [s.waiters EXCEPT ![u] = {}], s.scheduled, s.pictures)
  BY DEF ServiceOf
<1>3. t = [[s EXCEPT !.inFlight = x] EXCEPT !.waiters[u] = {}]
  OBVIOUS
<1> QED BY <1>1, <1>2, <1>3

\* What views are left to wait for is replaced.
LEMMA WriteViews ==
    ASSUME NEW w, IsViews(w), NEW x
    PROVE  [w EXCEPT !.left = x] = ViewsOf(w.shown, x)
BY DEF IsViews, ViewsOf

-------------------------------------------------------------------------------
(* What the service owes the views                                            *)

\* The users a view waits for.
Owed(w, v) == {u \in Users : v \in w[u]}

\* The books of queue q, flight i, waiters w, views showing s and left to wait for l: who is
\* waited for is queued or in flight, never both, and views count what they wait for.
BooksOf(q, i, w, s, l) ==
    /\ q \subseteq Users /\ i \subseteq Users /\ q \cap i = {}
    /\ w \in [Users -> SUBSET Views] /\ s \in [Views -> SUBSET Users] /\ l \in [Views -> Nat]
    /\ \A u \in Users : w[u] # {} => u \in q \cup i
    /\ \A v \in Views : l[v] = Cardinality(Owed(w, v))

\* A client with its books in order.
Kept(c) ==
    /\ IsClient(c) /\ IsService(c.service) /\ IsViews(c.views)
    /\ BooksOf(c.service.queued, c.service.inFlight, c.service.waiters, c.views.shown, c.views.left)

\* The users a view waits for are finitely many, and none when it counts 0.
LEMMA OwedCount ==
    ASSUME NEW w, NEW v
    PROVE  /\ IsFiniteSet(Owed(w, v)) /\ Cardinality(Owed(w, v)) \in Nat
           /\ Cardinality(Owed(w, v)) = 0 <=> Owed(w, v) = {}
<1>1. Owed(w, v) \in SUBSET Users /\ IsFiniteSet(Users)
  BY ProfilesAssumption DEF ProfilesAssumption, Owed
<1>2. IsFiniteSet(Owed(w, v))
  BY <1>1, FS_Subset
<1> QED BY <1>2, FS_CardinalityType, FS_EmptySet

\* An answer for u: the views that waited for u are owed one less.
LEMMA AnswerBooks ==
    ASSUME NEW q, NEW i, NEW w, NEW s, NEW l, BooksOf(q, i, w, s, l), NEW u \in Users,
           NEW w2, w2 = [w EXCEPT ![u] = {}],
           NEW l2, l2 = [v \in Views |-> IF v \in w[u] THEN l[v] - 1 ELSE l[v]]
    PROVE  BooksOf(q, i \ {u}, w2, s, l2)
<1>1. /\ w2 \in [Users -> SUBSET Views] /\ w2[u] = {}
      /\ \A x \in Users : x # u => w2[x] = w[x]
  BY DEF BooksOf
<1>2. ASSUME NEW v \in Views PROVE l2[v] \in Nat /\ l2[v] = Cardinality(Owed(w2, v))
  <2>1. l[v] = Cardinality(Owed(w, v)) /\ l[v] \in Nat
    BY DEF BooksOf
  <2>2. Owed(w2, v) = Owed(w, v) \ {u} /\ (v \in w[u] <=> u \in Owed(w, v))
    BY <1>1 DEF Owed
  <2>3. Cardinality(Owed(w, v) \ {u}) = IF u \in Owed(w, v) THEN Cardinality(Owed(w, v)) - 1
                                                           ELSE Cardinality(Owed(w, v))
    BY OwedCount, FS_RemoveElement
  <2>4. l2[v] = IF v \in w[u] THEN l[v] - 1 ELSE l[v]
    OBVIOUS
  <2>5. l2[v] = Cardinality(Owed(w2, v))
    BY <2>1, <2>2, <2>3, <2>4
  <2> QED BY <2>5, OwedCount
<1>3. l2 \in [Views -> Nat]
  BY <1>2
<1>4. \A x \in Users : w2[x] # {} => x \in q \cup (i \ {u})
  BY <1>1 DEF BooksOf
<1>5. q \subseteq Users /\ i \ {u} \subseteq Users /\ q \cap (i \ {u}) = {} /\ s \in [Views -> SUBSET Users]
  BY DEF BooksOf
<1> QED BY <1>1, <1>2, <1>3, <1>4, <1>5 DEF BooksOf

\* Those missing in the views of D, who are neither queued in q nor in flight in i.
NewFor(D, missing, q, i) == {u \in Users : {v \in D : u \in missing[v]} # {}} \ (q \cup i)
WaitersFor(D, missing, w) == [u \in Users |-> w[u] \cup {v \in D : u \in missing[v]}]
LeftFor(D, missing, l) == [v \in Views |-> IF v \in D THEN Cardinality(missing[v]) ELSE l[v]]

\* Views that wait for nobody are laid out and ask for those missing.
LEMMA AskBooks ==
    ASSUME NEW q, NEW i, NEW w, NEW s, NEW l, BooksOf(q, i, w, s, l),
           NEW D, D \subseteq Views, \A v \in D : l[v] = 0,
           NEW missing \in [D -> SUBSET Users],
           NEW s2 \in [Views -> SUBSET Users]
    PROVE  BooksOf(q \cup NewFor(D, missing, q, i), i, WaitersFor(D, missing, w), s2, LeftFor(D, missing, l))
<1> DEFINE new == NewFor(D, missing, q, i)
           w2 == WaitersFor(D, missing, w)
           l2 == LeftFor(D, missing, l)
<1> USE DEF NewFor, WaitersFor, LeftFor
<1>1. w2 \in [Users -> SUBSET Views] /\ \A x \in Users : w2[x] = w[x] \cup {v \in D : x \in missing[v]}
  BY DEF BooksOf
<1>2. ASSUME NEW v \in Views PROVE l2[v] \in Nat /\ l2[v] = Cardinality(Owed(w2, v))
  <2>1. l[v] = Cardinality(Owed(w, v))
    BY DEF BooksOf
  <2>2. CASE v \in D
    <3>1. Owed(w, v) = {}
      BY <2>1, <2>2, OwedCount
    <3>2. missing[v] \subseteq Users
      BY <2>2
    <3>3. Owed(w2, v) = missing[v]
      BY <1>1, <2>2, <3>1, <3>2 DEF Owed
    <3>4. l2[v] = Cardinality(missing[v])
      BY <2>2
    <3> QED BY <3>3, <3>4, OwedCount
  <2>3. CASE v \notin D
    <3>1. Owed(w2, v) = Owed(w, v)
      BY <1>1, <2>3 DEF Owed
    <3>2. l2[v] = l[v]
      BY <2>3
    <3> QED BY <2>1, <3>1, <3>2, OwedCount
  <2> QED BY <2>2, <2>3
<1>3. l2 \in [Views -> Nat]
  BY <1>2
<1>4. \A x \in Users : w2[x] # {} => x \in (q \cup new) \cup i
  BY <1>1 DEF BooksOf
<1>5. q \cup new \subseteq Users /\ i \subseteq Users /\ (q \cup new) \cap i = {}
  BY DEF BooksOf
<1> QED BY <1>1, <1>2, <1>3, <1>4, <1>5 DEF BooksOf

-------------------------------------------------------------------------------
(* The calls of the service                                                   *)

\* The books of c are those of d.
SameBooks(c, d) ==
    /\ IsClient(d) /\ IsService(d.service)
    /\ d.service.queued = c.service.queued /\ d.service.inFlight = c.service.inFlight
    /\ d.service.waiters = c.service.waiters /\ d.service.scheduled = c.service.scheduled
    /\ d.views = c.views

\* Who keeps the same books keeps them well.
LEMMA SameBooksKeep ==
    ASSUME NEW c, NEW d, Kept(c), SameBooks(c, d)
    PROVE  Kept(d)
BY Zenon DEF Kept, SameBooks

\* Of three clients.
LEMMA SameBooksTwice ==
    ASSUME NEW c, NEW d, NEW e, SameBooks(c, d), SameBooks(d, e)
    PROVE  SameBooks(c, e)
BY Zenon DEF SameBooks

\* The lapses and the users are nobody's books.
LEMMA BesideBooks ==
    ASSUME NEW c, IsClient(c), IsService(c.service), NEW x
    PROVE  SameBooks(c, c) /\ SameBooks(c, [c EXCEPT !.lapses = x]) /\ SameBooks(c, [c EXCEPT !.users = x])
<1> DEFINE d == [c EXCEPT !.lapses = x]
           e == [c EXCEPT !.users = x]
<1>1. IsClient(d) /\ d.service = c.service /\ d.views = c.views
  <2>1. d = ClientOf(c.users, c.avatar, c.service, c.views, x)
    BY WriteClient
  <2> HIDE DEF d
  <2> QED BY <2>1, ClientIs
<1>2. IsClient(e) /\ e.service = c.service /\ e.views = c.views
  <2>1. e = ClientOf(x, c.avatar, c.service, c.views, c.lapses)
    BY WriteClient
  <2> HIDE DEF e
  <2> QED BY <2>1, ClientIs
<1> HIDE DEF d, e
<1>3. SameBooks(c, d) /\ SameBooks(c, e) /\ SameBooks(c, c)
  BY <1>1, <1>2 DEF SameBooks
<1> QED BY <1>3 DEF d, e

\* Asking for pictures leaves the books alone.
LEMMA EnsureAvatarBooks ==
    ASSUME NEW c, IsClient(c), IsService(c.service), NEW us
    PROVE  SameBooks(c, ensureAvatar(c, us))
<1> DEFINE fetched == {u \in us : ~PictureHeld(c, u)}
           keys == {<<u, c.users[u]>> : u \in fetched}
           x == [c.service EXCEPT !.pictures = @ \cup keys]
           y == [c.lapses EXCEPT !.wanted = @ \cup fetched, !.denied = @ \ keys, !.overtaken = @ \ fetched]
           d == ensureAvatar(c, us)
<1>1. d = [c EXCEPT !.service = x, !.lapses = y]
  BY DEF ensureAvatar
<1>2. x = ServiceOf(c.service.queued, c.service.inFlight, c.service.waiters, c.service.scheduled,
                    c.service.pictures \cup keys)
  <2> HIDE DEF keys
  <2> QED BY WriteService
<1> HIDE DEF x, y, d, keys
<1>3. d = ClientOf(c.users, c.avatar, x, c.views, y)
  BY <1>1, WriteLapses
<1>4. IsClient(d) /\ d.service = x /\ d.views = c.views
  BY <1>3, ClientIs
<1>5. /\ IsService(x) /\ x.queued = c.service.queued /\ x.inFlight = c.service.inFlight
      /\ x.waiters = c.service.waiters /\ x.scheduled = c.service.scheduled
  BY <1>2, ServiceIs
<1>6. SameBooks(c, d)
  BY <1>4, <1>5 DEF SameBooks
<1> QED BY <1>6 DEF d

\* So does storing a profile, with the picture it renews.
LEMMA AddUserBooks ==
    ASSUME NEW c, IsClient(c), IsService(c.service), NEW us, NEW version
    PROVE  /\ SameBooks(c, Renewed(c, us, version))
           /\ SameBooks(c, addUser(c, us, version))
<1> DEFINE d == Overtaken(c, us, version)
           e == Renewed(c, us, version)
           f == addUser(c, us, version)
<1>1. SameBooks(c, d)
  BY BesideBooks DEF Overtaken
<1>2. IsClient(d) /\ IsService(d.service)
  BY <1>1 DEF SameBooks
<1>3. SameBooks(d, e)
  <2> DEFINE x == [u \in Users |-> IF u \in us THEN version[u] ELSE c.users[u]]
             g == [d EXCEPT !.users = x]
  <2>1. e = g
    BY DEF Renewed
  <2> HIDE DEF d, x, e
  <2>2. SameBooks(d, g)
    BY <1>2, BesideBooks, Zenon
  <2> QED BY <2>1, <2>2
<1> HIDE DEF d, e
<1>4. SameBooks(c, e)
  BY <1>1, <1>3, SameBooksTwice
<1>5. IsClient(e) /\ IsService(e.service)
  BY <1>4 DEF SameBooks
<1>6. SameBooks(e, f)
  <2>1. f = ensureAvatar(e, {u \in us : e.avatar[u] # 0})
    BY DEF addUser, resolveReferences, e
  <2> HIDE DEF f
  <2> QED BY <1>5, <2>1, EnsureAvatarBooks
<1> HIDE DEF f
<1>7. SameBooks(c, f)
  BY <1>4, <1>6, SameBooksTwice
<1> QED BY <1>4, <1>7 DEF e, f

\* Nobody is dropped from the queue, and who is added to it has the timer started.
Queues(c, d) ==
    /\ d.service.inFlight = c.service.inFlight
    /\ d.service.queued # {} => c.service.queued # {} \/ d.service.scheduled
    /\ c.service.scheduled => d.service.scheduled

\* Views that owe nobody are laid out: what they ask for is queued once, and counted.
LEMMA ShowKeeps ==
    ASSUME NEW c, Kept(c), NEW D, D \subseteq Views, NEW laid \in [D -> SUBSET Users],
           \A v \in D : c.views.left[v] = 0
    PROVE  Kept(Show(c, laid)) /\ Queues(c, Show(c, laid))
<1> DEFINE missing == [v \in DOMAIN laid |-> {u \in laid[v] : c.users[u] = 0}]
           p == ensureAvatar(c, UNION {laid[v] \ missing[v] : v \in DOMAIN laid})
           for(u) == {v \in DOMAIN missing : u \in missing[v]}
           new == {u \in Users : for(u) # {}} \ (p.service.queued \cup p.service.inFlight)
           w2 == [u \in Users |-> p.service.waiters[u] \cup for(u)]
           s2 == [v \in Views |-> IF v \in DOMAIN laid THEN laid[v] ELSE c.views.shown[v]]
           l2 == [v \in Views |-> IF v \in DOMAIN laid THEN Cardinality(missing[v]) ELSE c.views.left[v]]
           serv == ServiceOf(p.service.queued \cup new, p.service.inFlight, w2,
                             p.service.scheduled \/ new # {}, p.service.pictures)
           d == ClientOf(c.users, c.avatar, serv, ViewsOf(s2, l2), p.lapses)
<1>1. Show(c, laid) = d
  BY Zenon DEF Show, ensureUser, ClientOf, ServiceOf, ViewsOf
<1>2. IsClient(c) /\ IsService(c.service)
  BY DEF Kept
<1>3. SameBooks(c, p)
  <2> HIDE DEF missing
  <2> QED BY <1>2, EnsureAvatarBooks
<1>4. missing \in [D -> SUBSET Users] /\ DOMAIN missing = D
  OBVIOUS
<1>5. s2 \in [Views -> SUBSET Users]
  BY DEF Kept, BooksOf
<1> DEFINE q == c.service.queued
           i == c.service.inFlight
           w == c.service.waiters
           s == c.views.shown
           l == c.views.left
<1>6. BooksOf(q, i, w, s, l)
  BY DEF Kept
<1>7. new = NewFor(D, missing, q, i)
  <2> HIDE DEF p, missing
  <2> QED BY <1>3, <1>4 DEF SameBooks, NewFor
<1>8. w2 = WaitersFor(D, missing, w)
  <2> HIDE DEF p, missing
  <2> QED BY <1>3, <1>4 DEF SameBooks, WaitersFor
<1>9. l2 = LeftFor(D, missing, l)
  <2>1. DOMAIN laid = D
    OBVIOUS
  <2> HIDE DEF missing
  <2> QED BY <2>1 DEF LeftFor
<1>10. \A v \in D : l[v] = 0
  OBVIOUS
<1>11. p.service.queued = q /\ p.service.inFlight = i
  BY <1>3 DEF SameBooks
<1>12. p.service.scheduled = c.service.scheduled
  <2> HIDE DEF p
  <2> QED BY <1>3, Zenon DEF SameBooks
<1> HIDE DEF q, i, w, s, l, new, w2, s2, l2, missing, p
<1>13. BooksOf(q \cup new, i, w2, s2, l2)
  <2>1. BooksOf(q \cup NewFor(D, missing, q, i), i, WaitersFor(D, missing, w), s2, LeftFor(D, missing, l))
    BY <1>4, <1>5, <1>6, <1>10, AskBooks
  <2> QED BY <1>7, <1>8, <1>9, <2>1
<1>14. /\ IsService(serv) /\ serv.queued = q \cup new /\ serv.inFlight = i /\ serv.waiters = w2
       /\ serv.scheduled = (p.service.scheduled \/ new # {})
  BY <1>11, ServiceIs
<1> DEFINE views2 == ViewsOf(s2, l2)
<1>15. IsViews(views2) /\ views2.shown = s2 /\ views2.left = l2
  BY ViewsIs
<1> HIDE DEF serv, views2
<1>16. IsClient(d) /\ d.service = serv /\ d.views = views2
  BY ClientIs DEF views2
<1> HIDE DEF d
<1>17. Kept(d)
  BY <1>13, <1>14, <1>15, <1>16 DEF Kept
<1>18. d.service.inFlight = c.service.inFlight
  BY <1>14, <1>16 DEF i
<1>19. serv.queued # {} => q # {} \/ serv.scheduled
  <2>1. CASE new = {}
    BY <1>14, <2>1
  <2>2. CASE new # {}
    <3>1. serv.scheduled
      BY <1>14, <2>2, Zenon
    <3> QED BY <3>1
  <2> QED BY <2>1, <2>2
<1>20. c.service.scheduled => serv.scheduled
  BY <1>12, <1>14, Zenon
<1>21. Queues(c, d)
  BY <1>16, <1>18, <1>19, <1>20, Zenon DEF Queues, q
<1> QED BY <1>1, <1>17, <1>21

\* An answer for u, and all the views it tells.
LEMMA FinishProfileKeeps ==
    ASSUME NEW c, Kept(c), NEW u \in Users
    PROVE  Kept(finishProfile(c, u)) /\ finishProfile(c, u).service.inFlight = c.service.inFlight \ {u}
<1> DEFINE waiting == c.service.waiters[u]
           told == {v \in waiting : c.views.left[v] = 1}
           l2 == [v \in Views |-> IF v \in waiting THEN c.views.left[v] - 1 ELSE c.views.left[v]]
           x == [c.service EXCEPT !.inFlight = @ \ {u}, !.waiters[u] = {}]
           y == [c.views EXCEPT !.left = l2]
           t == [c EXCEPT !.service = x, !.views = y]
           laid == [v \in told |-> IF v \in Refreshing THEN c.views.shown[v]
                                    ELSE {w \in c.views.shown[v] : c.users[w] # 0}]
<1>1. finishProfile(c, u) = Show(t, laid)
  BY DEF finishProfile, Told, Relaid
<1>2. /\ IsClient(c) /\ IsService(c.service) /\ IsViews(c.views)
      /\ BooksOf(c.service.queued, c.service.inFlight, c.service.waiters, c.views.shown, c.views.left)
  BY DEF Kept
<1> DEFINE i2 == c.service.inFlight \ {u}
           w2 == [c.service.waiters EXCEPT ![u] = {}]
<1>3. x = ServiceOf(c.service.queued, i2, w2, c.service.scheduled, c.service.pictures)
  <2> DEFINE z == [c.service EXCEPT !.inFlight = i2, !.waiters[u] = {}]
  <2>1. x = z
    OBVIOUS
  <2>2. z = ServiceOf(c.service.queued, i2, w2, c.service.scheduled, c.service.pictures)
    <3>1. z = [c.service EXCEPT !.inFlight = i2, !.waiters[u] = {}]
      OBVIOUS
    <3> HIDE DEF i2, x, z
    <3> QED BY <1>2, <3>1, WriteAnswered
  <2> QED BY <2>1, <2>2
<1>4. y = ViewsOf(c.views.shown, l2)
  <2> HIDE DEF l2
  <2> QED BY <1>2, WriteViews
<1>5. t = ClientOf(c.users, c.avatar, x, y, c.lapses)
  <2> HIDE DEF x, y
  <2> QED BY <1>2, WriteViewed
<1>6. BooksOf(c.service.queued, i2, w2, c.views.shown, l2)
  BY <1>2, AnswerBooks
<1>7. told \subseteq Views /\ laid \in [told -> SUBSET Users]
  BY <1>2 DEF BooksOf
<1>8. \A v \in told : l2[v] = 0
  BY <1>7
<1> HIDE DEF x, y, i2, w2, l2, t, told, laid
<1>9. IsClient(t) /\ t.service = x /\ t.views = y
  BY <1>5, ClientIs
<1>10. IsService(x) /\ x.queued = c.service.queued /\ x.inFlight = i2 /\ x.waiters = w2
  BY <1>3, ServiceIs
<1>11. IsViews(y) /\ y.shown = c.views.shown /\ y.left = l2
  BY <1>4, ViewsIs
<1>12. Kept(t)
  BY <1>6, <1>9, <1>10, <1>11 DEF Kept
<1>13. \A v \in told : t.views.left[v] = 0
  BY <1>8, <1>9, <1>11
<1>14. Kept(Show(t, laid)) /\ Queues(t, Show(t, laid))
  BY <1>7, <1>12, <1>13, ShowKeeps
<1>15. Show(t, laid).service.inFlight = t.service.inFlight
  BY <1>14 DEF Queues
<1> QED BY <1>1, <1>9, <1>10, <1>14, <1>15 DEF i2

\* Users taken from a reply are nobody's books.
LEMMA TakeBooks ==
    ASSUME NEW c, IsClient(c), IsService(c.service), NEW r, NEW us
    PROVE  SameBooks(c, Take(c, r, us))
<1> DEFINE late(u) == IF c.users[u] = 0 THEN ~\E i \in DOMAIN stream.events : stream.events[i].user = u
                      ELSE r.reply[u] < c.users[u]
           marked == {u \in us : late(u) /\ r.reply[u] < server.version[u]}
           y == [c.lapses EXCEPT !.late = @ \cup marked]
           d == [c EXCEPT !.lapses = y]
           v == r.reply
<1>1. Take(c, r, us) = addUser(d, us, v)
  BY DEF Take
<1> HIDE DEF y, v
<1>2. SameBooks(c, d)
  BY BesideBooks
<1> HIDE DEF d
<1>3. IsClient(d) /\ IsService(d.service)
  BY <1>2 DEF SameBooks
<1>4. SameBooks(d, addUser(d, us, v))
  BY <1>3, AddUserBooks
<1>5. SameBooks(c, addUser(d, us, v))
  BY <1>2, <1>4, SameBooksTwice
<1> QED BY <1>1, <1>5

\* An event of a user leaves the books alone.
LEMMA UpdatedBooks ==
    ASSUME NEW c, IsClient(c), IsService(c.service), NEW event
    PROVE  SameBooks(c, Updated(c, event))
<1> DEFINE u == event.user
           y == [c.lapses EXCEPT !.late = @ \ {u}, !.unrefreshed = @ \ {u}]
           d == [c EXCEPT !.lapses = y]
           v == [w \in {u} |-> event.version]
           e == Renewed(d, {u}, v)
           f == ensureAvatar(e, {u})
           g == Updated(c, event)
<1>1. g = e \/ g = f
  BY Zenon DEF Updated
<1> HIDE DEF y, v, u
<1>2. SameBooks(c, d)
  BY BesideBooks
<1> HIDE DEF d
<1>3. IsClient(d) /\ IsService(d.service)
  BY <1>2 DEF SameBooks
<1>4. SameBooks(d, e)
  BY <1>3, AddUserBooks
<1> HIDE DEF e
<1>5. IsClient(e) /\ IsService(e.service)
  BY <1>4 DEF SameBooks
<1>6. SameBooks(e, f)
  BY <1>5, EnsureAvatarBooks
<1> HIDE DEF f, g
<1>7. SameBooks(c, e) /\ SameBooks(c, f)
  BY <1>2, <1>4, <1>6, SameBooksTwice
<1>8. SameBooks(c, g)
  BY <1>1, <1>7
<1> QED BY <1>8 DEF g

\* After Reschedule a queue that is not empty has its timer.
LEMMA RescheduleKeeps ==
    ASSUME NEW c, Kept(c)
    PROVE  LET d == Reschedule(c)
           IN /\ Kept(d) /\ d.service.inFlight = c.service.inFlight
              /\ d.service.queued # {} => d.service.scheduled
<1> DEFINE h == c.service.scheduled \/ c.service.queued # {}
           x == [c.service EXCEPT !.scheduled = h]
           d == Reschedule(c)
<1>1. d = [c EXCEPT !.service = x]
  BY DEF Reschedule
<1>2. /\ IsClient(c) /\ IsService(c.service) /\ IsViews(c.views)
      /\ BooksOf(c.service.queued, c.service.inFlight, c.service.waiters, c.views.shown, c.views.left)
  BY DEF Kept
<1>3. c.service.queued # {} => h
  OBVIOUS
<1> HIDE DEF h
<1>4. x = ServiceOf(c.service.queued, c.service.inFlight, c.service.waiters, h, c.service.pictures)
  BY <1>2, WriteService
<1> HIDE DEF x, d
<1>5. d = ClientOf(c.users, c.avatar, x, c.views, c.lapses)
  BY <1>1, <1>2, WriteClient
<1>6. IsClient(d) /\ d.service = x /\ d.views = c.views
  BY <1>5, ClientIs
<1>7. /\ IsService(x) /\ x.queued = c.service.queued /\ x.inFlight = c.service.inFlight
      /\ x.waiters = c.service.waiters /\ x.scheduled = h
  BY <1>4, ServiceIs
<1>8. Kept(d)
  BY <1>2, <1>6, <1>7 DEF Kept
<1>9. d.service.queued # {} => d.service.scheduled
  BY <1>3, <1>6, <1>7, Zenon
<1> QED BY <1>6, <1>7, <1>8, <1>9 DEF d

-------------------------------------------------------------------------------
(* An answer, user by user                                                    *)

\* A set of natural numbers that is not empty has a least element.
LEMMA Least ==
    ASSUME NEW T, T \subseteq Nat, T # {}
    PROVE  \E m \in T : \A n \in T : m <= n
<1>1. \E x \in T : \A y \in T : ~ (<<y, x>> \in OpToRel(<, Nat))
  BY NatLessThanWellFounded, WFMin, Zenon
<1>2. PICK x \in T : \A y \in T : ~ (<<y, x>> \in OpToRel(<, Nat))
  BY <1>1
<1>3. \A y \in T : ~ (y < x)
  BY <1>2 DEF OpToRel
<1> QED BY <1>3

\* What holds of 0, and of the next number, holds of all numbers up to n.
LEMMA Upward ==
    ASSUME NEW n \in Nat, NEW H, H \subseteq 0..n, 0 \in H, \A k \in H : k < n => k + 1 \in H
    PROVE  H = 0..n
<1> SUFFICES ASSUME NEW m \in 0..n, m \notin H PROVE FALSE
  OBVIOUS
<1> DEFINE T == (0..n) \ H
<1>1. PICK x \in T : \A y \in T : x <= y
  <2>1. T \subseteq Nat /\ T # {}
    OBVIOUS
  <2> HIDE DEF T
  <2> QED BY <2>1, Least
<1>2. x > 0 /\ x - 1 \in 0..n /\ x - 1 \notin T
  BY <1>1
<1> QED BY <1>1, <1>2

\* The users of an order.
Held(f) == {f[j] : j \in 1..Len(f)}

\* The client after k of the users, by the client after one less; a run of it, and the run.
AfterDef(r, returned, order, f, k) ==
    IF k = 0 THEN client
    ELSE finishProfile(IF order[k] \in returned THEN Take(f[k - 1], r, {order[k]}) ELSE f[k - 1], order[k])

AfterRun(r, returned, order, m, f) == f = [k \in 0..m |-> AfterDef(r, returned, order, f, k)]
AfterOf(r, returned, order, n) == CHOOSE f : AfterRun(r, returned, order, n, f)

\* The answers up to one user go on to the next.
LEMMA AfterNext ==
    ASSUME NEW r, NEW returned, NEW order, NEW m \in Nat, NEW f, AfterRun(r, returned, order, m, f)
    PROVE  \E g : AfterRun(r, returned, order, m + 1, g)
<1> DEFINE g == [k \in 0..(m + 1) |-> IF k = m + 1 THEN AfterDef(r, returned, order, f, k) ELSE f[k]]
<1>1. \A k \in 0..(m + 1) : g[k] = AfterDef(r, returned, order, g, k)
  <2> SUFFICES ASSUME NEW k \in 0..(m + 1) PROVE g[k] = AfterDef(r, returned, order, g, k)
    OBVIOUS
  <2>1. k # 0 => g[k - 1] = f[k - 1]
    OBVIOUS
  <2>2. AfterDef(r, returned, order, g, k) = AfterDef(r, returned, order, f, k)
    <3> HIDE DEF g
    <3> QED BY <2>1 DEF AfterDef
  <2>3. k # m + 1 => f[k] = AfterDef(r, returned, order, f, k)
    BY DEF AfterRun
  <2>4. g[k] = IF k = m + 1 THEN AfterDef(r, returned, order, f, k) ELSE f[k]
    OBVIOUS
  <2> QED BY <2>2, <2>3, <2>4
<1>2. g = [k \in 0..(m + 1) |-> g[k]]
  OBVIOUS
<1> HIDE DEF g
<1>3. AfterRun(r, returned, order, m + 1, g)
  BY <1>1, <1>2 DEF AfterRun
<1> QED BY <1>3

\* The recursive function of Finish exists.
LEMMA AfterDefined ==
    ASSUME NEW r, NEW returned, NEW order, NEW n \in Nat
    PROVE  AfterRun(r, returned, order, n, AfterOf(r, returned, order, n))
<1> DEFINE H == {m \in 0..n : \E f : AfterRun(r, returned, order, m, f)}
<1>1. 0 \in H
  <2> DEFINE f == [k \in 0..0 |-> client]
  <2>1. \A k \in 0..0 : f[k] = AfterDef(r, returned, order, f, k)
    BY DEF AfterDef
  <2>2. f = [k \in 0..0 |-> f[k]]
    OBVIOUS
  <2> HIDE DEF f
  <2>3. AfterRun(r, returned, order, 0, f)
    BY <2>1, <2>2 DEF AfterRun
  <2> QED BY <2>3
<1>2. \A m \in H : m < n => m + 1 \in H
  BY AfterNext
<1>3. H \subseteq 0..n
  OBVIOUS
<1>4. n \in H
  <2> HIDE DEF H
  <2>1. H = 0..n
    BY <1>1, <1>2, <1>3, Upward
  <2> QED BY <2>1
<1> QED BY <1>4 DEF AfterOf

\* The users answered are in flight no more; the books are kept throughout.
LEMMA FinishKeeps ==
    ASSUME Kept(client), NEW r, NEW returned, NEW order \in Seq(Users)
    PROVE  LET d == Finish(r, returned, order)
           IN Kept(d) /\ d.service.inFlight = service.inFlight \ Held(order)
<1> DEFINE n == Len(order)
           f == AfterOf(r, returned, order, n)
           upto(k) == {order[j] : j \in 1..k}
           Good(c, k) == Kept(c) /\ c.service.inFlight = service.inFlight \ upto(k)
           H == {k \in 0..n : Good(f[k], k)}
<1>1. n \in Nat /\ \A k \in 1..n : order[k] \in Users
  OBVIOUS
<1>2. Finish(r, returned, order) = f[n]
  BY DEF Finish, AfterOf, AfterRun, AfterDef
<1>3. AfterRun(r, returned, order, n, f)
  BY <1>1, AfterDefined
<1> HIDE DEF f, n
<1>4. \A k \in 0..n : f[k] = AfterDef(r, returned, order, f, k)
  BY <1>3 DEF AfterRun
<1>5. 0 \in H
  <2>1. f[0] = client
    <3>1. AfterDef(r, returned, order, f, 0) = client
      BY DEF AfterDef
    <3>2. 0 \in 0..n
      BY <1>1
    <3> HIDE DEF H
    <3> QED BY <1>4, <3>1, <3>2
  <2>2. upto(0) = {}
    OBVIOUS
  <2>3. client.service = service
    BY DEF client
  <2>4. Good(f[0], 0)
    <3> HIDE DEF upto
    <3> QED BY <2>1, <2>2, <2>3
  <2> HIDE DEF Good
  <2> QED BY <1>1, <2>4
<1>6. \A k \in H : k < n => k + 1 \in H
  <2> SUFFICES ASSUME NEW k \in H, k < n PROVE k + 1 \in H
    OBVIOUS
  <2> DEFINE u == order[k + 1]
             c == f[k]
             t == Take(c, r, {u})
             e == IF u \in returned THEN t ELSE c
  <2>1. /\ k \in 0..n /\ k + 1 \in 0..n /\ k + 1 # 0 /\ k + 1 - 1 = k /\ u \in Users /\ k + 1 \in 1..n
        /\ Kept(c) /\ c.service.inFlight = service.inFlight \ upto(k)
    BY <1>1
  <2>2. f[k + 1] = finishProfile(e, u)
    <3> DEFINE p == k + 1
               b == f[p - 1]
    <3>1. p # 0 /\ p - 1 = k
      BY <2>1
    <3>2. b = c
      BY <3>1
    <3> HIDE DEF p, b
    <3>3. AfterDef(r, returned, order, f, p)
            = finishProfile(IF order[p] \in returned THEN Take(b, r, {order[p]}) ELSE b, order[p])
      BY <3>1, Zenon DEF AfterDef, b
    <3>4. AfterDef(r, returned, order, f, k + 1) = finishProfile(e, u)
      BY <3>2, <3>3, Zenon DEF p
    <3> HIDE DEF H, e, u
    <3> QED BY <1>4, <2>1, <3>4
  <2>3. SameBooks(c, t)
    BY <2>1, TakeBooks DEF Kept
  <2>4. upto(k + 1) = upto(k) \cup {u}
    BY <2>1
  <2> HIDE DEF t, u, c, upto
  <2>5. Kept(e) /\ e.service.inFlight = service.inFlight \ upto(k)
    <3>1. Kept(t) /\ t.service.inFlight = service.inFlight \ upto(k)
      <4>1. Kept(t)
        BY <2>1, <2>3, SameBooksKeep
      <4> QED BY <2>1, <2>3, <4>1 DEF SameBooks
    <3> QED BY <2>1, <3>1
  <2> HIDE DEF e
  <2> DEFINE d == finishProfile(e, u)
  <2>6. Kept(d) /\ d.service.inFlight = e.service.inFlight \ {u}
    BY <2>1, <2>5, FinishProfileKeeps
  <2> HIDE DEF d
  <2>7. Good(f[k + 1], k + 1)
    BY <2>2, <2>4, <2>5, <2>6 DEF d
  <2> HIDE DEF Good
  <2> QED BY <2>1, <2>7
<1>7. H \subseteq 0..n
  OBVIOUS
<1>8. n \in H
  <2> HIDE DEF H
  <2>1. H = 0..n
    BY <1>1, <1>5, <1>6, <1>7, Upward
  <2> QED BY <1>1, <2>1
<1>9. Good(f[n], n)
  BY <1>8
<1> QED BY <1>2, <1>9 DEF n, Held

\* An order of a set holds all of it.
LEMMA OrderHolds ==
    ASSUME NEW S, IsFiniteSet(S), NEW f \in SetToSeqs(S)
    PROVE  f \in Seq(S) /\ Held(f) = S
<1> DEFINE n == Cardinality(S)
           D == 1..n
           T == {f[j] : j \in D}
<1>1. n \in Nat
  BY FS_CardinalityType
<1>2. f \in [D -> S] /\ \A i, j \in D : i # j => f[i] # f[j]
  BY DEF SetToSeqs
<1>3. f \in Seq(S) /\ Len(f) = n
  BY <1>1, <1>2
<1>4. T \subseteq S /\ f \in [D -> T] /\ \A t \in T : \E i \in D : f[i] = t
  BY <1>2
<1>5. f \in Bijection(D, T)
  <2> HIDE DEF D, T
  <2> QED BY <1>2, <1>4 DEF Bijection, Injection, Surjection, IsInjective
<1>6. ExistsBijection(D, T)
  BY <1>5 DEF ExistsBijection
<1>7. Cardinality(D) = n /\ IsFiniteSet(D)
  BY <1>1, FS_Interval
<1>8. Cardinality(T) = n
  <2> HIDE DEF D, T, n
  <2> QED BY <1>6, <1>7, FS_Bijection
<1>9. T = S
  <2> HIDE DEF T
  <2> QED BY <1>4, <1>8, FS_Subset
<1> QED BY <1>3, <1>9 DEF Held

\* The users returned, then the others: all of the batch.
LEMMA OrdersHold ==
    ASSUME NEW A, NEW B, A \subseteq Users, B \subseteq Users,
           NEW f \in SetToSeqs(A), NEW g \in SetToSeqs(B)
    PROVE  (f \o g) \in Seq(Users) /\ Held(f \o g) = A \cup B
<1>1. IsFiniteSet(A) /\ IsFiniteSet(B)
  BY ProfilesAssumption, FS_Subset DEF ProfilesAssumption
<1>2. /\ f \in Seq(A) /\ {f[j] : j \in 1..Len(f)} = A
      /\ g \in Seq(B) /\ {g[j] : j \in 1..Len(g)} = B
  BY <1>1, OrderHolds DEF Held
<1>3. f \in Seq(Users) /\ g \in Seq(Users)
  BY <1>2
<1> DEFINE m == Len(f)
           n == Len(g)
           h == f \o g
<1>4. /\ h \in Seq(Users) /\ Len(h) = m + n /\ m \in Nat /\ n \in Nat
      /\ \A j \in 1..(m + n) : h[j] = IF j =< m THEN f[j] ELSE g[j - m]
  BY <1>3
<1> HIDE DEF h, m, n
<1>5. ASSUME NEW x \in A PROVE x \in {h[j] : j \in 1..Len(h)}
  <2>1. PICK j \in 1..m : x = f[j]
    BY <1>2 DEF m
  <2>2. j \in 1..(m + n) /\ h[j] = x
    BY <1>4, <2>1
  <2> QED BY <1>4, <2>2
<1>6. ASSUME NEW x \in B PROVE x \in {h[j] : j \in 1..Len(h)}
  <2>1. PICK j \in 1..n : x = g[j]
    BY <1>2 DEF n
  <2>2. j + m \in 1..(m + n) /\ h[j + m] = x
    BY <1>4, <2>1
  <2> QED BY <1>4, <2>2
<1>7. ASSUME NEW j \in 1..Len(h) PROVE h[j] \in A \cup B
  <2>1. CASE j =< m
    <3>1. j \in 1..m /\ h[j] = f[j]
      BY <1>4, <2>1
    <3> QED BY <1>2, <3>1 DEF m
  <2>2. CASE ~(j =< m)
    <3>1. j - m \in 1..n /\ h[j] = g[j - m]
      BY <1>4, <2>2
    <3> QED BY <1>2, <3>1 DEF n
  <2> QED BY <2>1, <2>2
<1>8. {h[j] : j \in 1..Len(h)} = A \cup B
  BY <1>5, <1>6, <1>7
<1> QED BY <1>4, <1>8 DEF h, Held

-------------------------------------------------------------------------------
(* The requests for profiles                                                  *)

\* A request with these fields, and a record that is one.
RequestOf(k, b, e, s, d, a) == [kind |-> k, batch |-> b, rest |-> e, since |-> s, served |-> d, reply |-> a]
IsRequest(r) == r = RequestOf(r.kind, r.batch, r.rest, r.since, r.served, r.reply)

\* A request names users, and a reply users of its batch.
RequestShape(r) == IsRequest(r) /\ r.batch \subseteq Users /\ r.rest \subseteq Users /\ DOMAIN r.reply \subseteq r.batch

\* The requests views wait for.
AskingOf(R) == {r \in R : r.kind = "profiles"}

\* The users in flight are those of these requests, each in one.
RequestsOf(R, i) ==
    /\ \A r \in R : RequestShape(r)
    /\ \A r1, r2 \in AskingOf(R) : \A u \in Users : u \in r1.batch /\ u \in r2.batch => r1 = r2
    /\ \A u \in Users : u \in i <=> \E r \in AskingOf(R) : u \in r.batch

\* For the provers, which take a constant in a record better than a formula.
Yes == TRUE
No == FALSE

\* The fields of a request written out.
LEMMA RequestIs ==
    ASSUME NEW k, NEW b, NEW e, NEW s, NEW d, NEW a
    PROVE  LET r == RequestOf(k, b, e, s, d, a)
           IN /\ IsRequest(r) /\ r.kind = k /\ r.batch = b /\ r.rest = e /\ r.since = s
              /\ r.served = d /\ r.reply = a
BY DEF IsRequest, RequestOf

\* A request that is made has the shape of one.
LEMMA NewRequest ==
    ASSUME NEW k, NEW b, b \subseteq Users
    PROVE  RequestShape(Request(k, b)) /\ Request(k, b).kind = k /\ Request(k, b).batch = b
<1>1. Request(k, b) = RequestOf(k, b, {}, 0, No, Unserved)
  BY Zenon DEF Request, RequestOf, No
<1>2. DOMAIN Unserved = {}
  BY DEF Unserved
<1> QED BY <1>1, <1>2, RequestIs DEF RequestShape

\* A refresh asks for b, and goes on with e.
LEMMA RefreshRequest ==
    ASSUME NEW b, NEW e, NEW s, b \subseteq Users, e \subseteq Users, NEW r,
           r = [Request("refresh", b) EXCEPT !.rest = e, !.since = s]
    PROVE  RequestShape(r) /\ r.kind = "refresh"
<1> DEFINE q == RequestOf("refresh", b, {}, 0, No, Unserved)
           p == RequestOf("refresh", b, e, 0, No, Unserved)
<1>1. Request("refresh", b) = q
  BY Zenon DEF Request, RequestOf, No
<1>2. [q EXCEPT !.rest = e] = p
  BY DEF RequestOf
<1>3. [p EXCEPT !.since = s] = RequestOf("refresh", b, e, s, No, Unserved)
  BY DEF RequestOf
<1>4. r = [[q EXCEPT !.rest = e] EXCEPT !.since = s]
  BY <1>1
<1>5. r = RequestOf("refresh", b, e, s, No, Unserved)
  BY <1>2, <1>3, <1>4
<1>6. DOMAIN Unserved = {}
  BY DEF Unserved
<1> DEFINE k == "refresh"
<1>7. r = RequestOf(k, b, e, s, No, Unserved)
  BY <1>5
<1> HIDE DEF k
<1>8. IsRequest(r) /\ r.kind = k /\ r.batch = b /\ r.rest = e /\ r.reply = Unserved
  BY ONLY <1>7, RequestIs
<1> QED BY <1>6, <1>8 DEF RequestShape, k

\* A request the server has answered is that request with a reply.
LEMMA ServedRequest ==
    ASSUME NEW r, RequestShape(r), NEW a, DOMAIN a \subseteq r.batch, NEW p,
           p = [r EXCEPT !.served = TRUE, !.reply = a]
    PROVE  RequestShape(p) /\ p.kind = r.kind /\ p.batch = r.batch
<1> DEFINE k == r.kind
           b == r.batch
           e == r.rest
           s == r.since
           q == RequestOf(k, b, e, s, Yes, r.reply)
<1>1. r = RequestOf(k, b, e, s, r.served, r.reply)
  BY DEF RequestShape, IsRequest
<1>2. [r EXCEPT !.served = Yes] = q
  <2> DEFINE o == RequestOf(k, b, e, s, r.served, r.reply)
  <2>1. [o EXCEPT !.served = Yes] = q
    BY DEF RequestOf
  <2> QED BY <1>1, <2>1
<1>3. [q EXCEPT !.reply = a] = RequestOf(k, b, e, s, Yes, a)
  BY DEF RequestOf
<1>4. p = [[r EXCEPT !.served = Yes] EXCEPT !.reply = a]
  <2>1. p = [r EXCEPT !.served = Yes, !.reply = a]
    BY Zenon DEF Yes
  <2> QED BY <2>1
<1>5. p = RequestOf(k, b, e, s, Yes, a)
  BY <1>2, <1>3, <1>4
<1> HIDE DEF q
<1>6. IsRequest(p) /\ p.kind = k /\ p.batch = b /\ p.rest = e /\ p.reply = a
  BY <1>5, RequestIs
<1> QED BY <1>6 DEF RequestShape

\* Requests nobody waits for come and go.
LEMMA OtherRequests ==
    ASSUME NEW R, NEW i, RequestsOf(R, i), NEW T, NEW M,
           T \subseteq R, AskingOf(R) \subseteq T,
           \A r \in M : RequestShape(r) /\ r.kind # "profiles"
    PROVE  RequestsOf(T \cup M, i) /\ AskingOf(T \cup M) = AskingOf(R)
<1>1. AskingOf(T \cup M) = AskingOf(R)
  BY DEF AskingOf
<1>2. \A r \in T \cup M : RequestShape(r)
  BY DEF RequestsOf
<1> QED BY <1>1, <1>2 DEF RequestsOf

\* A batch of users who are not in flight is asked for.
LEMMA AskRequest ==
    ASSUME NEW R, NEW i, RequestsOf(R, i), NEW b, b \subseteq Users, b \cap i = {},
           NEW r, RequestShape(r), r.kind = "profiles", r.batch = b
    PROVE  RequestsOf(R \cup {r}, i \cup b) /\ AskingOf(R \cup {r}) # {}
<1>1. AskingOf(R \cup {r}) = AskingOf(R) \cup {r}
  BY DEF AskingOf
<1>2. \A x \in R \cup {r} : RequestShape(x)
  BY DEF RequestsOf
<1>3. \A x \in AskingOf(R), u \in Users : u \in x.batch => u \notin b
  BY DEF RequestsOf
<1>4. ASSUME NEW r1 \in AskingOf(R) \cup {r}, NEW r2 \in AskingOf(R) \cup {r}, NEW u \in Users,
             u \in r1.batch, u \in r2.batch
      PROVE  r1 = r2
  <2>1. CASE r1 = r
    BY <1>3, <1>4, <2>1
  <2>2. CASE r2 = r
    BY <1>3, <1>4, <2>2
  <2>3. CASE r1 # r /\ r2 # r
    BY <1>4, <2>3 DEF RequestsOf
  <2> QED BY <2>1, <2>2, <2>3
<1>5. ASSUME NEW u \in Users PROVE u \in i \cup b <=> \E x \in AskingOf(R) \cup {r} : u \in x.batch
  BY DEF RequestsOf
<1> QED BY <1>1, <1>2, <1>4, <1>5 DEF RequestsOf

\* A request comes back: its batch is no longer in flight.
LEMMA AnsweredRequest ==
    ASSUME NEW R, NEW i, RequestsOf(R, i), NEW r \in R, r.kind = "profiles", NEW M,
           \A x \in M : RequestShape(x) /\ x.kind # "profiles"
    PROVE  RequestsOf((R \ {r}) \cup M, i \ r.batch)
<1>1. AskingOf((R \ {r}) \cup M) = AskingOf(R) \ {r} /\ r \in AskingOf(R)
  BY DEF AskingOf
<1>2. \A x \in (R \ {r}) \cup M : RequestShape(x)
  BY DEF RequestsOf
<1>3. \A r1, r2 \in AskingOf(R) \ {r} : \A u \in Users : u \in r1.batch /\ u \in r2.batch => r1 = r2
  BY DEF RequestsOf
<1>4. ASSUME NEW u \in Users PROVE u \in i \ r.batch <=> \E x \in AskingOf(R) \ {r} : u \in x.batch
  BY <1>1 DEF RequestsOf
<1> QED BY <1>1, <1>2, <1>3, <1>4 DEF RequestsOf

\* The server answers a request.
LEMMA ServedRequests ==
    ASSUME NEW R, NEW i, RequestsOf(R, i), NEW r \in R,
           NEW p, RequestShape(p), p.kind = r.kind, p.batch = r.batch
    PROVE  RequestsOf((R \ {r}) \cup {p}, i) /\ (AskingOf(R) # {} => AskingOf((R \ {r}) \cup {p}) # {})
<1> DEFINE T == (R \ {r}) \cup {p}
<1>1. \A x \in T : RequestShape(x)
  BY DEF RequestsOf
<1>2. CASE r.kind = "profiles"
  <2>1. AskingOf(T) = (AskingOf(R) \ {r}) \cup {p} /\ r \in AskingOf(R)
    BY <1>2 DEF AskingOf
  <2>2. ASSUME NEW r1 \in AskingOf(T), NEW r2 \in AskingOf(T), NEW u \in Users, u \in r1.batch, u \in r2.batch
        PROVE  r1 = r2
    <3>1. ASSUME NEW x \in AskingOf(T), u \in x.batch, x # p, u \in p.batch PROVE FALSE
      <4>1. x \in AskingOf(R) /\ x # r
        BY <2>1, <3>1
      <4> QED BY <2>1, <3>1, <4>1 DEF RequestsOf
    <3>2. CASE r1 = p \/ r2 = p
      BY <2>2, <3>1, <3>2
    <3>3. CASE r1 # p /\ r2 # p
      <4>1. r1 \in AskingOf(R) /\ r2 \in AskingOf(R)
        BY <2>1, <3>3
      <4> QED BY <2>2, <4>1 DEF RequestsOf
    <3> QED BY <3>2, <3>3
  <2>3. ASSUME NEW u \in Users PROVE u \in i <=> \E x \in AskingOf(T) : u \in x.batch
    <3>1. u \in i <=> \E x \in AskingOf(R) : u \in x.batch
      BY DEF RequestsOf
    <3>2. ASSUME NEW x \in AskingOf(R), u \in x.batch PROVE \E y \in AskingOf(T) : u \in y.batch
      BY <2>1, <3>2
    <3>3. ASSUME NEW y \in AskingOf(T), u \in y.batch PROVE \E x \in AskingOf(R) : u \in x.batch
      BY <2>1, <3>3
    <3> QED BY <3>1, <3>2, <3>3
  <2> HIDE DEF T
  <2>4. RequestsOf(T, i)
    BY <1>1, <2>2, <2>3 DEF RequestsOf
  <2>5. AskingOf(T) # {}
    BY <2>1
  <2> QED BY <2>4, <2>5 DEF T
<1>3. CASE r.kind # "profiles"
  <2>1. AskingOf(T) = AskingOf(R)
    BY <1>3 DEF AskingOf
  <2> HIDE DEF T
  <2>2. RequestsOf(T, i)
    BY <1>1, <2>1 DEF RequestsOf
  <2> QED BY <2>1, <2>2 DEF T
<1> QED BY <1>2, <1>3

\* A batch is taken from the users that are pending.
LEMMA BatchMeans ==
    ASSUME NEW S, NEW b \in FirstBatch(S)
    PROVE  b \subseteq S
BY DEF FirstBatch

-------------------------------------------------------------------------------
(* The invariant, step by step                                                *)

\* A queue that is not empty has its timer or a request that starts it again.
Timed(s, R) == s.queued # {} => s.scheduled \/ AskingOf(R) # {}

\* The first part of the inductive invariant: what views are owed.
Books == Kept(client) /\ RequestsOf(requests, service.inFlight) /\ Timed(service, requests)

\* The client state after a step that says what it becomes.
LEMMA BecomesIs ==
    ASSUME NEW c, IsClient(c), Becomes(c)
    PROVE  client' = c /\ service' = c.service
<1>1. client' = ClientOf(users', avatar', service', views', lapses')
  BY DEF client, ClientOf
<1>2. c = ClientOf(c.users, c.avatar, c.service, c.views, c.lapses)
  BY DEF IsClient
<1> QED BY <1>1, <1>2, Zenon DEF Becomes

\* The client is its variables.
LEMMA ClientParts ==
    /\ IsClient(client) /\ client.users = users /\ client.avatar = avatar /\ client.service = service
    /\ client.views = views /\ client.lapses = lapses
<1>1. client = ClientOf(users, avatar, service, views, lapses)
  BY DEF client, ClientOf
<1> QED BY <1>1, ClientIs

\* A client whose books are the same, while requests nobody waits for come and go.
LEMMA SameBooksStep ==
    ASSUME Books, NEW c, SameBooks(client, c), Becomes(c), NEW T, NEW M,
           T \subseteq requests, AskingOf(requests) \subseteq T,
           \A r \in M : RequestShape(r) /\ r.kind # "profiles", requests' = T \cup M
    PROVE  Books'
<1>1. client' = c /\ service' = c.service
  BY BecomesIs DEF SameBooks
<1>2. Kept(c)
  BY SameBooksKeep DEF Books
<1>3. /\ c.service.inFlight = service.inFlight /\ c.service.queued = service.queued
      /\ c.service.scheduled = service.scheduled
  BY ClientParts, Zenon DEF SameBooks
<1>4. RequestsOf(requests', service.inFlight) /\ AskingOf(requests') = AskingOf(requests)
  BY OtherRequests DEF Books
<1>5. Timed(c.service, requests')
  BY <1>3, <1>4, Zenon DEF Books, Timed
<1> QED BY <1>1, <1>2, <1>3, <1>4, <1>5 DEF Books

\* At the log-in the books are empty.
LEMMA ProfilesInitBooks ==
    ASSUME ProfilesInit
    PROVE  Books
<1> DEFINE q == {}
           i == {}
           w == [u \in Users |-> {}]
           s == [v \in Views |-> {}]
           l == [v \in Views |-> 0]
<1>1. BooksOf(q, i, w, s, l)
  <2>1. \A v : Owed(w, v) = {}
    BY DEF Owed
  <2>2. Cardinality({}) = 0
    BY FS_EmptySet
  <2>3. w \in [Users -> SUBSET Views] /\ s \in [Views -> SUBSET Users] /\ l \in [Views -> Nat]
    OBVIOUS
  <2>4. \A v \in Views : l[v] = Cardinality(Owed(w, v))
    BY <2>1, <2>2
  <2>5. \A u \in Users : w[u] = {}
    OBVIOUS
  <2> HIDE DEF w, s, l
  <2> QED BY <2>3, <2>4, <2>5 DEF BooksOf
<1>2. service = ServiceOf(q, i, w, No, {}) /\ views = ViewsOf(s, l) /\ requests = {}
  BY Zenon DEF ProfilesInit, ServiceOf, ViewsOf, No
<1> HIDE DEF q, i, w, s, l
<1>3. IsService(service) /\ service.queued = q /\ service.inFlight = i /\ service.waiters = w
  BY <1>2, ServiceIs
<1>4. IsViews(views) /\ views.shown = s /\ views.left = l
  BY <1>2, ViewsIs
<1>5. Kept(client)
  BY <1>1, <1>3, <1>4, ClientParts DEF Kept
<1>6. RequestsOf(requests, service.inFlight)
  BY <1>2, <1>3 DEF RequestsOf, AskingOf, i
<1>7. Timed(service, requests)
  BY <1>3 DEF Timed, q
<1> QED BY <1>5, <1>6, <1>7 DEF Books

\* A view that opens is entered in the books.
LEMMA OpenBooks ==
    ASSUME Books, Open
    PROVE  Books'
<1>1. PICK v \in Views, shown \in Layouts :
        /\ views.left[v] = 0 /\ Becomes(Show(client, [w \in {v} |-> shown])) /\ requests' = requests
  BY Zenon DEF Open
<1> DEFINE laid == [w \in {v} |-> shown]
           c == Show(client, laid)
<1>2. shown \subseteq Users
  BY ProfilesAssumption DEF ProfilesAssumption
<1>3. {v} \subseteq Views /\ laid \in [{v} -> SUBSET Users] /\ \A x \in {v} : client.views.left[x] = 0
  BY <1>1, <1>2, ClientParts
<1> HIDE DEF laid
<1>4. Kept(c) /\ Queues(client, c)
  BY <1>3, ShowKeeps DEF Books
<1>5. Becomes(c)
  BY <1>1 DEF laid
<1> HIDE DEF c
<1>6. client' = c /\ service' = c.service
  BY <1>4, <1>5, BecomesIs DEF Kept
<1>7. /\ c.service.inFlight = service.inFlight
      /\ c.service.queued # {} => service.queued # {} \/ c.service.scheduled
      /\ service.scheduled => c.service.scheduled
  BY <1>4, ClientParts, Zenon DEF Queues
<1>8. Timed(c.service, requests)
  BY <1>7, Zenon DEF Books, Timed
<1> QED BY <1>1, <1>4, <1>6, <1>7, <1>8 DEF Books

\* flushProfiles moves a batch from the queue into flight, with its request.
LEMMA FlushBooks ==
    ASSUME Books, flushProfiles
    PROVE  Books'
<1> DEFINE q == service.queued
           i == service.inFlight
           w == service.waiters
           p == service.pictures
<1>1. /\ IsService(service) /\ IsViews(views) /\ BooksOf(q, i, w, views.shown, views.left)
  BY ClientParts DEF Books, Kept
<1>2. service = ServiceOf(q, i, w, service.scheduled, p)
  BY <1>1 DEF IsService
<1>3. users' = users /\ avatar' = avatar /\ views' = views /\ lapses' = lapses
  BY Zenon DEF flushProfiles
<1>4. ASSUME NEW q2, NEW i2, service' = ServiceOf(q2, i2, w, No, p), BooksOf(q2, i2, w, views.shown, views.left)
      PROVE  Kept(client)' /\ service'.inFlight = i2 /\ service'.queued = q2
  <2> DEFINE t == ServiceOf(q2, i2, w, No, p)
  <2>1. IsService(t) /\ t.queued = q2 /\ t.inFlight = i2 /\ t.waiters = w
    BY ServiceIs
  <2>2. client' = ClientOf(users, avatar, t, views, lapses)
    BY <1>3, <1>4 DEF client, ClientOf
  <2> HIDE DEF t
  <2>3. IsClient(client') /\ client'.service = t /\ client'.views = views
    BY <2>2, ClientIs
  <2>4. Kept(client')
    BY <1>1, <1>4, <2>1, <2>3 DEF Kept
  <2> QED BY <1>4, <2>1, <2>4 DEF t
<1>5. CASE service.queued = {}
  <2>1. service' = [service EXCEPT !.scheduled = FALSE] /\ requests' = requests
    BY <1>5, Zenon DEF flushProfiles
  <2>2. service' = [service EXCEPT !.scheduled = No]
    BY <2>1, Zenon DEF No
  <2>3. service' = ServiceOf(q, i, w, No, p)
    BY <1>1, <2>2, WriteService
  <2> HIDE DEF q, i, w, p
  <2>4. Kept(client)' /\ service'.inFlight = i /\ service'.queued = q
    BY <1>1, <1>4, <2>3
  <2>5. RequestsOf(requests, i)
    BY DEF Books, i
  <2> QED BY <1>5, <2>1, <2>4, <2>5 DEF Books, Timed, q
<1>6. CASE service.queued # {}
  <2>1. PICK b \in FirstBatch(q) :
          /\ service' = [service EXCEPT !.scheduled = FALSE, !.queued = q \ b, !.inFlight = i \cup b]
          /\ requests' = requests \cup {Request("profiles", b)}
    BY <1>6, Zenon DEF flushProfiles
  <2>2. b \subseteq q /\ b \subseteq Users /\ b \cap i = {}
    BY <1>1, BatchMeans DEF BooksOf
  <2> DEFINE q2 == q \ b
             i2 == i \cup b
             s0 == service.scheduled
  <2>3. service' = ServiceOf(q2, i2, w, No, p)
    <3> HIDE DEF q2, i2, q, i, w, p, s0
    <3>1. service = ServiceOf(q, i, w, s0, p)
      BY <1>2 DEF s0
    <3>2. service' = [[[service EXCEPT !.scheduled = No] EXCEPT !.queued = q2] EXCEPT !.inFlight = i2]
      <4>1. service' = [service EXCEPT !.scheduled = No, !.queued = q2, !.inFlight = i2]
        BY <2>1, Zenon DEF No, q2, i2
      <4> QED BY <4>1
    <3> DEFINE t == ServiceOf(q, i, w, No, p)
               x == ServiceOf(q2, i, w, No, p)
    <3>3. [service EXCEPT !.scheduled = No] = t
      BY <1>1, WriteService DEF q, i, w, p
    <3>4. [t EXCEPT !.queued = q2] = x
      BY DEF ServiceOf
    <3>5. [x EXCEPT !.inFlight = i2] = ServiceOf(q2, i2, w, No, p)
      BY DEF ServiceOf
    <3> QED BY <3>2, <3>3, <3>4, <3>5
  <2>4. BooksOf(q2, i2, w, views.shown, views.left)
    <3>1. q2 \cup i2 = q \cup i /\ q2 \subseteq Users /\ i2 \subseteq Users /\ q2 \cap i2 = {}
      BY <1>1, <2>2 DEF BooksOf
    <3> HIDE DEF q2, i2
    <3> QED BY <1>1, <3>1 DEF BooksOf
  <2>5. RequestsOf(requests', i2) /\ AskingOf(requests') # {}
    <3>1. RequestShape(Request("profiles", b)) /\ Request("profiles", b).kind = "profiles"
          /\ Request("profiles", b).batch = b
      BY <2>2, NewRequest
    <3> QED BY <2>1, <2>2, <3>1, AskRequest DEF Books
  <2> HIDE DEF q2, i2, q, i, w, p
  <2>6. Kept(client)' /\ service'.inFlight = i2
    BY <1>4, <2>3, <2>4
  <2> QED BY <2>5, <2>6 DEF Books, Timed
<1> QED BY <1>5, <1>6

\* Only the service's pictures, pictures and lapses change, and requests nobody waits for.
LEMMA BesideStep ==
    ASSUME Books, users' = users, views' = views,
           service' = ServiceOf(service.queued, service.inFlight, service.waiters, service.scheduled, service'.pictures),
           NEW M, \A r \in M : RequestShape(r) /\ r.kind # "profiles", requests' = requests \cup M
    PROVE  Books'
<1> DEFINE c == client'
<1>1. c = ClientOf(users, avatar', service', views, lapses')
  BY DEF client, ClientOf
<1>2. IsClient(c) /\ c.service = service' /\ c.views = views
  <2> HIDE DEF c
  <2> QED BY <1>1, ClientIs
<1>3. /\ IsService(service') /\ service'.queued = service.queued /\ service'.inFlight = service.inFlight
      /\ service'.waiters = service.waiters /\ service'.scheduled = service.scheduled
  <2> DEFINE p == service'.pictures
             s == service'
  <2>1. s = ServiceOf(service.queued, service.inFlight, service.waiters, service.scheduled, p)
    OBVIOUS
  <2> HIDE DEF p, s
  <2>2. /\ IsService(s) /\ s.queued = service.queued /\ s.inFlight = service.inFlight
        /\ s.waiters = service.waiters /\ s.scheduled = service.scheduled
    BY <2>1, ServiceIs
  <2> QED BY <2>2 DEF s
<1>4. SameBooks(client, c)
  <2> HIDE DEF c
  <2> QED BY <1>2, <1>3, ClientParts, Zenon DEF SameBooks
<1>5. Becomes(c)
  <2>1. c = [users |-> users', avatar |-> avatar', service |-> service', views |-> views', lapses |-> lapses']
    BY DEF client
  <2> HIDE DEF c
  <2> QED BY <2>1 DEF Becomes
<1> HIDE DEF c
<1>6. requests \subseteq requests /\ AskingOf(requests) \subseteq requests
  BY DEF AskingOf
<1> QED BY <1>4, <1>5, <1>6, SameBooksStep

\* A step that leaves users, views and service alone keeps the books.
LEMMA StillStep ==
    ASSUME Books, users' = users, views' = views, service' = service,
           NEW M, \A r \in M : RequestShape(r) /\ r.kind # "profiles", requests' = requests \cup M
    PROVE  Books'
<1>1. service = ServiceOf(service.queued, service.inFlight, service.waiters, service.scheduled, service.pictures)
  BY ClientParts DEF Books, Kept, IsService
<1> QED BY <1>1, BesideStep

\* A search asks for nobody a view waits for.
LEMMA SearchBooks ==
    ASSUME Books, searchUsers
    PROVE  Books'
<1>1. PICK u \in Sought : requests' = requests \cup {Request("search", {u})}
  BY Zenon DEF searchUsers
<1>2. users' = users /\ views' = views /\ service' = service
  BY Zenon DEF searchUsers
<1>3. {u} \subseteq Users
  BY ProfilesAssumption DEF ProfilesAssumption
<1>4. RequestShape(Request("search", {u})) /\ Request("search", {u}).kind = "search"
  BY <1>3, NewRequest
<1> DEFINE M == {Request("search", {u})}
<1>5. \A r \in M : RequestShape(r) /\ r.kind # "profiles"
  BY <1>4
<1>6. requests' = requests \cup M
  BY <1>1
<1> HIDE DEF M
<1> QED BY <1>2, <1>5, <1>6, StillStep

\* The server answers: the request is still the one that is waited for.
LEMMA ServeBooks ==
    ASSUME Books, ServeProfiles
    PROVE  Books'
<1>1. PICK r \in requests :
        LET found == {u \in r.batch \ Gone : server.changed[u] >= r.since}
        IN requests' = (requests \ {r}) \cup
             {[r EXCEPT !.served = TRUE, !.reply = [u \in found |-> server.version[u]]]}
  BY Zenon DEF ServeProfiles
<1> DEFINE found == {u \in r.batch \ Gone : server.changed[u] >= r.since}
           a == [u \in found |-> server.version[u]]
           p == [r EXCEPT !.served = TRUE, !.reply = a]
<1>2. requests' = (requests \ {r}) \cup {p}
  BY <1>1
<1>3. RequestShape(r)
  BY DEF Books, RequestsOf
<1>4. DOMAIN a \subseteq r.batch
  OBVIOUS
<1> HIDE DEF a
<1>5. RequestShape(p) /\ p.kind = r.kind /\ p.batch = r.batch
  BY <1>3, <1>4, ServedRequest
<1> HIDE DEF p
<1>6. /\ RequestsOf(requests', service.inFlight)
      /\ AskingOf(requests) # {} => AskingOf(requests') # {}
  BY <1>2, <1>5, ServedRequests DEF Books
<1>7. client' = client /\ service' = service
  BY Zenon DEF ServeProfiles, client
<1>8. Timed(service, requests')
  BY <1>6, Zenon DEF Books, Timed
<1> QED BY <1>6, <1>7, <1>8 DEF Books

\* Changes and outages of the stream do not touch the books.
LEMMA StreamBooks ==
    ASSUME Books, Change \/ onWebSocketDisconnect
    PROVE  Books'
<1>1. users' = users /\ views' = views /\ service' = service /\ requests' = requests
  BY Zenon DEF Change, onWebSocketDisconnect
<1> DEFINE M == {}
<1>2. requests' = requests \cup M /\ \A r \in M : RequestShape(r) /\ r.kind # "profiles"
  BY <1>1
<1> HIDE DEF M
<1> QED BY <1>1, <1>2, StillStep

\* A refresh asks beside the books.
LEMMA ConnectBooks ==
    ASSUME Books, onWebSocketConnect
    PROVE  Books'
<1> DEFINE K == {u \in Users : Known(u)}
<1>1. /\ users' = users /\ views' = views /\ service' = service
      /\ \E batch \in FirstBatch(K) :
            requests' = requests \cup {[Request("refresh", batch) EXCEPT !.rest = K \ batch, !.since = since]}
  BY Zenon DEF onWebSocketConnect
<1>2. PICK b \in FirstBatch(K) :
        requests' = requests \cup {[Request("refresh", b) EXCEPT !.rest = K \ b, !.since = since]}
  BY <1>1
<1> DEFINE e == K \ b
           r == [Request("refresh", b) EXCEPT !.rest = e, !.since = since]
<1>3. b \subseteq Users /\ e \subseteq Users
  BY BatchMeans
<1>4. requests' = requests \cup {r}
  BY <1>2
<1> HIDE DEF e
<1>5. r = [Request("refresh", b) EXCEPT !.rest = e, !.since = since]
  OBVIOUS
<1> HIDE DEF r
<1>6. RequestShape(r) /\ r.kind = "refresh"
  BY <1>3, <1>5, RefreshRequest
<1>7. \A x \in {r} : RequestShape(x) /\ x.kind # "profiles"
  BY <1>6
<1> QED BY <1>1, <1>4, <1>7, StillStep

\* A picture comes beside the books.
LEMMA PictureBooks ==
    ASSUME Books, PictureAnswer
    PROVE  Books'
<1>1. /\ users' = users /\ views' = views /\ requests' = requests
      /\ \E key \in service.pictures : service' = [service EXCEPT !.pictures = @ \ {key}]
  BY Zenon DEF PictureAnswer
<1>2. PICK key \in service.pictures : service' = [service EXCEPT !.pictures = @ \ {key}]
  BY <1>1
<1> DEFINE x == service.pictures \ {key}
           s == [service EXCEPT !.pictures = x]
<1>3. IsService(service)
  BY ClientParts DEF Books, Kept
<1>4. service' = s
  BY <1>2
<1> HIDE DEF x
<1>5. s = ServiceOf(service.queued, service.inFlight, service.waiters, service.scheduled, x)
  BY <1>3, WriteService
<1> HIDE DEF s
<1>6. s.pictures = x
  BY <1>5, ServiceIs
<1>7. service' = ServiceOf(service.queued, service.inFlight, service.waiters, service.scheduled, service'.pictures)
  BY <1>4, <1>5, <1>6
<1> DEFINE M == {}
<1>8. requests' = requests \cup M /\ \A r \in M : RequestShape(r) /\ r.kind # "profiles"
  BY <1>1
<1> HIDE DEF M
<1> QED BY <1>1, <1>7, <1>8, BesideStep

\* An event comes beside the books.
LEMMA UpdatedStep ==
    ASSUME Books, UserUpdatedEvent
    PROVE  Books'
<1> DEFINE c == Updated(client, Head(stream.events))
<1>1. Becomes(c) /\ requests' = requests
  BY Zenon DEF UserUpdatedEvent
<1>2. IsClient(client) /\ IsService(client.service)
  BY ClientParts DEF Books, Kept
<1>3. SameBooks(client, c)
  BY <1>2, UpdatedBooks
<1> HIDE DEF c
<1> DEFINE T == requests
           M == {}
<1>4. /\ requests' = T \cup M /\ T \subseteq requests /\ AskingOf(requests) \subseteq T
      /\ \A r \in M : RequestShape(r) /\ r.kind # "profiles"
  BY <1>1 DEF AskingOf
<1> HIDE DEF T, M
<1> QED BY <1>1, <1>3, <1>4, SameBooksStep

\* What is asked for after an answer is no batch of a view.
LEMMA NextBatchMeans ==
    ASSUME NEW r, RequestShape(r), NEW M \in NextBatch(r)
    PROVE  \A x \in M : RequestShape(x) /\ x.kind # "profiles"
<1>1. CASE r.rest = {}
  BY <1>1 DEF NextBatch
<1>2. CASE r.rest # {}
  <2>1. PICK b \in FirstBatch(r.rest) :
          M = {[Request("refresh", b) EXCEPT !.rest = r.rest \ b, !.since = r.since]}
    BY <1>2 DEF NextBatch
  <2> DEFINE e == r.rest \ b
             s == r.since
             p == [Request("refresh", b) EXCEPT !.rest = e, !.since = s]
  <2>2. b \subseteq Users /\ e \subseteq Users
    BY BatchMeans DEF RequestShape
  <2>3. M = {p}
    BY <2>1
  <2> HIDE DEF e, s
  <2>4. p = [Request("refresh", b) EXCEPT !.rest = e, !.since = s]
    OBVIOUS
  <2> HIDE DEF p
  <2>5. RequestShape(p) /\ p.kind = "refresh"
    BY <2>2, <2>4, RefreshRequest
  <2> QED BY <2>3, <2>5
<1> QED BY <1>1, <1>2

\* An answer: who was in its batch is in flight no more and waited for no more, and views that are
\* told may ask again.
LEMMA AnsweredBooks ==
    ASSUME Books, Answered
    PROVE  Books'
<1>1. PICK r \in requests, failed \in BOOLEAN :
        /\ LET returned == IF failed THEN {} ELSE DOMAIN r.reply
           IN IF r.kind = "profiles" THEN ProfilesAnswer(r, returned)
              ELSE KnownAnswer(r, returned, failed)
        /\ \E more \in NextBatch(r) : requests' = (requests \ {r}) \cup more
  BY Zenon DEF Answered
<1> DEFINE returned == IF failed THEN {} ELSE DOMAIN r.reply
<1>2. /\ r.kind = "profiles" => ProfilesAnswer(r, returned)
      /\ r.kind # "profiles" => KnownAnswer(r, returned, failed)
  BY <1>1, Zenon
<1>3. RequestShape(r)
  BY DEF Books, RequestsOf
<1>4. PICK M \in NextBatch(r) : requests' = (requests \ {r}) \cup M
  BY <1>1
<1>5. \A x \in M : RequestShape(x) /\ x.kind # "profiles"
  BY <1>3, <1>4, NextBatchMeans
<1>6. returned \subseteq r.batch /\ r.batch \subseteq Users
  BY <1>3 DEF RequestShape
<1> HIDE DEF returned
<1>7. CASE r.kind = "profiles"
  <2>1. PICK first \in SetToSeqs(returned), last \in SetToSeqs(r.batch \ returned) :
          Becomes(Reschedule(Finish(r, returned, first \o last)))
    BY <1>2, <1>7, Zenon DEF ProfilesAnswer
  <2> DEFINE order == first \o last
             d == Finish(r, returned, order)
             c == Reschedule(d)
  <2>2. order \in Seq(Users) /\ Held(order) = r.batch
    <3>1. returned \subseteq Users /\ r.batch \ returned \subseteq Users /\ returned \cup (r.batch \ returned) = r.batch
      BY <1>6
    <3> DEFINE A == returned
               B == r.batch \ returned
    <3>2. first \in SetToSeqs(A) /\ last \in SetToSeqs(B)
      BY <2>1
    <3> HIDE DEF A, B
    <3>3. (first \o last) \in Seq(Users) /\ Held(first \o last) = A \cup B
      <4>1. A \subseteq Users /\ B \subseteq Users
        BY <3>1 DEF A, B
      <4> QED BY <3>2, <4>1, OrdersHold
    <3> QED BY <3>1, <3>3 DEF A, B
  <2>3. Becomes(c)
    BY <2>1
  <2> HIDE DEF order
  <2>4. Kept(d) /\ d.service.inFlight = service.inFlight \ r.batch
    BY <2>2, FinishKeeps DEF Books
  <2> HIDE DEF d
  <2>5. Kept(c) /\ c.service.inFlight = d.service.inFlight /\ (c.service.queued # {} => c.service.scheduled)
    BY <2>4, RescheduleKeeps
  <2> HIDE DEF c
  <2>6. client' = c /\ service' = c.service
    BY <2>3, <2>5, BecomesIs DEF Kept
  <2>7. RequestsOf(requests', service.inFlight \ r.batch)
    BY <1>4, <1>5, <1>7, AnsweredRequest DEF Books
  <2>8. Timed(c.service, requests')
    BY <2>5, Zenon DEF Timed
  <2> QED BY <2>4, <2>5, <2>6, <2>7, <2>8 DEF Books
<1>8. CASE r.kind # "profiles"
  <2> DEFINE unrefreshed == IF failed /\ r.kind = "refresh" THEN r.batch ELSE {}
             l == Take(client, r, returned)
             c == [l EXCEPT !.lapses.unrefreshed = @ \cup unrefreshed]
  <2>1. Becomes(c)
    BY <1>2, <1>8, Zenon DEF KnownAnswer
  <2>2. IsClient(client) /\ IsService(client.service)
    BY ClientParts DEF Books, Kept
  <2>3. SameBooks(client, l)
    BY <2>2, TakeBooks
  <2> HIDE DEF l, unrefreshed
  <2>4. IsClient(l) /\ IsService(l.service)
    BY <2>3 DEF SameBooks
  <2>5. SameBooks(l, c)
    <3> DEFINE y == [l.lapses EXCEPT !.unrefreshed = @ \cup unrefreshed]
               x == [l EXCEPT !.lapses = y]
    <3>1. c = x
      OBVIOUS
    <3> HIDE DEF c, y
    <3>2. SameBooks(l, x)
      BY <2>4, BesideBooks
    <3> QED BY <3>1, <3>2
  <2> HIDE DEF c
  <2>6. SameBooks(client, c)
    BY <2>3, <2>5, SameBooksTwice
  <2> DEFINE T == requests \ {r}
  <2>7. T \subseteq requests /\ AskingOf(requests) \subseteq T
    BY <1>8 DEF AskingOf
  <2> QED BY <1>4, <1>5, <2>1, <2>6, <2>7, SameBooksStep
<1> QED BY <1>7, <1>8

\* Every step keeps the books.
LEMMA ProfilesStepBooks == Books /\ [ProfilesNext]_profilesVars => Books'
<1> SUFFICES ASSUME Books, [ProfilesNext]_profilesVars PROVE Books'
  OBVIOUS
<1>1. CASE ProfilesNext
  BY <1>1, OpenBooks, FlushBooks, SearchBooks, ServeBooks, StreamBooks, AnsweredBooks, PictureBooks,
     UpdatedStep, ConnectBooks, Zenon DEF ProfilesNext
<1>2. CASE UNCHANGED profilesVars
  <2>1. client' = client /\ service' = service /\ requests' = requests
    BY <1>2 DEF profilesVars, client
  <2> QED BY <2>1 DEF Books
<1> QED BY <1>1, <1>2

\* What the books say of the views.
LEMMA BooksServe == Books => ViewsServed
<1> SUFFICES ASSUME Books PROVE ViewsServed
  OBVIOUS
<1>1. BooksOf(service.queued, service.inFlight, service.waiters, views.shown, views.left)
  BY ClientParts DEF Books, Kept
<1>2. RequestsOf(requests, service.inFlight) /\ Timed(service, requests)
  BY DEF Books
<1> DEFINE asking == {r \in requests : r.kind = "profiles"}
<1>3. asking = AskingOf(requests)
  BY DEF AskingOf
<1> HIDE DEF asking
<1>4. ASSUME NEW u \in Users
      PROVE  Cardinality({r \in asking : u \in r.batch}) = IF u \in service.inFlight THEN 1 ELSE 0
  <2> DEFINE S == {r \in asking : u \in r.batch}
  <2>1. CASE u \in service.inFlight
    <3>1. PICK r \in asking : u \in r.batch
      BY <1>2, <1>3, <2>1 DEF RequestsOf
    <3>2. S = {r}
      BY <1>2, <1>3, <3>1 DEF RequestsOf
    <3> HIDE DEF S
    <3>3. Cardinality({r}) = 1
      BY FS_Singleton
    <3>4. Cardinality(S) = 1
      BY <3>2, <3>3
    <3> QED BY <2>1, <3>4 DEF S
  <2>2. CASE u \notin service.inFlight
    <3>1. S = {}
      BY <1>2, <1>3, <2>2 DEF RequestsOf
    <3> HIDE DEF S
    <3>2. Cardinality(S) = 0
      BY <3>1, FS_EmptySet
    <3> QED BY <2>2, <3>2 DEF S
  <2> QED BY <2>1, <2>2
<1>5. \A v \in Views : views.left[v] = Cardinality({u \in Users : v \in service.waiters[u]})
  BY <1>1 DEF BooksOf, Owed
<1>6. service.queued # {} => service.scheduled \/ asking # {}
  BY <1>2, <1>3, Zenon DEF Timed
<1>7. /\ \A u \in Users : service.waiters[u] # {} => u \in service.queued \cup service.inFlight
      /\ service.queued \cap service.inFlight = {}
  BY <1>1 DEF BooksOf
<1> QED BY <1>4, <1>5, <1>6, <1>7, Zenon DEF ViewsServed, asking

\* UserProfileService, whatever views ask for and whatever comes back: each user a view
\* waits for is in the queue or in one request, a queue that is not empty will be sent,
\* and every view counts down exactly the answers it is owed.
THEOREM EveryViewServed == ProfilesSpec => []ViewsServed
<1>1. ProfilesInit => Books
  BY ProfilesInitBooks
<1>2. Books /\ [ProfilesNext]_profilesVars => Books'
  BY ProfilesStepBooks
<1>3. Books => ViewsServed
  BY BooksServe
<1> QED BY <1>1, <1>2, <1>3, PTL DEF ProfilesSpec

-------------------------------------------------------------------------------
(* What is on its way                                                         *)

\* The last event of a user tells the version of the server.
EventsOf(q, w) ==
    \A i \in 1..Len(q) :
        (\A j \in (i + 1)..Len(q) : q[j].user # q[i].user) => q[i].version = w[q[i].user]

\* The stream, and the outages changes fell into: q the events, w the versions, g the changes.
StreamOf(q, up, n, w, g, s) ==
    /\ q \in Seq([user : Users \ Gone, version : Nat \ {0}])
    /\ w \in [Users -> Nat \ {0}] /\ g \in [Users -> Nat] /\ n \in Nat
    /\ \A u \in Users : g[u] <= n
    /\ EventsOf(q, w)
    /\ IF up THEN s = 0 ELSE s \in 1..n /\ \A i \in 1..Len(q) : g[q[i].user] >= s

\* A reply tells versions the server had.
RepliesOf(R, w) ==
    \A r \in R :
        /\ r.since \in Nat /\ DOMAIN r.reply \subseteq r.batch \ Gone
        /\ \A u \in DOMAIN r.reply : r.reply[u] \in Nat \ {0} /\ r.reply[u] <= w[u]

\* A refresh r will tell the version of u, or tells it.
Refreshes(r, u, w, g) ==
    /\ r.kind = "refresh"
    /\ \/ u \in r.rest /\ r.since <= g[u]
       \/ u \in r.batch /\ ~r.served /\ r.since <= g[u]
       \/ r.served /\ u \in DOMAIN r.reply /\ r.reply[u] = w[u]

\* The users of the events.
Announced(q) == {q[i].user : i \in 1..Len(q)}

\* The users whose version is on its way.
Coming(q, R, w, g) == Announced(q) \cup {u \in Users : \E r \in R : Refreshes(r, u, w, g)}

\* The profile of a known user is given up, one of N, or the server's.
Fresh(c, N, w) ==
    \A u \in Users : c.users[u] # 0 =>
        u \in c.lapses.late \cup c.lapses.unrefreshed \cup N \/ c.users[u] = w[u]

\* A picture that is wanted is there, on its way, or given up.
Pictured(c, u) ==
    \/ c.avatar[u] # 0 /\ c.avatar[u] = c.users[u]
    \/ <<u, c.users[u]>> \in c.service.pictures \cup c.lapses.denied
    \/ u \in c.lapses.overtaken

\* For the users of X it need not be.
PicturesBut(c, X) ==
    /\ IsClient(c) /\ IsService(c.service) /\ IsLapses(c.lapses)
    /\ c.users \in [Users -> Nat] /\ c.avatar \in [Users -> Nat]
    /\ c.service.pictures \subseteq Users \X (Nat \ {0})
    /\ \A u \in Users : c.users[u] # 0 => u \notin Gone
    /\ \A u \in Users : c.avatar[u] # 0 => c.users[u] # 0
    /\ \A u \in (c.lapses.wanted \cap Users) \ X : Pictured(c, u)

\* All wanted pictures are.
Pictures(c) == PicturesBut(c, {})

\* The stream and the server with these fields.
StreamRecord(u, n, q) == [up |-> u, outages |-> n, events |-> q]
ServerRecord(w, g) == [version |-> w, changed |-> g]

\* The stream and the server fit.
StreamNews ==
    /\ stream.up \in BOOLEAN
    /\ stream = StreamRecord(stream.up, stream.outages, stream.events)
    /\ server = ServerRecord(server.version, server.changed)
    /\ StreamOf(stream.events, stream.up, stream.outages, server.version, server.changed, since)

\* What is on its way now.
Way == Coming(stream.events, requests, server.version, server.changed)

\* The second part of the inductive invariant: what is not the server's is on its way.
News ==
    /\ StreamNews /\ RepliesOf(requests, server.version)
    /\ Pictures(client) /\ Fresh(client, Way, server.version)

-------------------------------------------------------------------------------
(* The pictures                                                               *)

\* One field of the lapses is replaced.
LEMMA WriteLapse ==
    ASSUME NEW l, IsLapses(l), NEW x
    PROVE  /\ [l EXCEPT !.late = x] = LapsesOf(x, l.unrefreshed, l.denied, l.overtaken, l.wanted)
           /\ [l EXCEPT !.unrefreshed = x] = LapsesOf(l.late, x, l.denied, l.overtaken, l.wanted)
           /\ [l EXCEPT !.overtaken = x] = LapsesOf(l.late, l.unrefreshed, l.denied, x, l.wanted)
           /\ [l EXCEPT !.wanted = x] = LapsesOf(l.late, l.unrefreshed, l.denied, l.overtaken, x)
<1>1. l = [late |-> l.late, unrefreshed |-> l.unrefreshed, denied |-> l.denied, overtaken |-> l.overtaken,
           wanted |-> l.wanted]
  BY DEF IsLapses, LapsesOf
<1>2. /\ [l EXCEPT !.late = x] = LapsesOf(x, l.unrefreshed, l.denied, l.overtaken, l.wanted)
      /\ [l EXCEPT !.unrefreshed = x] = LapsesOf(l.late, x, l.denied, l.overtaken, l.wanted)
  BY <1>1 DEF LapsesOf
<1>3. /\ [l EXCEPT !.overtaken = x] = LapsesOf(l.late, l.unrefreshed, l.denied, x, l.wanted)
      /\ [l EXCEPT !.wanted = x] = LapsesOf(l.late, l.unrefreshed, l.denied, l.overtaken, x)
  BY <1>1 DEF LapsesOf
<1> QED BY <1>2, <1>3

\* Pictures are asked for.
LEMMA WriteFetched ==
    ASSUME NEW l, IsLapses(l), NEW x, NEW y, NEW z, NEW m,
           m = [l EXCEPT !.wanted = x, !.denied = y, !.overtaken = z]
    PROVE  m = LapsesOf(l.late, l.unrefreshed, y, z, x)
<1> DEFINE b == LapsesOf(l.late, l.unrefreshed, l.denied, l.overtaken, x)
           d == LapsesOf(l.late, l.unrefreshed, y, l.overtaken, x)
<1>1. [l EXCEPT !.wanted = x] = b
  BY WriteLapse
<1>2. [b EXCEPT !.denied = y] = d
  BY DEF LapsesOf
<1>3. [d EXCEPT !.overtaken = z] = LapsesOf(l.late, l.unrefreshed, y, z, x)
  BY DEF LapsesOf
<1>4. m = [[[l EXCEPT !.wanted = x] EXCEPT !.denied = y] EXCEPT !.overtaken = z]
  OBVIOUS
<1> QED BY <1>1, <1>2, <1>3, <1>4

\* An event takes a user out of the lapses.
LEMMA WriteSeen ==
    ASSUME NEW l, IsLapses(l), NEW x, NEW y, NEW m, m = [l EXCEPT !.late = x, !.unrefreshed = y]
    PROVE  m = LapsesOf(x, y, l.denied, l.overtaken, l.wanted)
<1> DEFINE b == LapsesOf(x, l.unrefreshed, l.denied, l.overtaken, l.wanted)
<1>1. [l EXCEPT !.late = x] = b
  BY WriteLapse
<1>2. [b EXCEPT !.unrefreshed = y] = LapsesOf(x, y, l.denied, l.overtaken, l.wanted)
  BY DEF LapsesOf
<1>3. m = [[l EXCEPT !.late = x] EXCEPT !.unrefreshed = y]
  OBVIOUS
<1> QED BY <1>1, <1>2, <1>3

\* The profiles of d, and what was given up of them, are those of c.
SameProfiles(c, d) ==
    /\ d.users = c.users /\ d.avatar = c.avatar
    /\ d.lapses.late = c.lapses.late /\ d.lapses.unrefreshed = c.lapses.unrefreshed

\* The same profiles are as fresh.
LEMMA SameProfilesFresh ==
    ASSUME NEW c, NEW d, NEW N, NEW w, Fresh(c, N, w), SameProfiles(c, d)
    PROVE  Fresh(d, N, w)
BY Zenon DEF Fresh, SameProfiles

\* Users of us without their picture, and the keys of their pictures.
Unheld(c, us) == {u \in us : ~PictureHeld(c, u)}
KeysOf(c, F) == {<<u, c.users[u]>> : u \in F}

\* What ensureAvatar changes: the pictures asked for, and what is said of them.
LEMMA EnsureAvatarMeans ==
    ASSUME NEW c, IsClient(c), IsService(c.service), IsLapses(c.lapses), NEW us
    PROVE  LET d == ensureAvatar(c, us)
               F == Unheld(c, us)
               K == KeysOf(c, F)
           IN /\ IsClient(d) /\ IsService(d.service) /\ IsLapses(d.lapses) /\ SameProfiles(c, d)
              /\ d.service.pictures = c.service.pictures \cup K
              /\ d.lapses.denied = c.lapses.denied \ K /\ d.lapses.overtaken = c.lapses.overtaken \ F
              /\ d.lapses.wanted = c.lapses.wanted \cup F
<1> DEFINE F == Unheld(c, us)
           K == KeysOf(c, F)
           x == [c.service EXCEPT !.pictures = @ \cup K]
           y == [c.lapses EXCEPT !.wanted = @ \cup F, !.denied = @ \ K, !.overtaken = @ \ F]
           d == ensureAvatar(c, us)
<1>1. d = [c EXCEPT !.service = x, !.lapses = y]
  BY DEF ensureAvatar, Unheld, KeysOf
<1> HIDE DEF K, F
<1>2. x = ServiceOf(c.service.queued, c.service.inFlight, c.service.waiters, c.service.scheduled,
                    c.service.pictures \cup K)
  BY WriteService
<1>3. y = LapsesOf(c.lapses.late, c.lapses.unrefreshed, c.lapses.denied \ K, c.lapses.overtaken \ F,
                   c.lapses.wanted \cup F)
  <2> DEFINE a == c.lapses.wanted \cup F
             b == c.lapses.denied \ K
             e == c.lapses.overtaken \ F
             m == [c.lapses EXCEPT !.wanted = a, !.denied = b, !.overtaken = e]
  <2>1. y = m
    OBVIOUS
  <2>2. m = [c.lapses EXCEPT !.wanted = a, !.denied = b, !.overtaken = e]
    OBVIOUS
  <2> HIDE DEF y, a, b, e, m
  <2>3. m = LapsesOf(c.lapses.late, c.lapses.unrefreshed, b, e, a)
    BY <2>2, WriteFetched
  <2> QED BY <2>1, <2>3 DEF a, b, e
<1> HIDE DEF x, y, d
<1>4. d = ClientOf(c.users, c.avatar, x, c.views, y)
  BY <1>1, WriteLapses
<1>5. IsClient(d) /\ d.service = x /\ d.lapses = y /\ d.users = c.users /\ d.avatar = c.avatar
  BY <1>4, ClientIs
<1>6. IsService(x) /\ x.pictures = c.service.pictures \cup K
  BY <1>2, ServiceIs
<1>7. /\ IsLapses(y) /\ y.late = c.lapses.late /\ y.unrefreshed = c.lapses.unrefreshed
      /\ y.denied = c.lapses.denied \ K /\ y.overtaken = c.lapses.overtaken \ F
      /\ y.wanted = c.lapses.wanted \cup F
  BY <1>3, LapsesIs
<1>8. SameProfiles(c, d)
  BY <1>5, <1>7 DEF SameProfiles
<1> QED BY <1>5, <1>6, <1>7, <1>8 DEF d, K, F

\* After it, the pictures of us are there or on their way.
LEMMA EnsureAvatarPictures ==
    ASSUME NEW c, NEW X, PicturesBut(c, X), NEW us, X \subseteq us,
           us \subseteq Users, \A u \in us : c.users[u] # 0
    PROVE  Pictures(ensureAvatar(c, us)) /\ SameProfiles(c, ensureAvatar(c, us))
<1> DEFINE d == ensureAvatar(c, us)
           F == Unheld(c, us)
           K == KeysOf(c, F)
<1>1. /\ IsClient(d) /\ IsService(d.service) /\ IsLapses(d.lapses) /\ SameProfiles(c, d)
      /\ d.service.pictures = c.service.pictures \cup K
      /\ d.lapses.denied = c.lapses.denied \ K /\ d.lapses.overtaken = c.lapses.overtaken \ F
      /\ d.lapses.wanted = c.lapses.wanted \cup F
  BY EnsureAvatarMeans DEF PicturesBut
<1>2. d.users = c.users /\ d.avatar = c.avatar
  BY <1>1 DEF SameProfiles
<1>3. /\ c.users \in [Users -> Nat] /\ c.avatar \in [Users -> Nat]
      /\ c.service.pictures \subseteq Users \X (Nat \ {0})
      /\ \A u \in Users : c.users[u] # 0 => u \notin Gone
      /\ \A u \in Users : c.avatar[u] # 0 => c.users[u] # 0
  BY DEF PicturesBut
<1>4. F \subseteq us /\ \A u \in us \ F : c.avatar[u] # 0 /\ c.avatar[u] = c.users[u]
  BY DEF Unheld, PictureHeld
<1>5. K \subseteq Users \X (Nat \ {0})
  <2>1. \A u \in F : u \in Users /\ c.users[u] \in Nat \ {0}
    BY <1>3, <1>4
  <2> HIDE DEF F
  <2> QED BY <2>1 DEF KeysOf
<1>6. \A u \in F : <<u, c.users[u]>> \in K
  BY DEF KeysOf
<1>7. \A u \in Users : <<u, c.users[u]>> \in K => u \in F
  BY DEF KeysOf
<1> HIDE DEF d, F, K
<1>8. ASSUME NEW u \in d.lapses.wanted \cap Users PROVE Pictured(d, u)
  <2>1. CASE u \in F
    BY <1>1, <1>2, <1>6, <2>1 DEF Pictured
  <2>2. CASE u \in us \ F
    BY <1>2, <1>4, <2>2 DEF Pictured
  <2>3. CASE u \notin us
    <3>1. u \in c.lapses.wanted /\ u \notin X /\ u \notin F
      BY <1>1, <1>4, <2>3
    <3>2. Pictured(c, u)
      BY <3>1 DEF PicturesBut
    <3>3. <<u, c.users[u]>> \notin K
      BY <1>7, <3>1
    <3> QED BY <1>1, <1>2, <3>1, <3>2, <3>3 DEF Pictured
  <2> QED BY <2>1, <2>2, <2>3
<1>9. d.service.pictures \subseteq Users \X (Nat \ {0})
  BY <1>1, <1>3, <1>5
<1>10. Pictures(d)
  BY <1>1, <1>2, <1>3, <1>8, <1>9 DEF Pictures, PicturesBut
<1> QED BY <1>1, <1>10 DEF d

\* A view that is laid out asks for the pictures of the users it shows.
LEMMA ShowPictures ==
    ASSUME NEW c, Pictures(c), NEW D, NEW laid \in [D -> SUBSET Users]
    PROVE  Pictures(Show(c, laid)) /\ SameProfiles(c, Show(c, laid))
<1> DEFINE missing == [v \in DOMAIN laid |-> {u \in laid[v] : c.users[u] = 0}]
           us == UNION {laid[v] \ missing[v] : v \in DOMAIN laid}
           p == ensureAvatar(c, us)
           serv == ensureUser(p.service, missing)
           vs == [shown |-> [v \in Views |-> IF v \in DOMAIN laid THEN laid[v] ELSE c.views.shown[v]],
                  left |-> [v \in Views |-> IF v \in DOMAIN laid THEN Cardinality(missing[v])
                                             ELSE c.views.left[v]]]
           d == ClientOf(c.users, c.avatar, serv, vs, p.lapses)
<1>1. Show(c, laid) = d
  BY Zenon DEF Show, ClientOf
<1>2. us \subseteq Users /\ \A u \in us : c.users[u] # 0
  OBVIOUS
<1> HIDE DEF us
<1>3. Pictures(p) /\ SameProfiles(c, p)
  <2>1. {} \subseteq us
    OBVIOUS
  <2> QED BY <1>2, <2>1, EnsureAvatarPictures DEF Pictures
<1>4. IsService(serv) /\ serv.pictures = p.service.pictures
  <2> DEFINE for(u) == {v \in DOMAIN missing : u \in missing[v]}
             new == {u \in Users : for(u) # {}} \ (p.service.queued \cup p.service.inFlight)
             a == p.service.queued \cup new
             b == p.service.inFlight
             w == [u \in Users |-> p.service.waiters[u] \cup for(u)]
             h == p.service.scheduled \/ new # {}
             q == p.service.pictures
  <2>1. serv = ServiceOf(a, b, w, h, q)
    BY Zenon DEF ensureUser, ServiceOf
  <2> HIDE DEF serv, a, b, w, h, q
  <2> QED BY <2>1, ServiceIs DEF q
<1> HIDE DEF serv, vs, p
<1>5. /\ IsClient(d) /\ d.users = c.users /\ d.avatar = c.avatar /\ d.service = serv /\ d.lapses = p.lapses
  BY ClientIs
<1> HIDE DEF d
<1>6. SameProfiles(c, d)
  BY <1>3, <1>5 DEF SameProfiles
<1>7. d.users = p.users /\ d.avatar = p.avatar /\ d.service.pictures = p.service.pictures
  BY <1>3, <1>4, <1>5 DEF SameProfiles
<1>8. \A u : Pictured(p, u) => Pictured(d, u)
  BY <1>5, <1>7 DEF Pictured
<1>9. Pictures(d)
  BY <1>3, <1>4, <1>5, <1>7, <1>8 DEF Pictures, PicturesBut
<1> QED BY <1>1, <1>6, <1>9

\* So does one that is told.
LEMMA FinishProfilePictures ==
    ASSUME NEW c, Kept(c), Pictures(c), NEW u \in Users
    PROVE  Pictures(finishProfile(c, u)) /\ SameProfiles(c, finishProfile(c, u))
<1> DEFINE waiting == c.service.waiters[u]
           told == {v \in waiting : c.views.left[v] = 1}
           l2 == [v \in Views |-> IF v \in waiting THEN c.views.left[v] - 1 ELSE c.views.left[v]]
           x == [c.service EXCEPT !.inFlight = @ \ {u}, !.waiters[u] = {}]
           y == [c.views EXCEPT !.left = l2]
           t == [c EXCEPT !.service = x, !.views = y]
           laid == [v \in told |-> IF v \in Refreshing THEN c.views.shown[v]
                                    ELSE {w \in c.views.shown[v] : c.users[w] # 0}]
<1>1. finishProfile(c, u) = Show(t, laid)
  BY DEF finishProfile, Told, Relaid
<1>2. /\ IsClient(c) /\ IsService(c.service) /\ IsViews(c.views)
      /\ BooksOf(c.service.queued, c.service.inFlight, c.service.waiters, c.views.shown, c.views.left)
  BY DEF Kept
<1>3. laid \in [told -> SUBSET Users]
  BY <1>2 DEF BooksOf
<1> DEFINE i2 == c.service.inFlight \ {u}
           w2 == [c.service.waiters EXCEPT ![u] = {}]
<1>4. x = ServiceOf(c.service.queued, i2, w2, c.service.scheduled, c.service.pictures)
  <2> DEFINE z == [c.service EXCEPT !.inFlight = i2, !.waiters[u] = {}]
  <2>1. x = z
    OBVIOUS
  <2>2. z = ServiceOf(c.service.queued, i2, w2, c.service.scheduled, c.service.pictures)
    <3>1. z = [c.service EXCEPT !.inFlight = i2, !.waiters[u] = {}]
      OBVIOUS
    <3> HIDE DEF i2, x, z
    <3> QED BY <1>2, <3>1, WriteAnswered
  <2> QED BY <2>1, <2>2
<1>5. t = ClientOf(c.users, c.avatar, x, y, c.lapses)
  <2> HIDE DEF x, y
  <2> QED BY <1>2, WriteViewed
<1> HIDE DEF x, y, i2, w2, l2, t, told, laid
<1>6. IsClient(t) /\ t.service = x /\ t.users = c.users /\ t.avatar = c.avatar /\ t.lapses = c.lapses
  BY <1>5, ClientIs
<1>7. IsService(x) /\ x.pictures = c.service.pictures
  BY <1>4, ServiceIs
<1>8. \A w : Pictured(c, w) => Pictured(t, w)
  BY <1>6, <1>7 DEF Pictured
<1>9. Pictures(t) /\ SameProfiles(c, t)
  BY <1>6, <1>7, <1>8 DEF Pictures, PicturesBut, SameProfiles
<1> DEFINE d == Show(t, laid)
<1>10. Pictures(d) /\ SameProfiles(t, d)
  BY <1>3, <1>9, ShowPictures
<1> HIDE DEF d
<1>11. SameProfiles(c, d)
  BY <1>9, <1>10 DEF SameProfiles
<1> QED BY <1>1, <1>10, <1>11 DEF d

-------------------------------------------------------------------------------
(* The profiles                                                               *)

\* The users of us are given their versions v.
WithVersions(c, us, v) == [u \in Users |-> IF u \in us THEN v[u] ELSE c.users[u]]

\* The wanted pictures that are on their way for another version than v.
Passed(c, us, v) == {u \in us : u \in c.lapses.wanted /\ c.avatar[u] = 0 /\ c.users[u] # v[u]}

\* Those whose picture is of another version than v.
Outdated(c, us, v) == {u \in us : c.avatar[u] # 0 /\ c.users[u] # v[u]}

\* What a new version changes: the profile, and the pictures it overtakes.
LEMMA RenewedMeans ==
    ASSUME NEW c, IsClient(c), IsLapses(c.lapses), NEW us, NEW v
    PROVE  LET d == Renewed(c, us, v)
           IN /\ IsClient(d) /\ IsLapses(d.lapses) /\ d.users = WithVersions(c, us, v)
              /\ d.avatar = c.avatar /\ d.service = c.service
              /\ d.lapses.late = c.lapses.late /\ d.lapses.unrefreshed = c.lapses.unrefreshed
              /\ d.lapses.denied = c.lapses.denied /\ d.lapses.wanted = c.lapses.wanted
              /\ d.lapses.overtaken = c.lapses.overtaken \cup Passed(c, us, v)
<1> DEFINE x == c.lapses.overtaken \cup Passed(c, us, v)
           y == [c.lapses EXCEPT !.overtaken = x]
           o == [c EXCEPT !.lapses = y]
           w == WithVersions(c, us, v)
           r == [o EXCEPT !.users = w]
           d == Renewed(c, us, v)
<1>1. d = r
  BY DEF Renewed, Overtaken, Passed, WithVersions
<1> HIDE DEF x, w, d
<1>2. y = LapsesOf(c.lapses.late, c.lapses.unrefreshed, c.lapses.denied, x, c.lapses.wanted)
  BY WriteLapse
<1> HIDE DEF y
<1>3. o = ClientOf(c.users, c.avatar, c.service, c.views, y)
  BY WriteClient
<1> HIDE DEF o
<1>4. IsClient(o) /\ o.avatar = c.avatar /\ o.service = c.service /\ o.views = c.views /\ o.lapses = y
  BY <1>3, ClientIs
<1>5. r = ClientOf(w, o.avatar, o.service, o.views, o.lapses)
  BY <1>4, WriteClient
<1> HIDE DEF r
<1>6. IsClient(r) /\ r.users = w /\ r.avatar = c.avatar /\ r.service = c.service /\ r.lapses = y
  BY <1>4, <1>5, ClientIs
<1>7. /\ IsLapses(y) /\ y.late = c.lapses.late /\ y.unrefreshed = c.lapses.unrefreshed
      /\ y.denied = c.lapses.denied /\ y.overtaken = x /\ y.wanted = c.lapses.wanted
  BY <1>2, LapsesIs
<1> QED BY <1>1, <1>6, <1>7 DEF w, x, d

\* A new version leaves without their picture those only whose picture is outdated.
LEMMA RenewedPictures ==
    ASSUME NEW c, Pictures(c), NEW us, us \subseteq Users \ Gone, NEW v, \A u \in us : v[u] \in Nat \ {0}
    PROVE  LET d == Renewed(c, us, v)
           IN /\ PicturesBut(d, Outdated(c, us, v)) /\ d.users = WithVersions(c, us, v)
              /\ d.avatar = c.avatar
              /\ d.lapses.late = c.lapses.late /\ d.lapses.unrefreshed = c.lapses.unrefreshed
<1> DEFINE d == Renewed(c, us, v)
           w == WithVersions(c, us, v)
           X == Outdated(c, us, v)
<1>1. /\ IsClient(d) /\ IsLapses(d.lapses) /\ d.users = w
      /\ d.avatar = c.avatar /\ d.service = c.service
      /\ d.lapses.late = c.lapses.late /\ d.lapses.unrefreshed = c.lapses.unrefreshed
      /\ d.lapses.denied = c.lapses.denied /\ d.lapses.wanted = c.lapses.wanted
      /\ d.lapses.overtaken = c.lapses.overtaken \cup Passed(c, us, v)
  BY RenewedMeans DEF Pictures, PicturesBut
<1>2. /\ c.users \in [Users -> Nat] /\ c.avatar \in [Users -> Nat] /\ IsService(c.service)
      /\ c.service.pictures \subseteq Users \X (Nat \ {0})
      /\ \A u \in Users : c.users[u] # 0 => u \notin Gone
      /\ \A u \in Users : c.avatar[u] # 0 => c.users[u] # 0
      /\ \A u \in c.lapses.wanted \cap Users : Pictured(c, u)
  BY DEF Pictures, PicturesBut
<1>3. \A u \in Users : w[u] = IF u \in us THEN v[u] ELSE c.users[u]
  BY DEF WithVersions
<1>4. w \in [Users -> Nat]
  BY <1>2 DEF WithVersions
<1> HIDE DEF d, w
<1>5. ASSUME NEW u \in (d.lapses.wanted \cap Users) \ X PROVE Pictured(d, u)
  <2>1. Pictured(c, u)
    BY <1>1, <1>2, <1>5
  <2>2. CASE w[u] = c.users[u]
    BY <1>1, <2>1, <2>2 DEF Pictured
  <2>3. CASE w[u] # c.users[u]
    <3>1. u \in us /\ c.users[u] # v[u] /\ c.avatar[u] = 0
      BY <1>3, <2>3 DEF Outdated
    <3>2. u \in Passed(c, us, v)
      BY <1>1, <3>1 DEF Passed
    <3> QED BY <1>1, <3>2 DEF Pictured
  <2> QED BY <2>2, <2>3
<1>6. \A u \in Users : w[u] # 0 => u \notin Gone
  BY <1>2, <1>3
<1>7. \A u \in Users : c.avatar[u] # 0 => w[u] # 0
  BY <1>2, <1>3
<1>8. PicturesBut(d, X)
  <2> HIDE DEF X
  <2> QED BY <1>1, <1>2, <1>4, <1>5, <1>6, <1>7 DEF PicturesBut
<1> QED BY <1>1, <1>8 DEF d, w

\* Those are the ones resolveReferences asks for.
LEMMA AddUserPictures ==
    ASSUME NEW c, Pictures(c), NEW us, us \subseteq Users \ Gone, NEW v, \A u \in us : v[u] \in Nat \ {0}
    PROVE  LET d == addUser(c, us, v)
           IN /\ Pictures(d) /\ d.users = WithVersions(c, us, v)
              /\ d.lapses.late = c.lapses.late /\ d.lapses.unrefreshed = c.lapses.unrefreshed
<1> DEFINE e == Renewed(c, us, v)
           f == {u \in us : e.avatar[u] # 0}
           X == Outdated(c, us, v)
           d == ensureAvatar(e, f)
<1>1. /\ PicturesBut(e, X) /\ e.users = WithVersions(c, us, v) /\ e.avatar = c.avatar
      /\ e.lapses.late = c.lapses.late /\ e.lapses.unrefreshed = c.lapses.unrefreshed
  BY RenewedPictures
<1>2. addUser(c, us, v) = d
  BY DEF addUser, resolveReferences
<1> HIDE DEF e
<1>3. X \subseteq f
  BY <1>1 DEF Outdated
<1>4. f \subseteq Users /\ \A u \in f : e.users[u] # 0
  BY <1>1 DEF PicturesBut
<1> HIDE DEF X, f
<1>5. Pictures(d) /\ SameProfiles(e, d)
  BY <1>1, <1>3, <1>4, EnsureAvatarPictures
<1> HIDE DEF d
<1> QED BY <1>1, <1>2, <1>5 DEF SameProfiles

\* The users taken from the reply of r whom the client keeps stale.
Marked(c, r, us) ==
    {u \in us :
        /\ IF c.users[u] = 0 THEN ~\E i \in DOMAIN stream.events : stream.events[i].user = u
           ELSE r.reply[u] < c.users[u]
        /\ r.reply[u] < server.version[u]}

\* A reply keeps the pictures, and marks as late what it was overtaken by.
LEMMA TakePictures ==
    ASSUME NEW c, Pictures(c), NEW r, NEW us, us \subseteq Users \ Gone, \A u \in us : r.reply[u] \in Nat \ {0}
    PROVE  LET d == Take(c, r, us)
           IN /\ Pictures(d) /\ d.users = WithVersions(c, us, r.reply)
              /\ d.lapses.late = c.lapses.late \cup Marked(c, r, us)
              /\ d.lapses.unrefreshed = c.lapses.unrefreshed
<1> DEFINE x == c.lapses.late \cup Marked(c, r, us)
           y == [c.lapses EXCEPT !.late = x]
           e == [c EXCEPT !.lapses = y]
           v == r.reply
<1>1. Take(c, r, us) = addUser(e, us, v)
  BY Zenon DEF Take, Marked
<1>2. IsClient(c) /\ IsLapses(c.lapses)
  BY DEF Pictures, PicturesBut
<1> HIDE DEF x
<1>3. y = LapsesOf(x, c.lapses.unrefreshed, c.lapses.denied, c.lapses.overtaken, c.lapses.wanted)
  BY <1>2, WriteLapse
<1> HIDE DEF y
<1>4. e = ClientOf(c.users, c.avatar, c.service, c.views, y)
  BY <1>2, WriteClient
<1> HIDE DEF e
<1>5. IsClient(e) /\ e.users = c.users /\ e.avatar = c.avatar /\ e.service = c.service /\ e.lapses = y
  BY <1>4, ClientIs
<1>6. /\ IsLapses(y) /\ y.late = x /\ y.unrefreshed = c.lapses.unrefreshed /\ y.denied = c.lapses.denied
      /\ y.overtaken = c.lapses.overtaken /\ y.wanted = c.lapses.wanted
  BY <1>3, LapsesIs
<1>7. \A u : Pictured(c, u) => Pictured(e, u)
  BY <1>5, <1>6 DEF Pictured
<1>8. Pictures(e)
  BY <1>5, <1>6, <1>7 DEF Pictures, PicturesBut
<1> DEFINE d == addUser(e, us, v)
<1>9. /\ Pictures(d) /\ d.users = WithVersions(e, us, v)
      /\ d.lapses.late = e.lapses.late /\ d.lapses.unrefreshed = e.lapses.unrefreshed
  BY <1>8, AddUserPictures
<1> HIDE DEF d
<1>10. WithVersions(e, us, v) = WithVersions(c, us, v)
  BY <1>5 DEF WithVersions
<1> QED BY <1>1, <1>5, <1>6, <1>9, <1>10 DEF d, x

\* A reply does not make a profile stale unnoticed: what was on its way in N and is no
\* longer in M has come with it.
LEMMA TakeFresh ==
    ASSUME NEW c, Pictures(c), NEW r, NEW us, us \subseteq Users \ Gone, \A u \in us : r.reply[u] \in Nat \ {0},
           \A u \in us : r.reply[u] =< server.version[u], server.version \in [Users -> Nat \ {0}],
           NEW N, NEW M, Fresh(c, N, server.version), N \ us \subseteq M,
           \A u \in us : (\E i \in DOMAIN stream.events : stream.events[i].user = u) => u \in M,
           \A u \in us : u \in N /\ u \notin M => r.reply[u] = server.version[u]
    PROVE  Fresh(Take(c, r, us), M, server.version)
<1> DEFINE d == Take(c, r, us)
           w == server.version
           v == r.reply
<1>1. /\ d.users = WithVersions(c, us, v) /\ d.lapses.late = c.lapses.late \cup Marked(c, r, us)
      /\ d.lapses.unrefreshed = c.lapses.unrefreshed
  BY TakePictures
<1>2. \A u \in Users : d.users[u] = IF u \in us THEN v[u] ELSE c.users[u]
  BY <1>1 DEF WithVersions
<1> HIDE DEF d
<1>3. ASSUME NEW u \in Users, d.users[u] # 0
      PROVE  u \in d.lapses.late \cup d.lapses.unrefreshed \cup M \/ d.users[u] = w[u]
  <2>1. CASE u \notin us
    <3>1. d.users[u] = c.users[u]
      BY <1>2, <2>1
    <3>2. u \in c.lapses.late \cup c.lapses.unrefreshed \cup N \/ c.users[u] = w[u]
      BY <1>3, <3>1 DEF Fresh
    <3> QED BY <1>1, <2>1, <3>1, <3>2
  <2>2. CASE u \in us /\ v[u] # w[u] /\ u \notin M
    <3>1. v[u] < w[u] /\ u \notin N /\ ~\E i \in DOMAIN stream.events : stream.events[i].user = u
      BY <2>2
    <3>2. CASE c.users[u] = 0
      <4>1. u \in Marked(c, r, us)
        BY <2>2, <3>1, <3>2 DEF Marked
      <4> QED BY <1>1, <4>1
    <3>3. CASE c.users[u] # 0 /\ v[u] < c.users[u]
      <4>1. u \in Marked(c, r, us)
        BY <2>2, <3>1, <3>3 DEF Marked
      <4> QED BY <1>1, <4>1
    <3>4. CASE c.users[u] # 0 /\ ~(v[u] < c.users[u])
      <4>1. c.users[u] # w[u]
        <5>1. c.users \in [Users -> Nat]
          BY DEF Pictures, PicturesBut
        <5> QED BY <3>1, <3>4, <5>1, <2>2
      <4>2. u \in c.lapses.late \cup c.lapses.unrefreshed
        BY <3>1, <3>4, <4>1 DEF Fresh
      <4> QED BY <1>1, <4>2
    <3> QED BY <3>2, <3>3, <3>4
  <2>3. CASE u \in us /\ v[u] = w[u]
    BY <1>2, <2>3
  <2> QED BY <2>1, <2>2, <2>3
<1> QED BY <1>3 DEF Fresh, d

\* An event keeps the pictures, and ends what was late.
LEMMA UpdatedPictures ==
    ASSUME NEW c, Pictures(c), NEW e, e.user \in Users \ Gone, e.version \in Nat \ {0}
    PROVE  LET d == Updated(c, e)
           IN /\ Pictures(d) /\ d.lapses.late = c.lapses.late \ {e.user}
              /\ d.lapses.unrefreshed = c.lapses.unrefreshed \ {e.user}
              /\ \A x \in Users : d.users[x] = IF x = e.user THEN e.version ELSE c.users[x]
<1> DEFINE u == e.user
           x == c.lapses.late \ {u}
           z == c.lapses.unrefreshed \ {u}
           y == [c.lapses EXCEPT !.late = @ \ {u}, !.unrefreshed = @ \ {u}]
           s == [c EXCEPT !.lapses = y]
           v == [w \in {u} |-> e.version]
           us == {u}
           k == Renewed(s, us, v)
           f == ensureAvatar(k, us)
           d == Updated(c, e)
           X == Outdated(s, us, v)
<1>1. d = IF c.users[u] # 0 /\ c.avatar[u] # 0 /\ c.users[u] # e.version THEN f ELSE k
  BY Zenon DEF Updated
<1>2. IsClient(c) /\ IsLapses(c.lapses)
  BY DEF Pictures, PicturesBut
<1>3. y = LapsesOf(x, z, c.lapses.denied, c.lapses.overtaken, c.lapses.wanted)
  <2> DEFINE m == [c.lapses EXCEPT !.late = x, !.unrefreshed = z]
  <2>1. y = m
    OBVIOUS
  <2>2. m = [c.lapses EXCEPT !.late = x, !.unrefreshed = z]
    OBVIOUS
  <2> HIDE DEF y, x, z, m
  <2> QED BY <1>2, <2>1, <2>2, WriteSeen
<1> HIDE DEF x, z, y
<1>4. s = ClientOf(c.users, c.avatar, c.service, c.views, y)
  BY <1>2, WriteClient
<1> HIDE DEF s
<1>5. IsClient(s) /\ s.users = c.users /\ s.avatar = c.avatar /\ s.service = c.service /\ s.lapses = y
  BY <1>4, ClientIs
<1>6. /\ IsLapses(y) /\ y.late = x /\ y.unrefreshed = z /\ y.denied = c.lapses.denied
      /\ y.overtaken = c.lapses.overtaken /\ y.wanted = c.lapses.wanted
  BY <1>3, LapsesIs
<1>7. \A w : Pictured(c, w) => Pictured(s, w)
  BY <1>5, <1>6 DEF Pictured
<1>8. Pictures(s)
  BY <1>5, <1>6, <1>7 DEF Pictures, PicturesBut
<1>9. us \subseteq Users \ Gone /\ \A w \in us : v[w] \in Nat \ {0} /\ v[w] = e.version
  OBVIOUS
<1> HIDE DEF v, k
<1>10. /\ PicturesBut(k, X) /\ k.users = WithVersions(s, us, v) /\ k.avatar = s.avatar
       /\ k.lapses.late = s.lapses.late /\ k.lapses.unrefreshed = s.lapses.unrefreshed
  <2> HIDE DEF us
  <2> QED BY <1>8, <1>9, RenewedPictures DEF k
<1>11. \A w \in Users : k.users[w] = IF w = u THEN e.version ELSE c.users[w]
  BY <1>5, <1>9, <1>10 DEF WithVersions
<1>12. Pictures(f) /\ SameProfiles(k, f)
  <2>1. X \subseteq us /\ us \subseteq Users /\ \A w \in us : k.users[w] # 0
    BY <1>9, <1>11 DEF Outdated
  <2> HIDE DEF us, X
  <2> QED BY <1>10, <2>1, EnsureAvatarPictures
<1>13. ~(c.users[u] # 0 /\ c.avatar[u] # 0 /\ c.users[u] # e.version) => Pictures(k)
  <2> SUFFICES ASSUME ~(c.users[u] # 0 /\ c.avatar[u] # 0 /\ c.users[u] # e.version) PROVE Pictures(k)
    OBVIOUS
  <2>1. c.avatar[u] # 0 => c.users[u] # 0
    BY DEF Pictures, PicturesBut
  <2>2. X = {}
    BY <1>5, <1>9, <2>1 DEF Outdated
  <2> HIDE DEF X
  <2> QED BY <1>10, <2>2 DEF Pictures
<1> HIDE DEF f, us, X, d
<1>14. Pictures(d)
  BY <1>1, <1>12, <1>13
<1>15. d.users = k.users /\ d.lapses.late = x /\ d.lapses.unrefreshed = z
  BY <1>1, <1>5, <1>6, <1>10, <1>12 DEF SameProfiles
<1> QED BY <1>11, <1>14, <1>15 DEF d, x, z, u

\* The users of a reply, one after the other, with the views told in between: the pictures are
\* kept, and the profiles stay as fresh.
LEMMA FinishNews ==
    ASSUME Kept(client), Pictures(client), NEW r, NEW returned, NEW order \in Seq(Users),
           returned \subseteq Users \ Gone, \A u \in returned : r.reply[u] \in Nat \ {0},
           \A u \in returned : r.reply[u] =< server.version[u], server.version \in [Users -> Nat \ {0}],
           NEW N, Fresh(client, N, server.version),
           \A u \in Users : (\E i \in DOMAIN stream.events : stream.events[i].user = u) => u \in N
    PROVE  LET d == Finish(r, returned, order)
           IN Pictures(d) /\ Fresh(d, N, server.version)
<1> DEFINE n == Len(order)
           w == server.version
           f == AfterOf(r, returned, order, n)
           Good(c) == Kept(c) /\ Pictures(c) /\ Fresh(c, N, w)
           H == {k \in 0..n : Good(f[k])}
<1>1. n \in Nat /\ \A k \in 1..n : order[k] \in Users
  OBVIOUS
<1>2. Finish(r, returned, order) = f[n]
  BY DEF Finish, AfterOf, AfterRun, AfterDef
<1>3. AfterRun(r, returned, order, n, f)
  BY <1>1, AfterDefined
<1> HIDE DEF f, n
<1>4. \A k \in 0..n : f[k] = AfterDef(r, returned, order, f, k)
  BY <1>3 DEF AfterRun
<1>5. 0 \in H
  <2>1. f[0] = client
    <3>1. AfterDef(r, returned, order, f, 0) = client
      BY DEF AfterDef
    <3>2. 0 \in 0..n
      BY <1>1
    <3> HIDE DEF H
    <3> QED BY <1>4, <3>1, <3>2
  <2>2. Good(f[0])
    BY <2>1
  <2> HIDE DEF Good
  <2> QED BY <1>1, <2>2
<1>6. \A k \in H : k < n => k + 1 \in H
  <2> SUFFICES ASSUME NEW k \in H, k < n PROVE k + 1 \in H
    OBVIOUS
  <2> DEFINE u == order[k + 1]
             c == f[k]
             t == Take(c, r, {u})
             e == IF u \in returned THEN t ELSE c
  <2>1. /\ k \in 0..n /\ k + 1 \in 0..n /\ k + 1 # 0 /\ k + 1 - 1 = k /\ u \in Users /\ k + 1 \in 1..n
        /\ Kept(c) /\ Pictures(c) /\ Fresh(c, N, w)
    BY <1>1
  <2>2. f[k + 1] = finishProfile(e, u)
    <3> DEFINE p == k + 1
               b == f[p - 1]
    <3>1. p # 0 /\ p - 1 = k
      BY <2>1
    <3>2. b = c
      BY <3>1
    <3> HIDE DEF p, b
    <3>3. AfterDef(r, returned, order, f, p)
            = finishProfile(IF order[p] \in returned THEN Take(b, r, {order[p]}) ELSE b, order[p])
      BY <3>1, Zenon DEF AfterDef, b
    <3>4. AfterDef(r, returned, order, f, k + 1) = finishProfile(e, u)
      BY <3>2, <3>3, Zenon DEF p
    <3> HIDE DEF H, e, u
    <3> QED BY <1>4, <2>1, <3>4
  <2>3. SameBooks(c, t)
    BY <2>1, TakeBooks DEF Kept
  <2> HIDE DEF u, c
  <2>4. u \in returned => Pictures(t) /\ Fresh(t, N, w)
    <3> SUFFICES ASSUME u \in returned PROVE Pictures(t) /\ Fresh(t, N, w)
      OBVIOUS
    <3> DEFINE us == {u}
    <3>1. /\ us \subseteq Users \ Gone /\ \A x \in us : r.reply[x] \in Nat \ {0} /\ r.reply[x] =< server.version[x]
          /\ \A x \in us : (\E i \in DOMAIN stream.events : stream.events[i].user = x) => x \in N
          /\ N \ us \subseteq N /\ \A x \in us : x \in N /\ x \notin N => r.reply[x] = server.version[x]
      BY <2>1
    <3> HIDE DEF us
    <3>2. Pictures(Take(c, r, us))
      BY <2>1, <3>1, TakePictures
    <3>3. Fresh(Take(c, r, us), N, server.version)
      BY <2>1, <3>1, TakeFresh
    <3> QED BY <3>2, <3>3 DEF us
  <2> HIDE DEF t
  <2>5. Kept(t)
    BY <2>1, <2>3, SameBooksKeep
  <2>6. Kept(e) /\ Pictures(e) /\ Fresh(e, N, w)
    BY <2>1, <2>4, <2>5
  <2> HIDE DEF e
  <2> DEFINE d == finishProfile(e, u)
  <2>7. Kept(d)
    BY <2>1, <2>6, FinishProfileKeeps
  <2>8. Pictures(d) /\ SameProfiles(e, d)
    BY <2>1, <2>6, FinishProfilePictures
  <2> HIDE DEF d, w
  <2>9. Fresh(d, N, w)
    BY <2>6, <2>8, SameProfilesFresh
  <2>10. Good(f[k + 1])
    BY <2>2, <2>7, <2>8, <2>9 DEF d
  <2> HIDE DEF Good
  <2> QED BY <2>1, <2>10
<1>7. H \subseteq 0..n
  OBVIOUS
<1>8. n \in H
  <2> HIDE DEF H
  <2>1. H = 0..n
    BY <1>1, <1>5, <1>6, <1>7, Upward
  <2> QED BY <1>1, <2>1
<1>9. Good(f[n])
  BY <1>8
<1> QED BY <1>2, <1>9 DEF n

-------------------------------------------------------------------------------
(* The stream                                                                 *)

\* The next version of u, the outage its change falls into, and its event.
NextVersion(w, u) == [w EXCEPT ![u] = @ + 1]
ChangedIn(g, u, n) == [g EXCEPT ![u] = n]
EventOf(u, v) == [user |-> u, version |-> v]

\* A change, and its event.
LEMMA ChangeStream ==
    ASSUME NEW q, NEW up, NEW n, NEW w, NEW g, NEW s, StreamOf(q, up, n, w, g, s), NEW u \in Users \ Gone,
           NEW w2, w2 = NextVersion(w, u), NEW g2, g2 = ChangedIn(g, u, n), NEW e, e = EventOf(u, w2[u])
    PROVE  /\ StreamOf(Append(q, e), up, n, w2, g2, s)
           /\ Announced(Append(q, e)) = Announced(q) \cup {u}
<1> DEFINE E == [user : Users \ Gone, version : Nat \ {0}]
           p == Append(q, e)
           m == Len(q)
<1>1. /\ q \in Seq(E) /\ w \in [Users -> Nat \ {0}] /\ g \in [Users -> Nat] /\ n \in Nat
      /\ \A x \in Users : g[x] <= n
      /\ EventsOf(q, w)
  BY DEF StreamOf
<1>2. /\ w2 \in [Users -> Nat \ {0}] /\ g2 \in [Users -> Nat] /\ g2[u] = n
      /\ \A x \in Users : x # u => w2[x] = w[x] /\ g2[x] = g[x]
  BY <1>1 DEF NextVersion, ChangedIn
<1>3. e \in E /\ e.user = u /\ e.version = w2[u]
  BY <1>2 DEF EventOf
<1> HIDE DEF E
<1>4. /\ p \in Seq(E) /\ Len(p) = m + 1 /\ m \in Nat /\ p[m + 1] = e
      /\ \A i \in 1..m : p[i] = q[i] /\ q[i] \in E
  BY <1>1, <1>3
<1>5. \A i \in 1..m : q[i].user \in Users
  BY <1>4 DEF E
<1> HIDE DEF p, m
<1>6. EventsOf(p, w2)
  <2> SUFFICES ASSUME NEW i \in 1..Len(p), \A j \in (i + 1)..Len(p) : p[j].user # p[i].user
               PROVE  p[i].version = w2[p[i].user]
    BY DEF EventsOf
  <2>1. CASE i = m + 1
    BY <1>3, <1>4, <2>1
  <2>2. CASE i # m + 1
    <3>1. i \in 1..m /\ m + 1 \in (i + 1)..Len(p)
      BY <1>4, <2>2
    <3>2. p[i] = q[i] /\ q[i].user # u
      BY <1>3, <1>4, <3>1
    <3>3. \A j \in (i + 1)..m : q[j].user # q[i].user
      BY <1>4, <3>1
    <3>4. q[i].version = w[q[i].user]
      BY <1>1, <3>1, <3>3 DEF EventsOf, m
    <3> QED BY <1>2, <1>5, <3>1, <3>2, <3>4
  <2> QED BY <2>1, <2>2
<1>7. \A x \in Users : g2[x] <= n
  <2> SUFFICES ASSUME NEW x \in Users PROVE g2[x] <= n
    OBVIOUS
  <2>1. CASE x = u
    BY <1>1, <1>2, <2>1
  <2>2. CASE x # u
    <3>1. g2[x] = g[x] /\ g[x] <= n
      BY <1>1, <1>2, <2>2
    <3> QED BY <3>1
  <2> QED BY <2>1, <2>2
<1>8. IF up THEN s = 0 ELSE s \in 1..n /\ \A i \in 1..Len(p) : g2[p[i].user] >= s
  <2>1. CASE up
    BY <2>1 DEF StreamOf
  <2>2. CASE ~up
    <3>1. s \in 1..n /\ \A i \in 1..m : g[q[i].user] >= s
      BY <2>2 DEF StreamOf, m
    <3>2. ASSUME NEW i \in 1..Len(p) PROVE g2[p[i].user] >= s
      <4>1. CASE i = m + 1
        BY <1>1, <1>2, <1>3, <1>4, <3>1, <4>1
      <4>2. CASE i \in 1..m
        <5>1. CASE q[i].user = u
          BY <1>1, <1>2, <1>4, <3>1, <4>2, <5>1
        <5>2. CASE q[i].user # u
          BY <1>2, <1>4, <1>5, <3>1, <4>2, <5>2
        <5> QED BY <5>1, <5>2
      <4> QED BY <1>4, <4>1, <4>2
    <3> QED BY <2>2, <3>1, <3>2
  <2> QED BY <2>1, <2>2
<1>9. Announced(p) = Announced(q) \cup {u}
  <2>1. \A x : x \in Announced(p) <=> \E i \in 1..(m + 1) : x = p[i].user
    BY <1>4 DEF Announced
  <2>2. \A x : x \in Announced(q) <=> \E i \in 1..m : x = q[i].user
    BY DEF Announced, m
  <2>3. m + 1 \in 1..(m + 1) /\ \A i \in 1..(m + 1) : i # m + 1 => i \in 1..m
    BY <1>4
  <2>4. 1..m \subseteq 1..(m + 1)
    BY <1>4
  <2>5. ASSUME NEW x \in Announced(p) PROVE x \in Announced(q) \cup {u}
    BY <1>3, <1>4, <2>1, <2>2, <2>3
  <2>6. ASSUME NEW x \in Announced(q) \cup {u} PROVE x \in Announced(p)
    <3>1. CASE x = u
      BY <1>3, <1>4, <2>1, <2>3, <3>1
    <3>2. CASE x \in Announced(q)
      <4>1. PICK i \in 1..m : x = q[i].user
        BY <2>2, <3>2
      <4>2. i \in 1..(m + 1) /\ x = p[i].user
        BY <1>4, <2>4, <4>1
      <4> QED BY <2>1, <4>2
    <3> QED BY <3>1, <3>2
  <2> QED BY <2>5, <2>6
<1>10. StreamOf(p, up, n, w2, g2, s)
  BY <1>1, <1>2, <1>4, <1>6, <1>7, <1>8 DEF StreamOf, E
<1> QED BY <1>9, <1>10 DEF p

\* An event is taken: without a later one it tells the version of the server.
LEMMA TailStream ==
    ASSUME NEW q, NEW n, NEW w, NEW g, NEW s, StreamOf(q, TRUE, n, w, g, s), q # <<>>
    PROVE  /\ StreamOf(Tail(q), TRUE, n, w, g, s)
           /\ Head(q).user \in Users \ Gone /\ Head(q).version \in Nat \ {0}
           /\ Announced(q) = Announced(Tail(q)) \cup {Head(q).user}
           /\ Head(q).user \notin Announced(Tail(q)) => Head(q).version = w[Head(q).user]
<1> DEFINE E == [user : Users \ Gone, version : Nat \ {0}]
           p == Tail(q)
           m == Len(q)
           h == Head(q)
<1>1. q \in Seq(E) /\ EventsOf(q, w)
  BY DEF StreamOf
<1> HIDE DEF E
<1>2. /\ p \in Seq(E) /\ Len(p) = m - 1 /\ m \in Nat /\ m > 0 /\ h \in E /\ h = q[1]
      /\ \A i \in 1..(m - 1) : p[i] = q[i + 1]
  BY <1>1
<1> HIDE DEF p, m, h
<1>3. EventsOf(p, w)
  <2> SUFFICES ASSUME NEW i \in 1..Len(p), \A j \in (i + 1)..Len(p) : p[j].user # p[i].user
               PROVE  p[i].version = w[p[i].user]
    BY DEF EventsOf
  <2>1. i \in 1..(m - 1) /\ i + 1 \in 1..m /\ p[i] = q[i + 1]
    BY <1>2
  <2>2. ASSUME NEW j \in (i + 1 + 1)..m PROVE q[j].user # q[i + 1].user
    <3>1. j - 1 \in (i + 1)..Len(p) /\ j - 1 \in 1..(m - 1) /\ j - 1 + 1 = j
      BY <1>2, <2>1
    <3>2. p[j - 1] = q[j]
      BY <1>2, <3>1
    <3> QED BY <2>1, <3>1, <3>2
  <2>3. q[i + 1].version = w[q[i + 1].user]
    BY <1>1, <2>1, <2>2 DEF EventsOf, m
  <2> QED BY <2>1, <2>3
<1>4. \A x : x \in Announced(p) <=> \E i \in 2..m : x = q[i].user
  <2> SUFFICES ASSUME NEW x PROVE x \in Announced(p) <=> \E i \in 2..m : x = q[i].user
    OBVIOUS
  <2>1. ASSUME x \in Announced(p) PROVE \E i \in 2..m : x = q[i].user
    <3>1. PICK i \in 1..(m - 1) : x = p[i].user
      BY <1>2, <2>1 DEF Announced
    <3>2. i + 1 \in 2..m /\ x = q[i + 1].user
      BY <1>2, <3>1
    <3> QED BY <3>2
  <2>2. ASSUME NEW i \in 2..m, x = q[i].user PROVE x \in Announced(p)
    <3>1. i - 1 \in 1..(m - 1) /\ i - 1 + 1 = i
      BY <1>2
    <3>2. p[i - 1] = q[i]
      BY <1>2, <3>1
    <3> QED BY <1>2, <2>2, <3>1, <3>2 DEF Announced
  <2> QED BY <2>1, <2>2
<1>5. \A x : x \in Announced(q) <=> \E i \in 1..m : x = q[i].user
  BY DEF Announced, m
<1>6. Announced(q) = Announced(p) \cup {h.user}
  <2>1. 1 \in 1..m /\ 2..m \subseteq 1..m /\ \A i \in 1..m : i # 1 => i \in 2..m
    BY <1>2
  <2> QED BY <1>2, <1>4, <1>5, <2>1
<1>7. h.user \notin Announced(p) => h.version = w[h.user]
  <2> SUFFICES ASSUME h.user \notin Announced(p) PROVE h.version = w[h.user]
    OBVIOUS
  <2>1. \A j \in (1 + 1)..m : q[j].user # q[1].user
    BY <1>2, <1>4
  <2>2. 1 \in 1..m
    BY <1>2
  <2> QED BY <1>1, <1>2, <2>1, <2>2 DEF EventsOf, m
<1>8. h.user \in Users \ Gone /\ h.version \in Nat \ {0}
  BY <1>2 DEF E
<1>9. StreamOf(p, TRUE, n, w, g, s)
  BY <1>2, <1>3 DEF StreamOf, E
<1> QED BY <1>6, <1>7, <1>8, <1>9 DEF p, h

\* The changes on their way in q fall into the outage n + 1.
ChangedLost(q, g, n) == [u \in Users |-> IF \E i \in DOMAIN q : q[i].user = u THEN n + 1 ELSE g[u]]

\* An outage: changes on their way fall into it.
LEMMA LostStream ==
    ASSUME NEW q, NEW n, NEW w, NEW g, NEW s, StreamOf(q, TRUE, n, w, g, s),
           NEW g2, g2 = ChangedLost(q, g, n), NEW m, m = n + 1
    PROVE  StreamOf(q, No, m, w, g2, m) /\ \A u \in Users : g[u] <= g2[u]
<1> DEFINE E == [user : Users \ Gone, version : Nat \ {0}]
<1>1. /\ q \in Seq(E) /\ w \in [Users -> Nat \ {0}] /\ g \in [Users -> Nat] /\ n \in Nat
      /\ \A x \in Users : g[x] <= n
      /\ EventsOf(q, w) /\ s = 0
  BY DEF StreamOf
<1>2. g2 \in [Users -> Nat] /\ \A u \in Users : g[u] <= g2[u] /\ g2[u] <= n + 1
  BY <1>1 DEF ChangedLost
<1>3. ASSUME NEW i \in 1..Len(q) PROVE g2[q[i].user] >= n + 1
  <2>1. q[i].user \in Users /\ i \in DOMAIN q
    <3>1. q[i] \in E /\ i \in DOMAIN q
      <4> HIDE DEF E
      <4> QED BY <1>1
    <3> QED BY <3>1
  <2>2. \E j \in DOMAIN q : q[j].user = q[i].user
    BY <2>1
  <2>3. g2[q[i].user] = n + 1
    BY <2>1, <2>2 DEF ChangedLost
  <2> QED BY <1>1, <2>3
<1>4. m \in Nat /\ m \in 1..m /\ \A u \in Users : g2[u] <= m
  BY <1>1, <1>2
<1>5. \A i \in 1..Len(q) : g2[q[i].user] >= m
  BY <1>3
<1> QED BY <1>1, <1>2, <1>4, <1>5 DEF StreamOf, No

\* The stream is back, with the events or without.
LEMMA BackStream ==
    ASSUME NEW q, NEW n, NEW w, NEW g, NEW s, StreamOf(q, FALSE, n, w, g, s), NEW p \in {q, <<>>}
    PROVE  /\ StreamOf(p, TRUE, n, w, g, 0) /\ s \in Nat
           /\ \A u \in Announced(q) \cap Users : s <= g[u]
           /\ Announced(p) \subseteq Announced(q)
<1>1. EventsOf(<<>>, w) /\ Announced(<<>>) = {}
  BY DEF EventsOf, Announced
<1>2. s \in Nat /\ \A i \in 1..Len(q) : g[q[i].user] >= s
  BY DEF StreamOf
<1>3. \A u \in Announced(q) \cap Users : s <= g[u]
  BY <1>2 DEF Announced, StreamOf
<1>4. StreamOf(p, TRUE, n, w, g, 0)
  <2>1. <<>> \in Seq([user : Users \ Gone, version : Nat \ {0}])
    OBVIOUS
  <2> QED BY <1>1, <2>1 DEF StreamOf
<1> QED BY <1>1, <1>2, <1>3, <1>4

-------------------------------------------------------------------------------
(* What is on its way stays so                                                *)

\* What is fresh with N on its way is so with more on its way.
LEMMA FreshMore ==
    ASSUME NEW c, NEW N, NEW M, NEW w, Fresh(c, N, w), N \subseteq M
    PROVE  Fresh(c, M, w)
BY DEF Fresh

\* Refreshes of the requests in T, and later changes.
LEMMA ComingMore ==
    ASSUME NEW q, NEW R, NEW w, NEW g, NEW T, R \subseteq T, NEW g2, g \in [Users -> Nat], g2 \in [Users -> Nat],
           \A u \in Users : g[u] <= g2[u], \A r \in R : r.since \in Nat
    PROVE  Coming(q, R, w, g) \subseteq Coming(q, T, w, g2)
<1>1. ASSUME NEW u \in Users, NEW r \in R, Refreshes(r, u, w, g) PROVE Refreshes(r, u, w, g2)
  <2>1. r.since <= g[u] => r.since <= g2[u]
    OBVIOUS
  <2> QED BY <1>1, <2>1 DEF Refreshes
<1> QED BY <1>1 DEF Coming

\* A version changes: the others' are on their way as before.
LEMMA ComingOthers ==
    ASSUME NEW q, NEW p, NEW R, NEW w, NEW g, NEW w2, NEW g2, NEW u,
           Announced(q) \subseteq Announced(p),
           \A x \in Users : x # u => w2[x] = w[x] /\ g2[x] = g[x]
    PROVE  Coming(q, R, w, g) \ {u} \subseteq Coming(p, R, w2, g2)
<1>1. ASSUME NEW x \in Users, x # u, NEW r \in R, Refreshes(r, x, w, g) PROVE Refreshes(r, x, w2, g2)
  BY <1>1 DEF Refreshes
<1> QED BY <1>1 DEF Coming

\* At the log-in nothing is on its way, and the profile of the user is the server's.
LEMMA ProfilesInitNews ==
    ASSUME ProfilesInit
    PROVE  News
<1> DEFINE one == [u \in Users |-> 1]
           zero == [u \in Users |-> 0]
           mine == [u \in Users |-> IF u = Me THEN 1 ELSE 0]
<1>1. /\ server = [version |-> one, changed |-> zero] /\ stream.up = TRUE /\ stream.outages = 0
      /\ stream.events = <<>> /\ users = mine /\ avatar = mine /\ since = 0 /\ requests = {}
      /\ service.pictures = {} /\ lapses = NoLapses
  BY DEF ProfilesInit
<1>2. server.version = one /\ server.changed = zero
  BY <1>1
<1>3. /\ one \in [Users -> Nat \ {0}] /\ zero \in [Users -> Nat] /\ mine \in [Users -> Nat]
      /\ \A u \in Users : zero[u] = 0 /\ one[u] = 1 /\ mine[u] # 0 => u = Me /\ mine[u] = 1
      /\ \A u \in Users : zero[u] = 0 /\ one[u] = 1 /\ (u = Me => mine[u] = 1)
  OBVIOUS
<1> HIDE DEF one, zero, mine
<1>4. StreamNews
  <2>1. EventsOf(<<>>, one)
    BY DEF EventsOf
  <2>2. <<>> \in Seq([user : Users \ Gone, version : Nat \ {0}])
    OBVIOUS
  <2>3. StreamOf(<<>>, TRUE, 0, one, zero, 0)
    BY <1>3, <2>1, <2>2 DEF StreamOf
  <2>4. stream = StreamRecord(TRUE, 0, <<>>) /\ server = ServerRecord(one, zero)
    BY <1>1, Zenon DEF StreamRecord, ServerRecord, ProfilesInit
  <2>5. stream.up \in BOOLEAN
    BY <1>1
  <2> QED BY <1>1, <1>2, <2>3, <2>4, <2>5, Zenon DEF StreamNews
<1>5. RepliesOf(requests, server.version)
  BY <1>1 DEF RepliesOf
<1>6. lapses = LapsesOf({}, {}, {}, {}, {Me})
  BY <1>1, Zenon DEF NoLapses, LapsesOf
<1>7. /\ IsLapses(lapses) /\ lapses.late = {} /\ lapses.unrefreshed = {} /\ lapses.wanted = {Me}
  BY <1>6, LapsesIs
<1>8. IsService(service)
  BY ProfilesInitBooks, ClientParts DEF Books, Kept
<1>9. Pictures(client)
  <2>1. \A u \in Users : mine[u] # 0 => u \notin Gone
    BY <1>3, ProfilesAssumption DEF ProfilesAssumption
  <2>2. \A u \in {Me} \cap Users : Pictured(client, u)
    BY <1>1, <1>3, ClientParts DEF Pictured
  <2> QED BY <1>1, <1>3, <1>7, <1>8, <2>1, <2>2, ClientParts DEF Pictures, PicturesBut
<1>10. Fresh(client, Way, server.version)
  <2>1. \A u \in Users : users[u] # 0 => users[u] = server.version[u]
    BY <1>1, <1>2, <1>3
  <2> QED BY <2>1, ClientParts DEF Fresh
<1> QED BY <1>4, <1>5, <1>9, <1>10 DEF News

\* What News says of the server and the stream.
LEMMA NewsMeans ==
    ASSUME News
    PROVE  /\ server.version \in [Users -> Nat \ {0}] /\ server.changed \in [Users -> Nat]
           /\ stream.outages \in Nat /\ stream.events \in Seq([user : Users \ Gone, version : Nat \ {0}])
           /\ \A r \in requests : r.since \in Nat
           /\ \A u \in Users : server.changed[u] <= stream.outages
BY DEF News, StreamNews, StreamOf, RepliesOf

\* The profiles stay as they are, and so does the server; requests that tell nothing are made.
LEMMA SameNewsStep ==
    ASSUME News, NEW c, client' = c, Pictures(c), SameProfiles(client, c),
           server' = server, stream' = stream, since' = since,
           NEW M, requests' = requests \cup M,
           \A r \in M : r.since \in Nat /\ r.batch \subseteq Users /\ DOMAIN r.reply = {}
    PROVE  News'
<1>1. StreamNews'
  BY Zenon DEF News, StreamNews
<1>2. RepliesOf(requests', server.version)
  BY DEF News, RepliesOf
<1>3. Way \subseteq Way'
  <2>1. \A u \in Users : server.changed[u] <= server.changed[u]
    BY NewsMeans
  <2>2. requests \subseteq requests'
    OBVIOUS
  <2> DEFINE q == stream.events
             w == server.version
             g == server.changed
  <2>3. g \in [Users -> Nat] /\ \A r \in requests : r.since \in Nat
    BY NewsMeans
  <2>4. Way = Coming(q, requests, w, g) /\ Way' = Coming(q, requests', w, g)
    BY Zenon DEF Way
  <2> HIDE DEF q, w, g
  <2> QED BY <2>1, <2>2, <2>3, <2>4, ComingMore DEF g
<1>4. Fresh(c, Way, server.version)
  BY SameProfilesFresh DEF News
<1>5. Fresh(c, Way', server.version)
  <2> HIDE DEF Way
  <2> QED BY <1>3, <1>4, FreshMore
<1> QED BY <1>1, <1>2, <1>5 DEF News

-------------------------------------------------------------------------------
(* The steps                                                                  *)

\* A view opens: the profiles stay as they are.
LEMMA OpenNews ==
    ASSUME Books, News, Open
    PROVE  News'
<1>1. PICK v \in Views, shown \in Layouts :
        /\ views.left[v] = 0 /\ Becomes(Show(client, [w \in {v} |-> shown])) /\ requests' = requests
        /\ server' = server /\ stream' = stream /\ since' = since
  BY Zenon DEF Open
<1> DEFINE D == {v}
           laid == [w \in {v} |-> shown]
           c == Show(client, laid)
           M == {}
<1>2. laid \in [D -> SUBSET Users]
  BY ProfilesAssumption DEF ProfilesAssumption
<1> HIDE DEF laid, D
<1>3. Pictures(c) /\ SameProfiles(client, c)
  BY <1>2, ShowPictures DEF News
<1>4. Becomes(c)
  BY <1>1 DEF laid
<1> HIDE DEF c
<1>5. client' = c
  BY <1>3, <1>4, BecomesIs DEF Pictures, PicturesBut
<1>6. requests' = requests \cup M /\ \A r \in M : r.since \in Nat /\ r.batch \subseteq Users /\ DOMAIN r.reply = {}
  BY <1>1
<1> HIDE DEF M
<1> QED BY <1>1, <1>3, <1>5, <1>6, SameNewsStep

\* A new request has no reply.
LEMMA NewTells ==
    ASSUME NEW k, NEW b
    PROVE  Request(k, b).since = 0 /\ DOMAIN Request(k, b).reply = {}
<1>1. Request(k, b).since = 0 /\ Request(k, b).reply = Unserved
  BY DEF Request
<1>2. DOMAIN Unserved = {}
  BY DEF Unserved
<1> QED BY <1>1, <1>2

\* A batch is asked for: the profiles stay as they are.
LEMMA FlushNews ==
    ASSUME Books, News, Books', flushProfiles
    PROVE  News'
<1>1. /\ users' = users /\ avatar' = avatar /\ views' = views /\ lapses' = lapses
      /\ server' = server /\ stream' = stream /\ since' = since
  BY Zenon DEF flushProfiles
<1> DEFINE c == client'
<1>2. IsService(service)
  BY ClientParts DEF Books, Kept
<1>3. service'.pictures = service.pictures /\ \E M : requests' = requests \cup M
        /\ \A r \in M : r.since \in Nat /\ r.batch \subseteq Users /\ DOMAIN r.reply = {}
  <2>1. CASE service.queued = {}
    <3>1. service' = [service EXCEPT !.scheduled = FALSE] /\ requests' = requests
      BY <2>1, Zenon DEF flushProfiles
    <3> DEFINE M == {}
    <3>2. requests' = requests \cup M
      BY <3>1
    <3>3. service'.pictures = service.pictures
      BY <1>2, <3>1 DEF IsService, ServiceOf
    <3>4. \A r \in M : r.since \in Nat /\ r.batch \subseteq Users /\ DOMAIN r.reply = {}
      OBVIOUS
    <3> HIDE DEF M
    <3> QED BY <3>2, <3>3, <3>4, Zenon
  <2>2. CASE service.queued # {}
    <3>1. PICK b \in FirstBatch(service.queued) :
            /\ service' = [service EXCEPT !.scheduled = FALSE, !.queued = service.queued \ b,
                                          !.inFlight = service.inFlight \cup b]
            /\ requests' = requests \cup {Request("profiles", b)}
      BY <2>2, Zenon DEF flushProfiles
    <3>2. service'.pictures = service.pictures
      BY <1>2, <3>1 DEF IsService, ServiceOf
    <3>3. b \subseteq Users
      BY BatchMeans, ClientParts DEF Books, Kept, BooksOf
    <3>4. \A r \in {Request("profiles", b)} : r.since \in Nat /\ r.batch \subseteq Users /\ DOMAIN r.reply = {}
      BY <3>3, NewTells, NewRequest
    <3> QED BY <3>1, <3>2, <3>4, Zenon
  <2> QED BY <2>1, <2>2
<1>4. PICK M : requests' = requests \cup M
        /\ \A r \in M : r.since \in Nat /\ r.batch \subseteq Users /\ DOMAIN r.reply = {}
  BY <1>3
<1>5. c = ClientOf(users, avatar, service', views, lapses)
  BY <1>1 DEF client, ClientOf
<1>6. IsClient(c) /\ c.users = users /\ c.avatar = avatar /\ c.service = service' /\ c.lapses = lapses
  <2> HIDE DEF c
  <2> QED BY <1>5, ClientIs
<1>7. IsService(service')
  BY <1>6 DEF Books, Kept
<1> HIDE DEF c
<1>8. \A u : Pictured(client, u) => Pictured(c, u)
  BY <1>3, <1>6, ClientParts DEF Pictured
<1>9. Pictures(c) /\ SameProfiles(client, c)
  BY <1>3, <1>6, <1>7, <1>8, ClientParts DEF News, Pictures, PicturesBut, SameProfiles
<1>10. client' = c
  BY DEF c
<1> QED BY <1>1, <1>4, <1>9, <1>10, SameNewsStep

\* A search: likewise.
LEMMA SearchNews ==
    ASSUME News, searchUsers
    PROVE  News'
<1>1. PICK u \in Sought : requests' = requests \cup {Request("search", {u})}
  BY Zenon DEF searchUsers
<1>2. client' = client /\ server' = server /\ stream' = stream /\ since' = since
  BY Zenon DEF searchUsers, client
<1>3. {u} \subseteq Users
  BY ProfilesAssumption DEF ProfilesAssumption
<1> DEFINE M == {Request("search", {u})}
           c == client
<1>4. \A r \in M : r.since \in Nat /\ r.batch \subseteq Users /\ DOMAIN r.reply = {}
  BY <1>3, NewTells, NewRequest
<1>5. requests' = requests \cup M
  BY <1>1
<1>6. client' = c /\ Pictures(c) /\ SameProfiles(client, c)
  BY <1>2 DEF News, SameProfiles
<1> HIDE DEF M, c
<1> QED BY <1>2, <1>4, <1>5, <1>6, SameNewsStep

\* A refresh that is served tells the versions the server has now, of those that changed.
LEMMA ServeNews ==
    ASSUME Books, News, ServeProfiles
    PROVE  News'
<1>1. PICK r \in requests :
        /\ ~r.served
        /\ LET found == {u \in r.batch \ Gone : server.changed[u] >= r.since}
           IN requests' = (requests \ {r}) \cup
                {[r EXCEPT !.served = TRUE, !.reply = [u \in found |-> server.version[u]]]}
  BY Zenon DEF ServeProfiles
<1> DEFINE w == server.version
           g == server.changed
           q == stream.events
           found == {u \in r.batch \ Gone : g[u] >= r.since}
           a == [u \in found |-> w[u]]
           p == [r EXCEPT !.served = TRUE, !.reply = a]
<1>2. requests' = (requests \ {r}) \cup {p}
  BY <1>1
<1>3. RequestShape(r)
  BY DEF Books, RequestsOf
<1>4. /\ w \in [Users -> Nat \ {0}] /\ g \in [Users -> Nat] /\ \A x \in requests : x.since \in Nat
  BY NewsMeans
<1>5. /\ DOMAIN a = found /\ \A u \in found : a[u] = w[u]
  OBVIOUS
<1>6. p.kind = r.kind /\ p.batch = r.batch /\ p.rest = r.rest /\ p.since = r.since /\ p.served = TRUE /\ p.reply = a
  <2> HIDE DEF a
  <2> QED BY <1>3 DEF RequestShape, IsRequest, RequestOf
<1> HIDE DEF a, p
<1>7. found \subseteq r.batch \ Gone /\ r.batch \subseteq Users
  BY <1>3 DEF RequestShape
<1>8. RepliesOf(requests', w)
  <2>1. \A u \in found : a[u] \in Nat \ {0} /\ a[u] <= w[u]
    BY <1>4, <1>5, <1>7
  <2> HIDE DEF found, w
  <2> QED BY <1>2, <1>4, <1>5, <1>6, <1>7, <2>1 DEF News, RepliesOf, w
<1>9. client' = client /\ server' = server /\ stream' = stream /\ since' = since
  BY Zenon DEF ServeProfiles, client
<1>10. StreamNews'
  BY <1>9, Zenon DEF News, StreamNews
<1>11. ASSUME NEW u \in Users, u \notin Gone, NEW x \in requests, Refreshes(x, u, w, g)
       PROVE  \E y \in requests' : Refreshes(y, u, w, g)
  <2>1. CASE x # r
    BY <1>2, <1>11, <2>1
  <2>2. CASE x = r
    <3>1. r.kind = "refresh" /\ ((u \in r.rest /\ r.since <= g[u]) \/ (u \in r.batch /\ r.since <= g[u]))
      BY <1>1, <1>11, <2>2, Zenon DEF Refreshes
    <3>2. CASE u \in r.rest /\ r.since <= g[u]
      BY <1>2, <1>6, <3>1, <3>2 DEF Refreshes
    <3>3. CASE u \in r.batch /\ r.since <= g[u]
      <4>1. u \in found
        BY <1>4, <1>11, <3>3
      <4>2. p.served /\ u \in DOMAIN p.reply /\ p.reply[u] = w[u] /\ p.kind = "refresh"
        <5> HIDE DEF found, w
        <5> QED BY <1>5, <1>6, <3>1, <4>1
      <4>3. Refreshes(p, u, w, g)
        BY <4>2, Zenon DEF Refreshes
      <4> QED BY <1>2, <4>3
    <3> QED BY <3>1, <3>2, <3>3
  <2> QED BY <2>1, <2>2
<1>12. Fresh(client, Way', w)
  <2> SUFFICES ASSUME NEW u \in Users, users[u] # 0
               PROVE  u \in lapses.late \cup lapses.unrefreshed \cup Way' \/ users[u] = w[u]
    BY ClientParts DEF Fresh
  <2>1. u \notin Gone
    BY ClientParts DEF News, Pictures, PicturesBut
  <2>2. u \in lapses.late \cup lapses.unrefreshed \cup Way \/ users[u] = w[u]
    BY ClientParts DEF News, Fresh
  <2>3. u \in Way => u \in Way'
    <3>1. Way = Coming(q, requests, w, g) /\ Way' = Coming(q, requests', w, g)
      BY <1>9, Zenon DEF Way
    <3> HIDE DEF q, w, g
    <3> QED BY <1>11, <2>1, <3>1 DEF Coming
  <2> QED BY <2>2, <2>3
<1> QED BY <1>8, <1>9, <1>10, <1>12 DEF News

\* A change: its event is on its way.
LEMMA ChangeNews ==
    ASSUME Books, News, Change
    PROVE  News'
<1>1. PICK u \in Users \ Gone :
        /\ server' = [version |-> [server.version EXCEPT ![u] = @ + 1],
                      changed |-> [server.changed EXCEPT ![u] = stream.outages]]
        /\ stream' = [stream EXCEPT !.events = Append(@, [user |-> u, version |-> server'.version[u]])]
        /\ client' = client /\ requests' = requests /\ since' = since
  BY Zenon DEF Change, client
<1> DEFINE w == server.version
           g == server.changed
           q == stream.events
           n == stream.outages
           up == stream.up
           w2 == [w EXCEPT ![u] = @ + 1]
           g2 == [g EXCEPT ![u] = n]
           e == [user |-> u, version |-> w2[u]]
           p == Append(q, e)
<1>2. server'.version = w2 /\ server'.changed = g2
  BY <1>1
<1>3. stream'.events = p /\ stream'.up = up /\ stream'.outages = n
  <2>1. stream' = [stream EXCEPT !.events = p]
    BY <1>1, <1>2
  <2>2. stream = StreamRecord(up, n, q)
    BY DEF News, StreamNews
  <2> HIDE DEF p, up, n, q
  <2> QED BY <2>1, <2>2 DEF StreamRecord
<1>4. StreamOf(q, up, n, w, g, since)
  BY DEF News, StreamNews
<1>5. w \in [Users -> Nat \ {0}] /\ g \in [Users -> Nat] /\ n \in Nat
  BY NewsMeans
<1>6. /\ w2 \in [Users -> Nat \ {0}] /\ \A x \in Users : x # u => w2[x] = w[x] /\ g2[x] = g[x]
      /\ \A x \in Users : w[x] <= w2[x]
  BY <1>5
<1> HIDE DEF w, g, q, n, up
<1>7. StreamOf(p, up, n, w2, g2, since) /\ Announced(p) = Announced(q) \cup {u}
  <2>1. w2 = NextVersion(w, u) /\ g2 = ChangedIn(g, u, n) /\ e = EventOf(u, w2[u])
    BY DEF NextVersion, ChangedIn, EventOf
  <2> HIDE DEF w2, g2, e
  <2> QED BY <1>4, <2>1, ChangeStream
<1>8. StreamNews'
  <2>1. stream' = StreamRecord(up, n, p) /\ server' = ServerRecord(w2, g2)
    <3>1. stream = StreamRecord(up, n, q)
      BY DEF News, StreamNews, up, n, q
    <3>2. stream' = [stream EXCEPT !.events = p]
      BY <1>1, <1>2 DEF q
    <3>3. server' = ServerRecord(w2, g2)
      BY <1>1 DEF ServerRecord, w, g, n
    <3> HIDE DEF p
    <3>4. stream' = StreamRecord(up, n, p)
      BY <3>1, <3>2 DEF StreamRecord
    <3> QED BY <3>3, <3>4
  <2>2. up \in BOOLEAN
    BY DEF News, StreamNews, up
  <2> HIDE DEF p, w2, g2
  <2> QED BY <1>1, <1>2, <1>3, <1>7, <2>1, <2>2, Zenon DEF StreamNews
<1>9. RepliesOf(requests, w2)
  <2> HIDE DEF w2
  <2>1. RepliesOf(requests, w)
    BY DEF News, w
  <2>2. ASSUME NEW r \in requests, NEW x \in DOMAIN r.reply PROVE r.reply[x] <= w2[x]
    <3>1. r.reply[x] \in Nat \ {0} /\ r.reply[x] <= w[x] /\ x \in Users
      BY <2>1 DEF RepliesOf, Books, RequestsOf, RequestShape
    <3> QED BY <1>5, <1>6, <3>1
  <2> QED BY <2>1, <2>2 DEF RepliesOf
<1>10. Fresh(client, Way', w2)
  <2> HIDE DEF p, w2, g2
  <2>1. Way = Coming(q, requests, w, g) /\ Way' = Coming(p, requests, w2, g2)
    BY <1>1, <1>2, <1>3, Zenon DEF Way, q, w, g
  <2>2. Way \ {u} \subseteq Way' /\ u \in Way'
    <3>1. Coming(q, requests, w, g) \ {u} \subseteq Coming(p, requests, w2, g2)
      BY <1>6, <1>7, ComingOthers
    <3> QED BY <1>7, <2>1, <3>1 DEF Coming
  <2>3. Fresh(client, Way, w)
    BY DEF News, w
  <2> HIDE DEF Way
  <2> QED BY <1>6, <2>2, <2>3 DEF Fresh
<1> HIDE DEF p, w2, g2
<1> QED BY <1>1, <1>2, <1>8, <1>9, <1>10 DEF News

\* An outage: the events may be lost, but the changes they tell fall into it.
LEMMA DisconnectNews ==
    ASSUME Books, News, onWebSocketDisconnect
    PROVE  News'
<1> DEFINE w == server.version
           g == server.changed
           q == stream.events
           n == stream.outages
           m == n + 1
           g2 == [u \in Users |-> IF \E i \in DOMAIN q : q[i].user = u THEN n + 1 ELSE g[u]]
<1>1. /\ stream.up
      /\ stream' = [stream EXCEPT !.up = FALSE, !.outages = n + 1]
      /\ server' = [server EXCEPT !.changed =
            [u \in Users |-> IF \E i \in DOMAIN q : q[i].user = u THEN n + 1 ELSE @[u]]]
      /\ since' = IF since = 0 THEN n + 1 ELSE since
      /\ client' = client /\ requests' = requests
  BY Zenon DEF onWebSocketDisconnect, client
<1>2. server' = [server EXCEPT !.changed = g2]
  BY <1>1
<1>3. stream = StreamRecord(stream.up, n, q) /\ server = ServerRecord(w, g) /\ StreamOf(q, stream.up, n, w, g, since)
  BY DEF News, StreamNews
<1>4. StreamOf(q, TRUE, n, w, g, since)
  <2>1. stream.up = TRUE
    BY <1>1 DEF News, StreamNews
  <2> QED BY <1>3, <2>1
<1>5. /\ w \in [Users -> Nat \ {0}] /\ g \in [Users -> Nat] /\ n \in Nat /\ \A r \in requests : r.since \in Nat
      /\ \A u \in Users : g[u] <= n
  BY NewsMeans
<1>6. g2 \in [Users -> Nat]
  BY <1>5
<1>7. StreamOf(q, No, m, w, g2, m) /\ since = 0 /\ \A u \in Users : g[u] <= g2[u]
  <2>1. g2 = ChangedLost(q, g, n) /\ m = n + 1
    BY DEF ChangedLost
  <2> HIDE DEF w, g, q, n, g2, m
  <2> DEFINE s == since
  <2>2. StreamOf(q, TRUE, n, w, g, s)
    BY <1>4
  <2> HIDE DEF s
  <2>3. StreamOf(q, No, m, w, g2, m)
    BY ONLY <2>1, <2>2, LostStream
  <2>5. s = 0
    BY <2>2 DEF StreamOf
  <2>4. \A u \in Users : g[u] <= g2[u]
    BY ONLY <2>1, <2>2, LostStream
  <2> QED BY <2>3, <2>4, <2>5 DEF s
<1> HIDE DEF w, g, q, n, g2
<1>8. stream' = StreamRecord(No, m, q) /\ server' = ServerRecord(w, g2) /\ since' = m
  <2> HIDE DEF m
  <2>1. stream' = [[stream EXCEPT !.up = No] EXCEPT !.outages = m]
    <3>1. stream' = [stream EXCEPT !.up = No, !.outages = m]
      BY <1>1, Zenon DEF No, m
    <3> QED BY <3>1
  <2> DEFINE u == stream.up
             x == StreamRecord(No, n, q)
  <2>2. stream = StreamRecord(u, n, q)
    BY <1>3
  <2> HIDE DEF u
  <2>3. [stream EXCEPT !.up = No] = x
    BY <2>2 DEF StreamRecord
  <2>4. [x EXCEPT !.outages = m] = StreamRecord(No, m, q)
    BY DEF StreamRecord
  <2>5. stream' = StreamRecord(No, m, q)
    BY <2>1, <2>3, <2>4
  <2>6. server' = ServerRecord(w, g2)
    BY <1>2, <1>3 DEF ServerRecord
  <2>7. since' = m
    BY <1>1, <1>7 DEF m
  <2> QED BY <2>5, <2>6, <2>7
<1>9. /\ stream'.events = q /\ stream'.outages = m /\ stream'.up = No
      /\ server'.version = w /\ server'.changed = g2
  BY <1>8 DEF StreamRecord, ServerRecord
<1>10. StreamNews'
  <2>1. StreamOf(q, No, m, w, g2, m) /\ No \in BOOLEAN
    BY <1>7 DEF No
  <2> HIDE DEF m
  <2> QED BY <1>8, <1>9, <2>1, Zenon DEF StreamNews
<1>11. RepliesOf(requests, w)
  BY DEF News, w
<1>12. Fresh(client, Way', w)
  <2>1. Way = Coming(q, requests, w, g) /\ Way' = Coming(q, requests, w, g2)
    BY <1>1, <1>9, Zenon DEF Way, q, w, g
  <2>2. requests \subseteq requests
    OBVIOUS
  <2>3. Coming(q, requests, w, g) \subseteq Coming(q, requests, w, g2)
    BY <1>5, <1>6, <1>7, <2>2, ComingMore
  <2>4. Fresh(client, Way, w)
    BY DEF News, w
  <2> HIDE DEF Way
  <2> QED BY <2>1, <2>3, <2>4, FreshMore
<1> QED BY <1>1, <1>9, <1>10, <1>11, <1>12 DEF News

\* The stream is back: a refresh reaches back to the outage, and finds what was lost.
LEMMA ConnectNews ==
    ASSUME Books, News, onWebSocketConnect
    PROVE  News'
<1> DEFINE w == server.version
           g == server.changed
           q == stream.events
           n == stream.outages
           K == {u \in Users : Known(u)}
<1>1. /\ ~stream.up /\ since' = 0 /\ client' = client /\ server' = server
      /\ \E events \in {q, <<>>} : stream' = [stream EXCEPT !.up = TRUE, !.events = events]
      /\ \E batch \in FirstBatch(K) :
            requests' = requests \cup {[Request("refresh", batch) EXCEPT !.rest = K \ batch, !.since = since]}
  BY Zenon DEF onWebSocketConnect, client
<1>2. PICK p \in {q, <<>>} : stream' = [stream EXCEPT !.up = TRUE, !.events = p]
  BY <1>1
<1>3. PICK b \in FirstBatch(K) :
        requests' = requests \cup {[Request("refresh", b) EXCEPT !.rest = K \ b, !.since = since]}
  BY <1>1
<1> DEFINE e == K \ b
           s == since
           r == [Request("refresh", b) EXCEPT !.rest = e, !.since = s]
<1>4. b \subseteq K /\ K \subseteq Users
  BY BatchMeans
<1>5. requests' = requests \cup {r}
  BY <1>3
<1>6. /\ r.kind = "refresh" /\ r.batch = b /\ r.rest = e /\ r.since = s /\ r.served = FALSE
      /\ r.reply = Unserved
  <2> HIDE DEF e, s
  <2> QED BY DEF Request
<1>7. DOMAIN r.reply = {}
  <2>1. DOMAIN Unserved = {}
    BY DEF Unserved
  <2> QED BY <1>6, <2>1
<1>8. stream = StreamRecord(stream.up, n, q) /\ server = ServerRecord(w, g) /\ StreamOf(q, stream.up, n, w, g, since)
  BY DEF News, StreamNews
<1>9. StreamOf(q, FALSE, n, w, g, s)
  <2>1. stream.up = FALSE
    BY <1>1 DEF News, StreamNews
  <2> QED BY <1>8, <2>1
<1> HIDE DEF r, e, s, K, w, g, q, n
<1>10. /\ StreamOf(p, TRUE, n, w, g, 0) /\ s \in Nat
       /\ \A u \in Announced(q) \cap Users : s <= g[u]
       /\ Announced(p) \subseteq Announced(q)
  BY <1>9, BackStream
<1>11. stream' = StreamRecord(Yes, n, p)
  <2> DEFINE u == stream.up
             x == StreamRecord(Yes, n, q)
  <2>1. stream' = [[stream EXCEPT !.up = Yes] EXCEPT !.events = p]
    <3>1. stream' = [stream EXCEPT !.up = Yes, !.events = p]
      BY <1>2, Zenon DEF Yes
    <3> QED BY <3>1
  <2>2. stream = StreamRecord(u, n, q)
    BY <1>8
  <2> HIDE DEF u
  <2>3. [stream EXCEPT !.up = Yes] = x
    BY <2>2 DEF StreamRecord
  <2>4. [x EXCEPT !.events = p] = StreamRecord(Yes, n, p)
    BY DEF StreamRecord
  <2> QED BY <2>1, <2>3, <2>4
<1>12. stream'.events = p /\ stream'.outages = n /\ stream'.up = Yes
  BY <1>11 DEF StreamRecord
<1>13. StreamNews'
  <2>1. StreamOf(p, Yes, n, w, g, 0) /\ Yes \in BOOLEAN
    BY <1>10 DEF Yes
  <2>2. server' = server /\ server'.version = w /\ server'.changed = g /\ since' = 0
    BY <1>1 DEF w, g
  <2> QED BY <1>8, <1>11, <1>12, <2>1, <2>2, Zenon DEF StreamNews
<1>14. RepliesOf(requests', w)
  <2>1. RepliesOf(requests, w)
    BY DEF News, w
  <2> QED BY <1>5, <1>6, <1>7, <1>10, <2>1 DEF RepliesOf
<1>15. ASSUME NEW u \in Users, users[u] # 0, u \in Way PROVE u \in Way'
  <2>1. Way = Coming(q, requests, w, g) /\ Way' = Coming(p, requests', w, g)
    BY <1>1, <1>12, Zenon DEF Way, q, w, g
  <2>2. CASE \E x \in requests : Refreshes(x, u, w, g)
    BY <1>5, <2>1, <2>2 DEF Coming
  <2>3. CASE u \in Announced(q)
    <3>1. s <= g[u]
      BY <1>10, <2>3
    <3>2. u \in b \/ u \in e
      BY <1>15 DEF e, K, Known
    <3>3. Refreshes(r, u, w, g)
      BY <1>6, <3>1, <3>2, Zenon DEF Refreshes
    <3> QED BY <1>5, <2>1, <3>3 DEF Coming
  <2> QED BY <1>15, <2>1, <2>2, <2>3 DEF Coming
<1>16. Fresh(client, Way', w)
  <2> SUFFICES ASSUME NEW u \in Users, users[u] # 0
               PROVE  u \in lapses.late \cup lapses.unrefreshed \cup Way' \/ users[u] = w[u]
    BY ClientParts DEF Fresh
  <2>1. u \in lapses.late \cup lapses.unrefreshed \cup Way \/ users[u] = w[u]
    BY ClientParts DEF News, Fresh, w
  <2> QED BY <1>15, <2>1
<1>17. server'.version = w
  BY <1>1 DEF w
<1> QED BY <1>1, <1>13, <1>14, <1>16, <1>17 DEF News

\* The server stays as it is.
LEMMA KeptNews ==
    ASSUME News, NEW c, client' = c, Pictures(c), server' = server, stream' = stream, since' = since,
           RepliesOf(requests', server.version), Fresh(c, Way', server.version)
    PROVE  News'
<1>1. StreamNews'
  BY Zenon DEF News, StreamNews
<1> QED BY <1>1 DEF News

\* A picture fails.
LEMMA WriteDenied ==
    ASSUME NEW l, IsLapses(l), NEW x, NEW m, m = [l EXCEPT !.denied = x]
    PROVE  m = LapsesOf(l.late, l.unrefreshed, x, l.overtaken, l.wanted)
BY DEF IsLapses, LapsesOf

\* A picture comes, of the version the profile has or of another one, or fails.
LEMMA PictureNews ==
    ASSUME Books, News, PictureAnswer
    PROVE  News'
<1>1. /\ users' = users /\ views' = views /\ requests' = requests
      /\ server' = server /\ stream' = stream /\ since' = since
      /\ \E key \in service.pictures, failed \in BOOLEAN :
            /\ service' = [service EXCEPT !.pictures = service.pictures \ {key}]
            /\ avatar' = [avatar EXCEPT ![key[1]] =
                  IF users[key[1]] = key[2] /\ ~failed THEN key[2] ELSE avatar[key[1]]]
            /\ lapses' = [lapses EXCEPT !.denied = IF failed THEN lapses.denied \cup {key} ELSE lapses.denied]
  BY Zenon DEF PictureAnswer
<1>2. PICK key \in service.pictures, failed \in BOOLEAN :
            /\ service' = [service EXCEPT !.pictures = service.pictures \ {key}]
            /\ avatar' = [avatar EXCEPT ![key[1]] =
                  IF users[key[1]] = key[2] /\ ~failed THEN key[2] ELSE avatar[key[1]]]
            /\ lapses' = [lapses EXCEPT !.denied = IF failed THEN lapses.denied \cup {key} ELSE lapses.denied]
  BY <1>1, Zenon
<1>3. /\ IsService(service) /\ IsLapses(lapses) /\ users \in [Users -> Nat] /\ avatar \in [Users -> Nat]
      /\ service.pictures \subseteq Users \X (Nat \ {0})
      /\ \A u \in Users : users[u] # 0 => u \notin Gone
      /\ \A u \in Users : avatar[u] # 0 => users[u] # 0
      /\ \A u \in lapses.wanted \cap Users : Pictured(client, u)
  BY ClientParts DEF News, Pictures, PicturesBut
<1> DEFINE k == key[1]
           version == key[2]
           P == service.pictures \ {key}
           D == IF failed THEN lapses.denied \cup {key} ELSE lapses.denied
           s == service'
           l == lapses'
           c == client'
<1>4. k \in Users /\ version \in Nat \ {0} /\ key = <<k, version>>
  BY <1>3
<1>5. IsService(s) /\ s.pictures = P
  <2> HIDE DEF P
  <2>1. s = [service EXCEPT !.pictures = P]
    BY <1>2 DEF P
  <2> HIDE DEF s
  <2>2. s = ServiceOf(service.queued, service.inFlight, service.waiters, service.scheduled, P)
    BY <1>3, <2>1, WriteService
  <2> QED BY <2>2, ServiceIs
<1>6. /\ IsLapses(l) /\ l.late = lapses.late /\ l.unrefreshed = lapses.unrefreshed /\ l.denied = D
      /\ l.overtaken = lapses.overtaken /\ l.wanted = lapses.wanted
  <2>1. l = [lapses EXCEPT !.denied = D]
    BY <1>2
  <2> HIDE DEF l, D
  <2>2. l = LapsesOf(lapses.late, lapses.unrefreshed, D, lapses.overtaken, lapses.wanted)
    BY <1>3, <2>1, WriteDenied
  <2> QED BY <2>2, LapsesIs
<1>7. /\ avatar' \in [Users -> Nat]
      /\ \A u \in Users : u # k => avatar'[u] = avatar[u]
      /\ users[k] = version /\ ~failed => avatar'[k] = version
      /\ ~(users[k] = version /\ ~failed) => avatar'[k] = avatar[k]
  BY <1>2, <1>3, <1>4
<1>8. c = ClientOf(users, avatar', s, views, l)
  BY <1>1 DEF client, ClientOf
<1> HIDE DEF s, l, c
<1>9. IsClient(c) /\ c.users = users /\ c.avatar = avatar' /\ c.service = s /\ c.lapses = l
  BY <1>8, ClientIs
<1>10. ASSUME NEW u \in c.lapses.wanted \cap Users PROVE Pictured(c, u)
  <2>1. Pictured(client, u)
    BY <1>3, <1>6, <1>9, <1>10
  <2>2. \/ avatar[u] # 0 /\ avatar[u] = users[u]
        \/ <<u, users[u]>> \in service.pictures \cup lapses.denied
        \/ u \in lapses.overtaken
    BY <2>1, ClientParts DEF Pictured
  <2>3. CASE u = k /\ users[u] = version
    <3>1. failed => <<u, users[u]>> \in D
      BY <1>4, <2>3
    <3>2. ~failed => avatar'[u] # 0 /\ avatar'[u] = users[u]
      BY <1>4, <1>7, <2>3
    <3> HIDE DEF D, k, version
    <3> QED BY <1>6, <1>9, <3>1, <3>2 DEF Pictured
  <2>4. CASE ~(u = k /\ users[u] = version)
    <3>1. <<u, users[u]>> # key
      BY <1>4, <2>4
    <3>2. avatar'[u] = avatar[u]
      BY <1>7, <2>4
    <3>3. <<u, users[u]>> \in service.pictures \cup lapses.denied => <<u, users[u]>> \in P \cup D
      BY <3>1
    <3> HIDE DEF D, P, k, version
    <3> QED BY <1>5, <1>6, <1>9, <2>2, <3>2, <3>3 DEF Pictured
  <2> QED BY <2>3, <2>4
<1>11. \A u \in Users : avatar'[u] # 0 => users[u] # 0
  BY <1>3, <1>4, <1>7
<1>12. P \subseteq Users \X (Nat \ {0})
  BY <1>3
<1> HIDE DEF P, D, k, version
<1>13. Pictures(c)
  BY <1>3, <1>5, <1>6, <1>7, <1>9, <1>10, <1>11, <1>12 DEF Pictures, PicturesBut
<1>14. Way' = Way
  BY <1>1, Zenon DEF Way
<1>15. Fresh(c, Way', server.version)
  <2>1. Fresh(client, Way, server.version)
    BY DEF News
  <2> HIDE DEF Way
  <2> QED BY <1>6, <1>9, <1>14, <2>1, ClientParts, Zenon DEF Fresh
<1>16. RepliesOf(requests', server.version)
  BY <1>1 DEF News
<1>17. client' = c
  BY DEF c
<1> QED BY <1>1, <1>13, <1>15, <1>16, <1>17, KeptNews

\* An event: the profile is the server's, or a later one is on its way.
LEMMA UpdatedNews ==
    ASSUME Books, News, UserUpdatedEvent
    PROVE  News'
<1> DEFINE w == server.version
           g == server.changed
           q == stream.events
           n == stream.outages
           h == Head(q)
           p == Tail(q)
           d == Updated(client, h)
<1>1. /\ stream.up /\ q # <<>> /\ stream' = [stream EXCEPT !.events = p]
      /\ Becomes(d) /\ server' = server /\ since' = since /\ requests' = requests
  BY Zenon DEF UserUpdatedEvent
<1>2. stream = StreamRecord(stream.up, n, q) /\ StreamOf(q, stream.up, n, w, g, since) /\ server = ServerRecord(w, g)
  BY DEF News, StreamNews
<1>3. stream.up = TRUE
  BY <1>1 DEF News, StreamNews
<1>4. StreamOf(q, TRUE, n, w, g, since)
  BY <1>2, <1>3
<1>5. /\ Pictures(client) /\ Fresh(client, Way, w)
  BY DEF News
<1> HIDE DEF w, g, q, n
<1>6. /\ StreamOf(p, TRUE, n, w, g, since)
      /\ h.user \in Users \ Gone /\ h.version \in Nat \ {0}
      /\ Announced(q) = Announced(p) \cup {h.user}
      /\ h.user \notin Announced(p) => h.version = w[h.user]
  BY <1>1, <1>4, TailStream
<1> HIDE DEF h, p
<1>7. stream' = StreamRecord(Yes, n, p)
  <2>1. stream = StreamRecord(Yes, n, q)
    BY <1>2, <1>3 DEF Yes
  <2> QED BY <1>1, <2>1 DEF StreamRecord
<1>8. stream'.events = p /\ stream'.outages = n /\ stream'.up = Yes
  BY <1>7 DEF StreamRecord
<1>9. StreamNews'
  <2>1. StreamOf(p, Yes, n, w, g, since) /\ Yes \in BOOLEAN
    BY <1>6 DEF Yes
  <2>2. server'.version = w /\ server'.changed = g
    BY <1>1 DEF w, g
  <2> QED BY <1>1, <1>2, <1>7, <1>8, <2>1, <2>2, Zenon DEF StreamNews
<1>10. /\ Pictures(d) /\ d.lapses.late = lapses.late \ {h.user}
       /\ d.lapses.unrefreshed = lapses.unrefreshed \ {h.user}
       /\ \A x \in Users : d.users[x] = IF x = h.user THEN h.version ELSE users[x]
  BY <1>5, <1>6, UpdatedPictures, ClientParts
<1> HIDE DEF d
<1>11. client' = d
  BY <1>1, <1>10, BecomesIs DEF Pictures, PicturesBut
<1>12. Way = Coming(q, requests, w, g) /\ Way' = Coming(p, requests, w, g)
  BY <1>1, <1>8, Zenon DEF Way, q, w, g
<1>13. Fresh(d, Way', w)
  <2> SUFFICES ASSUME NEW u \in Users, d.users[u] # 0
               PROVE  u \in d.lapses.late \cup d.lapses.unrefreshed \cup Way' \/ d.users[u] = w[u]
    BY DEF Fresh
  <2>1. CASE u = h.user
    <3>1. d.users[u] = h.version
      BY <1>10, <2>1
    <3>2. u \in Announced(p) => u \in Way'
      BY <1>12 DEF Coming
    <3> QED BY <1>6, <2>1, <3>1, <3>2
  <2>2. CASE u # h.user
    <3>1. d.users[u] = users[u]
      BY <1>10, <2>2
    <3>2. u \in lapses.late \cup lapses.unrefreshed \cup Way \/ users[u] = w[u]
      BY <1>5, <3>1, ClientParts DEF Fresh
    <3>3. u \in Way => u \in Way'
      BY <1>6, <1>12, <2>2 DEF Coming
    <3> QED BY <1>10, <2>2, <3>1, <3>2, <3>3
  <2> QED BY <2>1, <2>2
<1>14. RepliesOf(requests, w)
  BY DEF News, w
<1>15. server'.version = w
  BY <1>1 DEF w
<1> QED BY <1>1, <1>9, <1>10, <1>11, <1>13, <1>14, <1>15 DEF News

\* What is asked for after an answer: the rest of a refresh, and nothing has been told yet.
LEMMA NextTells ==
    ASSUME NEW r, NEW M \in NextBatch(r)
    PROVE  /\ \A x \in M : x.since = r.since /\ DOMAIN x.reply = {}
           /\ \A u \in r.rest : \E x \in M :
                x.kind = "refresh" /\ x.since = r.since /\ ~x.served /\ (u \in x.batch \/ u \in x.rest)
<1>1. CASE r.rest = {}
  BY <1>1 DEF NextBatch
<1>2. CASE r.rest # {}
  <2>1. PICK b \in FirstBatch(r.rest) :
          M = {[Request("refresh", b) EXCEPT !.rest = r.rest \ b, !.since = r.since]}
    BY <1>2 DEF NextBatch
  <2> DEFINE e == r.rest \ b
             s == r.since
             p == [Request("refresh", b) EXCEPT !.rest = e, !.since = s]
  <2>2. M = {p}
    BY <2>1
  <2>3. \A u \in r.rest : u \in b \/ u \in e
    OBVIOUS
  <2> HIDE DEF e, s
  <2>4. p.kind = "refresh" /\ p.batch = b /\ p.rest = e /\ p.since = s /\ p.served = FALSE /\ p.reply = Unserved
    BY DEF Request
  <2>5. DOMAIN Unserved = {}
    BY DEF Unserved
  <2> HIDE DEF p
  <2> QED BY <2>2, <2>3, <2>4, <2>5 DEF s
<1> QED BY <1>1, <1>2

\* The timer leaves profiles and pictures alone.
LEMMA ReschedulePictures ==
    ASSUME NEW c, Pictures(c)
    PROVE  Pictures(Reschedule(c)) /\ SameProfiles(c, Reschedule(c))
<1> DEFINE h == c.service.scheduled \/ c.service.queued # {}
           x == [c.service EXCEPT !.scheduled = h]
           d == Reschedule(c)
<1>1. d = [c EXCEPT !.service = x]
  BY DEF Reschedule
<1>2. IsClient(c) /\ IsService(c.service)
  BY DEF Pictures, PicturesBut
<1> HIDE DEF d, h
<1>3. x = ServiceOf(c.service.queued, c.service.inFlight, c.service.waiters, h, c.service.pictures)
  BY <1>2, WriteService
<1> HIDE DEF x
<1>4. IsService(x) /\ x.pictures = c.service.pictures
  BY <1>3, ServiceIs
<1>5. d = ClientOf(c.users, c.avatar, x, c.views, c.lapses)
  BY <1>1, <1>2, WriteClient
<1>6. IsClient(d) /\ d.users = c.users /\ d.avatar = c.avatar /\ d.service = x /\ d.lapses = c.lapses
  BY <1>5, ClientIs
<1>7. \A u : Pictured(c, u) => Pictured(d, u)
  BY <1>4, <1>6 DEF Pictured
<1>8. Pictures(d) /\ SameProfiles(c, d)
  BY <1>4, <1>6, <1>7 DEF Pictures, PicturesBut, SameProfiles
<1> QED BY <1>8 DEF d

\* The client with x given up.
WithUnrefreshed(c, x) == [c EXCEPT !.lapses = [c.lapses EXCEPT !.unrefreshed = x]]

\* A refresh fails: the users of its batch are given up, and nothing else changes.
LEMMA UnrefreshedPictures ==
    ASSUME NEW c, Pictures(c), NEW x, NEW d, d = WithUnrefreshed(c, x)
    PROVE  /\ Pictures(d) /\ d.users = c.users /\ d.lapses.late = c.lapses.late
           /\ d.lapses.unrefreshed = x
<1> DEFINE y == [c.lapses EXCEPT !.unrefreshed = x]
<1>1. IsClient(c) /\ IsLapses(c.lapses)
  BY DEF Pictures, PicturesBut
<1>2. y = LapsesOf(c.lapses.late, x, c.lapses.denied, c.lapses.overtaken, c.lapses.wanted)
  BY <1>1, WriteLapse
<1>3. d = ClientOf(c.users, c.avatar, c.service, c.views, y)
  <2>1. d = [c EXCEPT !.lapses = y]
    BY DEF WithUnrefreshed
  <2> HIDE DEF y
  <2> QED BY <1>1, <2>1, WriteClient
<1> HIDE DEF y
<1>4. IsClient(d) /\ d.users = c.users /\ d.avatar = c.avatar /\ d.service = c.service /\ d.lapses = y
  BY <1>3, ClientIs
<1>5. /\ IsLapses(y) /\ y.late = c.lapses.late /\ y.unrefreshed = x /\ y.denied = c.lapses.denied
      /\ y.overtaken = c.lapses.overtaken /\ y.wanted = c.lapses.wanted
  BY <1>2, LapsesIs
<1>6. \A u : Pictured(c, u) => Pictured(d, u)
  BY <1>4, <1>5 DEF Pictured
<1> QED BY <1>4, <1>5, <1>6 DEF Pictures, PicturesBut

\* An answer. What a refresh was to tell of a user it has told now, asks for in the next batch, or
\* gives up with a failure.
LEMMA AnsweredNews ==
    ASSUME Books, News, Answered
    PROVE  News'
<1>1. PICK r \in requests, failed \in BOOLEAN :
        /\ IF failed THEN budget.failures > 0 ELSE r.served
        /\ LET returned == IF failed THEN {} ELSE DOMAIN r.reply
           IN IF r.kind = "profiles" THEN ProfilesAnswer(r, returned)
              ELSE KnownAnswer(r, returned, failed)
        /\ \E more \in NextBatch(r) : requests' = (requests \ {r}) \cup more
        /\ server' = server /\ stream' = stream /\ since' = since
  BY Zenon DEF Answered
<1> DEFINE returned == IF failed THEN {} ELSE DOMAIN r.reply
           w == server.version
           g == server.changed
           q == stream.events
<1>2. /\ r.kind = "profiles" => ProfilesAnswer(r, returned)
      /\ r.kind # "profiles" => KnownAnswer(r, returned, failed)
  BY <1>1, Zenon
<1>3. ~failed => r.served
  BY <1>1
<1>4. PICK M \in NextBatch(r) : requests' = (requests \ {r}) \cup M
  BY <1>1
<1>5. /\ RequestShape(r) /\ r.since \in Nat /\ DOMAIN r.reply \subseteq r.batch \ Gone /\ r.batch \subseteq Users
      /\ \A u \in DOMAIN r.reply : r.reply[u] \in Nat \ {0} /\ r.reply[u] =< w[u]
  BY DEF News, RepliesOf, Books, RequestsOf, RequestShape
<1>6. /\ \A x \in M : x.since = r.since /\ DOMAIN x.reply = {} /\ x.batch \subseteq Users
      /\ \A u \in r.rest : \E x \in M :
            x.kind = "refresh" /\ x.since = r.since /\ ~x.served /\ (u \in x.batch \/ u \in x.rest)
  BY <1>5, NextTells, NextBatchMeans DEF RequestShape
<1>7. returned \subseteq DOMAIN r.reply /\ (failed => returned = {}) /\ (~failed => returned = DOMAIN r.reply)
  OBVIOUS
<1> HIDE DEF returned
<1>8. /\ returned \subseteq Users \ Gone
      /\ \A u \in returned : r.reply[u] \in Nat \ {0} /\ r.reply[u] =< server.version[u]
  BY <1>5, <1>7
<1>9. /\ server.version \in [Users -> Nat \ {0}]
      /\ \A u \in Users : (\E i \in DOMAIN stream.events : stream.events[i].user = u) => u \in Announced(q)
  <2>1. DOMAIN q = 1..Len(q)
    BY NewsMeans
  <2> QED BY <2>1, NewsMeans DEF Announced
<1>10. /\ Way = Coming(q, requests, w, g) /\ Way' = Coming(q, requests', w, g)
  BY <1>1, Zenon DEF Way
<1>11. Announced(q) \subseteq Way /\ Announced(q) \subseteq Way'
  <2> HIDE DEF q, w, g
  <2> QED BY <1>10 DEF Coming
<1>12. /\ Kept(client) /\ Pictures(client) /\ Fresh(client, Way, server.version)
  BY DEF Books, News
<1>13. RepliesOf(requests', server.version)
  BY <1>4, <1>5, <1>6 DEF News, RepliesOf
\* Of a refresh, what is not told now is asked for.
<1>14. ASSUME NEW u \in Users, u \in Way, u \notin Way'
       PROVE  /\ r.kind = "refresh"
              /\ \/ u \in r.batch /\ ~r.served
                 \/ r.served /\ u \in DOMAIN r.reply /\ r.reply[u] = w[u]
  <2> HIDE DEF q, w, g
  <2>1. u \notin Announced(q)
    BY <1>11, <1>14
  <2>2. PICK x \in requests : Refreshes(x, u, w, g)
    BY <1>10, <1>14, <2>1 DEF Coming
  <2>3. \A y \in requests' : ~Refreshes(y, u, w, g)
    BY <1>10, <1>14 DEF Coming
  <2>4. x = r
    BY <1>4, <2>2, <2>3
  <2>5. ASSUME u \in r.rest, r.since <= g[u] PROVE FALSE
    <3>1. PICK y \in M : y.kind = "refresh" /\ y.since = r.since /\ ~y.served /\ (u \in y.batch \/ u \in y.rest)
      BY <1>6, <2>5
    <3>2. y \in requests'
      BY <1>4
    <3> QED BY <2>3, <2>5, <3>1, <3>2 DEF Refreshes
  <2> QED BY <2>2, <2>4, <2>5 DEF Refreshes
<1> HIDE DEF w, g, q
<1>15. CASE r.kind = "profiles"
  <2>1. PICK first \in SetToSeqs(returned), last \in SetToSeqs(r.batch \ returned) :
          Becomes(Reschedule(Finish(r, returned, first \o last)))
    BY <1>2, <1>15, Zenon DEF ProfilesAnswer
  <2> DEFINE order == first \o last
             d == Finish(r, returned, order)
             c == Reschedule(d)
             N == Way
  <2>2. order \in Seq(Users)
    <3> DEFINE A == returned
               B == r.batch \ returned
    <3>1. A \subseteq Users /\ B \subseteq Users
      BY <1>5, <1>7
    <3>2. first \in SetToSeqs(A) /\ last \in SetToSeqs(B)
      BY <2>1
    <3> HIDE DEF A, B
    <3> QED BY <3>1, <3>2, OrdersHold
  <2>3. Becomes(c)
    BY <2>1
  <2> HIDE DEF order
  <2>4. \A u \in Users : (\E i \in DOMAIN stream.events : stream.events[i].user = u) => u \in N
    BY <1>9, <1>11
  <2>5. Fresh(client, N, server.version)
    BY <1>12
  <2> HIDE DEF N
  <2>6. Pictures(d) /\ Fresh(d, N, server.version)
    BY <1>8, <1>9, <1>12, <2>2, <2>4, <2>5, FinishNews
  <2> HIDE DEF d
  <2>7. Pictures(c) /\ SameProfiles(d, c)
    BY <2>6, ReschedulePictures
  <2> HIDE DEF c
  <2>8. client' = c
    BY <2>3, <2>7, BecomesIs DEF Pictures, PicturesBut
  <2>9. Fresh(c, N, server.version)
    BY <2>6, <2>7, SameProfilesFresh
  <2>10. N \cap Users \subseteq Way'
    <3>1. r.kind # "refresh"
      BY <1>15
    <3> QED BY <1>14, <3>1 DEF N
  <2>11. Fresh(c, Way', server.version)
    BY <2>9, <2>10 DEF Fresh
  <2> QED BY <1>1, <1>13, <2>7, <2>8, <2>11, KeptNews
<1>16. CASE r.kind # "profiles"
  <2> DEFINE unrefreshed == IF failed /\ r.kind = "refresh" THEN r.batch ELSE {}
             l == Take(client, r, returned)
             x == l.lapses.unrefreshed \cup unrefreshed
             y == [l.lapses EXCEPT !.unrefreshed = x]
             c == [l EXCEPT !.lapses = y]
             N == Way
             K == Way' \cup unrefreshed
  <2>1. Becomes(c)
    <3>1. Becomes([l EXCEPT !.lapses.unrefreshed = @ \cup unrefreshed])
      BY <1>2, <1>16, Zenon DEF KnownAnswer
    <3> HIDE DEF l, unrefreshed
    <3>2. [l EXCEPT !.lapses.unrefreshed = @ \cup unrefreshed] = c
      OBVIOUS
    <3> QED BY <3>1, <3>2
  <2>2. Pictures(l)
    BY <1>8, <1>12, TakePictures
  <2>3. failed /\ r.kind = "refresh" => unrefreshed = r.batch
    OBVIOUS
  <2>4. N \ returned \subseteq K
    <3> SUFFICES ASSUME NEW u \in Way, u \notin returned, u \notin Way' PROVE u \in unrefreshed
      OBVIOUS
    <3>1. u \in Users
      BY <1>9, <1>10, <1>11 DEF Coming
    <3>3. r.kind = "refresh" /\ ((u \in r.batch /\ ~r.served) \/ (r.served /\ u \in DOMAIN r.reply))
      BY <1>14, <3>1
    <3>4. failed /\ u \in r.batch
      BY <1>3, <1>5, <1>7, <3>3
    <3> QED BY <2>3, <3>3, <3>4
  <2>5. ASSUME NEW u \in returned, u \in N, u \notin K PROVE r.reply[u] = server.version[u]
    <3>1. u \in Way /\ u \notin Way' /\ u \in Users /\ r.served
      BY <1>3, <1>7, <1>8, <2>5
    <3>2. (u \in r.batch /\ ~r.served) \/ (r.served /\ u \in DOMAIN r.reply /\ r.reply[u] = w[u])
      BY <1>14, <3>1
    <3> QED BY <3>1, <3>2 DEF w
  <2>6. \A u \in returned : (\E i \in DOMAIN stream.events : stream.events[i].user = u) => u \in K
    BY <1>8, <1>9, <1>11
  <2>7. Fresh(client, N, server.version)
    BY <1>12
  <2>8. \A u : u \in K => u \in Way' \/ u \in unrefreshed
    OBVIOUS
  <2> HIDE DEF N, K, unrefreshed
  <2>9. Fresh(l, K, server.version)
    BY <1>8, <1>9, <1>12, <2>4, <2>5, <2>6, <2>7, TakeFresh
  <2> HIDE DEF l
  <2>10. \A u : u \in l.lapses.unrefreshed \/ u \in unrefreshed => u \in x
    OBVIOUS
  <2>14. c = WithUnrefreshed(l, x)
    BY DEF WithUnrefreshed
  <2> HIDE DEF x, y, c
  <2>11. /\ Pictures(c) /\ c.users = l.users /\ c.lapses.late = l.lapses.late /\ c.lapses.unrefreshed = x
    BY <2>2, <2>14, UnrefreshedPictures
  <2>12. Fresh(c, Way', server.version)
    <3> SUFFICES ASSUME NEW u \in Users, c.users[u] # 0
                 PROVE  u \in c.lapses.late \cup c.lapses.unrefreshed \cup Way' \/ c.users[u] = server.version[u]
      BY DEF Fresh
    <3>1. u \in l.lapses.late \cup l.lapses.unrefreshed \cup K \/ c.users[u] = server.version[u]
      BY <2>9, <2>11 DEF Fresh
    <3> QED BY <2>8, <2>10, <2>11, <3>1
  <2>13. client' = c
    BY <2>1, <2>11, BecomesIs DEF Pictures, PicturesBut
  <2> QED BY <1>1, <1>13, <2>11, <2>12, <2>13, KeptNews
<1> QED BY <1>15, <1>16

\* Every step keeps the news, given that the books are kept.
LEMMA ProfilesStepNews == Books /\ Books' /\ News /\ [ProfilesNext]_profilesVars => News'
<1> SUFFICES ASSUME Books, Books', News, [ProfilesNext]_profilesVars PROVE News'
  OBVIOUS
<1>1. CASE ProfilesNext
  BY <1>1, OpenNews, FlushNews, SearchNews, ServeNews, ChangeNews, AnsweredNews, PictureNews,
     UpdatedNews, DisconnectNews, ConnectNews, Zenon DEF ProfilesNext
<1>2. CASE UNCHANGED profilesVars
  <2>1. client' = client /\ server' = server /\ stream' = stream /\ since' = since /\ requests' = requests
    BY <1>2 DEF profilesVars, client
  <2> QED BY <2>1, Zenon DEF News, StreamNews, Way
<1> QED BY <1>1, <1>2

\* When nothing is on its way.
LEMMA NewsSettle == News => ProfilesSettle
<1> SUFFICES ASSUME News, Quiet, NEW u \in Users, Known(u)
             PROVE  /\ u \in lapses.late \cup lapses.unrefreshed \/ users[u] = server.version[u]
                    /\ \/ u \notin lapses.wanted \/ avatar[u] = users[u]
                       \/ <<u, users[u]>> \in lapses.denied \/ u \in lapses.overtaken
  BY DEF ProfilesSettle
<1>1. stream.events = <<>> /\ requests = {} /\ service.pictures = {}
  BY DEF Quiet
<1>2. Way = {}
  BY <1>1 DEF Way, Coming, Announced
<1>3. u \in lapses.late \cup lapses.unrefreshed \/ users[u] = server.version[u]
  <2>1. Fresh(client, {}, server.version)
    BY <1>2 DEF News
  <2> QED BY <2>1, ClientParts DEF Fresh, Known
<1>4. u \in lapses.wanted => Pictured(client, u)
  BY ClientParts DEF News, Pictures, PicturesBut
<1>5. u \in lapses.wanted => avatar[u] = users[u] \/ <<u, users[u]>> \in lapses.denied \/ u \in lapses.overtaken
  BY <1>1, <1>4, ClientParts DEF Pictured
<1> QED BY <1>3, <1>5

\* The profiles of the known users, and the pictures that are wanted: whatever changes on the
\* server, through outages that lose the events of it, and however answers, pictures and events
\* overtake each other, when nothing is on its way they are the server's. What the code gives up
\* (an answer overtaken by an event, a failed refresh, a failed picture and a first picture
\* whose version changed) is named in the property.
THEOREM EveryProfileSettles == ProfilesSpec => []ProfilesSettle
<1>1. ProfilesInit => Books /\ News
  BY ProfilesInitBooks, ProfilesInitNews
<1>2. (Books /\ News) /\ [ProfilesNext]_profilesVars => (Books /\ News)'
  BY ProfilesStepBooks, ProfilesStepNews
<1>3. Books /\ News => ProfilesSettle
  BY NewsSettle
<1> QED BY <1>1, <1>2, <1>3, PTL DEF ProfilesSpec

\* The types follow from both parts of the invariant.
LEMMA BooksTyped == Books /\ News => ProfilesTypeOK
<1> SUFFICES ASSUME Books, News PROVE ProfilesTypeOK
  OBVIOUS
<1>1. BooksOf(service.queued, service.inFlight, service.waiters, views.shown, views.left)
  BY ClientParts DEF Books, Kept
<1>2. /\ users \in [Users -> Nat] /\ avatar \in [Users -> Nat]
      /\ service.pictures \subseteq Users \X (Nat \ {0})
  BY ClientParts DEF News, Pictures, PicturesBut
<1>3. IsFiniteSet(Users)
  BY ProfilesAssumption DEF ProfilesAssumption
<1>4. ASSUME NEW v \in Views PROVE views.left[v] \in 0..Cardinality(Users)
  <2>1. views.left[v] = Cardinality(Owed(service.waiters, v)) /\ Owed(service.waiters, v) \subseteq Users
    BY <1>1 DEF BooksOf, Owed
  <2>2. IsFiniteSet(Owed(service.waiters, v)) /\ Cardinality(Owed(service.waiters, v)) <= Cardinality(Users)
    BY <1>3, <2>1, FS_Subset
  <2>3. Cardinality(Owed(service.waiters, v)) \in Nat /\ Cardinality(Users) \in Nat
    BY <1>3, <2>2, FS_CardinalityType
  <2> QED BY <2>1, <2>2, <2>3
<1>5. views.left \in [Views -> 0..Cardinality(Users)]
  BY <1>1, <1>4 DEF BooksOf
<1>6. since \in 0..stream.outages
  BY DEF News, StreamNews, StreamOf
<1>7. DOMAIN service.waiters = Users
  BY <1>1 DEF BooksOf
<1> QED BY <1>2, <1>5, <1>6, <1>7 DEF ProfilesTypeOK

\* The types of the service's state: the answers a view waits for are at most as many as
\* there are users, and the outage a refresh reaches back to is one that was.
THEOREM ProfilesTyped == ProfilesSpec => []ProfilesTypeOK
<1>1. ProfilesInit => Books /\ News
  BY ProfilesInitBooks, ProfilesInitNews
<1>2. (Books /\ News) /\ [ProfilesNext]_profilesVars => (Books /\ News)'
  BY ProfilesStepBooks, ProfilesStepNews
<1>3. Books /\ News => ProfilesTypeOK
  BY BooksTyped
<1> QED BY <1>1, <1>2, <1>3, PTL DEF ProfilesSpec

=============================================================================
