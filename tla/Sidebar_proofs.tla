---------------------------- MODULE Sidebar_proofs ----------------------------
(***************************************************************************)
(* Invariance proofs for the two components the sidebar stands on.         *)
(*                                                                         *)
(* ChannelReads: type correctness, and that a channel is shown unread      *)
(* exactly when the server says so once everything has arrived, for every  *)
(* value of the bounds and every configuration and preference.             *)
(*                                                                         *)
(* Navigation: type correctness, that the window comes to show what the    *)
(* user chose last, and that the view never moves for anything older, for  *)
(* any channels, posts and threads.                                        *)
(***************************************************************************)
EXTENDS ChannelReads, Navigation, FiniteSetTheorems, SequenceTheorems, TLAPS

-------------------------------------------------------------------------------
(* The inductive invariants.                                                   *)

Clean == ~missed /\ ~crossed /\ faults = 0

Viewing == \E c \in calls : c.kind = "view"
Marking == \E c \in calls : c.kind = "unread"
ViewComing == \E k \in DOMAIN stream : stream[k] = Viewed

\* An event after which no view is on its way.
Past(k) == \A j \in k .. Len(stream) : stream[j] # Viewed

\* Totals and memberships are what the server had at some time; which posts count was
\* decided from what is known; a request that failed was counted as a fault.
CallsNamed == \A c \in calls : c.kind = "unread" => c.post \in 1 .. Len(posts)
Totalled ==
    /\ channel.known <=> channels.stage = "done"
    /\ channels.stage = "answered" =>
        channels.t.all <= Len(posts) /\ channels.t.root = RootsIn(channels.t.all)
    /\ channel.known => channel.all <= Len(posts) /\ channel.root = RootsIn(channel.all)
Decided ==
    /\ entry.rootMode => entry.tracked /\ channel.known /\ collapsed.enabled /\ entry.hasReadRoot
    /\ entry.runtimeUnread \/ entry.runtimeReplyUnread => entry.tracked /\ channel.known
    /\ members.stage = "failed" => faults > 0
    /\ members.stage = "done" /\ faults = 0 => entry.tracked /\ entry.hasReadRoot
Shape == TypeOK /\ CallsNamed /\ Totalled /\ Decided

TotalsLoaded ==
    /\ channels.stage = "done" /\ members.stage = "done"
    /\ settings["config"] = "done" /\ settings["preferences"] = "done"

\* A mark that crosses nothing is alone, comes after everything was loaded, and names a post
\* that counts.
Alone ==
    /\ marks = 0 => ~Marking
    /\ \A c \in calls : c.kind = "view" => c.state = "sent"
    /\ Clean /\ marks > 0 => TotalsLoaded
    /\ Clean => \A c \in calls : c.kind = "unread" =>
        /\ calls = {c} /\ ~ViewComing
        /\ c.state \in {"sent", "answered"}
        /\ (entry.rootMode => ~posts[c.post].reply)
        /\ c.state = "answered" => serverRead = c.post - 1

\* Whether the stored totals exceed what the entry has read.
TotalsUnread == IF entry.rootMode THEN channel.root > entry.readRoot
                ELSE channel.all > entry.readAll
Compared ==
    Clean /\ marks = 0 /\ members.stage = "done" /\ channel.known =>
        (entry.serverUnread <=> TotalsUnread)

\* The posts the client knows of by their number only.
Counted == CASE channels.stage = "sent" -> Len(posts)
             [] channels.stage = "answered" -> channels.t.all
             [] OTHER -> channel.all

\* A post behind the server's read mark is announced after the last view, or noted, or marked
\* by the user, or among the totals and not among what the entry has read.
Noted(i) == IF posts[i].reply THEN entry.runtimeReplyUnread ELSE entry.runtimeUnread
Behind(i, all, root) == all < i /\ (~posts[i].reply => root < RootsIn(i))
InTotals(i) ==
    /\ marks = 0 /\ i <= Counted
    /\ Behind(i, entry.readAll, entry.readRoot)
    /\ members.stage = "answered" => Behind(i, members.m.all, members.m.root)
Accounted(i) ==
    \/ \E k \in DOMAIN stream : stream[k] = i /\ Past(k)
    \/ ~ViewComing /\ (Noted(i) \/ (marks > 0 /\ entry.serverUnread) \/ InTotals(i))
AllAccounted ==
    Clean /\ ~Viewing /\ ~Marking => \A i \in serverRead + 1 .. Len(posts) : Accounted(i)

\* What the entry shows as unread is behind the server's read mark, unless a view is coming.
CountsBehind == \E i \in serverRead + 1 .. Len(posts) : CountsHere(posts[i])
MarkStands == marks > 0 /\ CountsBehind
StreamBehind ==
    Clean /\ ~Viewing /\ ~Marking =>
        \A k \in DOMAIN stream : Past(k) => stream[k] > serverRead \/ MarkStands

At(reply) == \E i \in serverRead + 1 .. Len(posts) : posts[i].reply = reply
NotedBehind ==
    Clean /\ ~Viewing /\ ~Marking /\ ~ViewComing =>
        /\ entry.runtimeUnread => At(FALSE) \/ MarkStands
        /\ entry.runtimeReplyUnread => At(TRUE) \/ MarkStands \/ rootViewed
        /\ marks > 0 /\ entry.serverUnread => MarkStands

ReadUp(all, root) ==
    /\ \/ all >= serverRead \/ rootViewed
       \/ channel.known /\ entry.readAll >= channel.all
    /\ \/ root >= RootsIn(serverRead)
       \/ channel.known /\ entry.readRoot >= channel.root
MembershipHeld ==
    Clean /\ ~Viewing /\ ~ViewComing /\ marks = 0 =>
        /\ members.stage = "answered" => ReadUp(members.m.all, members.m.root)
        /\ members.stage = "done" => ReadUp(entry.readAll, entry.readRoot)

Rest == Alone /\ Compared /\ AllAccounted /\ StreamBehind /\ NotedBehind /\ MembershipHeld
IInv == Shape /\ Rest

-------------------------------------------------------------------------------
(* The operators the model is built from.                                      *)

LEMMA Numbers == /\ MaxPosts \in Nat /\ MaxViews \in Nat /\ MaxMarks \in Nat /\ MaxFaults \in Nat
                 /\ 0 \in Counts /\ \A n \in Counts : n \in Nat /\ n \in Int /\ n <= MaxPosts
BY ChannelReadsAssumption DEF Counts

\* Of two numbers, the greater.
LEMMA MaxOfTwo ==
    ASSUME NEW a \in Counts, NEW b \in Counts
    PROVE  /\ Max({a, b}) = IF a >= b THEN a ELSE b
           /\ Max({a, b}) \in Counts /\ Max({a, b}) >= a /\ Max({a, b}) >= b
BY Numbers DEF Max

\* The root posts among the first n are counted: more posts hold no fewer, a root post adds
\* one, and where the count grows there is a root post.
LEMMA RootsFacts ==
    ASSUME posts \in Seq(Post), Len(posts) <= MaxPosts, NEW n \in 0 .. Len(posts)
    PROVE  /\ RootsIn(n) \in Counts /\ RootsIn(n) <= n
           /\ \A m \in n .. Len(posts) : RootsIn(n) <= RootsIn(m)
           /\ \A i \in n + 1 .. Len(posts) : ~posts[i].reply => RootsIn(n) < RootsIn(i)
           /\ \A m \in n .. Len(posts) :
                RootsIn(m) > RootsIn(n) => \E i \in n + 1 .. m : ~posts[i].reply
<1> DEFINE R(k) == {i \in 1 .. k : ~posts[i].reply}
<1>0. Len(posts) \in Nat /\ n \in Nat /\ MaxPosts \in Nat
  BY Numbers
<1>1. \A k \in 0 .. Len(posts) :
        IsFiniteSet(R(k)) /\ Cardinality(R(k)) \in Nat /\ Cardinality(R(k)) <= k
  <2> SUFFICES ASSUME NEW k \in 0 .. Len(posts)
               PROVE  IsFiniteSet(R(k)) /\ Cardinality(R(k)) \in Nat /\ Cardinality(R(k)) <= k
    OBVIOUS
  <2>1. k \in Nat /\ R(k) \in SUBSET (1 .. k)
    BY <1>0
  <2>2. IsFiniteSet(1 .. k) /\ Cardinality(1 .. k) = k
    BY <2>1, FS_Interval
  <2> HIDE DEF R
  <2>3. IsFiniteSet(R(k)) /\ Cardinality(R(k)) <= k
    BY <2>1, <2>2, FS_Subset
  <2> QED BY <2>3, FS_CardinalityType
<1>2. \A m \in n .. Len(posts) :
        Cardinality(R(n)) <= Cardinality(R(m)) /\ (Cardinality(R(m)) = Cardinality(R(n)) => R(m) = R(n))
  <2> SUFFICES ASSUME NEW m \in n .. Len(posts)
               PROVE  /\ Cardinality(R(n)) <= Cardinality(R(m))
                      /\ Cardinality(R(m)) = Cardinality(R(n)) => R(m) = R(n)
    OBVIOUS
  <2>1. R(n) \in SUBSET R(m) /\ m \in 0 .. Len(posts)
    BY <1>0
  <2>2. IsFiniteSet(R(m))
    BY <1>1, <2>1
  <2> HIDE DEF R
  <2> QED BY <2>1, <2>2, FS_Subset
<1>3. \A i \in n + 1 .. Len(posts) : ~posts[i].reply => i \in R(i) /\ i \notin R(n)
  BY <1>0
<1>4. \A m \in n .. Len(posts) : R(m) # R(n) => \E i \in n + 1 .. m : ~posts[i].reply
  BY <1>0
<1>5. \A k : RootsIn(k) = Cardinality(R(k))
  BY DEF RootsIn
<1> HIDE DEF R
<1>6. \A i \in n + 1 .. Len(posts) : i \in n .. Len(posts) /\ i \in 0 .. Len(posts)
  BY <1>0
<1>7. RootsIn(n) \in Counts /\ RootsIn(n) <= n
  BY <1>0, <1>1, <1>5 DEF Counts
<1>8. \A i \in n + 1 .. Len(posts) : ~posts[i].reply => RootsIn(n) < RootsIn(i)
  BY <1>3, <1>2, <1>6, <1>1, <1>5
<1>9. \A m \in n .. Len(posts) :
        RootsIn(m) > RootsIn(n) => \E i \in n + 1 .. m : ~posts[i].reply
  BY <1>4, <1>0, <1>1, <1>5
<1> QED BY <1>2, <1>5, <1>7, <1>8, <1>9

\* What was counted stays as posts are created.
LEMMA RootsKept ==
    ASSUME posts \in Seq(Post), NEW p \in Post, posts' = Append(posts, p)
    PROVE  /\ Len(posts') = Len(posts) + 1 /\ posts' \in Seq(Post)
           /\ \A i \in 1 .. Len(posts) : posts'[i] = posts[i]
           /\ posts'[Len(posts) + 1] = p
           /\ \A n \in 0 .. Len(posts) : RootsIn(n)' = RootsIn(n)
<1>1. /\ Len(posts') = Len(posts) + 1 /\ posts' \in Seq(Post) /\ Len(posts) \in Nat
      /\ \A i \in 1 .. Len(posts) : posts'[i] = posts[i]
      /\ posts'[Len(posts) + 1] = p
  BY AppendProperties
<1>2. ASSUME NEW n \in 0 .. Len(posts)
      PROVE  RootsIn(n)' = RootsIn(n)
  <2>1. {i \in 1 .. n : ~posts'[i].reply} = {i \in 1 .. n : ~posts[i].reply}
    BY <1>1
  <2> QED BY <2>1 DEF RootsIn
<1> QED BY <1>1, <1>2

\* The server's memberships and totals.
LEMMA ServerTypes ==
    ASSUME posts \in Seq(Post), Len(posts) <= MaxPosts, NEW n \in 0 .. Len(posts)
    PROVE  /\ MembershipAt(n) \in Membership /\ MembershipAt(n).all = n
           /\ MembershipAt(n).root = RootsIn(n)
           /\ ServerTotals \in Totals /\ ServerTotals.all = Len(posts)
           /\ ServerTotals.root = RootsIn(Len(posts))
           /\ NoMembership \in Membership
<1> DEFINE M == {i \in DOMAIN posts : i > n /\ posts[i].mention}
           N == {i \in M : ~posts[i].reply}
<1>0. Len(posts) \in Nat /\ n \in Counts /\ Len(posts) \in 0 .. Len(posts) /\ Len(posts) \in Counts
  BY Numbers DEF Counts
<1>1. RootsIn(n) \in Counts /\ RootsIn(Len(posts)) \in Counts
  BY <1>0, RootsFacts
<1>2. M \in SUBSET (1 .. Len(posts)) /\ N \in SUBSET (1 .. Len(posts))
  BY LenProperties
<1>3. \A k \in Nat : IsFiniteSet(1 .. k) /\ Cardinality(1 .. k) = k
  BY FS_Interval
<1>4. MembershipAt(n) = [all |-> n, root |-> RootsIn(n), mentions |-> Cardinality(M),
                         rootMentions |-> Cardinality(N)]
  BY DEF MembershipAt
<1> HIDE DEF M, N
<1>5. ASSUME NEW S \in SUBSET (1 .. Len(posts))
      PROVE  Cardinality(S) \in Nat /\ Cardinality(S) <= Len(posts)
  <2>1. IsFiniteSet(1 .. Len(posts)) /\ Cardinality(1 .. Len(posts)) = Len(posts)
    BY <1>0, <1>3
  <2>2. IsFiniteSet(S) /\ Cardinality(S) <= Cardinality(1 .. Len(posts))
    BY <2>1, FS_Subset
  <2> QED BY <2>1, <2>2, FS_CardinalityType
<1>6. Cardinality(M) \in Counts /\ Cardinality(N) \in Counts
  BY <1>0, <1>2, <1>5, Numbers DEF Counts
<1>7. NoMembership \in Membership
  BY Numbers DEF NoMembership, Membership
<1> QED BY <1>0, <1>1, <1>4, <1>6, <1>7 DEF Membership, ServerTotals, Totals

-------------------------------------------------------------------------------
(* What the operators of ChannelActivityTracker do to an entry.                *)

LEMMA NoEntryIs ==
    /\ NoEntry \in Entry /\ ~NoEntry.tracked /\ ~NoEntry.rootMode
    /\ NoEntry.readAll = 0 /\ NoEntry.readRoot = 0
    /\ ~NoEntry.serverUnread /\ ~NoEntry.runtimeUnread /\ ~NoEntry.runtimeReplyUnread
BY Numbers DEF NoEntry, Entry

\* A membership raises what has been read and leaves the rest.
LEMMA SetMembership ==
    ASSUME NEW e \in Entry, NEW m \in Membership
    PROVE  LET f == setMembership(e, m)
           IN /\ f \in Entry /\ f.tracked /\ f.hasReadRoot
              /\ f.readAll = Max({e.readAll, m.all}) /\ f.readRoot = Max({e.readRoot, m.root})
              /\ f.rootMode = e.rootMode /\ f.serverUnread = e.serverUnread
              /\ f.runtimeUnread = e.runtimeUnread
              /\ f.runtimeReplyUnread = e.runtimeReplyUnread
<1>1. /\ e.readAll \in Counts /\ e.readRoot \in Counts
      /\ m.all \in Counts /\ m.root \in Counts
      /\ m.mentions \in Counts /\ m.rootMentions \in Counts
  BY DEF Entry, Membership
<1>2. Max({e.readAll, m.all}) \in Counts /\ Max({e.readRoot, m.root}) \in Counts
  BY <1>1, MaxOfTwo
<1> DEFINE a == Max({e.readAll, m.all})
           r == Max({e.readRoot, m.root})
<1>3. PICK f : f = [e EXCEPT !.tracked = TRUE, !.readAll = a, !.readRoot = r,
                             !.hasReadRoot = TRUE, !.mentions = m.mentions,
                             !.rootMentions = m.rootMentions,
                             !.hasRootMentions = TRUE, !.muted = FALSE]
  OBVIOUS
<1>4. setMembership(e, m) = f
  BY <1>3 DEF setMembership
<1>5. a \in Counts /\ r \in Counts
  BY <1>2
<1> HIDE DEF a, r
<1>6. /\ f \in Entry /\ f.tracked /\ f.hasReadRoot /\ f.readAll = a /\ f.readRoot = r
      /\ f.rootMode = e.rootMode /\ f.serverUnread = e.serverUnread
      /\ f.runtimeUnread = e.runtimeUnread /\ f.runtimeReplyUnread = e.runtimeReplyUnread
  BY <1>1, <1>3, <1>5 DEF Entry
<1> QED BY <1>4, <1>6 DEF a, r

LEMMA Choice ==
    ASSUME NEW c, NEW a \in BOOLEAN, NEW b \in BOOLEAN
    PROVE  (IF c THEN a ELSE b) \in BOOLEAN
OBVIOUS

\* The stored totals are compared with what has been read, in the mode that counts.
LEMMA Synchronize ==
    ASSUME NEW e \in Entry, NEW t, t.all \in Counts, t.root \in Counts, NEW crt \in BOOLEAN
    PROVE  LET f == synchronizeChannel(e, t, crt)
           IN /\ f \in Entry
              /\ f.tracked = e.tracked /\ f.hasReadRoot = e.hasReadRoot
              /\ f.readAll = e.readAll /\ f.readRoot = e.readRoot
              /\ f.runtimeUnread = e.runtimeUnread
              /\ f.runtimeReplyUnread = e.runtimeReplyUnread
              /\ e.tracked =>
                    /\ f.rootMode <=> crt /\ e.hasReadRoot
                    /\ f.serverUnread <=> IF f.rootMode THEN t.root > e.readRoot
                                          ELSE t.all > e.readAll
              /\ ~e.tracked => f = e
<1>1. CASE ~e.tracked
  BY <1>1 DEF synchronizeChannel
<1>2. CASE e.tracked
  <2> DEFINE rm == crt /\ e.hasReadRoot
             su == IF rm THEN t.root > e.readRoot ELSE t.all > e.readAll
             sm == IF rm /\ e.hasRootMentions THEN e.rootMentions > 0 ELSE e.mentions > 0
  <2>1. PICK f : f = [e EXCEPT !.rootMode = rm, !.serverUnread = su, !.serverMentioned = sm]
    OBVIOUS
  <2>2. synchronizeChannel(e, t, crt) = f
    BY <1>2, <2>1 DEF synchronizeChannel
  <2>3. rm \in BOOLEAN /\ su \in BOOLEAN /\ sm \in BOOLEAN
    <3>1. rm \in BOOLEAN
      BY Zenon
    <3>a. /\ (t.root > e.readRoot) \in BOOLEAN /\ (t.all > e.readAll) \in BOOLEAN
          /\ (e.rootMentions > 0) \in BOOLEAN /\ (e.mentions > 0) \in BOOLEAN
      OBVIOUS
    <3>2. su \in BOOLEAN
      BY <3>a, Choice, Zenon
    <3>3. sm \in BOOLEAN
      BY <3>a, Choice, Zenon
    <3> QED BY <3>1, <3>2, <3>3
  <2>4. (rm <=> crt /\ e.hasReadRoot)
        /\ (su <=> IF rm THEN t.root > e.readRoot ELSE t.all > e.readAll)
    OBVIOUS
  <2> HIDE DEF rm, su, sm
  <2>5. /\ f \in Entry /\ f.tracked = e.tracked /\ f.hasReadRoot = e.hasReadRoot
        /\ f.readAll = e.readAll /\ f.readRoot = e.readRoot
        /\ f.runtimeUnread = e.runtimeUnread /\ f.runtimeReplyUnread = e.runtimeReplyUnread
        /\ f.rootMode = rm /\ f.serverUnread = su
    BY <2>1, <2>3 DEF Entry
  <2>6. (f.rootMode <=> crt /\ e.hasReadRoot)
        /\ (f.serverUnread <=> IF f.rootMode THEN t.root > e.readRoot ELSE t.all > e.readAll)
    BY <2>4, <2>5
  <2> QED BY <1>2, <2>2, <2>5, <2>6
<1> QED BY <1>1, <1>2

\* A post is noted in its domain.
LEMMA RecordPost ==
    ASSUME NEW e \in Entry, NEW p \in Post
    PROVE  LET f == recordPost(e, p)
           IN /\ f \in Entry /\ f.tracked
              /\ f.hasReadRoot = e.hasReadRoot /\ f.rootMode = e.rootMode
              /\ f.readAll = e.readAll /\ f.readRoot = e.readRoot
              /\ f.serverUnread = e.serverUnread
              /\ f.runtimeUnread <=> e.runtimeUnread \/ ~p.reply
              /\ f.runtimeReplyUnread <=> e.runtimeReplyUnread \/ p.reply
<1> DEFINE b1 == e.runtimeReplyMentioned \/ (p.mention /\ p.reply)
           b2 == e.runtimeMentioned \/ (p.mention /\ ~p.reply)
           b3 == e.runtimeReplyUnread \/ p.reply
           b4 == e.runtimeUnread \/ ~p.reply
<1>1. PICK f : f = [e EXCEPT !.tracked = TRUE, !.runtimeReplyMentioned = b1,
                             !.runtimeMentioned = b2, !.runtimeReplyUnread = b3,
                             !.runtimeUnread = b4]
  OBVIOUS
<1>2. recordPost(e, p) = f
  BY <1>1 DEF recordPost
<1>3. b1 \in BOOLEAN /\ b2 \in BOOLEAN /\ b3 \in BOOLEAN /\ b4 \in BOOLEAN
  BY DEF Entry, Post
<1>4. (b3 <=> e.runtimeReplyUnread \/ p.reply) /\ (b4 <=> e.runtimeUnread \/ ~p.reply)
  OBVIOUS
<1> HIDE DEF b1, b2, b3, b4
<1>b. [e EXCEPT !.tracked = TRUE, !.runtimeReplyMentioned = b1, !.runtimeMentioned = b2,
                !.runtimeReplyUnread = b3, !.runtimeUnread = b4] \in Entry
  BY <1>3 DEF Entry
<1>a. f \in Entry
  BY <1>1, <1>b
<1>5. /\ f \in Entry /\ f.tracked /\ f.hasReadRoot = e.hasReadRoot /\ f.rootMode = e.rootMode
      /\ f.readAll = e.readAll /\ f.readRoot = e.readRoot /\ f.serverUnread = e.serverUnread
      /\ f.runtimeUnread = b4 /\ f.runtimeReplyUnread = b3
  BY <1>1, <1>a DEF Entry
<1>6. (f.runtimeUnread <=> e.runtimeUnread \/ ~p.reply)
      /\ (f.runtimeReplyUnread <=> e.runtimeReplyUnread \/ p.reply)
  BY <1>4, <1>5
<1> QED BY <1>2, <1>5, <1>6

\* A view reads the root posts up to the stored total, and without root counts everything.
LEMMA RecordViewed ==
    ASSUME NEW e \in Entry, NEW t, t.all \in Counts, t.root \in Counts
    PROVE  LET f == recordViewed(e, t)
           IN /\ f \in Entry /\ f.tracked /\ f.hasReadRoot /\ f.rootMode = e.rootMode
              /\ f.readRoot = Max({e.readRoot, t.root})
              /\ f.readAll = IF e.rootMode THEN e.readAll ELSE Max({e.readAll, t.all})
              /\ ~f.serverUnread /\ ~f.runtimeUnread
              /\ f.runtimeReplyUnread <=> e.rootMode /\ e.runtimeReplyUnread
<1>1. /\ e.readAll \in Counts /\ e.readRoot \in Counts
      /\ Max({e.readAll, t.all}) \in Counts /\ Max({e.readRoot, t.root}) \in Counts
  BY MaxOfTwo DEF Entry
<1> DEFINE a == Max({e.readAll, t.all})
           r == Max({e.readRoot, t.root})
<1>2. PICK f : f = [e EXCEPT !.tracked = TRUE, !.readRoot = r, !.hasReadRoot = TRUE,
                             !.rootMentions = 0, !.serverUnread = FALSE,
                             !.runtimeUnread = FALSE, !.serverMentioned = FALSE,
                             !.runtimeMentioned = FALSE]
  OBVIOUS
<1>3. PICK g : g = [f EXCEPT !.readAll = Max({@, t.all}), !.mentions = 0,
                             !.runtimeReplyUnread = FALSE, !.runtimeReplyMentioned = FALSE]
  OBVIOUS
<1>4. recordViewed(e, t) = IF e.rootMode THEN f ELSE g
  BY <1>2, <1>3 DEF recordViewed
<1>5. a \in Counts /\ r \in Counts
  BY <1>1
<1> HIDE DEF a, r
<1>6. /\ f \in Entry /\ f.tracked /\ f.hasReadRoot /\ f.rootMode = e.rootMode
      /\ f.readRoot = r /\ f.readAll = e.readAll
      /\ f.serverUnread = FALSE /\ f.runtimeUnread = FALSE
      /\ f.runtimeReplyUnread = e.runtimeReplyUnread
  BY <1>1, <1>2, <1>5, Numbers DEF Entry
<1>7. g = [f EXCEPT !.readAll = a, !.mentions = 0,
                    !.runtimeReplyUnread = FALSE, !.runtimeReplyMentioned = FALSE]
  BY <1>3, <1>6 DEF a, Entry
<1>8. /\ g \in Entry /\ g.tracked /\ g.hasReadRoot /\ g.rootMode = e.rootMode
      /\ g.readRoot = r /\ g.readAll = a
      /\ g.serverUnread = FALSE /\ g.runtimeUnread = FALSE
      /\ g.runtimeReplyUnread = FALSE
  BY <1>5, <1>6, <1>7, Numbers DEF Entry
<1>9. CASE e.rootMode
  BY <1>4, <1>9, <1>6 DEF r
<1>10. CASE ~e.rootMode
  BY <1>4, <1>10, <1>8 DEF a, r
<1> QED BY <1>9, <1>10

\* The answer to "mark as unread" leaves the channel unread and nothing noted.
LEMMA MarkUnread ==
    ASSUME NEW e \in Entry, NEW m \in Membership
    PROVE  LET f == markUnread(e, m)
           IN /\ f \in Entry /\ f.tracked /\ f.hasReadRoot /\ f.rootMode = e.rootMode
              /\ f.serverUnread /\ ~f.runtimeUnread /\ ~f.runtimeReplyUnread
<1> DEFINE sm == IF e.rootMode THEN m.rootMentions > 0 ELSE m.mentions > 0
<1>1. PICK f : f = [e EXCEPT !.tracked = TRUE, !.readAll = m.all,
              !.readRoot = m.root, !.hasReadRoot = TRUE,
              !.mentions = m.mentions, !.rootMentions = m.rootMentions,
              !.hasRootMentions = TRUE, !.serverUnread = TRUE,
              !.runtimeUnread = FALSE, !.runtimeReplyUnread = FALSE,
              !.serverMentioned = sm,
              !.runtimeMentioned = FALSE, !.runtimeReplyMentioned = FALSE]
  OBVIOUS
<1>2. markUnread(e, m) = f
  BY <1>1 DEF markUnread
<1>3. sm \in BOOLEAN
  <2>1. (m.rootMentions > 0) \in BOOLEAN /\ (m.mentions > 0) \in BOOLEAN
    OBVIOUS
  <2> QED BY <2>1, Choice, Zenon
<1> HIDE DEF sm
<1>b. [e EXCEPT !.tracked = TRUE, !.readAll = m.all,
              !.readRoot = m.root, !.hasReadRoot = TRUE,
              !.mentions = m.mentions, !.rootMentions = m.rootMentions,
              !.hasRootMentions = TRUE, !.serverUnread = TRUE,
              !.runtimeUnread = FALSE, !.runtimeReplyUnread = FALSE,
              !.serverMentioned = sm,
              !.runtimeMentioned = FALSE, !.runtimeReplyMentioned = FALSE] \in Entry
  BY <1>3 DEF Entry, Membership
<1>a. f \in Entry
  BY <1>1, <1>b
<1>4. f \in Entry /\ f.tracked /\ f.hasReadRoot /\ f.rootMode = e.rootMode
      /\ f.serverUnread = TRUE /\ f.runtimeUnread = FALSE /\ f.runtimeReplyUnread = FALSE
  BY <1>1, <1>a DEF Entry
<1> QED BY <1>2, <1>4

\* Mentions and muting leave what is read and noted.
SameRead(e, f) ==
    /\ f \in Entry /\ f.tracked = e.tracked /\ f.hasReadRoot = e.hasReadRoot
    /\ f.rootMode = e.rootMode /\ f.readAll = e.readAll /\ f.readRoot = e.readRoot
    /\ f.serverUnread = e.serverUnread /\ f.runtimeUnread = e.runtimeUnread
    /\ f.runtimeReplyUnread = e.runtimeReplyUnread

LEMMA MentionAndMute ==
    ASSUME NEW e \in Entry
    PROVE  SameRead(e, notMentioned(e)) /\ SameRead(e, [e EXCEPT !.muted = ~@])
<1>1. PICK f : f = [e EXCEPT !.mentions = 0, !.rootMentions = 0, !.serverMentioned = FALSE,
                             !.runtimeMentioned = FALSE, !.runtimeReplyMentioned = FALSE]
  OBVIOUS
<1>2. SameRead(e, f)
  BY <1>1, Numbers DEF SameRead, Entry
<1>3. notMentioned(e) = f
  BY <1>1 DEF notMentioned
<1> DEFINE b == ~e.muted
<1>4. b \in BOOLEAN
  OBVIOUS
<1>5. PICK g : g = [e EXCEPT !.muted = b]
  OBVIOUS
<1>6. [e EXCEPT !.muted = ~@] = g
  BY <1>5
<1> HIDE DEF b
<1>7. SameRead(e, g)
  BY <1>4, <1>5 DEF SameRead, Entry
<1> QED BY <1>2, <1>3, <1>6, <1>7

-------------------------------------------------------------------------------
(* Type correctness.                                                           *)

LEMMA TypeFacts ==
    ASSUME TypeOK
    PROVE  /\ posts \in Seq(Post) /\ Len(posts) \in Nat /\ Len(posts) <= MaxPosts
           /\ DOMAIN posts = 1 .. Len(posts) /\ \A i \in 1 .. Len(posts) : posts[i] \in Post
           /\ serverRead \in 0 .. Len(posts) /\ serverRead \in Nat
           /\ stream \in Seq(Counts) /\ DOMAIN stream = 1 .. Len(stream) /\ Len(stream) \in Nat
           /\ \A k \in DOMAIN stream : stream[k] \in 0 .. Len(posts)
           /\ \A c \in calls : c \in Call
<1>1. /\ posts \in Seq(Post) /\ Len(posts) <= MaxPosts /\ serverRead \in 0 .. Len(posts)
      /\ stream \in Seq(Counts) /\ \A k \in DOMAIN stream : stream[k] <= Len(posts)
      /\ \A c \in calls : c \in Call
  BY DEF TypeOK
<1>2. Len(posts) \in Nat /\ DOMAIN posts = 1 .. Len(posts)
  BY <1>1
<1>3. DOMAIN stream = 1 .. Len(stream) /\ Len(stream) \in Nat
  BY <1>1
<1>4. \A k \in DOMAIN stream : stream[k] \in Counts
  BY <1>1, <1>3
<1>5. \A k \in DOMAIN stream : stream[k] \in 0 .. Len(posts)
  BY <1>1, <1>2, <1>4, Numbers
<1>6. \A i \in 1 .. Len(posts) : posts[i] \in Post
  BY <1>1, <1>2
<1> QED BY <1>1, <1>2, <1>3, <1>5, <1>6

\* An event joins the stream, or the oldest leaves it.
LEMMA StreamAppend ==
    ASSUME TypeOK, NEW v \in Counts, stream' = Append(stream, v)
    PROVE  /\ stream' \in Seq(Counts) /\ Len(stream') = Len(stream) + 1
           /\ DOMAIN stream' = 1 .. Len(stream) + 1
           /\ \A k \in 1 .. Len(stream) : stream'[k] = stream[k]
           /\ stream'[Len(stream) + 1] = v
BY TypeFacts, AppendProperties

LEMMA StreamTail ==
    ASSUME TypeOK, stream # <<>>, stream' = Tail(stream)
    PROVE  /\ stream' \in Seq(Counts) /\ Len(stream') = Len(stream) - 1 /\ Len(stream) >= 1
           /\ DOMAIN stream' = 1 .. Len(stream) - 1
           /\ \A k \in 1 .. Len(stream) - 1 : stream'[k] = stream[k + 1]
           /\ Head(stream) = stream[1] /\ stream[1] \in 0 .. Len(posts) /\ 1 \in DOMAIN stream
BY TypeFacts, HeadTailProperties

LEMMA ShapeInit == Init => Shape
<1> SUFFICES ASSUME Init PROVE Shape
  OBVIOUS
<1>0. CallsNamed
  BY DEF Init, CallsNamed
<1>1. posts \in Seq(Post) /\ Len(posts) <= MaxPosts /\ serverRead \in 0 .. Len(posts)
  <2>1. posts \in BoundedSeq(Post, 1) /\ Len(posts) <= MaxPosts /\ serverRead \in 0 .. Len(posts)
    BY DEF Init
  <2>2. PICK m \in 0 .. 1 : posts \in [1 .. m -> Post]
    BY <2>1 DEF BoundedSeq, SeqOf
  <2> QED BY <2>1, <2>2
<1>2. stream \in Seq(Counts) /\ (\A k \in DOMAIN stream : stream[k] <= Len(posts)) /\ calls \subseteq Call
  <2>1. stream = <<>> /\ calls = {}
    BY DEF Init
  <2> QED BY <2>1
<1>3. NoMembership \in Membership /\ [all |-> 0, root |-> 0] \in Totals
  BY Numbers DEF NoMembership, Membership, Totals
<1>4. /\ members \in [stage : Stages, m : Membership] /\ channels \in [stage : Stages, t : Totals]
      /\ settings \in [{"config", "preferences"} -> Stages]
  BY <1>3 DEF Init, Stages
<1>5. /\ channel \in [known : BOOLEAN, all : Counts, root : Counts]
      /\ collapsed \in [config : Configs \cup {""}, preference : Preferences \cup {"none"},
                        enabled : BOOLEAN]
  BY Numbers DEF Init
<1>6. /\ entry = NoEntry /\ config \in Configs /\ preference \in Preferences
      /\ views \in 0 .. MaxViews /\ marks \in 0 .. MaxMarks /\ faults \in 0 .. MaxFaults
  <2>1. entry = NoEntry /\ config \in Configs /\ preference \in Preferences
    BY DEF Init
  <2>2. views = 0 /\ marks = 0 /\ faults = 0
    BY DEF Init
  <2> QED BY <2>1, <2>2, Numbers
<1>7. missed \in BOOLEAN /\ crossed \in BOOLEAN /\ rootViewed \in BOOLEAN
  BY Zenon DEF Init
<1>8. TypeOK
  BY <1>1, <1>2, <1>4, <1>5, <1>6, <1>7, NoEntryIs DEF TypeOK
<1>9. ~channel.known /\ channels.stage = "sent" /\ members.stage = "sent"
  BY DEF Init
<1> QED BY <1>0, <1>6, <1>8, <1>9, NoEntryIs DEF Shape, Totalled, Decided

\* A request that fails is counted.
LEMMA Faults ==
    ASSUME TypeOK, NEW happens \in BOOLEAN, fault(happens)
    PROVE  /\ faults' \in 0 .. MaxFaults /\ faults' >= faults
           /\ happens => faults' > 0
           /\ ~happens => faults' = faults
<1>1. faults \in 0 .. MaxFaults /\ MaxFaults \in Nat
  BY Numbers DEF TypeOK
<1>2. CASE happens
  BY <1>2, <1>1 DEF fault
<1>3. CASE ~happens
  BY <1>3, <1>1 DEF fault
<1> QED BY <1>2, <1>3

LEMMA RootsSame ==
    ASSUME UNCHANGED posts
    PROVE  \A n : RootsIn(n)' = RootsIn(n)
BY DEF RootsIn

\* What the server counts and what is on its way keep their shape as posts are created.
LEMMA CreateShape ==
    ASSUME Shape, NEW p \in Post, CreatePost(p)
    PROVE  Shape'
<1>1. /\ Len(posts) < MaxPosts /\ posts' = Append(posts, p) /\ stream' = Append(stream, Len(posts) + 1)
      /\ UNCHANGED <<serverRead, config, preference, calls, members, channels, settings, channel,
                     entry, collapsed, views, marks, faults, missed, crossed, rootViewed>>
  BY DEF CreatePost, loads, client, budgets, history
<1>2. TypeOK
  BY DEF Shape
<1>3. /\ Len(posts') = Len(posts) + 1 /\ posts' \in Seq(Post)
      /\ \A n \in 0 .. Len(posts) : RootsIn(n)' = RootsIn(n)
  BY <1>1, <1>2, TypeFacts, RootsKept
<1>4. Len(posts) \in Nat /\ Len(posts) + 1 \in Counts
  BY <1>1, <1>2, TypeFacts, Numbers DEF Counts
<1>5. stream' \in Seq(Counts) /\ \A k \in DOMAIN stream' : stream'[k] <= Len(posts')
  BY <1>2, TypeFacts, <1>1, <1>4, StreamAppend, <1>3
<1>6. TypeOK'
  <2>1. Len(posts') <= MaxPosts /\ serverRead' \in 0 .. Len(posts')
    BY <1>1, <1>2, <1>3, <1>4, TypeFacts, Numbers
  <2> QED BY <1>1, <1>2, <1>3, <1>5, <2>1 DEF TypeOK
<1>7. /\ channels.stage = "answered" =>
            channels.t.all <= Len(posts) /\ channels.t.root = RootsIn(channels.t.all)
      /\ channel.known => channel.all <= Len(posts) /\ channel.root = RootsIn(channel.all)
      /\ channels.t.all \in Nat /\ channel.all \in Nat
  BY <1>2, Numbers DEF Shape, Totalled, TypeOK, Totals
<1>8. /\ channels.stage = "answered" =>
            channels.t.all <= Len(posts') /\ channels.t.root = RootsIn(channels.t.all)'
      /\ channel.known => channel.all <= Len(posts') /\ channel.root = RootsIn(channel.all)'
  BY <1>1, <1>3, <1>4, <1>7
<1>9. /\ channels'.stage = "answered" =>
            channels'.t.all <= Len(posts') /\ channels'.t.root = RootsIn(channels.t.all)'
      /\ channel'.known => channel'.all <= Len(posts') /\ channel'.root = RootsIn(channel.all)'
  BY <1>1, <1>8
<1>10. CallsNamed'
  BY <1>1, <1>3, <1>4 DEF Shape, CallsNamed
<1> QED BY <1>1, <1>6, <1>9, <1>10 DEF Shape, Totalled, Decided

LEMMA TotalsKept ==
    ASSUME Totalled, UNCHANGED <<posts, channels, channel>>
    PROVE  Totalled'
BY RootsSame DEF Totalled

LEMMA ViewElsewhereShape ==
    ASSUME Shape, ViewElsewhere
    PROVE  Shape'
<1>1. /\ views < MaxViews /\ views' = views + 1 /\ serverRead' = Len(posts)
      /\ stream' = Append(stream, Viewed)
      /\ crossed' = (crossed \/ \E c \in calls : c.kind = "unread")
      /\ UNCHANGED <<posts, config, preference, calls, members, channels, settings, channel,
                     entry, collapsed, marks, faults, missed, rootViewed>>
  BY DEF ViewElsewhere, loads, client
<1>2. TypeOK
  BY DEF Shape
<1>3. Viewed \in Counts /\ Viewed = 0
  BY Numbers DEF Viewed
<1>4. stream' \in Seq(Counts) /\ \A k \in DOMAIN stream' : stream'[k] <= Len(posts')
  BY <1>1, <1>2, <1>3, TypeFacts, StreamAppend
<1>5. crossed' \in BOOLEAN
  BY <1>1, Zenon DEF Shape, TypeOK
<1>6. views' \in 0 .. MaxViews /\ serverRead' \in 0 .. Len(posts')
  <2>1. views \in 0 .. MaxViews /\ MaxViews \in Nat
    BY <1>2, Numbers DEF TypeOK
  <2>2. Len(posts) \in Nat
    BY <1>2, TypeFacts
  <2> QED BY <1>1, <2>1, <2>2
<1>7. TypeOK'
  BY <1>1, <1>2, <1>4, <1>5, <1>6 DEF TypeOK
<1>8. Totalled'
  BY <1>1, TotalsKept DEF Shape
<1>9. Decided'
  BY <1>1 DEF Shape, Decided
<1>10. CallsNamed'
  BY <1>1 DEF Shape, CallsNamed
<1> QED BY <1>7, <1>8, <1>9, <1>10 DEF Shape, Totalled, Decided

LEMMA AnswerShape ==
    ASSUME Shape, (\E failed \in BOOLEAN : AnswerMembers(failed)) \/ AnswerChannels
    PROVE  Shape'
<1>1. ASSUME NEW failed \in BOOLEAN, AnswerMembers(failed) PROVE Shape'
  <2>1. /\ members.stage = "sent" /\ fault(failed)
        /\ members' = IF failed THEN [members EXCEPT !.stage = "failed"]
                      ELSE [stage |-> "answered", m |-> MembershipAt(serverRead)]
        /\ UNCHANGED <<posts, serverRead, config, preference, stream, calls, channels, settings,
                       channel, entry, collapsed, views, marks, missed, crossed, rootViewed>>
    BY <1>1 DEF AnswerMembers, server, client, history
  <2>2. TypeOK
    BY DEF Shape
  <2>3. MembershipAt(serverRead) \in Membership
    BY <2>2, TypeFacts, ServerTypes
  <2>4. members' \in [stage : Stages, m : Membership]
        /\ (members'.stage = "failed" => failed) /\ members'.stage # "done"
    BY <2>1, <2>2, <2>3 DEF TypeOK, Stages
  <2>5. faults' \in 0 .. MaxFaults /\ (failed => faults' > 0)
    BY <2>1, <2>2, Faults
  <2>6. TypeOK'
    BY <2>1, <2>2, <2>4, <2>5 DEF TypeOK
  <2>7. Totalled'
    BY <2>1, TotalsKept DEF Shape
  <2>8. Decided'
    BY <2>1, <2>4, <2>5 DEF Shape, Decided
  <2>9. CallsNamed'
    BY <2>1 DEF Shape, CallsNamed
  <2> QED BY <2>6, <2>7, <2>8, <2>9 DEF Shape, Totalled, Decided
<1>2. ASSUME AnswerChannels PROVE Shape'
  <2>1. /\ channels.stage = "sent" /\ channels' = [stage |-> "answered", t |-> ServerTotals]
        /\ UNCHANGED <<posts, serverRead, config, preference, stream, calls, members, settings,
                       channel, entry, collapsed, views, marks, faults, missed, crossed,
                       rootViewed>>
    BY <1>2 DEF AnswerChannels, server, client, budgets, history
  <2>2. TypeOK /\ ~channel.known
    BY <2>1 DEF Shape, Totalled
  <2>3. ServerTotals \in Totals /\ ServerTotals.all = Len(posts) /\ ServerTotals.root = RootsIn(Len(posts))
    BY <2>2, TypeFacts, ServerTypes
  <2>4. TypeOK'
    BY <2>1, <2>2, <2>3 DEF TypeOK, Stages
  <2>5. channels'.t.all <= Len(posts') /\ channels'.t.root = RootsIn(channels.t.all)'
    BY <2>1, <2>2, TypeFacts, RootsSame, <2>3
  <2>6. Totalled'
    BY <2>1, <2>2, <2>5 DEF Totalled
  <2>8. Decided'
    BY <2>1 DEF Shape, Decided
  <2>9. CallsNamed'
    BY <2>1 DEF Shape, CallsNamed
  <2> QED BY <2>4, <2>6, <2>8, <2>9 DEF Shape, Totalled, Decided
<1> QED BY <1>1, <1>2

LEMMA ServeShape ==
    ASSUME Shape, NEW c \in calls, NEW failed \in BOOLEAN, ServeCall(c, failed)
    PROVE  Shape'
<1> DEFINE d == [c EXCEPT !.state = IF failed THEN "failed" ELSE "answered",
                          !.m = IF failed THEN NoMembership ELSE MembershipAt(c.post - 1)]
<1>1. /\ fault(failed) /\ calls' = (calls \ {c}) \cup (IF c.kind = "view" THEN {} ELSE {d})
      /\ serverRead' = IF failed THEN serverRead ELSE IF c.kind = "view" THEN Len(posts) ELSE c.post - 1
      /\ stream' = IF c.kind = "view" /\ ~failed THEN Append(stream, Viewed) ELSE stream
      /\ UNCHANGED <<posts, config, preference, members, channels, settings,
                     channel, entry, collapsed, views, marks, missed, crossed, rootViewed>>
  BY DEF ServeCall, loads, client, history
<1>2. TypeOK /\ CallsNamed
  BY DEF Shape
<1>3. c \in Call /\ (c.kind = "unread" => c.post \in 1 .. Len(posts)) /\ c.kind \in {"view", "unread"}
  BY <1>2, TypeFacts DEF CallsNamed, Call
<1>4. c.kind = "unread" => d \in Call
  <2> SUFFICES ASSUME c.kind = "unread" PROVE d \in Call
    OBVIOUS
  <2>1. c.post - 1 \in 0 .. Len(posts)
    BY <1>2, <1>3, TypeFacts
  <2>2. MembershipAt(c.post - 1) \in Membership /\ NoMembership \in Membership
    BY <1>2, <2>1, TypeFacts, ServerTypes
  <2> QED BY <1>3, <2>2 DEF Call, Stages
<1>5. calls' \subseteq Call /\ CallsNamed'
  <2>1. d.kind = c.kind /\ d.post = c.post
    BY <1>3 DEF Call
  <2> HIDE DEF d
  <2>2. \A x \in calls' : x \in calls \/ (x = d /\ c.kind = "unread")
    BY <1>1, <1>3
  <2> QED BY <1>1, <1>2, <1>3, <1>4, <2>1, <2>2, TypeFacts DEF CallsNamed
<1> HIDE DEF d
<1>6. stream' \in Seq(Counts) /\ \A k \in DOMAIN stream' : stream'[k] <= Len(posts')
  <2>1. Viewed \in Counts /\ Viewed = 0
    BY Numbers DEF Viewed
  <2>2. CASE c.kind = "view" /\ ~failed
    BY <1>1, <1>2, <2>1, <2>2, TypeFacts, StreamAppend
  <2>3. CASE ~(c.kind = "view" /\ ~failed)
    BY <1>1, <1>2, <2>3 DEF TypeOK
  <2> QED BY <2>2, <2>3
<1>7. serverRead' \in 0 .. Len(posts')
  BY <1>1, <1>2, <1>3, TypeFacts
<1>8. faults' \in 0 .. MaxFaults /\ faults' >= faults /\ faults \in Nat
  <2>1. faults \in 0 .. MaxFaults /\ MaxFaults \in Nat
    BY <1>2, Numbers DEF TypeOK
  <2> QED BY <1>1, <1>2, <2>1, Faults
<1>9. TypeOK'
  BY <1>1, <1>2, <1>5, <1>6, <1>7, <1>8 DEF TypeOK
<1>10. Totalled'
  BY <1>1, TotalsKept DEF Shape
<1>11. Decided'
  BY <1>8, <1>1 DEF Shape, Decided
<1> QED BY <1>5, <1>9, <1>10, <1>11 DEF Shape, Totalled, Decided

\* The entry after memberships, as retrieveChannelMemberships leaves it.
LEMMA MembershipsEntry ==
    ASSUME Shape, retrieveChannelMemberships
    PROVE  /\ entry' \in Entry
           /\ entry'.tracked <=> entry.tracked \/ members.stage = "answered"
           /\ entry'.hasReadRoot <=> entry.hasReadRoot \/ members.stage = "answered"
           /\ entry'.runtimeUnread = entry.runtimeUnread
           /\ entry'.runtimeReplyUnread = entry.runtimeReplyUnread
           /\ entry'.readAll = IF members.stage = "answered"
                               THEN Max({entry.readAll, members.m.all}) ELSE entry.readAll
           /\ entry'.readRoot = IF members.stage = "answered"
                                THEN Max({entry.readRoot, members.m.root}) ELSE entry.readRoot
           /\ ~channel.known => entry'.rootMode = entry.rootMode
           /\ channel.known /\ entry'.tracked =>
                /\ entry'.rootMode <=> collapsed.enabled /\ entry'.hasReadRoot
                /\ entry'.serverUnread <=> IF entry'.rootMode THEN channel.root > entry'.readRoot
                                           ELSE channel.all > entry'.readAll
           /\ ~entry'.tracked => entry' = entry
<1> DEFINE e == IF members.stage = "answered" THEN setMembership(entry, members.m) ELSE entry
<1>1. entry' = synchronizeChannelActivity(e, channel, channel.known, collapsed.enabled)
  BY DEF retrieveChannelMemberships
<1>2. /\ entry \in Entry /\ members.m \in Membership /\ channel.all \in Counts
      /\ channel.root \in Counts /\ collapsed.enabled \in BOOLEAN
  BY DEF Shape, TypeOK
<1>3. /\ e \in Entry
      /\ e.tracked <=> entry.tracked \/ members.stage = "answered"
      /\ e.hasReadRoot <=> entry.hasReadRoot \/ members.stage = "answered"
      /\ e.runtimeUnread = entry.runtimeUnread
      /\ e.runtimeReplyUnread = entry.runtimeReplyUnread
      /\ e.readAll = IF members.stage = "answered"
                     THEN Max({entry.readAll, members.m.all}) ELSE entry.readAll
      /\ e.readRoot = IF members.stage = "answered"
                      THEN Max({entry.readRoot, members.m.root}) ELSE entry.readRoot
      /\ e.rootMode = entry.rootMode
      /\ members.stage # "answered" => e = entry
  <2>1. CASE members.stage = "answered"
    <3>1. e = setMembership(entry, members.m)
      BY <2>1
    <3> HIDE DEF e
    <3> QED BY <1>2, <2>1, <3>1, SetMembership
  <2>2. CASE members.stage # "answered"
    BY <1>2, <2>2
  <2> QED BY <2>1, <2>2
<1> HIDE DEF e
<1>4. CASE channel.known
  BY <1>1, <1>4, <1>2, <1>3, Synchronize DEF synchronizeChannelActivity
<1>5. CASE ~channel.known
  BY <1>1, <1>5, <1>3 DEF synchronizeChannelActivity
<1> QED BY <1>4, <1>5

LEMMA MembershipsShape ==
    ASSUME Shape, retrieveChannelMemberships
    PROVE  Shape'
<1>1. /\ members.stage \in {"answered", "failed"}
      /\ members' = [members EXCEPT !.stage = "done", !.m = NoMembership]
      /\ UNCHANGED <<posts, serverRead, config, preference, stream, calls, channels, settings,
                     channel, collapsed, views, marks, faults, missed, crossed, rootViewed>>
  BY DEF retrieveChannelMemberships, server, budgets, history
<1>2. TypeOK
  BY DEF Shape
<1>3. NoMembership \in Membership
  BY <1>2, TypeFacts, ServerTypes
<1>4. members' \in [stage : Stages, m : Membership] /\ members'.stage = "done"
  BY <1>1, <1>2, <1>3 DEF TypeOK, Stages
<1>5. entry' \in Entry
  BY MembershipsEntry
<1>6. TypeOK'
  BY <1>1, <1>2, <1>4, <1>5 DEF TypeOK
<1>7. Totalled' /\ CallsNamed'
  BY <1>1, TotalsKept DEF Shape, CallsNamed
<1>8. Decided'
  BY <1>1, MembershipsEntry, <1>4 DEF Shape, Decided
<1> QED BY <1>6, <1>7, <1>8 DEF Shape

\* The entry after the list of channels.
LEMMA ChannelsEntry ==
    ASSUME Shape, retrieveOwnChannelMembershipsForTeam
    PROVE  /\ entry' \in Entry
           /\ entry'.tracked = entry.tracked /\ entry'.hasReadRoot = entry.hasReadRoot
           /\ entry'.runtimeUnread = entry.runtimeUnread
           /\ entry'.runtimeReplyUnread = entry.runtimeReplyUnread
           /\ entry'.readAll = entry.readAll /\ entry'.readRoot = entry.readRoot
           /\ entry.tracked =>
                /\ entry'.rootMode <=> collapsed.enabled /\ entry.hasReadRoot
                /\ entry'.serverUnread <=> IF entry'.rootMode THEN channel'.root > entry.readRoot
                                           ELSE channel'.all > entry.readAll
           /\ ~entry.tracked => entry' = entry
<1>1. /\ entry \in Entry /\ channels.t.all \in Counts /\ channels.t.root \in Counts
      /\ collapsed.enabled \in BOOLEAN
  BY DEF Shape, TypeOK, Totals
<1>2. entry' = synchronizeChannel(entry, channels.t, collapsed.enabled)
  BY DEF retrieveOwnChannelMembershipsForTeam, synchronizeChannelActivity
<1>3. channel'.all = channels.t.all /\ channel'.root = channels.t.root
  BY DEF retrieveOwnChannelMembershipsForTeam
<1> QED BY <1>1, <1>2, <1>3, Synchronize

LEMMA ChannelsShape ==
    ASSUME Shape, retrieveOwnChannelMembershipsForTeam
    PROVE  Shape'
<1>1. /\ channels.stage = "answered" /\ channels' = [channels EXCEPT !.stage = "done"]
      /\ channel' = [known |-> TRUE, all |-> channels.t.all, root |-> channels.t.root]
      /\ UNCHANGED <<posts, serverRead, config, preference, stream, calls, members, settings,
                     collapsed, views, marks, faults, missed, crossed, rootViewed>>
  BY DEF retrieveOwnChannelMembershipsForTeam, server, budgets, history
<1>2. TypeOK /\ Totalled /\ channels.t.all \in Counts /\ channels.t.root \in Counts
  BY DEF Shape, TypeOK, Totals
<1>3. channels' \in [stage : Stages, t : Totals] /\ channels'.stage = "done"
  BY <1>1, <1>2 DEF TypeOK, Stages
<1>4. channel' \in [known : BOOLEAN, all : Counts, root : Counts] /\ channel'.known
  BY <1>1, <1>2
<1>5. TypeOK'
  BY <1>1, <1>2, <1>3, <1>4, ChannelsEntry DEF TypeOK
<1>6. Totalled'
  BY <1>1, <1>2, RootsSame, <1>3, <1>4 DEF Totalled
<1>7. CallsNamed'
  BY <1>1 DEF Shape, CallsNamed
<1>8. Decided'
  BY ChannelsEntry, <1>1, <1>4 DEF Shape, Decided
<1> QED BY <1>5, <1>6, <1>7, <1>8 DEF Shape

\* The configuration or the preferences arrive.
Setting == retrieveClientConfig \/ retrieveChannelPreferences

LEMMA SettingEntry ==
    ASSUME Shape, Setting
    PROVE  /\ collapsed' \in [config : Configs \cup {""}, preference : Preferences \cup {"none"},
                              enabled : BOOLEAN]
           /\ entry' \in Entry
           /\ entry'.tracked = entry.tracked /\ entry'.hasReadRoot = entry.hasReadRoot
           /\ entry'.runtimeUnread = entry.runtimeUnread
           /\ entry'.runtimeReplyUnread = entry.runtimeReplyUnread
           /\ entry'.readAll = entry.readAll /\ entry'.readRoot = entry.readRoot
           /\ \/ collapsed'.enabled = collapsed.enabled /\ entry' = entry
              \/ ~channel.known /\ entry' = entry
              \/ ~entry.tracked /\ entry' = entry
              \/ /\ entry.tracked /\ channel.known
                 /\ entry'.rootMode <=> collapsed'.enabled /\ entry.hasReadRoot
                 /\ entry'.serverUnread <=> IF entry'.rootMode THEN channel.root > entry.readRoot
                                            ELSE channel.all > entry.readAll
<1>1. PICK cfg \in Configs \cup {""}, pref \in Preferences \cup {"none"} :
        updateCollapsedThreadsMode(cfg, pref)
  BY DEF Setting, retrieveClientConfig, retrieveChannelPreferences, Shape, TypeOK
<1>2. /\ entry \in Entry /\ channel.all \in Counts /\ channel.root \in Counts
  BY DEF Shape, TypeOK
<1> DEFINE enabled == CollapsedMode(cfg, pref)
<1>3. enabled \in BOOLEAN
  BY DEF CollapsedMode
<1>4. /\ collapsed' = [config |-> cfg, preference |-> pref, enabled |-> enabled]
      /\ entry' = IF enabled = collapsed.enabled THEN entry
                  ELSE synchronizeChannelActivity(entry, channel, channel.known, enabled)
  BY <1>1 DEF updateCollapsedThreadsMode
<1> HIDE DEF enabled
<1>5. collapsed' \in [config : Configs \cup {""}, preference : Preferences \cup {"none"},
                      enabled : BOOLEAN] /\ collapsed'.enabled = enabled
  BY <1>3, <1>4
<1>6. CASE enabled = collapsed.enabled
  BY <1>2, <1>4, <1>5, <1>6
<1>7. CASE enabled # collapsed.enabled /\ ~channel.known
  BY <1>2, <1>4, <1>5, <1>7 DEF synchronizeChannelActivity
<1>8. CASE enabled # collapsed.enabled /\ channel.known
  <2>1. entry' = synchronizeChannel(entry, channel, enabled)
    BY <1>4, <1>8 DEF synchronizeChannelActivity
  <2>2. CASE entry.tracked
    <3>1. PICK f : f = synchronizeChannel(entry, channel, enabled)
      OBVIOUS
    <3>2. /\ f \in Entry
          /\ f.tracked = entry.tracked /\ f.hasReadRoot = entry.hasReadRoot
          /\ f.readAll = entry.readAll /\ f.readRoot = entry.readRoot
          /\ f.runtimeUnread = entry.runtimeUnread
          /\ f.runtimeReplyUnread = entry.runtimeReplyUnread
      BY <1>2, <1>3, <2>2, <3>1, Synchronize
    <3>3. /\ f.rootMode <=> enabled /\ entry.hasReadRoot
          /\ f.serverUnread <=> IF f.rootMode THEN channel.root > entry.readRoot
                                ELSE channel.all > entry.readAll
      BY <1>2, <1>3, <2>2, <3>1, Synchronize
    <3>4. entry' = f
      BY <2>1, <3>1
    <3> QED BY <1>5, <1>8, <2>2, <3>2, <3>3, <3>4
  <2>3. CASE ~entry.tracked
    BY <1>2, <1>3, <1>5, <1>8, <2>1, <2>3, Synchronize
  <2> QED BY <2>2, <2>3
<1> QED BY <1>6, <1>7, <1>8

LEMMA SettingShape ==
    ASSUME Shape, Setting
    PROVE  Shape'
<1>1. /\ UNCHANGED <<posts, serverRead, config, preference, stream, calls, members, channels,
                     channel, views, marks, faults, missed, crossed, rootViewed>>
      /\ settings' \in [{"config", "preferences"} -> Stages]
  BY DEF Setting, retrieveClientConfig, retrieveChannelPreferences, server, budgets, history,
         Shape, TypeOK, Stages
<1>2. TypeOK'
  BY <1>1, SettingEntry DEF Shape, TypeOK
<1>3. Totalled' /\ CallsNamed'
  BY <1>1, TotalsKept DEF Shape, CallsNamed
<1>4. Decided'
  BY SettingEntry, <1>1 DEF Shape, Decided
<1> QED BY <1>2, <1>3, <1>4 DEF Shape

\* The oldest event is handled.
LEMMA RecordShape ==
    ASSUME Shape, recordChannelPost
    PROVE  Shape'
<1>1. /\ stream # <<>> /\ Head(stream) # Viewed /\ stream' = Tail(stream)
      /\ UNCHANGED <<posts, serverRead, config, preference, calls, members, channels, settings,
                     channel, collapsed, views, marks, faults, crossed, rootViewed>>
      /\ \/ channel.known /\ entry' = recordPost(entry, posts[Head(stream)]) /\ missed' = missed
         \/ ~channel.known /\ missed' = TRUE /\ entry' = entry
  BY DEF recordChannelPost, server, loads, budgets
<1>2. TypeOK /\ entry \in Entry
  BY DEF Shape, TypeOK
<1>3. /\ stream' \in Seq(Counts) /\ DOMAIN stream' = 1 .. Len(stream) - 1
      /\ \A k \in 1 .. Len(stream) - 1 : stream'[k] = stream[k + 1]
      /\ Head(stream) = stream[1] /\ stream[1] \in 0 .. Len(posts)
  BY <1>1, <1>2, StreamTail
<1>4. \A k \in DOMAIN stream' : stream'[k] <= Len(posts')
  BY <1>1, <1>2, <1>3, TypeFacts
<1>5. Head(stream) \in 1 .. Len(posts) /\ posts[Head(stream)] \in Post
  BY <1>1, <1>2, <1>3, TypeFacts DEF Viewed
<1>6. CASE channel.known
  <2>1. entry' = recordPost(entry, posts[Head(stream)]) /\ missed' = missed
    BY <1>1, <1>6
  <2>2. entry' \in Entry /\ entry'.tracked /\ entry'.hasReadRoot = entry.hasReadRoot
        /\ entry'.rootMode = entry.rootMode
    BY <1>2, <1>5, <2>1, RecordPost
  <2>3. TypeOK'
    BY <1>1, <1>2, <1>3, <1>4, <2>1, <2>2 DEF TypeOK
  <2>4. Decided'
    BY <1>1, <1>6, <2>2 DEF Shape, Decided
  <2> QED BY <1>1, <2>3, <2>4, TotalsKept DEF Shape, CallsNamed
<1>7. CASE ~channel.known
  BY <1>1, <1>7, <1>2, <1>3, <1>4, TotalsKept DEF TypeOK, Shape, Decided, CallsNamed
<1> QED BY <1>6, <1>7

\* What a view does to the entry, applied here or announced by the server.
LEMMA ViewEntry ==
    ASSUME TypeOK, NEW f, f = view(entry) \/ f = notMentioned(view(entry))
    PROVE  /\ f \in Entry /\ f.tracked /\ f.hasReadRoot /\ f.rootMode = entry.rootMode
           /\ f.readRoot = Max({entry.readRoot, channel.root})
           /\ f.readAll = IF entry.rootMode THEN entry.readAll ELSE Max({entry.readAll, channel.all})
           /\ ~f.serverUnread /\ ~f.runtimeUnread
           /\ f.runtimeReplyUnread <=> entry.rootMode /\ entry.runtimeReplyUnread
<1>1. entry \in Entry /\ channel.all \in Counts /\ channel.root \in Counts
  BY DEF TypeOK
<1>2. PICK v : v = view(entry)
  OBVIOUS
<1>3. v = recordViewed(entry, channel)
  BY <1>2 DEF view
<1>4. /\ v \in Entry /\ v.tracked /\ v.hasReadRoot /\ v.rootMode = entry.rootMode
      /\ v.readRoot = Max({entry.readRoot, channel.root})
      /\ v.readAll = IF entry.rootMode THEN entry.readAll ELSE Max({entry.readAll, channel.all})
      /\ ~v.serverUnread /\ ~v.runtimeUnread
      /\ v.runtimeReplyUnread <=> entry.rootMode /\ entry.runtimeReplyUnread
  BY <1>1, <1>3, RecordViewed
<1>5. SameRead(v, notMentioned(v))
  BY <1>4, MentionAndMute
<1>6. CASE f = v
  BY <1>4, <1>6
<1>7. CASE f = notMentioned(v)
  BY <1>5, <1>7, <1>4 DEF SameRead
<1> QED BY <1>2, <1>6, <1>7

LEMMA ViewedShape ==
    ASSUME Shape, channelViewed
    PROVE  Shape'
<1>1. /\ stream # <<>> /\ stream' = Tail(stream)
      /\ UNCHANGED <<posts, serverRead, config, preference, calls, members, channels, settings,
                     channel, collapsed, views, marks, faults, crossed>>
      /\ \/ channel.known /\ entry' = notMentioned(view(entry)) /\ Consumed /\ missed' = missed
         \/ ~channel.known /\ missed' = TRUE /\ entry' = entry /\ rootViewed' = rootViewed
  BY DEF channelViewed, server, loads, budgets
<1>2. TypeOK
  BY DEF Shape
<1>3. /\ stream' \in Seq(Counts) /\ DOMAIN stream' = 1 .. Len(stream) - 1
      /\ \A k \in 1 .. Len(stream) - 1 : stream'[k] = stream[k + 1]
  BY <1>1, <1>2, StreamTail
<1>4. \A k \in DOMAIN stream' : stream'[k] <= Len(posts')
  BY <1>1, <1>2, <1>3, TypeFacts
<1>5. CASE channel.known
  BY <1>1, <1>5, <1>2, ViewEntry, <1>3, <1>4, TotalsKept DEF Consumed, TypeOK, Shape, Decided,
     CallsNamed
<1>6. CASE ~channel.known
  BY <1>1, <1>6, <1>2, <1>3, <1>4, TotalsKept DEF TypeOK, Shape, Decided, CallsNamed
<1> QED BY <1>5, <1>6

\* The user views the channel or marks a post: a call leaves.
LEMMA CallLeaves ==
    ASSUME TypeOK, NEW id \in Nat, NEW kind \in {"view", "unread"}, NEW p \in Counts
    PROVE  LET c == [id |-> id, kind |-> kind, post |-> p, state |-> "sent", m |-> NoMembership]
           IN c \in Call /\ c.kind = kind /\ c.post = p /\ c.state = "sent"
BY TypeFacts, ServerTypes DEF Call, Stages

LEMMA AcknowledgeShape ==
    ASSUME Shape, acknowledgeChannelRead
    PROVE  Shape'
<1> DEFINE c == [id |-> views + 1, kind |-> "view", post |-> 0, state |-> "sent",
                 m |-> NoMembership]
<1>1. /\ views < MaxViews /\ views' = views + 1 /\ InSidebar
      /\ entry' = view(entry) /\ Consumed /\ calls' = calls \cup {c}
      /\ crossed' = (crossed \/ \E x \in calls : x.kind = "unread")
      /\ UNCHANGED <<posts, serverRead, config, preference, stream, members, channels, settings,
                     channel, collapsed, marks, faults, missed>>
  BY DEF acknowledgeChannelRead, server, loads
<1>2. TypeOK /\ views \in Nat
  <2>1. TypeOK /\ views \in 0 .. MaxViews
    BY DEF Shape, TypeOK
  <2> QED BY <2>1, Numbers
<1>3. c \in Call /\ c.kind = "view"
  BY <1>2, Numbers, CallLeaves
<1> HIDE DEF c
<1>4. calls' \subseteq Call /\ CallsNamed'
  BY <1>1, <1>2, <1>3 DEF Shape, CallsNamed, TypeOK
<1>5. entry' \in Entry /\ entry'.tracked /\ entry'.hasReadRoot
      /\ entry'.rootMode = entry.rootMode
  BY <1>1, <1>2, ViewEntry
<1>6. rootViewed' \in BOOLEAN /\ crossed' \in BOOLEAN
  BY <1>1, Zenon DEF Consumed
<1>7. views' \in 0 .. MaxViews
  BY <1>1, <1>2, Numbers
<1>8. TypeOK'
  BY <1>1, <1>2, <1>4, <1>5, <1>6, <1>7 DEF TypeOK
<1>9. Decided'
  BY <1>1, <1>5 DEF InSidebar, Shape, Decided
<1> QED BY <1>1, <1>4, <1>8, <1>9, TotalsKept DEF Shape

LEMMA MarkShape ==
    ASSUME Shape, NEW p \in DOMAIN posts, markPostUnread(p)
    PROVE  Shape'
<1> DEFINE c == [id |-> MaxViews + marks + 1, kind |-> "unread", post |-> p, state |-> "sent",
                 m |-> NoMembership]
<1>1. /\ marks < MaxMarks /\ marks' = marks + 1 /\ calls' = calls \cup {c}
      /\ crossed' = (\/ crossed \/ calls # {} \/ settings["config"] # "done"
                     \/ \E i \in DOMAIN stream : stream[i] = Viewed)
      /\ UNCHANGED <<posts, serverRead, config, preference, stream, members, channels, settings,
                     channel, entry, collapsed, views, faults, missed, rootViewed>>
  BY DEF markPostUnread, server, loads, client
<1>2. TypeOK /\ marks \in Nat /\ MaxViews \in Nat
  <2>1. TypeOK /\ marks \in 0 .. MaxMarks
    BY DEF Shape, TypeOK
  <2> QED BY <2>1, Numbers
<1>3. p \in 1 .. Len(posts) /\ p \in Counts
  BY <1>2, TypeFacts, Numbers DEF Counts
<1>4. c \in Call /\ c.post = p
  BY <1>2, <1>3, CallLeaves
<1> HIDE DEF c
<1>5. calls' \subseteq Call /\ CallsNamed'
  BY <1>1, <1>2, <1>3, <1>4 DEF Shape, CallsNamed, TypeOK
<1>6. crossed' \in BOOLEAN
  BY <1>1, Zenon
<1>7. marks' \in 0 .. MaxMarks
  BY <1>1, <1>2, Numbers
<1>8. TypeOK'
  BY <1>1, <1>2, <1>5, <1>6, <1>7 DEF TypeOK
<1>9. Decided'
  BY <1>1 DEF Shape, Decided
<1> QED BY <1>1, <1>5, <1>8, <1>9, TotalsKept DEF Shape

LEMMA UnreadAnsweredShape ==
    ASSUME Shape, NEW c \in calls, unreadAnswered(c)
    PROVE  Shape'
<1>1. /\ calls' = calls \ {c}
      /\ entry' = IF c.state = "answered" THEN markUnread(entry, c.m) ELSE entry
      /\ UNCHANGED <<posts, serverRead, config, preference, stream, members, channels, settings,
                     channel, collapsed, views, marks, faults, missed, crossed, rootViewed>>
  BY DEF unreadAnswered, server, loads, budgets, history
<1>2. TypeOK /\ c.m \in Membership /\ entry \in Entry
  BY DEF Shape, TypeOK, Call
<1>3. CASE c.state = "answered"
  BY <1>1, <1>2, <1>3, MarkUnread, TotalsKept DEF TypeOK, Shape, Decided, CallsNamed
<1>4. CASE c.state # "answered"
  <2>1. entry' = entry
    BY <1>1, <1>4
  <2>2. TypeOK'
    BY <1>1, <1>2, <2>1 DEF TypeOK
  <2>3. Decided'
    BY <1>1, <2>1 DEF Shape, Decided
  <2> QED BY <1>1, <2>2, <2>3, TotalsKept DEF Shape, CallsNamed
<1> QED BY <1>3, <1>4

LEMMA MutedShape ==
    ASSUME Shape, setChannelMuted
    PROVE  Shape' /\ SameRead(entry, entry')
<1>1. /\ entry' = [entry EXCEPT !.muted = ~@]
      /\ UNCHANGED <<posts, serverRead, config, preference, stream, calls, members, channels,
                     settings, channel, collapsed, views, marks, faults, missed, crossed,
                     rootViewed>>
  BY DEF setChannelMuted, server, loads, budgets, history
<1>2. SameRead(entry, entry')
  BY <1>1, MentionAndMute DEF Shape, TypeOK
<1>3. TypeOK'
  BY <1>1, <1>2 DEF Shape, TypeOK, SameRead
<1>4. Decided'
  BY <1>1, <1>2 DEF Shape, Decided, SameRead
<1> QED BY <1>1, <1>2, <1>3, <1>4, TotalsKept DEF Shape, CallsNamed

LEMMA ShapeStep == Shape /\ [Next]_vars => Shape'
<1> SUFFICES ASSUME Shape, [Next]_vars PROVE Shape'
  OBVIOUS
<1>1. CASE Next
  BY CreateShape, ViewElsewhereShape, AnswerShape, ServeShape, MembershipsShape, ChannelsShape,
     SettingShape, RecordShape, ViewedShape, AcknowledgeShape, MarkShape, UnreadAnsweredShape,
     MutedShape, <1>1 DEF Setting, Next
<1>2. CASE UNCHANGED vars
  <2>1. UNCHANGED <<posts, serverRead, config, preference, stream, calls, members, channels,
                    settings, channel, entry, collapsed, views, marks, faults, missed, crossed,
                    rootViewed>>
    BY <1>2 DEF vars, server, loads, client, budgets, history
  <2>2. TypeOK'
    BY <2>1 DEF Shape, TypeOK
  <2>3. Decided' /\ CallsNamed' /\ Totalled'
    BY <2>1, TotalsKept DEF Shape, Decided, CallsNamed
  <2> QED BY <2>2, <2>3 DEF Shape
<1> QED BY <1>1, <1>2

\* Every variable keeps its type, with which calls refer to posts that exist, totals are what
\* the server once had, and the domain that counts is decided by what has been loaded.
THEOREM TypeCorrect == Spec => []TypeOK
<1>1. Shape => TypeOK
  BY DEF Shape
<1> QED BY <1>1, ShapeInit, ShapeStep, PTL DEF Spec

-------------------------------------------------------------------------------
(* What is unread on the server and what the client knows of it.               *)

\* Where views are in the stream as events join it and leave it.
LEMMA PastAppend ==
    ASSUME TypeOK, NEW v \in Counts, stream' = Append(stream, v)
    PROVE  /\ v # Viewed => /\ ViewComing' <=> ViewComing
                            /\ \A k \in DOMAIN stream : Past(k)' <=> Past(k)
                            /\ \A k : k = Len(stream) + 1 => Past(k)'
           /\ v = Viewed => ViewComing' /\ \A k \in DOMAIN stream' : ~Past(k)'
BY TypeFacts, StreamAppend DEF ViewComing, Past

LEMMA PastTail ==
    ASSUME TypeOK, stream # <<>>, stream' = Tail(stream)
    PROVE  /\ \A k \in 1 .. Len(stream) - 1 : Past(k)' <=> Past(k + 1)
           /\ ViewComing' => ViewComing
           /\ Head(stream) # Viewed => (ViewComing' <=> ViewComing)
           /\ Past(1) <=> ~ViewComing
           /\ Head(stream) = Viewed => ViewComing
<1>1. /\ DOMAIN stream = 1 .. Len(stream) /\ Len(stream) \in Nat
      /\ Len(stream') = Len(stream) - 1 /\ DOMAIN stream' = 1 .. Len(stream) - 1
      /\ \A k \in 1 .. Len(stream) - 1 : stream'[k] = stream[k + 1]
      /\ Head(stream) = stream[1] /\ Len(stream) >= 1
  BY TypeFacts, StreamTail
<1>2. \A k \in 1 .. Len(stream) - 1 : Past(k)' <=> Past(k + 1)
  <2> SUFFICES ASSUME NEW k \in 1 .. Len(stream) - 1 PROVE Past(k)' <=> Past(k + 1)
    OBVIOUS
  <2>1. ASSUME Past(k + 1), NEW j \in k .. Len(stream) - 1 PROVE stream'[j] # Viewed
    BY <1>1, <2>1 DEF Past
  <2>2. ASSUME Past(k)', NEW j \in k + 1 .. Len(stream) PROVE stream[j] # Viewed
    <3>1. j - 1 \in k .. Len(stream) - 1 /\ j - 1 \in 1 .. Len(stream) - 1
      BY <1>1
    <3>2. stream'[j - 1] # Viewed
      BY <1>1, <2>2, <3>1 DEF Past
    <3>3. stream'[j - 1] = stream[(j - 1) + 1] /\ (j - 1) + 1 = j
      BY <1>1, <3>1
    <3> QED BY <3>2, <3>3
  <2> QED BY <1>1, <2>1, <2>2 DEF Past
<1>3. ViewComing' => ViewComing
  BY <1>1 DEF ViewComing
<1>4. Head(stream) # Viewed /\ ViewComing => ViewComing'
  <2> SUFFICES ASSUME Head(stream) # Viewed, NEW k \in DOMAIN stream, stream[k] = Viewed
               PROVE  ViewComing'
    BY DEF ViewComing
  <2>1. k # 1 /\ k - 1 \in DOMAIN stream'
    BY <1>1
  <2>2. stream'[k - 1] = stream[(k - 1) + 1] /\ (k - 1) + 1 = k
    BY <1>1, <2>1
  <2> QED BY <2>1, <2>2 DEF ViewComing
<1>5. Past(1) <=> ~ViewComing
  BY <1>1 DEF Past, ViewComing
<1>6. Head(stream) = Viewed => ViewComing
  BY <1>1 DEF ViewComing
<1> QED BY <1>2, <1>3, <1>4, <1>5, <1>6

LEMMA PastSame ==
    ASSUME UNCHANGED stream
    PROVE  (ViewComing' <=> ViewComing) /\ \A k : Past(k)' <=> Past(k)
BY DEF ViewComing, Past

\* Without a view on its way every event is past the last one.
LEMMA AllPast ==
    ASSUME TypeOK, ~ViewComing, NEW k \in DOMAIN stream
    PROVE  Past(k)
BY TypeFacts DEF ViewComing, Past

LEMMA RestInit == Init => Rest
<1> SUFFICES ASSUME Init PROVE Rest
  OBVIOUS
<1>1. /\ calls = {} /\ stream = <<>> /\ marks = 0 /\ entry = NoEntry /\ members.stage = "sent"
      /\ channels.stage = "sent"
  BY DEF Init
<1>2. TypeOK
  BY ShapeInit DEF Shape
<1>3. Len(posts) \in Nat /\ serverRead \in Nat
  BY <1>2, TypeFacts
<1>4. ~Viewing /\ ~Marking /\ ~ViewComing /\ DOMAIN stream = {}
  BY <1>1 DEF Viewing, Marking, ViewComing
<1>5. Alone
  BY <1>1, <1>4 DEF Alone
<1>6. Compared /\ MembershipHeld /\ StreamBehind
  BY <1>1, <1>4 DEF Compared, MembershipHeld, StreamBehind
<1>7. AllAccounted
  BY <1>4, <1>1, <1>2, <1>3, TypeFacts, RootsFacts, Numbers, NoEntryIs DEF AllAccounted, Accounted,
     Counted, InTotals, Behind
<1>8. NotedBehind
  BY <1>1, NoEntryIs DEF NotedBehind
<1> QED BY <1>5, <1>6, <1>7, <1>8 DEF Rest

LEMMA CleanKept == ASSUME Shape, [Next]_vars, Clean' PROVE Clean
<1>1. faults \in Nat
  <2>1. faults \in 0 .. MaxFaults
    BY DEF Shape, TypeOK
  <2> QED BY <2>1, Numbers
<1>2. (missed => missed') /\ (crossed => crossed') /\ faults' >= faults
  <2>1. CASE Next
    <3>1. ASSUME NEW p \in Post, CreatePost(p) PROVE UNCHANGED <<missed, crossed, faults>>
      BY <3>1 DEF CreatePost, budgets, history
    <3>2. ASSUME ViewElsewhere PROVE UNCHANGED <<missed, faults>> /\ (crossed => crossed')
      BY <3>2 DEF ViewElsewhere
    <3>3. ASSUME NEW f \in BOOLEAN, AnswerMembers(f)
          PROVE  UNCHANGED <<missed, crossed>> /\ faults' >= faults
      BY <3>3, Faults DEF AnswerMembers, history, Shape
    <3>4. ASSUME NEW c \in calls, NEW f \in BOOLEAN, ServeCall(c, f)
          PROVE  UNCHANGED <<missed, crossed>> /\ faults' >= faults
      BY <3>4, Faults DEF ServeCall, history, Shape
    <3>5. ASSUME \/ AnswerChannels \/ retrieveChannelMemberships
                 \/ retrieveOwnChannelMembershipsForTeam
                 \/ retrieveClientConfig \/ retrieveChannelPreferences \/ setChannelMuted
          PROVE  UNCHANGED <<missed, crossed, faults>>
      BY <3>5 DEF AnswerChannels, retrieveChannelMemberships, retrieveClientConfig,
                  retrieveOwnChannelMembershipsForTeam, retrieveChannelPreferences,
                  setChannelMuted, budgets, history
    <3>6. ASSUME recordChannelPost \/ channelViewed
          PROVE  UNCHANGED <<crossed, faults>> /\ (missed => missed')
      BY <3>6 DEF recordChannelPost, channelViewed, budgets
    <3>7. ASSUME acknowledgeChannelRead PROVE UNCHANGED <<missed, faults>> /\ (crossed => crossed')
      BY <3>7 DEF acknowledgeChannelRead
    <3>8. ASSUME NEW p \in DOMAIN posts, markPostUnread(p)
          PROVE  UNCHANGED <<missed, faults>> /\ (crossed => crossed')
      BY <3>8 DEF markPostUnread
    <3>9. ASSUME NEW c \in calls, unreadAnswered(c) PROVE UNCHANGED <<missed, crossed, faults>>
      BY <3>9 DEF unreadAnswered, budgets, history
    <3> QED BY <1>1, <2>1, <3>1, <3>2, <3>3, <3>4, <3>5, <3>6, <3>7, <3>8, <3>9 DEF Next
  <2>2. CASE UNCHANGED vars
    BY <1>1, <2>2 DEF vars, budgets, history
  <2> QED BY <2>1, <2>2
<1>3. faults' = 0 => faults = 0
  BY <1>1, <1>2
<1> QED BY <1>2, <1>3 DEF Clean

\* A post that is created is behind the read mark, and announced.
LEMMA CreateRest ==
    ASSUME IInv, NEW p \in Post, CreatePost(p)
    PROVE  Rest'
<1>1. /\ posts' = Append(posts, p) /\ stream' = Append(stream, Len(posts) + 1)
      /\ Len(posts) < MaxPosts
      /\ UNCHANGED <<serverRead, calls, members, channels, settings, channel, entry, collapsed,
                     marks, faults, missed, crossed, rootViewed>>
  BY DEF CreatePost, loads, client, budgets, history
<1>2. /\ TypeOK /\ Totalled /\ CallsNamed /\ posts \in Seq(Post) /\ Len(posts) \in Nat
      /\ serverRead \in 0 .. Len(posts) /\ Len(posts) + 1 \in Counts /\ Len(posts) + 1 # Viewed
  BY <1>1, TypeFacts, Numbers DEF IInv, Shape, Counts, Viewed
<1>3. /\ Len(posts') = Len(posts) + 1
      /\ \A i \in 1 .. Len(posts) : posts'[i] = posts[i]
      /\ \A n \in 0 .. Len(posts) : RootsIn(n)' = RootsIn(n)
  BY <1>1, <1>2, RootsKept
<1>4. /\ DOMAIN stream = 1 .. Len(stream) /\ DOMAIN stream' = 1 .. Len(stream) + 1
      /\ Len(stream) \in Nat
      /\ \A k \in DOMAIN stream : stream'[k] = stream[k]
      /\ stream'[Len(stream) + 1] = Len(posts) + 1
  BY <1>1, <1>2, TypeFacts, StreamAppend
<1>5. /\ ViewComing' <=> ViewComing
      /\ \A k \in DOMAIN stream : Past(k)' <=> Past(k)
      /\ \A k : k = Len(stream) + 1 => Past(k)'
  BY <1>1, <1>2, PastAppend
<1>6. (Clean' <=> Clean) /\ (Viewing' <=> Viewing) /\ (Marking' <=> Marking)
  BY <1>1 DEF Clean, Viewing, Marking
<1>7. (MarkStands => MarkStands') /\ \A b \in BOOLEAN : At(b) => At(b)'
  BY <1>1, <1>2, <1>3 DEF CountsBehind, CountsHere, At, MarkStands
<1>8. Alone'
  BY <1>1, <1>2, <1>3, <1>5, <1>6 DEF IInv, Rest, Alone, CallsNamed, TotalsLoaded
<1>9. Compared'
  BY <1>1, <1>6 DEF IInv, Rest, Compared, TotalsUnread
<1>10. AllAccounted'
  BY <1>1, <1>3, <1>6, <1>4, <1>5, <1>2 DEF AllAccounted, Accounted, IInv, Rest, Noted, Counted,
     InTotals, Behind
<1>11. StreamBehind'
  BY <1>1, <1>6, <1>2, <1>4, <1>5, <1>7 DEF StreamBehind, IInv, Rest
<1>12. NotedBehind'
  BY <1>1, <1>5, <1>6, <1>7 DEF IInv, Rest, NotedBehind
<1>13. MembershipHeld'
  BY <1>1, <1>2, <1>3, <1>5, <1>6 DEF ReadUp, IInv, Rest, MembershipHeld
<1> QED BY <1>8, <1>9, <1>10, <1>11, <1>12, <1>13 DEF Rest

\* When the server records a view, every post that comes later is announced after it.
LEMMA ServerViews ==
    ASSUME IInv, serverRead' = Len(posts), stream' = Append(stream, Viewed),
           UNCHANGED <<posts, members, channels, settings, channel, entry, collapsed, marks,
                       faults, missed, rootViewed>>, Clean' => Clean, Alone'
    PROVE  Rest'
<1>1. TypeOK /\ Viewed \in Counts /\ Len(posts) \in Nat
  BY TypeFacts, Numbers DEF IInv, Shape, Viewed
<1>2. ViewComing' /\ \A k \in DOMAIN stream' : ~Past(k)'
  BY <1>1, PastAppend
<1>3. serverRead' + 1 .. Len(posts') = {}
  BY <1>1
<1>4. Compared'
  BY DEF IInv, Rest, Compared, TotalsUnread
<1>5. AllAccounted'
  BY <1>3 DEF AllAccounted
<1>6. StreamBehind' /\ NotedBehind' /\ MembershipHeld'
  BY <1>2 DEF StreamBehind, NotedBehind, MembershipHeld
<1> QED BY <1>4, <1>5, <1>6 DEF Rest

LEMMA ViewElsewhereRest ==
    ASSUME IInv, ViewElsewhere, Clean' => Clean
    PROVE  Rest'
BY ServerViews DEF ViewElsewhere, loads, client, Clean, Marking, IInv, Rest, Alone, TotalsLoaded

\* Nothing was marked before everything was loaded.
LEMMA Unmarked ==
    ASSUME IInv, Clean, ~TotalsLoaded
    PROVE  marks = 0 /\ ~Marking
<1>1. marks \in Nat
  <2>1. marks \in 0 .. MaxMarks
    BY DEF IInv, Shape, TypeOK
  <2> QED BY <2>1, Numbers
<1> QED BY <1>1 DEF IInv, Rest, Alone

\* The server answers with what it has.
LEMMA AnswerMembersRest ==
    ASSUME IInv, NEW failed \in BOOLEAN, AnswerMembers(failed), Clean' => Clean
    PROVE  Rest'
<1>1. /\ members.stage = "sent" /\ fault(failed)
      /\ members' = IF failed THEN [members EXCEPT !.stage = "failed"]
                    ELSE [stage |-> "answered", m |-> MembershipAt(serverRead)]
      /\ UNCHANGED <<posts, serverRead, stream, calls, channels, settings,
                     channel, entry, collapsed, marks, missed, crossed, rootViewed>>
  BY DEF AnswerMembers, server, client, history
<1>2. TypeOK /\ serverRead \in 0 .. Len(posts) /\ Len(posts) \in Nat
  BY TypeFacts DEF IInv, Shape
<1>3. (failed => faults' > 0) /\ (~failed => faults' = faults)
  BY <1>1, <1>2, Faults
<1>4. Clean' => ~failed /\ marks = 0 /\ ~Marking /\ Clean
  BY <1>1, <1>3, Unmarked DEF Clean, TotalsLoaded
<1>5. ~failed => /\ members'.stage = "answered" /\ members'.m.all = serverRead
                 /\ members'.m.root = RootsIn(serverRead)
  BY <1>1, <1>2, TypeFacts, ServerTypes
<1>6. /\ (Viewing' <=> Viewing) /\ (Marking' <=> Marking) /\ (ViewComing' <=> ViewComing)
      /\ \A k : Past(k)' <=> Past(k)
      /\ \A n : RootsIn(n)' = RootsIn(n)
  BY <1>1, PastSame, RootsSame DEF Viewing, Marking
<1>7. Alone'
  BY <1>1, <1>4, <1>6 DEF IInv, Rest, Alone, Marking
<1>8. Compared'
  BY <1>4, <1>5 DEF Compared
<1>9. AllAccounted'
  BY <1>1, <1>6, <1>4, <1>2, TypeFacts, RootsFacts, <1>5 DEF AllAccounted, IInv, Rest, Noted,
     Counted, InTotals, Behind, Accounted
<1>10. StreamBehind'
  BY <1>1, <1>4, <1>6 DEF IInv, Rest, StreamBehind, MarkStands
<1>11. NotedBehind'
  BY <1>1, <1>4, <1>6 DEF At, MarkStands, CountsBehind, CountsHere, IInv, Rest, NotedBehind
<1>12. MembershipHeld'
  BY <1>1, <1>6, <1>2, TypeFacts, RootsFacts, Numbers, <1>5, <1>4 DEF ReadUp, MembershipHeld
<1> QED BY <1>7, <1>8, <1>9, <1>10, <1>11, <1>12 DEF Rest

LEMMA AnswerChannelsRest ==
    ASSUME IInv, AnswerChannels
    PROVE  Rest'
BY TypeFacts, ServerTypes, Unmarked, PastSame, RootsSame DEF AnswerChannels, server, client,
   budgets, history, IInv, Shape, Counted, TotalsLoaded, Clean, Viewing, Marking, Rest, Alone,
   Compared, TotalsUnread, Noted, InTotals, Behind, Accounted, AllAccounted, At, MarkStands,
   CountsBehind, CountsHere, StreamBehind, NotedBehind, ReadUp, MembershipHeld

\* The server serves a call.
LEMMA ServeRest ==
    ASSUME IInv, NEW c \in calls, NEW failed \in BOOLEAN, ServeCall(c, failed), Clean' => Clean
    PROVE  Rest'
<1> DEFINE d == [c EXCEPT !.state = IF failed THEN "failed" ELSE "answered",
                          !.m = IF failed THEN NoMembership ELSE MembershipAt(c.post - 1)]
<1>1. /\ fault(failed) /\ calls' = (calls \ {c}) \cup (IF c.kind = "view" THEN {} ELSE {d})
      /\ serverRead' = IF failed THEN serverRead ELSE IF c.kind = "view" THEN Len(posts) ELSE c.post - 1
      /\ stream' = IF c.kind = "view" /\ ~failed THEN Append(stream, Viewed) ELSE stream
      /\ UNCHANGED <<posts, members, channels, settings,
                     channel, entry, collapsed, marks, missed, crossed, rootViewed>>
  BY DEF ServeCall, loads, client, history
<1>2. TypeOK /\ c \in Call
  BY TypeFacts DEF IInv, Shape
<1>3. Clean' => ~failed /\ faults' = faults /\ Clean
  BY <1>1, <1>2, Faults DEF Clean
<1>5. /\ d.kind = c.kind /\ d.post = c.post
      /\ ~failed => d.state = "answered"
  BY <1>2 DEF Call
<1> HIDE DEF d
<1>6. \A x \in calls' : x \in calls \/ (x = d /\ c.kind = "unread")
  BY <1>1, <1>2 DEF Call
<1>7. marks = 0 => ~Marking'
  BY <1>5, <1>6 DEF IInv, Rest, Alone, Marking
<1>8. \A x \in calls' : x.kind = "view" => x.state = "sent"
  BY <1>5, <1>6 DEF IInv, Rest, Alone
<1>9. CASE ~Clean'
  <2>1. Alone'
    BY <1>1, <1>7, <1>8, <1>9 DEF Alone
  <2> QED BY <1>9, <2>1 DEF Rest, Compared, AllAccounted, StreamBehind, NotedBehind, MembershipHeld
<1>10. CASE Clean' /\ c.kind = "view"
  BY <1>1, <1>3, <1>10, <1>7, <1>8, ServerViews DEF IInv, Rest, Alone, Marking, TotalsLoaded
<1>11. CASE Clean' /\ c.kind = "unread"
  BY <1>1, <1>3, <1>5, <1>11, PastSame, <1>7, <1>8 DEF IInv, Rest, Alone, Marking, TotalsLoaded,
     Compared, AllAccounted, StreamBehind, NotedBehind, MembershipHeld
<1> QED BY <1>2, <1>9, <1>10, <1>11 DEF Call

\* Memberships raise what has been read, no further than the server's mark unless a view or
\* the totals reach there.
LEMMA MembershipsRest ==
    ASSUME IInv, retrieveChannelMemberships
    PROVE  Rest'
<1>1. /\ members.stage \in {"answered", "failed"}
      /\ members' = [members EXCEPT !.stage = "done", !.m = NoMembership]
      /\ UNCHANGED <<posts, serverRead, stream, calls, channels, settings,
                     channel, collapsed, marks, faults, missed, crossed, rootViewed>>
  BY DEF retrieveChannelMemberships, server, budgets, history
<1>2. TypeOK /\ members \in [stage : Stages, m : Membership] /\ entry \in Entry
      /\ Len(posts) \in Nat /\ serverRead \in 0 .. Len(posts)
  BY TypeFacts DEF IInv, Shape, TypeOK
<1>3. members'.stage = "done"
  BY <1>1, <1>2
<1>4. Clean => members.stage = "answered" /\ marks = 0 /\ ~Marking
  BY <1>1, Unmarked DEF IInv, Shape, Decided, Clean, TotalsLoaded
<1>5. Shape /\ (Clean => entry'.tracked)
  BY <1>4, MembershipsEntry DEF IInv
<1> DEFINE ma == members.m.all
           mr == members.m.root
<1>6. /\ entry.readAll \in Counts /\ entry.readRoot \in Counts /\ ma \in Counts /\ mr \in Counts
  BY <1>2 DEF Membership, Entry
<1>7. Clean => /\ entry'.readAll = Max({entry.readAll, ma})
               /\ entry'.readRoot = Max({entry.readRoot, mr})
  BY <1>4, <1>5, MembershipsEntry
<1> HIDE DEF ma, mr
<1>8. Clean => /\ entry'.readAll \in {entry.readAll, ma} /\ entry'.readRoot \in {entry.readRoot, mr}
               /\ entry'.readAll >= entry.readAll /\ entry'.readAll >= ma
               /\ entry'.readRoot >= entry.readRoot /\ entry'.readRoot >= mr
  BY <1>6, <1>7, MaxOfTwo
<1>9. /\ (Clean' <=> Clean) /\ (Viewing' <=> Viewing) /\ (Marking' <=> Marking)
      /\ (ViewComing' <=> ViewComing)
      /\ \A k : Past(k)' <=> Past(k)
      /\ \A n : RootsIn(n)' = RootsIn(n)
  BY <1>1, PastSame, RootsSame DEF Clean, Viewing, Marking
<1>10. Alone'
  BY <1>1, <1>4, <1>9 DEF IInv, Rest, Alone, Marking
<1>11. Compared'
  BY <1>1, <1>5, <1>9, MembershipsEntry DEF Compared, TotalsUnread
<1>12. entry'.runtimeUnread = entry.runtimeUnread
       /\ entry'.runtimeReplyUnread = entry.runtimeReplyUnread
  BY <1>5, MembershipsEntry
<1>13. AllAccounted'
  BY <1>1, <1>9, <1>4, <1>12, <1>8, <1>3 DEF AllAccounted, IInv, Rest, Noted, InTotals, ma, mr,
     Behind, Counted, Accounted
<1>14. StreamBehind'
  BY <1>1, <1>4, <1>9 DEF IInv, Rest, StreamBehind, MarkStands
<1>15. NotedBehind'
  BY <1>1, <1>4, <1>9, <1>12 DEF At, MarkStands, IInv, Rest, NotedBehind
<1>16. MembershipHeld'
  <2> SUFFICES ASSUME Clean, ~Viewing, ~ViewComing
               PROVE  ReadUp(entry.readAll, entry.readRoot)'
    BY <1>3, <1>9 DEF MembershipHeld
  <2>1. ReadUp(ma, mr)
    BY <1>4 DEF IInv, Rest, MembershipHeld, ma, mr
  <2>2. /\ RootsIn(serverRead) \in Nat /\ channel.all \in Nat /\ channel.root \in Nat
        /\ serverRead \in Nat
    BY <1>2, TypeFacts, RootsFacts, Numbers DEF TypeOK
  <2>3. /\ entry'.readAll \in Nat /\ entry'.readRoot \in Nat
        /\ entry.readAll \in Nat /\ entry.readRoot \in Nat /\ ma \in Nat /\ mr \in Nat
    BY <1>6, <1>8, Numbers
  <2>4. /\ \/ entry'.readAll >= serverRead \/ rootViewed
           \/ channel.known /\ entry'.readAll >= channel.all
        /\ \/ entry'.readRoot >= RootsIn(serverRead)
           \/ channel.known /\ entry'.readRoot >= channel.root
    BY <1>8, <2>1, <2>2, <2>3 DEF ReadUp
  <2> QED BY <1>1, <1>9, <2>4 DEF ReadUp
<1> QED BY <1>10, <1>11, <1>13, <1>14, <1>15, <1>16 DEF Rest

\* The totals arrive.
LEMMA ChannelsRest ==
    ASSUME IInv, retrieveOwnChannelMembershipsForTeam
    PROVE  Rest'
<1>1. /\ channels.stage = "answered" /\ channels' = [channels EXCEPT !.stage = "done"]
      /\ channel' = [known |-> TRUE, all |-> channels.t.all, root |-> channels.t.root]
      /\ UNCHANGED <<posts, serverRead, stream, calls, members, settings,
                     collapsed, marks, faults, missed, crossed, rootViewed>>
  BY DEF retrieveOwnChannelMembershipsForTeam, server, budgets, history
<1>2. /\ Shape /\ TypeOK /\ ~channel.known
      /\ channels \in [stage : Stages, t : Totals]
  BY <1>1 DEF IInv, Shape, Totalled, TypeOK
<1>3. /\ channels'.stage = "done" /\ channel'.all = channels.t.all
      /\ channel'.root = channels.t.root
  BY <1>1, <1>2
<1>4. Counted' = Counted
  BY <1>1, <1>3 DEF Counted
<1>5. Clean => marks = 0 /\ ~Marking
  BY <1>1, Unmarked DEF TotalsLoaded
<1>6. /\ (Clean' <=> Clean) /\ (Viewing' <=> Viewing) /\ (Marking' <=> Marking)
      /\ (ViewComing' <=> ViewComing)
      /\ \A k : Past(k)' <=> Past(k)
      /\ \A n : RootsIn(n)' = RootsIn(n)
  BY <1>1, PastSame, RootsSame DEF Clean, Viewing, Marking
<1>7. /\ entry'.readAll = entry.readAll /\ entry'.readRoot = entry.readRoot
      /\ entry'.runtimeUnread = entry.runtimeUnread
      /\ entry'.runtimeReplyUnread = entry.runtimeReplyUnread
  BY <1>2, ChannelsEntry
<1>8. Alone'
  BY <1>1, <1>5, <1>6 DEF IInv, Rest, Alone, Marking
<1>9. Compared'
  BY <1>2, <1>1, <1>6, <1>7, ChannelsEntry DEF Shape, Decided, Clean, Compared, TotalsUnread
<1>10. AllAccounted'
  BY <1>1, <1>7, <1>4, <1>6, <1>5 DEF Noted, InTotals, Behind, Accounted, IInv, Rest, AllAccounted
<1>11. StreamBehind'
  BY <1>1, <1>5, <1>6 DEF IInv, Rest, StreamBehind, MarkStands
<1>12. NotedBehind'
  BY <1>1, <1>5, <1>6, <1>7 DEF At, MarkStands, IInv, Rest, NotedBehind
<1>13. MembershipHeld'
  BY <1>1, <1>2, <1>6, <1>7 DEF ReadUp, IInv, Rest, MembershipHeld
<1> QED BY <1>8, <1>9, <1>10, <1>11, <1>12, <1>13 DEF Rest

\* The domain that counts is decided anew.
LEMMA SettingRest ==
    ASSUME IInv, Setting
    PROVE  Rest'
<1>1. /\ UNCHANGED <<posts, serverRead, stream, calls, members, channels,
                     channel, marks, faults, missed, crossed, rootViewed>>
      /\ settings["config"] = "sent" \/ settings["preferences"] = "sent"
  BY DEF Setting, retrieveClientConfig, retrieveChannelPreferences, server, budgets, history
<1>2. Shape
  BY DEF IInv
<1>3. Clean => marks = 0 /\ ~Marking
  BY <1>1, Unmarked DEF TotalsLoaded
<1>4. /\ (Clean' <=> Clean) /\ (Viewing' <=> Viewing) /\ (Marking' <=> Marking)
      /\ (ViewComing' <=> ViewComing) /\ Counted' = Counted
      /\ \A k : Past(k)' <=> Past(k)
      /\ \A n : RootsIn(n)' = RootsIn(n)
  BY <1>1, PastSame, RootsSame DEF Clean, Viewing, Marking, Counted
<1>5. /\ entry'.readAll = entry.readAll /\ entry'.readRoot = entry.readRoot
      /\ entry'.runtimeUnread = entry.runtimeUnread
      /\ entry'.runtimeReplyUnread = entry.runtimeReplyUnread
  BY <1>2, SettingEntry
<1>6. Alone'
  BY <1>1, <1>3, <1>4 DEF IInv, Rest, Alone, Marking
<1>7. Compared'
  BY <1>1, <1>4, <1>2, <1>5, SettingEntry DEF Compared, Shape, Decided, Clean, IInv, Rest,
     TotalsUnread
<1>8. AllAccounted'
  BY <1>1, <1>5, <1>4, <1>3 DEF Noted, InTotals, Behind, Accounted, IInv, Rest, AllAccounted
<1>9. StreamBehind'
  BY <1>1, <1>3, <1>4 DEF IInv, Rest, StreamBehind, MarkStands
<1>10. NotedBehind'
  BY <1>1, <1>3, <1>4, <1>5 DEF At, MarkStands, IInv, Rest, NotedBehind
<1>11. MembershipHeld'
  BY <1>1, <1>4, <1>5 DEF ReadUp, IInv, Rest, MembershipHeld
<1> QED BY <1>6, <1>7, <1>8, <1>9, <1>10, <1>11 DEF Rest

\* A post is noted when its event is handled.
LEMMA RecordRest ==
    ASSUME IInv, recordChannelPost, Clean' => Clean
    PROVE  Rest'
<1>1. /\ stream # <<>> /\ Head(stream) # Viewed /\ stream' = Tail(stream)
      /\ UNCHANGED <<posts, serverRead, calls, members, channels, settings,
                     channel, collapsed, marks, faults, crossed, rootViewed>>
      /\ \/ channel.known /\ entry' = recordPost(entry, posts[Head(stream)]) /\ missed' = missed
         \/ ~channel.known /\ missed' = TRUE /\ entry' = entry
  BY DEF recordChannelPost, server, loads, budgets
<1>2. TypeOK /\ entry \in Entry /\ Len(posts) \in Nat /\ serverRead \in 0 .. Len(posts)
  BY TypeFacts DEF IInv, Shape, TypeOK
<1> DEFINE h == stream[1]
<1>3. /\ Head(stream) = h /\ h \in 1 .. Len(posts) /\ posts[h] \in Post
      /\ DOMAIN stream = 1 .. Len(stream) /\ Len(stream) \in Nat /\ 1 \in DOMAIN stream
      /\ DOMAIN stream' = 1 .. Len(stream) - 1
      /\ \A k \in 1 .. Len(stream) - 1 : stream'[k] = stream[k + 1]
  BY <1>1, <1>2, StreamTail, TypeFacts DEF Viewed
<1>4. /\ \A k \in 1 .. Len(stream) - 1 : Past(k)' <=> Past(k + 1)
      /\ ViewComing' <=> ViewComing
      /\ Past(1) <=> ~ViewComing
  BY <1>1, <1>2, PastTail
<1>5. /\ (Viewing' <=> Viewing) /\ (Marking' <=> Marking) /\ Counted' = Counted
      /\ \A n : RootsIn(n)' = RootsIn(n)
  BY <1>1, RootsSame DEF Viewing, Marking, Counted
<1>6. /\ entry'.rootMode = entry.rootMode
      /\ entry'.readAll = entry.readAll /\ entry'.readRoot = entry.readRoot
      /\ entry'.serverUnread = entry.serverUnread
      /\ Clean' => /\ entry'.runtimeUnread <=> entry.runtimeUnread \/ ~posts[h].reply
                   /\ entry'.runtimeReplyUnread <=> entry.runtimeReplyUnread \/ posts[h].reply
  BY <1>2, <1>3, RecordPost, <1>1 DEF Clean
<1> HIDE DEF h
<1>7. (MarkStands' <=> MarkStands) /\ (At(TRUE)' <=> At(TRUE)) /\ (At(FALSE)' <=> At(FALSE))
  BY <1>1, <1>6 DEF MarkStands, CountsBehind, CountsHere, At
<1>8. Alone'
  BY <1>1, <1>4, <1>5, <1>6 DEF IInv, Rest, Alone, TotalsLoaded, Marking
<1>9. Compared'
  BY <1>1, <1>6 DEF IInv, Rest, Compared, TotalsUnread
<1>10. AllAccounted'
  <2> SUFFICES ASSUME Clean', ~Viewing, ~Marking, NEW i \in serverRead + 1 .. Len(posts)
               PROVE  Accounted(i)'
    BY <1>1, <1>5 DEF AllAccounted
  <2>1. Accounted(i)
    BY DEF IInv, Rest, AllAccounted
  <2>2. InTotals(i)' <=> InTotals(i)
    BY <1>1, <1>5, <1>6 DEF InTotals, Behind
  <2>3. Noted(i) => Noted(i)'
    BY <1>1, <1>6 DEF Noted
  <2>4. ASSUME NEW k \in DOMAIN stream, stream[k] = i, Past(k)
        PROVE  Accounted(i)'
    <3>1. CASE k = 1
      BY <1>4, <2>4, <3>1, <1>1, <1>6 DEF h, Noted, Accounted
    <3>2. CASE k # 1
      <4>1. PICK j \in 1 .. Len(stream) - 1 : j + 1 = k
        <5>1. k - 1 \in 1 .. Len(stream) - 1 /\ (k - 1) + 1 = k
          BY <1>3, <3>2
        <5> QED BY <5>1
      <4>2. stream'[j] = i /\ Past(j)' /\ j \in DOMAIN stream'
        BY <1>3, <1>4, <2>4, <4>1
      <4> QED BY <4>2 DEF Accounted
    <3> QED BY <3>1, <3>2
  <2>5. CASE ~ViewComing /\ (Noted(i) \/ (marks > 0 /\ entry.serverUnread) \/ InTotals(i))
    BY <1>1, <1>4, <1>6, <2>2, <2>3, <2>5 DEF Accounted
  <2> QED BY <2>1, <2>4, <2>5 DEF Accounted
<1>11. StreamBehind'
  BY <1>1, <1>5, <1>3, <1>4, <1>7 DEF StreamBehind, IInv, Rest
<1>12. NotedBehind'
  BY <1>1, <1>4, <1>5, <1>3, <1>2, <1>6, <1>7 DEF NotedBehind, IInv, Rest, StreamBehind, h, Post, At
<1>13. MembershipHeld'
  BY <1>1, <1>5, <1>6, <1>4 DEF ReadUp, IInv, Rest, MembershipHeld
<1> QED BY <1>8, <1>9, <1>10, <1>11, <1>12, <1>13 DEF Rest

\* A view reads up to the stored totals, except for the replies when root posts count.
LEMMA ViewReads ==
    ASSUME TypeOK, NEW f, f = view(entry) \/ f = notMentioned(view(entry))
    PROVE  /\ f.rootMode = entry.rootMode /\ ~f.serverUnread /\ ~f.runtimeUnread
           /\ f.runtimeReplyUnread => entry.rootMode
           /\ f.readRoot >= channel.root /\ ~(channel.root > f.readRoot)
           /\ ~entry.rootMode => f.readAll >= channel.all /\ ~(channel.all > f.readAll)
<1>1. /\ f.rootMode = entry.rootMode
      /\ f.readRoot = Max({entry.readRoot, channel.root})
      /\ f.readAll = IF entry.rootMode THEN entry.readAll ELSE Max({entry.readAll, channel.all})
      /\ ~f.serverUnread /\ ~f.runtimeUnread
      /\ f.runtimeReplyUnread <=> entry.rootMode /\ entry.runtimeReplyUnread
  BY ViewEntry
<1>2. /\ entry.readAll \in Counts /\ entry.readRoot \in Counts
      /\ channel.all \in Counts /\ channel.root \in Counts
  BY DEF TypeOK, Entry
<1>3. /\ Max({entry.readRoot, channel.root}) >= channel.root
      /\ Max({entry.readAll, channel.all}) >= channel.all
      /\ Max({entry.readRoot, channel.root}) \in Counts
      /\ Max({entry.readAll, channel.all}) \in Counts
  BY <1>2, MaxOfTwo
<1>4. f.readRoot \in Nat /\ f.readRoot >= channel.root
      /\ (~entry.rootMode => f.readAll \in Nat /\ f.readAll >= channel.all)
  BY <1>1, <1>3, Numbers
<1>5. channel.all \in Nat /\ channel.root \in Nat
  BY <1>2, Numbers
<1> QED BY <1>1, <1>4, <1>5

\* The view that was on its way arrives: what is announced after it stays announced.
LEMMA ViewedRest ==
    ASSUME IInv, channelViewed, Clean' => Clean
    PROVE  Rest'
<1>1. /\ stream # <<>> /\ Head(stream) = Viewed /\ stream' = Tail(stream)
      /\ UNCHANGED <<posts, serverRead, calls, members, channels, settings,
                     channel, collapsed, marks, faults, crossed>>
      /\ \/ channel.known /\ entry' = notMentioned(view(entry)) /\ Consumed /\ missed' = missed
         \/ ~channel.known /\ missed' = TRUE /\ entry' = entry /\ rootViewed' = rootViewed
  BY DEF channelViewed, server, loads, budgets
<1>2. TypeOK /\ Len(posts) \in Nat /\ serverRead \in 0 .. Len(posts)
  BY TypeFacts DEF IInv, Shape
<1>3. /\ Head(stream) = stream[1] /\ DOMAIN stream = 1 .. Len(stream) /\ Len(stream) \in Nat
      /\ DOMAIN stream' = 1 .. Len(stream) - 1
      /\ \A k \in 1 .. Len(stream) - 1 : stream'[k] = stream[k + 1]
  BY <1>1, <1>2, StreamTail, TypeFacts
<1>4. /\ \A k \in 1 .. Len(stream) - 1 : Past(k)' <=> Past(k + 1)
      /\ ViewComing
  BY <1>1, <1>2, PastTail
<1>5. (Viewing' <=> Viewing) /\ (Marking' <=> Marking)
  BY <1>1 DEF Viewing, Marking
<1>6. Clean' => ~Marking
  BY <1>4 DEF IInv, Rest, Alone, Marking
<1>7. Clean' => channel.known /\ entry' = notMentioned(view(entry)) /\ Consumed
  BY <1>1 DEF Clean
<1>8. Clean' => /\ entry'.rootMode = entry.rootMode
                /\ ~entry'.serverUnread /\ ~entry'.runtimeUnread
                /\ entry'.runtimeReplyUnread => entry.rootMode
                /\ entry'.readRoot >= channel.root /\ ~(channel.root > entry'.readRoot)
                /\ ~entry.rootMode =>
                     entry'.readAll >= channel.all /\ ~(channel.all > entry'.readAll)
  BY <1>2, <1>7, ViewReads
<1>9. Clean' => (entry.rootMode => rootViewed')
  BY <1>7 DEF Consumed
<1>10. Alone'
  BY <1>1, <1>5, <1>6 DEF IInv, Rest, Alone, TotalsLoaded, Marking
<1>11. Compared'
  BY <1>1, <1>8 DEF Compared, TotalsUnread
<1>12. AllAccounted'
  <2> SUFFICES ASSUME Clean', ~Viewing, ~Marking, NEW i \in serverRead + 1 .. Len(posts)
               PROVE  Accounted(i)'
    BY <1>1, <1>5 DEF AllAccounted
  <2>1. PICK k \in DOMAIN stream : stream[k] = i /\ Past(k)
    BY <1>4 DEF IInv, Rest, AllAccounted, Accounted
  <2>2. k # 1
    BY <1>1, <1>2, <1>3, <2>1 DEF Viewed
  <2>3. PICK j \in 1 .. Len(stream) - 1 : j + 1 = k
    <3>1. k - 1 \in 1 .. Len(stream) - 1 /\ (k - 1) + 1 = k
      BY <1>3, <2>2
    <3> QED BY <3>1
  <2>4. stream'[j] = i /\ Past(j)' /\ j \in DOMAIN stream'
    BY <1>3, <1>4, <2>1, <2>3
  <2> QED BY <2>4 DEF Accounted
<1>13. StreamBehind'
  BY <1>1, <1>5, <1>3, <1>4, <1>8 DEF StreamBehind, MarkStands, CountsBehind, CountsHere, IInv, Rest
<1>14. NotedBehind'
  BY <1>8, <1>9 DEF NotedBehind
<1>15. MembershipHeld'
  BY <1>1, <1>7, <1>8, <1>9 DEF ReadUp, MembershipHeld
<1> QED BY <1>10, <1>11, <1>12, <1>13, <1>14, <1>15 DEF Rest

\* While the view the user made here is on its way to the server nothing is settled.
LEMMA AcknowledgeRest ==
    ASSUME IInv, acknowledgeChannelRead, Clean' => Clean
    PROVE  Rest'
<1> DEFINE c == [id |-> views + 1, kind |-> "view", post |-> 0, state |-> "sent",
                 m |-> NoMembership]
<1>1. /\ InSidebar /\ entry' = view(entry) /\ calls' = calls \cup {c}
      /\ crossed' = (crossed \/ \E x \in calls : x.kind = "unread")
      /\ UNCHANGED <<posts, serverRead, stream, members, channels, settings,
                     channel, collapsed, marks, faults, missed>>
  BY DEF acknowledgeChannelRead, server, loads
<1>2. c.kind = "view" /\ c.state = "sent"
  OBVIOUS
<1> HIDE DEF c
<1>3. Viewing' /\ (Marking' <=> Marking)
  BY <1>1, <1>2 DEF Viewing, Marking
<1>4. Clean' => ~Marking
  BY <1>1 DEF Clean, Marking
<1>5. Alone'
  BY <1>1, <1>2, <1>3, <1>4 DEF IInv, Rest, Alone, TotalsLoaded, Marking
<1>6. Compared'
  BY <1>1, ViewReads DEF IInv, Shape, Compared, TotalsUnread
<1> QED BY <1>3, <1>5, <1>6
    DEF Rest, AllAccounted, StreamBehind, NotedBehind, MembershipHeld

\* A mark that crosses nothing begins alone.
LEMMA MarkRest ==
    ASSUME IInv, NEW p \in DOMAIN posts, markPostUnread(p), Clean' => Clean
    PROVE  Rest'
<1> DEFINE c == [id |-> MaxViews + marks + 1, kind |-> "unread", post |-> p, state |-> "sent",
                 m |-> NoMembership]
<1>1. /\ marks' = marks + 1 /\ InSidebar /\ (collapsed.enabled => ~posts[p].reply)
      /\ calls' = calls \cup {c}
      /\ crossed' = (\/ crossed \/ calls # {} \/ settings["config"] # "done"
                     \/ \E i \in DOMAIN stream : stream[i] = Viewed)
      /\ UNCHANGED <<posts, serverRead, stream, members, channels, settings,
                     channel, entry, collapsed, faults, missed, rootViewed>>
  BY DEF markPostUnread, server, loads, client
<1>2. c.kind = "unread" /\ c.state = "sent" /\ c.post = p
  OBVIOUS
<1> HIDE DEF c
<1>3. marks \in Nat
  <2>1. marks \in 0 .. MaxMarks
    BY DEF IInv, Shape, TypeOK
  <2> QED BY <2>1, Numbers
<1>4. Marking' /\ marks' > 0 /\ marks' # 0
  BY <1>1, <1>2, <1>3 DEF Marking
<1>5. Clean' => calls = {} /\ settings["config"] = "done" /\ ~ViewComing'
  BY <1>1 DEF Clean, ViewComing
<1>6. Clean' => TotalsLoaded'
  BY <1>1, <1>5 DEF IInv, Shape, Totalled, InSidebar, TotalsLoaded
<1>7. entry'.rootMode => ~posts'[p].reply
  BY <1>1 DEF IInv, Shape, Decided
<1>8. \A x \in calls' : x.kind = "view" => x.state = "sent"
  BY <1>1, <1>2 DEF IInv, Rest, Alone
<1>9. Clean' => calls' = {c}
  BY <1>1, <1>5
<1>10. Alone'
  BY <1>2, <1>4, <1>5, <1>6, <1>7, <1>8, <1>9 DEF Alone
<1> QED BY <1>4, <1>10
    DEF Rest, Compared, AllAccounted, StreamBehind, NotedBehind, MembershipHeld

\* The answer to a mark that crossed nothing leaves the channel unread, as the server has it.
LEMMA UnreadAnsweredRest ==
    ASSUME IInv, NEW c \in calls, unreadAnswered(c)
    PROVE  Rest'
<1>1. /\ c.kind = "unread" /\ c.state # "sent" /\ calls' = calls \ {c}
      /\ entry' = IF c.state = "answered" THEN markUnread(entry, c.m) ELSE entry
      /\ UNCHANGED <<posts, serverRead, stream, members, channels, settings,
                     channel, collapsed, marks, faults, missed, crossed, rootViewed>>
  BY DEF unreadAnswered, server, loads, budgets, history
<1>2. TypeOK /\ c \in Call /\ c.m \in Membership /\ entry \in Entry
  BY DEF IInv, Shape, TypeOK, Call
<1>3. (Clean' <=> Clean) /\ (ViewComing' <=> ViewComing)
  BY <1>1, PastSame DEF Clean
<1>4. Marking /\ marks # 0 /\ marks > 0
  <2>1. marks \in 0 .. MaxMarks
    BY <1>2 DEF TypeOK
  <2>2. Marking
    BY <1>1 DEF Marking
  <2> QED BY <2>1, <2>2, Numbers DEF IInv, Rest, Alone
<1>5. CASE ~Clean
  BY <1>1, <1>3, <1>4, <1>5 DEF IInv, Rest, Alone, Compared, AllAccounted, StreamBehind,
     NotedBehind, MembershipHeld
<1>6. CASE Clean
  <2>1. /\ calls = {c} /\ ~ViewComing /\ c.state \in {"sent", "answered"}
        /\ (entry.rootMode => ~posts[c.post].reply)
        /\ (c.state = "answered" => serverRead = c.post - 1)
    BY <1>1, <1>6 DEF IInv, Rest, Alone
  <2>2. c.state = "answered" /\ serverRead = c.post - 1 /\ calls' = {}
    BY <1>1, <2>1
  <2>3. entry'.rootMode = entry.rootMode /\ entry'.serverUnread
    BY <1>1, <1>2, <2>2, MarkUnread
  <2>4. MarkStands'
    BY <1>1, <1>2, TypeFacts, <2>2, <1>4, <2>1, <2>3 DEF IInv, Shape, CallsNamed, MarkStands,
       CountsBehind, CountsHere
  <2>5. Alone'
    BY <1>1, <1>3, <1>6, <2>2 DEF IInv, Rest, Alone, TotalsLoaded, Marking
  <2>6. Compared' /\ MembershipHeld'
    BY <1>1, <1>4 DEF Compared, MembershipHeld
  <2>7. AllAccounted'
    BY <1>1, <1>3, <1>4, <2>1, <2>3 DEF AllAccounted, Accounted
  <2>8. StreamBehind' /\ NotedBehind'
    BY <2>3, <2>4, <1>2, MarkUnread, <1>1, <2>2 DEF StreamBehind, NotedBehind
  <2> QED BY <2>5, <2>6, <2>7, <2>8 DEF Rest
<1> QED BY <1>5, <1>6

\* Muting leaves what is read and noted, and so does a stutter.
LEMMA SameRest ==
    ASSUME IInv, SameRead(entry, entry'),
           UNCHANGED <<posts, serverRead, stream, calls, members, channels, settings,
                       channel, collapsed, marks, faults, missed, crossed, rootViewed>>
    PROVE  Rest'
BY PastSame, RootsSame DEF SameRead, Clean, Viewing, Marking, Counted, MarkStands, CountsBehind,
   CountsHere, At, IInv, Rest, Alone, TotalsLoaded, Compared, TotalsUnread, Noted, InTotals, Behind,
   Accounted, AllAccounted, StreamBehind, NotedBehind, ReadUp, MembershipHeld

LEMMA MutedRest ==
    ASSUME IInv, setChannelMuted \/ UNCHANGED vars
    PROVE  Rest'
BY MutedShape, SameRest DEF setChannelMuted, vars, server, loads, client, budgets, history, IInv,
   Shape, TypeOK, SameRead

LEMMA Step == IInv /\ [Next]_vars => IInv'
BY ShapeStep, CleanKept, CreateRest, ViewElsewhereRest, AnswerMembersRest, AnswerChannelsRest,
   ServeRest, MembershipsRest, ChannelsRest, SettingRest, RecordRest, ViewedRest, AcknowledgeRest,
   MarkRest, UnreadAnsweredRest, MutedRest DEF IInv, Setting, Next

LEMMA Invariant == Spec => []IInv
<1>1. Init => IInv
  BY ShapeInit, RestInit DEF IInv
<1> QED BY <1>1, Step, PTL DEF Spec

-------------------------------------------------------------------------------
(* What the channel is shown as once everything has arrived.                   *)

\* What holds when everything has arrived and nothing was lost.
LEMMA SettledFacts ==
    ASSUME IInv, Settled, ~missed, ~crossed
    PROVE  /\ Clean /\ ~Viewing /\ ~Marking /\ ~ViewComing /\ DOMAIN stream = {}
           /\ channel.known /\ entry.tracked /\ members.stage = "done" /\ Counted = channel.all
           /\ marks \in Nat /\ serverRead \in 0 .. Len(posts) /\ Len(posts) \in Nat
           /\ DOMAIN posts = 1 .. Len(posts)
           /\ channel.all \in 0 .. Len(posts) /\ channel.root = RootsIn(channel.all)
           /\ entry.readAll \in Nat /\ entry.readRoot \in Nat
<1>1. /\ stream = <<>> /\ calls = {} /\ faults = 0
      /\ members.stage = "done" /\ channels.stage = "done"
  BY DEF Settled
<1>2. Clean /\ ~Viewing /\ ~Marking /\ ~ViewComing /\ DOMAIN stream = {}
  BY <1>1 DEF Clean, Viewing, Marking, ViewComing
<1>3. channel.known /\ entry.tracked /\ Counted = channel.all
      /\ channel.all <= Len(posts) /\ channel.root = RootsIn(channel.all)
  BY <1>1 DEF IInv, Shape, Totalled, Decided, Counted
<1>4. TypeOK
  BY DEF IInv, Shape
<1>5. /\ marks \in Nat /\ channel.all \in Nat
      /\ entry.readAll \in Nat /\ entry.readRoot \in Nat
  <2>1. /\ marks \in 0 .. MaxMarks /\ channel.all \in Counts
        /\ entry.readAll \in Counts /\ entry.readRoot \in Counts
    BY <1>4 DEF TypeOK, Entry
  <2> QED BY <2>1, Numbers
<1>6. /\ serverRead \in 0 .. Len(posts) /\ Len(posts) \in Nat /\ DOMAIN posts = 1 .. Len(posts)
  BY <1>4, TypeFacts
<1> QED BY <1>1, <1>2, <1>3, <1>5, <1>6

LEMMA BehindShown == IInv => UnreadShown
<1> SUFFICES ASSUME IInv, Settled, ~missed, ~crossed, ~entry.muted,
                    NEW i \in DOMAIN posts, i > serverRead, CountsHere(posts[i])
             PROVE  isUnread(entry)
  BY DEF UnreadShown, ServerUnread
<1>1. /\ Clean /\ ~Viewing /\ ~Marking /\ DOMAIN stream = {}
      /\ channel.known /\ entry.tracked /\ members.stage = "done" /\ Counted = channel.all
  BY SettledFacts
<1>2. i \in serverRead + 1 .. Len(posts)
  BY SettledFacts
<1>3. Noted(i) \/ (marks > 0 /\ entry.serverUnread) \/ InTotals(i)
  BY <1>1, <1>2 DEF IInv, Rest, AllAccounted, Accounted
<1>4. CASE Noted(i)
  BY <1>4, <1>1 DEF Noted, CountsHere, isUnread, unreadActivity
<1>5. CASE InTotals(i)
  BY <1>1, <1>5, SettledFacts, TypeFacts, RootsFacts, Numbers DEF InTotals, IInv, Rest, Compared,
     CountsHere, Behind, Shape, TotalsUnread, isUnread, unreadActivity
<1>6. CASE entry.serverUnread
  BY <1>1, <1>6 DEF isUnread, unreadActivity
<1> QED BY <1>3, <1>4, <1>5, <1>6

LEMMA ShownBehind == IInv => ReadShown
<1> SUFFICES ASSUME IInv, Settled, ~missed, ~crossed, entry.tracked, unreadActivity(entry),
                    ~rootViewed
             PROVE  ServerUnread
  BY DEF ReadShown
<1>1. /\ Clean /\ ~Viewing /\ ~Marking /\ ~ViewComing
      /\ channel.known /\ members.stage = "done"
  BY SettledFacts
<1>2. \A i \in serverRead + 1 .. Len(posts) : i \in DOMAIN posts /\ i > serverRead
  BY SettledFacts
<1>3. MarkStands => ServerUnread
  BY <1>2 DEF MarkStands, CountsBehind, ServerUnread
<1>4. At(FALSE) => ServerUnread
  BY <1>2 DEF At, CountsHere, ServerUnread
<1>5. ~entry.rootMode /\ At(TRUE) => ServerUnread
  BY <1>2 DEF At, CountsHere, ServerUnread
<1>6. /\ entry.runtimeUnread => At(FALSE) \/ MarkStands
      /\ entry.runtimeReplyUnread => At(TRUE) \/ MarkStands
      /\ marks > 0 /\ entry.serverUnread => MarkStands
  BY <1>1 DEF IInv, Rest, NotedBehind
<1>7. ASSUME marks = 0, entry.serverUnread PROVE ServerUnread
  <2>1. TotalsUnread /\ ReadUp(entry.readAll, entry.readRoot)
    BY <1>1, <1>7 DEF IInv, Rest, Compared, MembershipHeld
  <2>2. posts \in Seq(Post) /\ Len(posts) <= MaxPosts
    BY TypeFacts DEF IInv, Shape
  <2>3. RootsIn(serverRead) \in Counts /\ RootsIn(channel.all) \in Counts
    BY <2>2, SettledFacts, RootsFacts
  <2>4. CASE entry.rootMode
    <3>1. channel.root > entry.readRoot
      BY <2>1, <2>4 DEF TotalsUnread
    <3>2. entry.readRoot >= RootsIn(serverRead)
      BY <2>1, <2>3, <3>1, SettledFacts, Numbers DEF ReadUp
    <3>3. RootsIn(channel.all) > RootsIn(serverRead)
      BY <2>3, <3>1, <3>2, SettledFacts, Numbers
    <3>4. channel.all \in serverRead .. Len(posts)
      BY SettledFacts, <2>2, RootsFacts, <2>3, <3>3, Numbers
    <3>5. \E i \in serverRead + 1 .. channel.all : ~posts[i].reply
      BY <2>2, <3>3, <3>4, SettledFacts, RootsFacts
    <3>6. \A i \in serverRead + 1 .. channel.all : i \in serverRead + 1 .. Len(posts)
      BY SettledFacts
    <3> QED BY <1>2, <3>5, <3>6 DEF CountsHere, ServerUnread
  <2>5. CASE ~entry.rootMode
    BY <2>1, <2>5, SettledFacts, <1>2 DEF TotalsUnread, ReadUp, CountsHere, ServerUnread
  <2> QED BY <2>4, <2>5
<1>8. marks = 0 \/ marks > 0
  BY SettledFacts
<1> QED BY <1>3, <1>4, <1>5, <1>6, <1>7, <1>8 DEF unreadActivity

\* Once everything asked for has arrived, a channel with posts behind the server's read mark
\* is shown as unread (ChannelActivityTracker.cpp:84-102): each of those posts was announced
\* and noted, or marked by the user, or is among the totals and not among what was read.
THEOREM ShownWhenBehind == Spec => []UnreadShown
BY Invariant, BehindShown, PTL

\* And a channel the server holds as read shows no unread activity: what is noted or counted
\* is behind the server's mark, since a membership never lowers what a view has read
\* (ChannelActivityTracker.cpp:28-33).
THEOREM QuietWhenRead == Spec => []ReadShown
BY Invariant, ShownBehind, PTL

-------------------------------------------------------------------------------
(* Navigation: the window as the proof sees it.                               *)

Targets == [channel : Channels, root : Roots \cup {None}, post : Posts \cup {None}, keep : BOOLEAN]
Retries == [target : Targets, gen : Nat]
Kinds == {"settle", "newest", "dropped", "reopen", "jump"}
Turns == [kind : Kinds, area : Areas \cup {None}, target : Targets \cup {None}, gen : Nat]
RequestStages == {"refresh", "join", "again"}
Requests == [channel : Channels, stage : RequestStages]
Stands == [Areas -> Posts \cup {"unplaced", "resting"}]
Windows ==
    [gen : Nat, central : Channels \cup {None}, docked : Roots \cup {None}, threads : SUBSET Roots,
     at : Stands, queue : Seq(Turns), retries : SUBSET Retries,
     pending : SUBSET Channels, asking : SUBSET Requests, drag : BOOLEAN, deferred : SUBSET Channels,
     listed : SUBSET Channels, foreign : SUBSET Channels, refused : SUBSET Channels]

-------------------------------------------------------------------------------
(* Sequences as sets of their elements.                                       *)

LEMMA QueueRange ==
    ASSUME NEW S, NEW q \in Seq(S)
    PROVE  Range(q) = {q[i] : i \in 1..Len(q)} /\ Range(q) \subseteq S
BY DEF Range

LEMMA AppendRange ==
    ASSUME NEW S, NEW q \in Seq(S), NEW e \in S
    PROVE  Append(q, e) \in Seq(S) /\ Range(Append(q, e)) = Range(q) \cup {e}
<1> DEFINE n == Len(q)
           h == Append(q, e)
<1>1. /\ h \in Seq(S) /\ Len(h) = n + 1 /\ n \in Nat
      /\ \A j \in 1..n : h[j] = q[j]
      /\ h[n + 1] = e
  OBVIOUS
<1>2. Range(h) = {h[j] : j \in 1..(n + 1)}
  BY <1>1, QueueRange
<1>3. Range(q) = {q[j] : j \in 1..n}
  BY QueueRange
<1> HIDE DEF h, n
<1>4. {h[j] : j \in 1..(n + 1)} = {q[j] : j \in 1..n} \cup {e}
  BY <1>1
<1> QED BY <1>1, <1>2, <1>3, <1>4 DEF h

LEMMA ConcatRange ==
    ASSUME NEW S, NEW f \in Seq(S), NEW g \in Seq(S)
    PROVE  f \o g \in Seq(S) /\ Range(f \o g) = Range(f) \cup Range(g)
<1> DEFINE m == Len(f)
           n == Len(g)
           h == f \o g
<1>4. /\ h \in Seq(S) /\ Len(h) = m + n /\ m \in Nat /\ n \in Nat
      /\ \A j \in 1..(m + n) : h[j] = IF j =< m THEN f[j] ELSE g[j - m]
  OBVIOUS
<1>2. /\ Range(f) = {f[j] : j \in 1..m} /\ Range(g) = {g[j] : j \in 1..n}
      /\ Range(h) = {h[j] : j \in 1..(m + n)}
  BY <1>4, QueueRange
<1> HIDE DEF h, m, n
<1>5. ASSUME NEW x \in Range(f) PROVE x \in Range(h)
  BY <1>2, <1>4
<1>6. ASSUME NEW x \in Range(g) PROVE x \in Range(h)
  <2>1. PICK j \in 1..n : x = g[j]
    BY <1>2
  <2>2. j + m \in 1..(m + n) /\ h[j + m] = x
    BY <1>4, <2>1
  <2> QED BY <1>2, <2>2
<1>7. ASSUME NEW j \in 1..(m + n) PROVE h[j] \in Range(f) \cup Range(g)
  BY <1>4, <1>2
<1>8. Range(h) \subseteq Range(f) \cup Range(g)
  BY <1>2, <1>7
<1> QED BY <1>4, <1>5, <1>6, <1>8 DEF h

LEMMA TailRange ==
    ASSUME NEW S, NEW q \in Seq(S), q # <<>>
    PROVE  Head(q) \in S /\ Tail(q) \in Seq(S) /\ Range(q) = {Head(q)} \cup Range(Tail(q))
<1> DEFINE n == Len(q)
           h == Tail(q)
<1>1. /\ h \in Seq(S) /\ n \in Nat \ {0} /\ Len(h) = n - 1 /\ Head(q) = q[1]
      /\ \A j \in 1..(n - 1) : h[j] = q[j + 1]
  BY HeadTailProperties, EmptySeq
<1>2. Range(q) = {q[j] : j \in 1..n} /\ Range(h) = {h[j] : j \in 1..(n - 1)} /\ Range(q) \subseteq S
  BY <1>1, QueueRange
<1> HIDE DEF h, n
<1>3. ASSUME NEW j \in 1..n PROVE q[j] \in {Head(q)} \cup Range(h)
  <2>1. CASE j = 1
    BY <1>1, <2>1
  <2>2. CASE j # 1
    <3>1. j - 1 \in 1..(n - 1) /\ h[j - 1] = q[j]
      BY <1>1, <2>2
    <3> QED BY <1>2, <3>1
  <2> QED BY <2>1, <2>2
<1>4. ASSUME NEW j \in 1..(n - 1) PROVE h[j] \in Range(q)
  BY <1>1, <1>2
<1>5. Head(q) \in Range(q)
  BY <1>1, <1>2
<1>6. Range(q) \subseteq {Head(q)} \cup Range(h)
  BY <1>2, <1>3
<1>7. Range(h) \subseteq Range(q)
  BY <1>2, <1>4
<1> QED BY <1>1, <1>2, <1>5, <1>6, <1>7 DEF h

LEMMA OrderRange ==
    ASSUME NEW S, IsFiniteSet(S)
    PROVE  SetToSeq(S) \in Seq(S) /\ Range(SetToSeq(S)) = S
<1> DEFINE n == Cardinality(S)
           f == SetToSeq(S)
<1>1. n \in Nat /\ ExistsBijection(1..n, S)
  BY FS_CardinalityType
<1>2. \E g \in [1..n -> S] : IsInjective(g)
  BY <1>1 DEF ExistsBijection, Bijection, Injection, IsInjective
<1>3. f \in [1..n -> S] /\ IsInjective(f)
  BY <1>2 DEF SetToSeq
<1> HIDE DEF f
<1>4. f \in Seq(S) /\ Len(f) = n
  <2> HIDE DEF n
  <2> QED BY <1>1, <1>3
<1>5. S \subseteq Range(f)
  <2>1. f \in Injection(1..n, S)
    BY <1>3 DEF Injection, IsInjective
  <2>2. IsFiniteSet(1..n) /\ Cardinality(1..n) = n
    BY <1>1, FS_Interval
  <2>3. f \in Surjection(1..n, S)
    <3> HIDE DEF n
    <3>1. Cardinality(1..n) = Cardinality(S)
      BY <2>2 DEF n
    <3> QED BY <2>1, <3>1, FS_Injection
  <2>4. ASSUME NEW x \in S PROVE x \in Range(f)
    BY <2>3, <1>3 DEF Surjection, Range
  <2> QED BY <2>4
<1> QED BY <1>4, <1>5, QueueRange DEF f

LEMMA ListedRange ==
    ASSUME NEW S, IsFiniteSet(S), NEW f \in SetToSeqs(S)
    PROVE  f \in Seq(S)
<1> DEFINE n == Cardinality(S)
<1>1. n \in Nat
  BY FS_CardinalityType
<1>2. f \in [1..n -> S]
  BY DEF SetToSeqs
<1> QED BY <1>1, <1>2

-------------------------------------------------------------------------------
(* The window, field by field.                                                *)

Fields == {"gen", "central", "docked", "threads", "at", "queue", "retries", "pending", "asking",
           "drag", "deferred", "listed", "foreign", "refused"}

\* v is u but for the fields of F.
But(u, v, F) == \A f \in Fields \ F : v[f] = u[f]

TurnOK(gen, e) ==
    /\ e.gen <= gen
    /\ e.kind \in {"reopen", "jump"} => e.target \in Targets
    /\ e.kind = "jump" => e.target.post \in Posts /\ e.area = AreaOf(e.target)
    /\ e.kind \in {"settle", "newest"} => e.area \in Areas

AskingOK(asking, pending) ==
    \A a \in asking : a.channel \in pending /\ \A b \in asking : b.channel = a.channel => a = b

\* A window the program can have.
WindowOK(u) ==
    /\ u \in Windows /\ u.gen <= MaxNavigations
    /\ u.docked \in u.threads \cup {None}
    /\ IsFiniteSet(u.retries) /\ IsFiniteSet(u.deferred)
    /\ \A r \in u.retries : r.gen <= u.gen
    /\ \A e \in Range(u.queue) : TurnOK(u.gen, e)
    /\ AskingOK(u.asking, u.pending)

TurnOf(u, kind, area, target) == [kind |-> kind, area |-> area, target |-> target, gen |-> u.gen]

LEMMA EntryOK ==
    ASSUME NEW u, WindowOK(u), NEW kind \in Kinds, NEW area \in Areas \cup {None},
           NEW target \in Targets \cup {None},
           kind \in {"reopen", "jump"} => target \in Targets,
           kind = "jump" => target.post \in Posts /\ area = AreaOf(target),
           kind \in {"settle", "newest"} => area \in Areas
    PROVE  /\ TurnOf(u, kind, area, target) \in Turns
           /\ TurnOK(u.gen, TurnOf(u, kind, area, target))
           /\ TurnOf(u, kind, area, target).kind = kind
           /\ TurnOf(u, kind, area, target).area = area
           /\ TurnOf(u, kind, area, target).target = target
           /\ TurnOf(u, kind, area, target).gen = u.gen
BY DEF TurnOf, Turns, TurnOK, WindowOK, Windows

LEMMA QueueSet ==
    ASSUME NEW u, WindowOK(u), NEW q \in Seq(Turns), \A e \in Range(q) : TurnOK(u.gen, e),
           NEW v, v = [u EXCEPT !.queue = q]
    PROVE  WindowOK(v) /\ v.queue = q /\ But(u, v, {"queue"})
BY DEF WindowOK, Windows, But, Fields

\* A step left for the next turn.
Queued(u, v, kind, area, target) ==
    /\ WindowOK(v) /\ But(u, v, {"queue"})
    /\ Range(v.queue) = Range(u.queue) \cup {TurnOf(u, kind, area, target)}

LEMMA LaterQueues ==
    ASSUME NEW u, WindowOK(u), NEW kind \in Kinds, NEW area \in Areas \cup {None},
           NEW target \in Targets \cup {None},
           kind \in {"reopen", "jump"} => target \in Targets,
           kind = "jump" => target.post \in Posts /\ area = AreaOf(target),
           kind \in {"settle", "newest"} => area \in Areas
    PROVE  Queued(u, Later(u, kind, area, target), kind, area, target)
<1> DEFINE e == TurnOf(u, kind, area, target)
           q == Append(u.queue, e)
           v == Later(u, kind, area, target)
<1>1. e \in Turns /\ TurnOK(u.gen, e)
  BY EntryOK
<1>2. u.queue \in Seq(Turns)
  BY DEF WindowOK, Windows
<1>3. q \in Seq(Turns) /\ Range(q) = Range(u.queue) \cup {e}
  <2> HIDE DEF e
  <2> QED BY <1>1, <1>2, AppendRange
<1>4. v = [u EXCEPT !.queue = q]
  BY DEF Later, TurnOf
<1>5. \A x \in Range(q) : TurnOK(u.gen, x)
  <2> HIDE DEF e, q
  <2> QED BY <1>1, <1>3 DEF WindowOK
<1>6. WindowOK(v) /\ v.queue = q /\ But(u, v, {"queue"})
  <2> HIDE DEF q, v
  <2> QED BY <1>3, <1>4, <1>5, QueueSet
<1> HIDE DEF e, q, v
<1>7. Queued(u, v, kind, area, target)
  BY <1>3, <1>6 DEF Queued, e
<1> QED BY <1>7 DEF v

WeakKinds == {"settle", "newest"}

\* The turns of an area that are not wanted any more do nothing, the others are as they were.
Emptied(u, v, area, kinds) ==
    /\ WindowOK(v) /\ But(u, v, {"queue"})
    /\ \A e \in Range(v.queue) :
        e.kind = "dropped" \/ (e \in Range(u.queue) /\ ~(e.area = area /\ e.kind \in kinds))
    /\ \A e \in Range(u.queue) : (e.area = area /\ e.kind \in kinds) \/ e \in Range(v.queue)

LEMMA DroppedEmpties ==
    ASSUME NEW u, WindowOK(u), NEW a, NEW kinds, NEW v, v = [u EXCEPT !.queue = Dropped(@, a, kinds)]
    PROVE  Emptied(u, v, a, kinds)
<1> DEFINE q == u.queue
           d == Dropped(q, a, kinds)
           n == Len(q)
<1>1. q \in Seq(Turns) /\ n \in Nat /\ DOMAIN q = 1..n /\ \A i \in 1..n : q[i] \in Turns
  BY DEF WindowOK, Windows
<1>2. /\ DOMAIN d = 1..n
      /\ \A i \in 1..n : d[i] = IF q[i].area = a /\ q[i].kind \in kinds
                                THEN [q[i] EXCEPT !.kind = "dropped"] ELSE q[i]
  BY <1>1 DEF Dropped
<1>3. \A i \in 1..n : q[i] \in Range(q)
  BY <1>1, QueueRange
<1>4. \A i \in 1..n : TurnOK(u.gen, q[i])
  BY <1>3 DEF WindowOK
<1> HIDE DEF d, q, n
<1>5. ASSUME NEW i \in 1..n
      PROVE  /\ d[i] \in Turns /\ TurnOK(u.gen, d[i])
             /\ d[i].kind = "dropped" \/ (d[i] = q[i] /\ ~(q[i].area = a /\ q[i].kind \in kinds))
             /\ (q[i].area = a /\ q[i].kind \in kinds) \/ d[i] = q[i]
  <2>1. q[i] \in Turns /\ TurnOK(u.gen, q[i])
    BY <1>1, <1>4
  <2>2. CASE q[i].area = a /\ q[i].kind \in kinds
    BY <1>2, <2>2, <2>1 DEF Turns, Kinds, TurnOK
  <2>3. CASE ~(q[i].area = a /\ q[i].kind \in kinds)
    BY <1>2, <2>3, <2>1
  <2> QED BY <2>2, <2>3
<1>6. d \in Seq(Turns) /\ Len(d) = n
  <2>1. d = [i \in 1..n |-> d[i]]
    BY <1>2 DEF d, Dropped, n, q
  <2>2. d \in [1..n -> Turns]
    BY <1>2, <1>5, <2>1
  <2> QED BY <1>1, <2>2
<1>7. Range(d) = {d[i] : i \in 1..n} /\ Range(q) = {q[i] : i \in 1..n}
  BY <1>1, <1>6, QueueRange DEF n
<1>8. \A e \in Range(d) : TurnOK(u.gen, e)
  BY <1>5, <1>7
<1>9. v = [u EXCEPT !.queue = d]
  BY DEF d, q
<1>10. WindowOK(v) /\ v.queue = d /\ But(u, v, {"queue"})
  BY <1>6, <1>8, <1>9, QueueSet
<1>11. \A e \in Range(d) :
          e.kind = "dropped" \/ (e \in Range(q) /\ ~(e.area = a /\ e.kind \in kinds))
  BY <1>3, <1>5, <1>7
<1>12. \A e \in Range(q) : (e.area = a /\ e.kind \in kinds) \/ e \in Range(d)
  BY <1>5, <1>7
<1> QED BY <1>10, <1>11, <1>12 DEF Emptied, q

LEMMA PrepareEmpties ==
    ASSUME NEW u, WindowOK(u), NEW a
    PROVE  Emptied(u, preparePostNavigation(u, a), a, WeakKinds)
BY DroppedEmpties DEF preparePostNavigation, WeakKinds

-------------------------------------------------------------------------------
(* Opening a channel                                                          *)

\* The view goes to c, or everything in the centre stays.
Moved(u, v, c) ==
    \/ v.central = u.central /\ v.at = u.at /\ v.queue = u.queue
    \/ /\ v.central = c /\ u.central # c
       /\ \A a \in Areas : a \notin {u.central, c} => v.at[a] = u.at[a]
       /\ \A a \in Areas : v.at[a] \in {u.at[a], "unplaced"}
       /\ Range(v.queue) = Range(u.queue) \cup {TurnOf(u, "settle", c, None)}

Activated(u, v, c) ==
    /\ WindowOK(v) /\ v.central = c
    /\ But(u, v, {"central", "at", "queue"})
    /\ Moved(u, v, c)

LEMMA ActivateMoves ==
    ASSUME NEW u, WindowOK(u), NEW c \in Channels
    PROVE  Activated(u, activateChannelItem(u, c), c)
<1> DEFINE v == activateChannelItem(u, c)
<1>1. CASE u.central = c
  BY <1>1 DEF activateChannelItem, Activated, Moved, But
<1>2. CASE u.central # c
  <2> DEFINE s == [a \in Areas |-> IF a \in {u.central, c} THEN "unplaced" ELSE u.at[a]]
             m == [u EXCEPT !.central = c, !.at = s]
  <2>1. s \in Stands /\ \A a \in Areas : s[a] = IF a \in {u.central, c} THEN "unplaced" ELSE u.at[a]
    BY DEF WindowOK, Windows, Stands
  <2>2. v = Later(m, "settle", c, None)
    BY <1>2 DEF activateChannelItem
  <2> HIDE DEF s
  <2>3. WindowOK(m) /\ m.central = c /\ m.at = s /\ But(u, m, {"central", "at"})
    <3>1. m = [u EXCEPT !.central = c, !.at = s]
      OBVIOUS
    <3>2. s \in Stands
      BY <2>1
    <3> HIDE DEF m
    <3>3. m \in Windows /\ m.central = c /\ m.at = s /\ But(u, m, {"central", "at"})
      BY <3>1, <3>2 DEF WindowOK, Windows, But, Fields
    <3> QED BY <3>3 DEF WindowOK, But, Fields
  <2> HIDE DEF m, v
  <2>4. Queued(m, v, "settle", c, None)
    BY <2>2, <2>3, LaterQueues DEF Areas, Kinds
  <2>5. TurnOf(m, "settle", c, None) = TurnOf(u, "settle", c, None)
    BY <2>3 DEF TurnOf, But, Fields
  <2>6. /\ WindowOK(v) /\ v.central = c /\ v.at = s /\ But(u, v, {"central", "at", "queue"})
        /\ Range(v.queue) = Range(u.queue) \cup {TurnOf(u, "settle", c, None)}
    BY <2>3, <2>4, <2>5 DEF Queued, But, Fields
  <2>7. Moved(u, v, c)
    BY <1>2, <2>1, <2>6 DEF Moved
  <2> QED BY <2>6, <2>7 DEF Activated, v
<1> QED BY <1>1, <1>2

\* What opening a stored channel leaves: it is in the centre, or its admission or the end of a
\* drag is waited for.
Stored(u, v, c) ==
    /\ WindowOK(v)
    /\ But(u, v, {"central", "at", "queue", "pending", "asking", "deferred"})
    /\ Moved(u, v, c)
    /\ u.pending \subseteq v.pending /\ u.deferred \subseteq v.deferred
    /\ \/ v.central = c
       \/ c \in v.pending
       \/ v.drag /\ c \in v.deferred

LEMMA OpenStores ==
    ASSUME NEW u, WindowOK(u), NEW c \in Channels
    PROVE  Stored(u, openStoredChannel(u, c), c)
<1> DEFINE v == openStoredChannel(u, c)
<1>1. CASE u.drag
  <2>1. v = [u EXCEPT !.deferred = @ \cup {c}]
    BY <1>1 DEF openStoredChannel
  <2> HIDE DEF v
  <2>2. v \in Windows /\ v.deferred = u.deferred \cup {c} /\ But(u, v, {"deferred"})
    BY <2>1 DEF WindowOK, Windows, But, Fields
  <2>3. IsFiniteSet(v.deferred)
    BY <2>2, FS_AddElement DEF WindowOK
  <2>4. WindowOK(v)
    BY <2>2, <2>3 DEF WindowOK, But, Fields
  <2>5. Moved(u, v, c)
    BY <2>2 DEF Moved, But, Fields
  <2>6. But(u, v, {"central", "at", "queue", "pending", "asking", "deferred"})
    BY <2>2 DEF But
  <2>7. u.pending \subseteq v.pending /\ v.drag
    BY <1>1, <2>2 DEF But, Fields
  <2> QED BY <2>2, <2>4, <2>5, <2>6, <2>7 DEF Stored, v
<1>2. CASE ~u.drag /\ c \in u.listed
  <2>1. v = activateChannelItem(u, c)
    BY <1>2 DEF openStoredChannel
  <2> HIDE DEF v
  <2>2. Activated(u, v, c)
    BY <2>1, ActivateMoves
  <2> QED BY <2>2 DEF Activated, Stored, But, Fields, v
<1>3. CASE ~u.drag /\ c \notin u.listed /\ c \in u.pending
  BY <1>3 DEF openStoredChannel, Stored, But, Moved
<1>4. CASE ~u.drag /\ c \notin u.listed /\ c \notin u.pending
  <2> DEFINE a == [channel |-> c, stage |-> "refresh"]
  <2>1. v = [u EXCEPT !.pending = @ \cup {c}, !.asking = @ \cup {a}]
    BY <1>4 DEF openStoredChannel
  <2>2. a \in Requests /\ a.channel = c
    BY DEF Requests, RequestStages
  <2> HIDE DEF v, a
  <2>3. /\ v \in Windows /\ v.pending = u.pending \cup {c} /\ v.asking = u.asking \cup {a}
        /\ But(u, v, {"pending", "asking"})
    BY <2>1, <2>2 DEF WindowOK, Windows, But, Fields
  <2>4. AskingOK(v.asking, v.pending)
    BY <1>4, <2>2, <2>3 DEF WindowOK, AskingOK
  <2>5. WindowOK(v)
    BY <2>3, <2>4 DEF WindowOK, But, Fields
  <2>6. Moved(u, v, c)
    BY <2>3 DEF Moved, But, Fields
  <2>7. But(u, v, {"central", "at", "queue", "pending", "asking", "deferred"})
    BY <2>3 DEF But
  <2>8. u.deferred \subseteq v.deferred
    BY <2>3 DEF But, Fields
  <2> QED BY <2>3, <2>5, <2>6, <2>7, <2>8 DEF Stored, v
<1> QED BY <1>1, <1>2, <1>3, <1>4

-------------------------------------------------------------------------------
(* What the user chose and how far it has come                                *)

Wishes == [by : {"none", "navigation", "click", "quick"}, channel : Channels \cup {None},
           root : Roots \cup {None}, post : Posts \cup {None}]

Due(u, e, kind) == e.kind = kind /\ e.gen = u.gen
Jumping(u, a) == \E e \in Range(u.queue) : Due(u, e, "jump") /\ e.area = a
Weak(u, a) == \E e \in Range(u.queue) : e.area = a /\ e.kind \in WeakKinds
Headed(u, a, p) == ~Weak(u, a) /\ (u.at[a] = p \/ Jumping(u, a))

\* What w asks for is shown, or will be by a jump nothing overtakes, or was refused.
Arrived(u, w) ==
    \/ w.channel \in u.refused
    \/ /\ w.root = None => u.central = w.channel
       /\ w.root # None => u.docked = w.root
       /\ w.post # None => Headed(u, AreaOf(w), w.post)

SamePlace(t, w) == t.channel = w.channel /\ t.root = w.root
OnlyShown(u, t) == t.keep /\ t.root \in u.threads

\* t is what w asks for, or an open thread that is only to be shown.
Sought(u, w, t) ==
    /\ w.by = "navigation" /\ SamePlace(t, w)
    /\ IF OnlyShown(u, t) THEN w.post = None \/ Arrived(u, w) ELSE t.post = w.post

JumpSought(w, t) == w.by = "navigation" /\ SamePlace(t, w) /\ t.post = w.post

\* What the latest navigation left to be done is what w asks for.
Aimed(u, w) ==
    /\ \A r \in u.retries : r.gen = u.gen => Sought(u, w, r.target)
    /\ \A e \in Range(u.queue) :
        /\ Due(u, e, "reopen") => Sought(u, w, e.target)
        /\ Due(u, e, "jump") => JumpSought(w, e.target)

Reopening(u) == \E e \in Range(u.queue) : Due(u, e, "reopen")

Waiting(u, w) ==
    /\ \E r \in u.retries : r.gen = u.gen
    /\ w.channel \in u.pending \/ (u.drag /\ w.channel \in u.deferred)

Underway(u, w) == Reopening(u) \/ Waiting(u, w) \/ Arrived(u, w)

LEMMA Apart ==
    /\ \A c \in Channels : c \in Areas /\ c # None /\ c \notin Roots /\ c \notin Posts
    /\ \A r \in Roots : r \in Areas /\ r # None /\ r \notin Channels /\ r \in Posts
    /\ \A p \in Posts : p # None /\ p # "unplaced" /\ p # "resting"
BY NavigationAssumption DEF NavigationAssumption, Areas, Roots

LEMMA WishArea ==
    ASSUME NEW w \in Wishes, w.channel \in Channels
    PROVE  /\ AreaOf(w) \in Areas
           /\ w.root = None => AreaOf(w) = w.channel
           /\ w.root # None => AreaOf(w) = w.root /\ AreaOf(w) \notin Channels
BY Apart DEF Wishes, AreaOf

\* A change of the window that leaves, or makes, the view go to what was asked for.
Keeping(u, v, w) ==
    \/ v.threads = u.threads /\ (Arrived(u, w) => Arrived(v, w))
    \/ u.threads \subseteq v.threads /\ Arrived(v, w)

LEMMA SoughtKept ==
    ASSUME NEW u, NEW v, NEW w, NEW t, Keeping(u, v, w), Sought(u, w, t)
    PROVE  Sought(v, w, t)
BY DEF Keeping, Sought, OnlyShown

\* What is left to be done afterwards was there before, or is sought.
LEMMA AimKept ==
    ASSUME NEW u, NEW v, NEW w, Aimed(u, w), v.gen = u.gen, Keeping(u, v, w),
           \A r \in v.retries : r \in u.retries \/ Sought(u, w, r.target),
           \A e \in Range(v.queue) :
              /\ e.kind = "reopen" => e \in Range(u.queue) \/ Sought(u, w, e.target)
              /\ e.kind = "jump" => e \in Range(u.queue) \/ JumpSought(w, e.target)
    PROVE  Aimed(v, w)
BY SoughtKept DEF Aimed, Due

\* The centre goes to what was asked for, or does not move.
LEMMA MoveKeeps ==
    ASSUME NEW u, NEW v, NEW w \in Wishes, NEW c \in Channels, u.central \in Channels \cup {None},
           v.gen = u.gen, v.docked = u.docked, v.refused = u.refused, Moved(u, v, c), c = w.channel \/ v.central = u.central,
           Arrived(u, w)
    PROVE  Arrived(v, w)
BY WishArea, Apart DEF Arrived, Headed, Weak, Jumping, Due, Moved, Areas, TurnOf

LEMMA StoreAims ==
    ASSUME NEW u, WindowOK(u), NEW v, NEW c \in Channels, Stored(u, v, c),
           NEW w \in Wishes, c = w.channel \/ v.central = u.central, Aimed(u, w)
    PROVE  Aimed(v, w) /\ (Underway(u, w) => Underway(v, w)) /\ (Arrived(u, w) => Arrived(v, w))
BY MoveKeeps, AimKept DEF Stored, But, Fields, WindowOK, Windows, Keeping, TurnOf, Moved, Reopening,
   Due, Waiting, Underway

-------------------------------------------------------------------------------
(* Opening a thread                                                           *)

ThreadOpened(u, v, t) ==
    /\ WindowOK(v) /\ But(u, v, {"docked", "threads", "queue"})
    /\ v.docked = t.root /\ v.threads = u.threads \cup {t.root}
    /\ \A e \in Range(v.queue) :
        /\ e.kind = "reopen" => e \in Range(u.queue)
        /\ e.kind = "jump" => e \in Range(u.queue) \/ (~OnlyShown(u, t) /\ e.target = t)
    /\ IF OnlyShown(u, t) THEN v.queue = u.queue
       ELSE t.post # None => ~Weak(v, t.root) /\ Jumping(v, t.root)

Presented(u, v, t) ==
    /\ WindowOK(v) /\ But(u, v, {"docked", "threads", "queue"})
    /\ v.docked = t.root /\ v.threads = u.threads \cup {t.root}
    /\ \A e \in Range(v.queue) : e.kind \in {"reopen", "jump"} => e \in Range(u.queue)
    /\ t.root \in u.threads => v.queue = u.queue

LEMMA ThreadPresented ==
    ASSUME NEW u, WindowOK(u), NEW t \in Targets, t.root # None
    PROVE  Presented(u, presentThread(u, t), t)
<1> DEFINE v == presentThread(u, t)
<1>1. t.root \in Roots /\ t.root \in Areas
  BY Apart DEF Targets
<1>2. CASE t.root \in u.threads
  <2>1. v = [u EXCEPT !.docked = t.root]
    BY <1>2 DEF presentThread
  <2> HIDE DEF v
  <2>2. v \in Windows /\ v.docked = t.root /\ But(u, v, {"docked"})
    BY <1>1, <2>1 DEF WindowOK, Windows, But, Fields
  <2>3. WindowOK(v)
    BY <1>2, <2>2 DEF WindowOK, But, Fields
  <2> QED BY <1>2, <2>2, <2>3 DEF Presented, But, Fields, v
<1>3. CASE t.root \notin u.threads
  <2> DEFINE m == [u EXCEPT !.docked = t.root, !.threads = @ \cup {t.root}]
  <2>1. v = Later(m, "newest", t.root, None)
    BY <1>3 DEF presentThread
  <2>2. m = [u EXCEPT !.docked = t.root, !.threads = @ \cup {t.root}]
    OBVIOUS
  <2> HIDE DEF v, m
  <2>3. /\ m \in Windows /\ m.docked = t.root /\ m.threads = u.threads \cup {t.root}
        /\ But(u, m, {"docked", "threads"})
    BY <1>1, <2>2 DEF WindowOK, Windows, But, Fields
  <2>4. WindowOK(m)
    BY <2>3 DEF WindowOK, But, Fields
  <2>5. Queued(m, v, "newest", t.root, None)
    BY <1>1, <2>1, <2>4, LaterQueues DEF Kinds
  <2>6. TurnOf(m, "newest", t.root, None).kind = "newest"
    BY DEF TurnOf
  <2>7. But(u, v, {"docked", "threads", "queue"}) /\ v.docked = t.root /\ v.threads = u.threads \cup {t.root}
    BY <2>3, <2>5 DEF Queued, But, Fields
  <2>8. Range(v.queue) = Range(u.queue) \cup {TurnOf(m, "newest", t.root, None)}
    BY <2>3, <2>5 DEF Queued, But, Fields
  <2> QED BY <1>3, <2>5, <2>6, <2>7, <2>8 DEF Presented, Queued, v
<1> QED BY <1>2, <1>3

\* An explicit place takes the view, whatever it would do by itself.
LEMMA JumpTakes ==
    ASSUME NEW u, WindowOK(u), NEW t \in Targets, t.post # None, NEW a, a = AreaOf(t), NEW v,
           v = Later(preparePostNavigation(u, a), "jump", a, t)
    PROVE  /\ WindowOK(v) /\ But(u, v, {"queue"})
           /\ \A e \in Range(v.queue) :
               /\ e.kind = "reopen" => e \in Range(u.queue)
               /\ e.kind = "jump" => e \in Range(u.queue) \/ e.target = t
           /\ \A e \in Range(u.queue) : e.kind \in {"reopen", "jump"} => e \in Range(v.queue)
           /\ ~Weak(v, a) /\ Jumping(v, a)
<1> DEFINE m == preparePostNavigation(u, a)
           e0 == TurnOf(m, "jump", a, t)
<1>1. Emptied(u, m, a, WeakKinds)
  BY PrepareEmpties
<1>2. a \in Areas /\ t.post \in Posts
  BY Apart DEF Targets, AreaOf
<1>3. "jump" \in Kinds
  BY DEF Kinds
<1>4. v = Later(m, "jump", a, t) /\ WindowOK(m)
  BY <1>1 DEF Emptied
<1> HIDE DEF m
<1>5. Queued(m, v, "jump", a, t)
  BY <1>2, <1>3, <1>4, LaterQueues
<1>6. e0.kind = "jump" /\ e0.area = a /\ e0.target = t /\ e0.gen = m.gen
  BY DEF TurnOf
<1> HIDE DEF e0
<1>7. Range(v.queue) = Range(m.queue) \cup {e0} /\ WindowOK(v) /\ But(m, v, {"queue"})
  BY <1>5 DEF Queued, e0
<1>8. But(u, v, {"queue"}) /\ v.gen = m.gen
  BY <1>1, <1>7 DEF Emptied, But, Fields
<1>9. /\ \A e \in Range(v.queue) :
          /\ e.kind = "reopen" => e \in Range(u.queue)
          /\ e.kind = "jump" => e \in Range(u.queue) \/ e.target = t
      /\ \A e \in Range(u.queue) : e.kind \in {"reopen", "jump"} => e \in Range(v.queue)
  BY <1>1, <1>6, <1>7 DEF Emptied, WeakKinds
<1>10. ~Weak(v, a)
  BY <1>1, <1>6, <1>7 DEF Weak, Emptied, WeakKinds
<1>11. Jumping(v, a)
  BY <1>6, <1>7, <1>8 DEF Jumping, Due
<1> QED BY <1>7, <1>8, <1>9, <1>10, <1>11

LEMMA ThreadOpens ==
    ASSUME NEW u, WindowOK(u), NEW t \in Targets, t.root # None
    PROVE  ThreadOpened(u, openThreadArea(u, t), t)
<1> DEFINE s == presentThread(u, t)
           v == openThreadArea(u, t)
<1>1. Presented(u, s, t)
  BY ThreadPresented
<1>2. t.root \in Areas /\ AreaOf(t) = t.root
  BY Apart DEF Targets, AreaOf
<1>3. CASE OnlyShown(u, t)
  <2>1. v = s
    BY <1>3 DEF openThreadArea, OnlyShown
  <2> HIDE DEF v, s
  <2> QED BY <1>1, <1>3, <2>1 DEF Presented, ThreadOpened, OnlyShown, v
<1>4. CASE ~OnlyShown(u, t) /\ t.post = None
  <2> DEFINE m == preparePostNavigation(s, t.root)
  <2>1. v = Later(m, "newest", t.root, None)
    BY <1>4 DEF openThreadArea, OnlyShown, goToNewest
  <2>2. Emptied(s, m, t.root, WeakKinds)
    BY <1>1, PrepareEmpties DEF Presented
  <2> HIDE DEF v, s, m
  <2>3. Queued(m, v, "newest", t.root, None)
    BY <2>2, <1>2, <2>1, LaterQueues DEF Kinds, Emptied
  <2>4. TurnOf(m, "newest", t.root, None).kind = "newest"
    BY DEF TurnOf
  <2>5. /\ WindowOK(v) /\ But(u, v, {"docked", "threads", "queue"})
        /\ v.docked = t.root /\ v.threads = u.threads \cup {t.root}
    BY <1>1, <2>2, <2>3 DEF Presented, Emptied, Queued, But, Fields
  <2>6. \A e \in Range(v.queue) : e.kind \in {"reopen", "jump"} => e \in Range(u.queue)
    BY <1>1, <2>2, <2>3, <2>4 DEF Presented, Emptied, Queued
  <2> QED BY <1>4, <2>5, <2>6 DEF ThreadOpened, v
<1>5. CASE ~OnlyShown(u, t) /\ t.post # None
  <2>1. v = Later(preparePostNavigation(s, t.root), "jump", t.root, t)
    BY <1>5 DEF openThreadArea, OnlyShown
  <2> HIDE DEF v, s
  <2>2. /\ WindowOK(v) /\ But(s, v, {"queue"})
        /\ \A e \in Range(v.queue) :
            /\ e.kind = "reopen" => e \in Range(s.queue)
            /\ e.kind = "jump" => e \in Range(s.queue) \/ e.target = t
        /\ ~Weak(v, t.root) /\ Jumping(v, t.root)
    BY <1>1, <1>2, <1>5, <2>1, JumpTakes DEF Presented
  <2>3. /\ But(u, v, {"docked", "threads", "queue"})
        /\ v.docked = t.root /\ v.threads = u.threads \cup {t.root}
    BY <1>1, <2>2 DEF Presented, But, Fields
  <2>4. \A e \in Range(v.queue) :
            /\ e.kind = "reopen" => e \in Range(u.queue)
            /\ e.kind = "jump" => e \in Range(u.queue) \/ e.target = t
    BY <1>1, <2>2 DEF Presented
  <2> QED BY <1>5, <2>2, <2>3, <2>4 DEF ThreadOpened, v
<1> QED BY <1>3, <1>4, <1>5

LEMMA ThreadArrives ==
    ASSUME NEW u, WindowOK(u), NEW t \in Targets, t.root # None, NEW v, ThreadOpened(u, v, t),
           NEW w \in Wishes, w.channel \in Channels, Sought(u, w, t), Aimed(u, w)
    PROVE  Aimed(v, w) /\ Arrived(v, w)
BY WishArea, AimKept DEF ThreadOpened, But, Fields, Sought, SamePlace, Arrived, Headed, Weak,
   Jumping, Due, Keeping, JumpSought

-------------------------------------------------------------------------------
(* Opening a channel, a post or a thread                                      *)

Retry(u, t) == [target |-> t, gen |-> u.gen]

LEMMA RetryArmed ==
    ASSUME NEW u, WindowOK(u), NEW t \in Targets, NEW v, v = [u EXCEPT !.retries = @ \cup {Retry(u, t)}]
    PROVE  /\ WindowOK(v) /\ But(u, v, {"retries"}) /\ v.retries = u.retries \cup {Retry(u, t)}
           /\ Retry(u, t).target = t /\ Retry(u, t).gen = u.gen
<1> DEFINE r == Retry(u, t)
<1>1. r \in Retries /\ r.target = t /\ r.gen = u.gen
  <2> DEFINE g == u.gen
  <2>1. g \in Nat
    BY DEF WindowOK, Windows
  <2>2. r = [target |-> t, gen |-> g]
    BY DEF Retry
  <2> HIDE DEF r, g
  <2>3. r \in Retries /\ r.target = t /\ r.gen = g
    BY <2>1, <2>2 DEF Retries
  <2> QED BY <2>3 DEF g
<1>2. v = [u EXCEPT !.retries = @ \cup {r}]
  OBVIOUS
<1> HIDE DEF r
<1> DEFINE R == u.retries \cup {r}
<1>7. R \in SUBSET Retries /\ IsFiniteSet(R)
  BY <1>1, FS_AddElement DEF WindowOK, Windows
<1>8. v = [u EXCEPT !.retries = R]
  BY <1>2
<1> HIDE DEF R
<1>3. v \in Windows /\ v.retries = R /\ But(u, v, {"retries"})
  BY <1>7, <1>8 DEF WindowOK, Windows, But, Fields
<1>4. IsFiniteSet(v.retries)
  BY <1>3, <1>7
<1>5. u.gen \in Nat
  BY DEF WindowOK, Windows
<1>6. WindowOK(v)
  BY <1>1, <1>3, <1>4, <1>5 DEF R, WindowOK, But, Fields
<1> QED BY <1>1, <1>3, <1>6 DEF r, R

LEMMA RetryDisarmed ==
    ASSUME NEW u, WindowOK(u), NEW r, NEW v, v = [u EXCEPT !.retries = @ \ {r}]
    PROVE  WindowOK(v) /\ But(u, v, {"retries"}) /\ v.retries = u.retries \ {r}
BY FS_RemoveElement DEF WindowOK, Windows, But, Fields

\* The window after openChannelPost(u, t): it moves to t or stays, and nothing is placed yet.
Opened(u, v, t) ==
    /\ WindowOK(v) /\ v.gen = u.gen /\ v.refused = u.refused
    /\ v.central \in {u.central, t.channel} /\ v.docked \in {u.docked, t.root}
    /\ \A a \in Areas : v.at[a] \in {u.at[a], "unplaced"}

\* How openChannelPost comes to its end when the centre is not passed over for a thread.
Brought(u, v, t) ==
    \E armed, opened :
        /\ Stored([u EXCEPT !.retries = @ \cup {Retry(u, t)}], armed, t.channel)
        /\ opened = [armed EXCEPT !.retries = @ \ {Retry(u, t)}]
        /\ \/ armed.central # t.channel /\ v = armed
           \/ armed.central = t.channel /\ t.root # None /\ v = Later(opened, "reopen", None, t)
           \/ armed.central = t.channel /\ t.root = None /\ t.post = None /\ v = opened
           \/ /\ armed.central = t.channel /\ t.root = None /\ t.post # None
              /\ v = Later(preparePostNavigation(opened, t.channel), "jump", t.channel, t)

LEMMA PostOpens ==
    ASSUME NEW u, WindowOK(u), NEW t \in Targets, NEW v, v = openChannelPost(u, t)
    PROVE  \/ t.root # None /\ u.central # None /\ ThreadOpened(u, v, t)
           \/ ~(t.root # None /\ u.central # None) /\ Brought(u, v, t)
<1>1. CASE t.root # None /\ u.central # None
  BY <1>1, ThreadOpens DEF openChannelPost
<1>2. CASE ~(t.root # None /\ u.central # None)
  <2> DEFINE u1 == [u EXCEPT !.retries = @ \cup {Retry(u, t)}]
             armed == openStoredChannel(u1, t.channel)
             opened == [armed EXCEPT !.retries = @ \ {Retry(u, t)}]
  <2>1. v = IF armed.central # t.channel THEN armed
            ELSE IF t.root # None THEN Later(opened, "reopen", None, t)
            ELSE IF t.post = None THEN opened
            ELSE Later(preparePostNavigation(opened, t.channel), "jump", t.channel, t)
    BY <1>2 DEF openChannelPost, Retry
  <2>2. WindowOK(u1)
    BY RetryArmed
  <2>3. t.channel \in Channels
    BY DEF Targets
  <2>4. Stored(u1, armed, t.channel)
    <3> HIDE DEF u1
    <3> QED BY <2>2, <2>3, OpenStores
  <2> HIDE DEF armed
  <2>5. \/ armed.central # t.channel /\ v = armed
        \/ armed.central = t.channel /\ t.root # None /\ v = Later(opened, "reopen", None, t)
        \/ armed.central = t.channel /\ t.root = None /\ t.post = None /\ v = opened
        \/ /\ armed.central = t.channel /\ t.root = None /\ t.post # None
           /\ v = Later(preparePostNavigation(opened, t.channel), "jump", t.channel, t)
    <3> HIDE DEF opened
    <3> QED BY <2>1
  <2>6. Brought(u, v, t)
    <3>1. opened = [armed EXCEPT !.retries = @ \ {Retry(u, t)}]
      OBVIOUS
    <3> HIDE DEF opened
    <3> QED BY <2>4, <2>5, <3>1 DEF Brought, u1
  <2> QED BY <1>2, <2>6
<1> QED BY <1>1, <1>2

\* The steps of Brought: what holds of the window before its last turn is queued.
BroughtSteps(u, v, t, m, armed, opened) ==
    /\ WindowOK(m) /\ But(u, m, {"retries"}) /\ m.retries = u.retries \cup {Retry(u, t)}
    /\ Stored(m, armed, t.channel)
    /\ WindowOK(opened) /\ But(armed, opened, {"retries"}) /\ opened.retries = armed.retries \ {Retry(u, t)}
    /\ \/ armed.central # t.channel /\ v = armed
       \/ armed.central = t.channel /\ t.root # None /\ Queued(opened, v, "reopen", None, t)
       \/ armed.central = t.channel /\ t.root = None /\ t.post = None /\ v = opened
       \/ /\ armed.central = t.channel /\ t.root = None /\ t.post # None
          /\ WindowOK(v) /\ But(opened, v, {"queue"})
          /\ \A e \in Range(v.queue) :
              /\ e.kind = "reopen" => e \in Range(opened.queue)
              /\ e.kind = "jump" => e \in Range(opened.queue) \/ e.target = t
          /\ \A e \in Range(opened.queue) : e.kind \in {"reopen", "jump"} => e \in Range(v.queue)
          /\ ~Weak(v, t.channel) /\ Jumping(v, t.channel)

LEMMA BroughtBySteps ==
    ASSUME NEW u, WindowOK(u), NEW t \in Targets, NEW v, Brought(u, v, t)
    PROVE  \E m, armed, opened : BroughtSteps(u, v, t, m, armed, opened)
<1> DEFINE m == [u EXCEPT !.retries = @ \cup {Retry(u, t)}]
<1>1. WindowOK(m) /\ But(u, m, {"retries"}) /\ m.retries = u.retries \cup {Retry(u, t)}
  BY RetryArmed
<1>2. PICK armed, opened :
        /\ Stored(m, armed, t.channel)
        /\ opened = [armed EXCEPT !.retries = @ \ {Retry(u, t)}]
        /\ \/ armed.central # t.channel /\ v = armed
           \/ armed.central = t.channel /\ t.root # None /\ v = Later(opened, "reopen", None, t)
           \/ armed.central = t.channel /\ t.root = None /\ t.post = None /\ v = opened
           \/ /\ armed.central = t.channel /\ t.root = None /\ t.post # None
              /\ v = Later(preparePostNavigation(opened, t.channel), "jump", t.channel, t)
  BY DEF Brought
<1> HIDE DEF m
<1>3. WindowOK(opened) /\ But(armed, opened, {"retries"}) /\ opened.retries = armed.retries \ {Retry(u, t)}
  BY <1>2, RetryDisarmed DEF Stored
<1>4. CASE armed.central # t.channel /\ v = armed
  BY <1>1, <1>2, <1>3, <1>4 DEF BroughtSteps
<1>5. CASE armed.central = t.channel /\ t.root # None /\ v = Later(opened, "reopen", None, t)
  BY <1>3, <1>5, LaterQueues, <1>1, <1>2 DEF Kinds, BroughtSteps
<1>6. CASE armed.central = t.channel /\ t.root = None /\ t.post = None /\ v = opened
  BY <1>1, <1>2, <1>3, <1>6 DEF BroughtSteps
<1>7. CASE /\ armed.central = t.channel /\ t.root = None /\ t.post # None
           /\ v = Later(preparePostNavigation(opened, t.channel), "jump", t.channel, t)
  <2>1. t.channel = AreaOf(t)
    BY <1>7 DEF AreaOf
  <2>2. /\ WindowOK(v) /\ But(opened, v, {"queue"})
        /\ \A e \in Range(v.queue) :
              /\ e.kind = "reopen" => e \in Range(opened.queue)
              /\ e.kind = "jump" => e \in Range(opened.queue) \/ e.target = t
        /\ \A e \in Range(opened.queue) : e.kind \in {"reopen", "jump"} => e \in Range(v.queue)
        /\ ~Weak(v, t.channel) /\ Jumping(v, t.channel)
    BY <1>3, <1>7, <2>1, JumpTakes
  <2> QED BY <1>1, <1>2, <1>3, <1>7, <2>2 DEF BroughtSteps
<1> QED BY <1>2, <1>4, <1>5, <1>6, <1>7

LEMMA PostOpened ==
    ASSUME NEW u, WindowOK(u), NEW t \in Targets, NEW v, v = openChannelPost(u, t)
    PROVE  Opened(u, v, t)
<1>1. CASE t.root # None /\ u.central # None /\ ThreadOpened(u, v, t)
  BY <1>1 DEF ThreadOpened, Opened, But, Fields
<1>2. CASE Brought(u, v, t)
  <2>1. PICK m, armed, opened : BroughtSteps(u, v, t, m, armed, opened)
    BY <1>2, BroughtBySteps
  <2>2. /\ m.gen = u.gen /\ m.refused = u.refused /\ m.central = u.central /\ m.docked = u.docked
        /\ m.at = u.at
    BY <2>1 DEF BroughtSteps, But, Fields
  <2>3. /\ WindowOK(armed) /\ armed.gen = u.gen /\ armed.refused = u.refused
        /\ armed.central \in {u.central, t.channel} /\ armed.docked = u.docked
        /\ \A a \in Areas : armed.at[a] \in {u.at[a], "unplaced"}
    BY <2>1, <2>2 DEF BroughtSteps, Stored, Moved, But, Fields
  <2>4. v = armed \/ (But(armed, v, {"retries", "queue"}) /\ WindowOK(v))
    BY <2>1 DEF BroughtSteps, Queued, But
  <2>5. /\ v.gen = armed.gen /\ v.refused = armed.refused /\ v.central = armed.central
        /\ v.docked = armed.docked /\ v.at = armed.at
    BY <2>4 DEF But, Fields
  <2> QED BY <2>3, <2>4, <2>5 DEF Opened
<1> QED BY <1>1, <1>2, PostOpens

\* What it leaves to be done is still what w asks for, and w is on its way.
LEMMA PostAims ==
    ASSUME NEW u, WindowOK(u), NEW t \in Targets, NEW v, v = openChannelPost(u, t),
           NEW w \in Wishes, w.channel \in Channels, Sought(u, w, t), Aimed(u, w)
    PROVE  Aimed(v, w) /\ Underway(v, w)
<1>1. CASE t.root # None /\ u.central # None /\ ThreadOpened(u, v, t)
  BY <1>1, ThreadArrives DEF Underway
<1>2. CASE Brought(u, v, t)
  <2>1. PICK m, armed, opened : BroughtSteps(u, v, t, m, armed, opened)
    BY <1>2, BroughtBySteps
  <2>2. /\ WindowOK(m) /\ m.gen = u.gen /\ m.threads = u.threads /\ m.docked = u.docked
        /\ m.central = u.central /\ m.at = u.at /\ m.queue = u.queue /\ m.refused = u.refused
        /\ m.retries = u.retries \cup {Retry(u, t)}
        /\ Retry(u, t).target = t /\ Retry(u, t).gen = u.gen
    BY <2>1 DEF BroughtSteps, But, Fields, Retry
  <2>3. Arrived(u, w) => Arrived(m, w)
    BY <2>2 DEF Arrived, Headed, Weak, Jumping, Due
  <2>4. Keeping(u, m, w)
    BY <2>2, <2>3 DEF Keeping
  <2>5. Aimed(m, w)
    BY <2>2, <2>4, AimKept
  <2>6. Sought(m, w, t)
    BY <2>4, SoughtKept
  <2>7. t.channel = w.channel /\ t.root = w.root /\ t.channel \in Channels
    BY DEF Sought, SamePlace
  <2>8. Stored(m, armed, t.channel)
    BY <2>1 DEF BroughtSteps
  <2>9. Aimed(armed, w) /\ (Arrived(m, w) => Arrived(armed, w))
    BY <2>2, <2>5, <2>7, <2>8, StoreAims
  <2>10. armed.gen = m.gen /\ armed.threads = m.threads /\ armed.retries = m.retries
    BY <2>8 DEF Stored, But, Fields
  <2>11. Sought(armed, w, t)
    BY <2>9, <2>10, <2>6, SoughtKept DEF Keeping
  <2>12. CASE armed.central # t.channel /\ v = armed
    BY <2>2, <2>10, <2>8, <2>12, <2>7, <2>9 DEF Stored, Waiting, Underway
  <2>13. /\ opened.gen = armed.gen /\ opened.threads = armed.threads /\ opened.queue = armed.queue
         /\ opened.central = armed.central /\ opened.docked = armed.docked /\ opened.at = armed.at
         /\ opened.retries \subseteq armed.retries /\ opened.refused = armed.refused
    BY <2>1 DEF BroughtSteps, But, Fields
  <2>14. Arrived(armed, w) => Arrived(opened, w)
    BY <2>13 DEF Arrived, Headed, Weak, Jumping, Due
  <2>15. Keeping(armed, opened, w)
    BY <2>13, <2>14 DEF Keeping
  <2>16. Aimed(opened, w)
    BY <2>9, <2>13, <2>15, AimKept
  <2>17. Sought(opened, w, t)
    BY <2>11, <2>15, SoughtKept
  <2>18. CASE armed.central = t.channel /\ t.root # None /\ Queued(opened, v, "reopen", None, t)
    <3> DEFINE e0 == TurnOf(opened, "reopen", None, t)
    <3>1. /\ v.gen = opened.gen /\ v.threads = opened.threads /\ v.central = opened.central
          /\ v.docked = opened.docked /\ v.at = opened.at /\ v.retries = opened.retries
          /\ Range(v.queue) = Range(opened.queue) \cup {e0} /\ v.refused = opened.refused
      BY <2>18 DEF Queued, But, Fields
    <3>2. e0.kind = "reopen" /\ e0.target = t /\ e0.gen = opened.gen
      BY DEF TurnOf
    <3> HIDE DEF e0
    <3>3. Arrived(opened, w) => Arrived(v, w)
      BY <3>1, <3>2 DEF Arrived, Headed, Weak, Jumping, Due, WeakKinds
    <3>4. Keeping(opened, v, w)
      BY <3>1, <3>3 DEF Keeping
    <3>5. Aimed(v, w)
      BY <2>16, <2>17, <3>1, <3>2, <3>4, AimKept
    <3>6. Reopening(v)
      BY <3>1, <3>2 DEF Reopening, Due
    <3> QED BY <3>5, <3>6 DEF Underway
  <2>19. CASE armed.central = t.channel /\ t.root = None /\ t.post = None /\ v = opened
    BY <2>1, <2>19, Apart, <2>17, <2>7, <2>13, <2>16 DEF BroughtSteps, WindowOK, Windows, OnlyShown,
       Sought, Arrived, Underway
  <2>20. CASE /\ armed.central = t.channel /\ t.root = None /\ t.post # None
              /\ WindowOK(v) /\ But(opened, v, {"queue"})
              /\ \A e \in Range(v.queue) :
                  /\ e.kind = "reopen" => e \in Range(opened.queue)
                  /\ e.kind = "jump" => e \in Range(opened.queue) \/ e.target = t
              /\ \A e \in Range(opened.queue) : e.kind \in {"reopen", "jump"} => e \in Range(v.queue)
              /\ ~Weak(v, t.channel) /\ Jumping(v, t.channel)
    <3>1. t.post = w.post
      BY <2>1, <2>20, Apart, <2>17 DEF BroughtSteps, WindowOK, Windows, OnlyShown, Sought
    <3>2. /\ v.gen = opened.gen /\ v.threads = opened.threads /\ v.central = opened.central
          /\ v.retries = opened.retries
      BY <2>20 DEF But, Fields
    <3>3. AreaOf(w) = t.channel
      BY <2>7, <2>20 DEF AreaOf
    <3>4. Arrived(v, w)
      BY <2>7, <2>13, <2>20, <3>2, <3>3 DEF Arrived, Headed
    <3>5. Keeping(opened, v, w)
      BY <3>2, <3>4 DEF Keeping
    <3>6. JumpSought(w, t)
      BY <2>17, <3>1 DEF Sought, JumpSought
    <3>7. Aimed(v, w)
      BY <2>16, <2>20, <3>2, <3>5, <3>6, AimKept
    <3> QED BY <3>4, <3>7 DEF Underway
  <2> QED BY <2>1, <2>12, <2>18, <2>19, <2>20 DEF BroughtSteps
<1> QED BY <1>1, <1>2, PostOpens

-------------------------------------------------------------------------------
(* The invariant                                                              *)

Lookups == [kind : {"post", "channel", "team", "root", "context", "thread"}, target : Targets, gen : Nat]

LookupOK(l, gen) ==
    /\ l.gen <= gen
    /\ l.kind = "thread" => l.target.root # None /\ l.target.post = None
    /\ l.kind = "root" => l.target.root # None
    /\ l.kind # "thread" => ~l.target.keep /\ l.target.post # None

WishOK(w, asked) ==
    /\ w \in Wishes
    /\ w.by = "none" => w = Nowhere
    /\ w.by # "none" => w.channel \in Channels
    /\ w.by \in {"click", "quick"} => w.root = None /\ w.post = None
    /\ w.by = "quick" => w.channel = asked

Types ==
    /\ WindowOK(ui)
    /\ known \subseteq Channels /\ member \subseteq Channels /\ resident \subseteq Posts
    /\ lookups \subseteq Lookups /\ \A l \in lookups : LookupOK(l, ui.gen)
    /\ unread \in Channels \cup {None} /\ WishOK(wish, unread) /\ overtaken \in BOOLEAN

\* The latest navigation has left nothing to be done in the window.
Idle(u) ==
    /\ \A r \in u.retries : r.gen # u.gen
    /\ \A e \in Range(u.queue) : ~Due(u, e, "reopen") /\ ~Due(u, e, "jump")

LookedUp(u, ls, w, l) ==
    /\ w.by = "navigation" /\ SamePlace(l.target, w) /\ l.target.post = w.post
    /\ Idle(u)
    /\ \A k \in ls : k.gen = u.gen => k = l

\* What w asks for is refused, or looked up, or under way.
Chased(u, ls, w) ==
    /\ Aimed(u, w)
    /\ \A l \in ls : l.gen = u.gen => LookedUp(u, ls, w, l)
    /\ w.by = "navigation" =>
        \/ w.channel \in u.refused
        \/ \E l \in ls : l.gen = u.gen
        \/ Underway(u, w)
    /\ w.by = "click" => u.central = w.channel

Followed == ~overtaken => Chased(ui, lookups, wish)

NavigationInv == Types /\ Followed

\* A step of the window that MovesForLatest allows.
MoveOK(u, v, w) ==
    /\ v.central # u.central => v.central = w.channel
    /\ v.docked \notin {u.docked, None} => v.docked = w.root
    /\ \A a \in Areas : v.at[a] # u.at[a] /\ v.at[a] \in Posts => a = AreaOf(w) /\ v.at[a] = w.post

StepOK == Types' /\ (~overtaken' => Chased(ui', lookups', wish') /\ MoveOK(ui, ui', wish'))

\* A step of the window that keeps the wish and the look-ups.
LEMMA ChaseKept ==
    ASSUME NEW u, NEW v, NEW ls, NEW w, Chased(u, ls, w), v.gen = u.gen, Aimed(v, w),
           Idle(u) => Idle(v), u.refused \subseteq v.refused,
           Underway(u, w) => Underway(v, w) \/ w.channel \in v.refused,
           u.central = w.channel => v.central = w.channel
    PROVE  Chased(v, ls, w)
BY DEF Chased, LookedUp

LEMMA StillMoves ==
    ASSUME NEW u, NEW v, NEW w, v.central = u.central, v.docked = u.docked, v.at = u.at
    PROVE  MoveOK(u, v, w)
BY DEF MoveOK

LEMMA OpenedMoves ==
    ASSUME NEW u, NEW v, NEW w, NEW t, Opened(u, v, t), SamePlace(t, w)
    PROVE  MoveOK(u, v, w)
BY Apart DEF Opened, MoveOK, SamePlace

\* Opening what is asked for keeps to it.
LEMMA OpenedChased ==
    ASSUME NEW u, WindowOK(u), NEW t \in Targets, NEW v, v = openChannelPost(u, t),
           NEW w \in Wishes, w.channel \in Channels, Sought(u, w, t), Aimed(u, w), NEW ls, \A l \in ls : l.gen # u.gen
    PROVE  Chased(v, ls, w) /\ WindowOK(v) /\ v.gen = u.gen /\ MoveOK(u, v, w)
BY PostOpened, PostAims, OpenedMoves DEF Sought, Opened, Chased

-------------------------------------------------------------------------------
(* The next turn of the event loop                                            *)

\* The window without its first turn.
Took(u, v) ==
    /\ WindowOK(v) /\ But(u, v, {"queue"})
    /\ Range(u.queue) = {Head(u.queue)} \cup Range(v.queue)

LEMMA TurnTaken ==
    ASSUME NEW u, WindowOK(u), u.queue # <<>>, NEW v, v = [u EXCEPT !.queue = Tail(@)]
    PROVE  Took(u, v) /\ Head(u.queue) \in Turns /\ TurnOK(u.gen, Head(u.queue))
<1> DEFINE q == Tail(u.queue)
<1>1. u.queue \in Seq(Turns)
  BY DEF WindowOK, Windows
<1>2. Head(u.queue) \in Turns /\ q \in Seq(Turns) /\ Range(u.queue) = {Head(u.queue)} \cup Range(q)
  BY <1>1, TailRange
<1>3. v = [u EXCEPT !.queue = q]
  OBVIOUS
<1> HIDE DEF q
<1>4. \A e \in Range(q) : TurnOK(u.gen, e)
  BY <1>2 DEF WindowOK
<1>5. WindowOK(v) /\ v.queue = q /\ But(u, v, {"queue"})
  BY <1>2, <1>3, <1>4, QueueSet
<1>6. TurnOK(u.gen, Head(u.queue))
  BY <1>2 DEF WindowOK
<1> QED BY <1>2, <1>5, <1>6 DEF Took

\* Without a turn that is not due, nothing is lost.
LEMMA TakenKeeps ==
    ASSUME NEW u, NEW v, NEW w, Took(u, v), Aimed(u, w)
    PROVE  /\ ~Due(u, Head(u.queue), "jump") => (Arrived(u, w) => Arrived(v, w)) /\ Aimed(v, w)
           /\ Idle(u) => Idle(v)
           /\ /\ ~Due(u, Head(u.queue), "jump") /\ ~Due(u, Head(u.queue), "reopen")
              /\ Underway(u, w)
              => Underway(v, w)
<1> DEFINE e == Head(u.queue)
<1>1. /\ v.gen = u.gen /\ v.threads = u.threads /\ v.central = u.central /\ v.docked = u.docked
      /\ v.at = u.at /\ v.retries = u.retries /\ v.pending = u.pending /\ v.drag = u.drag
      /\ v.deferred = u.deferred /\ v.refused = u.refused
      /\ Range(u.queue) = {e} \cup Range(v.queue)
  BY DEF Took, But, Fields
<1> HIDE DEF e
<1>2. ~Due(u, e, "jump") => (Arrived(u, w) => Arrived(v, w))
  BY <1>1 DEF Arrived, Headed, Weak, Jumping, Due
<1>3. ~Due(u, e, "jump") => Aimed(v, w)
  BY <1>1, <1>2, AimKept DEF Keeping
<1>4. Idle(u) => Idle(v)
  BY <1>1 DEF Idle, Due
<1>5. ~Due(u, e, "reopen") /\ Reopening(u) => Reopening(v)
  BY <1>1 DEF Reopening, Due
<1>6. Waiting(u, w) => Waiting(v, w)
  BY <1>1 DEF Waiting
<1> QED BY <1>2, <1>3, <1>4, <1>5, <1>6 DEF Underway, e

LEMMA Placed ==
    ASSUME NEW u, WindowOK(u), NEW a \in Areas, NEW where \in Posts \cup {"unplaced", "resting"},
           NEW v, v = Place(u, a, where)
    PROVE  /\ WindowOK(v) /\ But(u, v, {"at"})
           /\ \A x \in Areas : x # a => v.at[x] = u.at[x]
           /\ v.at[a] \in {u.at[a], where}
           /\ Alive(u, a) => v.at[a] = where
<1>1. CASE ~Alive(u, a)
  BY <1>1 DEF Place, But
<1>2. CASE Alive(u, a)
  <2> DEFINE s == [u.at EXCEPT ![a] = where]
  <2>1. u.at \in Stands
    BY DEF WindowOK, Windows
  <2>2. s \in Stands /\ \A x \in Areas : s[x] = IF x = a THEN where ELSE u.at[x]
    BY <2>1 DEF Stands
  <2>3. v = [u EXCEPT !.at = s]
    BY <1>2 DEF Place
  <2> HIDE DEF s
  <2>4. v \in Windows /\ v.at = s /\ But(u, v, {"at"})
    BY <2>2, <2>3 DEF WindowOK, Windows, But, Fields
  <2>5. WindowOK(v)
    BY <2>4 DEF WindowOK, But, Fields
  <2> QED BY <1>2, <2>2, <2>4, <2>5
<1> QED BY <1>1, <1>2

\* The types of what a step of the window leaves alone.
LEMMA TypesKept ==
    ASSUME Types, WindowOK(ui'), ui'.gen = ui.gen,
           UNCHANGED <<known, resident, lookups, member, unread, wish>>, overtaken' \in BOOLEAN
    PROVE  Types'
BY DEF Types

LEMMA TurnSteps ==
    ASSUME NavigationInv, nextTurn
    PROVE  StepOK
<1> DEFINE e == Head(ui.queue)
           u == [ui EXCEPT !.queue = Tail(@)]
           v == ui'
           w == wish
<1>1. /\ ui.queue # <<>>
      /\ UNCHANGED <<known, resident, lookups, member, unread, wish, overtaken>>
  BY DEF nextTurn
<1>2. \/ e.kind = "reopen" /\ v = IF Current(e.gen) THEN openChannelPost(u, e.target) ELSE u
      \/ e.kind = "jump" /\ v = IF Current(e.gen) THEN Place(u, e.area, e.target.post) ELSE u
      \/ e.kind = "jump" /\ Current(e.gen) /\ v = Refused(u, e.target.channel)
      \/ e.kind = "dropped" /\ v = u
      \/ e.kind \in {"settle", "newest"} /\ v = Place(u, e.area, "resting")
      \/ e.kind = "settle" /\ v = Later(u, "newest", e.area, None)
  BY DEF nextTurn
<1>3. WindowOK(ui)
  BY DEF NavigationInv, Types
<1>4. Took(ui, u) /\ e \in Turns /\ TurnOK(ui.gen, e)
  BY <1>1, <1>3, TurnTaken
<1> HIDE DEF e, u
<1>5. /\ WindowOK(u) /\ u.gen = ui.gen /\ u.central = ui.central /\ u.docked = ui.docked /\ u.at = ui.at
      /\ u.refused = ui.refused /\ u.threads = ui.threads /\ u.retries = ui.retries
      /\ u.pending = ui.pending /\ u.drag = ui.drag /\ u.deferred = ui.deferred
      /\ Range(ui.queue) = {e} \cup Range(u.queue)
  BY <1>4 DEF Took, But, Fields, e
<1>6. w \in Wishes /\ (w.by # "none" => w.channel \in Channels)
  BY DEF NavigationInv, Types, WishOK
<1>7. SUFFICES /\ WindowOK(v) /\ v.gen = ui.gen
               /\ ~overtaken => Chased(v, lookups, w) /\ MoveOK(ui, v, w)
  BY <1>1, <1>7, TypesKept DEF NavigationInv, Types, StepOK
<1>8. CASE /\ e.kind = "reopen" /\ Current(e.gen) /\ v = openChannelPost(u, e.target)
  <2>1. e.target \in Targets /\ Due(ui, e, "reopen")
    BY <1>4, <1>8 DEF TurnOK, Current, Due
  <2>2. Opened(u, v, e.target)
    BY <1>5, <1>8, <2>1, PostOpened
  <2>3. ASSUME ~overtaken PROVE Chased(v, lookups, w) /\ MoveOK(ui, v, w)
    <3>1. Chased(ui, lookups, w)
      BY <2>3 DEF NavigationInv, Followed
    <3>2. Aimed(ui, w) /\ Sought(ui, w, e.target)
      BY <1>5, <2>1, <3>1 DEF Chased, Aimed
    <3>3. (Arrived(ui, w) => Arrived(u, w)) /\ Aimed(u, w)
      BY <1>4, <1>8, <3>2, TakenKeeps DEF Due, e
    <3>4. Sought(u, w, e.target)
      BY <1>5, <3>2, <3>3, SoughtKept DEF Keeping
    <3>5. \A l \in lookups : l.gen # u.gen
      BY <1>5, <2>1, <3>1 DEF Chased, LookedUp, Idle
    <3>6. Chased(v, lookups, w) /\ MoveOK(u, v, w)
      BY <1>6, <3>2, <1>5, <1>8, <2>1, <3>3, <3>4, <3>5, OpenedChased DEF Sought
    <3>7. MoveOK(ui, v, w)
      BY <1>5, <3>6 DEF MoveOK
    <3> QED BY <3>6, <3>7
  <2> QED BY <1>5, <2>2, <2>3 DEF Opened
<1>9. CASE v = u /\ ~Due(ui, e, "reopen") /\ ~Due(ui, e, "jump")
  BY <1>4, <1>9, TakenKeeps, <1>5, ChaseKept, StillMoves DEF NavigationInv, Followed, Chased, e
<1>10. CASE /\ e.kind = "jump" /\ Current(e.gen) /\ v = Place(u, e.area, e.target.post)
  <2>1. /\ e.target \in Targets /\ e.target.post \in Posts /\ e.area = AreaOf(e.target)
        /\ Due(ui, e, "jump")
    BY <1>4, <1>10 DEF TurnOK, Current, Due
  <2>2. e.area \in Areas
    BY <2>1, Apart DEF Targets, AreaOf
  <2>3. /\ WindowOK(v) /\ But(u, v, {"at"})
        /\ \A x \in Areas : x # e.area => v.at[x] = u.at[x]
        /\ v.at[e.area] \in {u.at[e.area], e.target.post}
        /\ Alive(u, e.area) => v.at[e.area] = e.target.post
    BY <1>5, <1>10, <2>1, <2>2, Placed
  <2>4. /\ v.gen = u.gen /\ v.threads = u.threads /\ v.central = u.central /\ v.docked = u.docked
        /\ v.retries = u.retries /\ v.queue = u.queue /\ v.refused = u.refused
        /\ v.pending = u.pending /\ v.drag = u.drag /\ v.deferred = u.deferred
    BY <2>3 DEF But, Fields
  <2>5. ASSUME ~overtaken PROVE Chased(v, lookups, w) /\ MoveOK(ui, v, w)
    <3>1. Chased(ui, lookups, w)
      BY <2>5 DEF NavigationInv, Followed
    <3>2. Aimed(ui, w) /\ JumpSought(w, e.target)
      BY <1>5, <2>1, <3>1 DEF Chased, Aimed
    <3>3. e.area = AreaOf(w) /\ e.target.post = w.post
      BY <2>1, <3>2 DEF JumpSought, SamePlace, AreaOf
    <3>4. Arrived(ui, w) => Arrived(v, w)
      BY <1>3, <1>5, <3>3, <2>3, <2>1, Apart, <2>4 DEF WindowOK, Arrived, AreaOf, Alive, Headed,
         Weak
    <3>5. Aimed(v, w)
      BY <1>5, <2>4, <3>4, <3>2, AimKept DEF Keeping
    <3>6. Underway(ui, w) => Underway(v, w)
      BY <1>5, <1>10, <2>4, <3>4 DEF Reopening, Due, Waiting, Underway
    <3>7. Idle(ui) => Idle(v)
      BY <1>5, <2>4 DEF Idle, Due
    <3>8. Chased(v, lookups, w)
      BY <1>5, <2>4, <3>1, <3>5, <3>6, <3>7, ChaseKept
    <3>9. MoveOK(ui, v, w)
      BY <1>5, <2>3, <2>4, <3>3 DEF MoveOK
    <3> QED BY <3>8, <3>9
  <2> QED BY <1>5, <2>3, <2>4, <2>5
<1>11. CASE /\ e.kind \in {"settle", "newest"}
            /\ v = Place(u, e.area, "resting") \/ v = Later(u, "newest", e.area, None)
  <2>1. e.area \in Areas
    BY <1>4, <1>11 DEF TurnOK
  <2> DEFINE e0 == TurnOf(u, "newest", e.area, None)
  <2>2. e0.kind = "newest" /\ e0.area = e.area
    BY DEF TurnOf
  <2>3. /\ WindowOK(v) /\ But(u, v, {"at", "queue"})
        /\ \A x \in Areas : x # e.area => v.at[x] = u.at[x]
        /\ \A x \in Areas : v.at[x] \in {u.at[x], "resting"}
        /\ Range(u.queue) \subseteq Range(v.queue) /\ Range(v.queue) \subseteq Range(u.queue) \cup {e0}
    <3>1. CASE v = Place(u, e.area, "resting")
      BY <1>5, <2>1, <3>1, Placed DEF But, Fields
    <3>2. CASE v = Later(u, "newest", e.area, None)
      <4>1. "newest" \in Kinds
        BY DEF Kinds
      <4>2. Queued(u, v, "newest", e.area, None)
        BY <1>5, <2>1, <3>2, <4>1, LaterQueues
      <4>3. v.at = u.at /\ But(u, v, {"at", "queue"})
        BY <4>2 DEF Queued, But, Fields
      <4> QED BY <4>2, <4>3 DEF Queued
    <3> QED BY <1>11, <3>1, <3>2
  <2> HIDE DEF e0
  <2>4. /\ v.gen = u.gen /\ v.threads = u.threads /\ v.central = u.central /\ v.docked = u.docked
        /\ v.retries = u.retries /\ v.refused = u.refused
        /\ v.pending = u.pending /\ v.drag = u.drag /\ v.deferred = u.deferred
    BY <2>3 DEF But, Fields
  <2>5. ASSUME ~overtaken PROVE Chased(v, lookups, w) /\ MoveOK(ui, v, w)
    <3>1. Chased(ui, lookups, w)
      BY <2>5 DEF NavigationInv, Followed
    <3>2. Aimed(ui, w)
      BY <3>1 DEF Chased
    <3>3. /\ Aimed(u, w) /\ (Idle(ui) => Idle(u)) /\ (Underway(ui, w) => Underway(u, w))
          /\ (Arrived(ui, w) => Arrived(u, w))
      BY <1>4, <1>11, <3>2, TakenKeeps DEF e, Due
    <3>4. Arrived(ui, w) => Arrived(v, w)
      BY <1>5, <2>4, <1>11, <3>3, <1>6, WishArea, <2>3, <2>2 DEF Arrived, Headed, Weak, WeakKinds,
         NavigationInv, Types, WishOK, Nowhere, Wish, Jumping, Due
    <3>5. Aimed(v, w)
      BY <1>5, <2>4, <3>4, <2>2, <2>3, <3>2, AimKept DEF Keeping
    <3>6. Underway(ui, w) => Underway(v, w)
      BY <1>5, <1>11, <2>3, <2>4, <3>4 DEF Reopening, Due, Waiting, Underway
    <3>7. Idle(ui) => Idle(v)
      BY <1>5, <2>2, <2>3, <2>4 DEF Idle, Due
    <3>8. Chased(v, lookups, w)
      BY <1>5, <2>4, <3>1, <3>5, <3>6, <3>7, ChaseKept
    <3>9. MoveOK(ui, v, w)
      BY <1>5, <2>3, Apart, <2>4 DEF MoveOK
    <3> QED BY <3>8, <3>9
  <2> QED BY <1>5, <2>3, <2>4, <2>5
<1>12. CASE /\ e.kind = "jump" /\ Current(e.gen) /\ v = Refused(u, e.target.channel)
  <2> DEFINE c == e.target.channel
  <2>1. e.target \in Targets /\ c \in Channels /\ Due(ui, e, "jump")
    BY <1>4, <1>12 DEF TurnOK, Current, Due, Targets
  <2>2. v = [u EXCEPT !.refused = @ \cup {c}]
    BY <1>12 DEF Refused
  <2> HIDE DEF c
  <2>3. v \in Windows /\ v.refused = u.refused \cup {c} /\ But(u, v, {"refused"})
    BY <1>5, <2>1, <2>2 DEF WindowOK, Windows, But, Fields
  <2>4. WindowOK(v)
    BY <1>5, <2>3 DEF WindowOK, But, Fields
  <2>5. /\ v.gen = u.gen /\ v.threads = u.threads /\ v.central = u.central /\ v.docked = u.docked
        /\ v.retries = u.retries /\ v.queue = u.queue /\ v.at = u.at
    BY <2>3 DEF But, Fields
  <2>6. ASSUME ~overtaken PROVE Chased(v, lookups, w) /\ MoveOK(ui, v, w)
    <3>1. Chased(ui, lookups, w)
      BY <2>6 DEF NavigationInv, Followed
    <3>2. Aimed(ui, w) /\ JumpSought(w, e.target)
      BY <1>5, <2>1, <3>1 DEF Chased, Aimed
    <3>3. w.channel \in v.refused /\ u.refused \subseteq v.refused
      BY <2>3, <3>2 DEF JumpSought, SamePlace, c
    <3>4. Aimed(v, w)
      BY <1>5, <2>5, <3>2, <3>3, AimKept DEF Keeping, Arrived
    <3>5. Idle(ui) => Idle(v)
      BY <1>5, <2>5 DEF Idle, Due
    <3>6. Chased(v, lookups, w)
      BY <1>5, <2>5, <3>1, <3>3, <3>4, <3>5, ChaseKept
    <3>7. MoveOK(ui, v, w)
      BY <1>5, <2>5, StillMoves
    <3> QED BY <3>6, <3>7
  <2> QED BY <1>5, <2>4, <2>5, <2>6
<1> QED BY <1>2, <1>4, <1>8, <1>9, <1>10, <1>11, <1>12 DEF Due, Current

-------------------------------------------------------------------------------
(* The admission of a channel                                                 *)

\* The retries of a channel are told, and resumed if it was opened.
Finished(u, v, c, opened) ==
    /\ WindowOK(v) /\ But(u, v, {"retries", "refused", "queue"})
    /\ v.retries = {r \in u.retries : r.target.channel # c}
    /\ v.refused = IF opened THEN u.refused ELSE u.refused \cup {c}
    /\ Range(u.queue) \subseteq Range(v.queue)
    /\ \A e \in Range(v.queue) : e \in Range(u.queue) \/
        (/\ e.kind = "reopen" /\ e.gen = u.gen
         /\ \E r \in u.retries : r.gen = u.gen /\ r.target = e.target)
    /\ opened => \A r \in u.retries : r.target.channel = c /\ r.gen = u.gen =>
                    \E e \in Range(v.queue) : Due(u, e, "reopen")

LEMMA OpenFinishes ==
    ASSUME NEW u, WindowOK(u), NEW c \in Channels, NEW opened \in BOOLEAN
    PROVE  Finished(u, storedChannelOpenFinished(u, c, opened), c, opened)
<1> DEFINE mine == {r \in u.retries : r.target.channel = c}
           resumed == {r \in mine : opened /\ r.gen = u.gen}
           turn(r) == [kind |-> "reopen", area |-> None, target |-> r.target, gen |-> r.gen]
           S == {turn(r) : r \in resumed}
           q == u.queue \o SetToSeq(S)
           kept == u.retries \ mine
           refused == IF opened THEN u.refused ELSE u.refused \cup {c}
           v == storedChannelOpenFinished(u, c, opened)
<1>1. v = [u EXCEPT !.retries = kept, !.refused = refused, !.queue = q]
  BY DEF storedChannelOpenFinished
<1>2. /\ u.retries \in SUBSET Retries /\ IsFiniteSet(u.retries) /\ u.queue \in Seq(Turns)
      /\ u.gen \in Nat /\ u.refused \in SUBSET Channels
  BY DEF WindowOK, Windows
<1>3. ASSUME NEW r \in u.retries
      PROVE  /\ r.target \in Targets /\ r.gen \in Nat /\ r.gen <= u.gen
             /\ turn(r) \in Turns /\ turn(r).kind = "reopen" /\ turn(r).target = r.target
             /\ turn(r).gen = r.gen /\ TurnOK(u.gen, turn(r))
  <2>1. r.target \in Targets /\ r.gen \in Nat /\ r.gen <= u.gen
    BY <1>2 DEF WindowOK, Retries
  <2> DEFINE x == r.target
             g == r.gen
             e == turn(r)
  <2>2. e = [kind |-> "reopen", area |-> None, target |-> x, gen |-> g]
    OBVIOUS
  <2> HIDE DEF x, g, e
  <2>3. e \in Turns /\ e.kind = "reopen" /\ e.target = x /\ e.gen = g
    BY <2>1, <2>2 DEF Turns, Kinds, x, g
  <2>4. TurnOK(u.gen, e)
    BY <2>1, <2>3 DEF TurnOK, x, g
  <2> QED BY <2>1, <2>3, <2>4 DEF x, g, e
<1>4. IsFiniteSet(S)
  <2>1. resumed \subseteq u.retries /\ IsFiniteSet(resumed)
    BY <1>2, FS_Subset
  <2> HIDE DEF resumed
  <2> DEFINE f == [r \in resumed |-> turn(r)]
  <2>2. f \in Surjection(resumed, S)
    BY DEF Surjection
  <2> HIDE DEF f, S
  <2> QED BY <2>1, <2>2, FS_Surjection
<1>5. S \subseteq Turns /\ \A e \in S : TurnOK(u.gen, e)
  <2> HIDE DEF turn
  <2> QED BY <1>3
<1>6. SetToSeq(S) \in Seq(S) /\ Range(SetToSeq(S)) = S
  <2> HIDE DEF S
  <2> QED BY <1>4, OrderRange
<1>7. SetToSeq(S) \in Seq(Turns)
  <2> HIDE DEF S
  <2> QED BY <1>5, <1>6, SeqMonotonic
<1>8. q \in Seq(Turns) /\ Range(q) = Range(u.queue) \cup S
  <2> DEFINE z == SetToSeq(S)
  <2>1. z \in Seq(Turns) /\ Range(z) = S /\ q = u.queue \o z
    BY <1>6, <1>7
  <2> HIDE DEF q, z, S
  <2> QED BY <1>2, <2>1, ConcatRange
<1>9. kept \in SUBSET Retries /\ IsFiniteSet(kept) /\ kept = {r \in u.retries : r.target.channel # c}
  BY <1>2, FS_Subset
<1>10. refused \in SUBSET Channels
  BY <1>2
<1>11. \A e \in Range(q) : TurnOK(u.gen, e)
  <2> HIDE DEF q, S
  <2> QED BY <1>5, <1>8 DEF WindowOK
<1>12. /\ \A e \in S : e.kind = "reopen" /\ e.gen = u.gen
                        /\ \E r \in u.retries : r.gen = u.gen /\ r.target = e.target
       /\ opened => \A r \in u.retries : r.target.channel = c /\ r.gen = u.gen => turn(r) \in S
  <2> HIDE DEF turn
  <2> QED BY <1>3
<1>13. ASSUME opened, NEW r \in u.retries, r.target.channel = c, r.gen = u.gen
       PROVE  \E e \in S : Due(u, e, "reopen")
  <2> HIDE DEF turn, S
  <2> QED BY <1>3, <1>12, <1>13 DEF Due
<1> HIDE DEF kept, refused, q, v, S, resumed, turn
<1>14. /\ v \in Windows /\ v.retries = kept /\ v.refused = refused /\ v.queue = q
       /\ But(u, v, {"retries", "refused", "queue"})
  BY <1>1, <1>8, <1>9, <1>10 DEF WindowOK, Windows, But, Fields
<1>15. /\ v.gen = u.gen /\ v.docked = u.docked /\ v.threads = u.threads /\ v.deferred = u.deferred
       /\ v.asking = u.asking /\ v.pending = u.pending
  BY <1>14 DEF But, Fields
<1>16. WindowOK(v)
  BY <1>9, <1>11, <1>14, <1>15 DEF WindowOK
<1>17. \A e \in Range(v.queue) : e \in Range(u.queue) \/
          (/\ e.kind = "reopen" /\ e.gen = u.gen
           /\ \E r \in u.retries : r.gen = u.gen /\ r.target = e.target)
  BY <1>8, <1>12, <1>14
<1>18. opened => \A r \in u.retries : r.target.channel = c /\ r.gen = u.gen =>
                    \E e \in Range(v.queue) : Due(u, e, "reopen")
  BY <1>8, <1>13, <1>14
<1>19. Range(u.queue) \subseteq Range(v.queue)
  BY <1>8, <1>14
<1> QED BY <1>9, <1>14, <1>16, <1>17, <1>18, <1>19 DEF Finished, v, refused

\* Retries of the wish's channel that are told are resumed, or it is refused.
LEMMA FinishAims ==
    ASSUME NEW u, NEW v, NEW c, NEW opened \in BOOLEAN, Finished(u, v, c, opened), NEW w, Aimed(u, w)
    PROVE  /\ Aimed(v, w) /\ (Idle(u) => Idle(v)) /\ MoveOK(u, v, w)
           /\ \/ Underway(u, w)
              \/ w.channel = c /\ \E r \in u.retries : r.gen = u.gen
              => Underway(v, w) \/ w.channel \in v.refused
<1>1. /\ v.gen = u.gen /\ v.threads = u.threads /\ v.central = u.central /\ v.docked = u.docked
      /\ v.at = u.at /\ v.pending = u.pending /\ v.drag = u.drag /\ v.deferred = u.deferred
      /\ v.retries = {r \in u.retries : r.target.channel # c}
      /\ Range(u.queue) \subseteq Range(v.queue)
      /\ \A e \in Range(v.queue) : e \in Range(u.queue) \/
          (/\ e.kind = "reopen" /\ e.gen = u.gen
           /\ \E r \in u.retries : r.gen = u.gen /\ r.target = e.target)
  BY DEF Finished, But, Fields
<1>2. Arrived(u, w) => Arrived(v, w)
  <2>1. u.refused \subseteq v.refused
    BY DEF Finished
  <2> QED BY <1>1, <2>1 DEF Weak, WeakKinds, Jumping, Due, Arrived, Headed
<1>3. Aimed(v, w)
  BY <1>1, <1>2, AimKept DEF Keeping, Aimed
<1>4. Idle(u) => Idle(v)
  BY <1>1 DEF Idle, Due
<1>5. ASSUME NEW r \in u.retries, r.gen = u.gen, w.channel = c
      PROVE  Underway(v, w) \/ w.channel \in v.refused
  BY <1>5, <1>1 DEF Aimed, Sought, SamePlace, Finished, Reopening, Due, Underway
<1>6. ASSUME Underway(u, w) PROVE Underway(v, w) \/ w.channel \in v.refused
  BY <1>2, <1>1, <1>5, <1>6 DEF Underway, Reopening, Due, Waiting, Aimed, Sought, SamePlace
<1>7. MoveOK(u, v, w)
  BY <1>1, StillMoves
<1> QED BY <1>3, <1>4, <1>5, <1>6, <1>7

\* A step that touches neither the places nor what is left to be done, but for admissions
\* that begin.
LEMMA Untouched ==
    ASSUME NEW u, NEW v, But(u, v, {"asking", "listed", "foreign"}), NEW ls, NEW w
    PROVE  /\ Aimed(u, w) => Aimed(v, w)
           /\ Arrived(u, w) => Arrived(v, w)
           /\ Idle(u) => Idle(v)
           /\ Chased(u, ls, w) => Chased(v, ls, w)
           /\ MoveOK(u, v, w)
<1>1. /\ v.gen = u.gen /\ v.threads = u.threads /\ v.central = u.central /\ v.docked = u.docked
      /\ v.at = u.at /\ v.pending = u.pending /\ v.drag = u.drag /\ v.deferred = u.deferred
      /\ v.retries = u.retries /\ v.queue = u.queue /\ v.refused = u.refused
  BY DEF But, Fields
<1>2. Arrived(u, w) => Arrived(v, w)
  BY <1>1 DEF Arrived, Headed, Weak, Jumping, Due
<1>3. Aimed(u, w) => Aimed(v, w)
  BY <1>1, <1>2, AimKept DEF Keeping
<1>4. Idle(u) => Idle(v)
  BY <1>1 DEF Idle, Due
<1>5. Underway(u, w) => Underway(v, w)
  BY <1>1, <1>2 DEF Underway, Reopening, Waiting, Due
<1>6. Chased(u, ls, w) => Chased(v, ls, w)
  BY <1>3, <1>1, <1>4, <1>5, ChaseKept DEF Chased
<1>7. MoveOK(u, v, w)
  BY <1>1, StillMoves
<1> QED BY <1>2, <1>3, <1>4, <1>6, <1>7

LEMMA AdmittedOK ==
    ASSUME WindowOK(ui), NEW a \in ui.asking
    PROVE  /\ WindowOK(Admitted(a)) /\ But(ui, Admitted(a), {"asking", "pending"})
           /\ Admitted(a).pending = ui.pending \ {a.channel} /\ a.channel \in Channels
<1> DEFINE v == Admitted(a)
<1>1. v = [ui EXCEPT !.asking = @ \ {a}, !.pending = @ \ {a.channel}]
  BY DEF Admitted
<1> HIDE DEF v
<1>2. /\ v \in Windows /\ v.asking = ui.asking \ {a} /\ v.pending = ui.pending \ {a.channel}
      /\ But(ui, v, {"asking", "pending"})
  BY <1>1 DEF WindowOK, Windows, But, Fields
<1>3. AskingOK(v.asking, v.pending)
  BY <1>2 DEF WindowOK, AskingOK
<1>4. WindowOK(v)
  BY <1>2, <1>3 DEF WindowOK, But, Fields
<1>5. a.channel \in Channels
  BY DEF WindowOK, Windows, Requests
<1> QED BY <1>2, <1>4, <1>5 DEF v

\* The admission of the wish's channel is over, the retries are still to be told.
LEMMA AdmittedAims ==
    ASSUME WindowOK(ui), NEW a \in ui.asking, NEW w, Aimed(ui, w)
    PROVE  /\ Aimed(Admitted(a), w) /\ (Idle(ui) => Idle(Admitted(a)))
           /\ Underway(ui, w) => \/ Underway(Admitted(a), w)
                                 \/ w.channel = a.channel /\ \E r \in Admitted(a).retries : r.gen = Admitted(a).gen
<1> DEFINE v == Admitted(a)
<1>1. But(ui, v, {"asking", "pending"}) /\ v.pending = ui.pending \ {a.channel}
  BY AdmittedOK
<1> HIDE DEF v
<1>2. /\ v.gen = ui.gen /\ v.threads = ui.threads /\ v.central = ui.central /\ v.docked = ui.docked
      /\ v.at = ui.at /\ v.drag = ui.drag /\ v.deferred = ui.deferred
      /\ v.retries = ui.retries /\ v.queue = ui.queue /\ v.refused = ui.refused
  BY <1>1 DEF But, Fields
<1>3. Arrived(ui, w) => Arrived(v, w)
  BY <1>2 DEF Arrived, Headed, Weak, Jumping, Due
<1>4. Aimed(v, w)
  BY <1>2, <1>3, AimKept DEF Keeping
<1>5. Idle(ui) => Idle(v)
  BY <1>2 DEF Idle, Due
<1>6. Underway(ui, w) => Underway(v, w) \/ (w.channel = a.channel /\ \E r \in v.retries : r.gen = v.gen)
  BY <1>1, <1>2, <1>3 DEF Underway, Reopening, Waiting, Due
<1> QED BY <1>4, <1>5, <1>6 DEF v

LEMMA AdmissionSuffices ==
    ASSUME NavigationInv, WindowOK(ui'), ui'.gen = ui.gen,
           UNCHANGED <<known, resident, lookups, unread, wish>>, overtaken' \in BOOLEAN,
           member' \subseteq Channels,
           ~overtaken' => Chased(ui', lookups, wish) /\ MoveOK(ui, ui', wish)
    PROVE  StepOK
<1>1. Types'
  BY DEF NavigationInv, Types
<1> QED BY <1>1 DEF StepOK

LEMMA NotAdmittedSteps ==
    ASSUME WindowOK(ui), NEW a \in ui.asking, NEW v, v = NotAdmitted(a)
    PROVE  /\ WindowOK(v) /\ v.gen = ui.gen
           /\ \A w : Chased(ui, lookups, w) => Chased(v, lookups, w) /\ MoveOK(ui, v, w)
<1> DEFINE m == Admitted(a)
           c == a.channel
<1>1. WindowOK(m) /\ But(ui, m, {"asking", "pending"}) /\ m.pending = ui.pending \ {c} /\ c \in Channels
  BY AdmittedOK
<1>2. Finished(m, v, c, FALSE)
  BY <1>1, OpenFinishes DEF NotAdmitted
<1>3. ASSUME NEW w, Chased(ui, lookups, w) PROVE Chased(v, lookups, w) /\ MoveOK(ui, v, w)
  <2>1. Aimed(ui, w)
    BY <1>3 DEF Chased
  <2>2. /\ Aimed(m, w) /\ (Idle(ui) => Idle(m))
        /\ Underway(ui, w) => \/ Underway(m, w)
                              \/ w.channel = c /\ \E r \in m.retries : r.gen = m.gen
    BY <2>1, AdmittedAims
  <2> HIDE DEF m, c
  <2>3. /\ Aimed(v, w) /\ (Idle(m) => Idle(v)) /\ MoveOK(m, v, w)
        /\ \/ Underway(m, w)
           \/ w.channel = c /\ \E r \in m.retries : r.gen = m.gen
           => Underway(v, w) \/ w.channel \in v.refused
    BY <1>2, <2>2, FinishAims
  <2>4. /\ m.gen = ui.gen /\ m.central = ui.central /\ m.docked = ui.docked /\ m.at = ui.at
        /\ m.refused = ui.refused
    BY <1>1 DEF But, Fields
  <2>5. v.gen = m.gen /\ v.central = m.central /\ m.refused \subseteq v.refused
    BY <1>2 DEF Finished, But, Fields
  <2>6. Chased(v, lookups, w)
    BY <1>3, <2>2, <2>3, <2>4, <2>5, ChaseKept
  <2>7. MoveOK(ui, v, w)
    BY <2>3, <2>4 DEF MoveOK
  <2> QED BY <2>6, <2>7
<1>4. WindowOK(v) /\ v.gen = ui.gen
  BY <1>1, <1>2 DEF Finished, But, Fields
<1> QED BY <1>3, <1>4

LEMMA AskedSteps ==
    ASSUME WindowOK(ui), NEW a \in ui.asking, NEW stage \in RequestStages, NEW v, v = Asked(a, stage)
    PROVE  WindowOK(v) /\ But(ui, v, {"asking", "listed", "foreign"})
<1> DEFINE b == [a EXCEPT !.stage = stage]
<1>1. a \in Requests /\ ui.asking \subseteq Requests
  BY DEF WindowOK, Windows
<1>2. b \in Requests /\ b.channel = a.channel
  BY <1>1 DEF Requests
<1>3. v = [ui EXCEPT !.asking = (@ \ {a}) \cup {b}]
  BY DEF Asked
<1> HIDE DEF b
<1>4. /\ v \in Windows /\ v.asking = (ui.asking \ {a}) \cup {b} /\ But(ui, v, {"asking"})
  BY <1>2, <1>3 DEF WindowOK, Windows, But, Fields
<1>5. AskingOK(v.asking, ui.pending)
  BY <1>1, <1>2, <1>4 DEF WindowOK, AskingOK
<1>6. WindowOK(v)
  BY <1>4, <1>5 DEF WindowOK, But, Fields
<1> QED BY <1>4, <1>6 DEF But

LEMMA AdmittedSteps ==
    ASSUME NavigationInv, NEW a \in ui.asking, openAdmitted(a)
    PROVE  /\ WindowOK(ui') /\ ui'.gen = ui.gen /\ overtaken' \in BOOLEAN
           /\ ~overtaken' => Chased(ui', lookups, wish) /\ MoveOK(ui, ui', wish)
<1> DEFINE c == a.channel
           m == Admitted(a)
           L == m.listed \cup (member \ ui.foreign)
           n == [m EXCEPT !.listed = L]
           u == openStoredChannel(n, c)
           v == ui'
           w == wish
<1>1. /\ v = storedChannelOpenFinished(u, c, u.central = c)
      /\ overtaken' = (overtaken \/ (u.central # ui.central /\ c # w.channel))
  BY DEF openAdmitted
<1>2. WindowOK(ui) /\ overtaken \in BOOLEAN /\ w \in Wishes /\ member \subseteq Channels
  BY DEF NavigationInv, Types, WishOK
<1>3. WindowOK(m) /\ But(ui, m, {"asking", "pending"}) /\ m.pending = ui.pending \ {c} /\ c \in Channels
  BY <1>2, AdmittedOK
<1>4. WindowOK(n) /\ But(m, n, {"asking", "listed", "foreign"})
  <2>1. L \in SUBSET Channels
    BY <1>2, <1>3 DEF WindowOK, Windows
  <2>2. n = [m EXCEPT !.listed = L]
    OBVIOUS
  <2> HIDE DEF L, n, m
  <2>3. n \in Windows /\ But(m, n, {"listed"})
    BY <1>3, <2>1, <2>2 DEF WindowOK, Windows, But, Fields
  <2> QED BY <1>3, <2>3 DEF WindowOK, But, Fields
<1> HIDE DEF n
<1>5. Stored(n, u, c)
  BY <1>3, <1>4, OpenStores
<1> HIDE DEF u
<1>6. Finished(u, v, c, u.central = c)
  BY <1>1, <1>3, <1>5, OpenFinishes DEF Stored
<1> HIDE DEF m, c
<1>7. /\ m.gen = ui.gen /\ m.central = ui.central /\ m.docked = ui.docked /\ m.at = ui.at
      /\ m.refused = ui.refused
      /\ n.gen = ui.gen /\ n.central = ui.central /\ n.docked = ui.docked /\ n.at = ui.at
      /\ n.refused = ui.refused /\ n.retries = m.retries
      /\ u.gen = ui.gen /\ u.docked = ui.docked /\ u.refused = ui.refused /\ u.retries = m.retries
      /\ v.gen = ui.gen /\ v.central = u.central /\ u.refused \subseteq v.refused
      /\ v.docked = u.docked /\ v.at = u.at
  BY <1>3, <1>4, <1>5, <1>6 DEF But, Fields, Stored, Finished
<1>8. ASSUME ~overtaken' PROVE Chased(v, lookups, w) /\ MoveOK(ui, v, w)
  <2>1. Chased(ui, lookups, w) /\ Aimed(ui, w)
    BY <1>1, <1>2, <1>8 DEF NavigationInv, Followed, Chased
  <2>2. c = w.channel \/ u.central = n.central
    BY <1>1, <1>7, <1>8
  <2>3. /\ Aimed(m, w) /\ (Idle(ui) => Idle(m))
        /\ Underway(ui, w) => \/ Underway(m, w)
                              \/ w.channel = c /\ \E r \in m.retries : r.gen = m.gen
    BY <1>2, <2>1, AdmittedAims DEF m, c
  <2>4. Aimed(n, w) /\ (Idle(m) => Idle(n))
    BY <1>4, <2>3, Untouched
  <2>5. Underway(m, w) => Underway(n, w)
    BY <1>4, Untouched DEF But, Fields, Underway, Reopening, Waiting, Due
  <2>6. Aimed(u, w) /\ (Underway(n, w) => Underway(u, w))
    BY <1>2, <1>3, <1>4, <1>5, <2>2, <2>4, StoreAims
  <2>7. Idle(n) => Idle(u)
    BY <1>5 DEF Stored, But, Fields, TurnOf, Moved, Idle, Due
  <2>8. /\ Aimed(v, w) /\ (Idle(u) => Idle(v)) /\ MoveOK(u, v, w)
        /\ \/ Underway(u, w)
           \/ w.channel = c /\ \E r \in u.retries : r.gen = u.gen
           => Underway(v, w) \/ w.channel \in v.refused
    BY <1>6, <2>6, FinishAims
  <2>9. Underway(ui, w) => Underway(v, w) \/ w.channel \in v.refused
    BY <1>7, <2>3, <2>5, <2>6, <2>8
  <2>10. u.central = ui.central \/ (u.central = c /\ c = w.channel)
    BY <1>5, <1>7, <2>2 DEF Stored, Moved
  <2>11. Chased(v, lookups, w)
    BY <1>7, <2>1, <2>3, <2>4, <2>7, <2>8, <2>9, <2>10, ChaseKept
  <2>12. \A x \in Areas : v.at[x] \in {ui.at[x], "unplaced"}
    BY <1>5, <1>7 DEF Stored, Moved
  <2>13. MoveOK(ui, v, w)
    BY <1>7, <2>10, <2>12, Apart DEF MoveOK
  <2> QED BY <2>11, <2>13
<1>9. WindowOK(v)
  BY <1>6 DEF Finished
<1> QED BY <1>1, <1>2, <1>7, <1>8, <1>9

LEMMA AdmissionSteps ==
    ASSUME NavigationInv, Admission
    PROVE  StepOK
<1>1. UNCHANGED <<known, resident, lookups, unread, wish>>
  BY DEF Admission
<1>2. PICK a \in ui.asking : categoriesRetrieved(a) \/ joined(a) \/ admissionFailed(a)
  BY DEF Admission
<1>3. WindowOK(ui) /\ overtaken \in BOOLEAN /\ member \subseteq Channels
  BY DEF NavigationInv, Types
<1>4. a.channel \in Channels
  BY <1>3, AdmittedOK
<1>5. overtaken' = overtaken => (~overtaken' => Chased(ui, lookups, wish))
  BY DEF NavigationInv, Followed
<1>6. CASE member' = member /\ openAdmitted(a)
  BY <1>1, <1>3, <1>6, AdmittedSteps, AdmissionSuffices
<1>7. CASE member' = member /\ overtaken' = overtaken /\ ui' = NotAdmitted(a)
  BY <1>3, <1>7, NotAdmittedSteps, <1>1, <1>5, AdmissionSuffices
<1>8. ASSUME NEW stage \in RequestStages, ui' = Asked(a, stage), overtaken' = overtaken,
             member' \subseteq Channels
      PROVE  StepOK
  BY <1>3, <1>8, AskedSteps, <1>5, Untouched, <1>1, AdmissionSuffices DEF But, Fields
<1>9. CASE member' = member /\ overtaken' = overtaken /\ ui' = categoriesFailed(a)
  <2> DEFINE v == categoriesFailed(a)
  <2>1. v = [ui EXCEPT !.asking = @ \ {a}]
    BY DEF categoriesFailed
  <2> HIDE DEF v
  <2>2. v \in Windows /\ v.asking = ui.asking \ {a} /\ But(ui, v, {"asking"})
    BY <1>3, <2>1 DEF WindowOK, Windows, But, Fields
  <2>3. AskingOK(v.asking, ui.pending)
    BY <1>3, <2>2 DEF WindowOK, AskingOK
  <2>4. WindowOK(v) /\ v.gen = ui.gen
    BY <1>3, <2>2, <2>3 DEF WindowOK, But, Fields
  <2>5. But(ui, v, {"asking", "listed", "foreign"})
    BY <2>2 DEF But
  <2>6. ~overtaken' => Chased(v, lookups, wish) /\ MoveOK(ui, v, wish)
    BY <1>5, <1>9, <2>5, Untouched
  <2>7. ui' = v
    BY <1>9 DEF v
  <2> QED BY <1>1, <1>3, <1>9, <2>4, <2>6, <2>7, AdmissionSuffices
<1>10. CASE categoriesRetrieved(a)
  BY <1>6, <1>7, <1>8, <1>10, <1>3 DEF categoriesRetrieved, RequestStages
<1>11. CASE joined(a)
  BY <1>8, <1>11, <1>3, <1>4 DEF joined, RequestStages
<1>12. CASE admissionFailed(a)
  BY <1>7, <1>9, <1>12 DEF admissionFailed
<1> QED BY <1>2, <1>10, <1>11, <1>12

-------------------------------------------------------------------------------
(* A navigation begins                                                        *)

LEMMA PostTargets ==
    ASSUME NEW p \in Posts
    PROVE  /\ PostTarget(p) \in Targets /\ PostTarget(p).channel = Home[p]
           /\ PostTarget(p).root = RootOf[p] /\ PostTarget(p).post = p /\ PostTarget(p).keep = FALSE
           /\ Home[p] \in Channels /\ RootOf[p] \in Roots \cup {None}
BY NavigationAssumption DEF NavigationAssumption, Roots, PostTarget, Target, Targets

LEMMA LookupMade ==
    ASSUME NEW t \in Targets, NEW g \in Nat, NEW G \in Nat, g <= G,
           NEW kind \in {"post", "channel", "team", "root", "context", "thread"},
           kind = "thread" => t.root # None /\ t.post = None,
           kind = "root" => t.root # None,
           kind # "thread" => ~t.keep /\ t.post # None
    PROVE  /\ Lookup(kind, t, g) \in Lookups /\ LookupOK(Lookup(kind, t, g), G)
           /\ Lookup(kind, t, g).target = t /\ Lookup(kind, t, g).gen = g
BY DEF Lookup, Lookups, LookupOK

LEMMA IdleAims ==
    ASSUME NEW u, Idle(u), NEW w
    PROVE  Aimed(u, w)
BY DEF Idle, Aimed

LEMMA Begun ==
    ASSUME Types, ui.gen < MaxNavigations
    PROVE  /\ WindowOK(beginNavigation) /\ But(ui, beginNavigation, {"gen", "refused"})
           /\ beginNavigation.gen = ui.gen + 1 /\ Idle(beginNavigation)
           /\ \A l \in lookups : LookupOK(l, ui.gen + 1) /\ l.gen # ui.gen + 1
<1> DEFINE b == beginNavigation
           g == ui.gen + 1
<1>1. WindowOK(ui) /\ ui.gen \in Nat /\ MaxNavigations \in Nat
  BY NavigationAssumption DEF NavigationAssumption, Types, WindowOK, Windows
<1>2. g \in Nat /\ g <= MaxNavigations
  BY <1>1
<1>3. b = [ui EXCEPT !.gen = g, !.refused = {}]
  BY DEF beginNavigation
<1> HIDE DEF b, g
<1>4. b \in Windows /\ b.gen = g /\ b.refused = {} /\ But(ui, b, {"gen", "refused"})
  BY <1>1, <1>2, <1>3 DEF WindowOK, Windows, But, Fields
<1>5. /\ b.queue = ui.queue /\ b.retries = ui.retries /\ b.docked = ui.docked /\ b.threads = ui.threads
      /\ b.deferred = ui.deferred /\ b.asking = ui.asking /\ b.pending = ui.pending
  BY <1>4 DEF But, Fields
<1>6. \A r \in ui.retries : r.gen \in Nat /\ r.gen <= g /\ r.gen # g
  BY <1>1 DEF WindowOK, Windows, Retries, g
<1>7. \A e \in Range(ui.queue) : e.gen \in Nat /\ e.gen <= g /\ e.gen # g
  <2>1. Range(ui.queue) \subseteq Turns
    BY <1>1, QueueRange DEF WindowOK, Windows
  <2>2. ASSUME NEW e \in Range(ui.queue) PROVE e.gen \in Nat /\ e.gen <= ui.gen
    BY <1>1, <2>1 DEF WindowOK, TurnOK, Turns
  <2> QED BY <1>1, <2>2 DEF g
<1>8. \A e \in Range(b.queue) : TurnOK(g, e)
  BY <1>1, <1>5, <1>7 DEF WindowOK, TurnOK
<1>9. WindowOK(b)
  BY <1>1, <1>2, <1>4, <1>5, <1>6, <1>8 DEF WindowOK
<1>10. Idle(b)
  BY <1>4, <1>5, <1>6, <1>7 DEF Idle, Due
<1>11. ASSUME NEW l \in lookups PROVE LookupOK(l, g) /\ l.gen # g
  BY <1>1 DEF Types, Lookups, LookupOK, g
<1> QED BY <1>4, <1>9, <1>10, <1>11 DEF b, g

\* A navigation for w has begun.
Begins(w) ==
    /\ WindowOK(ui') /\ ui'.gen = ui.gen + 1
    /\ lookups' \subseteq Lookups /\ \A l \in lookups' : LookupOK(l, ui'.gen)
    /\ Chased(ui', lookups', w) /\ MoveOK(ui, ui', w)

LEMMA BegunOpens ==
    ASSUME Types, ui.gen < MaxNavigations, NEW t \in Targets, ui' = openChannelPost(beginNavigation, t),
           lookups' = lookups, NEW w \in Wishes, w.channel \in Channels, w.by = "navigation",
           SamePlace(t, w), t.post = w.post, t.keep => w.post = None
    PROVE  Begins(w)
<1> DEFINE b == beginNavigation
<1>1. /\ WindowOK(b) /\ But(ui, b, {"gen", "refused"}) /\ b.gen = ui.gen + 1 /\ Idle(b)
      /\ \A l \in lookups : LookupOK(l, ui.gen + 1) /\ l.gen # ui.gen + 1
  BY Begun
<1>2. ui' = openChannelPost(b, t)
  OBVIOUS
<1> HIDE DEF b
<1>3. Aimed(b, w)
  BY <1>1, IdleAims
<1>4. Sought(b, w, t)
  BY DEF Sought, OnlyShown
<1>5. Chased(ui', lookups, w) /\ WindowOK(ui') /\ ui'.gen = b.gen /\ MoveOK(b, ui', w)
  BY <1>1, <1>2, <1>3, <1>4, OpenedChased
<1>6. b.central = ui.central /\ b.docked = ui.docked /\ b.at = ui.at
  BY <1>1 DEF But, Fields
<1>7. MoveOK(ui, ui', w)
  BY <1>5, <1>6 DEF MoveOK
<1>8. lookups \subseteq Lookups
  BY DEF Types
<1> QED BY <1>1, <1>5, <1>7, <1>8 DEF Begins

LEMMA BegunLooks ==
    ASSUME Types, ui.gen < MaxNavigations, ui' = beginNavigation,
           NEW l \in Lookups, LookupOK(l, ui.gen + 1), l.gen = ui.gen + 1, lookups' = lookups \cup {l},
           NEW w \in Wishes, w.by = "navigation", SamePlace(l.target, w), l.target.post = w.post
    PROVE  Begins(w)
<1> DEFINE b == beginNavigation
<1>1. /\ WindowOK(b) /\ But(ui, b, {"gen", "refused"}) /\ b.gen = ui.gen + 1 /\ Idle(b)
      /\ \A k \in lookups : LookupOK(k, ui.gen + 1) /\ k.gen # ui.gen + 1
  BY Begun
<1>2. ui' = b
  OBVIOUS
<1> HIDE DEF b
<1>3. Aimed(b, w)
  BY <1>1, IdleAims
<1>4. b.central = ui.central /\ b.docked = ui.docked /\ b.at = ui.at
  BY <1>1 DEF But, Fields
<1>5. MoveOK(ui, b, w)
  BY <1>4, StillMoves
<1>6. Chased(b, lookups', w)
  BY <1>1, <1>3 DEF Chased, LookedUp
<1>7. lookups' \subseteq Lookups
  BY DEF Types
<1> QED BY <1>1, <1>2, <1>5, <1>6, <1>7 DEF Begins

LEMMA BegunRefused ==
    ASSUME Types, ui.gen < MaxNavigations, NEW c \in Channels, ui' = Refused(beginNavigation, c),
           lookups' = lookups, NEW w \in Wishes, w.by = "navigation", w.channel = c
    PROVE  Begins(w)
<1> DEFINE b == beginNavigation
           v == Refused(b, c)
<1>1. /\ WindowOK(b) /\ But(ui, b, {"gen", "refused"}) /\ b.gen = ui.gen + 1 /\ Idle(b)
      /\ \A k \in lookups : LookupOK(k, ui.gen + 1) /\ k.gen # ui.gen + 1
  BY Begun
<1> HIDE DEF b
<1>2. v = [b EXCEPT !.refused = @ \cup {c}]
  BY DEF Refused
<1> HIDE DEF v
<1>3. v \in Windows /\ v.refused = b.refused \cup {c} /\ But(b, v, {"refused"})
  BY <1>1, <1>2 DEF WindowOK, Windows, But, Fields
<1>4. WindowOK(v)
  BY <1>1, <1>3 DEF WindowOK, But, Fields
<1>5. v.gen = b.gen /\ v.central = ui.central /\ v.docked = ui.docked /\ v.at = ui.at
  BY <1>1, <1>3 DEF But, Fields
<1>6. Idle(v)
  BY <1>1, <1>3 DEF But, Fields, Idle, Due
<1>7. Aimed(v, w)
  BY <1>6, IdleAims
<1>8. Chased(v, lookups, w)
  BY <1>1, <1>3, <1>5, <1>7 DEF Chased
<1>9. MoveOK(ui, v, w)
  BY <1>5, StillMoves
<1>10. ui' = v /\ lookups \subseteq Lookups
  BY DEF Types, v, b
<1> QED BY <1>1, <1>4, <1>5, <1>8, <1>9, <1>10 DEF Begins

LEMMA ChannelBegins ==
    ASSUME Types, ui.gen < MaxNavigations, NEW c \in Channels, beginOpenChannel(c),
           NEW w \in Wishes, w = Wish("navigation", c, None, None)
    PROVE  Begins(w)
<1>1. w.by = "navigation" /\ w.channel = c /\ w.root = None /\ w.post = None
  BY DEF Wish
<1> DEFINE t == Target(c, None, None, FALSE)
<1>2. t \in Targets /\ t.channel = c /\ t.root = None /\ t.post = None /\ t.keep = FALSE
  BY DEF Target, Targets
<1> HIDE DEF t
<1>3. CASE c \in known
  BY <1>3, <1>1, <1>2, BegunOpens DEF beginOpenChannel, t, SamePlace
<1>4. CASE c \notin known
  BY <1>4, <1>1, BegunRefused DEF beginOpenChannel
<1> QED BY <1>3, <1>4

LEMMA PostBegins ==
    ASSUME Types, ui.gen < MaxNavigations, NEW p \in Posts, beginOpenPost(p),
           NEW w \in Wishes, w = Wish("navigation", Home[p], RootOf[p], p)
    PROVE  Begins(w)
<1> DEFINE t == PostTarget(p)
           b == beginNavigation
           g == ui.gen + 1
<1>1. /\ t \in Targets /\ t.channel = Home[p] /\ t.root = RootOf[p] /\ t.post = p /\ t.keep = FALSE
      /\ Home[p] \in Channels
  BY PostTargets
<1>2. w.by = "navigation" /\ w.channel = Home[p] /\ w.root = RootOf[p] /\ w.post = p
  BY DEF Wish
<1>3. b.gen = g /\ g \in Nat
  BY Begun DEF Types, WindowOK, Windows
<1>4. p # None
  BY Apart
<1> HIDE DEF t, g
<1>5. ASSUME NEW kind \in {"post", "root", "context"}, kind = "root" => t.root # None,
             ui' = b, lookups' = lookups \cup {Lookup(kind, t, g)}
      PROVE  Begins(w)
  <2> DEFINE l == Lookup(kind, t, g)
  <2>1. l \in Lookups /\ LookupOK(l, g) /\ l.target = t /\ l.gen = g
    BY <1>1, <1>3, <1>4, <1>5, LookupMade
  <2>2. lookups' = lookups \cup {l}
    BY <1>5
  <2> HIDE DEF l
  <2>3. SamePlace(l.target, w) /\ l.target.post = w.post
    BY <1>1, <1>2, <2>1 DEF SamePlace
  <2> QED BY <1>2, <1>5, <2>1, <2>2, <2>3, BegunLooks DEF g
<1>6. CASE p \in resident
  BY <1>6, <1>1, <1>2, BegunOpens, <1>3, <1>5 DEF beginOpenPost, t, openPostInChannel, SamePlace
<1>7. CASE p \notin resident
  BY <1>7, <1>3, <1>5 DEF beginOpenPost, t
<1> QED BY <1>6, <1>7

-------------------------------------------------------------------------------
(* The user navigates                                                         *)

LEMMA ChosenSteps ==
    ASSUME NavigationInv, NEW w \in Wishes, w.by = "navigation", w.channel \in Channels, Chosen(w), Begins(w)
    PROVE  StepOK
BY DEF Chosen, WishOK, NavigationInv, Types, Begins, StepOK

LEMMA Wished ==
    ASSUME NEW by \in {"none", "navigation", "click", "quick"}, NEW c \in Channels \cup {None},
           NEW r \in Roots \cup {None}, NEW p \in Posts \cup {None}
    PROVE  /\ Wish(by, c, r, p) \in Wishes /\ Wish(by, c, r, p).by = by /\ Wish(by, c, r, p).channel = c
           /\ Wish(by, c, r, p).root = r /\ Wish(by, c, r, p).post = p
BY DEF Wish, Wishes

LEMMA ChannelSteps ==
    ASSUME NavigationInv, NEW c \in Channels, openChannel(c)
    PROVE  StepOK
<1> DEFINE w == Wish("navigation", c, None, None)
<1>1. w \in Wishes /\ w.by = "navigation" /\ w.channel = c
  BY Wished
<1>2. Chosen(w) /\ beginOpenChannel(c) /\ w = Wish("navigation", c, None, None)
  BY DEF openChannel
<1> HIDE DEF w
<1>3. Types /\ ui.gen < MaxNavigations
  BY <1>2 DEF NavigationInv, Chosen
<1>4. Begins(w)
  BY <1>1, <1>2, <1>3, ChannelBegins
<1> QED BY <1>1, <1>2, <1>4, ChosenSteps

LEMMA PostSteps ==
    ASSUME NavigationInv, NEW p \in Posts, openPost(p)
    PROVE  StepOK
<1> DEFINE w == Wish("navigation", Home[p], RootOf[p], p)
<1>1. w \in Wishes /\ w.by = "navigation" /\ w.channel = Home[p] /\ Home[p] \in Channels
  <2>1. Home[p] \in Channels /\ RootOf[p] \in Roots \cup {None}
    BY PostTargets
  <2>2. \A c \in Channels, r \in Roots \cup {None} :
            /\ Wish("navigation", c, r, p) \in Wishes /\ Wish("navigation", c, r, p).by = "navigation"
            /\ Wish("navigation", c, r, p).channel = c
    BY Wished
  <2> QED BY <2>1, <2>2
<1>2. Chosen(w) /\ beginOpenPost(p) /\ w = Wish("navigation", Home[p], RootOf[p], p)
  BY DEF openPost
<1> HIDE DEF w
<1>3. Types /\ ui.gen < MaxNavigations
  BY <1>2 DEF NavigationInv, Chosen
<1>4. Begins(w)
  BY <1>1, <1>2, <1>3, PostBegins
<1> QED BY <1>1, <1>2, <1>4, ChosenSteps

LEMMA ThreadSteps ==
    ASSUME NavigationInv, NEW c \in Channels, NEW r \in Roots, openThread(c, r)
    PROVE  StepOK
<1> DEFINE w == Wish("navigation", c, r, None)
           t == Target(c, r, None, TRUE)
<1>1. w \in Wishes /\ w.by = "navigation" /\ w.channel = c /\ w.root = r /\ w.post = None
  BY Wished
<1>2. t \in Targets /\ t.channel = c /\ t.root = r /\ t.post = None
  BY DEF Target, Targets
<1>3. /\ Chosen(w) /\ lookups' = lookups
      /\ ui' = IF c \in known THEN openChannelPost(beginNavigation, t) ELSE Refused(beginNavigation, c)
  BY DEF openThread
<1> HIDE DEF w, t
<1>4. Types /\ ui.gen < MaxNavigations
  BY <1>3 DEF NavigationInv, Chosen
<1>5. CASE c \in known
  BY <1>3, <1>5, <1>1, <1>2, <1>4, BegunOpens, ChosenSteps DEF SamePlace
<1>6. CASE c \notin known
  BY <1>3, <1>6, <1>1, <1>4, BegunRefused, ChosenSteps
<1> QED BY <1>5, <1>6

LEMMA LastViewedSteps ==
    ASSUME NavigationInv, NEW c \in Channels, NEW r \in Roots, NEW keep \in BOOLEAN,
           openThreadAtLastViewed(c, r, keep)
    PROVE  StepOK
<1> DEFINE w == Wish("navigation", c, r, None)
           t == Target(c, r, None, keep)
           g == ui.gen + 1
           l == Lookup("thread", t, g)
<1>1. w \in Wishes /\ w.by = "navigation" /\ w.channel = c /\ w.root = r /\ w.post = None
  BY Wished
<1>2. t \in Targets /\ t.channel = c /\ t.root = r /\ t.post = None /\ t.root # None
  BY Apart DEF Target, Targets
<1>3. Chosen(w)
  BY DEF openThreadAtLastViewed
<1>4. Types /\ ui.gen < MaxNavigations
  BY <1>3 DEF NavigationInv, Chosen
<1>5. beginNavigation.gen = g /\ g \in Nat
  BY <1>4, Begun DEF Types, WindowOK, Windows
<1>6. \/ ui' = beginNavigation /\ lookups' = lookups \cup {Lookup("thread", t, ui'.gen)}
      \/ ui' = Refused(beginNavigation, c) /\ lookups' = lookups
  BY DEF openThreadAtLastViewed
<1>7. l \in Lookups /\ LookupOK(l, g) /\ l.target = t /\ l.gen = g
  <2> HIDE DEF t, g
  <2> QED BY <1>2, <1>5, LookupMade
<1> HIDE DEF w, t, g
<1>8. CASE ui' = beginNavigation /\ lookups' = lookups \cup {Lookup("thread", t, ui'.gen)}
  <2>1. lookups' = lookups \cup {l}
    BY <1>5, <1>8
  <2> HIDE DEF l
  <2>2. SamePlace(l.target, w) /\ l.target.post = w.post
    BY <1>1, <1>2, <1>7 DEF SamePlace
  <2>3. Begins(w)
    BY <1>1, <1>4, <1>7, <1>8, <2>1, <2>2, BegunLooks DEF g
  <2> QED BY <1>1, <1>3, <2>3, ChosenSteps
<1>9. CASE ui' = Refused(beginNavigation, c) /\ lookups' = lookups
  BY <1>1, <1>4, <1>9, BegunRefused, <1>3, ChosenSteps
<1> QED BY <1>6, <1>8, <1>9

LEMMA UrlSteps ==
    ASSUME NavigationInv, openUrl
    PROVE  StepOK
<1> DEFINE b == beginNavigation
<1>1. /\ ui' = b /\ lookups' = lookups /\ wish' = Nowhere /\ overtaken' = FALSE
      /\ UNCHANGED <<known, resident, member, unread>>
      /\ Types /\ ui.gen < MaxNavigations
  BY DEF openUrl, Chosen, NavigationInv
<1>2. /\ WindowOK(b) /\ But(ui, b, {"gen", "refused"}) /\ b.gen = ui.gen + 1 /\ Idle(b)
      /\ \A k \in lookups : LookupOK(k, ui.gen + 1) /\ k.gen # ui.gen + 1
  BY <1>1, Begun
<1> HIDE DEF b
<1>3. /\ Nowhere \in Wishes /\ Nowhere.by = "none" /\ Nowhere.channel = None
      /\ Nowhere.root = None /\ Nowhere.post = None
  BY Wished DEF Nowhere
<1>4. WishOK(Nowhere, unread)
  BY <1>3 DEF WishOK
<1>5. Aimed(b, Nowhere)
  BY <1>2, IdleAims
<1>6. Chased(b, lookups, Nowhere)
  BY <1>2, <1>3, <1>5 DEF Chased
<1>7. b.central = ui.central /\ b.docked = ui.docked /\ b.at = ui.at
  BY <1>2 DEF But, Fields
<1>8. MoveOK(ui, b, Nowhere)
  BY <1>7, StillMoves
<1>9. Types'
  BY <1>1, <1>2, <1>4 DEF Types
<1> QED BY <1>1, <1>6, <1>8, <1>9 DEF StepOK

-------------------------------------------------------------------------------
(* Answers                                                                    *)

\* An answer to a navigation that was left behind.
LEMMA StaleSteps ==
    ASSUME NavigationInv, NEW l \in lookups, l.gen # ui.gen, UNCHANGED <<ui, wish, overtaken, member, unread>>,
           known' \subseteq Channels, resident' \subseteq Posts,
           lookups' \subseteq Lookups, \A k \in lookups' : LookupOK(k, ui.gen),
           \A k \in Lookups : k.gen = ui.gen => (k \in lookups' <=> k \in lookups)
    PROVE  StepOK
BY StillMoves DEF NavigationInv, Types, Followed, Chased, LookedUp, StepOK

LEMMA LookupTypes ==
    ASSUME Types, NEW l \in lookups
    PROVE  /\ l \in Lookups /\ l.target \in Targets /\ l.gen \in Nat /\ LookupOK(l, ui.gen)
           /\ ui.gen \in Nat /\ l.target.channel \in Channels /\ l.gen <= ui.gen
           /\ Answered(l) \subseteq Lookups /\ \A k \in Answered(l) : LookupOK(k, ui.gen)
BY DEF Types, Lookups, Targets, WindowOK, Windows, LookupOK, Answered

LEMMA AskSteps ==
    ASSUME NavigationInv, NEW l \in lookups, NEW kind \in {"channel", "team"}, l.kind \in {"post", "channel"},
           Ask(l, kind), UNCHANGED <<member, unread, overtaken>>
    PROVE  StepOK
<1> DEFINE k == [l EXCEPT !.kind = kind]
<1>1. /\ lookups' = Answered(l) \cup {k}
      /\ UNCHANGED <<ui, known, resident, wish>>
  BY DEF Ask
<1>2. /\ l \in Lookups /\ LookupOK(l, ui.gen) /\ Answered(l) \subseteq Lookups
      /\ \A j \in Answered(l) : LookupOK(j, ui.gen)
  BY LookupTypes DEF NavigationInv
<1>3. k \in Lookups /\ k.kind = kind /\ k.target = l.target /\ k.gen = l.gen
  BY <1>2 DEF Lookups
<1> HIDE DEF k
<1>4. LookupOK(k, ui.gen)
  BY <1>2, <1>3 DEF LookupOK
<1>5. lookups' \subseteq Lookups /\ \A j \in lookups' : LookupOK(j, ui.gen)
  BY <1>1, <1>2, <1>3, <1>4
<1>6. Types'
  BY <1>1, <1>5 DEF NavigationInv, Types
<1>7. ASSUME ~overtaken' PROVE Chased(ui', lookups', wish')
  BY <1>7, <1>1, <1>3 DEF NavigationInv, Followed, Chased, Answered, LookedUp
<1>8. MoveOK(ui, ui', wish')
  BY <1>1, StillMoves
<1> QED BY <1>6, <1>7, <1>8 DEF StepOK

\* Answering with an openChannelPost for w, of the latest navigation.
LEMMA AnswerOpens ==
    ASSUME NavigationInv, NEW l \in lookups, l.gen = ui.gen, UNCHANGED <<member, unread, overtaken>>,
           known' \subseteq Channels, resident' \subseteq Posts,
           NEW t \in Targets, ui' = openChannelPost(ui, t), lookups' = Answered(l),
           WishOK(wish', unread), ~overtaken => Sought(ui, wish', t)
    PROVE  StepOK
<1>1. WindowOK(ui) /\ Types
  BY DEF NavigationInv, Types
<1>2. Opened(ui, ui', t)
  BY <1>1, PostOpened
<1>3. WindowOK(ui') /\ ui'.gen = ui.gen
  BY <1>2 DEF Opened
<1>4. Types'
  BY <1>1, LookupTypes, <1>3 DEF Types
<1>5. ASSUME ~overtaken' PROVE Chased(ui', lookups', wish') /\ MoveOK(ui, ui', wish')
  <2>1. LookedUp(ui, lookups, wish, l)
    BY <1>5 DEF NavigationInv, Followed, Chased
  <2>2. Aimed(ui, wish')
    BY <2>1, IdleAims DEF LookedUp
  <2>3. \A k \in lookups' : k.gen # ui.gen
    BY <2>1 DEF LookedUp, Answered
  <2>4. Sought(ui, wish', t)
    BY <1>5
  <2>5. wish' \in Wishes /\ wish'.channel \in Channels
    BY <2>4 DEF WishOK, Sought
  <2> DEFINE w == wish'
             v == ui'
             ls == lookups'
  <2>6. /\ w \in Wishes /\ w.channel \in Channels /\ Sought(ui, w, t) /\ Aimed(ui, w)
        /\ v = openChannelPost(ui, t) /\ \A k \in ls : k.gen # ui.gen
    BY <2>2, <2>3, <2>4, <2>5
  <2> HIDE DEF w, v, ls
  <2>7. Chased(v, ls, w) /\ MoveOK(ui, v, w)
    BY <1>1, <2>6, OpenedChased
  <2> QED BY <2>7 DEF w, v, ls
<1> QED BY <1>4, <1>5 DEF StepOK

\* One look-up of the latest navigation after another.
LEMMA AnswerLooks ==
    ASSUME NavigationInv, NEW l \in lookups, l.gen = ui.gen, UNCHANGED <<ui, wish, member, unread, overtaken>>,
           known' \subseteq Channels, resident' \subseteq Posts,
           NEW k \in Lookups, LookupOK(k, ui.gen), k.gen = ui.gen, k.target = l.target,
           lookups' = Answered(l) \cup {k}
    PROVE  StepOK
BY LookupTypes, StillMoves DEF NavigationInv, Types, Followed, Chased, Answered, LookedUp, StepOK

LEMMA FinishSteps ==
    ASSUME NavigationInv, NEW l \in lookups, l.kind # "thread", finishWithChannel(l),
           UNCHANGED <<member, unread, overtaken>>
    PROVE  StepOK
<1> DEFINE t == l.target
<1>1. /\ l \in Lookups /\ t \in Targets /\ l.gen \in Nat /\ LookupOK(l, ui.gen)
      /\ ui.gen \in Nat /\ t.channel \in Channels /\ l.gen <= ui.gen
      /\ Answered(l) \subseteq Lookups /\ \A k \in Answered(l) : LookupOK(k, ui.gen)
      /\ known \subseteq Channels /\ resident \subseteq Posts
      /\ WishOK(wish, unread)
  BY LookupTypes DEF NavigationInv, Types
<1>2. ~t.keep /\ t.post # None /\ t.post \in Posts
  BY <1>1 DEF LookupOK, Targets
<1>3. /\ known' \subseteq Channels /\ resident' \subseteq Posts /\ wish' = wish
      /\ IF Current(l.gen) THEN openPostInChannel(ui, t, resident', Answered(l))
         ELSE lookups' = Answered(l) /\ ui' = ui
  BY <1>1, <1>2 DEF finishWithChannel
<1>4. CASE ~Current(l.gen)
  BY <1>3, <1>4, <1>1, StaleSteps DEF Current, Answered
<1>5. CASE Current(l.gen) /\ t.root # None /\ t.root \in resident'
  <2>1. l.gen = ui.gen /\ ui' = openChannelPost(ui, t) /\ lookups' = Answered(l)
    BY <1>3, <1>5 DEF Current, openPostInChannel
  <2>2. ~overtaken => Sought(ui, wish', t)
    BY <1>3, <2>1, <1>2 DEF NavigationInv, Followed, Chased, LookedUp, Sought, OnlyShown
  <2>3. WishOK(wish', unread)
    BY <1>1, <1>3
  <2> HIDE DEF t
  <2> QED BY <1>1, <1>3, <2>1, <2>2, <2>3, AnswerOpens
<1>6. CASE Current(l.gen) /\ ~(t.root # None /\ t.root \in resident')
  <2> DEFINE kind == IF t.root # None THEN "root" ELSE "context"
             k == Lookup(kind, t, ui.gen)
  <2>1. l.gen = ui.gen /\ ui' = ui /\ lookups' = Answered(l) \cup {k}
    BY <1>3, <1>6 DEF Current, openPostInChannel
  <2>2. kind \in {"root", "context"} /\ (kind = "root" => t.root # None)
    OBVIOUS
  <2> HIDE DEF kind
  <2>3. k \in Lookups /\ LookupOK(k, ui.gen) /\ k.target = t /\ k.gen = ui.gen
    <3> HIDE DEF t
    <3> QED BY <1>1, <1>2, <2>2, LookupMade
  <2> HIDE DEF k
  <2> QED BY <1>1, <1>3, <2>1, <2>3, AnswerLooks
<1> QED BY <1>4, <1>5, <1>6

\* What was loaded is opened at t.
LEMMA LoadSteps ==
    ASSUME NavigationInv, NEW l \in lookups, NEW found \in SUBSET Posts, NEW t \in Targets,
           Loaded(l, found, t), UNCHANGED <<member, unread, overtaken>>,
           \/ t = l.target
           \/ l.kind = "thread" /\ t.channel = l.target.channel /\ t.root = l.target.root /\ t.keep = l.target.keep
    PROVE  StepOK
BY LookupTypes, StaleSteps, AnswerOpens DEF NavigationInv, Types, Loaded, OnlyShown, Current,
   Answered, Targets, WishOK, Wishes, Followed, Chased, LookedUp, Sought, SamePlace, LookupOK

\* A thread opened at one of its posts.
LEMMA AtPost ==
    ASSUME NEW t \in Targets, NEW p \in Posts
    PROVE  /\ [t EXCEPT !.post = p] \in Targets /\ [t EXCEPT !.post = p].channel = t.channel
           /\ [t EXCEPT !.post = p].root = t.root /\ [t EXCEPT !.post = p].keep = t.keep
BY DEF Targets

LEMMA AnswerSteps ==
    ASSUME NavigationInv, Answer
    PROVE  StepOK
<1>1. UNCHANGED <<member, unread, overtaken>>
  BY DEF Answer
<1>2. PICK l \in lookups : handlePost(l) \/ handleChannel(l) \/ handleTeam(l) \/ Loads(l)
  BY DEF Answer
<1>3. l.target \in Targets /\ LookupOK(l, ui.gen)
  BY LookupTypes DEF NavigationInv
<1>4. CASE handlePost(l)
  BY <1>1, <1>4, FinishSteps, AskSteps DEF handlePost
<1>5. CASE handleChannel(l)
  BY <1>1, <1>5, FinishSteps, AskSteps DEF handleChannel
<1>6. CASE handleTeam(l)
  BY <1>1, <1>6, FinishSteps DEF handleTeam
<1>7. CASE l.kind = "root" /\ Loaded(l, {l.target.root}, l.target)
  BY <1>3, <1>7, Apart, <1>1, LoadSteps DEF LookupOK, Targets
<1>8. CASE l.kind = "context" /\ Loaded(l, {l.target.post}, l.target)
  BY <1>3, <1>8, <1>1, LoadSteps DEF LookupOK, Targets
<1>9. CASE l.kind = "thread" /\ \E p \in Unread(l.target.root) : Loaded(l, {p}, [l.target EXCEPT !.post = p])
  <2>1. PICK p \in Posts : Loaded(l, {p}, [l.target EXCEPT !.post = p])
    BY <1>9 DEF Unread
  <2> DEFINE t == [l.target EXCEPT !.post = p]
  <2>2. t \in Targets /\ t.channel = l.target.channel /\ t.root = l.target.root /\ t.keep = l.target.keep
    BY <1>3, AtPost
  <2>3. Loaded(l, {p}, t) /\ {p} \in SUBSET Posts
    BY <2>1
  <2> HIDE DEF t
  <2> QED BY <1>1, <1>9, <2>2, <2>3, LoadSteps
<1>10. CASE l.kind = "thread" /\ Loaded(l, {}, l.target)
  BY <1>1, <1>3, <1>10, LoadSteps
<1> QED BY <1>2, <1>4, <1>5, <1>6, <1>7, <1>8, <1>9, <1>10 DEF Loads

LEMMA FailSteps ==
    ASSUME NavigationInv, Fail
    PROVE  StepOK
<1>1. UNCHANGED <<member, unread, overtaken>>
  BY DEF Fail
<1>2. PICK l \in lookups :
        \/ /\ ui' = IF Current(l.gen) THEN Refused(ui, l.target.channel) ELSE ui
           /\ lookups' = Answered(l)
           /\ UNCHANGED <<known, resident, wish>>
        \/ /\ l.kind = "thread"
           /\ \E p \in Unread(l.target.root) : Loaded(l, {}, [l.target EXCEPT !.post = p])
  BY DEF Fail
<1>3. /\ l \in Lookups /\ l.target \in Targets /\ LookupOK(l, ui.gen) /\ l.target.channel \in Channels
      /\ Answered(l) \subseteq Lookups /\ \A k \in Answered(l) : LookupOK(k, ui.gen)
      /\ known \subseteq Channels /\ resident \subseteq Posts /\ WindowOK(ui) /\ Types
  BY LookupTypes DEF NavigationInv, Types
<1>4. CASE l.kind = "thread" /\ \E p \in Unread(l.target.root) : Loaded(l, {}, [l.target EXCEPT !.post = p])
  <2>1. PICK p \in Posts : Loaded(l, {}, [l.target EXCEPT !.post = p])
    BY <1>4 DEF Unread
  <2> DEFINE t == [l.target EXCEPT !.post = p]
  <2>2. t \in Targets /\ t.channel = l.target.channel /\ t.root = l.target.root /\ t.keep = l.target.keep
    BY <1>3, AtPost
  <2>3. Loaded(l, {}, t)
    BY <2>1
  <2> HIDE DEF t
  <2> QED BY <1>1, <1>4, <2>2, <2>3, LoadSteps
<1>5. CASE ~Current(l.gen) /\ ui' = ui /\ lookups' = Answered(l) /\ UNCHANGED <<known, resident, wish>>
  BY <1>5, <1>1, <1>3, StaleSteps DEF Current, Answered
<1>6. CASE /\ Current(l.gen) /\ ui' = Refused(ui, l.target.channel)
           /\ lookups' = Answered(l) /\ UNCHANGED <<known, resident, wish>>
  <2> DEFINE c == l.target.channel
             v == Refused(ui, c)
  <2>1. v = [ui EXCEPT !.refused = @ \cup {c}] /\ c \in Channels
    BY <1>3 DEF Refused
  <2> HIDE DEF v, c
  <2>2. v \in Windows /\ v.refused = ui.refused \cup {c} /\ But(ui, v, {"refused"})
    BY <1>3, <2>1 DEF WindowOK, Windows, But, Fields
  <2>3. WindowOK(v)
    BY <1>3, <2>2 DEF WindowOK, But, Fields
  <2>4. /\ v.gen = ui.gen /\ v.central = ui.central /\ v.docked = ui.docked /\ v.at = ui.at
        /\ v.retries = ui.retries /\ v.queue = ui.queue
    BY <2>2 DEF But, Fields
  <2>5. ui' = v
    BY <1>6 DEF v, c
  <2>6. Types'
    BY <1>1, <1>3, <1>6, <2>3, <2>4, <2>5 DEF Types
  <2>7. ASSUME ~overtaken' PROVE Chased(v, lookups', wish)
    BY <1>6, <1>1, <2>7, <2>4, IdleAims, <2>2 DEF Current, NavigationInv, Followed, Chased,
       LookedUp, Idle, Due, Answered, SamePlace, c
  <2>8. MoveOK(ui, v, wish)
    BY <2>4, StillMoves
  <2> QED BY <1>6, <2>5, <2>6, <2>7, <2>8 DEF StepOK
<1> QED BY <1>2, <1>4, <1>5, <1>6

-------------------------------------------------------------------------------
(* The user goes past navigation                                              *)

LEMMA NotBusy ==
    ASSUME Types, ~Busy
    PROVE  Idle(ui) /\ \A l \in lookups : l.gen # ui.gen
BY DEF Busy, Range, Due, Current, Idle

\* A click is followed when nothing of a navigation is left that could take the view away.
LEMMA ClickedSteps ==
    ASSUME NavigationInv, NEW w \in Wishes, Clicked(w), WishOK(w, unread'),
           unread' \in Channels \cup {None}, WindowOK(ui'), ui'.gen = ui.gen,
           Idle(ui) => Idle(ui'), w.by # "navigation", w.by = "click" => ui'.central = w.channel,
           MoveOK(ui, ui', w)
    PROVE  StepOK
BY NotBusy, IdleAims DEF Clicked, NavigationInv, Busy, Types, Chased, StepOK

LEMMA RowSteps ==
    ASSUME NavigationInv, NEW c \in Channels, clickRow(c)
    PROVE  StepOK
<1> DEFINE w == Wish("click", c, None, None)
<1>1. w \in Wishes /\ w.by = "click" /\ w.channel = c /\ w.root = None /\ w.post = None
  BY Wished
<1>2. Clicked(w) /\ ui' = activateChannelItem(ui, c) /\ unread' = unread
  BY DEF clickRow
<1> HIDE DEF w
<1>3. WindowOK(ui) /\ unread \in Channels \cup {None}
  BY DEF NavigationInv, Types
<1>4. Activated(ui, ui', c)
  BY <1>2, <1>3, ActivateMoves
<1>5. ui'.gen = ui.gen /\ ui'.retries = ui.retries /\ ui'.docked = ui.docked
  BY <1>4 DEF Activated, But, Fields
<1>6. \A e \in Range(ui'.queue) : e \in Range(ui.queue) \/ e.kind = "settle"
  BY <1>4 DEF Activated, Moved, TurnOf
<1>7. Idle(ui) => Idle(ui')
  BY <1>5, <1>6 DEF Idle, Due
<1>8. \A a \in Areas : ui'.at[a] \in {ui.at[a], "unplaced"}
  BY <1>4 DEF Activated, Moved
<1>9. MoveOK(ui, ui', w)
  BY <1>1, <1>4, <1>5, <1>8, Apart DEF MoveOK, Activated
<1>10. WishOK(w, unread')
  BY <1>1, Apart DEF WishOK
<1> QED BY <1>1, <1>2, <1>3, <1>4, <1>5, <1>7, <1>9, <1>10, ClickedSteps DEF Activated

LEMMA CloseSteps ==
    ASSUME NavigationInv, NEW r \in Roots, closeThread(r)
    PROVE  StepOK
<1> DEFINE kinds == {"settle", "newest", "jump"}
           s == [ui.at EXCEPT ![r] = "unplaced"]
           threads == ui.threads \ {r}
           docked == IF ui.docked = r THEN None ELSE ui.docked
           m == [ui EXCEPT !.threads = threads, !.at = s, !.docked = docked]
<1>1. Clicked(Nowhere) /\ unread' = unread
  BY DEF closeThread
<1>2. ui' = [m EXCEPT !.queue = Dropped(@, r, kinds)]
  <2>1. ui' = [ui EXCEPT !.threads = threads, !.at = s, !.docked = docked,
                         !.queue = Dropped(@, r, kinds)]
    BY DEF closeThread
  <2> HIDE DEF threads, s, docked, kinds
  <2> QED BY <2>1 DEF NavigationInv, Types, WindowOK, Windows
<1>3. WindowOK(ui) /\ unread \in Channels \cup {None}
  BY DEF NavigationInv, Types
<1>4. s \in Stands /\ \A a \in Areas : s[a] \in {ui.at[a], "unplaced"}
  BY <1>3 DEF WindowOK, Windows, Stands
<1>5. threads \in SUBSET Roots /\ docked \in threads \cup {None} /\ docked \in {ui.docked, None}
  BY <1>3 DEF WindowOK, Windows
<1>6. m = [ui EXCEPT !.threads = threads, !.at = s, !.docked = docked]
  OBVIOUS
<1> HIDE DEF threads, s, docked, m, kinds
<1>7. /\ m \in Windows /\ m.threads = threads /\ m.at = s /\ m.docked = docked
      /\ But(ui, m, {"threads", "at", "docked"})
  BY <1>3, <1>4, <1>5, <1>6 DEF WindowOK, Windows, But, Fields
<1>8. WindowOK(m)
  BY <1>3, <1>5, <1>7 DEF WindowOK, But, Fields
<1>9. Emptied(m, ui', r, kinds)
  BY <1>2, <1>8, DroppedEmpties
<1>10. /\ ui'.gen = ui.gen /\ ui'.retries = ui.retries /\ ui'.central = ui.central /\ ui'.at = s
       /\ ui'.docked = docked /\ m.queue = ui.queue
  BY <1>7, <1>9 DEF Emptied, But, Fields
<1>11. Idle(ui) => Idle(ui')
  BY <1>9, <1>10 DEF Idle, Due, Emptied
<1>12. MoveOK(ui, ui', Nowhere)
  BY <1>4, <1>5, <1>10, Apart DEF MoveOK
<1>13. Nowhere \in Wishes /\ Nowhere.by = "none"
  BY Wished DEF Nowhere
<1>14. WishOK(Nowhere, unread')
  BY <1>13 DEF WishOK
<1>15. WindowOK(ui')
  BY <1>9 DEF Emptied
<1> QED BY <1>1, <1>3, <1>10, <1>11, <1>12, <1>13, <1>14, <1>15, ClickedSteps

LEMMA PickSteps ==
    ASSUME NavigationInv, NEW c \in Channels, pickConversation(c)
    PROVE  StepOK
<1> DEFINE w == Wish("quick", c, None, None)
<1>1. w \in Wishes /\ w.by = "quick" /\ w.channel = c /\ w.root = None /\ w.post = None
  BY Wished
<1>2. Clicked(w) /\ ui' = ui /\ unread' = c
  BY DEF pickConversation
<1> HIDE DEF w
<1>3. WindowOK(ui)
  BY DEF NavigationInv, Types
<1>4. MoveOK(ui, ui', w)
  BY <1>2, StillMoves
<1>5. WishOK(w, unread')
  BY <1>1, <1>2 DEF WishOK
<1> QED BY <1>1, <1>2, <1>3, <1>4, <1>5, ClickedSteps

LEMMA UnreadSteps ==
    ASSUME NavigationInv, unreadPostRetrieved
    PROVE  StepOK
<1> DEFINE fresh == wish = Wish("quick", unread, None, None)
           w(p) == Wish("navigation", unread, None, p)
<1>1. /\ Types /\ unread \in Channels /\ ui.gen < MaxNavigations /\ unread' = None
      /\ (overtaken' = ~fresh) /\ UNCHANGED <<known, resident, member>>
  BY DEF NavigationInv, Types, unreadPostRetrieved
<1>2. PICK p \in Roots \cup {None} :
          /\ \/ p = None /\ beginOpenChannel(unread)
             \/ p # None /\ Home[p] = unread /\ beginOpenPost(p)
          /\ wish' = IF fresh THEN w(p) ELSE wish
  <2>1. CASE /\ beginOpenChannel(unread)
             /\ wish' = IF fresh THEN [wish EXCEPT !.by = "navigation"] ELSE wish
    <3>1. fresh => [wish EXCEPT !.by = "navigation"] = w(None)
      BY DEF Wish
    <3> QED BY <2>1, <3>1
  <2>2. CASE \E q \in Roots :
                /\ Home[q] = unread /\ beginOpenPost(q)
                /\ wish' = IF fresh THEN Wish("navigation", unread, None, q) ELSE wish
    BY Apart, <2>2
  <2> QED BY <2>1, <2>2 DEF unreadPostRetrieved
<1>3. /\ w(p) \in Wishes /\ w(p).by = "navigation" /\ w(p).channel = unread /\ w(p).root = None
      /\ w(p).post = p
  BY <1>1, Wished DEF Roots
<1>4. Begins(w(p))
  BY <1>1, <1>3, ChannelBegins, PostBegins, <1>2 DEF Roots
<1> DEFINE v == w(p)
<1>5. v \in Wishes /\ v.by = "navigation" /\ v.channel \in Channels /\ Begins(v)
  BY <1>1, <1>3, <1>4
<1>6. wish' = IF fresh THEN v ELSE wish
  BY <1>2
<1>7. WishOK(wish, unread) /\ (wish.by = "quick" /\ wish.root = None /\ wish.post = None
                               /\ wish.channel = unread => fresh)
  BY <1>1 DEF Types, WishOK, Wishes, Wish
<1>8. overtaken' \in BOOLEAN
  BY <1>1
<1> HIDE DEF fresh, w, v
<1>9. WishOK(wish', unread')
  BY <1>5, <1>6, <1>1, <1>7 DEF WishOK
<1>10. Types'
  BY <1>1, <1>5, <1>8, <1>9 DEF Types, Begins
<1>11. ~overtaken' => wish' = v
  BY <1>1, <1>6
<1> QED BY <1>5, <1>10, <1>11 DEF StepOK, Begins

-------------------------------------------------------------------------------
(* A drag of a sidebar row                                                    *)

LEMMA DragStarts ==
    ASSUME NavigationInv, startDrag
    PROVE  StepOK
<1>1. /\ ui' = [ui EXCEPT !.drag = TRUE]
      /\ UNCHANGED <<known, resident, lookups, member, unread, wish, overtaken>>
  BY DEF startDrag
<1>2. Types /\ WindowOK(ui)
  BY DEF NavigationInv, Types
<1>3. ui' \in Windows /\ ui'.drag = TRUE /\ But(ui, ui', {"drag"})
  BY <1>1, <1>2 DEF WindowOK, Windows, But, Fields
<1>4. WindowOK(ui')
  BY <1>2, <1>3 DEF WindowOK, But, Fields
<1>5. /\ ui'.gen = ui.gen /\ ui'.central = ui.central /\ ui'.docked = ui.docked /\ ui'.at = ui.at
      /\ ui'.threads = ui.threads /\ ui'.queue = ui.queue /\ ui'.retries = ui.retries
      /\ ui'.pending = ui.pending /\ ui'.deferred = ui.deferred /\ ui'.refused = ui.refused
  BY <1>3 DEF But, Fields
<1>6. Types'
  BY <1>1, <1>2, <1>4, <1>5 DEF Types
<1>7. ASSUME ~overtaken' PROVE Chased(ui', lookups', wish')
  <2>1. Chased(ui, lookups, wish)
    BY <1>1, <1>7 DEF NavigationInv, Followed
  <2>2. Arrived(ui, wish) => Arrived(ui', wish)
    BY <1>5 DEF Arrived, Headed, Weak, Jumping, Due
  <2>3. Keeping(ui, ui', wish)
    BY <1>5, <2>2 DEF Keeping
  <2>4. Aimed(ui', wish)
    BY <1>5, <2>1, <2>3, AimKept DEF Chased
  <2>5. Idle(ui) => Idle(ui')
    BY <1>5 DEF Idle, Due
  <2>6. Underway(ui, wish) => Underway(ui', wish)
    BY <1>3, <1>5, <2>2 DEF Underway, Reopening, Waiting, Due
  <2>7. Chased(ui', lookups, wish)
    BY <1>5, <2>1, <2>4, <2>5, <2>6, ChaseKept
  <2> QED BY <1>1, <2>7
<1>8. MoveOK(ui, ui', wish')
  BY <1>5, StillMoves
<1> QED BY <1>6, <1>7, <1>8 DEF StepOK

\* Opening the channels of S one after another ends at one of them.
LEMMA ActivateAll ==
    ASSUME NEW u, WindowOK(u), NEW S \in SUBSET Channels, NEW cs \in Seq(S),
           NEW v, v = activateChannelItems(u, cs)
    PROVE  /\ WindowOK(v) /\ But(u, v, {"central", "at", "queue"})
           /\ v.central \in {u.central} \cup S /\ (cs # <<>> => v.central \in S)
           /\ cs = <<>> => v = u
           /\ \A a \in Areas : v.at[a] \in {u.at[a], "unplaced"}
           /\ Range(u.queue) \subseteq Range(v.queue)
           /\ \A e \in Range(v.queue) : e.kind # "settle" => e \in Range(u.queue)
<1> DEFINE moves == IF cs # <<>> /\ Head(cs) = u.central THEN Tail(cs) ELSE cs
           settle(c) == [kind |-> "settle", area |-> c, target |-> None, gen |-> u.gen]
           s == [a \in Areas |-> IF a = u.central \/ a \in Range(moves) THEN "unplaced" ELSE u.at[a]]
           g == [i \in DOMAIN moves |-> settle(moves[i])]
           q == u.queue \o g
<1>1. /\ moves \in Seq(S)
      /\ cs = <<>> => moves = <<>>
      /\ cs # <<>> /\ moves = <<>> => u.central \in S
  BY TailRange
<1>2. v = IF moves = <<>> THEN u
          ELSE [u EXCEPT !.central = Last(moves), !.at = s, !.queue = q]
  BY Zenon DEF activateChannelItems
<1>3. CASE moves = <<>>
  <2>1. v = u
    BY <1>2, <1>3
  <2> HIDE DEF moves
  <2> QED BY <1>1, <1>3, <2>1 DEF But
<1>4. CASE moves # <<>>
  <2>1. v = [u EXCEPT !.central = Last(moves), !.at = s, !.queue = q]
    BY <1>2, <1>4
  <2>2. /\ u \in Windows /\ u.queue \in Seq(Turns) /\ u.at \in Stands /\ u.gen \in Nat
    BY DEF WindowOK, Windows
  <2>3. s \in Stands /\ \A a \in Areas : s[a] \in {u.at[a], "unplaced"}
    <3> HIDE DEF moves
    <3> QED BY <2>2 DEF Stands
  <2>4. /\ Len(moves) \in Nat \ {0} /\ DOMAIN moves = 1..Len(moves)
        /\ \A i \in 1..Len(moves) : moves[i] \in S
    <3> HIDE DEF moves
    <3> QED BY <1>1, <1>4, EmptySeq
  <2>5. Last(moves) \in S
    <3> HIDE DEF moves
    <3> QED BY <2>4 DEF Last
  <2>6. \A c \in S : settle(c) \in Turns /\ TurnOK(u.gen, settle(c)) /\ settle(c).kind = "settle"
    BY Apart, <2>2 DEF Turns, Kinds, TurnOK
  <2> HIDE DEF moves, settle, s
  <2>7. \A i \in 1..Len(moves) :
            g[i] \in Turns /\ TurnOK(u.gen, g[i]) /\ g[i].kind = "settle"
    BY <2>4, <2>6
  <2>8. g \in Seq(Turns) /\ Len(g) = Len(moves)
    BY <2>4, <2>6
  <2> HIDE DEF g
  <2>9. \A e \in Range(g) : TurnOK(u.gen, e) /\ e.kind = "settle"
    BY <2>7, <2>8, QueueRange
  <2>10. q \in Seq(Turns) /\ Range(q) = Range(u.queue) \cup Range(g)
    BY <2>2, <2>8, ConcatRange
  <2> HIDE DEF q
  <2>11. \A e \in Range(q) : TurnOK(u.gen, e)
    BY <2>9, <2>10 DEF WindowOK
  <2>12. Last(moves) \in Channels
    BY <2>5
  <2> DEFINE z == Last(moves)
  <2> HIDE DEF z
  <2>13. v = [u EXCEPT !.central = z, !.at = s, !.queue = q]
    BY <2>1 DEF z
  <2>14. z \in Channels /\ z \in S
    BY <2>5, <2>12 DEF z
  <2>15. v \in Windows /\ v.central = z /\ v.at = s /\ v.queue = q /\ But(u, v, {"central", "at", "queue"})
    <3>1. v \in Windows
      BY <2>2, <2>3, <2>10, <2>13, <2>14 DEF Windows
    <3>2. v.central = z /\ v.at = s /\ v.queue = q
      BY <2>2, <2>13 DEF Windows
    <3>3. But(u, v, {"central", "at", "queue"})
      BY <2>2, <2>13 DEF Windows, But, Fields
    <3> QED BY <3>1, <3>2, <3>3
  <2>16. WindowOK(v)
    BY <2>11, <2>15 DEF WindowOK, But, Fields
  <2> QED BY <1>1, <1>4, <2>3, <2>9, <2>10, <2>14, <2>15, <2>16
<1> QED BY <1>3, <1>4

\* The end of a drag: the channels put off are opened, or asked for.
LEMMA DragEnds ==
    ASSUME NavigationInv, endDrag
    PROVE  StepOK
<1> DEFINE rowless == (ui.deferred \ ui.listed) \ ui.pending
           asked == {[channel |-> c, stage |-> "refresh"] : c \in rowless}
           S == ui.deferred \cap ui.listed
           u == [ui EXCEPT !.drag = FALSE, !.deferred = {}, !.pending = @ \cup rowless,
                           !.asking = @ \cup asked]
<1>1. PICK order \in SetToSeqs(S) : ui' = activateChannelItems(u, order)
  BY DEF endDrag
<1>2. /\ overtaken' = (overtaken \/ \E c \in ui.deferred :
                                     c # wish.channel \/ wish.post # None \/ wish.root # None)
      /\ UNCHANGED <<known, resident, lookups, member, unread, wish>>
  BY DEF endDrag
<1>3. Types /\ WindowOK(ui)
  BY DEF NavigationInv, Types
<1>4. /\ rowless \subseteq Channels /\ asked \subseteq Requests /\ S \subseteq Channels
      /\ rowless \cap ui.pending = {} /\ ui.deferred \subseteq S \cup rowless \cup ui.pending
      /\ \A a \in asked : a.channel \in rowless
      /\ \A a \in asked : \A b \in asked : a.channel = b.channel => a = b
  BY <1>3 DEF WindowOK, Windows, Requests, RequestStages
<1>5. order \in Seq(S) /\ (S # {} => order # <<>>)
  <2>1. IsFiniteSet(S)
    BY <1>3, FS_Subset DEF WindowOK
  <2> HIDE DEF S
  <2>2. order \in Seq(S)
    BY <2>1, ListedRange
  <2>3. order \in [1..Cardinality(S) -> S] /\ Cardinality(S) \in Nat
    BY <2>1, FS_CardinalityType DEF SetToSeqs
  <2>4. S # {} => Cardinality(S) # 0
    BY <2>1, FS_EmptySet
  <2>5. Len(order) = Cardinality(S)
    BY <2>2, <2>3
  <2> QED BY <2>2, <2>4, <2>5
<1>6. u = [ui EXCEPT !.drag = FALSE, !.deferred = {}, !.pending = @ \cup rowless, !.asking = @ \cup asked]
  OBVIOUS
<1> HIDE DEF rowless, asked, S, u
<1>7. /\ u \in Windows /\ u.drag = FALSE /\ u.deferred = {} /\ u.pending = ui.pending \cup rowless
      /\ u.asking = ui.asking \cup asked /\ But(ui, u, {"drag", "deferred", "pending", "asking"})
  BY <1>3, <1>4, <1>6 DEF WindowOK, Windows, But, Fields
<1>8. AskingOK(u.asking, u.pending)
  BY <1>3, <1>4, <1>7 DEF WindowOK, AskingOK
<1>9. WindowOK(u)
  BY <1>7, FS_EmptySet, <1>3, <1>8 DEF WindowOK, But, Fields
<1> DEFINE v == ui'
<1>10. v = activateChannelItems(u, order)
  BY <1>1
<1>11. S \in SUBSET Channels
  BY <1>4
<1> HIDE DEF v
<1>12. /\ WindowOK(v) /\ But(u, v, {"central", "at", "queue"})
       /\ v.central \in {u.central} \cup S /\ (order # <<>> => v.central \in S)
       /\ order = <<>> => v = u
       /\ \A a \in Areas : v.at[a] \in {u.at[a], "unplaced"}
       /\ Range(u.queue) \subseteq Range(v.queue)
       /\ \A e \in Range(v.queue) : e.kind # "settle" => e \in Range(u.queue)
  BY <1>5, <1>9, <1>10, <1>11, ActivateAll
<1>13. /\ v.gen = ui.gen /\ v.docked = ui.docked /\ v.threads = ui.threads /\ v.retries = ui.retries
       /\ v.refused = ui.refused /\ v.drag = FALSE /\ v.deferred = {}
       /\ v.pending = ui.pending \cup rowless
       /\ u.central = ui.central /\ u.at = ui.at /\ u.queue = ui.queue /\ u.gen = ui.gen
  BY <1>7, <1>12 DEF But, Fields
<1>14. overtaken' \in BOOLEAN
  BY <1>2, <1>3 DEF Types
<1>15. Types'
  BY <1>12, <1>13, <1>2, <1>3, <1>14 DEF v, Types
<1>16. ASSUME ~overtaken' PROVE Chased(v, lookups, wish) /\ MoveOK(ui, v, wish)
  <2>1. /\ Chased(ui, lookups, wish)
        /\ \A c \in ui.deferred : c = wish.channel /\ wish.post = None /\ wish.root = None
    BY <1>2, <1>16 DEF NavigationInv, Followed
  <2>2. ui.deferred # {} => S \subseteq {wish.channel} /\ wish.post = None /\ wish.root = None
    BY <2>1 DEF S
  <2>3. ui.deferred = {} => v.central = ui.central /\ v.at = ui.at /\ v.queue = ui.queue
    BY <1>5, <1>12, <1>13 DEF S
  <2>4. v.central # ui.central => v.central = wish.channel
    BY <1>12, <1>13, <2>2, <2>3
  <2>5. Arrived(ui, wish) => Arrived(v, wish)
    BY <1>13, <2>3, <2>2, <2>4 DEF Arrived, Headed, Weak, Jumping, Due
  <2>6. Keeping(ui, v, wish)
    BY <1>13, <2>5 DEF Keeping
  <2>7. Aimed(v, wish)
    BY <1>12, <1>13, <2>1, <2>6, AimKept DEF Chased
  <2>8. Idle(ui) => Idle(v)
    BY <1>12, <1>13 DEF Idle, Due
  <2>9. wish.channel \in ui.deferred => wish.channel \in v.pending \/ Arrived(v, wish)
    BY <1>5, <1>12, <2>2, <1>4, <1>13 DEF Arrived
  <2>10. Underway(ui, wish) => Underway(v, wish)
    BY <1>12, <1>13, <2>9, <2>5 DEF Reopening, Due, Waiting, Underway
  <2>11. Chased(v, lookups, wish)
    BY <1>13, <2>1, <2>4, <2>7, <2>8, <2>10, ChaseKept
  <2>12. MoveOK(ui, v, wish)
    BY <1>12, <1>13, <2>4, Apart DEF MoveOK
  <2> QED BY <2>11, <2>12
<1> QED BY <1>2, <1>15, <1>16 DEF StepOK, v

-------------------------------------------------------------------------------
(* The theorems                                                               *)

LEMMA StuttersNavigation ==
    ASSUME NavigationInv, UNCHANGED navigationVars
    PROVE  StepOK
BY StillMoves DEF navigationVars, NavigationInv, Types, StepOK, Followed

LEMMA NavigationStarts ==
    ASSUME NavigationInit
    PROVE  NavigationInv
<1>1. PICK c \in Listed \cup {None}, f \in SUBSET Strange :
        ui = [gen |-> 0, central |-> c, docked |-> None, threads |-> {},
              at |-> [a \in Areas |-> "unplaced"], queue |-> <<>>, retries |-> {}, pending |-> {},
              asking |-> {}, drag |-> FALSE, deferred |-> {}, listed |-> Listed, foreign |-> f,
              refused |-> {}]
  BY DEF NavigationInit
<1>2. /\ Listed \subseteq Channels /\ Strange \subseteq Channels /\ MaxNavigations \in Nat
  BY NavigationAssumption DEF NavigationAssumption
<1>3. WindowOK(ui)
  BY <1>1, <1>2, FS_EmptySet DEF Stands, Range, Windows, AskingOK, WindowOK
<1>4. /\ known \subseteq Channels /\ member \subseteq Channels /\ resident \subseteq Posts
      /\ lookups = {} /\ unread = None /\ wish = Nowhere /\ overtaken = FALSE
  BY <1>2 DEF NavigationInit
<1>5. Nowhere \in Wishes /\ Nowhere.by = "none"
  BY Wished DEF Nowhere
<1>6. Types
  BY <1>3, <1>4, <1>5 DEF Types, WishOK
<1>7. Idle(ui)
  BY <1>1 DEF Idle, Range
<1>8. Chased(ui, lookups, wish)
  BY <1>7, IdleAims, <1>4, <1>5 DEF Chased
<1> QED BY <1>6, <1>8 DEF NavigationInv, Followed

LEMMA NavigationSteps ==
    ASSUME NavigationInv, [NavigationNext]_navigationVars
    PROVE  StepOK
BY PostTargets, ChannelSteps, RowSteps, PickSteps, PostSteps, ThreadSteps, CloseSteps,
   LastViewedSteps, UrlSteps, TurnSteps, AnswerSteps, FailSteps, AdmissionSteps, UnreadSteps,
   DragStarts, DragEnds, StuttersNavigation DEF Roots, NavigationNext

LEMMA NavigationKept ==
    ASSUME NavigationInv, [NavigationNext]_navigationVars
    PROVE  NavigationInv'
BY NavigationSteps DEF StepOK, NavigationInv, Followed

\* The inductive invariant: what the latest navigation left to be done, in the queue, among the
\* retries and among the look-ups, is what the user chose last, and something of it is left
\* until the window shows it, unless it has been refused.
THEOREM NavigationFollows == NavigationSpec => []NavigationInv
<1>1. NavigationInit => NavigationInv
  BY NavigationStarts
<1>2. NavigationInv /\ [NavigationNext]_navigationVars => NavigationInv'
  BY NavigationKept
<1> QED BY <1>1, <1>2, PTL DEF NavigationSpec

\* Every window the program reaches is one of the type invariant.
THEOREM NavigationTyped == NavigationSpec => []NavigationTypeOK
<1>1. NavigationInv => NavigationTypeOK
  BY NavigationAssumption DEF NavigationInv, Types, NavigationAssumption, WindowOK, Windows,
     AskingOK, Requests, NavigationTypeOK, RequestStages, Stands
<1> QED BY <1>1, NavigationFollows, PTL

\* When everything has been answered the window shows what the user chose last
\* (NavigationRequestGate.h:12), whatever was opened, placed or joined on the way.
THEOREM LatestShown == NavigationSpec => []LatestWins
<1>1. NavigationInv => LatestWins
  BY Apart DEF LatestWins, NavigationInv, Followed, Types, Quiet, Current, Range, WishOK, Nowhere,
     Wish, Shown, Chased, Reopening, Waiting, Stuck, Underway, Jumping, Arrived, Headed, Wishes
<1> QED BY <1>1, NavigationFollows, PTL

\* The view moves only to what was chosen last, through every callback and deferred step: a
\* generation left behind changes neither the centre, nor the thread beside it, nor the post
\* a view stands at (AppNavigationService.cpp:297).
THEOREM OnlyLatestMoves == NavigationSpec => MovesForLatest
<1>1. NavigationInv /\ [NavigationNext]_navigationVars =>
        [~overtaken' =>
            /\ ui'.central # ui.central => ui'.central = wish'.channel
            /\ ui'.docked \notin {ui.docked, None} => ui'.docked = wish'.root
            /\ \A a \in Areas : ui'.at[a] # ui.at[a] /\ ui'.at[a] \in Posts =>
                                    a = AreaOf(wish') /\ ui'.at[a] = wish'.post]_navigationVars
  BY NavigationSteps DEF StepOK, MoveOK
<1> QED BY <1>1, NavigationFollows, PTL DEF NavigationSpec, MovesForLatest
===============================================================================
