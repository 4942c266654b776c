------------------------------ MODULE Navigation ------------------------------
(* Semantic navigation: AppNavigationService finds out where a channel, a     *)
(* post or a thread is, MainWindow::openChannelPost brings it up, ChannelTree *)
(* opens the channel, joining it if need be, and ChatArea places the view.    *)
(* Each of these waits for the network or for the next turn of the event loop *)
(* while the user goes on to other places.                                    *)
(*                                                                            *)
(* A view stands at a post, or rests where ChatArea puts it by itself (its    *)
(* newest end or its bookmark), or has not been placed.  The generations of   *)
(* AppNavigationService and of MainWindow always move together and are one.   *)
EXTENDS Naturals, Sequences, SequencesExt, FiniteSets

CONSTANTS
    Channels, Posts, None,
    Home,           \* the channel of a post
    RootOf,         \* the root of a reply, None for a root
    Public,         \* channels anybody may join
    Listed,         \* channels the sidebar has at the start
    Strange,        \* channels Storage does not have at the start
    MaxNavigations, \* semantic navigations
    MaxClicks,      \* rows clicked and threads closed
    MaxFailures,    \* requests that fail
    MaxDrags        \* drags of a sidebar row

ASSUME NavigationAssumption ==
    /\ Home \in [Posts -> Channels] /\ RootOf \in [Posts -> Posts \cup {None}]
    /\ Public \cup Strange \subseteq Channels /\ Listed \subseteq Channels \ Strange
    /\ \A p \in Posts : RootOf[p] # None => RootOf[RootOf[p]] = None
    /\ Channels \cap Posts = {} /\ None \notin Channels \cup Posts
    /\ {"unplaced", "resting"} \cap Posts = {}
    /\ {MaxNavigations, MaxClicks, MaxFailures, MaxDrags} \subseteq Nat

VARIABLES
    ui,         \* the main window: see NavigationInit
    known,      \* channels in Storage
    resident,   \* posts in memory
    lookups,    \* what navigations wait for
    member,     \* channels the user belongs to, as the server has it
    unread,     \* channel picked in a quick list whose unread post is asked for, or None
    wish,       \* history: what the user chose last
    overtaken,  \* history: something older moves the view in spite of it
    clicks, failures, drags     \* counted against the bounds

navigationVars ==
    <<ui, known, resident, lookups, member, unread, wish, overtaken, clicks, failures, drags>>

Roots == {p \in Posts : RootOf[p] = None}
Areas == Channels \cup Roots

Target(c, root, post, keep) == [channel |-> c, root |-> root, post |-> post, keep |-> keep]
Wish(by, c, root, post) == [by |-> by, channel |-> c, root |-> root, post |-> post]
Nowhere == Wish("none", None, None, None)

NavigationInit ==
    /\ \E c \in Listed \cup {None}, f \in SUBSET Strange :
        ui = [gen      |-> 0,       \* generation of the latest navigation
              central  |-> c,       \* the channel in the centre
              docked   |-> None,    \* the thread beside it
              threads  |-> {},      \* thread areas that exist
              at       |-> [a \in Areas |-> "unplaced"],
              queue    |-> <<>>,    \* QTimer::singleShot(0, ...)
              retries  |-> {},      \* waiting for storedChannelOpenFinished
              pending  |-> {},      \* pendingChannelAdmissions
              asking   |-> {},      \* their requests
              drag     |-> FALSE, deferred |-> {},  \* sidebarDragActive, pendingStoredChannelOpens
              listed   |-> Listed,  \* channels with a row, or whose category makes one
              foreign  |-> f,       \* channels of a team the client does not have
              refused  |-> {}]      \* history: channels this navigation could not reach
    /\ known = Channels \ Strange
    /\ resident \in SUBSET {p \in Posts : Home[p] \in known}
    /\ member \in {Listed \cup others : others \in SUBSET (Channels \ Listed)}
    /\ lookups = {} /\ unread = None
    /\ wish = Nowhere /\ overtaken = FALSE
    /\ clicks = 0 /\ failures = 0 /\ drags = 0

-------------------------------------------------------------------------------
(* The main window.  These operators take its state and return the next.      *)

Later(u, kind, area, target) ==
    [u EXCEPT !.queue = Append(@, [kind |-> kind, area |-> area, target |-> target, gen |-> u.gen])]

AreaOf(t) == IF t.root = None THEN t.channel ELSE t.root
Alive(u, a) == u.central = a \/ a \in u.threads

\* The turns of an area that find its generation gone, or the area.
Dropped(queue, a, kinds) ==
    [i \in DOMAIN queue |-> IF queue[i].area = a /\ queue[i].kind \in kinds
                            THEN [queue[i] EXCEPT !.kind = "dropped"] ELSE queue[i]]

\* mutant: the jump is queued behind a placement that may queue another
preparePostNavigationNot(u, a) == u

\* Places the view by itself would take are forgotten.
preparePostNavigation(u, a) ==
    [u EXCEPT !.queue = Dropped(@, a, {"settle", "newest"})]

goToNewest(u, a) == Later(preparePostNavigation(u, a), "newest", a, None)

\* The page that was shown loses its view; the new one is placed in the next turn.
activateChannelItem(u, c) ==
    IF u.central = c THEN u
    ELSE Later([u EXCEPT !.central = c,
                         !.at = [a \in Areas |-> IF a \in {u.central, c} THEN "unplaced" ELSE @[a]]],
               "settle", c, None)

\* One channel after another, each no longer the one in the centre when the next comes.
activateChannelItems(u, cs) ==
    LET moves == IF cs # <<>> /\ Head(cs) = u.central THEN Tail(cs) ELSE cs
        settle(c) == [kind |-> "settle", area |-> c, target |-> None, gen |-> u.gen]
    IN IF moves = <<>> THEN u
       ELSE [u EXCEPT !.central = Last(moves),
                      !.at = [a \in Areas |-> IF a = u.central \/ a \in Range(moves)
                                              THEN "unplaced" ELSE @[a]],
                      !.queue = @ \o [i \in DOMAIN moves |-> settle(moves[i])]]

\* mutant: the admission is taken for the whole navigation
storedChannelOpenFinishedQuietly(u, c, opened) ==
    [u EXCEPT !.retries = {r \in @ : r.target.channel # c},
              !.refused = IF opened THEN @ ELSE @ \cup {c}]

\* storedChannelOpenFinished, and what MainWindow does when it hears of it.
storedChannelOpenFinished(u, c, opened) ==
    LET mine == {r \in u.retries : r.target.channel = c}
        resumed == {r \in mine : opened /\ r.gen = u.gen}
    IN [u EXCEPT !.retries = @ \ mine,
                 !.refused = IF opened THEN @ ELSE @ \cup {c},
                 !.queue = @ \o SetToSeq({[kind |-> "reopen", area |-> None,
                                           target |-> r.target, gen |-> r.gen] : r \in resumed})]

openStoredChannel(u, c) ==
    IF u.drag THEN [u EXCEPT !.deferred = @ \cup {c}]
    ELSE IF c \in u.listed THEN activateChannelItem(u, c)
    ELSE IF c \in u.pending THEN u
    ELSE [u EXCEPT !.pending = @ \cup {c},
                   !.asking = @ \cup {[channel |-> c, stage |-> "refresh"]}]

presentThread(u, t) ==
    IF t.root \in u.threads THEN [u EXCEPT !.docked = t.root]
    ELSE Later([u EXCEPT !.docked = t.root, !.threads = @ \cup {t.root}], "newest", t.root, None)

openThreadArea(u, t) ==
    LET shown == presentThread(u, t)
    IN IF t.root \in u.threads /\ t.keep THEN shown
       ELSE IF t.post = None THEN goToNewest(shown, t.root)
       ELSE Later(preparePostNavigation(shown, t.root), "jump", t.root, t)

openChannelPost(u, t) ==
    LET retry == [target |-> t, gen |-> u.gen]
        armed == openStoredChannel([u EXCEPT !.retries = @ \cup {retry}], t.channel)
        opened == [armed EXCEPT !.retries = @ \ {retry}]
    IN IF t.root # None /\ u.central # None THEN openThreadArea(u, t)
       ELSE IF armed.central # t.channel THEN armed
       ELSE IF t.root # None THEN Later(opened, "reopen", None, t)
       ELSE IF t.post = None THEN opened
       ELSE Later(preparePostNavigation(opened, t.channel), "jump", t.channel, t)

-------------------------------------------------------------------------------
(* The event loop takes what was left for its next turn.                      *)

\* mutant: a deferred step does not ask whether it is still wanted
CurrentAlways(gen) == TRUE

Current(gen) == gen = ui.gen

Refused(u, c) == [u EXCEPT !.refused = @ \cup {c}]
Place(u, a, where) == IF Alive(u, a) THEN [u EXCEPT !.at[a] = where] ELSE u

nextTurn ==
    /\ ui.queue # <<>>
    /\ LET e == Head(ui.queue)
           u == [ui EXCEPT !.queue = Tail(@)]
       IN \/ /\ e.kind = "reopen"
             /\ ui' = IF Current(e.gen) THEN openChannelPost(u, e.target) ELSE u
          \/ /\ e.kind = "jump"
             /\ ui' = IF Current(e.gen) THEN Place(u, e.area, e.target.post) ELSE u
          \/ /\ e.kind = "jump" /\ Current(e.gen)     \* the view cannot be locked to the post
             /\ ui' = Refused(u, e.target.channel)
          \/ e.kind = "dropped" /\ ui' = u
          \/ /\ e.kind \in {"settle", "newest"}
             /\ ui' = Place(u, e.area, "resting")
          \/ /\ e.kind = "settle"   \* the bookmark cannot be restored
             /\ ui' = Later(u, "newest", e.area, None)
    /\ UNCHANGED <<known, resident, lookups, member, unread, wish, overtaken, clicks, failures, drags>>

-------------------------------------------------------------------------------
(* Navigations.                                                               *)

beginNavigation == [ui EXCEPT !.gen = @ + 1, !.refused = {}]

Lookup(kind, t, gen) == [kind |-> kind, target |-> t, gen |-> gen]
PostTarget(p) == Target(Home[p], RootOf[p], p, FALSE)

\* openPostInChannel: a reply needs its root, a root its neighbours.
openPostInChannel(u, t, inMemory, waiting) ==
    IF t.root # None /\ t.root \in inMemory
    THEN ui' = openChannelPost(u, t) /\ lookups' = waiting
    ELSE /\ ui' = u
         /\ lookups' = waiting \cup {Lookup(IF t.root # None THEN "root" ELSE "context", t, u.gen)}

beginOpenChannel(c) ==
    /\ ui' = IF c \in known THEN openChannelPost(beginNavigation, Target(c, None, None, FALSE))
             ELSE Refused(beginNavigation, c)
    /\ UNCHANGED lookups

beginOpenPost(p) ==
    IF p \in resident THEN openPostInChannel(beginNavigation, PostTarget(p), resident, lookups)
    ELSE /\ ui' = beginNavigation
         /\ lookups' = lookups \cup {Lookup("post", PostTarget(p), ui'.gen)}

\* What the user does; a drag of a row keeps the mouse.
Chosen(w) ==
    /\ ~ui.drag /\ ui.gen < MaxNavigations
    /\ wish' = w /\ overtaken' = FALSE
    /\ UNCHANGED <<known, resident, member, unread, clicks, failures, drags>>

openChannel(c) == beginOpenChannel(c) /\ Chosen(Wish("navigation", c, None, None))

openPost(p) == beginOpenPost(p) /\ Chosen(Wish("navigation", Home[p], RootOf[p], p))

openThread(c, root) ==
    /\ Chosen(Wish("navigation", c, root, None))
    /\ ui' = IF c \in known THEN openChannelPost(beginNavigation, Target(c, root, None, TRUE))
             ELSE Refused(beginNavigation, c)
    /\ UNCHANGED lookups

openThreadAtLastViewed(c, root, preserveIfOpen) ==
    /\ Chosen(Wish("navigation", c, root, None))
    /\ \/ /\ c \in known
          /\ ui' = beginNavigation
          /\ lookups' = lookups \cup {Lookup("thread", Target(c, root, None, preserveIfOpen), ui'.gen)}
       \/ /\ c \notin known
          /\ ui' = Refused(beginNavigation, c)
          /\ UNCHANGED lookups

\* openUrl with an address elsewhere: the browser opens it.
openUrl == ui' = beginNavigation /\ UNCHANGED lookups /\ Chosen(Nowhere)

-------------------------------------------------------------------------------
(* Answers to navigations.  Those of one left behind change only memory.      *)

Answered(l) == lookups \ {l}

\* NavigationPostResolver is done: the post and its channel are in memory.
finishWithChannel(l) ==
    LET p == l.target.post
    IN /\ known' = known \cup {l.target.channel}
       /\ resident' = resident \cup {p}
       /\ IF Current(l.gen) THEN openPostInChannel(ui, l.target, resident', Answered(l))
          ELSE lookups' = Answered(l) /\ UNCHANGED ui
       /\ UNCHANGED wish

Ask(l, kind) ==
    /\ lookups' = Answered(l) \cup {[l EXCEPT !.kind = kind]}
    /\ UNCHANGED <<ui, known, resident, wish>>

\* The team goes to Storage only: the sidebar gets no row for it.
TeamKnown(c) == c \in ui.foreign => ui.foreign \cap known # {}

handlePost(l) ==
    /\ l.kind = "post"
    /\ IF l.target.channel \in known THEN finishWithChannel(l) ELSE Ask(l, "channel")

handleChannel(l) ==
    /\ l.kind = "channel"
    /\ IF l.target.channel \in known \/ TeamKnown(l.target.channel)
       THEN finishWithChannel(l) ELSE Ask(l, "team")

handleTeam(l) == l.kind = "team" /\ finishWithChannel(l)

\* The repository has loaded what t needs: the root, the neighbours, or the unread replies.
Loaded(l, posts, t) ==
    /\ resident' = resident \cup posts
    /\ lookups' = Answered(l)
    /\ ui' = IF Current(l.gen) THEN openChannelPost(ui, t) ELSE ui
    /\ wish' = IF Current(l.gen) /\ wish.by = "navigation" /\ ~(t.keep /\ t.root \in ui.threads)
               THEN [wish EXCEPT !.post = t.post] ELSE wish
    /\ UNCHANGED known

Unread(root) == {p \in Posts : RootOf[p] = root}

Loads(l) ==
    \/ l.kind = "root" /\ Loaded(l, {l.target.root}, l.target)
    \/ l.kind = "context" /\ Loaded(l, {l.target.post}, l.target)
    \/ /\ l.kind = "thread"
       /\ \E p \in Unread(l.target.root) : Loaded(l, {p}, [l.target EXCEPT !.post = p])
    \/ l.kind = "thread" /\ Loaded(l, {}, l.target)

Answer ==
    /\ \E l \in lookups : handlePost(l) \/ handleChannel(l) \/ handleTeam(l) \/ Loads(l)
    /\ UNCHANGED <<member, unread, overtaken, clicks, failures, drags>>

\* A failed page of a thread still leaves the post the list has shown as unread.
Fail ==
    /\ failures < MaxFailures /\ failures' = failures + 1
    /\ \E l \in lookups :
        \/ /\ ui' = IF Current(l.gen) THEN Refused(ui, l.target.channel) ELSE ui
           /\ lookups' = Answered(l)
           /\ UNCHANGED <<known, resident, wish>>
        \/ /\ l.kind = "thread"
           /\ \E p \in Unread(l.target.root) : Loaded(l, {}, [l.target EXCEPT !.post = p])
    /\ UNCHANGED <<member, unread, overtaken, clicks, drags>>

-------------------------------------------------------------------------------
(* A channel without a row: its categories are asked for, a public channel is *)
(* joined and they are asked for again.  The answers ask no generation.       *)

Asked(a, stage) == [ui EXCEPT !.asking = (@ \ {a}) \cup {[a EXCEPT !.stage = stage]}]
Admitted(a) == [ui EXCEPT !.asking = @ \ {a}, !.pending = @ \ {a.channel}]
NotAdmitted(a) == storedChannelOpenFinished(Admitted(a), a.channel, FALSE)

openAdmitted(a) ==
    LET u == openStoredChannel([Admitted(a) EXCEPT !.listed = @ \cup (member \ ui.foreign)], a.channel)
    IN /\ ui' = storedChannelOpenFinished(u, a.channel, u.central = a.channel)
       /\ overtaken' = (overtaken \/ (u.central # ui.central /\ a.channel # wish.channel))

categoriesRetrieved(a) ==
    /\ a.stage \in {"refresh", "again"}
    /\ \/ a.channel \in member /\ openAdmitted(a)
       \/ /\ a.channel \notin member
          /\ ui' = IF a.stage = "refresh" /\ a.channel \in Public
                   THEN Asked(a, "join") ELSE NotAdmitted(a)
          /\ UNCHANGED overtaken
    /\ UNCHANGED <<member, failures>>

joined(a) ==
    /\ a.stage = "join"
    /\ member' = member \cup {a.channel}
    /\ ui' = Asked(a, "again")
    /\ UNCHANGED <<overtaken, failures>>

\* Nobody is told that the categories could not be retrieved.
categoriesFailed(a) == [ui EXCEPT !.asking = @ \ {a}]

admissionFailed(a) ==
    /\ failures < MaxFailures /\ failures' = failures + 1
    /\ ui' = IF a.stage = "join" THEN NotAdmitted(a) ELSE categoriesFailed(a)
    /\ UNCHANGED <<member, overtaken>>

Admission ==
    /\ \E a \in ui.asking : categoriesRetrieved(a) \/ joined(a) \/ admissionFailed(a)
    /\ UNCHANGED <<known, resident, lookups, unread, wish, clicks, drags>>

-------------------------------------------------------------------------------
(* What the user does past AppNavigationService.                              *)

\* The latest navigation is still under way.
Busy ==
    \/ \E l \in lookups : Current(l.gen)
    \/ \E r \in ui.retries : Current(r.gen)
    \/ \E i \in DOMAIN ui.queue : ui.queue[i].kind \in {"reopen", "jump"} /\ Current(ui.queue[i].gen)

Clicked(w) ==
    /\ ~ui.drag
    /\ clicks < MaxClicks /\ clicks' = clicks + 1
    /\ wish' = w /\ overtaken' = Busy
    /\ UNCHANGED <<known, resident, lookups, member, failures, drags>>

clickRow(c) ==
    /\ Clicked(Wish("click", c, None, None))
    /\ c \in ui.listed
    /\ ui' = activateChannelItem(ui, c)
    /\ UNCHANGED unread

closeThread(root) ==
    /\ Clicked(Nowhere)
    /\ root \in ui.threads
    /\ ui' = [ui EXCEPT !.threads = @ \ {root}, !.at[root] = "unplaced",
                        !.docked = IF @ = root THEN None ELSE @,
                        !.queue = Dropped(@, root, {"settle", "newest", "jump"})]
    /\ UNCHANGED unread

\* A conversation in a quick list, which first asks where it is to be resumed.
pickConversation(c) ==
    /\ Clicked(Wish("quick", c, None, None))
    /\ c \in known
    /\ unread' = c
    /\ UNCHANGED ui

\* The answer starts a navigation, whatever the user has chosen since in other places.
unreadPostRetrieved ==
    /\ unread # None /\ ui.gen < MaxNavigations
    /\ unread' = None
    /\ LET fresh == wish = Wish("quick", unread, None, None)
       IN /\ overtaken' = ~fresh
          /\ \/ /\ beginOpenChannel(unread)
                /\ wish' = IF fresh THEN [wish EXCEPT !.by = "navigation"] ELSE wish
             \/ \E p \in Roots :
                /\ Home[p] = unread /\ beginOpenPost(p)
                /\ wish' = IF fresh THEN Wish("navigation", unread, None, p) ELSE wish
    /\ UNCHANGED <<known, resident, member, clicks, failures, drags>>

startDrag ==
    /\ ~ui.drag /\ drags < MaxDrags /\ drags' = drags + 1
    /\ ui' = [ui EXCEPT !.drag = TRUE]
    /\ UNCHANGED <<known, resident, lookups, member, unread, wish, overtaken, clicks, failures>>

\* flushDeferredSidebarReconciles: channels put off are opened, in any order; what was to
\* follow is not resumed.
endDrag ==
    /\ ui.drag
    /\ LET rowless == (ui.deferred \ ui.listed) \ ui.pending
           u == [ui EXCEPT !.drag = FALSE, !.deferred = {}, !.pending = @ \cup rowless,
                           !.asking = @ \cup {[channel |-> c, stage |-> "refresh"] : c \in rowless}]
       IN \E order \in SetToSeqs(ui.deferred \cap ui.listed) :
            ui' = activateChannelItems(u, order)
    /\ overtaken' = (overtaken \/ \E c \in ui.deferred :
                                    c # wish.channel \/ wish.post # None \/ wish.root # None)
    /\ UNCHANGED <<known, resident, lookups, member, unread, wish, clicks, failures, drags>>

NavigationNext ==
    \/ \E c \in Channels : openChannel(c) \/ clickRow(c) \/ pickConversation(c)
    \/ \E p \in Posts : openPost(p)
    \/ \E r \in Roots :
        \/ openThread(Home[r], r) \/ closeThread(r)
        \/ \E keep \in BOOLEAN : openThreadAtLastViewed(Home[r], r, keep)
    \/ openUrl
    \/ nextTurn \/ Answer \/ Fail \/ Admission
    \/ unreadPostRetrieved \/ startDrag \/ endDrag

NavigationSpec == NavigationInit /\ [][NavigationNext]_navigationVars

-------------------------------------------------------------------------------
(* Properties                                                                 *)

NavigationTypeOK ==
    /\ ui.gen \in 0 .. MaxNavigations
    /\ ui.central \in Channels \cup {None} /\ ui.docked \in ui.threads \cup {None}
    /\ ui.threads \subseteq Roots /\ ui.at \in [Areas -> Posts \cup {"unplaced", "resting"}]
    /\ UNION {ui.pending, ui.deferred, ui.listed, ui.foreign, ui.refused} \subseteq Channels
    /\ \A a \in ui.asking : a.channel \in ui.pending /\ a.stage \in {"refresh", "join", "again"}
    /\ known \cup member \subseteq Channels /\ resident \subseteq Posts
    /\ unread \in Channels \cup {None} /\ overtaken \in BOOLEAN

Shown(w) ==
    /\ w.root = None /\ w.channel # None => ui.central = w.channel
    /\ w.root # None => ui.docked = w.root
    /\ w.post # None => ui.at[AreaOf(w)] = w.post

Stuck(c) == c \in ui.pending /\ \A a \in ui.asking : a.channel # c

Quiet ==
    /\ \A l \in lookups : ~Current(l.gen)
    /\ ui.queue = <<>> /\ ui.asking = {} /\ ~ui.drag /\ unread = None

\* When everything has been answered, the window shows what the user chose last, at the post
\* it was for: no placement the view takes by itself, no channel that had to be joined and no
\* answer to an earlier navigation has taken it away (NavigationRequestGate.h:12).  Except
\* where a request for it failed, or something older was let in (overtaken: see README).
LatestWins ==
    Quiet /\ ~overtaken /\ wish.channel \notin ui.refused /\ ~Stuck(wish.channel) => Shown(wish)

\* The view never moves for a navigation the user has left behind: the centre, the thread
\* beside it and the post a view stands at change only to what was chosen last, through every
\* callback and deferred step (AppNavigationService.cpp:297).
MovesForLatest ==
    [][~overtaken' =>
        /\ ui'.central # ui.central => ui'.central = wish'.channel
        /\ ui'.docked \notin {ui.docked, None} => ui'.docked = wish'.root
        /\ \A a \in Areas : ui'.at[a] # ui.at[a] /\ ui'.at[a] \in Posts =>
                                a = AreaOf(wish') /\ ui'.at[a] = wish'.post]_navigationVars

\* The opening of a channel that needs an answer of the server comes to an end, good or bad:
\* a channel that is being admitted has a request under way (ChannelTree.h:144).
AdmissionsEnd == \A c \in ui.pending : ~Stuck(c)
===============================================================================
