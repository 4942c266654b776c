---------------------------- MODULE UserProfiles ----------------------------
(* Users of the client: UserProfileService with the part of Storage it fills, *)
(* the user_updated event, and the views that ask for users. A view shows     *)
(* users by id; those the client does not know are asked for in batches, and  *)
(* a view is told when all it asked for have been answered. The picture of a  *)
(* user is fetched for the version the profile names. After an outage of the  *)
(* stream the changed ones of the known users are asked for.                  *)
(*                                                                            *)
(* Of a profile only the version of its picture is kept; every change of a    *)
(* profile is a new version.                                                  *)
EXTENDS Integers, Sequences, FiniteSets, SequencesExt

CONSTANTS
    Users,          \* the ids that posts and channels name
    Me,             \* the user logged in
    Gone,           \* ids the server has no user for
    Views,          \* widgets that show users
    Refreshing,     \* the views that build themselves again when told
    Layouts,        \* the sets of users a view shows
    Sought,         \* users a search may find
    BatchSize,      \* MaxProfilesPerRequest
    MaxChanges,     \* changes of profiles
    MaxOutages,     \* outages of the stream
    MaxFailures,    \* requests that fail
    MaxSearches     \* searches for users

ASSUME ProfilesAssumption ==
    /\ IsFiniteSet(Users)
    /\ Me \in Users \ Gone /\ Gone \subseteq Users /\ Refreshing \subseteq Views
    /\ Layouts \subseteq SUBSET Users /\ Sought \subseteq Users
    /\ BatchSize \in Nat \ {0}

VARIABLES
    server,     \* "version" of each profile, and the outage it "changed" in
    stream,     \* "up", the "outages" so far, the "events" on their way
    users,      \* Storage::users: the version known, 0 for a user not known
    avatar,     \* the version of the picture held, 0 for none
    service,    \* queuedUserIds, inFlightUserIds, waiters, flushScheduled, inFlightAvatarKeys
    views,      \* "shown" users of each view and the answers "left" to come
    since,      \* disconnectedAt, as the number of the outage; 0 for none
    requests,   \* requests for profiles without an answer
    lapses,     \* history: users whose profile or picture the code lets go stale
    budget      \* counted against the bounds

profilesVars == <<server, stream, users, avatar, service, views, since, requests, lapses, budget>>

Known(u) == users[u] # 0
NoLapses == [late |-> {}, unrefreshed |-> {}, denied |-> {}, overtaken |-> {}, wanted |-> {Me}]

(* The log-in brought the user's own profile, and the picture was asked for.  *)
ProfilesInit ==
    /\ server = [version |-> [u \in Users |-> 1], changed |-> [u \in Users |-> 0]]
    /\ stream = [up |-> TRUE, outages |-> 0, events |-> <<>>]
    /\ users = [u \in Users |-> IF u = Me THEN 1 ELSE 0]
    /\ avatar = [u \in Users |-> IF u = Me THEN 1 ELSE 0]
    /\ service = [queued |-> {}, inFlight |-> {}, waiters |-> [u \in Users |-> {}],
                  scheduled |-> FALSE, pictures |-> {}]
    /\ views = [shown |-> [v \in Views |-> {}], left |-> [v \in Views |-> 0]]
    /\ since = 0
    /\ requests = {}
    /\ lapses = NoLapses
    /\ budget = [changes |-> MaxChanges, failures |-> MaxFailures, searches |-> MaxSearches]

----------------------------------------------------------------------------
(* The calls of the service work on the client's state c, a record of users,  *)
(* avatar, service, views and lapses: an answer makes many of them in a row.  *)
(* Those made for several users or views in a loop do not depend on one       *)
(* another's order and are made at once.                                      *)

client == [users |-> users, avatar |-> avatar, service |-> service, views |-> views, lapses |-> lapses]

Becomes(c) ==
    /\ users' = c.users /\ avatar' = c.avatar /\ service' = c.service
    /\ views' = c.views /\ lapses' = c.lapses

PictureHeld(c, u) == c.avatar[u] # 0 /\ c.avatar[u] = c.users[u]

(* For each of the users us.                                                  *)
ensureAvatar(c, us) ==
    LET fetched == {u \in us : ~PictureHeld(c, u)}
        keys == {<<u, c.users[u]>> : u \in fetched}
    IN [c EXCEPT !.service = [c.service EXCEPT !.pictures = @ \cup keys],
                 !.lapses = [c.lapses EXCEPT !.wanted = @ \cup fetched, !.denied = @ \ keys,
                                             !.overtaken = @ \ fetched]]

(* For those of missing[v], whom the client does not know, on behalf of v.    *)
ensureUser(service0, missing) ==
    LET for(u) == {v \in DOMAIN missing : u \in missing[v]}
        new == {u \in Users : for(u) # {}} \ (service0.queued \cup service0.inFlight)
    IN [queued |-> service0.queued \cup new, inFlight |-> service0.inFlight,
        waiters |-> [u \in Users |-> service0.waiters[u] \cup for(u)],
        scheduled |-> service0.scheduled \/ new # {}, pictures |-> service0.pictures]

(* Views are laid out: each shows those of laid[v] that are known, with their *)
(* pictures, and asks for the others.                                         *)
Show(c, laid) ==
    LET missing == [v \in DOMAIN laid |-> {u \in laid[v] : c.users[u] = 0}]
        pictured == ensureAvatar(c, UNION {laid[v] \ missing[v] : v \in DOMAIN laid})
    IN [users |-> c.users, avatar |-> c.avatar, lapses |-> pictured.lapses,
        service |-> ensureUser(pictured.service, missing),
        views |-> [shown |-> [v \in Views |-> IF v \in DOMAIN laid THEN laid[v] ELSE c.views.shown[v]],
                   left |-> [v \in Views |-> IF v \in DOMAIN laid THEN Cardinality(missing[v])
                                              ELSE c.views.left[v]]]]

(* A view is told with the last of its answers,                               *)
Told(c, waiting) == {v \in waiting : c.views.left[v] = 1}

(* and is laid out again, or shows what came.                                 *)
Relaid(c, told) == [v \in told |-> IF v \in Refreshing THEN c.views.shown[v]
                                    ELSE {w \in c.views.shown[v] : c.users[w] # 0}]

finishProfile(c, u) ==
    LET waiting == c.service.waiters[u]
        taken == [c EXCEPT
            !.service = [c.service EXCEPT !.inFlight = @ \ {u}, !.waiters[u] = {}],
            !.views = [c.views EXCEPT
                !.left = [v \in Views |-> IF v \in waiting THEN @[v] - 1 ELSE @[v]]]]
    IN Show(taken, Relaid(c, Told(c, waiting)))

(* A version other than the one a wanted picture is on its way for leaves the *)
(* picture to nobody.                                                         *)
Overtaken(c, us, version) ==
    [c EXCEPT !.lapses = [c.lapses EXCEPT !.overtaken = @ \cup
        {u \in us : u \in c.lapses.wanted /\ c.avatar[u] = 0 /\ c.users[u] # version[u]}]]

Renewed(c, us, version) ==
    [Overtaken(c, us, version) EXCEPT
        !.users = [u \in Users |-> IF u \in us THEN version[u] ELSE c.users[u]]]

(* mutant: a refreshed profile leaves its picture alone.                      *)
resolveNoPicture(c, us) == c

resolveReferences(c, us) == ensureAvatar(c, {u \in us : c.avatar[u] # 0})

addUser(c, us, version) == resolveReferences(Renewed(c, us, version), us)

----------------------------------------------------------------------------
(* Asking.                                                                    *)

Open ==
    \E v \in Views, shown \in Layouts :
        /\ views.left[v] = 0 /\ views.shown[v] = {}
        /\ Becomes(Show(client, [w \in {v} |-> shown]))
        /\ UNCHANGED <<server, stream, since, requests, budget>>

Unserved == <<>>
Request(kind, batch) == [kind |-> kind, batch |-> batch, rest |-> {}, since |-> 0,
                         served |-> FALSE, reply |-> Unserved]

FirstBatch(pending) == {b \in SUBSET pending : Cardinality(b) = IF Cardinality(pending) < BatchSize
                                                                  THEN Cardinality(pending) ELSE BatchSize}

(* The timer of scheduleFlush.                                                *)
flushProfiles ==
    /\ service.scheduled
    /\ IF service.queued = {}
       THEN /\ service' = [service EXCEPT !.scheduled = FALSE]
            /\ UNCHANGED requests
       ELSE \E batch \in FirstBatch(service.queued) :
            /\ service' = [service EXCEPT !.scheduled = FALSE, !.queued = @ \ batch,
                                          !.inFlight = @ \cup batch]
            /\ requests' = requests \cup {Request("profiles", batch)}
    /\ UNCHANGED <<server, stream, users, avatar, views, since, lapses, budget>>

searchUsers ==
    /\ budget.searches > 0
    /\ budget' = [budget EXCEPT !.searches = @ - 1]
    /\ \E u \in Sought : requests' = requests \cup {Request("search", {u})}
    /\ UNCHANGED <<server, stream, users, avatar, service, views, since, lapses>>

----------------------------------------------------------------------------
(* The server.                                                                *)

ServeProfiles ==
    \E r \in requests :
        /\ ~r.served
        /\ LET found == {u \in r.batch \ Gone : server.changed[u] >= r.since}
           IN requests' = (requests \ {r}) \cup
                {[r EXCEPT !.served = TRUE, !.reply = [u \in found |-> server.version[u]]]}
        /\ UNCHANGED <<server, stream, users, avatar, service, views, since, lapses, budget>>

Change ==
    \E u \in Users \ Gone :
        /\ budget.changes > 0
        /\ budget' = [budget EXCEPT !.changes = @ - 1]
        /\ server' = [version |-> [server.version EXCEPT ![u] = @ + 1],
                      changed |-> [server.changed EXCEPT ![u] = stream.outages]]
        /\ stream' = [stream EXCEPT !.events = Append(@, [user |-> u, version |-> server'.version[u]])]
        /\ UNCHANGED <<users, avatar, service, views, since, requests, lapses>>

----------------------------------------------------------------------------
(* Answers. The users returned come in the order of the document, and then    *)
(* those of the batch that were not; a failed request returns nobody.         *)

Take(c, r, us) ==
    LET late(u) == IF c.users[u] = 0 THEN ~\E i \in DOMAIN stream.events : stream.events[i].user = u
                   ELSE r.reply[u] < c.users[u]
        marked == {u \in us : late(u) /\ r.reply[u] < server.version[u]}
    IN addUser([c EXCEPT !.lapses.late = @ \cup marked], us, r.reply)

(* mutant: the queue waits for the next call of ensureUser.                   *)
RescheduleNever(c) == c

(* What is left in the queue is asked for after the answer.                   *)
Reschedule(c) == [c EXCEPT !.service.scheduled = @ \/ c.service.queued # {}]

(* The users in the order of their answers.                                   *)
Finish(r, returned, order) ==
    LET after[k \in 0..Len(order)] ==
            IF k = 0 THEN client
            ELSE finishProfile(IF order[k] \in returned THEN Take(after[k - 1], r, {order[k]})
                               ELSE after[k - 1], order[k])
    IN after[Len(order)]

ProfilesAnswer(r, returned) ==
    \E first \in SetToSeqs(returned), last \in SetToSeqs(r.batch \ returned) :
        Becomes(Reschedule(Finish(r, returned, first \o last)))

(* Also the answer of a search. A failed refresh is not asked for again.      *)
KnownAnswer(r, returned, failed) ==
    LET unrefreshed == IF failed /\ r.kind = "refresh" THEN r.batch ELSE {}
        learned == Take(client, r, returned)
    IN Becomes([learned EXCEPT !.lapses.unrefreshed = @ \cup unrefreshed])

NextBatch(r) ==
    IF r.rest = {} THEN {{}}
    ELSE {{[Request("refresh", b) EXCEPT !.rest = r.rest \ b, !.since = r.since]} : b \in FirstBatch(r.rest)}

Answered ==
    \E r \in requests, failed \in BOOLEAN :
        /\ IF failed THEN budget.failures > 0 ELSE r.served
        /\ budget' = [budget EXCEPT !.failures = IF failed THEN @ - 1 ELSE @]
        /\ LET returned == IF failed THEN {} ELSE DOMAIN r.reply
           IN IF r.kind = "profiles" THEN ProfilesAnswer(r, returned)
              ELSE KnownAnswer(r, returned, failed)
        /\ \E more \in NextBatch(r) : requests' = (requests \ {r}) \cup more
        /\ UNCHANGED <<server, stream, since>>

(* A picture that cannot be had or read leaves what was there.                *)
PictureAnswer ==
    \E key \in service.pictures, failed \in BOOLEAN :
        LET u == key[1]  version == key[2]  current == users[u] = version
        IN /\ failed => budget.failures > 0
           /\ budget' = [budget EXCEPT !.failures = IF failed THEN @ - 1 ELSE @]
           /\ service' = [service EXCEPT !.pictures = @ \ {key}]
           /\ avatar' = [avatar EXCEPT ![u] = IF current /\ ~failed THEN version ELSE @]
           /\ lapses' = [lapses EXCEPT !.denied = IF failed THEN @ \cup {key} ELSE @]
           /\ UNCHANGED <<server, stream, users, views, since, requests>>

----------------------------------------------------------------------------
(* The stream.                                                                *)

Updated(c, event) ==
    LET u == event.user
        seen == [c EXCEPT !.lapses = [c.lapses EXCEPT !.late = @ \ {u}, !.unrefreshed = @ \ {u}]]
        known == Renewed(seen, {u}, [w \in {u} |-> event.version])
    IN IF c.users[u] # 0 /\ c.avatar[u] # 0 /\ c.users[u] # event.version
       THEN ensureAvatar(known, {u}) ELSE known

UserUpdatedEvent ==
    /\ stream.up /\ stream.events # <<>>
    /\ stream' = [stream EXCEPT !.events = Tail(@)]
    /\ Becomes(Updated(client, Head(stream.events)))
    /\ UNCHANGED <<server, since, requests, budget>>

(* The window a refresh asks for reaches back far enough to hold the changes  *)
(* whose events were on their way.                                            *)
onWebSocketDisconnect ==
    /\ stream.up /\ stream.outages < MaxOutages
    /\ stream' = [stream EXCEPT !.up = FALSE, !.outages = @ + 1]
    /\ server' = [server EXCEPT !.changed = [u \in Users |->
            IF \E i \in DOMAIN stream.events : stream.events[i].user = u
            THEN stream.outages + 1 ELSE @[u]]]
    /\ since' = IF since = 0 THEN stream.outages + 1 ELSE since
    /\ UNCHANGED <<users, avatar, service, views, requests, lapses, budget>>

(* The stream resumes, or begins anew without the events it missed.           *)
onWebSocketConnect ==
    /\ ~stream.up
    /\ \E events \in {stream.events, <<>>} : stream' = [stream EXCEPT !.up = TRUE, !.events = events]
    /\ since' = 0
    /\ \E batch \in FirstBatch({u \in Users : Known(u)}) :
        requests' = requests \cup
            {[Request("refresh", batch) EXCEPT !.rest = {u \in Users : Known(u)} \ batch, !.since = since]}
    /\ UNCHANGED <<server, users, avatar, service, views, lapses, budget>>

ProfilesNext ==
    \/ Open \/ flushProfiles \/ searchUsers
    \/ ServeProfiles \/ Change
    \/ Answered \/ PictureAnswer
    \/ UserUpdatedEvent \/ onWebSocketDisconnect \/ onWebSocketConnect

ProfilesSpec == ProfilesInit /\ [][ProfilesNext]_profilesVars

----------------------------------------------------------------------------
ProfilesTypeOK ==
    /\ users \in [Users -> Nat] /\ avatar \in [Users -> Nat]
    /\ DOMAIN service.waiters = Users
    /\ service.pictures \subseteq Users \X (Nat \ {0})
    /\ views.left \in [Views -> 0..Cardinality(Users)]
    /\ since \in 0..stream.outages

(* Every view is told: each id it waits for is in the queue or in exactly one *)
(* request, never in both, a queue that is not empty has its timer or a       *)
(* request whose answer starts it again, and a view counts down as many       *)
(* answers as the service owes it. Batches fill up, fail, and their answers   *)
(* run views that ask again from within (ensureUser, flushProfiles and        *)
(* finishProfile).                                                            *)
ViewsServed ==
    LET asking == {r \in requests : r.kind = "profiles"}
    IN /\ \A u \in Users : service.waiters[u] # {} => u \in service.queued \cup service.inFlight
       /\ service.queued \cap service.inFlight = {}
       /\ \A u \in Users : Cardinality({r \in asking : u \in r.batch})
                             = IF u \in service.inFlight THEN 1 ELSE 0
       /\ service.queued # {} => service.scheduled \/ asking # {}
       /\ \A v \in Views : views.left[v] = Cardinality({u \in Users : v \in service.waiters[u]})

Quiet == stream.up /\ stream.events = <<>> /\ requests = {} /\ service.pictures = {}

(* When nothing is on its way, the profile of a known user is the server's,   *)
(* through outages that lose events, and the picture a view asked for is that *)
(* of the profile. The exceptions are what the code gives up: an answer that  *)
(* was overtaken by an event, a refresh that failed, a picture that failed,   *)
(* and a first picture whose version changed on its way.                      *)
ProfilesSettle ==
    Quiet => \A u \in Users : Known(u) =>
        /\ u \in lapses.late \cup lapses.unrefreshed \/ users[u] = server.version[u]
        /\ \/ u \notin lapses.wanted \/ avatar[u] = users[u]
           \/ <<u, users[u]>> \in lapses.denied \/ u \in lapses.overtaken
=============================================================================
