----------------------------- MODULE ChannelReads -----------------------------
(***************************************************************************)
(* Whether one channel is shown as unread: the entry ChannelActivityTracker *)
(* keeps for it, and the five roads by which SidebarService feeds it: the   *)
(* membership pages, the list of channels, posted events, viewed events and *)
(* the answers to "mark as unread".  With collapsed threads only root posts *)
(* count for the channel; whether threads are collapsed is known once the   *)
(* configuration and the preferences of the user have arrived.              *)
(*                                                                          *)
(* Posts are by other users.  The server's read mark is the number of posts *)
(* read; it counts messages and mentions behind the mark.  Times, the order *)
(* of channels and the categories of the sidebar are left out.              *)
(***************************************************************************)
EXTENDS Naturals, FiniteSets, SequencesExt

CONSTANTS
    MaxPosts,       \* bound: posts of the channel
    MaxViews,       \* bound: times the channel is viewed, here or on another client
    MaxMarks,       \* bound: "mark as unread"
    MaxFaults,      \* bound: requests that fail
    Configs,        \* values of CollapsedThreads the server may have
    Preferences     \* values of the user's own preference, "none" if there is none

ASSUME ChannelReadsAssumption ==
    /\ {MaxPosts, MaxViews, MaxMarks, MaxFaults} \subseteq Nat
    /\ Configs \subseteq {"always_on", "default_on", "default_off", "disabled"}
    /\ Preferences \subseteq {"none", "on", "off"}

VARIABLES
    \* server and network
    posts, serverRead, config, preference,
    stream,         \* events on their way, in order
    calls,          \* view and unread calls under way
    members, channels, settings, \* what has been asked for at the start
    \* client
    channel,        \* BackendChannel: the totals of the last channel list
    entry,          \* ChannelActivityTracker::Entry
    collapsed,      \* what is known of CollapsedThreads, and collapsedThreadsEnabled
    \* budgets and history
    views, marks, faults,
    missed,         \* an event came before the channel was known
    crossed,        \* a view or the configuration was under way while the user marked
                    \* a post unread
    rootViewed      \* a view consumed the root posts only

server == <<posts, serverRead, config, preference>>
loads == <<members, channels, settings>>
client == <<channel, entry, collapsed>>
budgets == <<views, marks, faults>>
history == <<missed, crossed, rootViewed>>
vars == <<server, stream, calls, loads, client, budgets, history>>

Counts == 0 .. MaxPosts
Post == [reply : BOOLEAN, mention : BOOLEAN]
Totals == [all : Counts, root : Counts]
Membership == [all : Counts, root : Counts, mentions : Counts, rootMentions : Counts]
NoMembership == [all |-> 0, root |-> 0, mentions |-> 0, rootMentions |-> 0]
Stages == {"sent", "answered", "failed", "done"}
Call == [id : Nat, kind : {"view", "unread"}, post : Counts, state : Stages, m : Membership]
Viewed == 0                 \* a viewed event; others are the number of a post

Entry == [tracked : BOOLEAN, muted : BOOLEAN, rootMode : BOOLEAN,
          readAll : Counts, readRoot : Counts, hasReadRoot : BOOLEAN,
          mentions : Counts, rootMentions : Counts, hasRootMentions : BOOLEAN,
          serverUnread : BOOLEAN, serverMentioned : BOOLEAN,
          runtimeUnread : BOOLEAN, runtimeReplyUnread : BOOLEAN,
          runtimeMentioned : BOOLEAN, runtimeReplyMentioned : BOOLEAN]
NoEntry == [tracked |-> FALSE, muted |-> FALSE, rootMode |-> FALSE,
            readAll |-> 0, readRoot |-> 0, hasReadRoot |-> FALSE,
            mentions |-> 0, rootMentions |-> 0, hasRootMentions |-> FALSE,
            serverUnread |-> FALSE, serverMentioned |-> FALSE,
            runtimeUnread |-> FALSE, runtimeReplyUnread |-> FALSE,
            runtimeMentioned |-> FALSE, runtimeReplyMentioned |-> FALSE]

TypeOK ==
    /\ posts \in Seq(Post) /\ Len(posts) <= MaxPosts /\ serverRead \in 0 .. Len(posts)
    /\ config \in Configs /\ preference \in Preferences
    /\ stream \in Seq(Counts) /\ \A k \in DOMAIN stream : stream[k] <= Len(posts)
    /\ calls \subseteq Call
    /\ members \in [stage : Stages, m : Membership]
    /\ channels \in [stage : Stages, t : Totals]
    /\ settings \in [{"config", "preferences"} -> Stages]
    /\ channel \in [known : BOOLEAN, all : Counts, root : Counts]
    /\ entry \in Entry
    /\ collapsed \in [config : Configs \cup {""}, preference : Preferences \cup {"none"},
                      enabled : BOOLEAN]
    /\ views \in 0 .. MaxViews /\ marks \in 0 .. MaxMarks /\ faults \in 0 .. MaxFaults
    /\ missed \in BOOLEAN /\ crossed \in BOOLEAN /\ rootViewed \in BOOLEAN

\* The main window has opened: everything has been asked for, nothing has arrived.
Init ==
    /\ posts \in {s \in BoundedSeq(Post, 1) : Len(s) <= MaxPosts} /\ serverRead \in 0 .. Len(posts)
    /\ config \in Configs /\ preference \in Preferences
    /\ stream = <<>> /\ calls = {}
    /\ members = [stage |-> "sent", m |-> NoMembership]
    /\ channels = [stage |-> "sent", t |-> [all |-> 0, root |-> 0]]
    /\ settings = [s \in {"config", "preferences"} |-> "sent"]
    /\ channel = [known |-> FALSE, all |-> 0, root |-> 0]
    /\ entry = NoEntry
    /\ collapsed = [config |-> "", preference |-> "none", enabled |-> FALSE]
    /\ views = 0 /\ marks = 0 /\ faults = 0
    /\ missed = FALSE /\ crossed = FALSE /\ rootViewed = FALSE

-------------------------------------------------------------------------------
(* ChannelActivityTracker                                                     *)

setMembershipOverwrite(e, m) ==                                         \* mutant
    [e EXCEPT !.tracked = TRUE, !.readAll = m.all, !.readRoot = m.root,
              !.hasReadRoot = TRUE, !.mentions = m.mentions,
              !.rootMentions = m.rootMentions, !.hasRootMentions = TRUE, !.muted = FALSE]

\* A page may have left the server before a view that is already known here.
setMembership(e, m) ==
    [e EXCEPT !.tracked = TRUE,
              !.readAll = Max({@, m.all}),
              !.readRoot = Max({@, m.root}), !.hasReadRoot = TRUE,
              !.mentions = m.mentions, !.rootMentions = m.rootMentions,
              !.hasRootMentions = TRUE, !.muted = FALSE]

synchronizeChannel(e, t, crt) ==
    LET rootMode == crt /\ e.hasReadRoot
    IN IF ~e.tracked THEN e
       ELSE [e EXCEPT !.rootMode = rootMode,
                      !.serverUnread = IF rootMode THEN t.root > e.readRoot
                                       ELSE t.all > e.readAll,
                      !.serverMentioned = IF rootMode /\ e.hasRootMentions
                                          THEN e.rootMentions > 0 ELSE e.mentions > 0]

recordPostShown(e, p) ==                                                \* mutant
    IF e.rootMode /\ p.reply THEN e
    ELSE [e EXCEPT !.tracked = TRUE,
                   !.runtimeReplyMentioned = @ \/ (p.mention /\ p.reply),
                   !.runtimeMentioned = @ \/ (p.mention /\ ~p.reply),
                   !.runtimeReplyUnread = @ \/ p.reply,
                   !.runtimeUnread = @ \/ ~p.reply]

\* Both domains are kept: which one counts is decided when the entry is read.
recordPost(e, p) ==
    [e EXCEPT !.tracked = TRUE,
              !.runtimeReplyMentioned = @ \/ (p.mention /\ p.reply),
              !.runtimeMentioned = @ \/ (p.mention /\ ~p.reply),
              !.runtimeReplyUnread = @ \/ p.reply,
              !.runtimeUnread = @ \/ ~p.reply]

\* With root counts a view consumes the root posts, else everything.
recordViewed(e, t) ==
    LET root == [e EXCEPT !.tracked = TRUE,
                          !.readRoot = Max({@, t.root}), !.hasReadRoot = TRUE,
                          !.rootMentions = 0, !.serverUnread = FALSE, !.runtimeUnread = FALSE,
                          !.serverMentioned = FALSE, !.runtimeMentioned = FALSE]
    IN IF e.rootMode THEN root
       ELSE [root EXCEPT !.readAll = Max({@, t.all}), !.mentions = 0,
                         !.runtimeReplyUnread = FALSE, !.runtimeReplyMentioned = FALSE]

markUnread(e, m) ==
    [e EXCEPT !.tracked = TRUE, !.readAll = m.all,
              !.readRoot = m.root, !.hasReadRoot = TRUE,
              !.mentions = m.mentions, !.rootMentions = m.rootMentions,
              !.hasRootMentions = TRUE, !.serverUnread = TRUE,
              !.runtimeUnread = FALSE, !.runtimeReplyUnread = FALSE,
              !.serverMentioned = IF e.rootMode THEN m.rootMentions > 0
                                  ELSE m.mentions > 0,
              !.runtimeMentioned = FALSE, !.runtimeReplyMentioned = FALSE]

notMentioned(e) ==
    [e EXCEPT !.mentions = 0, !.rootMentions = 0, !.serverMentioned = FALSE,
              !.runtimeMentioned = FALSE, !.runtimeReplyMentioned = FALSE]

hasMention(e) ==
    e.serverMentioned \/ e.runtimeMentioned \/ (~e.rootMode /\ e.runtimeReplyMentioned)
unreadActivity(e) ==
    e.serverUnread \/ e.runtimeUnread \/ (~e.rootMode /\ e.runtimeReplyUnread)
isUnread(e) == e.tracked /\ (hasMention(e) \/ (~e.muted /\ unreadActivity(e)))

-------------------------------------------------------------------------------
(* The server, other clients and the network                                  *)

RootsIn(n) == Cardinality({i \in 1 .. n : ~posts[i].reply})
ServerTotals == [all |-> Len(posts), root |-> RootsIn(Len(posts))]

\* The membership of a user who has read n posts.
MembershipAt(n) ==
    LET mentions == {i \in DOMAIN posts : i > n /\ posts[i].mention}
    IN [all |-> n, root |-> RootsIn(n), mentions |-> Cardinality(mentions),
        rootMentions |-> Cardinality({i \in mentions : ~posts[i].reply})]

fault(happens) ==
    IF happens THEN faults < MaxFaults /\ faults' = faults + 1 ELSE UNCHANGED faults

CreatePost(p) ==
    /\ Len(posts) < MaxPosts
    /\ posts' = Append(posts, p)
    /\ stream' = Append(stream, Len(posts) + 1)
    /\ UNCHANGED <<serverRead, config, preference, calls, loads, client, budgets, history>>

ViewElsewhere ==
    /\ views < MaxViews /\ views' = views + 1
    /\ serverRead' = Len(posts)
    /\ stream' = Append(stream, Viewed)
    /\ crossed' = (crossed \/ \E c \in calls : c.kind = "unread")
    /\ UNCHANGED <<posts, config, preference, calls, loads, client, marks, faults,
                   missed, rootViewed>>

AnswerMembers(failed) ==
    /\ members.stage = "sent" /\ fault(failed)
    /\ members' = IF failed THEN [members EXCEPT !.stage = "failed"]
                  ELSE [stage |-> "answered", m |-> MembershipAt(serverRead)]
    /\ UNCHANGED <<server, stream, calls, channels, settings, client, views, marks, history>>

AnswerChannels ==
    /\ channels.stage = "sent"
    /\ channels' = [stage |-> "answered", t |-> ServerTotals]
    /\ UNCHANGED <<server, stream, calls, members, settings, client, budgets, history>>

ServeCall(c, failed) ==
    /\ c.state = "sent" /\ fault(failed)
    /\ calls' = (calls \ {c}) \cup
           (IF c.kind = "view" THEN {}
            ELSE {[c EXCEPT !.state = IF failed THEN "failed" ELSE "answered",
                            !.m = IF failed THEN NoMembership ELSE MembershipAt(c.post - 1)]})
    /\ serverRead' = IF failed THEN serverRead
                     ELSE IF c.kind = "view" THEN Len(posts) ELSE c.post - 1
    /\ stream' = IF c.kind = "view" /\ ~failed THEN Append(stream, Viewed) ELSE stream
    /\ UNCHANGED <<posts, config, preference, loads, client, views, marks, history>>

-------------------------------------------------------------------------------
(* SidebarService and what feeds it                                           *)

synchronizeChannelActivity(e, t, known, crt) ==
    IF known THEN synchronizeChannel(e, t, crt) ELSE e

\* The last page of memberships; a failed page ends the load like an empty one.
retrieveChannelMemberships ==
    /\ members.stage \in {"answered", "failed"}
    /\ members' = [members EXCEPT !.stage = "done", !.m = NoMembership]
    /\ entry' = synchronizeChannelActivity(
           IF members.stage = "answered" THEN setMembership(entry, members.m) ELSE entry,
           channel, channel.known, collapsed.enabled)
    /\ UNCHANGED <<server, stream, calls, channels, settings, channel, collapsed, budgets,
                   history>>

\* The channels of the last team arrive: onAllTeamChannelsPopulated.
retrieveOwnChannelMembershipsForTeam ==
    /\ channels.stage = "answered"
    /\ channels' = [channels EXCEPT !.stage = "done"]
    /\ channel' = [known |-> TRUE, all |-> channels.t.all, root |-> channels.t.root]
    /\ entry' = synchronizeChannelActivity(entry, channels.t, TRUE, collapsed.enabled)
    /\ UNCHANGED <<server, stream, calls, members, settings, collapsed, budgets, history>>

CollapsedMode(cfg, pref) ==
    CASE cfg = "always_on" -> TRUE
      [] cfg = "disabled" -> FALSE
      [] cfg \notin {"always_on", "disabled"} /\ pref # "none" -> pref = "on"
      [] OTHER -> cfg = "default_on"

updateCollapsedThreadsMode(cfg, pref) ==
    LET enabled == CollapsedMode(cfg, pref)
    IN /\ collapsed' = [config |-> cfg, preference |-> pref, enabled |-> enabled]
       /\ entry' = IF enabled = collapsed.enabled THEN entry
                   ELSE synchronizeChannelActivity(entry, channel, channel.known, enabled)

retrieveClientConfig ==
    /\ settings["config"] = "sent" /\ settings' = [settings EXCEPT !["config"] = "done"]
    /\ updateCollapsedThreadsMode(config, collapsed.preference)
    /\ UNCHANGED <<server, stream, calls, members, channels, channel, budgets, history>>

retrieveChannelPreferences ==
    /\ settings["preferences"] = "sent"
    /\ settings' = [settings EXCEPT !["preferences"] = "done"]
    /\ updateCollapsedThreadsMode(collapsed.config, preference)
    /\ UNCHANGED <<server, stream, calls, members, channels, channel, budgets, history>>

\* A posted event of a channel that is not known is dropped.
recordChannelPost ==
    /\ stream # <<>> /\ Head(stream) # Viewed
    /\ stream' = Tail(stream)
    /\ IF channel.known
       THEN entry' = recordPost(entry, posts[Head(stream)]) /\ UNCHANGED missed
       ELSE missed' = TRUE /\ UNCHANGED entry
    /\ UNCHANGED <<server, calls, loads, channel, collapsed, budgets, crossed, rootViewed>>

\* Views consume what the stored totals say, not what the server had when it was told.
view(e) == recordViewed(e, channel)
Consumed == rootViewed' = (rootViewed \/ entry.rootMode)

\* applyServerChannelViewed, then MainWindow's setChannelMentioned(false).
channelViewed ==
    /\ stream # <<>> /\ Head(stream) = Viewed
    /\ stream' = Tail(stream)
    /\ IF channel.known
       THEN entry' = notMentioned(view(entry)) /\ Consumed /\ UNCHANGED missed
       ELSE missed' = TRUE /\ UNCHANGED <<entry, rootViewed>>
    /\ UNCHANGED <<server, calls, loads, channel, collapsed, budgets, crossed>>

\* The sidebar lists a channel once memberships and preferences are there, and the user
\* opens it from the sidebar (SidebarService::retrieveCategories).
InSidebar == channel.known /\ members.stage = "done" /\ settings["preferences"] = "done"

\* The chat log shows the newest post.
acknowledgeChannelRead ==
    /\ views < MaxViews /\ views' = views + 1
    /\ InSidebar /\ (isUnread(entry) \/ hasMention(entry))
    /\ entry' = view(entry) /\ Consumed
    /\ calls' = calls \cup {[id |-> views + 1, kind |-> "view", post |-> 0,
                             state |-> "sent", m |-> NoMembership]}
    /\ crossed' = (crossed \/ \E c \in calls : c.kind = "unread")
    /\ UNCHANGED <<server, stream, loads, channel, collapsed, marks, faults, missed>>

\* A post the log of the channel shows.
markPostUnread(p) ==
    /\ marks < MaxMarks /\ marks' = marks + 1
    /\ InSidebar /\ (collapsed.enabled => ~posts[p].reply)
    /\ calls' = calls \cup {[id |-> MaxViews + marks + 1, kind |-> "unread", post |-> p,
                             state |-> "sent", m |-> NoMembership]}
    /\ crossed' = (\/ crossed \/ calls # {} \/ settings["config"] # "done"
                   \/ \E i \in DOMAIN stream : stream[i] = Viewed)
    /\ UNCHANGED <<server, stream, loads, client, views, faults, missed, rootViewed>>

unreadAnswered(c) ==
    /\ c.kind = "unread" /\ c.state # "sent"
    /\ calls' = calls \ {c}
    /\ entry' = IF c.state = "answered" THEN markUnread(entry, c.m) ELSE entry
    /\ UNCHANGED <<server, stream, loads, channel, collapsed, budgets, history>>

setChannelMuted ==
    /\ entry.tracked
    /\ entry' = [entry EXCEPT !.muted = ~@]
    /\ UNCHANGED <<server, stream, calls, loads, channel, collapsed, budgets, history>>

-------------------------------------------------------------------------------
Next ==
    \/ \E p \in Post : CreatePost(p)
    \/ ViewElsewhere
    \/ \E failed \in BOOLEAN : AnswerMembers(failed)
    \/ AnswerChannels
    \/ \E c \in calls, failed \in BOOLEAN : ServeCall(c, failed)
    \/ retrieveChannelMemberships \/ retrieveOwnChannelMembershipsForTeam
    \/ retrieveClientConfig \/ retrieveChannelPreferences
    \/ recordChannelPost \/ channelViewed \/ acknowledgeChannelRead
    \/ \E p \in DOMAIN posts : markPostUnread(p)
    \/ \E c \in calls : unreadAnswered(c)
    \/ setChannelMuted

Spec == Init /\ [][Next]_vars

-------------------------------------------------------------------------------
(* Properties                                                                 *)

\* Everything asked for has arrived.
Settled ==
    /\ stream = <<>> /\ calls = {} /\ faults = 0
    /\ \A s \in {members.stage, channels.stage, settings["config"],
                 settings["preferences"]} : s = "done"
CountsHere(p) == entry.rootMode => ~p.reply
ServerUnread == \E i \in DOMAIN posts : i > serverRead /\ CountsHere(posts[i])

\* Once everything asked for has arrived, a channel with posts behind the server's read
\* mark is shown as unread, whichever of list, membership, events and configuration came
\* first, and though replies announced while only roots counted may count in the end
\* (ChannelActivityTracker.cpp:84-102).  Two windows are left open by the code and
\* excepted: an event of a channel that is not known yet is dropped, and a mark set by the
\* user is lost to a view on its way or to a configuration that arrives later and compares
\* with the totals of the start.
UnreadShown ==
    Settled /\ ~missed /\ ~crossed /\ ~entry.muted /\ ServerUnread => isUnread(entry)

\* And a channel the server holds as read shows no unread activity: a membership page that
\* left before a view was applied does not bring it back (ChannelActivityTracker.cpp:28-33).
\* A view that consumed only root posts keeps its replies for the case that all count later.
ReadShown ==
    Settled /\ ~missed /\ ~crossed /\ entry.tracked /\ unreadActivity(entry) => ServerUnread \/ rootViewed
===============================================================================
