-------------------------- MODULE RealtimeChannels --------------------------
(***************************************************************************)
(* The realtime service: the channels it keeps in memory (ChannelService)  *)
(* and what it asks of Centrifugo about them, by their ids: messages       *)
(* (MessageService), subscriptions and who is present (PresenceService).   *)
(* Centrifugo is external: it keeps the history and the clients of an id   *)
(* whether or not this service still knows a channel with it.              *)
(*                                                                         *)
(* A call checks the map of channels and then awaits Centrifugo.           *)
(***************************************************************************)
EXTENDS Naturals, Sequences, SequencesExt, FiniteSets

CONSTANTS Channels,   \* ids: type, tenant and name (but of PRIVATE channels)
          Users, Callers,
          PageSize,   \* of listChannels when nobody asks for another
          MaxCalls    \* bound on calls that write

ChannelAssumption ==
  /\ PageSize \in Nat \ {0} /\ MaxCalls \in Nat
  /\ IsFiniteSet(Channels) /\ IsFiniteSet(Users) /\ "system" \notin Users

VARIABLES
  channels,   \* the map of channels, in its order of insertion
  settings,   \* historyEnabled and presenceEnabled
  born,       \* the call that made the channel object of an id
  history,    \* Centrifugo: the channels (by birth) whose messages an id holds
  present,    \* Centrifugo: the users on an id
  calls,      \* calls that await Centrifugo
  walk,       \* getOnlineUsers: channels to visit, users found on them, and "due"
  made,       \* calls made
  clean       \* history: ids whose calls never overlapped, failed, met a restart or
              \* created over a channel

vars == <<channels, settings, born, history, present, calls, walk, made, clean>>
map        == <<channels, settings, born>>
centrifugo == <<history, present>>

Idle == [op |-> "idle"]
NoWalk == [left |-> <<>>, found |-> {}, due |-> {}]
Live == ToSet(channels)
Busy(x) == \E c \in Callers : calls[c] # Idle /\ x \in DOMAIN calls[c].on

TypeOK ==
  /\ channels \in Seq(Channels)
  /\ settings \in [Channels -> [history: BOOLEAN, presence: BOOLEAN]]
  /\ born \in [Channels -> 0..MaxCalls]
  /\ history \in [Channels -> SUBSET (1..MaxCalls)]
  /\ present \in [Channels -> SUBSET Users]
  /\ \A c \in Callers : calls[c] # Idle =>
       /\ calls[c].op \in {"publish", "delete", "removeHistory", "subscribe"}
       /\ DOMAIN calls[c].on \subseteq Channels
       /\ \A x \in DOMAIN calls[c].on : calls[c].on[x] \in 1..MaxCalls
       /\ calls[c].user \in Users \cup {"system"}
  /\ walk.left \in Seq([id: Channels, born: 1..MaxCalls, presence: BOOLEAN])
  /\ walk.found \subseteq Users \X Channels
  /\ walk.due \subseteq Users \X Channels
  /\ made \in 0..MaxCalls
  /\ clean \subseteq Channels

Defaults == [history |-> TRUE, presence |-> TRUE]

Init ==
  /\ channels = <<>>
  /\ settings = [x \in Channels |-> Defaults]
  /\ born = [x \in Channels |-> 0]
  /\ history = [x \in Channels |-> {}]
  /\ present = [x \in Channels |-> {}]
  /\ calls = [c \in Callers |-> Idle]
  /\ walk = NoWalk
  /\ made = 0
  /\ clean = Channels

\* checkChannelAccess: whoever asks, the channel has to exist.
CheckChannelAccess(S) == S \subseteq Live
\* A call that has found the channels of S begins to wait for Centrifugo.
Begin(c, op, S, u) ==
  /\ calls[c] = Idle /\ CheckChannelAccess(S) /\ S # {}
  /\ made < MaxCalls /\ made' = made + 1
  /\ calls' = [calls EXCEPT ![c] = [op |-> op, on |-> [x \in S |-> born[x]], user |-> u]]
  /\ clean' = clean \ {x \in S : Busy(x)}

Await(c, op) == calls[c] # Idle /\ calls[c].op = op
Return(c)    == calls' = [calls EXCEPT ![c] = Idle]

-----------------------------------------------------------------------------
(* CentrifugoService: one request each.                                    *)

PostMessages(on) ==
  history' = [x \in Channels |-> IF x \in DOMAIN on THEN history[x] \cup {on[x]} ELSE history[x]]
HistoryRemove(x)    == history' = [history EXCEPT ![x] = {}]
PostSubscribe(x, u) == present' = [present EXCEPT ![x] = @ \cup {u}]
PostUnsubscribe(x, u) == present' = [present EXCEPT ![x] = @ \ {u}]
PostDisconnect(u)   == present' = [x \in Channels |-> present[x] \ {u}]
Presence(x)         == {<<u, x>> : u \in present[x]}
History(x)          == history[x]

-----------------------------------------------------------------------------
(* ChannelService.                                                         *)

\* An existing channel is written over by another object, in its place.
CreateChannel(x, s) ==
  /\ made < MaxCalls /\ made' = made + 1
  /\ channels' = IF x \in Live THEN channels ELSE Append(channels, x)
  /\ settings' = [settings EXCEPT ![x] = s]
  /\ born' = [born EXCEPT ![x] = made + 1]
  /\ clean' = IF x \in Live \/ Busy(x) THEN clean \ {x} ELSE clean
  /\ UNCHANGED <<centrifugo, calls, walk>>

\* Written into the object, which a walk may hold as well.
UpdateChannelSettings(x, s) ==
  /\ x \in Live /\ s # settings[x]
  /\ settings' = [settings EXCEPT ![x] = s]
  /\ clean' = IF s.history THEN clean ELSE clean \ {x}
  /\ walk' = [walk EXCEPT
       !.left = [i \in DOMAIN @ |-> IF @[i].id = x /\ @[i].born = born[x]
                                   THEN [@[i] EXCEPT !.presence = s.presence] ELSE @[i]],
       !.due = IF s.presence THEN @ ELSE {p \in @ : p[2] # x}]
  /\ UNCHANGED <<channels, born, centrifugo, calls, made>>

\* What an id had does not matter once its channel is gone.
Forget(x) ==
  /\ channels' = RemoveFirst(channels, x)
  /\ settings' = [settings EXCEPT ![x] = Defaults] /\ born' = [born EXCEPT ![x] = 0]

(* Mutant: the history is left to expire.                                  *)
DeleteOnly(c, x) ==
  /\ made < MaxCalls /\ made' = made + 1 /\ calls[c] = Idle /\ x \in Live
  /\ Forget(x)
  /\ UNCHANGED <<centrifugo, calls, clean, walk>>

\* The history goes first, if it is enabled now; then the channel.
DeleteChannel(c, x) ==
  /\ \/ /\ settings[x].history /\ Begin(c, "delete", {x}, "system")
        /\ UNCHANGED <<map, history>>
     \/ /\ Await(c, "delete") /\ DOMAIN calls[c].on = {x}
        /\ HistoryRemove(x) /\ Forget(x) /\ Return(c) /\ UNCHANGED <<made, clean>>
     \/ /\ x \in Live /\ ~settings[x].history /\ made < MaxCalls /\ made' = made + 1
        /\ Forget(x) /\ clean' = clean \ {x} /\ UNCHANGED <<history, calls>>
  /\ UNCHANGED <<present, walk>>

-----------------------------------------------------------------------------
(* MessageService.  Who publishes makes no difference to the channels.     *)

Publish(c, x) == Begin(c, "publish", {x}, "system") /\ UNCHANGED <<map, centrifugo, walk>>
\* Every channel is checked before all are posted at once.
PublishBatch(c, S) == Begin(c, "publish", S, "system") /\ UNCHANGED <<map, centrifugo, walk>>
PublishLands(c) ==
  /\ Await(c, "publish") /\ PostMessages(calls[c].on)
  /\ Return(c) /\ UNCHANGED <<map, present, walk, made, clean>>

\* The user's channel is created and then published to; when it is there
\* already, this is Publish.
SendUserNotification(c, x) ==
  /\ x \notin Live /\ calls[c] = Idle /\ made < MaxCalls /\ made' = made + 1
  /\ channels' = Append(channels, x)
  /\ settings' = [settings EXCEPT ![x] = Defaults]
  /\ born' = [born EXCEPT ![x] = made + 1]
  /\ calls' = [calls EXCEPT ![c] = [op |-> "publish", on |-> [y \in {x} |-> made + 1],
                                   user |-> "system"]]
  /\ clean' = IF Busy(x) THEN clean \ {x} ELSE clean
  /\ UNCHANGED <<centrifugo, walk>>

RemoveHistory(c, x) ==
  /\ \/ Begin(c, "removeHistory", {x}, "system") /\ UNCHANGED history
     \/ /\ Await(c, "removeHistory") /\ DOMAIN calls[c].on = {x}
        /\ HistoryRemove(x) /\ Return(c) /\ UNCHANGED <<made, clean>>
  /\ UNCHANGED <<map, present, walk>>

\* getHistory; the range and the limit that a client asks for are left out.
GetHistory(x) == IF settings[x].history THEN History(x) ELSE {}

-----------------------------------------------------------------------------
(* RealtimeController and the clients.                                     *)

Subscribe(c, x, u) ==
  /\ \/ Begin(c, "subscribe", {x}, u) /\ UNCHANGED present
     \/ /\ Await(c, "subscribe") /\ DOMAIN calls[c].on = {x} /\ calls[c].user = u
        /\ PostSubscribe(x, u) /\ Return(c) /\ UNCHANGED <<made, clean>>
  /\ UNCHANGED <<map, history, walk>>

\* unsubscribe takes a user from one channel, disconnect from all of them.
Leave(u, S) ==
  /\ \E x \in S : u \in present[x]
  /\ walk' = [walk EXCEPT !.due = {p \in @ : p[1] # u \/ p[2] \notin S}]
  /\ UNCHANGED <<map, history, calls, made, clean>>
Unsubscribe(u, x) == Leave(u, {x}) /\ PostUnsubscribe(x, u)
Disconnect(u)     == Leave(u, Channels) /\ PostDisconnect(u)

-----------------------------------------------------------------------------
(* PresenceService: getOnlineUsers, getUserChannels and                    *)
(* getActiveUsersByChannelType walk over the first page of channels, with  *)
(* one request for each; a request that fails is skipped.                  *)

\* listChannels without a page token: the objects of the first page.
ListChannels ==
  [i \in 1..(IF Len(channels) < PageSize THEN Len(channels) ELSE PageSize) |->
     [id |-> channels[i], born |-> born[channels[i]], presence |-> settings[channels[i]].presence]]

GetOnlineUsers ==
  /\ walk.left = <<>> /\ channels # <<>>
  /\ walk' = [left |-> ListChannels, found |-> {},
              due |-> {p \in Users \X Channels : p[1] \in present[p[2]] /\
                         \E o \in ToSet(ListChannels) : o.id = p[2] /\ o.presence}]
  /\ UNCHANGED <<map, centrifugo, calls, made, clean>>

(* Mutant: a channel that is gone by now is passed over.                   *)
VisitLive ==
  /\ walk.left # <<>>
  /\ LET x == Head(walk.left).id IN
     walk' = [walk EXCEPT !.left = Tail(@),
                          !.found = IF x \in Live THEN @ \cup Presence(x) ELSE @]
  /\ UNCHANGED <<map, centrifugo, calls, made, clean>>

Visit ==
  /\ walk.left # <<>>
  /\ LET x == Head(walk.left) IN
     \/ walk' = [walk EXCEPT !.left = Tail(@),
                             !.found = IF x.presence THEN @ \cup Presence(x.id) ELSE @]
     \/ walk' = [walk EXCEPT !.left = Tail(@), !.due = {p \in @ : p[2] # x.id}]
  /\ UNCHANGED <<map, centrifugo, calls, made, clean>>

\* What the walks answer.
IsUserOnline(u)    == u \in {p[1] : p \in walk.found}
GetUserChannels(u) == {p[2] : p \in {q \in walk.found : q[1] = u}}
GetActiveUsersByChannelType(S) == Cardinality({p \in walk.found : p[2] \in S})

\* A request to Centrifugo fails, before or after it took effect there.
RequestFails(c) ==
  /\ calls[c] # Idle
  /\ clean' = clean \ DOMAIN calls[c].on
  /\ Return(c) /\ UNCHANGED <<map, centrifugo, walk, made>>

\* The service restarts with no channel; Centrifugo keeps what it has.
Restart ==
  /\ channels' = <<>> /\ calls' = [c \in Callers |-> Idle] /\ walk' = NoWalk
  /\ settings' = [x \in Channels |-> Defaults] /\ born' = [x \in Channels |-> 0]
  /\ clean' = {}
  /\ UNCHANGED <<centrifugo, made>>

Next ==
  \/ \E x \in Channels, s \in [history: BOOLEAN, presence: BOOLEAN] :
       CreateChannel(x, s) \/ UpdateChannelSettings(x, s)
  \/ \E c \in Callers :
       \/ \E S \in {T \in SUBSET Channels : Cardinality(T) > 1} : PublishBatch(c, S)
       \/ \E x \in Channels :
            \/ DeleteChannel(c, x) \/ RemoveHistory(c, x) \/ SendUserNotification(c, x)
            \/ Publish(c, x) \/ \E u \in Users : Subscribe(c, x, u)
       \/ PublishLands(c) \/ RequestFails(c)
  \/ \E u \in Users : Disconnect(u) \/ \E x \in Channels : Unsubscribe(u, x)
  \/ GetOnlineUsers \/ Visit \/ Restart

Spec == Init /\ [][Next]_vars

-----------------------------------------------------------------------------
(* The history of a channel holds only what was published to it, not what  *)
(* an earlier channel with its id was sent: deleteChannel removes it.  For *)
(* channels whose calls did not overlap or fail, that were not created     *)
(* over and whose history was never turned off: a publish that lands after *)
(* the delete, or a restart, leaves its messages to the next channel of    *)
(* that id.                                                                *)
HistoryIsOwn ==
  \A x \in Live \cap clean : ~Busy(x) => GetHistory(x) \subseteq {born[x]}

(* A user that was on a channel of the page from beginning to end is       *)
(* online, has that channel among its own and is counted under its type,   *)
(* whoever joins, leaves, and deletes or creates channels meanwhile; but   *)
(* for a channel whose request failed or whose presence was off.           *)
OnlineIsComplete ==
  walk.left = <<>> =>
    /\ \A p \in walk.due : IsUserOnline(p[1]) /\ p[2] \in GetUserChannels(p[1])
    /\ \A S \in SUBSET Channels :
         Cardinality({p \in walk.due : p[2] \in S}) <= GetActiveUsersByChannelType(S)
=============================================================================
