------------------------------ MODULE Channels -------------------------------
(***************************************************************************)
(* One Redis channel of a camera and who listens to it: the relay of boxes *)
(* to the sockets of a camera's room, or the viewers of its debug frames.  *)
(* Both share RedisPubSub, which counts listeners and keeps one SUBSCRIBE  *)
(* per channel.  Redis answers the commands of the connection in order;    *)
(* resubscribing after a reconnect is the client library's.                *)
(***************************************************************************)
EXTENDS Naturals, Sequences, FiniteSets

CONSTANTS
    RoomSockets,        \* sockets that name the camera's room
    Viewers,            \* requests for its debug frames
    Relays,             \* the relay's subscriptions to the channel
    MaxWire,            \* commands sent and not answered
    MaxChannelTrouble   \* commands that fail

ASSUME ChannelsAssumption == Relays \cap {"watch", "none"} = {}

VARIABLES
    channel,      \* which channel it is
    entry,        \* the channel's entry in RedisPubSub
    wire,         \* commands Redis has not answered yet
    subscribed,   \* whether Redis sends the channel's messages
    relay,        \* relay subscription -> where it is
    roomRelay,    \* the subscription of the room
    deaf,         \* the room's subscription failed: it stays silent until recreated
    member,       \* socket -> "out", "looking" (for the camera), or "in" the room
    watch,        \* the camera's watch: its viewers and its subscription
    viewer,       \* viewer -> "out", "looking", "joining", "in", or "gone" while joining
    channelTrouble

pubsubVars == <<entry, wire, subscribed>>
roomVars == <<relay, roomRelay, deaf, member>>
framesVars == <<watch, viewer>>
channelsVars == <<channel, pubsubVars, roomVars, framesVars, channelTrouble>>

NoEntry == [listeners |-> {}, promise |-> "none"]
NoWatch == [viewers |-> {}, on |-> "none"]
Waiting(promise) == IF promise = "ok" THEN "on" ELSE "waiting"

ChannelsInit ==
    /\ channel \in {"boxes", "debugframes"}
    /\ entry = NoEntry
    /\ wire = <<>>
    /\ subscribed = FALSE
    /\ relay = [r \in Relays |-> "free"]
    /\ roomRelay = "none"
    /\ deaf = FALSE
    /\ member = [s \in RoomSockets |-> "out"]
    /\ watch = NoWatch
    /\ viewer = [v \in Viewers |-> "out"]
    /\ channelTrouble = 0

-----------------------------------------------------------------------------
(* RedisPubSub *)

\* The first listener sends SUBSCRIBE; the others share its promise.
Subscribe(l) ==
    /\ Len(wire) < MaxWire
    /\ entry' = [listeners |-> entry.listeners \cup {l},
                 promise |-> IF entry.promise = "none" THEN "sent" ELSE entry.promise]
    /\ wire' = IF entry.promise = "none" THEN Append(wire, "SUBSCRIBE") ELSE wire
    /\ UNCHANGED subscribed

\* The entry outlives its last listener.
ReleaseKeepsEntry(ls) ==
    LET left == entry.listeners \ ls
    IN  /\ entry' = [entry EXCEPT !.listeners = left]
        /\ wire' = IF left = {} THEN Append(wire, "UNSUBSCRIBE") ELSE wire

\* The last listener takes the entry with it, before UNSUBSCRIBE is answered.
Release(ls) ==
    LET left == entry.listeners \ ls
    IN  /\ entry' = IF left = {} THEN NoEntry ELSE [entry EXCEPT !.listeners = left]
        /\ wire' = IF left = {} THEN Append(wire, "UNSUBSCRIBE") ELSE wire

Failing(fails) ==
    /\ fails => channelTrouble < MaxChannelTrouble
    /\ channelTrouble' = channelTrouble + (IF fails THEN 1 ELSE 0)

\* UNSUBSCRIBE is answered; a failure is only logged.
Unsubscribed(fails) ==
    /\ wire # <<>> /\ Head(wire) = "UNSUBSCRIBE"
    /\ Failing(fails)
    /\ wire' = Tail(wire)
    /\ subscribed' = (subscribed /\ fails)
    /\ UNCHANGED <<channel, entry, roomVars, framesVars>>

\* SUBSCRIBE fails: the entry goes and everyone who waits for it is told.
SubscribeFails ==
    /\ wire # <<>> /\ Head(wire) = "SUBSCRIBE"
    /\ Failing(TRUE)
    /\ wire' = Tail(wire)
    /\ entry' = NoEntry
    /\ relay' = [r \in Relays |-> "free"]
    /\ deaf' = (deaf \/ roomRelay # "none")
    /\ roomRelay' = "none"
    /\ watch' = NoWatch
    /\ viewer' = [v \in Viewers |-> IF v \in watch.viewers THEN "out" ELSE viewer[v]]
    /\ UNCHANGED <<channel, subscribed, member>>

\* SUBSCRIBE succeeds: the relay's subscription is on, or released when its
\* room went meanwhile; viewers are in, and those that left clean up.
Subscribed ==
    LET cancelled == {r \in Relays : relay[r] = "cancelled"}
        gone == {v \in Viewers : viewer[v] = "gone"}
        ends == cancelled \cup (IF watch # NoWatch /\ watch.viewers \subseteq gone
                                THEN {"watch"} ELSE {})
    IN  /\ wire # <<>> /\ Head(wire) = "SUBSCRIBE"
        /\ subscribed' = TRUE
        /\ IF entry.listeners \subseteq ends
           THEN entry' = NoEntry /\ wire' = Append(Tail(wire), "UNSUBSCRIBE")
           ELSE /\ entry' = [listeners |-> entry.listeners \ ends, promise |-> "ok"]
                /\ wire' = Tail(wire)
        /\ relay' = [r \in Relays |-> CASE relay[r] = "waiting" -> "on"
                                        [] relay[r] = "cancelled" -> "free"
                                        [] OTHER -> relay[r]]
        /\ watch' = IF watch.viewers \subseteq gone THEN NoWatch
                    ELSE [viewers |-> watch.viewers \ gone, on |-> "on"]
        /\ viewer' = [v \in Viewers |-> CASE viewer[v] = "joining" -> "in"
                                          [] viewer[v] = "gone" -> "out"
                                          [] OTHER -> viewer[v]]
        /\ UNCHANGED <<channel, roomRelay, deaf, member, channelTrouble>>

-----------------------------------------------------------------------------
(* The relay of boxes *)

\* The gateway looks the camera up before the socket joins.
SubscribeRoom(s) ==
    /\ channel = "boxes" /\ member[s] = "out"
    /\ member' = [member EXCEPT ![s] = "looking"]
    /\ UNCHANGED <<channel, pubsubVars, relay, roomRelay, deaf, framesVars, channelTrouble>>

\* The first socket creates the room.
OnCreateRoom(s) ==
    LET r == CHOOSE r \in Relays : relay[r] = "free"
    IN  /\ member[s] = "looking" /\ \A t \in RoomSockets : member[t] # "in"
        /\ \E free \in Relays : relay[free] = "free"
        /\ member' = [member EXCEPT ![s] = "in"]
        /\ Subscribe(r)
        /\ relay' = [relay EXCEPT ![r] = Waiting(entry.promise)]
        /\ roomRelay' = r
        /\ UNCHANGED <<channel, deaf, framesVars, channelTrouble>>

JoinRoom(s) ==
    /\ member[s] = "looking" /\ \E t \in RoomSockets : member[t] = "in"
    /\ member' = [member EXCEPT ![s] = "in"]
    /\ UNCHANGED <<channel, pubsubVars, relay, roomRelay, deaf, framesVars, channelTrouble>>

\* Unsubscribed, disconnected, or disconnected while the camera was looked up.
LeaveRoom(s) ==
    /\ member[s] = "looking" \/ (member[s] = "in" /\ \E t \in RoomSockets \ {s} : member[t] = "in")
    /\ member' = [member EXCEPT ![s] = "out"]
    /\ UNCHANGED <<channel, pubsubVars, relay, roomRelay, deaf, framesVars, channelTrouble>>

\* The last socket deletes the room: its subscription is released, or
\* cancelled while it waits.
OnDeleteRoom(s) ==
    /\ member[s] = "in" /\ \A t \in RoomSockets \ {s} : member[t] # "in"
    /\ member' = [member EXCEPT ![s] = "out"]
    /\ deaf' = FALSE
    /\ roomRelay' = "none"
    /\ IF roomRelay # "none" /\ relay[roomRelay] = "on"
       THEN /\ Release({roomRelay})
            /\ relay' = [relay EXCEPT ![roomRelay] = "free"]
       ELSE /\ relay' = [r \in Relays |-> IF r = roomRelay THEN "cancelled" ELSE relay[r]]
            /\ UNCHANGED <<entry, wire>>
    /\ UNCHANGED <<channel, subscribed, framesVars, channelTrouble>>

-----------------------------------------------------------------------------
(* Debug frames *)

DebugFrames(v) ==
    /\ channel = "debugframes" /\ viewer[v] = "out"
    /\ viewer' = [viewer EXCEPT ![v] = "looking"]
    /\ UNCHANGED <<channel, pubsubVars, roomVars, watch, channelTrouble>>

\* The first viewer subscribes; the others wait with it.
Watch(v) ==
    /\ viewer[v] = "looking"
    /\ IF watch = NoWatch
       THEN /\ Subscribe("watch")
            /\ watch' = [viewers |-> {v}, on |-> Waiting(entry.promise)]
       ELSE /\ watch' = [watch EXCEPT !.viewers = @ \cup {v}]
            /\ UNCHANGED pubsubVars
    /\ viewer' = [viewer EXCEPT ![v] = IF watch'.on = "on" THEN "in" ELSE "joining"]
    /\ UNCHANGED <<channel, roomVars, channelTrouble>>

\* A client leaves: before it watches, while it joins, or from the watch.
CloseEarly(v) ==
    /\ viewer[v] \in {"looking", "joining"}
    /\ viewer' = [viewer EXCEPT ![v] = IF @ = "looking" THEN "out" ELSE "gone"]
    /\ UNCHANGED <<channel, pubsubVars, roomVars, watch, channelTrouble>>

Cleanup(v) ==
    /\ viewer[v] = "in"
    /\ viewer' = [viewer EXCEPT ![v] = "out"]
    /\ IF watch.viewers = {v}
       THEN watch' = NoWatch /\ Release({"watch"})
       ELSE watch' = [watch EXCEPT !.viewers = @ \ {v}] /\ UNCHANGED <<entry, wire>>
    /\ UNCHANGED <<channel, subscribed, roomVars, channelTrouble>>

-----------------------------------------------------------------------------

Redis == Subscribed \/ SubscribeFails \/ \E fails \in BOOLEAN : Unsubscribed(fails)

BoxesRelay ==
    \E s \in RoomSockets :
        SubscribeRoom(s) \/ OnCreateRoom(s) \/ JoinRoom(s) \/ LeaveRoom(s) \/ OnDeleteRoom(s)

DebugViewers ==
    \E v \in Viewers : DebugFrames(v) \/ Watch(v) \/ CloseEarly(v) \/ Cleanup(v)

ChannelsNext == Redis \/ BoxesRelay \/ DebugViewers

ChannelsSpec == ChannelsInit /\ [][ChannelsNext]_channelsVars

-----------------------------------------------------------------------------
(* Properties *)

ChannelsTypeOK ==
    /\ entry.listeners \subseteq Relays \cup {"watch"}
    /\ entry.promise \in {"none", "sent", "ok"}
    /\ wire \in Seq({"SUBSCRIBE", "UNSUBSCRIBE"}) /\ subscribed \in BOOLEAN
    /\ relay \in [Relays -> {"free", "waiting", "cancelled", "on"}]
    /\ roomRelay \in Relays \cup {"none"} /\ deaf \in BOOLEAN
    /\ member \in [RoomSockets -> {"out", "looking", "in"}]
    /\ watch.viewers \subseteq Viewers /\ watch.on \in {"none", "waiting", "on"}
    /\ viewer \in [Viewers -> {"out", "looking", "joining", "in", "gone"}]

\* Once Redis has answered what it was sent.
WillHear == IF wire = <<>> THEN subscribed ELSE wire[Len(wire)] = "SUBSCRIBE"

\* Whoever listens is heard by the channel's one entry, and Redis sends its
\* messages once the commands on the way are answered; a room with sockets
\* listens unless its subscription failed, a viewer is in the watch; and
\* nobody is left in the entry who listens no more.
ListenersHear ==
    /\ entry.listeners = {r \in Relays : relay[r] # "free"}
                         \cup (IF watch # NoWatch THEN {"watch"} ELSE {})
    /\ entry.listeners # {} => WillHear
    /\ entry.promise = "ok" => subscribed
    /\ (\E s \in RoomSockets : member[s] = "in") => deaf \/ roomRelay # "none"
    /\ roomRelay # "none" => relay[roomRelay] \in {"waiting", "on"}
    /\ watch.viewers = {v \in Viewers : viewer[v] \in {"joining", "in", "gone"}}

=============================================================================
