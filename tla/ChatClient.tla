----------------------------- MODULE ChatClient -----------------------------
(***************************************************************************)
(* The web client of one member looking at the room: useChatController.ts    *)
(* and the part of useRealtimeSync.ts that joins it.  What the server tells  *)
(* it comes on two ways that overtake each other: events on the socket, in   *)
(* order, and answers to its own requests.  The socket may drop; it comes    *)
(* back without the rooms it was in.  Nothing asks for the room again then,  *)
(* so what is said meanwhile reaches this view with the next history.        *)
(***************************************************************************)
EXTENDS RoomMessages

CONSTANT HistoryLimit       \* of fetchMessages, 100

ASSUME HistoryAssumption == HistoryLimit \in Nat \ {0}

VARIABLES
    route,          \* "text" while the room is open
    asking,         \* room:join and room:leave on their way to the server
    history,        \* GET messages: NoHistory, Asked, or the answer
    view,           \* messagesByRoom: of each message shown, its reactions and version
    snapshots,      \* reactionSnapshots
    deletedIds,
    watermark,      \* loadedWatermarks, NotLoaded where there is none
    delivered,      \* latestDelivered
    readHere        \* what this client has reported as read

clientVars == <<route, asking, history, view, snapshots, deletedIds, watermark, delivered,
                readHere>>
shownVars == <<view, snapshots, deletedIds, watermark, delivered>>

NotLoaded == -1
NoHistory == [through |-> -1, messages |-> << >>, missed |-> {}]
Asked == [through |-> -2, messages |-> << >>, missed |-> {}]

Shown == DOMAIN view

ClientInit ==
    /\ route = "elsewhere" /\ asking = << >> /\ history = NoHistory
    /\ view = << >> /\ snapshots = << >> /\ deletedIds = {}
    /\ watermark = NotLoaded /\ delivered = 0 /\ readHere = 0

------------------------
\* mergeReactionState: the later version.
Merged(a, b) == IF b.version >= a.version THEN b ELSE a

\* withReactions: a message is shown with the latest reactions heard of.
WithReactions(id, state) == IF id \in DOMAIN snapshots THEN Merged(state, snapshots[id]) ELSE state

\* upsertMessage
Upsert(shown, id, state) ==
    [i \in DOMAIN shown \cup {id} |->
        IF i # id THEN shown[i]
        ELSE IF id \in DOMAIN shown THEN Merged(shown[id], state) ELSE state]

\* applyMessage; a deleted message never comes back.
ApplyMessage(id, state, unread, onlyExisting) ==
    /\ IF id \in deletedIds \/ (onlyExisting /\ id \notin Shown) THEN UNCHANGED view
       ELSE view' = Upsert(view, id, WithReactions(id, state))
    /\ IF unread /\ id \notin deletedIds
         THEN /\ delivered' = Larger(delivered, id)
              /\ watermark' = IF route = "text" /\ watermark # NotLoaded
                                THEN Larger(watermark, id) ELSE watermark
         ELSE UNCHANGED <<delivered, watermark>>
    /\ UNCHANGED <<snapshots, deletedIds>>

\* applyReactions
ApplyReactions(id, state) ==
    /\ IF id \in deletedIds \/ (id \in DOMAIN snapshots /\ snapshots[id].version > state.version)
         THEN UNCHANGED <<snapshots, view>>
         ELSE /\ snapshots' = [i \in DOMAIN snapshots \cup {id} |->
                                 IF i = id THEN state ELSE snapshots[i]]
              /\ view' = IF id \in Shown THEN [view EXCEPT ![id] = Merged(@, state)] ELSE view
    /\ UNCHANGED <<deletedIds, watermark, delivered>>

\* applyDeletedMessage
ApplyDeleted(id) ==
    /\ deletedIds' = deletedIds \cup {id}
    /\ snapshots' = [i \in DOMAIN snapshots \ {id} |-> snapshots[i]]
    /\ view' = [i \in Shown \ {id} |-> view[i]]
    /\ UNCHANGED <<watermark, delivered>>

\* A wave's answer counts as delivered, a post's does not.
AnswerComes ==
    /\ answer # NoEvent
    /\ \/ answer.type = "new" /\ ApplyMessage(answer.id, answer.state, answer.kind = "wave", FALSE)
       \/ answer.type = "updated" /\ \E onlyExisting \in BOOLEAN :
                                       ApplyMessage(answer.id, answer.state, FALSE, onlyExisting)
       \/ answer.type = "reactions" /\ ApplyReactions(answer.id, answer.state)
       \/ answer.type = "deleted" /\ ApplyDeleted(answer.id)
    /\ answer' = NoEvent
    /\ UNCHANGED <<roomVars, online, inside, events, missed, route, asking, history, readHere>>

EventComes ==
    /\ events # << >>
    /\ LET e == Head(events) IN
       \/ e.type = "new" /\ ApplyMessage(e.id, e.state, TRUE, FALSE)
       \/ e.type = "updated" /\ ApplyMessage(e.id, e.state, FALSE, TRUE)
       \/ e.type = "reactions" /\ ApplyReactions(e.id, e.state)
       \/ e.type = "deleted" /\ ApplyDeleted(e.id)
    /\ events' = Tail(events)
    /\ UNCHANGED <<roomVars, online, inside, answer, missed, route, asking, history, readHere>>

------------------------
\* The room is opened: its history is asked for, and the socket asks to join.
OpenRoom ==
    /\ route = "elsewhere" /\ asking = << >>
    /\ route' = "text"
    /\ watermark' = NotLoaded
    /\ history' = Asked
    /\ asking' = <<"join">>
    /\ UNCHANGED <<roomVars, wireVars, online, inside, view, snapshots, deletedIds, delivered,
                   readHere>>

\* The effect is torn down: its history is no longer wanted.
CloseRoom ==
    /\ route = "text"
    /\ route' = "elsewhere"
    /\ history' = NoHistory
    /\ missed' = missed \cup history.missed
    /\ asking' = Append(asking, "leave")
    /\ UNCHANGED <<roomVars, events, answer, online, inside, shownVars, readHere>>

RoomHears ==
    /\ online /\ asking # << >>
    /\ inside' = (Head(asking) = "join" /\ Reader \in joined)
    /\ asking' = Tail(asking)
    /\ UNCHANGED <<roomVars, wireVars, online, route, history, shownVars, readHere>>

\* order by ... desc limit ?
Newest == {id \in LiveMessage : Cardinality({later \in LiveMessage : later > id}) < HistoryLimit}

\* What a history may leave out.
BeyondTheLimit == {id \in LiveMessage : id + HistoryLimit <= Latest}

\* The server reads the history: its newest messages, and the sequence of the
\* whole room.  What was missed before is in it, but for what it leaves out.
HistoryIsRead ==
    /\ history = Asked
    /\ history' = [through |-> Latest,
                   messages |-> [id \in Newest |-> State(messages[id])],
                   missed |-> missed]
    /\ missed' = BeyondTheLimit
    /\ UNCHANGED <<roomVars, online, inside, events, answer, route, asking, shownVars, readHere>>

\* Messages newer than the history stay; deleted ones are left out of it.
Loaded ==
    LET kept == {id \in Shown : id > history.through}
        listed == DOMAIN history.messages \ deletedIds IN
    [id \in kept \cup listed |->
        IF id \in kept THEN view[id] ELSE WithReactions(id, history.messages[id])]

HistoryComes ==
    /\ history.through >= 0
    /\ view' = Loaded
    /\ watermark' = Larger(history.through, delivered)
    /\ history' = NoHistory
    /\ UNCHANGED <<roomVars, wireVars, online, inside, route, asking, snapshots, deletedIds,
                   delivered, readHere>>

\* The request fails: nothing is shown, and what has come is shown no more.
HistoryFails ==
    /\ history # NoHistory
    /\ history' = NoHistory
    /\ view' = << >>
    /\ missed' = missed \cup history.missed \cup Shown
    /\ UNCHANGED <<roomVars, events, answer, online, inside, route, asking, snapshots, deletedIds,
                   watermark, delivered, readHere>>

\* markRead, in a window that is visible and focused.
MarkRead ==
    /\ route = "text" /\ watermark > readHere
    /\ readHere' = watermark
    /\ PutReadState(Reader, watermark)
    /\ UNCHANGED <<route, asking, history, shownVars>>

------------------------
\* Events under way are lost with the socket.
Disconnect ==
    /\ online
    /\ online' = FALSE /\ inside' = FALSE
    /\ missed' = missed \cup {events[i].id : i \in DOMAIN events}
    /\ events' = << >>
    /\ UNCHANGED <<roomVars, answer, clientVars>>

\* The server has a new socket, in no room; joining is not asked for again.
Reconnect ==
    /\ ~online
    /\ online' = TRUE
    /\ UNCHANGED <<roomVars, wireVars, inside, clientVars>>

ClientStep ==
    \/ AnswerComes \/ EventComes
    \/ OpenRoom \/ CloseRoom \/ RoomHears
    \/ HistoryIsRead \/ HistoryComes \/ HistoryFails \/ MarkRead
    \/ Disconnect \/ Reconnect

ClientNext ==
    \/ (MessageRequest \/ ReactionRequest) /\ UNCHANGED clientVars
    \/ ClientStep

------------------------
\* The room as its members use it, while the reader stays one of them.
ChatNext ==
    \/ RoomNext /\ Reader \in joined' /\ UNCHANGED clientVars
    \/ ClientStep

chatVars == <<roomVars, wireVars, online, inside, clientVars>>

ChatSpec == RoomInit /\ ClientInit /\ Reader \in joined /\ [][ChatNext]_chatVars

------------------------
ChatAtRest == events = << >> /\ answer = NoEvent /\ history = NoHistory

\* Once everything under way has come, in whatever order answers, events and
\* histories came, a message is shown with the reactions it has.
ReactionsSettle ==
    ChatAtRest => \A id \in (Shown \cap LiveMessage) \ missed : view[id] = State(messages[id])

\* A message this client knows deleted is not shown, although an answer, an
\* event or a history from before the deletion may still come.
DeletedStaysGone == Shown \cap deletedIds = {}

\* The answer to a later wave of the reader's came before the event of a message.
FilledAfter(id) ==
    /\ \E i \in DOMAIN events : events[i].type = "new" /\ events[i].id = id
    /\ \E later \in DOMAIN messages : later > id /\ messages[later].by = Reader /\ messages[later].kind = "wave"

\* The client reports as read only what has come to its view.  Exceptions are what
\* it was told of while away and what a failed history took from the view, both of
\* which its next history makes good; what has HistoryLimit newer messages when a
\* history is read, which none brings although it is then reported as read, a fault;
\* and a message still on its way that a later wave of its own has overtaken.
UnseenStaysUnread ==
    \A id \in 1..readHere :
       \/ id \in Shown \cup missed \cup history.missed \cup deletedIds
       \/ id \notin LiveMessage \/ messages[id].by = Reader
       \/ FilledAfter(id)

\* The view comes to rest as the room is: reactions as they are, nothing deleted.
ViewSettles == ReactionsSettle /\ DeletedStaysGone

\* What counts as read, on the server after a return and in the client's reports.
ReadStateHolds == RejoinStartsClean /\ UnseenStaysUnread

\* What a member is shown of a room and what it has read.
ChatHolds == ViewSettles /\ ReadStateHolds

=============================================================================
