---------------------------- MODULE RoomMessages ----------------------------
(***************************************************************************)
(* One text room as the server keeps it: apps/server/src/messages.ts,        *)
(* notifications.ts and readState.ts.  A message takes the room's next       *)
(* sequence in the transaction that writes it, so the sequence is its place  *)
(* in `messages`.  Every request ends by telling the sockets in the room, or *)
(* those of every member of the server; one socket, of Reader, is followed,  *)
(* and the answers to the requests its own client made.                     *)
(*                                                                         *)
(* Bodies, mentions, embeds and pins are left out, no property looks inside  *)
(* them: changing one emits message:updated.                                 *)
(***************************************************************************)
EXTENDS Integers, Sequences, FiniteSets

CONSTANTS
    People,             \* accounts with a row in the server
    RoomOwner,          \* of the server
    Reader,             \* the member whose client is followed
    Emojis,
    MaxKinds,           \* maxMessageReactionKinds
    MaxMessages,        \* bound: messages written
    MaxChanges,         \* bound: reaction changes of a message
    MaxEvents           \* bound: events on their way to the client

ASSUME RoomAssumption == RoomOwner \in People

VARIABLES
    messages,           \* by sequence
    joined,             \* who has an active membership
    cursor,             \* room_read_cursors, 0 where there is no row
    since,              \* history: the room's sequence when each one last joined,
    online,             \* the socket is connected
    inside,             \* and in room:<id>
    events,             \* on their way to the client
    answer,             \* the answer to its request, NoEvent if none
    missed              \* history: messages of which something was told while the
                        \* socket was not there, and no history brought since

roomVars == <<messages, joined, cursor, since>>
wireVars == <<events, answer, missed>>

State(message) == [reactions |-> message.reactions, version |-> message.version]
NoEvent == [type |-> "none"]

\* io.to(...).emit, and the answer where the request came from the client.
Tell(u, to, type, id) ==
    LET e == [type |-> type, id |-> id, kind |-> messages'[id].kind, state |-> State(messages'[id])]
        reached == online /\ (to = "server" \/ inside) IN
    /\ Len(events) < MaxEvents
    /\ events' = IF reached THEN Append(events, e) ELSE events
    /\ missed' = IF reached THEN missed ELSE missed \cup {id}
    /\ answer' \in IF u = Reader /\ answer = NoEvent THEN {NoEvent, e} ELSE {answer}
    /\ UNCHANGED <<online, inside>>

Untold == UNCHANGED <<wireVars, online, inside>>

Message(by, kind, replyTo) ==
    [by |-> by, kind |-> kind, replyTo |-> replyTo, live |-> TRUE,
     reactions |-> {}, version |-> 0]

\* Members meet an empty room; the others have not joined yet.
RoomInit ==
    /\ messages = << >>
    /\ joined \in {{RoomOwner}, People}
    /\ cursor = [u \in People |-> 0]
    /\ since = [u \in People |-> 0]
    /\ online \in BOOLEAN /\ inside = FALSE
    /\ events = << >> /\ answer = NoEvent /\ missed = {}

\* messageById, for a member of the room: deleted messages are not found.
LiveMessage == {id \in DOMAIN messages : messages[id].live}
Latest == Len(messages)

\* writeMessageRow and the message:new that follows the commit.
WriteMessage(message) ==
    /\ Latest < MaxMessages
    /\ messages' = Append(messages, message)
    /\ Tell(message.by, "server", "new", Latest + 1)

Post(u, replyTo) ==
    /\ u \in joined
    /\ replyTo \in LiveMessage \cup {0}
    /\ WriteMessage(Message(u, "message", replyTo))
    /\ UNCHANGED <<joined, cursor, since>>

WavesOf(u, notice) ==
    {id \in LiveMessage : messages[id].by = u /\ messages[id].kind = "wave"
                   /\ messages[id].replyTo = notice}

Wave(u, notice) ==
    /\ u \in joined /\ notice \in LiveMessage
    /\ messages[notice].kind = "memberJoined" /\ messages[notice].by # u
    /\ WavesOf(u, notice) = {}
    /\ WriteMessage(Message(u, "wave", notice))
    /\ UNCHANGED <<joined, cursor, since>>

Changed(u, id, message, type) ==
    /\ messages' = [messages EXCEPT ![id] = message]
    /\ Tell(u, "room", type, id)
    /\ UNCHANGED <<joined, cursor, since>>

\* Changing the body is for its author alone, and a notice has none.
Edit(u, id) ==
    /\ u \in joined /\ id \in LiveMessage
    /\ messages[id].by = u /\ messages[id].kind # "memberJoined"
    /\ Changed(u, id, messages[id], "updated")

\* Hiding an embed; the owner may as well.
SuppressEmbed(u, id) ==
    /\ u \in joined /\ id \in LiveMessage
    /\ u \in {messages[id].by, RoomOwner}
    /\ Changed(u, id, messages[id], "updated")

\* Pinning and unpinning.
Pin(u, id) ==
    /\ u \in joined /\ id \in LiveMessage
    /\ u = RoomOwner
    /\ Changed(u, id, messages[id], "updated")

Delete(u, id) ==
    /\ u \in joined /\ id \in LiveMessage
    /\ u \in {messages[id].by, RoomOwner}
    /\ Changed(u, id, [messages[id] EXCEPT !.live = FALSE, !.reactions = {}], "deleted")

------------------------
Kinds(reactions) == {r.emoji : r \in reactions}

\* reaction_version moves exactly when the reactions did.
Reacted(u, id, reactions) ==
    LET before == messages[id] IN
    /\ before.version < MaxChanges
    /\ Changed(u, id, [before EXCEPT !.reactions = reactions,
                                  !.version = IF reactions = before.reactions THEN @ ELSE @ + 1],
               "reactions")

React(u, id, emoji) ==
    /\ u \in joined /\ id \in LiveMessage
    /\ emoji \in Kinds(messages[id].reactions) \/ Cardinality(Kinds(messages[id].reactions)) < MaxKinds
    /\ Reacted(u, id, messages[id].reactions \cup {[emoji |-> emoji, by |-> u]})

Unreact(u, id, emoji) ==
    /\ u \in joined /\ id \in LiveMessage
    /\ Reacted(u, id, messages[id].reactions \ {[emoji |-> emoji, by |-> u]})

\* clearEmoji and clearAll.
ClearReactions(u, id, emojis) ==
    /\ u \in joined /\ id \in LiveMessage
    /\ u = RoomOwner
    /\ Reacted(u, id, {r \in messages[id].reactions : r.emoji \notin emojis})

------------------------
Larger(a, b) == IF a < b THEN b ELSE a

\* PUT read-state: two Devices of an account report in any order.
PutReadState(u, through) ==
    /\ u \in joined /\ through <= Latest
    /\ cursor' = [cursor EXCEPT ![u] = Larger(@, through)]
    /\ Untold /\ UNCHANGED <<messages, joined, since>>

\* Mutant: only a member without a cursor gets one.
BaselineOnce(u) == [cursor EXCEPT ![u] = IF @ = 0 THEN Latest ELSE @]

\* baselineMembershipReadState, in the transaction that activates a membership.
Baseline(u) == [cursor EXCEPT ![u] = Latest]

\* An invite is accepted, and a welcome notice is written where they are on.
JoinServer(u, notices) ==
    /\ u \notin joined
    /\ joined' = joined \cup {u}
    /\ cursor' = Baseline(u)
    /\ since' = [since EXCEPT ![u] = Latest]
    /\ IF notices THEN WriteMessage(Message(u, "memberJoined", 0))
       ELSE Untold /\ UNCHANGED messages

LeaveServer(u) ==
    /\ u \in joined \ {RoomOwner}
    /\ joined' = joined \ {u}
    /\ Untold
    /\ UNCHANGED <<messages, cursor, since>>

\* notificationState: what is unread, own and deleted messages left out.
Unread(u) == {id \in LiveMessage : id > cursor[u] /\ messages[id].by # u}

MessageRequest ==
    \E u \in People :
       \/ \E id \in DOMAIN messages \cup {0} : Post(u, id)
       \/ \E id \in DOMAIN messages :
             Wave(u, id) \/ Edit(u, id) \/ SuppressEmbed(u, id) \/ Delete(u, id) \/ Pin(u, id)

ReactionRequest ==
    \E u \in People, id \in DOMAIN messages :
       \/ \E emoji \in Emojis : React(u, id, emoji) \/ Unreact(u, id, emoji)
       \/ \E emojis \in {{e} : e \in Emojis} \cup {Emojis} : ClearReactions(u, id, emojis)

MembershipRequest ==
    \E u \in People :
       \/ \E through \in 0..Latest : PutReadState(u, through)
       \/ \E notices \in BOOLEAN : JoinServer(u, notices)
       \/ LeaveServer(u)

RoomNext == MessageRequest \/ ReactionRequest \/ MembershipRequest

------------------------
\* A returning member starts clean: nothing posted while away is unread.
RejoinStartsClean == \A u \in joined : \A id \in Unread(u) : id > since[u]

=============================================================================
