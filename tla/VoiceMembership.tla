-------------------------- MODULE VoiceMembership --------------------------
(***************************************************************************)
(* Live voice membership on the Voxly server: apps/server/src/voice.ts,     *)
(* with the routes and realtime operations of app.ts, servers.ts and        *)
(* ownerPanel.ts that reach it.                                             *)
(*                                                                         *)
(* A member (an account) may hold several Devices (sessions), and a Device  *)
(* several connections (sockets: tabs, or a reconnect whose old socket has   *)
(* not dropped yet).  The server keeps four maps in memory -- membership,    *)
(* subscriptions, holders, pendingDisconnects -- and Socket.IO keeps which   *)
(* sockets are in which `voice:<room>`.  Every handler runs to completion on *)
(* one event loop, so one handler is one action; what interleaves is the     *)
(* order of connects, calls, disconnects, timers and moderation.             *)
(***************************************************************************)
EXTENDS Integers, FiniteSets

CONSTANTS
    Users,          \* accounts
    Sessions,       \* Devices: one session row each
    Sockets,        \* connections
    Servers,
    Rooms,          \* voice rooms
    AccountOf,      \* the account a session belongs to
    SessionOf,      \* the session a socket was authenticated with at handshake
    InstanceOf,     \* the media instance the page behind a socket supplies
    ServerOf,       \* the server a room belongs to
    AfkRooms,       \* rooms whose row says is_afk
    MediaRequests,  \* media states clients ask for (closed under field merges)
    ModerationRequests, \* owner mutes and deafens asked for
    VisualPublisherLimit,
    None            \* no value: `undefined`, an absent map entry

VARIABLES
    servers,        \* server rows that exist
    rooms,          \* room rows that exist
    access,         \* access[sv]: accounts with an active server membership
    banned,         \* accounts that were globally banned or deleted
    revoked,        \* sessions that were revoked
    moderated,      \* moderated[sv][u]: owner mute and deafen in the row
    connected,      \* sockets the Socket.IO server holds
    socketRooms,    \* socketRooms[s]: voice rooms `socket.rooms` names
    instance,       \* socket.data.voiceMediaInstanceId
    membership,     \* membership[r][u]: the member state, or None
    subscriptions,  \* subscriptions[r][viewer]: visual targets
    holders,        \* holders[u]: which Device holds the call
    pending         \* pending[u]: session of the armed disconnect timer

database == <<servers, rooms, access, banned, revoked, moderated>>
transport == <<connected, socketRooms, instance>>
voice == <<membership, subscriptions, holders, pending>>
vars == <<database, transport, voice>>

------------------------
Media == [mic: BOOLEAN, camera: BOOLEAN, screen: BOOLEAN,
          deafened: BOOLEAN, speaking: BOOLEAN]
Moderation == [muted: BOOLEAN, deafened: BOOLEAN]
Kinds == {"camera", "screen"}
Instances == {InstanceOf[s] : s \in Sockets}
Member == [media: Media, moderation: Moderation, mediaInstanceId: Instances]
Holder == [roomId: Rooms, sessionId: Sessions]
VisualTarget == [publisher: Users, kind: Kinds]

ASSUME VoiceAssumption ==
    /\ AccountOf \in [Sessions -> Users]
    /\ SessionOf \in [Sockets -> Sessions]
    /\ ServerOf \in [Rooms -> Servers]
    /\ DOMAIN InstanceOf = Sockets
    /\ AfkRooms \subseteq Rooms
    /\ MediaRequests \subseteq Media
    /\ ModerationRequests \subseteq Moderation
    /\ VisualPublisherLimit \in Nat

ASSUME NoneAssumption ==
    None \notin Member \cup Holder \cup Sessions \cup Instances

TypeOK ==
    /\ servers \subseteq Servers
    /\ rooms \subseteq Rooms
    /\ access \in [Servers -> SUBSET Users]
    /\ banned \subseteq Users
    /\ revoked \subseteq Sessions
    /\ moderated \in [Servers -> [Users -> Moderation]]
    /\ connected \subseteq Sockets
    /\ socketRooms \in [Sockets -> SUBSET Rooms]
    /\ instance \in [Sockets -> Instances \cup {None}]
    /\ membership \in [Rooms -> [Users -> Member \cup {None}]]
    /\ subscriptions \in [Rooms -> [Users -> SUBSET VisualTarget]]
    /\ holders \in [Users -> Holder \cup {None}]
    /\ pending \in [Users -> Sessions \cup {None}]

------------------------
UserOf(s) == AccountOf[SessionOf[s]]
SocketsForUser(u) == {s \in connected : UserOf(s) = u}
SocketsForSession(d) == {s \in connected : SessionOf[s] = d}

IsMember(r, u) == membership[r][u] # None
VoiceRoomsOf(u) == {r \in Rooms : IsMember(r, u)}
ServerVoiceRoomsOf(sv, u) == {r \in VoiceRoomsOf(u) \cap rooms : ServerOf[r] = sv}

\* activeServerMembership: an active row of an account that is not banned.
Admits(sv, u) == u \in access[sv] /\ u \notin banned

\* Deafening, an owner mute and the AFK room each close the microphone.
NormalizeVoiceMedia(media, moderation, afk) ==
    LET mic == media.mic /\ ~media.deafened /\ ~moderation.muted /\ ~afk
    IN  [media EXCEPT !.mic = mic, !.speaking = @ /\ mic]

\* Mutant: the row of the live member changes, its microphone does not.
RemoderatedRowOnly(member, moderation, afk) == [member EXCEPT !.moderation = moderation]

\* A member state under a new owner moderation.
Remoderated(member, moderation, afk) ==
    [member EXCEPT !.media = NormalizeVoiceMedia(member.media, moderation, afk),
                   !.moderation = moderation]

IsVisual(media) == media.camera \/ media.screen

OtherVisualPublishers(r, u) ==
    {v \in Users \ {u} : IsMember(r, v) /\ IsVisual(membership[r][v].media)}

\* Mutant: the publisher that asks is not counted.
OthersExceedVisualLimit(r, u, media) ==
    IsVisual(media) /\ Cardinality(OtherVisualPublishers(r, u)) > VisualPublisherLimit

\* The room would hold more camera or screen publishers than the limit.
ExceedsVisualLimit(r, u, media) ==
    (IF IsVisual(media) THEN 1 ELSE 0) + Cardinality(OtherVisualPublishers(r, u))
        > VisualPublisherLimit

\* isVoiceSocketMember: this connection speaks for the current call.
IsVoiceSocketMember(r, s) ==
    LET u == UserOf(s)
    IN  /\ IsMember(r, u)
        /\ holders[u] = [roomId |-> r, sessionId |-> SessionOf[s]]
        /\ r \in socketRooms[s]
        /\ membership[r][u].mediaInstanceId = instance[s]

\* Who receives an `rtc:signal` addressed to u in r, and the live (unredacted)
\* snapshots of r: every socket of the account in `voice:<r>`.
SignalTargets(r, u) == {s \in SocketsForUser(u) : r \in socketRooms[s]}

------------------------
(* leaveVoiceMember, for the rooms of R that hold the member.               *)

\* Mutants: the member stays in the rooms left; its sockets stay in `voice:<room>`.
MembershipKept(u, R) == membership

SocketRoomsKept(u, R) == socketRooms

MembershipWithout(u, R) ==
    [r \in Rooms |-> IF r \in R THEN [membership[r] EXCEPT ![u] = None]
                                ELSE membership[r]]

SubscriptionsWithout(u, R) ==
    [r \in Rooms |->
        IF r \in R
        THEN [v \in Users |->
                IF v = u THEN {} ELSE {t \in subscriptions[r][v] : t.publisher # u}]
        ELSE subscriptions[r]]

HoldersWithout(u, R) ==
    IF holders[u] # None /\ holders[u].roomId \in R
    THEN [holders EXCEPT ![u] = None]
    ELSE holders

SocketRoomsWithout(u, R) ==
    [s \in Sockets |-> IF UserOf(s) = u THEN socketRooms[s] \ R ELSE socketRooms[s]]

\* R holds u in every room of it.
LeaveVoiceMember(u, R) ==
    /\ pending' = [pending EXCEPT ![u] = None]
    /\ membership' = MembershipWithout(u, R)
    /\ subscriptions' = SubscriptionsWithout(u, R)
    /\ holders' = HoldersWithout(u, R)
    /\ socketRooms' = SocketRoomsWithout(u, R)

------------------------
(* Socket handlers.                                                        *)

Connect(s) ==
    /\ s \notin connected
    /\ SessionOf[s] \notin revoked
    /\ UserOf(s) \notin banned
    /\ connected' = connected \cup {s}
    /\ socketRooms' = [socketRooms EXCEPT ![s] = {}]
    /\ instance' = [instance EXCEPT ![s] = None]
    /\ UNCHANGED <<database, voice>>

\* voice:join.  The newest Device takes the call: the Device that held it is
\* put out of its `voice:<room>`, other rooms are left, and the same room is
\* taken over without leaving it.
Join(s, r, requested) ==
    LET u == UserOf(s)
        d == SessionOf[s]
        moderation == moderated[ServerOf[r]][u]
        media == NormalizeVoiceMedia([requested EXCEPT !.speaking = FALSE],
                                     moderation, r \in AfkRooms)
        left == VoiceRoomsOf(u) \ {r}
        displaced(t) == /\ holders[u] # None
                        /\ holders[u].sessionId # d
                        /\ SessionOf[t] = holders[u].sessionId
    IN  /\ s \in connected
        /\ r \in rooms
        /\ Admits(ServerOf[r], u)
        /\ ~ExceedsVisualLimit(r, u, media)
        /\ membership' =
            [MembershipWithout(u, left) EXCEPT
                ![r][u] = [media |-> media, moderation |-> moderation,
                           mediaInstanceId |-> InstanceOf[s]]]
        /\ subscriptions' = SubscriptionsWithout(u, left)
        /\ holders' = [holders EXCEPT ![u] = [roomId |-> r, sessionId |-> d]]
        /\ socketRooms' =
            [t \in Sockets |->
                IF t = s THEN (socketRooms[t] \ left) \cup {r}
                ELSE IF UserOf(t) # u THEN socketRooms[t]
                ELSE IF displaced(t) THEN (socketRooms[t] \ left) \ {holders[u].roomId}
                ELSE socketRooms[t] \ left]
        /\ instance' = [instance EXCEPT ![s] = InstanceOf[s]]
        /\ pending' = [pending EXCEPT ![u] = None]
        /\ UNCHANGED <<database, connected>>

\* This Device no longer holds the account's call.
Displaced(s) ==
    /\ holders[UserOf(s)] # None
    /\ holders[UserOf(s)].sessionId # SessionOf[s]

\* Mutant: any Device may hang up.
LeaveUnguarded(s, r) ==
    /\ s \in connected
    /\ IsMember(r, UserOf(s))
    /\ LeaveVoiceMember(UserOf(s), {r})
    /\ UNCHANGED <<database, connected, instance>>

\* voice:leave.  A displaced Device only leaves `voice:<room>` itself; the
\* holder's leave disarms the timer even when the room is not the call's.
Leave(s, r) ==
    /\ s \in connected
    /\ \/ /\ Displaced(s)
          /\ socketRooms' = [socketRooms EXCEPT ![s] = @ \ {r}]
          /\ UNCHANGED voice
       \/ /\ ~Displaced(s)
          /\ IsMember(r, UserOf(s))
          /\ LeaveVoiceMember(UserOf(s), {r})
       \/ /\ ~Displaced(s)
          /\ ~IsMember(r, UserOf(s))
          /\ pending' = [pending EXCEPT ![UserOf(s)] = None]
          /\ socketRooms' = [socketRooms EXCEPT ![s] = @ \ {r}]
          /\ UNCHANGED <<membership, subscriptions, holders>>
    /\ UNCHANGED <<database, connected, instance>>

\* voice:setMediaState: the requested fields over the current ones.
SetMediaState(s, r, requested) ==
    LET u == UserOf(s)
        moderation == moderated[ServerOf[r]][u]
        media == NormalizeVoiceMedia(requested, moderation, r \in AfkRooms)
    IN  /\ s \in connected
        /\ r \in rooms
        /\ IsVoiceSocketMember(r, s)
        /\ Admits(ServerOf[r], u)
        /\ ~ExceedsVisualLimit(r, u, media)
        /\ membership' = [membership EXCEPT ![r][u] =
              [media |-> media, moderation |-> moderation,
               mediaInstanceId |-> @.mediaInstanceId]]
        \* clearUnavailableVisualSubscriptions
        /\ subscriptions' = [subscriptions EXCEPT ![r] =
              [v \in Users |-> {t \in subscriptions[r][v] :
                                    t.publisher = u => media[t.kind]}]]
        /\ UNCHANGED <<database, transport, holders, pending>>

\* voice:setVisualSubscriptions: replaces the viewer's targets, all or none.
SetVisualSubscriptions(s, r, targets) ==
    LET u == UserOf(s)
    IN  /\ s \in connected
        /\ r \in rooms
        /\ IsVoiceSocketMember(r, s)
        /\ \A t \in targets : /\ t.publisher # u
                              /\ IsMember(r, t.publisher)
                              /\ membership[r][t.publisher].media[t.kind]
        /\ subscriptions' = [subscriptions EXCEPT ![r][u] = targets]
        /\ UNCHANGED <<database, transport, membership, holders, pending>>

\* The sockets of S leave the Socket.IO server, and every room with it.
Close(S) ==
    /\ connected' = connected \ S
    /\ socketRooms' = [s \in Sockets |-> IF s \in S THEN {} ELSE socketRooms[s]]
    /\ instance' = [s \in Sockets |-> IF s \in S THEN None ELSE instance[s]]

\* Mutants: a displaced Device arms the timer too; the timer remembers the
\* connection instead of the Device; the holder is evicted at once.
DisconnectUnguarded(s) ==
    /\ s \in connected
    /\ Close({s})
    /\ pending' = [pending EXCEPT ![UserOf(s)] = SessionOf[s]]
    /\ UNCHANGED <<database, membership, subscriptions, holders>>

DisconnectBySocket(s) ==
    /\ s \in connected
    /\ Close({s})
    /\ pending' = IF Displaced(s) THEN pending ELSE [pending EXCEPT ![UserOf(s)] = s]
    /\ UNCHANGED <<database, membership, subscriptions, holders>>

DisconnectAtOnce(s) ==
    LET u == UserOf(s)
        R == IF Displaced(s) THEN {} ELSE VoiceRoomsOf(u)
    IN  /\ s \in connected
        /\ Close({s})
        /\ membership' = MembershipWithout(u, R)
        /\ subscriptions' = SubscriptionsWithout(u, R)
        /\ holders' = HoldersWithout(u, R)
        /\ UNCHANGED <<database, pending>>

\* A connection ends: a closed tab, a dropped network, a page reload.
Disconnect(s) ==
    /\ s \in connected
    /\ Close({s})
    /\ pending' = IF Displaced(s) THEN pending
                  ELSE [pending EXCEPT ![UserOf(s)] = SessionOf[s]]
    /\ UNCHANGED <<database, membership, subscriptions, holders>>

\* Mutant: the timer is spent and the member stays.
GraceForgets(u) ==
    /\ pending[u] # None
    /\ pending' = [pending EXCEPT ![u] = None]
    /\ UNCHANGED <<database, transport, membership, subscriptions, holders>>

\* The reconnect grace runs out.  A live connection of the same Device, or a
\* call that meanwhile moved, spares the member.
GraceExpires(u) ==
    /\ pending[u] # None
    /\ \/ /\ SocketsForSession(pending[u]) = {}
          /\ holders[u] # None
          /\ holders[u].sessionId = pending[u]
          /\ LeaveVoiceMember(u, VoiceRoomsOf(u))
       \/ /\ \/ SocketsForSession(pending[u]) # {}
             \/ holders[u] = None
             \/ /\ holders[u] # None
                /\ holders[u].sessionId # pending[u]
          /\ pending' = [pending EXCEPT ![u] = None]
          /\ UNCHANGED <<membership, subscriptions, holders, socketRooms>>
    /\ UNCHANGED <<database, connected, instance>>

------------------------
(* Owner moderation, deletion and revocation.                              *)

\* Mutant: the account loses its rows and keeps its call.
ForceLeaveNobody(u, R) == UNCHANGED <<voice, socketRooms>>

\* forceLeave over rooms R, which hold u.  With no such room nothing happens.
ForceLeave(u, R) ==
    IF R = {} THEN UNCHANGED <<voice, socketRooms>> ELSE LeaveVoiceMember(u, R)

DisconnectMember(r, u) ==
    /\ r \in rooms
    /\ IsMember(r, u)
    /\ LeaveVoiceMember(u, {r})
    /\ UNCHANGED <<database, connected, instance>>

\* Ban or kick from one server: the row changes, then revokeServerAccess.
RevokeServerAccess(sv, u) ==
    /\ sv \in servers
    /\ u \in access[sv]
    /\ access' = [access EXCEPT ![sv] = @ \ {u}]
    /\ ForceLeave(u, ServerVoiceRoomsOf(sv, u))
    /\ UNCHANGED <<servers, rooms, banned, revoked, moderated, connected, instance>>

\* An unban, or a new invite accepted.
GrantServerAccess(sv, u) ==
    /\ sv \in servers
    /\ u \notin access[sv] \cup banned
    /\ access' = [access EXCEPT ![sv] = @ \cup {u}]
    /\ UNCHANGED <<servers, rooms, banned, revoked, moderated, transport, voice>>

\* Owner mute and deafen: the row, then the live member in that server.
UpdateModeration(sv, u, moderation) ==
    /\ sv \in servers
    /\ moderation # moderated[sv][u]
    /\ moderated' = [moderated EXCEPT ![sv][u] = moderation]
    /\ membership' =
        [r \in Rooms |->
            IF r \in ServerVoiceRoomsOf(sv, u)
            THEN [membership[r] EXCEPT
                    ![u] = Remoderated(membership[r][u], moderation, r \in AfkRooms)]
            ELSE membership[r]]
    /\ UNCHANGED <<servers, rooms, access, banned, revoked, transport,
                   subscriptions, holders, pending>>

\* The rows go first; then every room's live state is torn down.  Holders and
\* armed timers of the people in it are left as they are.
TearDown(R) ==
    /\ rooms' = rooms \ R
    /\ membership' = [r \in Rooms |-> IF r \in R THEN [u \in Users |-> None]
                                                  ELSE membership[r]]
    /\ subscriptions' = [r \in Rooms |-> IF r \in R THEN [u \in Users |-> {}]
                                                     ELSE subscriptions[r]]
    /\ socketRooms' = [s \in Sockets |-> socketRooms[s] \ R]
    /\ UNCHANGED <<holders, pending>>

\* The refusals of these two, a server's last room and an owner's last server, do
\* not arise: text rooms and the owner's other servers are not modelled.
DeleteRoom(r) ==
    /\ r \in rooms
    /\ TearDown({r})
    /\ UNCHANGED <<servers, access, banned, revoked, moderated, connected, instance>>

DeleteServer(sv) ==
    /\ sv \in servers
    /\ servers' = servers \ {sv}
    /\ access' = [access EXCEPT ![sv] = {}]
    /\ TearDown({r \in rooms : ServerOf[r] = sv})
    /\ UNCHANGED <<banned, revoked, moderated, connected, instance>>

\* A global ban or an account deletion: forceLeave everywhere, then every
\* socket of the account is disconnected (and arms a timer nobody needs).
TerminateAccount(u) ==
    LET S == SocketsForUser(u)
        R == VoiceRoomsOf(u)
        ended == IF R = {} THEN holders ELSE HoldersWithout(u, R)
        arming == {s \in S : ended[u] = None \/ ended[u].sessionId = SessionOf[s]}
    IN  /\ u \notin banned
        /\ banned' = banned \cup {u}
        /\ Close(S)
        /\ membership' = MembershipWithout(u, R)
        /\ subscriptions' = SubscriptionsWithout(u, R)
        /\ holders' = ended
        /\ \/ /\ arming = {}
              /\ pending' = IF R = {} THEN pending ELSE [pending EXCEPT ![u] = None]
           \/ \E s \in arming : pending' = [pending EXCEPT ![u] = SessionOf[s]]
        /\ UNCHANGED <<servers, rooms, access, revoked, moderated>>

\* A Device is signed out: its session is revoked and its sockets closed.
DisconnectDevice(d) ==
    LET u == AccountOf[d]
        S == SocketsForSession(d)
    IN  /\ d \notin revoked
        /\ revoked' = revoked \cup {d}
        /\ Close(S)
        /\ pending' = IF \E s \in S : ~Displaced(s)
                      THEN [pending EXCEPT ![u] = d] ELSE pending
        /\ UNCHANGED <<servers, rooms, access, banned, moderated,
                       membership, subscriptions, holders>>

\* The process restarts: the rows survive, the maps and connections do not.
Restart ==
    /\ Close(Sockets)
    /\ membership' = [r \in Rooms |-> [u \in Users |-> None]]
    /\ subscriptions' = [r \in Rooms |-> [u \in Users |-> {}]]
    /\ holders' = [u \in Users |-> None]
    /\ pending' = [u \in Users |-> None]
    /\ UNCHANGED database

------------------------
Init ==
    /\ servers = Servers
    /\ rooms = Rooms
    /\ access = [sv \in Servers |-> Users]
    /\ banned = {}
    /\ revoked = {}
    /\ moderated = [sv \in Servers |-> [u \in Users |->
                        [muted |-> FALSE, deafened |-> FALSE]]]
    /\ connected = {}
    /\ socketRooms = [s \in Sockets |-> {}]
    /\ instance = [s \in Sockets |-> None]
    /\ membership = [r \in Rooms |-> [u \in Users |-> None]]
    /\ subscriptions = [r \in Rooms |-> [u \in Users |-> {}]]
    /\ holders = [u \in Users |-> None]
    /\ pending = [u \in Users |-> None]

SocketNext ==
    \E s \in Sockets :
        \/ Connect(s)
        \/ Disconnect(s)
        \/ \E r \in Rooms : \/ Leave(s, r)
                            \/ \E m \in MediaRequests : \/ Join(s, r, m)
                                                        \/ SetMediaState(s, r, m)
                            \/ \E T \in SUBSET VisualTarget :
                                    SetVisualSubscriptions(s, r, T)

OwnerNext ==
    \/ \E u \in Users :
        \/ TerminateAccount(u)
        \/ \E r \in Rooms : DisconnectMember(r, u)
        \/ \E sv \in Servers : \/ RevokeServerAccess(sv, u)
                               \/ GrantServerAccess(sv, u)
                               \/ \E m \in ModerationRequests : UpdateModeration(sv, u, m)
    \/ \E r \in Rooms : DeleteRoom(r)
    \/ \E sv \in Servers : DeleteServer(sv)
    \/ \E d \in Sessions : DisconnectDevice(d)

Next ==
    \/ SocketNext
    \/ OwnerNext
    \/ \E u \in Users : GraceExpires(u)
    \/ Restart

Spec == Init /\ [][Next]_vars

\* setTimeout fires: the only thing the server promises to do by itself.
TimersFire == \A u \in Users : WF_vars(GraceExpires(u))

FairSpec == Spec /\ TimersFire

------------------------
(* What must never go wrong.                                               *)

\* An account is in at most one voice room, and the Device recorded as holding
\* its call holds it in that very room (the comment on VoiceContext.holders).
OneRoomPerAccount ==
    \A u \in Users : \A r \in Rooms :
        IsMember(r, u) => holders[u] # None /\ holders[u].roomId = r

\* Signalling and live snapshots for a room reach only the Device that holds
\* the call there: no displaced, evicted or departed connection keeps
\* listening in `voice:<room>` (emitVoiceForceLeave, forwardRtcSignal).
SignalsReachOnlyTheHolder ==
    \A u \in Users : \A r \in Rooms : \A s \in SignalTargets(r, u) :
        /\ IsMember(r, u)
        /\ holders[u].sessionId = SessionOf[s]

\* A member whose Device has no connection left always has its disconnect
\* timer armed, so nobody stays in a room as a ghost that no event will remove
\* (leaveAllRooms, clearPendingDisconnect).
NobodyIsStranded ==
    \A u \in Users :
        VoiceRoomsOf(u) # {} =>
            \/ SocketsForSession(holders[u].sessionId) # {}
            \/ pending[u] = holders[u].sessionId

\* A Device only ever holds the call of its own account; with the three above
\* it makes the inductive invariant about calls.
HoldersAreOwn ==
    \A u \in Users : holders[u] # None => AccountOf[holders[u].sessionId] = u

CallInv ==
    HoldersAreOwn /\ OneRoomPerAccount /\ SignalsReachOnlyTheHolder /\ NobodyIsStranded

\* Being in a voice room always rests on rows that still allow it: the room
\* exists, the membership is active, the account is not banned.
MembersAreAdmitted ==
    \A u \in Users : \A r \in VoiceRoomsOf(u) :
        r \in rooms /\ Admits(ServerOf[r], u)

\* No order of joins, media changes and moderation lifts an owner mute or the
\* AFK mute: the live microphone obeys the rows as they are now.
MutesHold ==
    \A u \in Users : \A r \in VoiceRoomsOf(u) :
        \/ ~membership[r][u].media.mic
        \/ ~moderated[ServerOf[r]][u].muted /\ r \notin AfkRooms

\* A room never has more camera or screen publishers than the limit, whoever
\* joined, rejoined or switched on in whatever order.
VisualLimitHolds ==
    \A r \in Rooms :
        Cardinality({u \in Users : IsMember(r, u) /\ IsVisual(membership[r][u].media)})
            <= VisualPublisherLimit

\* Visual subscriptions only relate two different present members of the room,
\* so nobody who left keeps watching or being watched.
SubscriptionsJoinMembers ==
    \A r \in Rooms : \A v \in Users : \A t \in subscriptions[r][v] :
        IsMember(r, v) /\ IsMember(r, t.publisher) /\ t.publisher # v

\* "A publisher who stops a camera or screen must not leave viewers subscribed
\* to a track that no longer exists" (voice.ts, clearUnavailableVisualSubscriptions).
SubscribedTracksExist ==
    \A r \in Rooms : \A v \in Users : \A t \in subscriptions[r][v] :
        IsMember(r, t.publisher) => membership[r][t.publisher].media[t.kind]

\* A member whose Device went away and does not come back leaves the call.
AbandonedCallEnds ==
    \A u \in Users :
        []<>(VoiceRoomsOf(u) = {} \/ SocketsForSession(holders[u].sessionId) # {})

\* Who shows what to whom: within the limit of the room, and among its members.
VisualsAreInOrder == VisualLimitHolds /\ SubscriptionsJoinMembers

=============================================================================
