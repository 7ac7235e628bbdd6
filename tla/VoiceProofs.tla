----------------------------- MODULE VoiceProofs ----------------------------
(* Theorems about VoiceMembership, for every number of accounts, Devices, *)
(* connections, rooms and servers; about ListenerMesh, for every number of *)
(* joins, signals, troubles and refreshes; and about ScreenRecovery, for *)
(* every length of its limits. *)
EXTENDS VoiceCalls, ListenerMesh, ScreenRecovery, FiniteSetTheorems, SequenceTheorems, TLAPS

------------------------
(* Lemmas about the operators that leave rooms. *)

LEMMA NormalizedIsMedia ==
    ASSUME NEW media \in Media, NEW moderation \in Moderation, NEW afk
    PROVE  NormalizeVoiceMedia(media, moderation, afk) \in Media
BY DEF NormalizeVoiceMedia, Media, Moderation

LEMMA RemoderatedIsMember ==
    ASSUME NEW member \in Member, NEW moderation \in Moderation, NEW afk
    PROVE  Remoderated(member, moderation, afk) \in Member
BY NormalizedIsMedia DEF Member, Remoderated

LEMMA WithoutTypes ==
    ASSUME TypeOK, NEW u \in Users, NEW R \in SUBSET Rooms
    PROVE  /\ MembershipWithout(u, R) \in [Rooms -> [Users -> Member \cup {None}]]
           /\ SubscriptionsWithout(u, R) \in [Rooms -> [Users -> SUBSET VisualTarget]]
           /\ HoldersWithout(u, R) \in [Users -> Holder \cup {None}]
           /\ SocketRoomsWithout(u, R) \in [Sockets -> SUBSET Rooms]
BY DEF TypeOK, MembershipWithout, SubscriptionsWithout, HoldersWithout, SocketRoomsWithout

LEMMA UserOfType == \A s \in Sockets : UserOf(s) \in Users /\ SessionOf[s] \in Sessions
BY VoiceAssumption DEF UserOf

------------------------
LEMMA InitTypeOK == Init => TypeOK
BY DEF Init, TypeOK, Moderation

\* voice:setMediaState replaces one whole member state by another.
LEMMA MediaStateIsMember ==
    ASSUME TypeOK, NEW s \in Sockets, NEW r \in Rooms, NEW m \in MediaRequests,
           SetMediaState(s, r, m)
    PROVE  \E new \in Member :
              membership' = [membership EXCEPT
                                ![r] = [membership[r] EXCEPT ![UserOf(s)] = new]]
<1>. DEFINE u == UserOf(s)
            moderation == moderated[ServerOf[r]][u]
            media == NormalizeVoiceMedia(m, moderation, r \in AfkRooms)
<1>1. moderation \in Moderation /\ media \in Media
  BY VoiceAssumption, UserOfType, NormalizedIsMedia DEF TypeOK
<1>2. membership[r][u] \in Member
  BY UserOfType DEF SetMediaState, IsVoiceSocketMember, IsMember, TypeOK
<1>3. [media |-> media, moderation |-> moderation,
       mediaInstanceId |-> membership[r][u].mediaInstanceId] \in Member
  BY <1>1, <1>2 DEF Member
<1>. QED  BY <1>3 DEF SetMediaState, TypeOK

LEMMA NextTypeOK == TypeOK /\ [Next]_vars => TypeOK'
<1>. SUFFICES ASSUME TypeOK, [Next]_vars PROVE TypeOK'
  OBVIOUS
<1>. USE UserOfType
<1>1. ASSUME NEW s \in Sockets, Connect(s) PROVE TypeOK'
  BY <1>1 DEF TypeOK, Connect, database, voice
<1>2. ASSUME NEW s \in Sockets, Disconnect(s) PROVE TypeOK'
  BY <1>2 DEF TypeOK, Disconnect, Close, database
<1>3. ASSUME NEW s \in Sockets, NEW r \in Rooms, Leave(s, r) PROVE TypeOK'
  <2>1. CASE Displaced(s) /\ UNCHANGED voice
    BY <1>3, <2>1 DEF TypeOK, Leave, database, voice
  <2>2. CASE LeaveVoiceMember(UserOf(s), {r})
    BY <1>3, <2>2, WithoutTypes DEF TypeOK, Leave, LeaveVoiceMember, database
  <2>3. CASE /\ pending' = [pending EXCEPT ![UserOf(s)] = None]
             /\ socketRooms' = [socketRooms EXCEPT ![s] = @ \ {r}]
             /\ UNCHANGED <<membership, subscriptions, holders>>
    BY <1>3, <2>3 DEF Leave, TypeOK, database
  <2>. QED  BY <1>3, <2>1, <2>2, <2>3 DEF Leave
<1>4. ASSUME NEW s \in Sockets, NEW r \in Rooms, NEW m \in MediaRequests, Join(s, r, m)
      PROVE TypeOK'
  <2>. DEFINE u == UserOf(s)
              left == VoiceRoomsOf(u) \ {r}
              moderation == moderated[ServerOf[r]][u]
              media == NormalizeVoiceMedia([m EXCEPT !.speaking = FALSE],
                                           moderation, r \in AfkRooms)
  <2>1. left \in SUBSET Rooms
    BY DEF VoiceRoomsOf
  <2>2. moderation \in Moderation
    BY VoiceAssumption DEF TypeOK
  <2>3. media \in Media
    <3>1. [m EXCEPT !.speaking = FALSE] \in Media
      BY VoiceAssumption DEF Media
    <3>. QED  BY <2>2, <3>1, NormalizedIsMedia
  <2>4. [media |-> media, moderation |-> moderation,
         mediaInstanceId |-> InstanceOf[s]] \in Member
    BY <2>2, <2>3 DEF Member, Instances
  <2>5. membership' \in [Rooms -> [Users -> Member \cup {None}]]
    <3>. DEFINE base == MembershipWithout(u, left)
                new == [media |-> media, moderation |-> moderation,
                        mediaInstanceId |-> InstanceOf[s]]
    <3>1. base \in [Rooms -> [Users -> Member \cup {None}]]
      BY <2>1, WithoutTypes
    <3>2. membership' = [base EXCEPT ![r][u] = new]
      BY <1>4 DEF Join
    <3>3. new \in Member
      BY <2>4
    <3>. HIDE DEF base, new
    <3>. QED  BY <3>1, <3>2, <3>3
  <2>6. subscriptions' \in [Rooms -> [Users -> SUBSET VisualTarget]]
    BY <1>4, <2>1, WithoutTypes DEF Join
  <2>7. /\ holders' \in [Users -> Holder \cup {None}]
        /\ pending' \in [Users -> Sessions \cup {None}]
        /\ instance' \in [Sockets -> Instances \cup {None}]
    BY <1>4 DEF Join, TypeOK, Holder, Instances
  <2>8. socketRooms' \in [Sockets -> SUBSET Rooms]
    BY <1>4, <2>1 DEF Join, TypeOK
  <2>. QED  BY <1>4, <2>5, <2>6, <2>7, <2>8 DEF Join, TypeOK, database
<1>5. ASSUME NEW s \in Sockets, NEW r \in Rooms, NEW m \in MediaRequests,
             SetMediaState(s, r, m)
      PROVE TypeOK'
  <2>1. PICK new \in Member :
          membership' = [membership EXCEPT
                            ![r] = [membership[r] EXCEPT ![UserOf(s)] = new]]
    BY <1>5, MediaStateIsMember
  <2>2. membership' \in [Rooms -> [Users -> Member \cup {None}]]
    BY <2>1 DEF TypeOK
  <2>3. subscriptions' \in [Rooms -> [Users -> SUBSET VisualTarget]]
    BY <1>5 DEF SetMediaState, TypeOK
  <2>. QED  BY <1>5, <2>2, <2>3 DEF SetMediaState, TypeOK, database, transport
<1>6. ASSUME NEW s \in Sockets, NEW r \in Rooms, NEW T \in SUBSET VisualTarget,
             SetVisualSubscriptions(s, r, T)
      PROVE TypeOK'
  BY <1>6 DEF TypeOK, SetVisualSubscriptions, database, transport
<1>7. ASSUME NEW u \in Users, GraceExpires(u) PROVE TypeOK'
  <2>1. VoiceRoomsOf(u) \in SUBSET Rooms
    BY DEF VoiceRoomsOf
  <2>2. CASE LeaveVoiceMember(u, VoiceRoomsOf(u))
    BY <1>7, <2>1, <2>2, WithoutTypes DEF TypeOK, GraceExpires, LeaveVoiceMember, database
  <2>3. CASE /\ pending' = [pending EXCEPT ![u] = None]
             /\ UNCHANGED <<membership, subscriptions, holders, socketRooms>>
    BY <1>7, <2>3 DEF TypeOK, GraceExpires, database
  <2>. QED  BY <1>7, <2>2, <2>3 DEF GraceExpires
<1>8. ASSUME NEW u \in Users, NEW r \in Rooms, DisconnectMember(r, u) PROVE TypeOK'
  BY <1>8, WithoutTypes DEF TypeOK, DisconnectMember, LeaveVoiceMember, database
<1>9. ASSUME NEW u \in Users, NEW sv \in Servers, RevokeServerAccess(sv, u) PROVE TypeOK'
  <2>1. ServerVoiceRoomsOf(sv, u) \in SUBSET Rooms
    BY DEF ServerVoiceRoomsOf, VoiceRoomsOf
  <2>2. CASE LeaveVoiceMember(u, ServerVoiceRoomsOf(sv, u))
    BY <1>9, <2>1, <2>2, WithoutTypes DEF TypeOK, RevokeServerAccess, LeaveVoiceMember
  <2>3. CASE UNCHANGED <<voice, socketRooms>>
    BY <1>9, <2>3 DEF TypeOK, RevokeServerAccess, voice
  <2>. QED  BY <1>9, <2>2, <2>3 DEF RevokeServerAccess, ForceLeave
<1>10. ASSUME NEW u \in Users, NEW sv \in Servers, GrantServerAccess(sv, u) PROVE TypeOK'
  BY <1>10 DEF TypeOK, GrantServerAccess, transport, voice
<1>11. ASSUME NEW u \in Users, NEW sv \in Servers, NEW m \in ModerationRequests,
              UpdateModeration(sv, u, m)
       PROVE TypeOK'
  BY VoiceAssumption, RemoderatedIsMember, <1>11 DEF ServerVoiceRoomsOf, VoiceRoomsOf, IsMember, TypeOK,
     UpdateModeration, transport
<1>12. ASSUME NEW r \in Rooms, DeleteRoom(r) PROVE TypeOK'
  BY <1>12 DEF TypeOK, DeleteRoom, TearDown
<1>13. ASSUME NEW sv \in Servers, DeleteServer(sv) PROVE TypeOK'
  BY <1>13 DEF TypeOK, DeleteServer, TearDown
<1>14. ASSUME NEW u \in Users, TerminateAccount(u) PROVE TypeOK'
  BY <1>14, WithoutTypes DEF VoiceRoomsOf, TerminateAccount, TypeOK, SocketsForUser, Close
<1>15. ASSUME NEW d \in Sessions, DisconnectDevice(d) PROVE TypeOK'
  BY VoiceAssumption, <1>15 DEF TypeOK, DisconnectDevice, Close
<1>16. CASE Restart
  BY <1>16 DEF TypeOK, Restart, Close, database
<1>17. CASE UNCHANGED vars
  BY <1>17 DEF TypeOK, vars, database, transport, voice
<1>. QED
  BY <1>1, <1>2, <1>3, <1>4, <1>5, <1>6, <1>7, <1>8, <1>9, <1>10, <1>11, <1>12,
     <1>13, <1>14, <1>15, <1>16, <1>17 DEF Next, SocketNext, OwnerNext

\* Every variable keeps its type: the four maps hold whole member states,
\* holders and timers or nothing.
THEOREM TypeCorrect == Spec => []TypeOK
BY InitTypeOK, NextTypeOK, PTL DEF Spec

------------------------
(* The invariant about calls, one account at a time. *)

CallOK(v) ==
    /\ holders[v] # None => AccountOf[holders[v].sessionId] = v
    /\ \A r \in Rooms : IsMember(r, v) => holders[v] # None /\ holders[v].roomId = r
    /\ \A r \in Rooms : \A s \in SignalTargets(r, v) :
            IsMember(r, v) /\ holders[v].sessionId = SessionOf[s]
    /\ VoiceRoomsOf(v) # {} =>
            \/ SocketsForSession(holders[v].sessionId) # {}
            \/ pending[v] = holders[v].sessionId

LEMMA CallInvPerAccount ==
    /\ CallInv <=> \A v \in Users : CallOK(v)
    /\ CallInv' <=> \A v \in Users : CallOK(v)'
BY DEF CallInv, CallOK, HoldersAreOwn, OneRoomPerAccount, SignalsReachOnlyTheHolder,
       NobodyIsStranded

\* Nothing about v's call changed, except that sockets may have left rooms.
Untouched(v) ==
    /\ \A r \in Rooms : (membership'[r][v] # None) <=> IsMember(r, v)
    /\ holders'[v] = holders[v]
    /\ pending'[v] = pending[v]
    /\ \A s \in Sockets : UserOf(s) = v =>
            /\ s \in connected' <=> s \in connected
            /\ s \in connected => socketRooms'[s] \subseteq socketRooms[s]

\* v is in no voice room any more, and none of its sockets is.
CallEnded(v) ==
    /\ \A r \in Rooms : membership'[r][v] = None
    /\ holders'[v] \in {None, holders[v]}
    /\ \A s \in Sockets : UserOf(s) = v /\ s \in connected' =>
            /\ s \in connected
            /\ socketRooms'[s] \subseteq {r \in socketRooms[s] : ~IsMember(r, v)}

LEMMA UntouchedKeepsCall ==
    ASSUME NEW v \in Users, TypeOK, TypeOK', CallOK(v), Untouched(v)
    PROVE  CallOK(v)'
BY DEF CallOK, Untouched, IsMember, SignalTargets, SocketsForUser, TypeOK, UserOf, VoiceRoomsOf, SocketsForSession

LEMMA EndedCallIsOK ==
    ASSUME NEW v \in Users, TypeOK, TypeOK', CallOK(v), CallEnded(v)
    PROVE  CallOK(v)'
BY DEF CallOK, CallEnded, IsMember, SignalTargets, SocketsForUser, TypeOK, UserOf, VoiceRoomsOf

\* leaveVoiceMember of the rooms R that hold u ends u's call, there being one
\* room at most, and touches nobody else's.
LEMMA LeavingEndsTheCall ==
    ASSUME TypeOK, CallInv, NEW u \in Users, NEW R \in SUBSET VoiceRoomsOf(u), R # {},
           membership' = MembershipWithout(u, R),
           holders' = HoldersWithout(u, R),
           pending' = [pending EXCEPT ![u] = None],
           socketRooms' = SocketRoomsWithout(u, R),
           UNCHANGED connected
    PROVE  CallEnded(u) /\ \A v \in Users \ {u} : Untouched(v)
BY DEF VoiceRoomsOf, CallInv, OneRoomPerAccount, MembershipWithout, TypeOK, IsMember, HoldersWithout,
   SocketRoomsWithout, CallEnded, Untouched

------------------------
(* One lemma per kind of step. *)

LEMMA ConnectKeepsCalls ==
    ASSUME TypeOK, TypeOK', CallInv, NEW s \in Sockets, Connect(s)
    PROVE  CallInv'
BY CallInvPerAccount DEF Connect, voice, TypeOK, SocketsForUser, UserOf, SignalTargets, SocketsForSession, CallOK,
   IsMember, VoiceRoomsOf

LEMMA DisconnectKeepsCalls ==
    ASSUME TypeOK, TypeOK', CallInv, NEW s \in Sockets, Disconnect(s)
    PROVE  CallInv'
<1>. DEFINE u == UserOf(s)
<1>1. SUFFICES ASSUME NEW v \in Users PROVE CallOK(v)'
  BY CallInvPerAccount
<1>2. CallOK(v)
  BY CallInvPerAccount
<1>3. /\ UNCHANGED <<membership, holders>>
      /\ connected' = connected \ {s}
      /\ \A t \in connected' : socketRooms'[t] = socketRooms[t]
  BY DEF Disconnect, Close, TypeOK
<1>4. pending' = IF Displaced(s) THEN pending
                 ELSE [pending EXCEPT ![u] = SessionOf[s]]
  BY DEF Disconnect
<1>5. \A r \in Rooms : SignalTargets(r, v)' \subseteq SignalTargets(r, v)
  BY <1>3 DEF SignalTargets, SocketsForUser
<1>6. ASSUME VoiceRoomsOf(v) # {}
      PROVE  \/ SocketsForSession(holders[v].sessionId)' # {}
             \/ pending'[v] = holders[v].sessionId
  BY <1>2, <1>6, <1>4, UserOfType, <1>3 DEF CallOK, VoiceRoomsOf, Displaced, UserOf, TypeOK, SocketsForSession
<1>. QED
  BY <1>2, <1>3, <1>5, <1>6 DEF CallOK, IsMember, VoiceRoomsOf

LEMMA LeaveKeepsCalls ==
    ASSUME TypeOK, TypeOK', CallInv, NEW s \in Sockets, NEW r \in Rooms, Leave(s, r)
    PROVE  CallInv'
<1>. DEFINE u == UserOf(s)
<1>1. SUFFICES ASSUME NEW v \in Users PROVE CallOK(v)'
  BY CallInvPerAccount
<1>2. CallOK(v) /\ CallOK(u)
  BY CallInvPerAccount, UserOfType
<1>3. s \in connected /\ UNCHANGED connected
  BY DEF Leave
<1>4. CASE /\ Displaced(s)
           /\ socketRooms' = [socketRooms EXCEPT ![s] = @ \ {r}]
           /\ UNCHANGED voice
  BY <1>3, <1>4, <1>2, UntouchedKeepsCall DEF Untouched, voice, IsMember, TypeOK
<1>5. CASE IsMember(r, u) /\ LeaveVoiceMember(u, {r})
  BY <1>5, <1>3, LeavingEndsTheCall, UserOfType, <1>2, UntouchedKeepsCall, EndedCallIsOK DEF VoiceRoomsOf,
     LeaveVoiceMember
<1>6. CASE /\ ~Displaced(s)
           /\ ~IsMember(r, u)
           /\ pending' = [pending EXCEPT ![u] = None]
           /\ socketRooms' = [socketRooms EXCEPT ![s] = @ \ {r}]
           /\ UNCHANGED <<membership, subscriptions, holders>>
  BY <1>3, <1>6, <1>2, UntouchedKeepsCall DEF Untouched, IsMember, TypeOK, SignalTargets, SocketsForUser, CallOK,
     VoiceRoomsOf, Displaced, SocketsForSession
<1>. QED  BY <1>4, <1>5, <1>6 DEF Leave

\* Whoever joins a room is a member of it.
LEMMA JoinedIsMember ==
    ASSUME TypeOK, NEW s \in Sockets, NEW r \in Rooms, NEW m \in MediaRequests,
           Join(s, r, m)
    PROVE  IsMember(r, UserOf(s))'
<1>. DEFINE u == UserOf(s)
            left == VoiceRoomsOf(u) \ {r}
            new == [media |-> NormalizeVoiceMedia([m EXCEPT !.speaking = FALSE],
                                  moderated[ServerOf[r]][u], r \in AfkRooms),
                    moderation |-> moderated[ServerOf[r]][u],
                    mediaInstanceId |-> InstanceOf[s]]
            base == MembershipWithout(u, left)
<1>1. base \in [Rooms -> [Users -> Member \cup {None}]]
  BY WithoutTypes, UserOfType DEF VoiceRoomsOf
<1>2. new \in Member
  <2>1. [m EXCEPT !.speaking = FALSE] \in Media
    BY VoiceAssumption DEF Media
  <2>2. moderated[ServerOf[r]][u] \in Moderation
    BY VoiceAssumption, UserOfType DEF TypeOK
  <2>. QED  BY <2>1, <2>2, NormalizedIsMedia DEF Member, Instances
<1>3. membership' = [base EXCEPT ![r][u] = new]
  BY DEF Join
<1>4. membership'[r][u] = new
  <2>. HIDE DEF new, base
  <2>. QED  BY <1>1, <1>3, UserOfType
<1>. QED  BY <1>2, <1>4, NoneAssumption DEF IsMember

LEMMA JoinKeepsCalls ==
    ASSUME TypeOK, TypeOK', CallInv, NEW s \in Sockets, NEW r \in Rooms,
           NEW m \in MediaRequests, Join(s, r, m)
    PROVE  CallInv'
<1>. DEFINE u == UserOf(s)
            left == VoiceRoomsOf(u) \ {r}
<1>1. SUFFICES ASSUME NEW v \in Users PROVE CallOK(v)'
  BY CallInvPerAccount
<1>2. CallOK(v) /\ CallOK(u)
  BY CallInvPerAccount, UserOfType
<1>3. /\ s \in connected
      /\ UNCHANGED connected
      /\ holders' = [holders EXCEPT ![u] = [roomId |-> r, sessionId |-> SessionOf[s]]]
      /\ pending' = [pending EXCEPT ![u] = None]
  BY DEF Join
<1>4. \A x \in Rooms : \A w \in Users \ {u} : membership'[x][w] = membership[x][w]
  BY UserOfType DEF Join, MembershipWithout, TypeOK
<1>5. \A x \in Rooms \ {r} : membership'[x][u] = None
  BY UserOfType DEF Join, MembershipWithout, TypeOK, VoiceRoomsOf, IsMember
<1>6. membership'[r][u] # None
  BY JoinedIsMember DEF IsMember
<1>7. CASE v # u
  <2>1. \A t \in Sockets : UserOf(t) = v => socketRooms'[t] = socketRooms[t]
    BY <1>7 DEF Join
  <2>2. Untouched(v)
    BY <1>3, <1>4, <1>7, <2>1 DEF Untouched, IsMember, TypeOK
  <2>. QED  BY <1>2, <2>2, UntouchedKeepsCall
<1>8. CASE v = u
  <2>1. holders'[u] = [roomId |-> r, sessionId |-> SessionOf[s]]
    BY <1>3, UserOfType DEF TypeOK
  <2>2. holders'[u] # None
    BY <2>1, NoneAssumption, UserOfType DEF Holder
  <2>3. AccountOf[holders'[u].sessionId] = u
    BY <2>1 DEF UserOf
  <2>4. \A x \in Rooms : IsMember(x, u)' <=> x = r
    BY <1>5, <1>6 DEF IsMember
  <2>5. ASSUME NEW x \in Rooms, NEW t \in SignalTargets(x, u)'
        PROVE  x = r /\ SessionOf[t] = SessionOf[s]
    <3>1. t \in Sockets /\ t \in connected /\ UserOf(t) = u /\ x \in socketRooms'[t]
      BY <1>3, <2>5 DEF SignalTargets, SocketsForUser, TypeOK, UserOf
    <3>2. x \in socketRooms[t] =>
            IsMember(x, u) /\ holders[u].roomId = x /\ holders[u].sessionId = SessionOf[t]
      BY <1>2, <3>1 DEF CallOK, SignalTargets, SocketsForUser
    <3>3. x \in left => x \notin socketRooms'[t]
      BY <3>1 DEF Join
    <3>4. CASE t = s
      BY <3>1, <3>2, <3>3, <3>4 DEF Join, VoiceRoomsOf
    <3>5. CASE t # s
      BY <3>1, <3>2, <3>3, <3>5, <1>2 DEF Join, VoiceRoomsOf, CallOK
    <3>. QED  BY <3>4, <3>5
  <2>6. s \in SocketsForSession(SessionOf[s])'
    BY <1>3 DEF SocketsForSession
  <2>. QED  BY <1>8, <2>1, <2>2, <2>3, <2>4, <2>5, <2>6 DEF CallOK
<1>. QED  BY <1>7, <1>8

LEMMA GraceKeepsCalls ==
    ASSUME TypeOK, TypeOK', CallInv, NEW u \in Users, GraceExpires(u)
    PROVE  CallInv'
<1>1. SUFFICES ASSUME NEW v \in Users PROVE CallOK(v)'
  BY CallInvPerAccount
<1>2. CallOK(v) /\ CallOK(u)
  BY CallInvPerAccount
<1>3. UNCHANGED connected
  BY DEF GraceExpires
<1>4. CASE LeaveVoiceMember(u, VoiceRoomsOf(u)) /\ VoiceRoomsOf(u) # {}
  BY <1>3, <1>4, LeavingEndsTheCall, <1>2, UntouchedKeepsCall, EndedCallIsOK DEF LeaveVoiceMember
<1>5. CASE LeaveVoiceMember(u, VoiceRoomsOf(u)) /\ VoiceRoomsOf(u) = {}
  BY <1>5, <1>3, <1>2, EndedCallIsOK, UntouchedKeepsCall DEF LeaveVoiceMember, MembershipWithout, HoldersWithout,
     SocketRoomsWithout, VoiceRoomsOf, CallEnded, IsMember, TypeOK, Untouched
<1>6. CASE /\ \/ SocketsForSession(pending[u]) # {}
              \/ holders[u] = None
              \/ holders[u] # None /\ holders[u].sessionId # pending[u]
           /\ pending' = [pending EXCEPT ![u] = None]
           /\ UNCHANGED <<membership, subscriptions, holders, socketRooms>>
  BY <1>3, <1>6, <1>2, UntouchedKeepsCall DEF Untouched, IsMember, TypeOK, SignalTargets, SocketsForUser, CallOK,
     VoiceRoomsOf, SocketsForSession
<1>. QED  BY <1>4, <1>5, <1>6 DEF GraceExpires

\* A step that only narrows rooms or ends calls, one way or the other for each
\* account, keeps the invariant.
LEMMA EachUntouchedOrEnded ==
    ASSUME TypeOK, TypeOK', CallInv, \A v \in Users : Untouched(v) \/ CallEnded(v)
    PROVE  CallInv'
BY UntouchedKeepsCall, EndedCallIsOK, CallInvPerAccount

\* A media change and an owner's mute change member states, not who is a member.
LEMMA MediaTouchesNoCall ==
    ASSUME TypeOK, TypeOK', CallInv, NEW s \in Sockets, NEW r \in Rooms,
           NEW m \in MediaRequests, SetMediaState(s, r, m)
    PROVE  \A v \in Users : Untouched(v)
<1>. DEFINE u == UserOf(s)
<1>1. \A x \in Rooms : \A v \in Users : (membership'[x][v] # None) <=> IsMember(x, v)
  <2>1. membership[r][u] # None
    BY DEF SetMediaState, IsVoiceSocketMember, IsMember
  <2>2. \A x \in Rooms : \A v \in Users :
            x # r \/ v # u => membership'[x][v] = membership[x][v]
    BY UserOfType DEF SetMediaState, TypeOK
  <2>3. membership'[r][u] # None
    BY MediaStateIsMember, UserOfType, NoneAssumption DEF TypeOK
  <2>. QED  BY <2>1, <2>2, <2>3 DEF IsMember
<1>2. UNCHANGED <<holders, pending, connected, socketRooms>>
  BY DEF SetMediaState, transport
<1>. QED  BY <1>1, <1>2 DEF Untouched

LEMMA ModerationTouchesNoCall ==
    ASSUME TypeOK, TypeOK', CallInv, NEW sv \in Servers, NEW u \in Users,
           NEW m \in ModerationRequests, UpdateModeration(sv, u, m)
    PROVE  \A v \in Users : Untouched(v)
BY VoiceAssumption, RemoderatedIsMember, NoneAssumption DEF ServerVoiceRoomsOf, VoiceRoomsOf, IsMember, TypeOK,
   UpdateModeration, transport, Untouched

LEMMA TearDownKeepsCalls ==
    ASSUME TypeOK, TypeOK', CallInv, NEW R \in SUBSET Rooms, TearDown(R),
           UNCHANGED connected
    PROVE  CallInv'
<1>1. ASSUME NEW v \in Users PROVE Untouched(v) \/ CallEnded(v)
  <2>1. CASE \E x \in R : IsMember(x, v)
    <3>1. PICK x \in R : IsMember(x, v)
      BY <2>1
    <3>2. \A r \in Rooms : IsMember(r, v) => r = x
      BY <3>1 DEF CallInv, OneRoomPerAccount
    <3>3. \A r \in Rooms : membership'[r][v] = None
      BY <3>1, <3>2 DEF TearDown, TypeOK, IsMember
    <3>4. \A s \in Sockets : socketRooms'[s] = socketRooms[s] \ R
                             /\ socketRooms[s] \subseteq Rooms
      BY DEF TearDown, TypeOK
    <3>5. \A s \in Sockets :
              socketRooms'[s] \subseteq {r \in socketRooms[s] : ~IsMember(r, v)}
      BY <3>1, <3>2, <3>4
    <3>. QED  BY <3>3, <3>5 DEF CallEnded, TearDown
  <2>2. CASE \A x \in R : ~IsMember(x, v)
    <3>1. \A r \in Rooms : (membership'[r][v] # None) <=> IsMember(r, v)
      BY <2>2 DEF TearDown, IsMember, TypeOK
    <3>. QED  BY <3>1 DEF Untouched, TearDown
  <2>. QED  BY <2>1, <2>2
<1>. QED  BY <1>1, EachUntouchedOrEnded

LEMMA TerminationKeepsCalls ==
    ASSUME TypeOK, TypeOK', CallInv, NEW u \in Users, TerminateAccount(u)
    PROVE  CallInv'
<1>. DEFINE R == VoiceRoomsOf(u)
            S == SocketsForUser(u)
<1>1. /\ membership' = MembershipWithout(u, R)
      /\ holders' \in {holders, HoldersWithout(u, R)}
      /\ pending' = pending \/ \E d \in Sessions \cup {None} : pending' = [pending EXCEPT ![u] = d]
      /\ connected' = connected \ S
      /\ \A s \in connected' : socketRooms'[s] = socketRooms[s]
  BY DEF TerminateAccount, Close, TypeOK, SocketsForUser
<1>2. ASSUME NEW v \in Users \ {u} PROVE Untouched(v)
  BY <1>1 DEF MembershipWithout, TypeOK, HoldersWithout, SocketsForUser, Untouched, IsMember
<1>3. CallEnded(u)
  BY <1>1 DEF MembershipWithout, TypeOK, VoiceRoomsOf, IsMember, HoldersWithout, SocketsForUser, CallEnded
<1>. QED  BY <1>2, <1>3, EachUntouchedOrEnded

LEMMA DeviceKeepsCalls ==
    ASSUME TypeOK, TypeOK', CallInv, NEW d \in Sessions, DisconnectDevice(d)
    PROVE  CallInv'
<1>. DEFINE u == AccountOf[d]
            S == SocketsForSession(d)
<1>1. SUFFICES ASSUME NEW v \in Users PROVE CallOK(v)'
  BY CallInvPerAccount
<1>2. CallOK(v) /\ u \in Users
  BY CallInvPerAccount, VoiceAssumption
<1>3. /\ UNCHANGED <<membership, holders>>
      /\ connected' = connected \ S
      /\ \A t \in connected' : socketRooms'[t] = socketRooms[t]
      /\ pending' = IF \E s \in S : ~Displaced(s)
                    THEN [pending EXCEPT ![u] = d] ELSE pending
  BY DEF DisconnectDevice, Close, TypeOK
<1>4. \A r \in Rooms : SignalTargets(r, v)' \subseteq SignalTargets(r, v)
  BY <1>3 DEF SignalTargets, SocketsForUser
<1>5. ASSUME VoiceRoomsOf(v) # {}
      PROVE  \/ SocketsForSession(holders[v].sessionId)' # {}
             \/ pending'[v] = holders[v].sessionId
  BY <1>2, <1>5, <1>3 DEF CallOK, VoiceRoomsOf, SocketsForSession, Displaced, UserOf, TypeOK
<1>. QED
  BY <1>2, <1>3, <1>4, <1>5 DEF CallOK, IsMember, VoiceRoomsOf

LEMMA RestartKeepsCalls ==
    ASSUME TypeOK, TypeOK', CallInv, Restart
    PROVE  CallInv'
BY EachUntouchedOrEnded DEF Restart, Close, TypeOK, CallEnded

LEMMA InitCallInv == Init => CallInv
BY DEF Init, CallInv, HoldersAreOwn, OneRoomPerAccount, SignalsReachOnlyTheHolder,
       NobodyIsStranded, IsMember, SignalTargets, SocketsForUser, VoiceRoomsOf

LEMMA NextCallInv == TypeOK /\ TypeOK' /\ CallInv /\ [Next]_vars => CallInv'
<1>. SUFFICES ASSUME TypeOK, TypeOK', CallInv, [Next]_vars PROVE CallInv'
  OBVIOUS
<1>1. ASSUME NEW s \in Sockets, NEW r \in Rooms, NEW T \in SUBSET VisualTarget,
             SetVisualSubscriptions(s, r, T)
      PROVE  CallInv'
  BY <1>1, EachUntouchedOrEnded DEF SetVisualSubscriptions, Untouched, IsMember, transport
<1>2. CASE SocketNext
  BY <1>1, <1>2, ConnectKeepsCalls, DisconnectKeepsCalls, LeaveKeepsCalls,
     JoinKeepsCalls, MediaTouchesNoCall, EachUntouchedOrEnded DEF SocketNext
<1>3. ASSUME NEW u \in Users, NEW r \in Rooms, DisconnectMember(r, u)
      PROVE  CallInv'
  BY <1>3, LeavingEndsTheCall, EachUntouchedOrEnded DEF DisconnectMember, VoiceRoomsOf, LeaveVoiceMember
<1>4. ASSUME NEW u \in Users, NEW sv \in Servers, RevokeServerAccess(sv, u)
      PROVE  CallInv'
  <2>. DEFINE R == ServerVoiceRoomsOf(sv, u)
  <2>1. CASE R = {}
    BY <1>4, <2>1, EachUntouchedOrEnded DEF RevokeServerAccess, ForceLeave, Untouched, IsMember, voice
  <2>2. CASE R # {}
    <3>1. R \in SUBSET VoiceRoomsOf(u)
      BY DEF ServerVoiceRoomsOf
    <3>2. LeaveVoiceMember(u, R) /\ UNCHANGED connected
      BY <1>4, <2>2 DEF RevokeServerAccess, ForceLeave
    <3>3. CallEnded(u) /\ \A w \in Users \ {u} : Untouched(w)
      <4>. HIDE DEF R
      <4>. QED  BY <2>2, <3>1, <3>2, LeavingEndsTheCall DEF LeaveVoiceMember
    <3>. QED  BY <3>3, EachUntouchedOrEnded
  <2>. QED  BY <2>1, <2>2
<1>5. ASSUME NEW u \in Users, NEW sv \in Servers, GrantServerAccess(sv, u)
      PROVE  CallInv'
  BY <1>5, EachUntouchedOrEnded DEF GrantServerAccess, Untouched, IsMember, transport, voice
<1>6. ASSUME NEW r \in Rooms, DeleteRoom(r) PROVE CallInv'
  BY <1>6, TearDownKeepsCalls DEF DeleteRoom
<1>7. ASSUME NEW sv \in Servers, DeleteServer(sv) PROVE CallInv'
  BY <1>7, TearDownKeepsCalls DEF TypeOK, DeleteServer
<1>8. CASE OwnerNext
  BY <1>3, <1>4, <1>5, <1>6, <1>7, <1>8, ModerationTouchesNoCall, EachUntouchedOrEnded, TerminationKeepsCalls,
     DeviceKeepsCalls DEF OwnerNext
<1>9. CASE UNCHANGED vars
  BY <1>9, EachUntouchedOrEnded DEF Untouched, IsMember, vars, transport, voice
<1>. QED
  BY <1>2, <1>8, <1>9, GraceKeepsCalls, RestartKeepsCalls DEF Next

------------------------
\* However connects, joins, hand-offs, disconnects, timers and moderation
\* interleave, the invariant about calls holds (voice.ts, the maps holders,
\* membership and pendingDisconnects together with `socket.rooms`).
THEOREM CallSafety == Spec => []CallInv
<1>1. TypeOK /\ CallInv /\ [Next]_vars => TypeOK' /\ CallInv'
  BY NextTypeOK, NextCallInv
<1>2. Init => TypeOK /\ CallInv
  BY InitTypeOK, InitCallInv
<1>. QED  BY <1>1, <1>2, PTL DEF Spec

\* An account is in one voice room at most, and its holder names that room.
THEOREM OneRoom == Spec => []OneRoomPerAccount
BY CallSafety, PTL DEF CallInv

\* Only the Device that holds a call is reached by the room's signalling.
THEOREM SignalsReachHolder == Spec => []SignalsReachOnlyTheHolder
BY CallSafety, PTL DEF CallInv

\* A call whose Device has no connection has its grace timer armed.
THEOREM NoStrandedMember == Spec => []NobodyIsStranded
BY CallSafety, PTL DEF CallInv

------------------------
(* Who may be in a voice room, and who shows what to whom.  A set of *)
(* publishers has a size only when it is finite, and nothing says that *)
(* accounts are: they publish one at a time. *)

Publishers(r) ==
    {v \in Users : IsMember(r, v) /\ IsVisual(membership[r][v].media)}

PublishersBounded ==
    \A r \in Rooms :
        /\ IsFiniteSet(Publishers(r))
        /\ Cardinality(Publishers(r)) <= VisualPublisherLimit

RoomInv ==
    /\ MembersAreAdmitted
    /\ MutesHold
    /\ SubscriptionsJoinMembers
    /\ PublishersBounded

LEMMA RoomInvSuffices == RoomInv => MembersAreAdmitted /\ MutesHold /\ VisualsAreInOrder
BY DEF RoomInv, PublishersBounded, Publishers, VisualsAreInOrder, VisualLimitHolds

LEMMA InitRoomInv == Init => RoomInv
<1>. SUFFICES ASSUME Init PROVE RoomInv
  OBVIOUS
<1>1. \A r \in Rooms : \A v \in Users : ~IsMember(r, v) /\ subscriptions[r][v] = {}
  BY DEF Init, IsMember
<1>2. \A r \in Rooms : Publishers(r) = {}
  BY <1>1 DEF Publishers
<1>3. PublishersBounded
  BY <1>2, FS_EmptySet, VoiceAssumption DEF PublishersBounded
<1>. QED
  BY <1>1, <1>3 DEF RoomInv, MembersAreAdmitted, MutesHold, SubscriptionsJoinMembers,
                    VoiceRoomsOf

\* Fewer publishers keep the bound.
LEMMA FewerPublishers ==
    ASSUME PublishersBounded, NEW r \in Rooms, NEW P \in SUBSET Publishers(r)
    PROVE  IsFiniteSet(P) /\ Cardinality(P) <= VisualPublisherLimit
<1>1. /\ IsFiniteSet(Publishers(r))
      /\ Cardinality(Publishers(r)) <= VisualPublisherLimit
  BY DEF PublishersBounded
<1>2. IsFiniteSet(P) /\ Cardinality(P) <= Cardinality(Publishers(r))
  BY <1>1, FS_Subset
<1>3. Cardinality(P) \in Nat /\ Cardinality(Publishers(r)) \in Nat
  BY <1>1, <1>2, FS_CardinalityType
<1>. QED  BY <1>1, <1>2, <1>3, VoiceAssumption

------------------------
(* Steps that only take members and subscriptions away. *)

Thinned ==
    /\ moderated' = moderated
    /\ \A r \in Rooms : \A v \in Users :
        /\ membership'[r][v] \in {None, membership[r][v]}
        /\ membership'[r][v] # None => r \in rooms' /\ Admits(ServerOf[r], v)'
        /\ \A t \in subscriptions'[r][v] :
            /\ t \in subscriptions[r][v]
            /\ membership'[r][v] = membership[r][v]
            /\ membership'[r][t.publisher] = membership[r][t.publisher]

LEMMA ThinningKeepsRooms ==
    ASSUME RoomInv, Thinned
    PROVE  RoomInv'
BY FewerPublishers DEF Thinned, MembersAreAdmitted, VoiceRoomsOf, IsMember, RoomInv, MutesHold,
   SubscriptionsJoinMembers, Publishers, PublishersBounded

\* leaveVoiceMember of rooms R thins them, whatever else it touches; those who
\* stay in a room must still be admitted.
LEMMA LeavingThins ==
    ASSUME TypeOK, RoomInv, NEW u \in Users, NEW R \in SUBSET Rooms,
           membership' = MembershipWithout(u, R),
           subscriptions' = SubscriptionsWithout(u, R),
           UNCHANGED <<rooms, moderated>>,
           \A r \in Rooms : \A v \in Users :
              IsMember(r, v) /\ ~(v = u /\ r \in R) => Admits(ServerOf[r], v)'
    PROVE  RoomInv'
BY ThinningKeepsRooms DEF MembershipWithout, TypeOK, SubscriptionsWithout, VisualTarget, RoomInv,
   MembersAreAdmitted, VoiceRoomsOf, Thinned, IsMember

\* A step that changes neither the rooms' state nor the rows they rest on.
LEMMA SameRooms ==
    ASSUME RoomInv,
           UNCHANGED <<rooms, access, banned, moderated, membership, subscriptions>>
    PROVE  RoomInv'
BY DEF RoomInv, MembersAreAdmitted, MutesHold, SubscriptionsJoinMembers,
       PublishersBounded, Publishers, VoiceRoomsOf, IsMember, Admits

LEMMA TearDownThins ==
    ASSUME TypeOK, RoomInv, NEW R \in SUBSET Rooms, TearDown(R),
           UNCHANGED <<banned, moderated>>,
           \A r \in Rooms : r \in rooms \ R => access'[ServerOf[r]] = access[ServerOf[r]]
    PROVE  RoomInv'
BY ThinningKeepsRooms DEF TearDown, RoomInv, MembersAreAdmitted, VoiceRoomsOf, TypeOK, VisualTarget, Thinned,
   IsMember, Admits

------------------------
(* Steps that change one member state of one room. *)

\* What the guards of a join or of a media change ensure of the state they
\* install: the member is admitted, its microphone obeys the rows, and the
\* room stays within its limit.
Installed(u, r) ==
    /\ UNCHANGED <<rooms, access, banned, moderated>>
    /\ r \in rooms /\ Admits(ServerOf[r], u)
    /\ membership'[r][u] \in Member
    /\ membership'[r][u].media.mic => ~moderated[ServerOf[r]][u].muted /\ r \notin AfkRooms
    /\ ~ExceedsVisualLimit(r, u, membership'[r][u].media)
    /\ \A v \in Users \ {u} : membership'[r][v] = membership[r][v]
    /\ \A q \in Rooms \ {r} : \A v \in Users : membership'[q][v] \in {None, membership[q][v]}

LEMMA InstalledIsWithinLimit ==
    ASSUME TypeOK, RoomInv, NEW u \in Users, NEW r \in Rooms, Installed(u, r)
    PROVE  PublishersBounded'
<1>. DEFINE others == OtherVisualPublishers(r, u)
            media == membership'[r][u].media
<1>1. others = Publishers(r) \ {u}
  BY DEF OtherVisualPublishers, Publishers
<1>2. IsFiniteSet(others) /\ Cardinality(others) \in Nat
        /\ Cardinality(others) <= VisualPublisherLimit
  BY <1>1, FewerPublishers, FS_CardinalityType DEF RoomInv
<1>3. Publishers(r)' = IF IsVisual(media) THEN others \cup {u} ELSE others
  BY NoneAssumption DEF Installed, Publishers, OtherVisualPublishers, IsMember
<1>4. IsFiniteSet(Publishers(r)') /\ Cardinality(Publishers(r)') <= VisualPublisherLimit
  <2>1. CASE IsVisual(media)
    <3>1. u \notin others
      BY <1>1
    <3>2. IsFiniteSet(others \cup {u}) /\ Cardinality(others \cup {u}) = Cardinality(others) + 1
      BY <1>2, <3>1, FS_AddElement
    <3>3. Cardinality(others) + 1 <= VisualPublisherLimit
      BY <1>2, <2>1, VoiceAssumption DEF Installed, ExceedsVisualLimit
    <3>. QED  BY <1>3, <2>1, <3>2, <3>3
  <2>2. CASE ~IsVisual(media)
    BY <1>2, <1>3, <2>2
  <2>. QED  BY <2>1, <2>2
<1>5. ASSUME NEW q \in Rooms \ {r}
      PROVE  IsFiniteSet(Publishers(q)') /\ Cardinality(Publishers(q)') <= VisualPublisherLimit
  <2>1. Publishers(q)' \in SUBSET Publishers(q)
    BY DEF Installed, Publishers, IsMember
  <2>. QED  BY <2>1, FewerPublishers DEF RoomInv
<1>. QED  BY <1>4, <1>5 DEF PublishersBounded

LEMMA InstalledObeysTheRows ==
    ASSUME TypeOK, RoomInv, NEW u \in Users, NEW r \in Rooms, Installed(u, r)
    PROVE  MembersAreAdmitted' /\ MutesHold'
BY DEF Installed, IsMember, RoomInv, MembersAreAdmitted, VoiceRoomsOf, Admits, MutesHold

\* A normalised microphone is off under an owner mute and in the AFK room.
LEMMA NormalizedObeys ==
    ASSUME NEW media \in Media, NEW moderation \in Moderation, NEW r
    PROVE  /\ NormalizeVoiceMedia(media, moderation, r \in AfkRooms).mic
                => ~moderation.muted /\ r \notin AfkRooms
           /\ IsVisual(NormalizeVoiceMedia(media, moderation, r \in AfkRooms))
                <=> IsVisual(media)
BY DEF NormalizeVoiceMedia, Media, Moderation, IsVisual

LEMMA JoinKeepsRooms ==
    ASSUME TypeOK, RoomInv, NEW s \in Sockets, NEW r \in Rooms, NEW m \in MediaRequests,
           Join(s, r, m)
    PROVE  RoomInv'
<1>. DEFINE u == UserOf(s)
            left == VoiceRoomsOf(u) \ {r}
            moderation == moderated[ServerOf[r]][u]
            asked == [m EXCEPT !.speaking = FALSE]
            media == NormalizeVoiceMedia(asked, moderation, r \in AfkRooms)
            new == [media |-> media, moderation |-> moderation,
                    mediaInstanceId |-> InstanceOf[s]]
            base == MembershipWithout(u, left)
<1>1. u \in Users /\ left \in SUBSET Rooms
  BY UserOfType DEF VoiceRoomsOf
<1>2. moderation \in Moderation /\ asked \in Media
  BY <1>1, VoiceAssumption DEF TypeOK, Media
<1>3. new \in Member
  BY <1>2, NormalizedIsMedia DEF Member, Instances
<1>4. /\ membership'[r][u] = new
      /\ \A v \in Users \ {u} : membership'[r][v] = base[r][v]
      /\ \A q \in Rooms \ {r} : membership'[q] = base[q]
  <2>1. membership' = [base EXCEPT ![r][u] = new]
    BY DEF Join
  <2>2. base \in [Rooms -> [Users -> Member \cup {None}]]
    BY <1>1, WithoutTypes
  <2>. HIDE DEF base, new
  <2>. QED  BY <1>1, <2>1, <2>2
<1>5. \A q \in Rooms : \A v \in Users :
        base[q][v] = IF v = u /\ q \in left THEN None ELSE membership[q][v]
  BY DEF MembershipWithout, TypeOK
<1>6. Installed(u, r)
  <2>1. UNCHANGED <<rooms, access, banned, moderated>> /\ r \in rooms
          /\ Admits(ServerOf[r], u)
    BY DEF Join, database
  <2>2. ~ExceedsVisualLimit(r, u, media)
    BY DEF Join
  <2>3. media.mic => ~moderation.muted /\ r \notin AfkRooms
    BY <1>2, NormalizedObeys
  <2>4. membership'[r][u] \in Member /\ membership'[r][u].media = media
    BY <1>3, <1>4
  <2>. HIDE DEF media, new, base
  <2>. QED  BY <1>4, <1>5, <2>1, <2>2, <2>3, <2>4 DEF Installed
<1>7. SubscriptionsJoinMembers'
  <2>1. subscriptions' = SubscriptionsWithout(u, left)
    BY DEF Join
  <2>2. ASSUME NEW q \in Rooms, NEW v \in Users, NEW t \in subscriptions'[q][v]
        PROVE  /\ t \in subscriptions[q][v]
               /\ ~(v = u /\ q \in left) /\ ~(t.publisher = u /\ q \in left)
    BY <2>1, <2>2 DEF SubscriptionsWithout
  <2>3. \A q \in Rooms : \A v \in Users : \A t \in subscriptions[q][v] :
            /\ t.publisher \in Users
            /\ IsMember(q, v) /\ IsMember(q, t.publisher) /\ t.publisher # v
    BY DEF TypeOK, VisualTarget, RoomInv, SubscriptionsJoinMembers
  <2>4. \A q \in Rooms : \A v \in Users :
            IsMember(q, v) /\ ~(v = u /\ q \in left) => IsMember(q, v)'
    <3>. HIDE DEF new, base
    <3>. QED  BY <1>3, <1>4, <1>5, NoneAssumption DEF IsMember
  <2>. QED  BY <2>2, <2>3, <2>4 DEF SubscriptionsJoinMembers
<1>. QED
  BY <1>1, <1>6, <1>7, InstalledIsWithinLimit, InstalledObeysTheRows DEF RoomInv

LEMMA MediaKeepsRooms ==
    ASSUME TypeOK, RoomInv, NEW s \in Sockets, NEW r \in Rooms, NEW m \in MediaRequests,
           SetMediaState(s, r, m)
    PROVE  RoomInv'
<1>. DEFINE u == UserOf(s)
            moderation == moderated[ServerOf[r]][u]
            media == NormalizeVoiceMedia(m, moderation, r \in AfkRooms)
            new == [media |-> media, moderation |-> moderation,
                    mediaInstanceId |-> membership[r][u].mediaInstanceId]
<1>1. u \in Users /\ moderation \in Moderation /\ m \in Media
  BY UserOfType, VoiceAssumption DEF TypeOK
<1>2. membership[r][u] \in Member
  BY <1>1 DEF SetMediaState, IsVoiceSocketMember, IsMember, TypeOK
<1>3. new \in Member
  BY <1>1, <1>2, NormalizedIsMedia DEF Member
<1>4. /\ membership'[r][u] = new
      /\ \A q \in Rooms : \A v \in Users : q # r \/ v # u =>
            membership'[q][v] = membership[q][v]
  <2>1. membership' = [membership EXCEPT ![r] = [membership[r] EXCEPT ![u] = new]]
    BY DEF SetMediaState, TypeOK
  <2>. HIDE DEF new
  <2>. QED  BY <1>1, <2>1 DEF TypeOK
<1>5. Installed(u, r)
  <2>1. UNCHANGED <<rooms, access, banned, moderated>> /\ r \in rooms
          /\ Admits(ServerOf[r], u)
    BY DEF SetMediaState, database
  <2>2. ~ExceedsVisualLimit(r, u, media)
    BY DEF SetMediaState
  <2>3. media.mic => ~moderation.muted /\ r \notin AfkRooms
    BY <1>1, NormalizedObeys
  <2>4. membership'[r][u] \in Member /\ membership'[r][u].media = media
    BY <1>3, <1>4
  <2>. HIDE DEF media, new
  <2>. QED  BY <1>4, <2>1, <2>2, <2>3, <2>4 DEF Installed
<1>6. SubscriptionsJoinMembers'
  <2>1. \A q \in Rooms : \A v \in Users : subscriptions'[q][v] \subseteq subscriptions[q][v]
    BY DEF SetMediaState, TypeOK
  <2>2. \A q \in Rooms : \A v \in Users : IsMember(q, v) => IsMember(q, v)'
    <3>. HIDE DEF new
    <3>. QED  BY <1>3, <1>4, NoneAssumption DEF IsMember
  <2>3. \A q \in Rooms : \A v \in Users : \A t \in subscriptions[q][v] : t.publisher \in Users
    BY DEF TypeOK, VisualTarget
  <2>. QED  BY <2>1, <2>2, <2>3 DEF RoomInv, SubscriptionsJoinMembers
<1>. QED
  BY <1>1, <1>5, <1>6, InstalledIsWithinLimit, InstalledObeysTheRows DEF RoomInv

LEMMA SubscribingKeepsRooms ==
    ASSUME TypeOK, RoomInv, NEW s \in Sockets, NEW r \in Rooms,
           NEW T \in SUBSET VisualTarget, SetVisualSubscriptions(s, r, T)
    PROVE  RoomInv'
<1>1. UNCHANGED <<rooms, access, banned, moderated, membership>>
  BY DEF SetVisualSubscriptions, database
<1>2. \A q \in Rooms : \A v \in Users :
        subscriptions'[q][v] = IF q = r /\ v = UserOf(s) THEN T ELSE subscriptions[q][v]
  BY UserOfType DEF SetVisualSubscriptions, TypeOK
<1>3. IsMember(r, UserOf(s))
        /\ \A t \in T : t.publisher # UserOf(s) /\ IsMember(r, t.publisher)
  BY DEF SetVisualSubscriptions, IsVoiceSocketMember
<1>4. SubscriptionsJoinMembers'
  BY <1>1, <1>2, <1>3 DEF RoomInv, SubscriptionsJoinMembers, IsMember
<1>5. MembersAreAdmitted' /\ MutesHold' /\ PublishersBounded'
  BY <1>1 DEF RoomInv, MembersAreAdmitted, MutesHold, PublishersBounded, Publishers,
              VoiceRoomsOf, IsMember, Admits
<1>. QED  BY <1>4, <1>5 DEF RoomInv

\* An owner's mute reaches the live microphone in every room of that server:
\* a member's room always exists, so none of them is passed over.
LEMMA ModerationKeepsRooms ==
    ASSUME TypeOK, RoomInv, NEW sv \in Servers, NEW u \in Users,
           NEW m \in ModerationRequests, UpdateModeration(sv, u, m)
    PROVE  RoomInv'
<1>1. m \in Moderation /\ UNCHANGED <<rooms, access, banned, subscriptions>>
  BY VoiceAssumption DEF UpdateModeration
<1>2. \A q \in Rooms : \A v \in Users :
        membership'[q][v] = IF v = u /\ q \in ServerVoiceRoomsOf(sv, u)
                            THEN Remoderated(membership[q][u], m, q \in AfkRooms)
                            ELSE membership[q][v]
  BY DEF UpdateModeration, TypeOK
<1>3. ASSUME NEW q \in ServerVoiceRoomsOf(sv, u)
      PROVE  /\ membership[q][u] \in Member
             /\ Remoderated(membership[q][u], m, q \in AfkRooms) \in Member
             /\ Remoderated(membership[q][u], m, q \in AfkRooms).media.mic
                    => ~m.muted /\ q \notin AfkRooms
             /\ IsVisual(Remoderated(membership[q][u], m, q \in AfkRooms).media)
                    <=> IsVisual(membership[q][u].media)
  <2>1. membership[q][u] \in Member /\ membership[q][u].media \in Media
    BY DEF ServerVoiceRoomsOf, VoiceRoomsOf, IsMember, TypeOK, Member
  <2>2. Remoderated(membership[q][u], m, q \in AfkRooms) \in Member
    BY <1>1, <2>1, RemoderatedIsMember
  <2>3. Remoderated(membership[q][u], m, q \in AfkRooms).media
            = NormalizeVoiceMedia(membership[q][u].media, m, q \in AfkRooms)
    BY <2>1 DEF Remoderated, Member
  <2>. QED  BY <1>1, <2>1, <2>2, <2>3, NormalizedObeys
<1>4. \A q \in Rooms : \A v \in Users :
        /\ IsMember(q, v)' <=> IsMember(q, v)
        /\ IsMember(q, v) => (IsVisual(membership'[q][v].media)
                                <=> IsVisual(membership[q][v].media))
  BY <1>2, <1>3, NoneAssumption DEF IsMember
<1>5. MembersAreAdmitted' /\ SubscriptionsJoinMembers'
  <2>1. \A q \in Rooms : \A v \in Users : \A t \in subscriptions[q][v] : t.publisher \in Users
    BY DEF TypeOK, VisualTarget
  <2>. QED
    BY <1>1, <1>4, <2>1 DEF RoomInv, MembersAreAdmitted, SubscriptionsJoinMembers,
                            VoiceRoomsOf, Admits
<1>6. PublishersBounded'
  BY <1>4 DEF Publishers, RoomInv, PublishersBounded
<1>7. MutesHold'
  BY <1>4, VoiceAssumption, <1>2, <1>3 DEF MutesHold, VoiceRoomsOf, RoomInv, MembersAreAdmitted, ServerVoiceRoomsOf,
     UpdateModeration, TypeOK
<1>. QED  BY <1>5, <1>6, <1>7 DEF RoomInv

------------------------
LEMMA NextRoomInv == TypeOK /\ RoomInv /\ [Next]_vars => RoomInv'
<1>. SUFFICES ASSUME TypeOK, RoomInv, [Next]_vars PROVE RoomInv'
  OBVIOUS
<1>0. \A r \in Rooms : \A v \in Users :
        IsMember(r, v) => r \in rooms /\ Admits(ServerOf[r], v)
  BY DEF RoomInv, MembersAreAdmitted, VoiceRoomsOf
<1>1. ASSUME NEW s \in Sockets, Connect(s) \/ Disconnect(s) PROVE RoomInv'
  BY <1>1, SameRooms DEF Connect, Disconnect, database, voice
\* leaveVoiceMember while no row changes.
<1>2. ASSUME NEW u \in Users, NEW R \in SUBSET Rooms, LeaveVoiceMember(u, R),
             UNCHANGED database
      PROVE  RoomInv'
  BY <1>0, <1>2, LeavingThins DEF database, Admits, LeaveVoiceMember
<1>3. ASSUME NEW s \in Sockets, NEW r \in Rooms, Leave(s, r) PROVE RoomInv'
  BY <1>2, <1>3, UserOfType, SameRooms DEF Leave, database, voice
<1>4. CASE SocketNext
  BY <1>1, <1>3, <1>4, JoinKeepsRooms, MediaKeepsRooms, SubscribingKeepsRooms DEF SocketNext
<1>5. ASSUME NEW u \in Users, GraceExpires(u) PROVE RoomInv'
  BY <1>2, <1>5, SameRooms DEF GraceExpires, VoiceRoomsOf, database
<1>6. ASSUME NEW u \in Users, TerminateAccount(u) PROVE RoomInv'
  BY <1>0, <1>6, LeavingThins DEF TerminateAccount, Admits, VoiceRoomsOf
<1>7. ASSUME NEW u \in Users, NEW r \in Rooms, DisconnectMember(r, u) PROVE RoomInv'
  BY <1>2, <1>7 DEF DisconnectMember
<1>8. ASSUME NEW u \in Users, NEW sv \in Servers, RevokeServerAccess(sv, u) PROVE RoomInv'
  <2>. DEFINE R == ServerVoiceRoomsOf(sv, u)
  <2>1. /\ membership' = MembershipWithout(u, R)
        /\ subscriptions' = SubscriptionsWithout(u, R)
    BY <1>8 DEF RevokeServerAccess, ForceLeave, voice, TypeOK, MembershipWithout, SubscriptionsWithout,
       LeaveVoiceMember
  <2>2. ASSUME NEW r \in Rooms, NEW v \in Users, IsMember(r, v), ~(v = u /\ r \in R)
        PROVE  Admits(ServerOf[r], v)'
    BY <1>0, <2>2, VoiceAssumption, <1>8 DEF ServerVoiceRoomsOf, VoiceRoomsOf, RevokeServerAccess, Admits, TypeOK
  <2>3. R \in SUBSET Rooms
    BY DEF ServerVoiceRoomsOf, VoiceRoomsOf
  <2>4. UNCHANGED <<rooms, moderated>>
    BY <1>8 DEF RevokeServerAccess
  <2>. HIDE DEF R
  <2>. QED  BY <2>1, <2>2, <2>3, <2>4, LeavingThins
<1>9. ASSUME NEW u \in Users, NEW sv \in Servers, GrantServerAccess(sv, u) PROVE RoomInv'
  BY <1>9, VoiceAssumption, <1>0, ThinningKeepsRooms DEF GrantServerAccess, voice, Admits, TypeOK, VisualTarget,
     Thinned, IsMember
<1>10. ASSUME NEW r \in Rooms, DeleteRoom(r) PROVE RoomInv'
  BY <1>10, TearDownThins DEF DeleteRoom
<1>11. ASSUME NEW sv \in Servers, DeleteServer(sv) PROVE RoomInv'
  <2>. DEFINE R == {r \in rooms : ServerOf[r] = sv}
  <2>1. R \in SUBSET Rooms /\ TearDown(R) /\ UNCHANGED <<banned, moderated>>
    BY <1>11 DEF DeleteServer, TypeOK
  <2>2. \A r \in Rooms : r \in rooms \ R => access'[ServerOf[r]] = access[ServerOf[r]]
    BY <1>11, VoiceAssumption DEF DeleteServer, TypeOK
  <2>. QED  BY <2>1, <2>2, TearDownThins
<1>12. ASSUME NEW d \in Sessions, DisconnectDevice(d) PROVE RoomInv'
  BY <1>12, SameRooms DEF DisconnectDevice
<1>13. CASE OwnerNext
  BY <1>6, <1>7, <1>8, <1>9, <1>10, <1>11, <1>12, <1>13, ModerationKeepsRooms DEF OwnerNext
<1>14. CASE Restart
  BY <1>14, ThinningKeepsRooms DEF Restart, Thinned, database
<1>15. CASE UNCHANGED vars
  BY <1>15, SameRooms DEF vars, database, voice
<1>. QED  BY <1>4, <1>5, <1>13, <1>14, <1>15 DEF Next

LEMMA RoomsCorrect == Spec => []RoomInv
BY InitTypeOK, NextTypeOK, InitRoomInv, NextRoomInv, PTL DEF Spec

\* Nobody stays in a voice room on rows that no longer allow it, whatever order
\* joins, kicks, bans, room and server deletions come in.
THEOREM OnlyTheAdmitted == Spec => []MembersAreAdmitted
BY RoomsCorrect, RoomInvSuffices, PTL

\* No order of joins, media changes and moderation opens a microphone that an
\* owner's mute or the AFK room closes.
THEOREM MutesAreKept == Spec => []MutesHold
BY RoomsCorrect, RoomInvSuffices, PTL

\* No room exceeds its limit of camera and screen publishers, and every visual
\* subscription joins two different present members.
THEOREM VisualsInOrder == Spec => []VisualsAreInOrder
BY RoomsCorrect, RoomInvSuffices, PTL

------------------------
------------------------
(* The refinement.  Under the invariant, the call of an account is what its *)
(* holder entry says, and a step does one of three things to it. *)

LEMMA CallsAreHoldings ==
    TypeOK /\ CallInv =>
        \A v \in Users : CallOf(v) = IF VoiceRoomsOf(v) = {} THEN None ELSE holders[v]
BY DEF CallOf, VoiceRoomsOf, CallInv, OneRoomPerAccount, TypeOK, Holder

\* The same of the state a step leads to.
LEMMA CallsStayHoldings ==
    TypeOK' /\ CallInv' =>
        \A v \in Users : CallOf(v)' = IF VoiceRoomsOf(v)' = {} THEN None ELSE holders'[v]
<1>1. (TypeOK /\ CallInv =>
        \A v \in Users : CallOf(v) = IF VoiceRoomsOf(v) = {} THEN None ELSE holders[v])'
  BY CallsAreHoldings, PTL
<1>. QED  BY <1>1

\* The account's room and its holder entry stay.
SameCall(v) ==
    /\ \A r \in Rooms : (membership'[r][v] # None) <=> IsMember(r, v)
    /\ holders'[v] = holders[v]

OutOfCall(v) == \A r \in Rooms : membership'[r][v] = None

LEMMA CallAfterStep ==
    ASSUME TypeOK, TypeOK', CallInv, CallInv', NEW v \in Users
    PROVE  /\ SameCall(v) => CallOf(v)' = CallOf(v)
           /\ OutOfCall(v) => CallOf(v)' = None
BY CallsAreHoldings, CallsStayHoldings DEF SameCall, VoiceRoomsOf, IsMember, OutOfCall

\* Ending the calls of U is a step of OneCall, or none when nobody was in one.
LEMMA EndingCalls ==
    ASSUME TypeOK, TypeOK', CallInv, CallInv', NEW U \in SUBSET Users,
           UNCHANGED connected,
           \A v \in U : OutOfCall(v),
           \A v \in Users \ U : SameCall(v)
    PROVE  [Abstract!Next]_(Abstract!vars)
BY CallAfterStep DEF OnlineDevices, Abstract!End, Abstract!Next, Abstract!vars

\* Connections come and go; no membership and no holder changes.
LEMMA ComingAndGoing ==
    ASSUME TypeOK, TypeOK', CallInv, CallInv', UNCHANGED <<membership, holders>>
    PROVE  [Abstract!Next]_(Abstract!vars)
BY CallAfterStep, UserOfType DEF SameCall, IsMember, OnlineDevices, TypeOK, Abstract!Presence, Abstract!Next

LEMMA LeavingIsEnding ==
    ASSUME TypeOK, TypeOK', CallInv, CallInv', NEW u \in Users,
           NEW R \in SUBSET VoiceRoomsOf(u), LeaveVoiceMember(u, R),
           UNCHANGED connected,
           R = {} => VoiceRoomsOf(u) = {}
    PROVE  [Abstract!Next]_(Abstract!vars)
<1>1. CASE R = {}
  BY <1>1, ComingAndGoing DEF LeaveVoiceMember, MembershipWithout, HoldersWithout, TypeOK
<1>2. CASE R # {}
  <2>1. CallEnded(u) /\ \A v \in Users \ {u} : Untouched(v)
    BY <1>2, LeavingEndsTheCall DEF LeaveVoiceMember
  <2>2. OutOfCall(u) /\ \A v \in Users \ {u} : SameCall(v)
    BY <2>1 DEF CallEnded, Untouched, OutOfCall, SameCall
  <2>3. {u} \in SUBSET Users /\ \A v \in {u} : OutOfCall(v)
    BY <2>2
  <2>. QED  BY <2>2, <2>3, EndingCalls
<1>. QED  BY <1>1, <1>2

LEMMA TearDownIsEnding ==
    ASSUME TypeOK, TypeOK', CallInv, CallInv', NEW R \in SUBSET Rooms, TearDown(R),
           UNCHANGED connected
    PROVE  [Abstract!Next]_(Abstract!vars)
<1>. DEFINE U == {v \in Users : \E r \in R : IsMember(r, v)}
<1>1. \A r \in Rooms : \A v \in Users :
        membership'[r][v] = IF r \in R THEN None ELSE membership[r][v]
  BY DEF TearDown
<1>2. UNCHANGED holders
  BY DEF TearDown
<1>3. ASSUME NEW v \in U PROVE OutOfCall(v)
  BY <1>1 DEF U, CallInv, OneRoomPerAccount, OutOfCall, IsMember
<1>4. ASSUME NEW v \in Users \ U PROVE SameCall(v)
  BY <1>1, <1>2 DEF SameCall, IsMember
<1>5. U \in SUBSET Users
  OBVIOUS
<1>. HIDE DEF U
<1>. QED  BY <1>3, <1>4, <1>5, EndingCalls

LEMMA JoiningIsTaking ==
    ASSUME TypeOK, TypeOK', CallInv, CallInv', NEW s \in Sockets, NEW r \in Rooms,
           NEW m \in MediaRequests, Join(s, r, m)
    PROVE  [Abstract!Next]_(Abstract!vars)
<1>. DEFINE u == UserOf(s)
            d == SessionOf[s]
<1>1. u \in Users /\ d \in Sessions /\ AccountOf[d] = u
  BY UserOfType DEF UserOf
<1>2. /\ s \in connected /\ UNCHANGED connected
      /\ holders' = [holders EXCEPT ![u] = [roomId |-> r, sessionId |-> d]]
  BY DEF Join
<1>3. \A x \in Rooms : \A v \in Users \ {u} : membership'[x][v] = membership[x][v]
  BY UserOfType DEF Join, MembershipWithout, TypeOK
<1>4. \A v \in Users \ {u} : SameCall(v)
  BY <1>2, <1>3 DEF SameCall, IsMember, TypeOK
<1>5. VoiceRoomsOf(u)' # {}
  BY JoinedIsMember DEF VoiceRoomsOf
<1>6. CallOf(u)' = [roomId |-> r, sessionId |-> d]
  BY <1>1, <1>2, <1>5, CallsStayHoldings DEF TypeOK
<1>7. Abstract!Take(u, r, d)
  BY <1>2, <1>4, <1>6, CallAfterStep, <1>1 DEF OnlineDevices, Abstract!Take
<1>. QED  BY <1>1, <1>7 DEF Abstract!Next

LEMMA TerminationIsTerminating ==
    ASSUME TypeOK, TypeOK', CallInv, CallInv', NEW u \in Users, TerminateAccount(u)
    PROVE  [Abstract!Next]_(Abstract!vars)
<1>. DEFINE R == VoiceRoomsOf(u)
<1>1. /\ membership' = MembershipWithout(u, R)
      /\ holders' \in {holders, HoldersWithout(u, R)}
      /\ connected' = connected \ SocketsForUser(u)
  BY DEF TerminateAccount, Close
<1>2. OutOfCall(u)
  BY <1>1 DEF OutOfCall, MembershipWithout, TypeOK, VoiceRoomsOf, IsMember
<1>3. \A v \in Users \ {u} : SameCall(v)
  BY <1>1 DEF SameCall, MembershipWithout, HoldersWithout, TypeOK, IsMember
<1>4. \A v \in Users : CallOf(v)' = IF v = u THEN None ELSE CallOf(v)
  BY <1>2, <1>3, CallAfterStep
<1>5. OnlineDevices' = {d \in OnlineDevices : AccountOf[d] # u}
  BY <1>1 DEF OnlineDevices, SocketsForUser, UserOf
<1>6. Abstract!Terminate(u)
  BY <1>4, <1>5 DEF Abstract!Terminate
<1>. QED  BY <1>6 DEF Abstract!Next

LEMMA StepsAreSteps ==
    ASSUME TypeOK, TypeOK', CallInv, CallInv', [Next]_vars
    PROVE  [Abstract!Next]_(Abstract!vars)
<1>1. ASSUME UNCHANGED <<membership, holders>> PROVE [Abstract!Next]_(Abstract!vars)
  BY <1>1, ComingAndGoing
\* Steps that change member states, but not who is a member.
<1>2. ASSUME \A v \in Users : Untouched(v), UNCHANGED connected
      PROVE  [Abstract!Next]_(Abstract!vars)
  <2>1. \A v \in Users \ {} : SameCall(v)
    BY <1>2 DEF Untouched, SameCall
  <2>2. {} \in SUBSET Users /\ \A v \in {} : OutOfCall(v)
    OBVIOUS
  <2>. QED  BY <1>2, <2>1, <2>2, EndingCalls
<1>3. ASSUME NEW s \in Sockets, NEW r \in Rooms, Leave(s, r)
      PROVE  [Abstract!Next]_(Abstract!vars)
  <2>1. CASE IsMember(r, UserOf(s)) /\ LeaveVoiceMember(UserOf(s), {r})
    <3>1. {r} \in SUBSET VoiceRoomsOf(UserOf(s)) /\ UNCHANGED connected
      BY <1>3, <2>1 DEF VoiceRoomsOf, Leave
    <3>. QED  BY <2>1, <3>1, LeavingIsEnding, UserOfType
  <2>2. CASE UNCHANGED <<membership, holders>>
    BY <1>1, <2>2
  <2>. QED  BY <1>3, <2>1, <2>2 DEF Leave, voice
<1>4. ASSUME NEW s \in Sockets, NEW r \in Rooms, NEW m \in MediaRequests,
             SetMediaState(s, r, m)
      PROVE  [Abstract!Next]_(Abstract!vars)
  BY <1>2, <1>4, MediaTouchesNoCall DEF SetMediaState, transport
<1>5. ASSUME NEW s \in Sockets, NEW r \in Rooms, NEW T \in SUBSET VisualTarget,
             SetVisualSubscriptions(s, r, T)
      PROVE  [Abstract!Next]_(Abstract!vars)
  BY <1>1, <1>5 DEF SetVisualSubscriptions
<1>6. CASE SocketNext
  BY <1>1, <1>3, <1>4, <1>5, <1>6, JoiningIsTaking
     DEF SocketNext, Connect, Disconnect, voice
<1>7. ASSUME NEW u \in Users, GraceExpires(u) PROVE [Abstract!Next]_(Abstract!vars)
  BY <1>7, LeavingIsEnding, <1>1 DEF GraceExpires
<1>8. ASSUME NEW u \in Users, NEW r \in Rooms, DisconnectMember(r, u)
      PROVE  [Abstract!Next]_(Abstract!vars)
  BY <1>8, LeavingIsEnding DEF DisconnectMember, VoiceRoomsOf
<1>9. ASSUME NEW u \in Users, NEW sv \in Servers, RevokeServerAccess(sv, u)
      PROVE  [Abstract!Next]_(Abstract!vars)
  <2>. DEFINE R == ServerVoiceRoomsOf(sv, u)
  <2>1. CASE R = {}
    BY <1>1, <1>9, <2>1 DEF RevokeServerAccess, ForceLeave, voice
  <2>2. CASE R # {}
    BY <1>9, <2>2, LeavingIsEnding DEF RevokeServerAccess, ForceLeave, ServerVoiceRoomsOf
  <2>. QED  BY <2>1, <2>2
<1>10. ASSUME NEW u \in Users, NEW sv \in Servers, NEW m \in ModerationRequests,
              UpdateModeration(sv, u, m)
       PROVE  [Abstract!Next]_(Abstract!vars)
  BY <1>2, <1>10, ModerationTouchesNoCall DEF UpdateModeration, transport
<1>11. ASSUME NEW r \in Rooms, DeleteRoom(r) PROVE [Abstract!Next]_(Abstract!vars)
  BY <1>11, TearDownIsEnding DEF DeleteRoom
<1>12. ASSUME NEW sv \in Servers, DeleteServer(sv) PROVE [Abstract!Next]_(Abstract!vars)
  BY <1>12, TearDownIsEnding DEF TypeOK, DeleteServer
<1>13. CASE OwnerNext
  BY <1>1, <1>8, <1>9, <1>10, <1>11, <1>12, <1>13, TerminationIsTerminating
     DEF OwnerNext, GrantServerAccess, DisconnectDevice, voice
<1>14. CASE Restart
  BY <1>14, CallAfterStep DEF Restart, Close, OnlineDevices, TypeOK, OutOfCall, Abstract!Restart, Abstract!Next
<1>15. CASE UNCHANGED vars
  BY <1>1, <1>15 DEF vars, voice
<1>. QED  BY <1>6, <1>7, <1>13, <1>14, <1>15 DEF Next

LEMMA InitIsInit == Init => Abstract!Init
BY DEF Init, Abstract!Init, CallOf, OnlineDevices, VoiceRoomsOf, IsMember

\* Voice membership keeps the promise of OneCall: an account has one call at
\* most, on one Device, and it changes only as OneCall says.  (That an abandoned
\* call is given up rests on fairness and is left to model checking.)
THEOREM ImplementsOneCallSafely ==
    Spec => Abstract!Init /\ [][Abstract!Next]_(Abstract!vars)
BY InitIsInit, StepsAreSteps, InitTypeOK, NextTypeOK, InitCallInv, NextCallInv, PTL
   DEF Spec

------------------------
(* Who may end a call. *)

EndsRightly(u, r) ==
    \/ actor' = holders[u].sessionId
    \/ VoiceRoomsOf(u)' # {} /\ actor' = holders'[u].sessionId
    \/ actor' = Server /\ SocketsForSession(holders[u].sessionId) = {}
    \/ actor' = Owner
    \/ actor' = Network /\ connected' = {}

LEMMA ActorsEndRightly ==
    ASSUME TypeOK, CallInv, TypeOK', ActorNext,
           NEW u \in Users, NEW r \in VoiceRoomsOf(u), ~IsMember(r, u)'
    PROVE  EndsRightly(u, r)
<1>1. r \in Rooms /\ IsMember(r, u) /\ holders[u] # None
  BY DEF VoiceRoomsOf, CallInv, OneRoomPerAccount
<1>2. ~UNCHANGED membership
  BY <1>1 DEF IsMember
<1>3. ASSUME NEW s \in Sockets, NEW q \in Rooms, Leave(s, q), actor' = SessionOf[s]
      PROVE  EndsRightly(u, r)
  <2>1. ~Displaced(s) /\ LeaveVoiceMember(UserOf(s), {q})
    BY <1>2, <1>3 DEF Leave, voice
  <2>2. u = UserOf(s)
    BY <1>1, <2>1 DEF LeaveVoiceMember, MembershipWithout, TypeOK, IsMember
  <2>. QED  BY <1>1, <1>3, <2>1, <2>2 DEF Displaced, EndsRightly
<1>4. ASSUME NEW s \in Sockets, NEW q \in Rooms, NEW m \in MediaRequests, Join(s, q, m),
             actor' = SessionOf[s]
      PROVE  EndsRightly(u, r)
  <2>1. u = UserOf(s)
    BY <1>1, <1>4, UserOfType DEF Join, MembershipWithout, TypeOK, IsMember
  <2>2. VoiceRoomsOf(u)' # {}
    BY <1>4, <2>1, JoinedIsMember DEF VoiceRoomsOf
  <2>3. holders'[u].sessionId = SessionOf[s]
    BY <1>4, <2>1, UserOfType DEF Join, TypeOK
  <2>. QED  BY <1>4, <2>2, <2>3 DEF EndsRightly
<1>5. ASSUME NEW s \in Sockets, NEW q \in Rooms, NEW m \in MediaRequests,
             SetMediaState(s, q, m)
      PROVE  EndsRightly(u, r)
  BY <1>1, <1>5, MediaTouchesNoCall DEF Untouched, IsMember
<1>6. ASSUME NEW s \in Sockets, NEW q \in Rooms, NEW T \in SUBSET VisualTarget,
             SetVisualSubscriptions(s, q, T)
      PROVE  EndsRightly(u, r)
  BY <1>2, <1>6 DEF SetVisualSubscriptions
<1>7. CASE NetworkActs
  BY <1>2, <1>7 DEF NetworkActs, Connect, Disconnect, Restart, Close, voice, TypeOK, EndsRightly
<1>8. CASE actor' = Owner
  BY <1>8 DEF EndsRightly
<1>9. ASSUME NEW v \in Users, GraceExpires(v), actor' = Server PROVE EndsRightly(u, r)
  BY <1>2, <1>9, <1>1 DEF GraceExpires, LeaveVoiceMember, MembershipWithout, TypeOK, IsMember, EndsRightly
<1>. QED  BY <1>3, <1>4, <1>5, <1>7, <1>8, <1>9, <1>6 DEF ActorNext, DeviceActs

LEMMA ActorStepsAreSteps == [ActorNext]_actorVars => [Next]_vars
BY DEF ActorNext, DeviceActs, NetworkActs, actorVars, Next, SocketNext

\* Nobody else hangs up the call a Device is on.
THEOREM OnlyTheHolderEnds == ActorSpec => OnlyTheHolderEndsTheCall
<1>1. ActorSpec => [](TypeOK /\ CallInv)
  <2>1. ActorInit => Init
    BY DEF ActorInit
  <2>. QED
    BY <2>1, ActorStepsAreSteps, InitTypeOK, NextTypeOK, InitCallInv, NextCallInv, PTL
       DEF ActorSpec
<1>2. TypeOK /\ CallInv /\ TypeOK' /\ [ActorNext]_actorVars =>
        [\A u \in Users : \A r \in VoiceRoomsOf(u) :
            ~IsMember(r, u)' =>
                \/ actor' = holders[u].sessionId
                \/ /\ VoiceRoomsOf(u)' # {}
                   /\ actor' = holders'[u].sessionId
                \/ actor' = Server /\ SocketsForSession(holders[u].sessionId) = {}
                \/ actor' = Owner
                \/ actor' = Network /\ connected' = {}]_actorVars
  BY ActorsEndRightly DEF EndsRightly
<1>. QED  BY <1>1, <1>2, PTL DEF ActorSpec, OnlyTheHolderEndsTheCall

------------------------
(* The bot's side of a Listener.  What is still to be heard ends at what the *)
(* server shows, and a signal is of the instance told of before it; so the peer, *)
(* or the one that closes for it, is always of the instance last heard of. *)
MeshPeers ==
    [id : Nat \ {0}, state : {"new", "connected", "disconnected", "failed"}, of : Nat, offered : BOOLEAN,
     making : {"no", "first", "recovery"}, missed : BOOLEAN, credential : Nat, grace : BOOLEAN,
     generation : Nat, asked : BOOLEAN]
Meshes ==
    [started : BOOLEAN, known : Nat, peer : {NoPeer} \cup MeshPeers, output : [of : Nat, marked : BOOLEAN],
     built : Nat, credential : Nat, deadlines : SUBSET [id : Nat \ {0}, generation : Nat],
     closing : SUBSET [id : Nat, instance : Nat], owed : BOOLEAN, overtaken : BOOLEAN]
Heard == [kind : {"snapshot", "offer", "recovery"}, instance : Nat]

MeshTypes ==
    /\ elected \in BOOLEAN /\ listener \in Nat /\ playing \in BOOLEAN
    /\ wire \in Seq(Heard) /\ mesh \in Meshes
    /\ hearing \in [silent : BOOLEAN, missing : BOOLEAN]
    /\ happened \in [stays : Nat, signals : Nat, troubles : Nat, refreshes : Nat, looks : Nat]

PeerOffers(p) == elected => p.offered \/ p.making # "no" \/ p.missed

\* A peer is of the instance last heard of, and offers if that is for the bot to do.
MeshFits(m) ==
    /\ m \in Meshes
    /\ m.output.of = m.peer.id /\ (m.output.of = 0 => ~m.output.marked)
    /\ m.peer # NoPeer => m.started /\ m.known # 0 /\ m.peer.of = m.known /\ PeerOffers(m.peer)
    /\ ~m.started => m.known = 0
    /\ \A c \in m.closing : c.instance # 0
    /\ m.owed => m.known # 0 /\ (m.closing # {} \/ m.overtaken)

\* What is down has a timer, or was reported.
Helped(m) ==
    m.peer.state \in {"disconnected", "failed"} =>
        m.peer.grace \/ m.peer.asked \/ [id |-> m.peer.id, generation |-> m.peer.generation] \in m.deadlines

\* Somebody sees to the instance last heard of.
Attended(m) == m.known # 0 /\ m.peer = NoPeer => \E c \in m.closing : c.instance = m.known

NewestInstance == IF wire = <<>> THEN mesh.known ELSE wire[Len(wire)].instance

WireFollows ==
    /\ NewestInstance = listener
    /\ wire # <<>> /\ wire[1].kind # "snapshot" => wire[1].instance = mesh.known
    /\ \A i \in 1..(Len(wire) - 1) : wire[i + 1].kind # "snapshot" => wire[i + 1].instance = wire[i].instance
    /\ \A i \in 1..Len(wire) : wire[i].kind # "snapshot" => wire[i].instance # 0

MeshInv ==
    /\ MeshTypes
    /\ MeshFits(mesh) /\ Helped(mesh) /\ Attended(mesh)
    /\ mesh.started => WireFollows
    /\ ~hearing.missing
    /\ mesh.peer.state = "connected" /\ hearing.silent => ~mesh.output.marked

LEMMA PeersAre ==
    /\ NoPeer.id = 0 /\ NoPeer.state = "none" /\ NoOutput \in [of : Nat, marked : BOOLEAN]
    /\ NoOutput.of = 0 /\ ~NoOutput.marked
    /\ \A p \in MeshPeers : p # NoPeer /\ p.id # 0
    /\ \A o \in [of : Nat, marked : BOOLEAN] : o.of = 0 /\ ~o.marked => o = NoOutput
BY DEF NoPeer, NoOutput, MeshPeers

\* The mesh has a peer, the one there was or a new one, that carries the output.
LEMMA EnsuredIs ==
    ASSUME NEW m \in Meshes, m.peer # NoPeer => m.peer.of = m.known,
           m.output.of = m.peer.id, m.output.of = 0 => ~m.output.marked
    PROVE  \E p \in MeshPeers, o \in [of : Nat, marked : BOOLEAN], b \in Nat :
               /\ Ensured(m) = [m EXCEPT !.built = b, !.peer = p, !.output = o]
               /\ p.of = m.known /\ o.of = p.id
               /\ m.peer # NoPeer => p = m.peer /\ o = m.output
               /\ m.peer = NoPeer => p.state = "new"
<1>1. CASE m.peer # NoPeer
  <2>1. m.peer \in MeshPeers /\ m.output \in [of : Nat, marked : BOOLEAN] /\ m.built \in Nat
    BY <1>1 DEF Meshes
  <2>2. Ensured(m) = [m EXCEPT !.built = m.built, !.peer = m.peer, !.output = m.output]
    BY <1>1 DEF Ensured, Meshes
  <2> QED
    BY <1>1, <2>1, <2>2
<1>2. CASE m.peer = NoPeer
  <2> DEFINE p == [id |-> m.built + 1, state |-> "new", of |-> m.known, offered |-> FALSE,
                   making |-> "no", missed |-> FALSE, credential |-> m.credential,
                   grace |-> FALSE, generation |-> 0, asked |-> FALSE]
             o == [of |-> m.built + 1, marked |-> FALSE]
  <2>1. m.output = NoOutput
    BY <1>2, PeersAre DEF Meshes
  <2>2. m.built + 1 \in Nat \ {0} /\ m.known \in Nat /\ m.credential \in Nat /\ 0 \in Nat /\ FALSE \in BOOLEAN
    BY DEF Meshes
  <2>3. p \in MeshPeers /\ p.of = m.known /\ p.state = "new" /\ p.id = m.built + 1
    BY <2>2 DEF MeshPeers
  <2>4. o \in [of : Nat, marked : BOOLEAN] /\ o.of = p.id
    BY <2>2
  <2>5. Ensured(m) = [m EXCEPT !.built = m.built + 1, !.peer = p, !.output = o]
    BY <1>2, <2>1 DEF Ensured, Meshes
  <2> HIDE DEF p, o
  <2> QED
    BY <1>2, <2>2, <2>3, <2>4, <2>5
<1> QED
  BY <1>1, <1>2

\* A peer that was dropped to be rebuilt is asked for, and closes for its instance.
LEMMA RebuildingIs ==
    ASSUME NEW m \in Meshes, elected \in BOOLEAN, m.peer \in MeshPeers, m.started, m.known # 0,
           \A c \in m.closing : c.instance # 0
    PROVE  LET n == Rebuilding(m) IN
           /\ MeshFits(n) /\ Helped(n) /\ Attended(n)
           /\ n.peer = NoPeer /\ n.output = NoOutput /\ n.known = m.known /\ n.started
           /\ n.deadlines = m.deadlines
<1> DEFINE c == [id |-> m.peer.id, instance |-> m.known]
           closes == m.closing \cup {c}
           n == [m EXCEPT !.peer = NoPeer, !.output = NoOutput, !.closing = closes,
                          !.owed = ~elected, !.overtaken = FALSE]
<1>1. Rebuilding(m) = n
  BY DEF Rebuilding, Dropped, Meshes
<1>2. c \in [id : Nat, instance : Nat] /\ c.instance = m.known
  BY DEF Meshes, MeshPeers
<1>3. closes \in SUBSET [id : Nat, instance : Nat] /\ (\A d \in closes : d.instance # 0)
      /\ (\E d \in closes : d.instance = m.known) /\ closes # {}
  BY <1>2 DEF Meshes
<1> HIDE DEF closes
<1>4. FALSE \in BOOLEAN /\ (~elected) \in BOOLEAN
  OBVIOUS
<1>5. /\ n \in Meshes /\ n.peer = NoPeer /\ n.output = NoOutput /\ n.closing = closes /\ n.known = m.known
      /\ n.started = m.started /\ n.deadlines = m.deadlines
  BY <1>3, <1>4, PeersAre DEF Meshes
<1> HIDE DEF n
<1>6. MeshFits(n)
  BY <1>3, <1>5, PeersAre DEF MeshFits
<1>7. Helped(n) /\ Attended(n)
  BY <1>3, <1>5, PeersAre DEF Helped, Attended
<1> QED
  BY <1>1, <1>5, <1>6, <1>7

\* A mesh that goes on with the same peer, or another record of it.
GoesOn(m, p, marked, deadlines) ==
    [m EXCEPT !.peer = p, !.output = [of |-> m.output.of, marked |-> marked], !.deadlines = deadlines]

LEMMA PeerGoesOn ==
    ASSUME NEW m, MeshFits(m), m.peer \in MeshPeers, NEW p \in MeshPeers,
           p.id = m.peer.id, p.of = m.peer.of,
           PeerOffers(p),
           NEW marked, marked \in BOOLEAN, NEW deadlines \in SUBSET [id : Nat \ {0}, generation : Nat]
    PROVE  LET n == GoesOn(m, p, marked, deadlines) IN
           /\ MeshFits(n) /\ Attended(n) /\ n.peer = p
           /\ n.output = [of |-> m.output.of, marked |-> marked]
           /\ n.deadlines = deadlines /\ n.known = m.known /\ n.started = m.started
<1> DEFINE n == GoesOn(m, p, marked, deadlines)
<1>1. m \in Meshes /\ m.output \in [of : Nat, marked : BOOLEAN]
  BY DEF MeshFits, Meshes
<1>2. [of |-> m.output.of, marked |-> marked] \in [of : Nat, marked : BOOLEAN]
  BY <1>1
<1>3. /\ n \in Meshes /\ n.peer = p /\ n.output = [of |-> m.output.of, marked |-> marked]
      /\ n.deadlines = deadlines /\ n.known = m.known /\ n.started = m.started /\ n.closing = m.closing
      /\ n.owed = m.owed /\ n.overtaken = m.overtaken
  BY <1>1, <1>2 DEF Meshes, GoesOn
<1> HIDE DEF n
<1>4. m.peer # NoPeer /\ p # NoPeer /\ p.id # 0
  BY PeersAre
<1>5. MeshFits(n)
  BY <1>3, <1>4 DEF MeshFits
<1>6. Attended(n)
  BY <1>3, <1>4 DEF Attended
<1> QED
  BY <1>3, <1>5, <1>6 DEF n

LEMMA RecoveringIs ==
    ASSUME elected \in BOOLEAN, NEW m, MeshFits(m), m.peer \in MeshPeers
    PROVE  LET n == Recovering(m) IN
           /\ MeshFits(n) /\ Helped(n) /\ Attended(n) /\ n.known = m.known /\ n.started
           /\ \/ n.peer = NoPeer /\ n.output = NoOutput
              \/ n.peer \in MeshPeers /\ n.peer.state = m.peer.state /\ n.output = m.output
<1> DEFINE next == m.peer.generation + 1
           d == [id |-> m.peer.id, generation |-> next]
<1>1. /\ m \in Meshes /\ m.started /\ m.known # 0 /\ \A c \in m.closing : c.instance # 0
      /\ m.output \in [of : Nat, marked : BOOLEAN] /\ m.output.marked \in BOOLEAN
      /\ m.deadlines \in SUBSET [id : Nat \ {0}, generation : Nat]
  BY PeersAre DEF MeshFits, Meshes
<1>2. next \in Nat /\ d \in [id : Nat \ {0}, generation : Nat] /\ TRUE \in BOOLEAN /\ FALSE \in BOOLEAN
  BY DEF MeshPeers
<1>3. CASE m.peer.credential # m.credential
  BY <1>3, <1>1, RebuildingIs DEF Recovering
<1>4. CASE m.peer.credential = m.credential /\ elected
  <2> DEFINE p == [m.peer EXCEPT !.grace = FALSE, !.generation = next, !.making = "recovery"]
             deadlines == m.deadlines \cup {d}
             n == GoesOn(m, p, m.output.marked, deadlines)
  <2>1. /\ p \in MeshPeers /\ p.id = m.peer.id /\ p.of = m.peer.of /\ p.making # "no" /\ p.state = m.peer.state
        /\ p.generation = next
    BY <1>2 DEF MeshPeers
  <2>2. deadlines \in SUBSET [id : Nat \ {0}, generation : Nat] /\ d \in deadlines
    BY <1>1, <1>2
  <2>3. Recovering(m) = n
    <3> DEFINE q == [m.peer EXCEPT !.grace = FALSE, !.generation = next]
               again == [m EXCEPT !.peer = q]
    <3>1. Recovering(m) = [again EXCEPT !.peer.making = "recovery", !.deadlines = deadlines]
      BY <1>1, <1>4 DEF Recovering, Meshes
    <3>3. [again EXCEPT !.peer.making = "recovery", !.deadlines = deadlines]
              = [m EXCEPT !.peer = [q EXCEPT !.making = "recovery"], !.deadlines = deadlines]
      BY <1>1 DEF Meshes
    <3>4. p = [q EXCEPT !.making = "recovery"]
      BY DEF MeshPeers
    <3>5. n = [m EXCEPT !.peer = p, !.deadlines = deadlines]
      BY <1>1 DEF Meshes, GoesOn
    <3> QED
      BY <3>1, <3>3, <3>4, <3>5
  <2>4. d = [id |-> p.id, generation |-> p.generation]
    BY <2>1
  <2> HIDE DEF p, deadlines, d, next
  <2>5. /\ MeshFits(n) /\ Attended(n) /\ n.peer = p
        /\ n.output = [of |-> m.output.of, marked |-> m.output.marked]
        /\ n.deadlines = deadlines /\ n.known = m.known /\ n.started = m.started
    <3>1. PeerOffers(p)
      BY <2>1 DEF PeerOffers
    <3>2. /\ MeshFits(m) /\ m.peer \in MeshPeers /\ p \in MeshPeers /\ p.id = m.peer.id /\ p.of = m.peer.of
          /\ PeerOffers(p) /\ m.output.marked \in BOOLEAN
          /\ deadlines \in SUBSET [id : Nat \ {0}, generation : Nat]
      BY <1>1, <2>1, <2>2, <3>1
    <3> QED
      BY <3>2, PeerGoesOn
  <2>6. n.output = m.output
    BY <1>1 DEF Meshes, GoesOn
  <2> HIDE DEF n
  <2>7. Helped(n)
    BY <2>2, <2>4, <2>5 DEF Helped
  <2> QED
    BY <1>1, <2>1, <2>3, <2>5, <2>6, <2>7
<1>5. CASE m.peer.credential = m.credential /\ ~elected
  <2> DEFINE p == [m.peer EXCEPT !.grace = FALSE, !.generation = next, !.asked = TRUE]
             n == GoesOn(m, p, m.output.marked, m.deadlines)
  <2>1. /\ p \in MeshPeers /\ p.id = m.peer.id /\ p.of = m.peer.of /\ p.asked /\ p.state = m.peer.state
    BY <1>2 DEF MeshPeers
  <2>2. Recovering(m) = n
    BY <1>1, <1>5 DEF Recovering, Meshes, MeshPeers, GoesOn
  <2> HIDE DEF p
  <2>3. /\ MeshFits(n) /\ Attended(n) /\ n.peer = p
        /\ n.output = [of |-> m.output.of, marked |-> m.output.marked]
        /\ n.deadlines = m.deadlines /\ n.known = m.known /\ n.started = m.started
    <3>1. PeerOffers(p)
      BY <1>5 DEF PeerOffers
    <3>2. /\ MeshFits(m) /\ m.peer \in MeshPeers /\ p \in MeshPeers /\ p.id = m.peer.id /\ p.of = m.peer.of
          /\ PeerOffers(p) /\ m.output.marked \in BOOLEAN
          /\ m.deadlines \in SUBSET [id : Nat \ {0}, generation : Nat]
      BY <1>1, <2>1, <3>1
    <3> QED
      BY <3>2, PeerGoesOn
  <2>4. n.output = m.output
    BY <1>1 DEF Meshes, GoesOn
  <2> HIDE DEF n
  <2>5. Helped(n)
    BY <2>1, <2>3 DEF Helped
  <2> QED
    BY <1>1, <2>1, <2>2, <2>3, <2>4, <2>5
<1> QED
  BY <1>3, <1>4, <1>5

\* The wire, when the server sends something more.
LEMMA WireGrows ==
    ASSUME MeshInv, NEW kind \in {"snapshot", "offer", "recovery"}, NEW stay \in Nat,
           wire' = Append(wire, [kind |-> kind, instance |-> stay]), listener' = stay,
           kind # "snapshot" => stay = listener /\ stay # 0, mesh' = mesh
    PROVE  wire' \in Seq(Heard) /\ (mesh.started => WireFollows')
<1> DEFINE h == [kind |-> kind, instance |-> stay]
<1>1. wire \in Seq(Heard) /\ Len(wire) \in Nat /\ (wire = <<>> <=> Len(wire) = 0)
  BY EmptySeq, LenProperties DEF MeshInv, MeshTypes
<1>2. h \in Heard /\ h.kind = kind /\ h.instance = stay
  BY DEF Heard
<1> HIDE DEF h
<1>3. /\ Append(wire, h) \in Seq(Heard) /\ Len(Append(wire, h)) = Len(wire) + 1
      /\ \A i \in 1..Len(wire) : Append(wire, h)[i] = wire[i]
      /\ Append(wire, h)[Len(wire) + 1] = h /\ Append(wire, h) # <<>>
  BY <1>1, <1>2, AppendProperties
<1>4. wire' = Append(wire, h)
  BY DEF h
<1>5. /\ wire' \in Seq(Heard) /\ Len(wire') = Len(wire) + 1
      /\ \A i \in 1..Len(wire) : wire'[i] = wire[i]
      /\ wire'[Len(wire) + 1] = h /\ wire' # <<>>
  BY <1>3, <1>4
<1>6. ASSUME mesh.started PROVE WireFollows'
  BY <1>6, <1>2, <1>5, <1>1 DEF MeshInv, NewestInstance, WireFollows
<1> QED
  BY <1>5, <1>6

LEMMA AgainIs ==
    ASSUME MeshTypes, NEW what \in {"stays", "signals", "troubles", "refreshes", "looks"}, NEW bound, Again(what, bound)
    PROVE  happened' \in [stays : Nat, signals : Nat, troubles : Nat, refreshes : Nat, looks : Nat]
BY DEF MeshTypes, Again

\* What a change of membership or a signal of the Listener does.
LEMMA MeshTold ==
    ASSUME MeshInv, ListenerStays \/ ListenerGoes \/ ListenerSignals
    PROVE  MeshInv'
<1>t. MeshTypes /\ happened.stays \in Nat
  BY DEF MeshInv, MeshTypes
<1>1. PICK kind \in {"snapshot", "offer", "recovery"}, stay \in Nat :
          /\ wire' = Append(wire, [kind |-> kind, instance |-> stay]) /\ listener' = stay
          /\ kind # "snapshot" => stay = listener /\ stay # 0
          /\ UNCHANGED <<elected, mesh, playing, hearing>>
  <2>1. CASE ListenerStays
    BY <2>1, <1>t DEF ListenerStays, Told
  <2>2. CASE ListenerGoes
    BY <2>2 DEF ListenerGoes, Told
  <2>3. CASE ListenerSignals
    BY <2>3, <1>t DEF ListenerSignals, Told, MeshTypes
  <2> QED
    BY <2>1, <2>2, <2>3
<1>2. happened' \in [stays : Nat, signals : Nat, troubles : Nat, refreshes : Nat, looks : Nat]
  <2>1. CASE happened' = happened
    BY <2>1, <1>t DEF MeshTypes
  <2>2. CASE Again("stays", MaxStays) \/ Again("signals", MaxSignals)
    BY <2>2, <1>t, AgainIs
  <2> QED
    BY <2>1, <2>2 DEF ListenerStays, ListenerGoes, ListenerSignals
<1>3. wire' \in Seq(Heard) /\ (mesh.started => WireFollows')
  BY <1>1, WireGrows
<1>4. MeshTypes'
  BY <1>1, <1>2, <1>3, <1>t DEF MeshTypes
<1> QED
  BY <1>1, <1>3, <1>4 DEF MeshInv, MeshFits, PeerOffers, Helped, Attended

\* A step that only concerns the mesh, the player and what is heard.
LEMMA MeshSteps ==
    ASSUME MeshInv, UNCHANGED <<elected, listener, wire>>, playing' \in BOOLEAN,
           happened' \in [stays : Nat, signals : Nat, troubles : Nat, refreshes : Nat, looks : Nat],
           hearing' \in [silent : BOOLEAN, missing : BOOLEAN], ~hearing'.missing,
           NEW m, mesh' = m, MeshFits(m), Helped(m), Attended(m),
           m.started => mesh.started /\ m.known = mesh.known,
           m.peer.state = "connected" /\ hearing'.silent => ~m.output.marked
    PROVE  MeshInv'
<1>1. m \in Meshes
  BY DEF MeshFits
<1>2. MeshTypes'
  BY <1>1 DEF MeshInv, MeshTypes
<1>3. MeshFits(mesh)' /\ Helped(mesh)' /\ Attended(mesh)'
  BY DEF MeshFits, PeerOffers, Helped, Attended
<1>4. mesh'.started => WireFollows'
  BY DEF MeshInv, WireFollows, NewestInstance
<1> QED
  BY <1>2, <1>3, <1>4 DEF MeshInv

LEMMA MeshIs ==
    ASSUME MeshInv
    PROVE  /\ mesh \in Meshes /\ MeshFits(mesh) /\ Helped(mesh) /\ Attended(mesh) /\ elected \in BOOLEAN
           /\ mesh.peer # NoPeer => mesh.peer \in MeshPeers
           /\ mesh.output \in [of : Nat, marked : BOOLEAN] /\ mesh.output.marked \in BOOLEAN
           /\ mesh.deadlines \in SUBSET [id : Nat \ {0}, generation : Nat]
           /\ mesh.peer # NoPeer => PeerOffers(mesh.peer)
           /\ playing \in BOOLEAN /\ hearing \in [silent : BOOLEAN, missing : BOOLEAN] /\ ~hearing.missing
           /\ happened \in [stays : Nat, signals : Nat, troubles : Nat, refreshes : Nat, looks : Nat]
           /\ TRUE \in BOOLEAN /\ FALSE \in BOOLEAN
BY DEF MeshInv, MeshFits, MeshTypes, Meshes

\* One of the steps that change what the peer is in.
LEMMA PeerSteps ==
    ASSUME MeshInv, HasPeer, UNCHANGED <<elected, listener, wire, playing>>,
           happened' \in [stays : Nat, signals : Nat, troubles : Nat, refreshes : Nat, looks : Nat],
           NEW p \in MeshPeers, p.id = mesh.peer.id, p.of = mesh.peer.of, PeerOffers(p),
           NEW marked, marked \in BOOLEAN,
           mesh' = GoesOn(mesh, p, marked, mesh.deadlines),
           p.state \in {"disconnected", "failed"} =>
               p.grace \/ p.asked \/ [id |-> p.id, generation |-> p.generation] \in mesh.deadlines,
           hearing' \in [silent : BOOLEAN, missing : BOOLEAN], ~hearing'.missing,
           p.state = "connected" /\ hearing'.silent => ~marked
    PROVE  MeshInv'
<1>1. PICK m : m = mesh'
  OBVIOUS
<1>2. /\ MeshFits(mesh) /\ mesh.peer \in MeshPeers /\ mesh.deadlines \in SUBSET [id : Nat \ {0}, generation : Nat]
      /\ playing' \in BOOLEAN
  BY MeshIs DEF HasPeer
<1>3. m = GoesOn(mesh, p, marked, mesh.deadlines)
  BY <1>1
<1>4. /\ MeshFits(GoesOn(mesh, p, marked, mesh.deadlines)) /\ Attended(GoesOn(mesh, p, marked, mesh.deadlines))
      /\ GoesOn(mesh, p, marked, mesh.deadlines).peer = p
      /\ GoesOn(mesh, p, marked, mesh.deadlines).output = [of |-> mesh.output.of, marked |-> marked]
      /\ GoesOn(mesh, p, marked, mesh.deadlines).deadlines = mesh.deadlines
      /\ GoesOn(mesh, p, marked, mesh.deadlines).known = mesh.known
      /\ GoesOn(mesh, p, marked, mesh.deadlines).started = mesh.started
  BY <1>2, PeerGoesOn
<1>5. /\ MeshFits(m) /\ Attended(m) /\ m.peer = p /\ m.output = [of |-> mesh.output.of, marked |-> marked]
      /\ m.deadlines = mesh.deadlines /\ m.known = mesh.known /\ m.started = mesh.started
  BY <1>3, <1>4
<1>6. Helped(m)
  BY <1>5 DEF Helped
<1>7. m.peer.state = "connected" /\ hearing'.silent => ~m.output.marked
  BY <1>5
<1> QED
  BY <1>1, <1>2, <1>5, <1>6, <1>7, MeshSteps

\* Writing the peer's new record into the mesh is to go on with it.
LEMMA GoesOnIs ==
    ASSUME MeshInv, HasPeer, NEW p
    PROVE  [mesh EXCEPT !.peer = p] = GoesOn(mesh, p, mesh.output.marked, mesh.deadlines)
BY MeshIs DEF GoesOn, Meshes

LEMMA OffersGo == ASSUME MeshInv, OfferGoes PROVE MeshInv'
<1>1. HasPeer /\ mesh.peer \in MeshPeers /\ Helped(mesh) /\ mesh.output.marked \in BOOLEAN
      /\ happened \in [stays : Nat, signals : Nat, troubles : Nat, refreshes : Nat, looks : Nat]
      /\ hearing \in [silent : BOOLEAN, missing : BOOLEAN] /\ ~hearing.missing /\ mesh \in Meshes
      /\ UNCHANGED <<elected, listener, wire, playing, hearing, happened>> /\ TRUE \in BOOLEAN
  BY MeshIs DEF OfferGoes, HasPeer
<1> DEFINE p == [mesh.peer EXCEPT !.making = "no", !.offered = TRUE]
<1>2. /\ p \in MeshPeers /\ p.id = mesh.peer.id /\ p.of = mesh.peer.of /\ p.offered /\ p.state = mesh.peer.state
      /\ p.grace = mesh.peer.grace /\ p.asked = mesh.peer.asked /\ p.generation = mesh.peer.generation
  BY <1>1 DEF MeshPeers
<1>3. mesh' = [mesh EXCEPT !.peer = p]
  BY <1>1 DEF OfferGoes, Meshes
<1> HIDE DEF p
<1>4. mesh' = GoesOn(mesh, p, mesh.output.marked, mesh.deadlines)
  BY <1>1, <1>3, GoesOnIs
<1>5. PeerOffers(p)
  BY <1>2 DEF PeerOffers
<1>6. p.state \in {"disconnected", "failed"} =>
          p.grace \/ p.asked \/ [id |-> p.id, generation |-> p.generation] \in mesh.deadlines
  BY <1>1, <1>2 DEF Helped
<1>7. p.state = "connected" /\ hearing'.silent => ~mesh.output.marked
  BY <1>1, <1>2 DEF MeshInv
<1> QED
  BY <1>1, <1>2, <1>4, <1>5, <1>6, <1>7, PeerSteps

\* The peer is dropped to be rebuilt, or the transport is recovered.
LEMMA MeshRebuilds ==
    ASSUME MeshInv, HasPeer, UNCHANGED <<elected, listener, wire, playing, hearing>>,
           happened' \in [stays : Nat, signals : Nat, troubles : Nat, refreshes : Nat, looks : Nat],
           NEW m, m \in Meshes, m.peer = mesh.peer, m.started = mesh.started, m.known = mesh.known,
           m.closing = mesh.closing, mesh' = Rebuilding(m)
    PROVE  MeshInv'
BY MeshIs, RebuildingIs, PeersAre, MeshSteps DEF HasPeer, MeshFits

LEMMA OffersFail == ASSUME MeshInv, OfferFails PROVE MeshInv'
<1>1. HasPeer /\ mesh.peer \in MeshPeers /\ Helped(mesh) /\ mesh.output.marked \in BOOLEAN
      /\ hearing \in [silent : BOOLEAN, missing : BOOLEAN] /\ ~hearing.missing /\ mesh \in Meshes
      /\ UNCHANGED <<elected, listener, wire, playing, hearing>> /\ TRUE \in BOOLEAN
  BY MeshIs DEF OfferFails, HasPeer
<1>h. happened' \in [stays : Nat, signals : Nat, troubles : Nat, refreshes : Nat, looks : Nat]
  BY AgainIs DEF OfferFails, MeshInv
<1> DEFINE p == [mesh.peer EXCEPT !.making = "no", !.missed = TRUE]
<1>2. CASE mesh.peer.making = "recovery"
  BY <1>2, <1>1, <1>h, MeshRebuilds DEF OfferFails
<1>3. CASE mesh.peer.making # "recovery"
  <2>2. /\ p \in MeshPeers /\ p.id = mesh.peer.id /\ p.of = mesh.peer.of /\ p.missed /\ p.state = mesh.peer.state
        /\ p.grace = mesh.peer.grace /\ p.asked = mesh.peer.asked /\ p.generation = mesh.peer.generation
    BY <1>1 DEF MeshPeers
  <2>3. mesh' = [mesh EXCEPT !.peer = p]
    BY <1>1, <1>3 DEF OfferFails, Meshes
  <2> HIDE DEF p
  <2>4. mesh' = GoesOn(mesh, p, mesh.output.marked, mesh.deadlines)
    BY <1>1, <2>3, GoesOnIs
  <2>5. PeerOffers(p)
    BY <2>2 DEF PeerOffers
  <2>6. p.state \in {"disconnected", "failed"} =>
            p.grace \/ p.asked \/ [id |-> p.id, generation |-> p.generation] \in mesh.deadlines
    BY <1>1, <2>2 DEF Helped
  <2>7. p.state = "connected" /\ hearing'.silent => ~mesh.output.marked
    BY <1>1, <2>2 DEF MeshInv
  <2> QED
    BY <1>1, <1>h, <2>2, <2>4, <2>5, <2>6, <2>7, PeerSteps
<1> QED
  BY <1>2, <1>3

LEMMA TransportComesUp == ASSUME MeshInv, TransportUp PROVE MeshInv'
<1>1. HasPeer /\ mesh.peer \in MeshPeers /\ PeerOffers(mesh.peer)
      /\ happened \in [stays : Nat, signals : Nat, troubles : Nat, refreshes : Nat, looks : Nat]
      /\ hearing \in [silent : BOOLEAN, missing : BOOLEAN] /\ ~hearing.missing /\ mesh \in Meshes
      /\ mesh.output \in [of : Nat, marked : BOOLEAN]
      /\ UNCHANGED <<elected, listener, wire, playing, happened>> /\ TRUE \in BOOLEAN /\ FALSE \in BOOLEAN
  BY MeshIs DEF TransportUp, HasPeer
<1> DEFINE p == [mesh.peer EXCEPT !.state = "connected", !.grace = FALSE, !.asked = FALSE]
<1>2. /\ p \in MeshPeers /\ p.id = mesh.peer.id /\ p.of = mesh.peer.of /\ p.state = "connected"
      /\ p.offered = mesh.peer.offered
  BY <1>1 DEF MeshPeers
<1>3. mesh' = GoesOn(mesh, p, FALSE, mesh.deadlines)
  <2>1. mesh' = [mesh EXCEPT !.peer = p, !.output = [mesh.output EXCEPT !.marked = FALSE]]
    <3> DEFINE a == [mesh.peer EXCEPT !.state = "connected"]
               b == [a EXCEPT !.grace = FALSE]
               c == [b EXCEPT !.asked = FALSE]
               up == [mesh EXCEPT !.peer.state = "connected", !.peer.grace = FALSE, !.peer.asked = FALSE,
                                  !.output.marked = FALSE]
    <3>1. mesh' = up
      BY DEF TransportUp
    <3>2. p = c
      BY <1>1 DEF MeshPeers
    <3>3. up = [mesh EXCEPT !.peer = c, !.output = [mesh.output EXCEPT !.marked = FALSE]]
      BY <1>1 DEF Meshes
    <3> HIDE DEF p, c, up
    <3>4. up = [mesh EXCEPT !.peer = p, !.output = [mesh.output EXCEPT !.marked = FALSE]]
      BY <3>2, <3>3
    <3> QED
      BY <3>1, <3>4
  <2>2. [mesh.output EXCEPT !.marked = FALSE] = [of |-> mesh.output.of, marked |-> FALSE]
    <3>1. \A o \in [of : Nat, marked : BOOLEAN], x \in BOOLEAN : [o EXCEPT !.marked = x] = [of |-> o.of, marked |-> x]
      OBVIOUS
    <3> QED
      BY <1>1, <3>1
  <2> QED
    BY <1>1, <2>1, <2>2 DEF GoesOn, Meshes
<1> HIDE DEF p
<1>4. PeerOffers(p)
  BY <1>2 DEF PeerOffers, TransportUp
<1>5. p.state \in {"disconnected", "failed"} =>
          p.grace \/ p.asked \/ [id |-> p.id, generation |-> p.generation] \in mesh.deadlines
  BY <1>2
<1>6. hearing' \in [silent : BOOLEAN, missing : BOOLEAN] /\ ~hearing'.missing
  BY <1>1 DEF TransportUp
<1>7. PICK marked : marked = FALSE /\ marked \in BOOLEAN
  OBVIOUS
<1>8. mesh' = GoesOn(mesh, p, marked, mesh.deadlines) /\ (p.state = "connected" /\ hearing'.silent => ~marked)
  BY <1>3, <1>7
<1> QED
  BY <1>1, <1>2, <1>4, <1>5, <1>6, <1>7, <1>8, PeerSteps

LEMMA TransportGoesDown == ASSUME MeshInv, TransportBreaks PROVE MeshInv'
<1>1. HasPeer /\ mesh.peer \in MeshPeers /\ PeerOffers(mesh.peer) /\ mesh.output.marked \in BOOLEAN
      /\ hearing \in [silent : BOOLEAN, missing : BOOLEAN] /\ ~hearing.missing /\ mesh \in Meshes
      /\ UNCHANGED <<elected, listener, wire, playing, hearing>> /\ TRUE \in BOOLEAN /\ FALSE \in BOOLEAN
  BY MeshIs DEF TransportBreaks, HasPeer
<1>h. happened' \in [stays : Nat, signals : Nat, troubles : Nat, refreshes : Nat, looks : Nat]
  BY AgainIs DEF TransportBreaks, MeshInv
<1> DEFINE next == mesh.peer.generation + 1
           p == [mesh.peer EXCEPT !.state = "disconnected", !.grace = TRUE, !.generation = next]
<1>n. next \in Nat
  BY <1>1 DEF MeshPeers
<1>g. mesh' = [mesh EXCEPT !.peer.state = "disconnected", !.peer.grace = TRUE, !.peer.generation = next]
  BY <1>1 DEF TransportBreaks, Meshes
<1> HIDE DEF next
<1>2. /\ p \in MeshPeers /\ p.id = mesh.peer.id /\ p.of = mesh.peer.of /\ p.state = "disconnected" /\ p.grace
      /\ p.offered = mesh.peer.offered /\ p.making = mesh.peer.making /\ p.missed = mesh.peer.missed
  BY <1>1, <1>n DEF MeshPeers
<1>3. mesh' = [mesh EXCEPT !.peer = p]
  BY <1>1, <1>g DEF Meshes
<1> HIDE DEF p
<1>4. mesh' = GoesOn(mesh, p, mesh.output.marked, mesh.deadlines)
  BY <1>1, <1>3, GoesOnIs
<1>5. PeerOffers(p)
  BY <1>1, <1>2 DEF PeerOffers
<1>6. p.state \in {"disconnected", "failed"} =>
          p.grace \/ p.asked \/ [id |-> p.id, generation |-> p.generation] \in mesh.deadlines
  BY <1>2
<1>7. p.state = "connected" /\ hearing'.silent => ~mesh.output.marked
  BY <1>2
<1> QED
  BY <1>1, <1>h, <1>2, <1>4, <1>5, <1>6, <1>7, PeerSteps

\* A transport is recovered, and the player may have started just then.
LEMMA MeshRecovers ==
    ASSUME MeshInv, HasPeer, UNCHANGED <<elected, listener, wire, playing, hearing>>,
           happened' \in [stays : Nat, signals : Nat, troubles : Nat, refreshes : Nat, looks : Nat],
           NEW m, MeshFits(m), m.peer \in MeshPeers, m.peer.state = mesh.peer.state \/ m.peer.state = "failed",
           m.known = mesh.known, m.output = mesh.output, mesh' = Recovering(m)
    PROVE  MeshInv'
BY MeshIs, RecoveringIs, PeersAre, MeshSteps DEF MeshInv, MeshFits, HasPeer

LEMMA TransportsFail == ASSUME MeshInv, TransportFails \/ RecoveryGraceEnds PROVE MeshInv'
<1>1. HasPeer /\ mesh.peer \in MeshPeers /\ PeerOffers(mesh.peer) /\ MeshFits(mesh) /\ mesh \in Meshes
      /\ mesh.output \in [of : Nat, marked : BOOLEAN] /\ mesh.deadlines \in SUBSET [id : Nat \ {0}, generation : Nat]
      /\ mesh.output.marked \in BOOLEAN
      /\ UNCHANGED <<elected, listener, wire, playing, hearing>>
  BY MeshIs DEF TransportFails, RecoveryGraceEnds, HasPeer
<1>h. happened' \in [stays : Nat, signals : Nat, troubles : Nat, refreshes : Nat, looks : Nat]
  BY AgainIs, MeshIs DEF TransportFails, MeshInv, RecoveryGraceEnds
<1>2. CASE TransportFails
  <2> DEFINE p == [mesh.peer EXCEPT !.state = "failed"]
  <2>1. /\ p \in MeshPeers /\ p.id = mesh.peer.id /\ p.of = mesh.peer.of /\ p.state = "failed"
        /\ p.offered = mesh.peer.offered /\ p.making = mesh.peer.making /\ p.missed = mesh.peer.missed
    BY <1>1 DEF MeshPeers
  <2>2. [mesh EXCEPT !.peer.state = "failed"] = [mesh EXCEPT !.peer = p]
    BY <1>1 DEF Meshes
  <2> HIDE DEF p
  <2>3. PICK m : m = GoesOn(mesh, p, mesh.output.marked, mesh.deadlines)
    OBVIOUS
  <2>4. mesh' = Recovering(m)
    BY <1>1, <1>2, <2>2, <2>3, GoesOnIs DEF TransportFails
  <2>5. PeerOffers(p)
    BY <1>1, <2>1 DEF PeerOffers
  <2>6. /\ MeshFits(GoesOn(mesh, p, mesh.output.marked, mesh.deadlines))
        /\ GoesOn(mesh, p, mesh.output.marked, mesh.deadlines).peer = p
        /\ GoesOn(mesh, p, mesh.output.marked, mesh.deadlines).known = mesh.known
        /\ GoesOn(mesh, p, mesh.output.marked, mesh.deadlines).output = [of |-> mesh.output.of, marked |-> mesh.output.marked]
    BY <1>1, <2>1, <2>5, PeerGoesOn
  <2>7. mesh.output = [of |-> mesh.output.of, marked |-> mesh.output.marked]
    BY <1>1
  <2>8. /\ MeshFits(m) /\ m.peer \in MeshPeers /\ m.peer.state = "failed" /\ m.known = mesh.known
        /\ m.output = mesh.output
    BY <2>1, <2>3, <2>6, <2>7
  <2> QED
    BY <1>1, <1>h, <2>4, <2>8, MeshRecovers
<1>3. CASE RecoveryGraceEnds
  BY <1>3, <1>1, <1>h, MeshRecovers DEF RecoveryGraceEnds
<1> QED
  BY <1>2, <1>3


\* The player's frames: the output is marked anew.
Marked(m, marked) == [m EXCEPT !.output = [of |-> m.output.of, marked |-> marked]]

LEMMA MarkedIs ==
    ASSUME NEW m, MeshFits(m), Helped(m), Attended(m), NEW marked, marked \in BOOLEAN, m.output.of = 0 => ~marked
    PROVE  LET n == Marked(m, marked) IN
           /\ [m EXCEPT !.output.marked = marked] = n
           /\ MeshFits(n) /\ Helped(n) /\ Attended(n) /\ n.peer = m.peer
           /\ n.output = [of |-> m.output.of, marked |-> marked] /\ n.known = m.known /\ n.started = m.started
<1> DEFINE o == [of |-> m.output.of, marked |-> marked]
           n == Marked(m, marked)
<1>1. m \in Meshes /\ m.output \in [of : Nat, marked : BOOLEAN]
  BY DEF MeshFits, Meshes
<1>2. o \in [of : Nat, marked : BOOLEAN] /\ o = [m.output EXCEPT !.marked = marked]
      /\ o.of = m.output.of /\ (o.marked = marked)
  BY <1>1
<1>3. [m EXCEPT !.output.marked = marked] = n
  BY <1>1, <1>2 DEF Marked, Meshes
<1>4. n = [m EXCEPT !.output = o]
  BY DEF Marked
<1> HIDE DEF o, n
<1>5. /\ n \in Meshes /\ n.peer = m.peer /\ n.output = o /\ n.known = m.known /\ n.started = m.started
      /\ n.closing = m.closing /\ n.deadlines = m.deadlines /\ n.owed = m.owed /\ n.overtaken = m.overtaken
  BY <1>1, <1>2, <1>4 DEF Meshes
<1>6. MeshFits(n)
  BY <1>2, <1>5 DEF MeshFits
<1>7. Helped(n) /\ Attended(n)
  BY <1>5 DEF Helped, Attended
<1> QED
  BY <1>3, <1>5, <1>6, <1>7 DEF n, o

LEMMA PlayerReopens ==
    ASSUME MeshInv, Reopens PROVE MeshInv'
<1>1. PICK marked : marked = FALSE /\ marked \in BOOLEAN
  OBVIOUS
<1>2. mesh' = [mesh EXCEPT !.output.marked = marked]
  BY <1>1 DEF Reopens
<1>3. /\ MeshFits(mesh) /\ Helped(mesh) /\ Attended(mesh)
      /\ happened \in [stays : Nat, signals : Nat, troubles : Nat, refreshes : Nat, looks : Nat]
      /\ hearing \in [silent : BOOLEAN, missing : BOOLEAN] /\ ~hearing.missing /\ playing \in BOOLEAN
      /\ TRUE \in BOOLEAN
  BY MeshIs
<1>4. PICK m : m = Marked(mesh, marked)
  OBVIOUS
<1>5. /\ mesh' = m /\ MeshFits(m) /\ Helped(m) /\ Attended(m) /\ m.peer = mesh.peer
      /\ m.output = [of |-> mesh.output.of, marked |-> marked] /\ m.known = mesh.known /\ m.started = mesh.started
  BY <1>1, <1>2, <1>3, <1>4, MarkedIs
<1>6. hearing' \in [silent : BOOLEAN, missing : BOOLEAN] /\ ~hearing'.missing
  BY <1>3 DEF Reopens
<1>7. ~m.output.marked
  BY <1>1, <1>5
<1>8. UNCHANGED <<elected, listener, wire, playing, happened>>
  BY DEF Reopens
<1> QED
  BY <1>3, <1>5, <1>6, <1>7, <1>8, MeshSteps

LEMMA FrameIsWritten == ASSUME MeshInv, WritesFrame PROVE MeshInv'
<1>1. /\ MeshFits(mesh) /\ Helped(mesh) /\ Attended(mesh)
      /\ happened \in [stays : Nat, signals : Nat, troubles : Nat, refreshes : Nat, looks : Nat]
      /\ hearing \in [silent : BOOLEAN, missing : BOOLEAN] /\ ~hearing.missing /\ playing \in BOOLEAN
      /\ mesh.output \in [of : Nat, marked : BOOLEAN] /\ (mesh.output.of = 0 => ~mesh.output.marked)
      /\ TRUE \in BOOLEAN /\ FALSE \in BOOLEAN
  BY MeshIs DEF MeshFits
<1>2. PICK marked \in BOOLEAN : marked <=> mesh.output # NoOutput
  OBVIOUS
<1>3. mesh' = [mesh EXCEPT !.output.marked = marked]
  BY <1>2 DEF WritesFrame
<1>4. mesh.output.of = 0 => ~marked
  BY <1>1, <1>2, PeersAre
<1>5. PICK m : m = Marked(mesh, marked)
  OBVIOUS
<1>6. /\ mesh' = m /\ MeshFits(m) /\ Helped(m) /\ Attended(m) /\ m.peer = mesh.peer
      /\ m.output = [of |-> mesh.output.of, marked |-> marked] /\ m.known = mesh.known /\ m.started = mesh.started
  BY <1>1, <1>2, <1>3, <1>4, <1>5, MarkedIs
<1>7. /\ hearing' \in [silent : BOOLEAN, missing : BOOLEAN] /\ ~hearing'.missing
      /\ (m.peer.state = "connected" => ~hearing'.silent)
  BY <1>1, <1>6 DEF MeshInv, WritesFrame
<1>8. UNCHANGED <<elected, listener, wire, playing, happened>>
  BY DEF WritesFrame
<1> QED
  BY <1>1, <1>6, <1>7, <1>8, MeshSteps

LEMMA PlayerPlays == ASSUME MeshInv, Plays PROVE MeshInv'
<1>1. /\ MeshFits(mesh) /\ Helped(mesh) /\ Attended(mesh) /\ elected \in BOOLEAN
      /\ happened \in [stays : Nat, signals : Nat, troubles : Nat, refreshes : Nat, looks : Nat]
      /\ hearing \in [silent : BOOLEAN, missing : BOOLEAN] /\ ~hearing.missing /\ playing \in BOOLEAN
      /\ mesh.output \in [of : Nat, marked : BOOLEAN] /\ (mesh.peer # NoPeer => mesh.peer \in MeshPeers)
      /\ TRUE \in BOOLEAN
  BY MeshIs
<1>2. PICK r : r = IF Down THEN Recovering(mesh) ELSE mesh
  OBVIOUS
<1>3. /\ MeshFits(r) /\ Helped(r) /\ Attended(r) /\ r.known = mesh.known
      /\ r.peer.state = "connected" => r = mesh
  BY <1>1, PeersAre, RecoveringIs, <1>2 DEF Down
<1>4. r.output \in [of : Nat, marked : BOOLEAN] /\ (r.output.of = 0 => ~r.output.marked)
  BY <1>3 DEF MeshFits, Meshes
<1>5. PICK marked \in BOOLEAN : marked <=> r.output.marked /\ playing
  BY <1>1, <1>4
<1>6. mesh' = [r EXCEPT !.output.marked = marked]
  BY <1>1, <1>4, <1>5, <1>2 DEF Plays
<1>7. PICK m : m = Marked(r, marked)
  OBVIOUS
<1>8. /\ mesh' = m /\ MeshFits(m) /\ Helped(m) /\ Attended(m) /\ m.peer = r.peer
      /\ m.output = [of |-> r.output.of, marked |-> marked] /\ m.known = r.known /\ m.started = r.started
  BY <1>3, <1>4, <1>5, <1>6, <1>7, MarkedIs
<1>9. hearing' \in [silent : BOOLEAN, missing : BOOLEAN] /\ ~hearing'.missing
      /\ (hearing'.silent => hearing.silent \/ ~playing)
  BY <1>1 DEF Plays
<1>10. m.peer.state = "connected" /\ hearing'.silent => ~m.output.marked
  BY <1>1, <1>3, <1>5, <1>8, <1>9 DEF MeshInv
<1>11. happened' \in [stays : Nat, signals : Nat, troubles : Nat, refreshes : Nat, looks : Nat]
  BY AgainIs, <1>1 DEF MeshInv, Plays
<1>12. playing' \in BOOLEAN /\ UNCHANGED <<elected, listener, wire>> /\ mesh.started
  BY <1>1 DEF Plays
<1> QED
  BY <1>3, <1>8, <1>9, <1>10, <1>11, <1>12, MeshSteps

LEMMA PlayerStops == ASSUME MeshInv, StopsPlaying PROVE MeshInv'
BY MeshIs, MeshSteps DEF StopsPlaying, MeshInv

LEMMA CredentialsRefresh == ASSUME MeshInv, FreshCredentials PROVE MeshInv'
<1> DEFINE next == mesh.credential + 1
<1>1. next \in Nat /\ mesh \in Meshes
  BY MeshIs DEF Meshes
<1>2. mesh' = [mesh EXCEPT !.credential = next]
  BY DEF FreshCredentials
<1> HIDE DEF next
<1>3. PICK m : m = [mesh EXCEPT !.credential = next]
  OBVIOUS
<1>4. /\ m \in Meshes /\ m.peer = mesh.peer /\ m.output = mesh.output /\ m.known = mesh.known
      /\ m.started = mesh.started /\ m.closing = mesh.closing /\ m.deadlines = mesh.deadlines
      /\ m.owed = mesh.owed /\ m.overtaken = mesh.overtaken
  BY <1>1, <1>3 DEF Meshes
<1>5. MeshFits(m) /\ Helped(m) /\ Attended(m)
  BY <1>4, MeshIs DEF MeshFits, Helped, Attended
<1>6. m.peer.state = "connected" /\ hearing'.silent => ~m.output.marked
  BY <1>4 DEF FreshCredentials, MeshInv
<1>7. happened' \in [stays : Nat, signals : Nat, troubles : Nat, refreshes : Nat, looks : Nat]
  BY AgainIs DEF FreshCredentials, MeshInv
<1>8. /\ playing' \in BOOLEAN /\ hearing' \in [silent : BOOLEAN, missing : BOOLEAN] /\ ~hearing'.missing
      /\ UNCHANGED <<elected, listener, wire>>
  BY MeshIs DEF FreshCredentials
<1>9. mesh' = m
  BY <1>2, <1>3
<1> QED
  BY <1>4, <1>5, <1>6, <1>7, <1>8, <1>9, MeshSteps

LEMMA SetIsOver == ASSUME MeshInv, SetEnds PROVE MeshInv'
<1> DEFINE n == [mesh EXCEPT !.peer = NoPeer, !.output = NoOutput, !.started = FALSE, !.known = 0, !.owed = FALSE]
<1>1. mesh \in Meshes /\ MeshFits(mesh) /\ FALSE \in BOOLEAN /\ 0 \in Nat
  BY MeshIs
<1>2. mesh' = n
  BY <1>1 DEF SetEnds, Dropped, Meshes
<1>3. /\ n \in Meshes /\ n.peer = NoPeer /\ n.output = NoOutput /\ n.known = 0
      /\ ~n.started /\ n.closing = mesh.closing /\ n.deadlines = mesh.deadlines /\ ~n.owed
  BY <1>1, PeersAre DEF Meshes
<1> HIDE DEF n
<1>4. MeshFits(n)
  BY <1>1, <1>3, PeersAre DEF MeshFits
<1>5. Helped(n) /\ Attended(n) /\ n.peer.state # "connected"
  BY <1>3, PeersAre DEF Helped, Attended
<1>6. /\ playing' \in BOOLEAN /\ hearing' \in [silent : BOOLEAN, missing : BOOLEAN] /\ ~hearing'.missing
      /\ happened' \in [stays : Nat, signals : Nat, troubles : Nat, refreshes : Nat, looks : Nat]
      /\ UNCHANGED <<elected, listener, wire>>
  BY MeshIs DEF SetEnds
<1>7. PICK m : m = n
  OBVIOUS
<1> QED
  BY <1>2, <1>3, <1>4, <1>5, <1>6, <1>7, MeshSteps

LEMMA RecoveryIsOver == ASSUME MeshInv, RecoveryTimesOut PROVE MeshInv'
<1>1. PICK d \in mesh.deadlines :
          mesh' = IF mesh.peer.id = d.id /\ mesh.peer.generation = d.generation /\ mesh.peer.state # "connected"
                    THEN Rebuilding([mesh EXCEPT !.deadlines = @ \ {d}]) ELSE [mesh EXCEPT !.deadlines = @ \ {d}]
  BY DEF RecoveryTimesOut
<1>2. /\ mesh \in Meshes /\ MeshFits(mesh) /\ Helped(mesh) /\ Attended(mesh) /\ d.id # 0
      /\ mesh.deadlines \in SUBSET [id : Nat \ {0}, generation : Nat]
      /\ d = [id |-> d.id, generation |-> d.generation]
  BY MeshIs DEF Meshes
<1> DEFINE left == mesh.deadlines \ {d}
           over == [mesh EXCEPT !.deadlines = left]
<1>3. left \in SUBSET [id : Nat \ {0}, generation : Nat]
  BY <1>2
<1> HIDE DEF left
<1>4. /\ over \in Meshes /\ over.peer = mesh.peer /\ over.output = mesh.output /\ over.known = mesh.known
      /\ over.started = mesh.started /\ over.closing = mesh.closing /\ over.deadlines = left
      /\ over.owed = mesh.owed /\ over.overtaken = mesh.overtaken
  BY <1>2, <1>3 DEF Meshes
<1>5. mesh' = IF mesh.peer.id = d.id /\ mesh.peer.generation = d.generation /\ mesh.peer.state # "connected"
                THEN Rebuilding(over) ELSE over
  BY <1>1 DEF left
<1> HIDE DEF over
<1>6. UNCHANGED <<elected, listener, wire, playing, hearing, happened>>
  BY DEF RecoveryTimesOut
<1>7. /\ happened' \in [stays : Nat, signals : Nat, troubles : Nat, refreshes : Nat, looks : Nat]
      /\ playing' \in BOOLEAN /\ hearing' \in [silent : BOOLEAN, missing : BOOLEAN] /\ ~hearing'.missing
  BY <1>6, MeshIs
<1>m. PICK m : m = over
  OBVIOUS
<1>8. CASE mesh.peer.id = d.id /\ mesh.peer.generation = d.generation /\ mesh.peer.state # "connected"
  BY <1>2, <1>8, PeersAre, <1>5, <1>m, <1>4, <1>6, <1>7, MeshRebuilds DEF HasPeer
<1>9. CASE ~(mesh.peer.id = d.id /\ mesh.peer.generation = d.generation /\ mesh.peer.state # "connected")
  BY <1>2, <1>4, <1>m, <1>9, <1>5, <1>6, <1>7, MeshSteps DEF MeshFits, Attended, Helped, left, MeshInv
<1> QED
  BY <1>8, <1>9

\* What the server sent is heard in order.
LEMMA WireShrinks ==
    ASSUME MeshInv, wire # <<>>, wire' = Tail(wire), listener' = listener
    PROVE  /\ wire[1] \in Heard /\ wire[1] = Head(wire) /\ wire' \in Seq(Heard)
           /\ mesh.started => (wire[1].kind # "snapshot" => wire[1].instance = mesh.known /\ mesh.known # 0)
           /\ mesh.started /\ mesh'.known = wire[1].instance => WireFollows'
<1>1. wire \in Seq(Heard) /\ Len(wire) \in Nat /\ Len(wire) # 0
  BY EmptySeq, LenProperties DEF MeshInv, MeshTypes
<1>2. /\ wire' \in Seq(Heard) /\ Len(wire') = Len(wire) - 1 /\ Head(wire) = wire[1]
      /\ \A i \in 1..Len(wire') : wire'[i] = wire[i + 1]
  BY <1>1
<1>3. wire[1] \in Heard
  BY <1>1, ElementOfSeq
<1>4. mesh.started => WireFollows
  BY DEF MeshInv
<1>5. mesh.started => (wire[1].kind # "snapshot" => wire[1].instance = mesh.known /\ mesh.known # 0)
  BY <1>1, <1>4 DEF WireFollows
<1>6. ASSUME mesh.started, mesh'.known = wire[1].instance PROVE WireFollows'
  <2>1. WireFollows
    BY <1>4, <1>6
  <2>2. NewestInstance' = listener'
    <3>1. CASE Len(wire) = 1
      BY <1>2, <3>1, EmptySeq, <1>6, <2>1 DEF NewestInstance, WireFollows
    <3>2. CASE Len(wire) # 1
      <4>1. wire' # <<>> /\ wire'[Len(wire')] = wire[Len(wire)]
        <5>1. Len(wire') # 0 /\ Len(wire') \in 1..Len(wire') /\ Len(wire') + 1 = Len(wire)
          BY <1>1, <1>2, <3>2
        <5>2. wire' # <<>>
          BY <5>1, <1>2, EmptySeq
        <5> QED
          BY <5>1, <5>2, <1>2
      <4> QED
        BY <4>1, <2>1 DEF NewestInstance, WireFollows
    <3> QED
      BY <3>1, <3>2
  <2>3. ASSUME wire' # <<>>, wire'[1].kind # "snapshot" PROVE wire'[1].instance = mesh'.known
    <3>1. Len(wire') # 0
      BY <1>2, <2>3, EmptySeq
    <3>2. 1 \in 1..(Len(wire) - 1) /\ wire'[1] = wire[1 + 1]
      BY <3>1, <1>1, <1>2
    <3> QED
      BY <3>2, <2>1, <2>3, <1>6 DEF WireFollows
  <2>4. ASSUME NEW i \in 1..(Len(wire') - 1), wire'[i + 1].kind # "snapshot"
        PROVE  wire'[i + 1].instance = wire'[i].instance
    BY <1>1, <1>2, <2>1, <2>4 DEF WireFollows
  <2>5. ASSUME NEW i \in 1..Len(wire'), wire'[i].kind # "snapshot" PROVE wire'[i].instance # 0
    BY <1>1, <1>2, <2>1, <2>5 DEF WireFollows
  <2> QED
    BY <2>2, <2>3, <2>4, <2>5 DEF WireFollows
<1> QED
  BY <1>2, <1>3, <1>5, <1>6

LEMMA MeshHears ==
    ASSUME MeshInv, UNCHANGED <<elected, listener, playing, hearing, happened>>, wire # <<>>, wire' = Tail(wire),
           NEW m, mesh' = m, MeshFits(m), Helped(m), Attended(m),
           m.started => mesh.started /\ m.known = wire[1].instance,
           m.peer.state = "connected" => mesh.peer.state = "connected" /\ m.output = mesh.output
    PROVE  MeshInv'
BY WireShrinks DEF MeshFits, MeshInv, MeshTypes, PeerOffers, Helped, Attended

\* A mesh whose Listener has a peer, the one there was or a new one.
WithPeer(m, b, p, o, owed) == [m EXCEPT !.built = b, !.peer = p, !.output = o, !.owed = owed]

LEMMA WithPeerIs ==
    ASSUME NEW m \in Meshes, m.started, m.known # 0, \A c \in m.closing : c.instance # 0,
           NEW b \in Nat, NEW p \in MeshPeers, NEW o \in [of : Nat, marked : BOOLEAN], NEW owed, owed \in BOOLEAN,
           o.of = p.id, p.of = m.known, PeerOffers(p), owed => m.closing # {} \/ m.overtaken
    PROVE  LET n == WithPeer(m, b, p, o, owed) IN
           /\ MeshFits(n) /\ Attended(n) /\ n.peer = p /\ n.output = o
           /\ n.deadlines = m.deadlines /\ n.known = m.known /\ n.started
<1> DEFINE n == WithPeer(m, b, p, o, owed)
<1>1. /\ n \in Meshes /\ n.peer = p /\ n.output = o /\ n.deadlines = m.deadlines /\ n.known = m.known
      /\ n.started = m.started /\ n.closing = m.closing /\ n.owed = owed /\ n.overtaken = m.overtaken
  BY DEF WithPeer, Meshes
<1> HIDE DEF n
<1>2. p # NoPeer /\ p.id # 0
  BY PeersAre
<1>3. MeshFits(n)
  BY <1>1, <1>2 DEF MeshFits
<1>4. Attended(n)
  BY <1>1, <1>2 DEF Attended
<1> QED
  BY <1>1, <1>3, <1>4 DEF n

\* ensureOffered: the elected side has offered, or will.
LEMMA OfferingIs ==
    ASSUME NEW m \in Meshes, m.peer \in MeshPeers
    PROVE  \E p \in MeshPeers :
               /\ Offering(m) = [m EXCEPT !.peer = p] /\ PeerOffers(p)
               /\ p.id = m.peer.id /\ p.of = m.peer.of /\ p.state = m.peer.state
               /\ p.grace = m.peer.grace /\ p.asked = m.peer.asked /\ p.generation = m.peer.generation
<1> DEFINE making == IF elected /\ ~m.peer.offered /\ m.peer.making = "no" THEN "first" ELSE m.peer.making
           p == [m.peer EXCEPT !.making = making]
<1>1. /\ making \in {"no", "first", "recovery"}
      /\ elected /\ ~m.peer.offered => making # "no"
  BY DEF MeshPeers
<1>2. Offering(m) = [m EXCEPT !.peer = p]
  BY DEF Offering, Meshes
<1> HIDE DEF making
<1>3. /\ p \in MeshPeers /\ p.making = making /\ p.offered = m.peer.offered
      /\ p.id = m.peer.id /\ p.of = m.peer.of /\ p.state = m.peer.state
      /\ p.grace = m.peer.grace /\ p.asked = m.peer.asked /\ p.generation = m.peer.generation
  BY <1>1 DEF MeshPeers
<1> HIDE DEF p
<1>4. PeerOffers(p)
  BY <1>1, <1>3 DEF PeerOffers
<1> QED
  BY <1>2, <1>3, <1>4

LEMMA SnapshotIs ==
    ASSUME MeshInv, mesh.started, NEW stay \in Nat
    PROVE  LET n == WithSnapshot(mesh, stay) IN
           /\ MeshFits(n) /\ Helped(n) /\ Attended(n) /\ n.started /\ n.known = stay
           /\ n.peer.state = "connected" => mesh.peer.state = "connected" /\ n.output = mesh.output
<1>1. /\ mesh \in Meshes /\ MeshFits(mesh) /\ Helped(mesh) /\ FALSE \in BOOLEAN /\ mesh.owed \in BOOLEAN
      /\ mesh.peer # NoPeer => mesh.peer \in MeshPeers
  BY MeshIs DEF Meshes
<1> DEFINE over == stay = 0 \/ Replaces(mesh, stay)
           left == IF over THEN [mesh EXCEPT !.peer = NoPeer, !.output = NoOutput, !.owed = FALSE] ELSE mesh
           here == [left EXCEPT !.known = stay]
<1>2. WithSnapshot(mesh, stay) = IF stay = 0 THEN here ELSE Offering(Ensured(here))
  BY <1>1 DEF Dropped, Meshes, WithSnapshot
<1>3. /\ here \in Meshes /\ here.known = stay /\ here.started /\ here.closing = mesh.closing
      /\ here.deadlines = mesh.deadlines /\ here.overtaken = mesh.overtaken
      /\ over => here.peer = NoPeer /\ here.output = NoOutput /\ ~here.owed
      /\ ~over => here.peer = mesh.peer /\ here.output = mesh.output /\ (here.owed = mesh.owed)
  BY <1>1, PeersAre DEF Meshes
<1>4. ~over => stay # 0 /\ mesh.known \in {0, stay}
  BY DEF Replaces
<1> HIDE DEF here, over
<1>5. CASE stay = 0
  BY <1>5, <1>1, <1>3, PeersAre, <1>2 DEF over, MeshFits, Helped, Attended
<1>6. CASE stay # 0
  <2>1. /\ here.peer # NoPeer => ~over /\ here.peer = mesh.peer /\ here.output = mesh.output /\ here.peer.of = here.known
        /\ here.output.of = here.peer.id /\ (here.output.of = 0 => ~here.output.marked)
        /\ here.owed => here.closing # {} \/ here.overtaken
    BY <1>1, <1>3, <1>4, PeersAre DEF MeshFits
  <2>2. PICK p \in MeshPeers, o \in [of : Nat, marked : BOOLEAN], b \in Nat :
            /\ Ensured(here) = [here EXCEPT !.built = b, !.peer = p, !.output = o]
            /\ p.of = here.known /\ o.of = p.id
            /\ here.peer # NoPeer => p = here.peer /\ o = here.output
            /\ here.peer = NoPeer => p.state = "new"
    BY <1>3, <2>1, EnsuredIs
  <2>3. PICK e : e = [here EXCEPT !.built = b, !.peer = p, !.output = o]
    OBVIOUS
  <2>4. e \in Meshes /\ e.peer = p
    BY <1>3, <2>3 DEF Meshes
  <2>5. PICK q \in MeshPeers :
            /\ Offering(e) = [e EXCEPT !.peer = q] /\ PeerOffers(q)
            /\ q.id = p.id /\ q.of = p.of /\ q.state = p.state
            /\ q.grace = p.grace /\ q.asked = p.asked /\ q.generation = p.generation
    BY <2>4, OfferingIs
  <2>6. [e EXCEPT !.peer = q] = WithPeer(here, b, q, o, here.owed)
    BY <1>3, <2>3 DEF WithPeer, Meshes
  <2>7. PICK n : n = WithPeer(here, b, q, o, here.owed)
    OBVIOUS
  <2>8. WithSnapshot(mesh, stay) = n
    BY <1>2, <1>6, <2>2, <2>3, <2>5, <2>6, <2>7
  <2>9. /\ here \in Meshes /\ here.started /\ here.known # 0 /\ (\A c \in here.closing : c.instance # 0)
        /\ here.owed \in BOOLEAN /\ o.of = q.id /\ q.of = here.known /\ PeerOffers(q)
        /\ here.owed => here.closing # {} \/ here.overtaken
    BY <1>1, <1>3, <1>6, <2>1, <2>2, <2>5 DEF MeshFits, Meshes
  <2>10. /\ MeshFits(n) /\ Attended(n) /\ n.peer = q /\ n.output = o
         /\ n.deadlines = here.deadlines /\ n.known = here.known /\ n.started
    BY <2>7, <2>9, WithPeerIs
  <2>11. n.peer.state # "new" => p = mesh.peer /\ o = mesh.output
    BY <2>1, <2>2, <2>5, <2>10
  <2>12. Helped(n)
    BY <1>1, <1>3, <2>5, <2>10, <2>11 DEF Helped
  <2> QED
    BY <1>3, <2>5, <2>8, <2>10, <2>11, <2>12
<1> QED
  BY <1>5, <1>6

LEMMA OfferHeardIs ==
    ASSUME MeshInv, mesh.started, mesh.known # 0
    PROVE  LET n == WithOffer(mesh, mesh.known) IN
           /\ MeshFits(n) /\ Helped(n) /\ Attended(n) /\ n.started /\ n.known = mesh.known
           /\ n.peer.state = "connected" => mesh.peer.state = "connected" /\ n.output = mesh.output
<1>1. /\ mesh \in Meshes /\ MeshFits(mesh) /\ Helped(mesh) /\ FALSE \in BOOLEAN /\ TRUE \in BOOLEAN
      /\ mesh.peer # NoPeer => mesh.peer \in MeshPeers
  BY MeshIs
<1>2. [mesh EXCEPT !.known = mesh.known] = mesh
  BY <1>1 DEF Meshes
<1>3. PICK p \in MeshPeers, o \in [of : Nat, marked : BOOLEAN], b \in Nat :
          /\ Ensured(mesh) = [mesh EXCEPT !.built = b, !.peer = p, !.output = o]
          /\ p.of = mesh.known /\ o.of = p.id
          /\ mesh.peer # NoPeer => p = mesh.peer /\ o = mesh.output
          /\ mesh.peer = NoPeer => p.state = "new"
  BY <1>1, EnsuredIs DEF MeshFits
<1>4. PICK e : e = [mesh EXCEPT !.built = b, !.peer = p, !.output = o]
  OBVIOUS
<1> DEFINE q == [p EXCEPT !.offered = TRUE]
<1>5. /\ q \in MeshPeers /\ q.offered /\ q.id = p.id /\ q.of = p.of /\ q.state = p.state
      /\ q.grace = p.grace /\ q.asked = p.asked /\ q.generation = p.generation
  BY <1>1 DEF MeshPeers
<1>6. e \in Meshes /\ e.peer = p
  BY <1>1, <1>4 DEF Meshes
<1>7. [e EXCEPT !.peer.offered = TRUE, !.owed = FALSE] = [e EXCEPT !.peer = q, !.owed = FALSE]
  BY <1>6 DEF Meshes
<1> HIDE DEF q
<1>8. [e EXCEPT !.peer = q, !.owed = FALSE] = WithPeer(mesh, b, q, o, FALSE)
  BY <1>1, <1>4 DEF WithPeer, Meshes
<1>9. PICK n : n = WithPeer(mesh, b, q, o, FALSE)
  OBVIOUS
<1>10. WithOffer(mesh, mesh.known) = n
  BY <1>2, <1>3, <1>4, <1>7, <1>8, <1>9 DEF WithOffer
<1>11. PICK owed : owed = FALSE /\ owed \in BOOLEAN
  OBVIOUS
<1>12. /\ mesh \in Meshes /\ mesh.started /\ mesh.known # 0 /\ (\A c \in mesh.closing : c.instance # 0)
       /\ owed \in BOOLEAN /\ o.of = q.id /\ q.of = mesh.known /\ PeerOffers(q)
       /\ owed => mesh.closing # {} \/ mesh.overtaken
  BY <1>1, <1>3, <1>5, <1>11 DEF MeshFits, PeerOffers
<1>13. n = WithPeer(mesh, b, q, o, owed)
  BY <1>9, <1>11
<1>14. /\ MeshFits(n) /\ Attended(n) /\ n.peer = q /\ n.output = o
       /\ n.deadlines = mesh.deadlines /\ n.known = mesh.known /\ n.started
  BY <1>5, <1>12, <1>13, WithPeerIs
<1>15. n.peer.state # "new" => p = mesh.peer /\ o = mesh.output
  BY <1>3, <1>5, <1>14
<1>16. Helped(n)
  BY <1>1, <1>5, <1>14, <1>15 DEF Helped
<1> QED
  BY <1>5, <1>10, <1>14, <1>15, <1>16

LEMMA RecoveryHeardIs ==
    ASSUME MeshInv, mesh.started, mesh.known # 0
    PROVE  LET n == Rebuilding(Ensured([mesh EXCEPT !.known = mesh.known])) IN
           /\ MeshFits(n) /\ Helped(n) /\ Attended(n) /\ n.started /\ n.known = mesh.known
           /\ n.peer.state # "connected"
<1>1. /\ mesh \in Meshes /\ MeshFits(mesh) /\ elected \in BOOLEAN
  BY MeshIs
<1>2. [mesh EXCEPT !.known = mesh.known] = mesh
  BY <1>1 DEF Meshes
<1>3. PICK p \in MeshPeers, o \in [of : Nat, marked : BOOLEAN], b \in Nat :
          /\ Ensured(mesh) = [mesh EXCEPT !.built = b, !.peer = p, !.output = o]
          /\ p.of = mesh.known /\ o.of = p.id
          /\ mesh.peer # NoPeer => p = mesh.peer /\ o = mesh.output
          /\ mesh.peer = NoPeer => p.state = "new"
  BY <1>1, EnsuredIs DEF MeshFits
<1>4. PICK e : e = [mesh EXCEPT !.built = b, !.peer = p, !.output = o]
  OBVIOUS
<1>5. /\ e \in Meshes /\ e.peer \in MeshPeers /\ e.started /\ e.known # 0 /\ e.known = mesh.known
      /\ \A c \in e.closing : c.instance # 0
  BY <1>1, <1>4 DEF Meshes, MeshFits
<1>6. PICK n : n = Rebuilding(e)
  OBVIOUS
<1>7. MeshFits(n) /\ Helped(n) /\ Attended(n) /\ n.peer = NoPeer /\ n.known = e.known /\ n.started
  BY <1>1, <1>5, <1>6, RebuildingIs
<1>8. Rebuilding(Ensured([mesh EXCEPT !.known = mesh.known])) = n
  BY <1>2, <1>3, <1>4, <1>6
<1> QED
  BY <1>5, <1>7, <1>8, PeersAre

LEMMA WireIsHeard == ASSUME MeshInv, HearWire PROVE MeshInv'
<1> DEFINE heard == wire[1]
<1>1. /\ wire # <<>> /\ wire' = Tail(wire) /\ UNCHANGED <<elected, listener, playing, hearing, happened>>
  BY DEF HearWire
<1>2. /\ heard \in Heard /\ heard = Head(wire)
      /\ mesh.started => (heard.kind # "snapshot" => heard.instance = mesh.known /\ mesh.known # 0)
  BY <1>1, WireShrinks
<1> HIDE DEF heard
<1>3. mesh.started => ~(heard.kind # "snapshot" /\ Replaces(mesh, heard.instance))
  BY <1>2 DEF Replaces
<1>4. CASE ~mesh.started
  BY <1>2, <1>4, <1>1, MeshIs, MeshHears DEF HearWire
<1>5. CASE mesh.started
  BY <1>2, <1>3, <1>5, SnapshotIs, OfferHeardIs, RecoveryHeardIs, <1>1, MeshHears DEF HearWire, Heard, heard
<1> QED
  BY <1>4, <1>5

\* A peer has closed: its successor is built, or one was meanwhile.
LEMMA PeerCloses == ASSUME MeshInv, CloseEnds PROVE MeshInv'
<1> DEFINE closed(c) == [mesh EXCEPT !.closing = @ \ {c}]
           next(c) == [Ensured(closed(c)) EXCEPT !.peer.asked = ~elected, !.owed = FALSE]
<1>1. PICK c \in mesh.closing :
          mesh' = IF mesh.started /\ mesh.peer = NoPeer /\ mesh.known = c.instance THEN Offering(next(c))
                  ELSE [closed(c) EXCEPT !.overtaken = mesh.overtaken \/ mesh.peer # NoPeer]
  BY MeshIs DEF Meshes, CloseEnds
<1>2. /\ mesh \in Meshes /\ MeshFits(mesh) /\ Helped(mesh) /\ Attended(mesh) /\ elected \in BOOLEAN
      /\ TRUE \in BOOLEAN /\ FALSE \in BOOLEAN /\ mesh.overtaken \in BOOLEAN
      /\ mesh.peer # NoPeer => mesh.peer \in MeshPeers
      /\ mesh.closing \in SUBSET [id : Nat, instance : Nat]
  BY MeshIs DEF Meshes
<1> DEFINE left == mesh.closing \ {c}
           m == [mesh EXCEPT !.closing = left]
<1>3. left \in SUBSET [id : Nat, instance : Nat] /\ (\A d \in left : d.instance # 0)
      /\ (\A d \in mesh.closing : d = c \/ d \in left)
  BY <1>2 DEF MeshFits
<1>4. closed(c) = m
  OBVIOUS
<1> HIDE DEF left
<1>5. /\ m \in Meshes /\ m.peer = mesh.peer /\ m.output = mesh.output /\ m.known = mesh.known
      /\ m.started = mesh.started /\ m.closing = left /\ m.deadlines = mesh.deadlines
      /\ (m.owed = mesh.owed) /\ m.built = mesh.built
  BY <1>2, <1>3 DEF Meshes
<1> HIDE DEF m, closed
<1>6. UNCHANGED <<elected, listener, wire, playing, hearing, happened>>
  BY DEF CloseEnds
<1>7. /\ happened' \in [stays : Nat, signals : Nat, troubles : Nat, refreshes : Nat, looks : Nat]
      /\ playing' \in BOOLEAN /\ hearing' \in [silent : BOOLEAN, missing : BOOLEAN] /\ ~hearing'.missing
  BY <1>6, MeshIs
<1>8. CASE mesh.started /\ mesh.peer = NoPeer /\ mesh.known = c.instance
  <2>1. PICK p \in MeshPeers, o \in [of : Nat, marked : BOOLEAN], b \in Nat :
            /\ Ensured(m) = [m EXCEPT !.built = b, !.peer = p, !.output = o]
            /\ p.of = m.known /\ o.of = p.id
            /\ m.peer # NoPeer => p = m.peer /\ o = m.output
            /\ m.peer = NoPeer => p.state = "new"
    BY <1>2, <1>5, EnsuredIs DEF MeshFits
  <2>2. PICK e : e = [m EXCEPT !.built = b, !.peer = p, !.output = o]
    OBVIOUS
  <2>3. e \in Meshes /\ e.peer = p
    BY <1>5, <2>2 DEF Meshes
  <2>4. PICK asked \in BOOLEAN : asked = ~elected
    BY <1>2
  <2> DEFINE r == [p EXCEPT !.asked = asked]
             f == [e EXCEPT !.peer = r, !.owed = FALSE]
  <2>5. r \in MeshPeers /\ r.id = p.id /\ r.of = p.of /\ r.state = p.state
    BY DEF MeshPeers
  <2>6. next(c) = f
    BY <1>4, <2>1, <2>2, <2>4, <2>3 DEF Meshes
  <2> HIDE DEF r
  <2>7. f \in Meshes /\ f.peer = r
    BY <1>2, <2>3, <2>5 DEF Meshes
  <2> HIDE DEF f, next
  <2>8. PICK q \in MeshPeers :
            /\ Offering(f) = [f EXCEPT !.peer = q] /\ PeerOffers(q)
            /\ q.id = r.id /\ q.of = r.of /\ q.state = r.state
            /\ q.grace = r.grace /\ q.asked = r.asked /\ q.generation = r.generation
    BY <2>5, <2>7, OfferingIs
  <2>9. [f EXCEPT !.peer = q] = WithPeer(m, b, q, o, FALSE)
    BY <1>5, <2>2 DEF WithPeer, Meshes, f
  <2>10. PICK n : n = WithPeer(m, b, q, o, FALSE)
    OBVIOUS
  <2>11. mesh' = n
    BY <1>1, <1>8, <2>6, <2>8, <2>9, <2>10
  <2>12. PICK owed : owed = FALSE /\ owed \in BOOLEAN
    OBVIOUS
  <2>13. n = WithPeer(m, b, q, o, owed)
    BY <2>10, <2>12
  <2>14. /\ m \in Meshes /\ m.started /\ m.known # 0 /\ (\A d \in m.closing : d.instance # 0)
         /\ owed \in BOOLEAN /\ o.of = q.id /\ q.of = m.known /\ PeerOffers(q)
         /\ owed => m.closing # {} \/ m.overtaken
    BY <1>2, <1>3, <1>5, <1>8, <2>1, <2>5, <2>8, <2>12 DEF MeshFits
  <2>15. /\ MeshFits(n) /\ Attended(n) /\ n.peer = q /\ n.output = o
         /\ n.deadlines = m.deadlines /\ n.known = m.known /\ n.started
    BY <2>13, <2>14, WithPeerIs
  <2>16. Helped(n) /\ n.peer.state # "connected"
    BY <1>5, <1>8, <2>1, <2>5, <2>8, <2>15 DEF Helped
  <2> QED
    BY <1>5, <1>6, <1>7, <1>8, <2>11, <2>15, <2>16, MeshSteps
<1>9. CASE ~(mesh.started /\ mesh.peer = NoPeer /\ mesh.known = c.instance)
  <2>1. PICK overtaken \in BOOLEAN : overtaken <=> mesh.overtaken \/ mesh.peer # NoPeer
    BY <1>2
  <2>2. overtaken = (mesh.overtaken \/ mesh.peer # NoPeer)
    BY <1>2, <2>1
  <2>3. PICK n : n = [m EXCEPT !.overtaken = overtaken]
    OBVIOUS
  <2>4. mesh' = n
    BY <1>1, <1>4, <1>9, <2>2, <2>3
  <2>5. /\ n \in Meshes /\ n.peer = mesh.peer /\ n.output = mesh.output /\ n.known = mesh.known
        /\ n.started = mesh.started /\ n.closing = left /\ n.deadlines = mesh.deadlines
        /\ (n.owed = mesh.owed) /\ (n.overtaken <=> mesh.overtaken \/ mesh.peer # NoPeer)
    BY <1>2, <1>5, <2>1, <2>3 DEF Meshes
  <2>6. mesh.known # 0 /\ mesh.peer = NoPeer => \E d \in left : d.instance = mesh.known
    BY <1>2, <1>3, <1>9 DEF MeshFits, Attended
  <2>7. Helped(n) /\ Attended(n)
    BY <1>2, <2>5, <2>6 DEF Helped, Attended
  <2>8. n.owed => n.known # 0 /\ (n.closing # {} \/ n.overtaken)
    BY <1>2, <2>5, <2>6 DEF MeshFits
  <2>9. MeshFits(n)
    BY <1>2, <1>3, <2>5, <2>8 DEF MeshFits
  <2>10. n.peer.state = "connected" /\ hearing'.silent => ~n.output.marked
    BY <1>6, <2>5 DEF MeshInv
  <2> QED
    BY <1>6, <1>7, <2>4, <2>5, <2>7, <2>9, <2>10, MeshSteps
<1> QED
  BY <1>8, <1>9

LEMMA MeshStart == ASSUME ListenerMeshInit PROVE MeshInv
<1>1. /\ mesh = [started |-> TRUE, known |-> 0, peer |-> NoPeer, output |-> NoOutput, built |-> 0,
                 credential |-> 0, deadlines |-> {}, closing |-> {}, owed |-> FALSE, overtaken |-> FALSE]
      /\ hearing = [silent |-> TRUE, missing |-> FALSE]
      /\ happened = [stays |-> 0, signals |-> 0, troubles |-> 0, refreshes |-> 0, looks |-> 0]
      /\ elected \in BOOLEAN /\ listener = 0 /\ wire = <<>> /\ ~playing /\ playing \in BOOLEAN
      /\ TRUE \in BOOLEAN /\ FALSE \in BOOLEAN
  BY DEF ListenerMeshInit
<1>2. /\ mesh \in Meshes /\ mesh.known = 0 /\ mesh.peer = NoPeer /\ mesh.output = NoOutput /\ mesh.closing = {}
      /\ mesh.started /\ ~mesh.owed
  BY <1>1, PeersAre DEF Meshes
<1>3. /\ hearing \in [silent : BOOLEAN, missing : BOOLEAN] /\ ~hearing.missing
      /\ happened \in [stays : Nat, signals : Nat, troubles : Nat, refreshes : Nat, looks : Nat]
  BY <1>1
<1>4. wire \in Seq(Heard) /\ Len(wire) = 0 /\ listener \in Nat
  BY <1>1, EmptySeq
<1>5. MeshTypes
  BY <1>1, <1>2, <1>3, <1>4 DEF MeshTypes
<1>6. MeshFits(mesh) /\ Helped(mesh) /\ Attended(mesh)
  BY <1>2, PeersAre DEF MeshFits, Helped, Attended
<1>7. WireFollows
  BY <1>1, <1>2, <1>4 DEF WireFollows, NewestInstance
<1> QED
  BY <1>2, <1>3, <1>5, <1>6, <1>7, PeersAre DEF MeshInv

LEMMA MeshStutters == ASSUME MeshInv, UNCHANGED meshVars PROVE MeshInv'
BY MeshIs, MeshSteps DEF meshVars, MeshInv

\* ListenersAreFed, for every number of joins, signals, troubles and refreshes:
\* the Listener has its peer, or one on its way, and hears what is played.
THEOREM ListenersStayFed == ListenerMeshSpec => []ListenersAreFed
<1>1. ListenerMeshInit => MeshInv
  BY MeshStart
<1>2. MeshInv /\ [ListenerMeshNext]_meshVars => MeshInv'
  <2> SUFFICES ASSUME MeshInv, [ListenerMeshNext]_meshVars PROVE MeshInv'
    OBVIOUS
  <2>1. CASE ListenerStays \/ ListenerGoes \/ ListenerSignals
    BY <2>1, MeshTold
  <2>2. CASE HearWire
    BY <2>2, WireIsHeard
  <2>3. CASE CloseEnds
    BY <2>3, PeerCloses
  <2>4. CASE OfferGoes
    BY <2>4, OffersGo
  <2>5. CASE OfferFails
    BY <2>5, OffersFail
  <2>6. CASE TransportUp
    BY <2>6, TransportComesUp
  <2>7. CASE TransportBreaks
    BY <2>7, TransportGoesDown
  <2>8. CASE TransportFails \/ RecoveryGraceEnds
    BY <2>8, TransportsFail
  <2>9. CASE RecoveryTimesOut
    BY <2>9, RecoveryIsOver
  <2>10. CASE FreshCredentials
    BY <2>10, CredentialsRefresh
  <2>11. CASE LoadsTrack \/ Starves
    BY <2>11, PlayerReopens DEF LoadsTrack, Starves
  <2>12. CASE Plays
    BY <2>12, PlayerPlays
  <2>13. CASE StopsPlaying
    BY <2>13, PlayerStops
  <2>14. CASE WritesFrame
    BY <2>14, FrameIsWritten
  <2>15. CASE SetEnds
    BY <2>15, SetIsOver
  <2>16. CASE UNCHANGED meshVars
    BY <2>16, MeshStutters
  <2> QED
    BY <2>1, <2>2, <2>3, <2>4, <2>5, <2>6, <2>7, <2>8, <2>9, <2>10, <2>11, <2>12, <2>13, <2>14, <2>15, <2>16
       DEF ListenerMeshNext
<1>3. MeshInv => ListenersAreFed
  BY DEF MeshInv, WireFollows, NewestInstance, MeshFits, Attended, HasPeer, PeerOffers, Helped, Down,
     ListenersAreFed
<1> QED
  BY <1>1, <1>2, <1>3, PTL DEF ListenerMeshSpec

------------------------
(* The picture of a watched screen. *)

Tracks == {"none", "silent", "playing", "muted", "ended"}
EntryType ==
    [kept : BOOLEAN, stale : BOOLEAN, started : 0..Startup, ready : BOOLEAN, played : BOOLEAN,
     interrupted : -1..Presentation, unavailable : -1..Unavailable, fault : -1..GiveUp, repaired : -1..Cooldown,
     status : {"connecting", "ready", "reconnecting", "failed"}]
SpellType == [missed : Nat, there : Nat, unrepaired : Nat, early : BOOLEAN]
PicturesType ==
    /\ picture \in [track : Tracks, shown : BOOLEAN] /\ viewing \in [watched : BOOLEAN, linked : BOOLEAN]
    /\ entry \in EntryType /\ spell \in SpellType
    /\ sampling \in [awaits : {"nothing", "statistics", "repair"}, current : BOOLEAN, waited : 0..AnswerWithin]

\* What an entry is by itself.
Sound(e) ==
    /\ e.status = "ready" => e.played /\ e.interrupted < Presentation
    /\ e.stale => e.kept
    /\ e.ready => e.played
    /\ e.ready /\ ~e.stale => picture.track # "none"

L == AnswerWithin + 1

\* The age of the last repair is told by the entry.
Repaired(e, s) ==
    /\ e.repaired = Never => s.unrepaired >= Cooldown
    /\ e.repaired # Never => s.unrepaired >= e.repaired
    /\ e.repaired \in 0..(Cooldown - 1) => s.unrepaired = e.repaired
    /\ ~s.early

\* A sample may not be taken for so long.
TellsInTime(e, s, most) ==
    /\ e.played /\ e.interrupted = Never => s.missed <= most
    /\ e.played /\ e.interrupted \in 0..(Presentation - 1) => s.missed <= e.interrupted + L

FoundUnsampled(e, s, most) ==
    \/ s.missed <= most
    \/ e.ready /\ e.unavailable \in 0..(Unavailable - 1) /\ s.missed <= e.unavailable + L
    \/ ~e.ready /\ e.started < Startup /\ s.missed <= e.started + Unavailable + L

FaultLasts(e, s) ==
    /\ e.fault \in 0..(GiveUp - 1) =>
          /\ e.ready \/ e.started < Startup => s.missed <= e.fault + Unavailable + L
          /\ s.missed <= e.fault + Startup + Unavailable + L
    /\ e.fault # Never /\ e.ready => e.unavailable = Unavailable

Long == GiveUp + Unavailable + L

WhileNothing(e, s) ==
    /\ TellsInTime(e, s, AnswerWithin)
    /\ ~e.ready \/ e.status # "ready" => s.there <= AnswerWithin
    /\ e.fault = Never => FoundUnsampled(e, s, AnswerWithin)
    /\ e.fault = GiveUp =>
          /\ e.ready => s.missed <= Long + AnswerWithin
          /\ ~e.ready /\ e.started < Startup => s.missed <= Long + L + e.started
          /\ s.missed <= Long + Startup + AnswerWithin
    /\ e.fault # Never =>
          \/ s.unrepaired <= Cooldown + AnswerWithin
          \/ s.missed <= AnswerWithin
          \/ /\ ~e.ready /\ e.started < Startup
             /\ s.unrepaired <= Cooldown + L + e.started \/ s.missed <= L + e.started

WhileStatistics(e, s) ==
    /\ TellsInTime(e, s, L)
    /\ ~e.ready \/ e.status # "ready" => s.there <= L
    /\ e.ready => s.missed = 0 /\ e.fault = Never
    /\ e.fault = Never => s.missed <= L \/ s.missed <= e.started + Unavailable + L
    /\ e.fault = GiveUp => s.missed <= Long + L + e.started
    /\ e.fault # Never => s.unrepaired <= Cooldown + L + e.started \/ s.missed <= L + e.started

WhileRepair(e, s, waited) ==
    /\ TellsInTime(e, s, waited)
    /\ e.fault = Never => s.missed <= waited
    /\ e.fault = GiveUp =>
          /\ e.ready \/ e.started < Startup => s.missed <= Long + waited
          /\ s.missed <= Long + Startup + waited
    /\ e.fault # Never => s.unrepaired <= waited

InTime(e, s, awaits, waited) ==
    /\ FaultLasts(e, s)
    /\ awaits = "nothing" => WhileNothing(e, s)
    /\ awaits = "statistics" => WhileStatistics(e, s)
    /\ awaits = "repair" => WhileRepair(e, s, waited)

PicturesInv ==
    /\ PicturesType
    /\ (entry.kept <=> viewing.watched)
    /\ Sound(entry)
    /\ Repaired(entry, spell)
    /\ entry.stale \/ picture.track # "playing" => spell.there = 0
    /\ ~entry.kept => spell.missed = 0 /\ spell.there = 0 /\ entry.repaired = Never /\ ~entry.ready
    /\ sampling.awaits # "repair" => sampling.waited = 0
    /\ sampling.awaits = "repair" => spell.there <= sampling.waited
    /\ sampling.awaits = "statistics" /\ sampling.current => entry.kept /\ entry.status # "failed"
    /\ sampling.awaits = "statistics" /\ ~sampling.current => spell.missed = 0 /\ spell.there = 0
    /\ entry.kept /\ entry.status # "failed" => InTime(entry, spell, sampling.awaits, sampling.waited)
\* What a sample finds of an entry, before it looks.
Due(e, s) ==
    /\ TellsInTime(e, s, L)
    /\ ~e.ready => s.there <= L
    /\ e.fault = Never =>
          \/ s.missed <= L
          \/ e.ready /\ e.unavailable \in 0..Unavailable /\ s.missed <= e.unavailable + L
          \/ ~e.ready /\ s.missed <= e.started + Unavailable + L
    /\ FaultLasts(e, s)
    /\ e.fault = GiveUp =>
          /\ e.ready => s.missed <= Long + L
          /\ ~e.ready => s.missed <= Long + L + e.started
    /\ e.fault # Never /\ ~e.ready => s.unrepaired <= Cooldown + L + e.started \/ s.missed <= L + e.started
    /\ e.ready /\ ~Lost(e) => s.missed = 0

LEMMA AgedEntry ==
    ASSUME NEW e \in EntryType
    PROVE  LET a == Aged(e) IN
           /\ a \in EntryType
           /\ a.kept = e.kept /\ a.stale = e.stale /\ a.ready = e.ready /\ a.played = e.played /\ a.status = e.status
           /\ a.started = IF e.started < Startup THEN e.started + 1 ELSE e.started
           /\ a.interrupted = Older(e.interrupted, Presentation)
           /\ a.unavailable = Older(e.unavailable, Unavailable)
           /\ a.fault = Older(e.fault, GiveUp)
           /\ a.repaired = Older(e.repaired, Cooldown)
<1>1. /\ Counted(e.started, Startup) \in 0..Startup
      /\ Counted(e.started, Startup) = IF e.started < Startup THEN e.started + 1 ELSE e.started
  BY LimitsAssumption DEF EntryType, Counted
<1>2. /\ Older(e.interrupted, Presentation) \in -1..Presentation
      /\ Older(e.unavailable, Unavailable) \in -1..Unavailable
      /\ Older(e.fault, GiveUp) \in -1..GiveUp
      /\ Older(e.repaired, Cooldown) \in -1..Cooldown
  BY LimitsAssumption DEF EntryType, Older, Never
<1>3. Aged(e) = [e EXCEPT !.started = Counted(e.started, Startup), !.interrupted = Older(e.interrupted, Presentation),
                         !.unavailable = Older(e.unavailable, Unavailable), !.fault = Older(e.fault, GiveUp),
                         !.repaired = Older(e.repaired, Cooldown)]
  BY DEF Aged, EntryType
<1> QED
  BY <1>1, <1>2, <1>3 DEF EntryType

LEMMA RungEntry ==
    ASSUME NEW e \in EntryType
    PROVE  LET a == TimerRings(e) IN
           /\ a \in EntryType
           /\ a.kept = e.kept /\ a.stale = e.stale /\ a.ready = e.ready /\ a.played = e.played
           /\ a.status = IF e.status = "ready" /\ e.interrupted >= Presentation THEN "reconnecting" ELSE e.status
           /\ a.started = e.started /\ a.interrupted = e.interrupted /\ a.unavailable = e.unavailable
           /\ a.fault = e.fault /\ a.repaired = e.repaired
BY LimitsAssumption DEF TimerRings, EntryType

LEMMA InterruptedEntry ==
    ASSUME NEW e \in EntryType
    PROVE  LET a == Interrupted(e) IN
           /\ a \in EntryType
           /\ a.kept = e.kept /\ a.stale = e.stale /\ a.ready = e.ready /\ a.played = e.played
           /\ a.started = e.started /\ a.fault = e.fault /\ a.repaired = e.repaired /\ a.unavailable = e.unavailable
           /\ a.interrupted = IF e.interrupted = Never THEN 0 ELSE e.interrupted
           /\ a.status = IF a.interrupted >= Presentation THEN "reconnecting" ELSE "ready"
<1>1. PICK i \in -1..Presentation : i = IF e.interrupted = Never THEN 0 ELSE e.interrupted
  BY LimitsAssumption DEF EntryType, Never
<1>2. PICK w \in {"reconnecting", "ready"} : w = IF i >= Presentation THEN "reconnecting" ELSE "ready"
  OBVIOUS
<1>3. Interrupted(e) = [e EXCEPT !.interrupted = i, !.status = w]
  BY <1>1, <1>2 DEF Interrupted
<1> QED
  BY <1>1, <1>2, <1>3 DEF EntryType

LEMMA RenewedOne ==
    ASSUME NEW e \in EntryType
    PROVE  LET a == RenewedEntry(e) IN
           /\ a \in EntryType
           /\ a.kept /\ ~a.stale /\ ~a.ready /\ a.played = e.played /\ a.unavailable = Never
           /\ a.started = IF e.ready THEN 0 ELSE e.started
           /\ a.fault = e.fault /\ a.repaired = e.repaired
           /\ a.interrupted = IF e.played /\ e.interrupted = Never THEN 0 ELSE e.interrupted
           /\ a.status = IF ~e.played \/ e.status = "failed" THEN e.status
                         ELSE IF a.interrupted >= Presentation THEN "reconnecting" ELSE "ready"
<1> DEFINE f == [e EXCEPT !.kept = TRUE, !.stale = FALSE, !.ready = FALSE, !.unavailable = Never,
                          !.started = IF e.ready THEN 0 ELSE @]
<1>0. PICK st \in 0..Startup : st = IF e.ready THEN 0 ELSE e.started
  BY LimitsAssumption DEF EntryType
<1>b. PICK on \in BOOLEAN, off \in BOOLEAN : on = TRUE /\ off = FALSE
  OBVIOUS
<1>a. f = [e EXCEPT !.kept = on, !.stale = off, !.ready = off, !.unavailable = Never, !.started = st]
  BY <1>0, <1>b DEF EntryType
<1>1. /\ f \in EntryType /\ f.kept = TRUE /\ f.stale = FALSE /\ f.ready = FALSE /\ f.unavailable = Never
      /\ f.started = IF e.ready THEN 0 ELSE e.started
      /\ f.played = e.played /\ f.fault = e.fault /\ f.repaired = e.repaired /\ f.interrupted = e.interrupted
      /\ f.status = e.status
  <2> HIDE DEF f
  <2>a. -1 \in -1..Unavailable /\ Never = -1
    BY LimitsAssumption DEF Never
  <2>1. /\ f \in EntryType /\ f.kept = on /\ f.stale = off /\ f.ready = off /\ f.unavailable = Never /\ f.started = st
        /\ f.played = e.played /\ f.fault = e.fault /\ f.repaired = e.repaired /\ f.interrupted = e.interrupted
        /\ f.status = e.status
    BY <1>a, <2>a DEF EntryType
  <2> QED
    BY <1>0, <1>b, <2>1
<1>2. RenewedEntry(e) = IF e.played /\ e.status # "failed" THEN Interrupted(f)
                        ELSE IF e.played THEN [f EXCEPT !.interrupted = IF @ = Never THEN 0 ELSE @] ELSE f
  BY DEF RenewedEntry
<1> HIDE DEF f
<1>3. CASE e.played /\ e.status # "failed"
  <2> DEFINE a == Interrupted(f)
  <2>1. RenewedEntry(e) = a
    BY <1>2, <1>3
  <2>2. /\ a \in EntryType
        /\ a.kept = f.kept /\ a.stale = f.stale /\ a.ready = f.ready /\ a.played = f.played
        /\ a.started = f.started /\ a.fault = f.fault /\ a.repaired = f.repaired /\ a.unavailable = f.unavailable
        /\ a.interrupted = IF f.interrupted = Never THEN 0 ELSE f.interrupted
        /\ a.status = IF a.interrupted >= Presentation THEN "reconnecting" ELSE "ready"
    BY <1>1, InterruptedEntry
  <2> HIDE DEF a
  <2> QED
    BY <1>1, <1>3, <2>1, <2>2
<1>4. CASE e.played /\ e.status = "failed"
  <2>1. PICK i \in -1..Presentation : i = IF f.interrupted = Never THEN 0 ELSE f.interrupted
    BY <1>1, LimitsAssumption DEF EntryType, Never
  <2>2. RenewedEntry(e) = [f EXCEPT !.interrupted = i]
    BY <1>1, <1>2, <1>4, <2>1 DEF EntryType
  <2> QED
    BY <1>1, <1>4, <2>1, <2>2, LimitsAssumption DEF EntryType
<1>5. CASE ~e.played
  BY <1>1, <1>2, <1>5 DEF EntryType
<1> QED
  BY <1>3, <1>4, <1>5 DEF EntryType

LEMMA NotedEntry ==
    ASSUME NEW e \in EntryType
    PROVE  LET a == NotePlayback(e)
               noted == e.status # "failed" /\ picture.track \in {"playing", "silent"} IN
           /\ a \in EntryType
           /\ ~noted => a = e
           /\ noted =>
                 /\ a.kept = e.kept /\ a.stale = e.stale /\ a.started = e.started /\ a.repaired = e.repaired
                 /\ a.ready /\ a.played /\ a.interrupted = Never /\ a.fault = Never /\ a.unavailable = Never
                 /\ a.status = "ready"
<1>1. PICK on \in BOOLEAN : on = TRUE
  OBVIOUS
<1>2. NotePlayback(e) = IF e.status = "failed" \/ picture.track \notin {"playing", "silent"} THEN e
                        ELSE [e EXCEPT !.ready = on, !.played = on, !.interrupted = -1, !.fault = -1, !.unavailable = -1,
                                       !.status = "ready"]
  BY <1>1 DEF NotePlayback, Never
<1>3. CASE e.status # "failed" /\ picture.track \in {"playing", "silent"}
  <2> DEFINE a == NotePlayback(e)
  <2>0. a = [e EXCEPT !.ready = on, !.played = on, !.interrupted = -1, !.fault = -1, !.unavailable = -1,
                      !.status = "ready"]
    BY <1>2, <1>3
  <2> HIDE DEF a
  <2>b. -1 \in -1..Presentation /\ -1 \in -1..GiveUp /\ -1 \in -1..Unavailable
    BY LimitsAssumption
  <2>1. /\ a \in EntryType
        /\ a.kept = e.kept /\ a.stale = e.stale /\ a.started = e.started /\ a.repaired = e.repaired
        /\ a.ready = on /\ a.played = on /\ a.interrupted = -1 /\ a.fault = -1 /\ a.unavailable = -1
        /\ a.status = "ready"
    BY <2>0, <2>b DEF EntryType
  <2> QED
    BY <1>1, <1>3, <2>1 DEF a, Never
<1> QED
  BY <1>2, <1>3

LEMMA LookedEntry ==
    ASSUME NEW e \in EntryType
    PROVE  LET a == Looked(e)
               missing == e.played /\ (~e.ready \/ Lost(e)) IN
           /\ a \in EntryType
           /\ a.kept = e.kept /\ a.stale = e.stale /\ a.ready = e.ready /\ a.played = e.played
           /\ a.started = e.started /\ a.fault = e.fault /\ a.repaired = e.repaired
           /\ a.unavailable = IF ~Lost(e) THEN Never ELSE IF e.unavailable = Never THEN 0 ELSE e.unavailable
           /\ a.interrupted = IF missing /\ e.interrupted = Never THEN 0 ELSE e.interrupted
           /\ a.status = IF ~missing THEN e.status ELSE IF a.interrupted >= Presentation THEN "reconnecting" ELSE "ready"
<1> DEFINE f == [e EXCEPT !.unavailable = IF ~Lost(e) THEN Never ELSE IF @ = Never THEN 0 ELSE @]
<1>0. PICK u \in -1..Unavailable : u = IF ~Lost(e) THEN Never ELSE IF e.unavailable = Never THEN 0 ELSE e.unavailable
  BY LimitsAssumption DEF EntryType, Never
<1>a. f = [e EXCEPT !.unavailable = u]
  BY <1>0 DEF EntryType
<1>1. /\ f \in EntryType
      /\ f.kept = e.kept /\ f.stale = e.stale /\ f.ready = e.ready /\ f.played = e.played
      /\ f.started = e.started /\ f.fault = e.fault /\ f.repaired = e.repaired
      /\ f.interrupted = e.interrupted /\ f.status = e.status
      /\ f.unavailable = IF ~Lost(e) THEN Never ELSE IF e.unavailable = Never THEN 0 ELSE e.unavailable
  <2> HIDE DEF f
  <2> QED
    BY <1>0, <1>a DEF EntryType
<1>2. Looked(e) = IF f.played /\ (~f.ready \/ Lost(e)) THEN Interrupted(f) ELSE f
  BY DEF Looked
<1> HIDE DEF f
<1>3. CASE e.played /\ (~e.ready \/ Lost(e))
  <2>1. Lost(f) = Lost(e)
    BY <1>1 DEF Lost
  <2> QED
    <3> DEFINE a == Interrupted(f)
    <3>1. Looked(e) = a
      BY <1>1, <1>2, <1>3, <2>1
    <3>2. /\ a \in EntryType
          /\ a.kept = f.kept /\ a.stale = f.stale /\ a.ready = f.ready /\ a.played = f.played
          /\ a.started = f.started /\ a.fault = f.fault /\ a.repaired = f.repaired /\ a.unavailable = f.unavailable
          /\ a.interrupted = IF f.interrupted = Never THEN 0 ELSE f.interrupted
          /\ a.status = IF a.interrupted >= Presentation THEN "reconnecting" ELSE "ready"
      BY <1>1, InterruptedEntry
    <3> HIDE DEF a
    <3> QED
      BY <1>1, <1>3, <3>1, <3>2
<1>4. CASE ~(e.played /\ (~e.ready \/ Lost(e)))
  BY <1>1, <1>2, <1>4
<1> QED
  BY <1>3, <1>4

LEMMA FaultedEntry ==
    ASSUME NEW e \in EntryType
    PROVE  LET a == Faulted(e) IN
           /\ a \in EntryType
           /\ a.kept = e.kept /\ a.stale = e.stale /\ a.ready = e.ready /\ a.played = e.played /\ a.status = e.status
           /\ a.started = e.started /\ a.unavailable = e.unavailable /\ a.repaired = e.repaired
           /\ a.interrupted = e.interrupted
           /\ a.fault = IF e.fault = Never THEN 0 ELSE e.fault
BY LimitsAssumption DEF Faulted, EntryType, Never

\* Whatever a sample decides, the limits hold of what it leaves.
SampledWell(e, s) ==
    /\ entry' \in EntryType /\ spell' \in SpellType
    /\ sampling' \in [awaits : {"nothing", "repair"}, current : BOOLEAN, waited : {0}]
    /\ entry'.kept = e.kept /\ entry'.stale = e.stale /\ entry'.ready = e.ready
    /\ Sound(entry') /\ Repaired(entry', spell')
    /\ spell'.missed = s.missed /\ spell'.there = s.there
    /\ sampling'.awaits = "repair" => s.there = 0
    /\ entry'.status # "failed" => InTime(entry', spell', sampling'.awaits, sampling'.waited)

LEMMA SampleKeepsTime ==
    ASSUME NEW e \in EntryType, NEW s \in SpellType, Due(e, s), Sound(e), Repaired(e, s),
           e.kept, e.status # "failed", ~e.ready \/ Lost(e) => s.there = 0, Sampled(e, s)
    PROVE  SampledWell(e, s)
<1> DEFINE k == Looked(e)
<1> DEFINE missing == e.played /\ (~e.ready \/ Lost(e))
<1>1. /\ k \in EntryType
      /\ k.kept = e.kept /\ k.stale = e.stale /\ k.ready = e.ready /\ k.played = e.played
      /\ k.started = e.started /\ k.fault = e.fault /\ k.repaired = e.repaired
      /\ k.unavailable = IF ~Lost(e) THEN Never ELSE IF e.unavailable = Never THEN 0 ELSE e.unavailable
      /\ k.interrupted = IF missing /\ e.interrupted = Never THEN 0 ELSE e.interrupted
      /\ k.status = IF ~missing THEN e.status ELSE IF k.interrupted >= Presentation THEN "reconnecting" ELSE "ready"
  BY LookedEntry
<1>2. Lost(k) = Lost(e)
  BY <1>1 DEF Lost
<1> DEFINE q == Faulted(k)
<1>3. /\ q \in EntryType
      /\ q.kept = k.kept /\ q.stale = k.stale /\ q.ready = k.ready /\ q.played = k.played /\ q.status = k.status
      /\ q.started = k.started /\ q.unavailable = k.unavailable /\ q.repaired = k.repaired
      /\ q.interrupted = k.interrupted
      /\ q.fault = IF k.fault = Never THEN 0 ELSE k.fault
  BY <1>1, FaultedEntry
<1>4. \/ ~Faulty(k) /\ entry' = Recovers(k) /\ sampling' = NoSample /\ spell' = s
      \/ /\ Faulty(k) /\ q.fault >= GiveUp
         /\ entry' = [q EXCEPT !.status = "failed"] /\ sampling' = NoSample /\ spell' = s
      \/ /\ Faulty(k) /\ q.fault < GiveUp /\ q.repaired \in 0..(Cooldown - 1)
         /\ entry' = q /\ sampling' = NoSample /\ spell' = s
      \/ /\ Faulty(k) /\ q.fault < GiveUp /\ q.repaired \notin 0..(Cooldown - 1)
         /\ entry' = [q EXCEPT !.repaired = 0]
         /\ spell' = [s EXCEPT !.unrepaired = 0, !.early = s.unrepaired < Cooldown]
         /\ sampling' = [awaits |-> "repair", current |-> TRUE, waited |-> 0]
  BY DEF Sampled
<1> HIDE DEF k, q
<1>5. /\ e.started \in 0..Startup /\ e.interrupted \in -1..Presentation /\ e.unavailable \in -1..Unavailable
      /\ e.fault \in -1..GiveUp /\ e.repaired \in -1..Cooldown
      /\ s.missed \in Nat /\ s.there \in Nat /\ s.unrepaired \in Nat
  BY DEF EntryType, SpellType
<1>a. /\ q.fault \in -1..GiveUp /\ ~(q.fault >= GiveUp /\ q.fault < GiveUp)
      /\ Faulty(k) => q.fault >= GiveUp \/ q.fault < GiveUp
  BY <1>3, LimitsAssumption DEF EntryType
<1>6. Sound(k) /\ Repaired(k, s) /\ Sound(q) /\ Repaired(q, s)
  BY <1>1, <1>3, <1>5, LimitsAssumption DEF Sound, Repaired, Never
<1>7. NoSample \in [awaits : {"nothing", "repair"}, current : BOOLEAN, waited : {0}] /\ NoSample.awaits = "nothing"
  BY DEF NoSample
<1>8. (~e.ready \/ Lost(e)) => TellsInTime(k, s, AnswerWithin) /\ TellsInTime(k, s, 0)
  BY <1>1, <1>5, LimitsAssumption DEF Due, TellsInTime, Never, L
<1>9. CASE ~Faulty(k) /\ e.ready /\ ~Lost(e)
  <2>1. PICK never \in -1..Presentation, none \in -1..GiveUp : never = -1 /\ none = -1
    BY LimitsAssumption
  <2>2. entry' = [k EXCEPT !.fault = none, !.interrupted = never, !.status = "ready"]
    BY <1>1, <1>2, <1>4, <1>9, <2>1 DEF Recovers, Never
  <2>3. /\ entry' \in EntryType /\ entry'.fault = -1 /\ entry'.interrupted = -1 /\ entry'.status = "ready"
        /\ entry'.kept = k.kept /\ entry'.stale = k.stale /\ entry'.ready = k.ready /\ entry'.played = k.played
        /\ entry'.repaired = k.repaired
    BY <1>1, <2>1, <2>2 DEF EntryType
  <2>4. spell' = s /\ sampling' = NoSample /\ s.missed = 0
    BY <1>4, <1>9 DEF Due
  <2>5. Sound(entry') /\ Repaired(entry', spell')
    BY <1>1, <1>5, <1>6, <1>9, <2>3, <2>4, LimitsAssumption DEF Sound, Repaired, Lost
  <2>6. InTime(entry', spell', "nothing", 0)
    BY <1>1, <1>9, <2>3, <2>4, LimitsAssumption
    DEF InTime, FaultLasts, WhileNothing, TellsInTime, FoundUnsampled, Never
  <2> QED
    BY <1>1, <1>7, <1>9, <2>3, <2>4, <2>5, <2>6 DEF SampledWell, NoSample
<1>10. CASE ~Faulty(k) /\ (~e.ready \/ Lost(e))
  <2>1. entry' = k /\ spell' = s /\ sampling' = NoSample
    BY <1>1, <1>2, <1>4, <1>10 DEF Recovers
  <2>2. FaultLasts(k, s)
    BY <1>1, <1>5, <1>10, LimitsAssumption DEF Due, FaultLasts, Faulty, Never
  <2>3. WhileNothing(k, s)
    BY <1>1, <1>5, <1>8, <1>10, LimitsAssumption
    DEF Due, WhileNothing, FoundUnsampled, FaultLasts, Faulty, Never, L, Long
  <2> QED
    BY <1>1, <1>6, <1>7, <2>1, <2>2, <2>3 DEF SampledWell, InTime
<1>11. CASE Faulty(k) /\ q.fault >= GiveUp
  <2>0. entry' = [q EXCEPT !.status = "failed"] /\ sampling' = NoSample /\ spell' = s
    BY <1>4, <1>a, <1>11
  <2>1. /\ entry' \in EntryType /\ entry'.status = "failed"
        /\ entry'.kept = q.kept /\ entry'.stale = q.stale /\ entry'.ready = q.ready /\ entry'.played = q.played
        /\ entry'.repaired = q.repaired
    BY <1>3, <2>0 DEF EntryType
  <2>2. spell' = s /\ sampling' = NoSample
    BY <2>0
  <2> QED
    BY <1>1, <1>3, <1>6, <1>7, <2>1, <2>2 DEF SampledWell, Sound, Repaired
<1>12. CASE Faulty(k) /\ q.fault < GiveUp
  <2>1. ~e.ready \/ Lost(e)
    BY <1>1, <1>12, LimitsAssumption DEF Faulty, Never
  <2>2. FaultLasts(q, s)
    BY <1>1, <1>3, <1>5, <1>12, <2>1, LimitsAssumption DEF Due, FaultLasts, Faulty, Never, L
  <2>3. TellsInTime(q, s, AnswerWithin) /\ TellsInTime(q, s, 0)
    BY <1>1, <1>3, <1>8, <2>1 DEF TellsInTime
  <2>4. CASE q.repaired \in 0..(Cooldown - 1)
    <3>1. entry' = q /\ spell' = s /\ sampling' = NoSample
      BY <1>4, <1>a, <1>12, <2>4
    <3>2. WhileNothing(q, s)
      BY <1>1, <1>3, <1>5, <1>6, <1>12, <2>1, <2>3, <2>4, LimitsAssumption DEF WhileNothing, Repaired, Never
    <3> QED
      BY <1>1, <1>3, <1>6, <1>7, <2>2, <3>1, <3>2 DEF SampledWell, InTime
  <2>5. CASE q.repaired \notin 0..(Cooldown - 1)
    <3>0. s.unrepaired >= Cooldown
      BY <1>3, <1>5, <1>1, <1>6, <2>5, LimitsAssumption DEF Repaired, Never
    <3>a. PICK z \in -1..Cooldown : z = 0
      BY LimitsAssumption
    <3>b. PICK n \in Nat : n = 0
      OBVIOUS
    <3>c. PICK b \in BOOLEAN : b = FALSE
      OBVIOUS
    <3>1. z = 0 /\ n = 0 /\ b = FALSE
      BY <3>a, <3>b, <3>c
    <3>3. /\ sampling' = [awaits |-> "repair", current |-> TRUE, waited |-> 0]
          /\ entry' = [q EXCEPT !.repaired = 0]
          /\ spell' = [s EXCEPT !.unrepaired = 0, !.early = s.unrepaired < Cooldown]
      BY <1>4, <1>a, <1>12, <2>5
    <3>9. (s.unrepaired < Cooldown) = b
      BY <1>5, <3>0, <3>1, LimitsAssumption
    <3>2. entry' = [q EXCEPT !.repaired = z] /\ spell' = [s EXCEPT !.unrepaired = n, !.early = b]
      BY <3>1, <3>3, <3>9
    <3>4. /\ entry' \in EntryType /\ entry'.repaired = 0
          /\ entry'.kept = q.kept /\ entry'.stale = q.stale /\ entry'.ready = q.ready /\ entry'.played = q.played
          /\ entry'.status = q.status /\ entry'.started = q.started /\ entry'.unavailable = q.unavailable
          /\ entry'.interrupted = q.interrupted /\ entry'.fault = q.fault
      BY <1>3, <3>1, <3>2 DEF EntryType
    <3>5. /\ spell' \in SpellType /\ spell'.unrepaired = 0 /\ ~spell'.early
          /\ spell'.missed = s.missed /\ spell'.there = s.there
      BY <3>1, <3>2 DEF SpellType
    <3>6. Sound(entry') /\ Repaired(entry', spell')
      BY <1>6, <3>4, <3>5, LimitsAssumption DEF Sound, Repaired, Never
    <3>7. FaultLasts(entry', spell') /\ WhileRepair(entry', spell', 0)
      BY <1>1, <1>3, <1>5, <1>12, <2>2, <2>3, <3>4, <3>5, LimitsAssumption DEF FaultLasts, WhileRepair, TellsInTime, Never
    <3>8. sampling' \in [awaits : {"nothing", "repair"}, current : BOOLEAN, waited : {0}]
      BY <3>3
    <3> QED
      BY <1>1, <1>3, <2>1, <3>3, <3>4, <3>5, <3>6, <3>7, <3>8 DEF SampledWell, InTime
  <2> QED
    BY <2>4, <2>5
<1> QED
  BY <1>9, <1>10, <1>11, <1>12, <1>a

LEMMA OlderAge ==
    ASSUME NEW b \in Nat, NEW x \in -1..b
    PROVE  /\ Older(x, b) \in -1..b /\ (Older(x, b) = -1 <=> x = -1)
           /\ x = b => Older(x, b) = b
           /\ x \in 0..(b - 1) => Older(x, b) = x + 1
BY DEF Older, Never

\* What a tick makes of an entry that is kept.
LEMMA TickedEntry ==
    ASSUME PicturesType, viewing.watched, entry.kept
    PROVE  LET e == Sync(TimerRings(Aged(entry))) IN
           /\ e \in EntryType /\ e.kept /\ ~e.stale /\ (e.ready <=> entry.ready /\ ~entry.stale) /\ e.played = entry.played
           /\ e.started = IF entry.stale /\ entry.ready THEN 0
                          ELSE IF entry.started < Startup THEN entry.started + 1 ELSE entry.started
           /\ e.fault = Older(entry.fault, GiveUp) /\ e.repaired = Older(entry.repaired, Cooldown)
           /\ e.unavailable = IF entry.stale THEN -1 ELSE Older(entry.unavailable, Unavailable)
           /\ e.interrupted = IF entry.stale /\ entry.played /\ entry.interrupted = -1 THEN 0
                              ELSE Older(entry.interrupted, Presentation)
           /\ (e.status = "failed" <=> entry.status = "failed")
           /\ e.status = "ready" => /\ entry.status = "ready" \/ e.played
                                    /\ e.interrupted < Presentation
           /\ ~entry.stale /\ entry.status # "ready" => e.status # "ready"
<1> DEFINE a == Aged(entry)
<1> DEFINE t == TimerRings(a)
<1> DEFINE e == Sync(t)
<1>1. /\ a \in EntryType
      /\ a.kept = entry.kept /\ a.stale = entry.stale /\ a.ready = entry.ready /\ a.played = entry.played
      /\ a.status = entry.status
      /\ a.started = IF entry.started < Startup THEN entry.started + 1 ELSE entry.started
      /\ a.interrupted = Older(entry.interrupted, Presentation)
      /\ a.unavailable = Older(entry.unavailable, Unavailable)
      /\ a.fault = Older(entry.fault, GiveUp)
      /\ a.repaired = Older(entry.repaired, Cooldown)
  BY AgedEntry DEF PicturesType
<1>2. /\ t \in EntryType
      /\ t.kept = a.kept /\ t.stale = a.stale /\ t.ready = a.ready /\ t.played = a.played
      /\ t.status = IF a.status = "ready" /\ a.interrupted >= Presentation THEN "reconnecting" ELSE a.status
      /\ t.started = a.started /\ t.interrupted = a.interrupted /\ t.unavailable = a.unavailable
      /\ t.fault = a.fault /\ t.repaired = a.repaired
  BY <1>1, RungEntry
<1>3. e = IF t.stale THEN RenewedEntry(t) ELSE t
  BY <1>1, <1>2 DEF Sync
<1>4. LET r == RenewedEntry(t) IN
      /\ r \in EntryType
      /\ r.kept /\ ~r.stale /\ ~r.ready /\ r.played = t.played /\ r.unavailable = Never
      /\ r.started = IF t.ready THEN 0 ELSE t.started
      /\ r.fault = t.fault /\ r.repaired = t.repaired
      /\ r.interrupted = IF t.played /\ t.interrupted = Never THEN 0 ELSE t.interrupted
      /\ r.status = IF ~t.played \/ t.status = "failed" THEN t.status
                    ELSE IF r.interrupted >= Presentation THEN "reconnecting" ELSE "ready"
  BY <1>2, RenewedOne
<1>5. /\ entry \in EntryType /\ entry.interrupted \in -1..Presentation /\ a.interrupted \in -1..Presentation
      /\ e \in EntryType /\ e.interrupted \in -1..Presentation
  BY <1>1, <1>2, <1>3, <1>4 DEF PicturesType, EntryType
<1>6. Older(entry.interrupted, Presentation) = -1 <=> entry.interrupted = -1
  BY <1>5, OlderAge, LimitsAssumption
<1> HIDE DEF a, t, e
<1> DEFINE r == RenewedEntry(t)
<1>7. (t.stale => e = r) /\ (~t.stale => e = t) /\ (t.stale <=> entry.stale) /\ t.kept /\ (t.ready <=> entry.ready)
  BY <1>1, <1>2, <1>3
<1> HIDE DEF r
<1>8. e.kept /\ ~e.stale /\ (e.ready <=> entry.ready /\ ~entry.stale) /\ e.played = entry.played
  BY <1>1, <1>2, <1>4, <1>7 DEF r
<1>9. /\ e.started = IF entry.stale /\ entry.ready THEN 0
                     ELSE IF entry.started < Startup THEN entry.started + 1 ELSE entry.started
      /\ e.fault = Older(entry.fault, GiveUp) /\ e.repaired = Older(entry.repaired, Cooldown)
      /\ e.unavailable = IF entry.stale THEN -1 ELSE Older(entry.unavailable, Unavailable)
  BY <1>1, <1>2, <1>4, <1>7 DEF r, Never
<1>10. e.interrupted = IF entry.stale /\ entry.played /\ entry.interrupted = -1 THEN 0
                       ELSE Older(entry.interrupted, Presentation)
  BY <1>1, <1>2, <1>4, <1>6, <1>7 DEF r, Never
<1>11. /\ (e.status = "failed" <=> entry.status = "failed")
       /\ ~entry.stale /\ entry.status # "ready" => e.status # "ready"
  BY <1>1, <1>2, <1>4, <1>7 DEF r
<1>12. e.status = "ready" => /\ entry.status = "ready" \/ e.played
                             /\ e.interrupted < Presentation
  <2>1. CASE t.stale
    <3>1. e = r /\ r.interrupted = e.interrupted
      BY <1>7, <2>1
    <3>2. CASE ~t.played \/ t.status = "failed"
      BY <1>4, <3>2, <1>1, <1>2, <3>1, <1>5, LimitsAssumption DEF r
    <3>3. CASE t.played /\ t.status # "failed"
      <4>1. e.status = "ready" => e.played /\ ~(e.interrupted >= Presentation)
        BY <1>4, <3>1, <3>3 DEF r
      <4> QED
        BY <1>5, <4>1, LimitsAssumption
    <3> QED
      BY <3>2, <3>3
  <2>2. CASE ~t.stale
    <3>1. e.status = "ready" => entry.status = "ready" /\ ~(a.interrupted >= Presentation) /\ e.interrupted = a.interrupted
      BY <1>1, <1>2, <1>7, <2>2
    <3> QED
      BY <1>5, <3>1, LimitsAssumption
  <2> QED
    BY <2>1, <2>2
<1> QED
  BY <1>5, <1>8, <1>9, <1>10, <1>11, <1>12 DEF a, t, e

LEMMA TickedSpell ==
    ASSUME PicturesType
    PROVE  /\ SpellAfter \in SpellType
           /\ SpellAfter.missed <= spell.missed + 1 /\ SpellAfter.there <= spell.there + 1
           /\ SpellAfter.early = spell.early
           /\ \/ SpellAfter.unrepaired = spell.unrepaired + 1
              \/ SpellAfter.unrepaired = spell.unrepaired /\ spell.unrepaired > LongestUnrepaired
           /\ ~(viewing.linked /\ viewing.watched) => SpellAfter.missed = 0 /\ SpellAfter.there = 0
           /\ ~Missed => SpellAfter.missed = 0
           /\ picture.track # "playing" => SpellAfter.there = 0
<1> DEFINE missed == IF viewing.linked /\ viewing.watched /\ Missed THEN Counted(spell.missed, LongestFault) ELSE 0
<1> DEFINE there == IF viewing.linked /\ viewing.watched /\ picture.track = "playing" THEN Counted(spell.there, Slack) ELSE 0
<1> DEFINE unrepaired == Counted(spell.unrepaired, LongestUnrepaired + 1)
<1>1. spell.missed \in Nat /\ spell.there \in Nat /\ spell.unrepaired \in Nat /\ spell.early \in BOOLEAN
  BY DEF PicturesType, SpellType
<1>2. LongestFault \in Nat /\ Slack \in Nat /\ LongestUnrepaired \in Nat
  BY LimitsAssumption DEF LongestFault, Slack, LongestUnrepaired
<1>3. missed \in Nat /\ missed <= spell.missed + 1
  BY <1>1, <1>2 DEF Counted
<1>4. there \in Nat /\ there <= spell.there + 1
  BY <1>1, <1>2 DEF Counted
<1>5. /\ unrepaired \in Nat
      /\ \/ unrepaired = spell.unrepaired + 1
         \/ unrepaired = spell.unrepaired /\ spell.unrepaired > LongestUnrepaired
  BY <1>1, <1>2 DEF Counted
<1>6. SpellAfter = [missed |-> missed, there |-> there, unrepaired |-> unrepaired, early |-> spell.early]
  BY DEF SpellAfter
<1>7. /\ ~(viewing.linked /\ viewing.watched) => missed = 0 /\ there = 0
      /\ ~Missed => missed = 0
      /\ picture.track # "playing" => there = 0
  OBVIOUS
<1> HIDE DEF missed, there, unrepaired
<1> QED
  BY <1>1, <1>3, <1>4, <1>5, <1>6, <1>7 DEF SpellType

\* Nothing is due of a picture that was not missed.
LEMMA NothingMissed ==
    ASSUME NEW e \in EntryType, NEW s \in SpellType, s.missed = 0, s.there = 0,
           e.fault # Never /\ e.ready => e.unavailable = Unavailable
    PROVE  InTime(e, s, "nothing", 0)
BY LimitsAssumption DEF EntryType, FaultLasts, L, WhileNothing, TellsInTime, FoundUnsampled, Long, InTime

LEMMA TickKeepsTime ==
    ASSUME PicturesInv, entry.kept, sampling.awaits # "statistics", sampling.waited < AnswerWithin
    PROVE  LET e == Sync(TimerRings(Aged(entry)))
               s == SpellAfter IN
           /\ e \in EntryType /\ e.kept /\ ~e.stale /\ s \in SpellType /\ Sound(e) /\ Repaired(e, s)
           /\ (e.status = "failed" <=> entry.status = "failed")
           /\ sampling.awaits = "repair" => s.there <= sampling.waited + 1
           /\ e.status # "failed" =>
                 /\ sampling.awaits = "nothing" /\ viewing.linked => Due(e, s)
                 /\ sampling.awaits = "nothing" /\ ~viewing.linked => InTime(e, s, "nothing", 0)
                 /\ sampling.awaits = "repair" => InTime(e, s, "repair", sampling.waited + 1)
<1> DEFINE e == Sync(TimerRings(Aged(entry)))
<1> DEFINE s == SpellAfter
<1>0. PicturesType /\ viewing.watched /\ Sound(entry) /\ Repaired(entry, spell)
  BY DEF PicturesInv
<1>1. /\ e \in EntryType /\ e.kept /\ ~e.stale /\ (e.ready <=> entry.ready /\ ~entry.stale) /\ e.played = entry.played
      /\ e.started = IF entry.stale /\ entry.ready THEN 0
                     ELSE IF entry.started < Startup THEN entry.started + 1 ELSE entry.started
      /\ e.fault = Older(entry.fault, GiveUp) /\ e.repaired = Older(entry.repaired, Cooldown)
      /\ e.unavailable = IF entry.stale THEN -1 ELSE Older(entry.unavailable, Unavailable)
      /\ e.interrupted = IF entry.stale /\ entry.played /\ entry.interrupted = -1 THEN 0
                         ELSE Older(entry.interrupted, Presentation)
      /\ (e.status = "failed" <=> entry.status = "failed")
      /\ e.status = "ready" => /\ entry.status = "ready" \/ e.played
                               /\ e.interrupted < Presentation
      /\ ~entry.stale /\ entry.status # "ready" => e.status # "ready"
  BY <1>0, TickedEntry
<1>2. /\ s \in SpellType
      /\ s.missed <= spell.missed + 1 /\ s.there <= spell.there + 1
      /\ s.early = spell.early
      /\ \/ s.unrepaired = spell.unrepaired + 1
         \/ s.unrepaired = spell.unrepaired /\ spell.unrepaired > LongestUnrepaired
      /\ ~(viewing.linked /\ viewing.watched) => s.missed = 0 /\ s.there = 0
      /\ ~Missed => s.missed = 0
      /\ picture.track # "playing" => s.there = 0
  BY <1>0, TickedSpell
<1> HIDE DEF e, s
<1>3. /\ entry.started \in 0..Startup /\ entry.interrupted \in -1..Presentation /\ entry.unavailable \in -1..Unavailable
      /\ entry.fault \in -1..GiveUp /\ entry.repaired \in -1..Cooldown
      /\ e.started \in 0..Startup
      /\ spell.missed \in Nat /\ spell.there \in Nat /\ spell.unrepaired \in Nat
      /\ s.missed \in Nat /\ s.there \in Nat /\ s.unrepaired \in Nat
      /\ sampling.waited \in 0..AnswerWithin
      /\ LongestUnrepaired \in Nat /\ LongestUnrepaired > Cooldown
  BY <1>0, <1>1, <1>2, LimitsAssumption DEF PicturesType, EntryType, SpellType, LongestUnrepaired, Slack
<1>4. /\ e.fault \in -1..GiveUp /\ (e.fault = -1 <=> entry.fault = -1) /\ (entry.fault = GiveUp => e.fault = GiveUp)
      /\ entry.fault \in 0..(GiveUp - 1) => e.fault = entry.fault + 1
  BY <1>1, <1>3, OlderAge, LimitsAssumption
<1>5. /\ e.repaired \in -1..Cooldown /\ (e.repaired = -1 <=> entry.repaired = -1)
      /\ (entry.repaired = Cooldown => e.repaired = Cooldown)
      /\ entry.repaired \in 0..(Cooldown - 1) => e.repaired = entry.repaired + 1
  BY <1>1, <1>3, OlderAge, LimitsAssumption
<1>6. /\ e.unavailable \in -1..Unavailable
      /\ ~entry.stale => /\ (e.unavailable = -1 <=> entry.unavailable = -1)
                         /\ (entry.unavailable = Unavailable => e.unavailable = Unavailable)
                         /\ entry.unavailable \in 0..(Unavailable - 1) => e.unavailable = entry.unavailable + 1
  BY <1>1, <1>3, OlderAge, LimitsAssumption
<1>7. /\ e.interrupted \in -1..Presentation
      /\ e.interrupted = -1 => entry.interrupted = -1
      /\ entry.interrupted \in 0..(Presentation - 1) => e.interrupted = entry.interrupted + 1
      /\ entry.interrupted = Presentation => e.interrupted = Presentation
      /\ entry.interrupted = -1 => e.interrupted = -1 \/ e.interrupted = 0
  BY <1>1, <1>3, OlderAge, LimitsAssumption
<1>8. Sound(e)
  BY <1>0, <1>1 DEF Sound
<1>9. Repaired(e, s)
  BY <1>0, <1>2, <1>3, <1>5, LimitsAssumption DEF Repaired, Never
<1>10. sampling.awaits = "repair" => s.there <= sampling.waited + 1
  BY <1>2, <1>3 DEF PicturesInv
<1>11. ASSUME e.status # "failed" PROVE InTime(entry, spell, sampling.awaits, sampling.waited)
  BY <1>1, <1>11 DEF PicturesInv
<1>12. ASSUME e.status # "failed", NEW most \in Nat, TellsInTime(entry, spell, most), most <= AnswerWithin
       PROVE  TellsInTime(e, s, most + 1)
  BY <1>1, <1>2, <1>3, <1>7, <1>12, LimitsAssumption DEF TellsInTime, Never, L
<1>13. ASSUME e.status # "failed", sampling.awaits = "nothing", viewing.linked
       PROVE  Due(e, s)
  <2>1. WhileNothing(entry, spell) /\ FaultLasts(entry, spell)
    BY <1>11, <1>13 DEF InTime
  <2>2. TellsInTime(e, s, L)
    BY <1>12, <1>13, <2>1, LimitsAssumption DEF WhileNothing, L
  <2>3. ~e.ready => s.there <= L
    BY <1>1, <1>2, <1>3, <2>1, LimitsAssumption DEF PicturesInv, WhileNothing, L
  <2>4. e.fault = Never =>
          \/ s.missed <= L
          \/ e.ready /\ e.unavailable \in 0..Unavailable /\ s.missed <= e.unavailable + L
          \/ ~e.ready /\ s.missed <= e.started + Unavailable + L
    BY <1>1, <1>2, <1>3, <1>4, <1>6, <2>1, LimitsAssumption DEF WhileNothing, FoundUnsampled, Never, L
  <2>5. FaultLasts(e, s)
    BY <1>1, <1>2, <1>3, <1>4, <1>6, <2>1, LimitsAssumption DEF FaultLasts, Never, L
  <2>6. e.fault = GiveUp =>
          /\ e.ready => s.missed <= Long + L
          /\ ~e.ready => s.missed <= Long + L + e.started
    BY <1>1, <1>2, <1>3, <1>4, <2>1, LimitsAssumption DEF WhileNothing, FaultLasts, Never, L, Long
  <2>7. e.fault # Never /\ ~e.ready => s.unrepaired <= Cooldown + L + e.started \/ s.missed <= L + e.started
    BY <1>1, <1>2, <1>3, <1>4, <2>1, LimitsAssumption DEF WhileNothing, LongestUnrepaired, Never, L, Slack
  <2>8. e.ready /\ ~Lost(e) => s.missed = 0
    BY <1>0, <1>1, <1>2 DEF Sound, Lost, Missed, PicturesType, Tracks
  <2> QED
    BY <2>2, <2>3, <2>4, <2>5, <2>6, <2>7, <2>8 DEF Due
<1>14. ASSUME e.status # "failed", sampling.awaits = "nothing", ~viewing.linked
       PROVE  InTime(e, s, "nothing", 0)
  BY <1>1, <1>4, <1>6, <1>11, <1>14, <1>2, NothingMissed DEF InTime, FaultLasts, Never
<1>15. ASSUME e.status # "failed", sampling.awaits = "repair"
       PROVE  InTime(e, s, "repair", sampling.waited + 1)
  BY <1>11, <1>15, <1>1, <1>2, <1>3, <1>4, <1>6, LimitsAssumption, <1>12 DEF InTime, FaultLasts, Never, L,
     WhileRepair, Long
<1> QED
  BY <1>1, <1>2, <1>8, <1>9, <1>10, <1>13, <1>14, <1>15 DEF e, s

LEMMA TimeCarries ==
    ASSUME NEW e \in EntryType, NEW f \in EntryType, NEW s \in SpellType, NEW z \in SpellType,
           NEW awaits \in {"nothing", "statistics", "repair"}, NEW waited \in 0..AnswerWithin,
           f.ready = e.ready, f.played = e.played, f.status = e.status, f.started = e.started,
           f.unavailable = e.unavailable, f.fault = e.fault, f.interrupted = e.interrupted,
           z.missed \in {0, s.missed}, z.there \in {0, s.there}, z.unrepaired = s.unrepaired,
           InTime(e, s, awaits, waited)
    PROVE  InTime(f, z, awaits, waited)
BY LimitsAssumption DEF EntryType, SpellType, L, TellsInTime, InTime, FaultLasts, WhileNothing, FoundUnsampled,
   Long, Never, WhileStatistics, WhileRepair

\* With no fault and nothing missed the limits hold, whatever is awaited.
LEMMA FreshlyInTime ==
    ASSUME NEW e \in EntryType, NEW s \in SpellType, s.missed = 0, e.fault = Never,
           NEW awaits \in {"nothing", "statistics", "repair"}, NEW waited \in 0..AnswerWithin,
           s.there = 0 \/ (e.ready /\ e.status = "ready")
    PROVE  InTime(e, s, awaits, waited)
BY LimitsAssumption DEF EntryType, SpellType, L, FaultLasts, Never, WhileNothing, WhileStatistics, WhileRepair,
   TellsInTime, FoundUnsampled, InTime

LEMMA PicturesInvInit == ScreenRecoveryInit => PicturesInv
<1> SUFFICES ASSUME ScreenRecoveryInit PROVE PicturesInv
  OBVIOUS
<1>1. PICK on \in BOOLEAN, off \in BOOLEAN : on = TRUE /\ off = FALSE
  OBVIOUS
<1>2. entry = [kept |-> on, stale |-> off, started |-> 0, ready |-> off, played |-> off, interrupted |-> -1,
               unavailable |-> -1, fault |-> -1, repaired |-> -1, status |-> "connecting"]
  BY <1>1 DEF ScreenRecoveryInit, Unwatched, Never
<1>3. /\ entry \in EntryType /\ entry.kept = on /\ entry.stale = off /\ entry.ready = off /\ entry.played = off
      /\ entry.fault = -1 /\ entry.repaired = -1 /\ entry.status = "connecting"
  BY <1>2, LimitsAssumption DEF EntryType
<1>4. LongestUnrepaired \in Nat /\ LongestUnrepaired + 1 >= Cooldown
  BY LimitsAssumption DEF LongestUnrepaired, Slack
<1>5. spell = [missed |-> 0, there |-> 0, unrepaired |-> LongestUnrepaired + 1, early |-> off]
  BY <1>1 DEF ScreenRecoveryInit, NoSpell
<1>6. spell \in SpellType /\ spell.missed = 0 /\ spell.there = 0 /\ spell.unrepaired >= Cooldown /\ spell.early = off
  BY <1>4, <1>5 DEF SpellType
<1>7. /\ picture \in [track : Tracks, shown : BOOLEAN] /\ picture.track = "none"
      /\ viewing \in [watched : BOOLEAN, linked : BOOLEAN] /\ viewing.watched
      /\ sampling \in [awaits : {"nothing", "statistics", "repair"}, current : BOOLEAN, waited : 0..AnswerWithin]
      /\ sampling.awaits = "nothing" /\ sampling.waited = 0
  BY LimitsAssumption DEF ScreenRecoveryInit, Tracks, NoSample
<1>8. Sound(entry) /\ Repaired(entry, spell)
  BY <1>1, <1>3, <1>6 DEF Sound, Repaired, Never
<1>9. InTime(entry, spell, sampling.awaits, sampling.waited)
  BY <1>3, <1>6, <1>7, LimitsAssumption, FreshlyInTime DEF Never
<1> QED
  BY <1>1, <1>3, <1>6, <1>7, <1>8, <1>9 DEF PicturesInv, PicturesType

LEMMA UnwatchedEntry ==
    /\ Unwatched \in EntryType /\ ~Unwatched.kept /\ ~Unwatched.stale /\ ~Unwatched.ready /\ ~Unwatched.played
    /\ Unwatched.fault = Never /\ Unwatched.repaired = Never /\ Unwatched.status = "connecting"
BY LimitsAssumption DEF Unwatched, Never, EntryType

LEMMA FreshSpell ==
    /\ NoSpell \in SpellType /\ NoSpell.missed = 0 /\ NoSpell.there = 0 /\ NoSpell.unrepaired >= Cooldown
    /\ ~NoSpell.early
BY LimitsAssumption DEF LongestUnrepaired, Slack, NoSpell, SpellType

LEMMA NoSampleType ==
    /\ NoSample \in [awaits : {"nothing", "statistics", "repair"}, current : BOOLEAN, waited : 0..AnswerWithin]
    /\ NoSample.awaits = "nothing" /\ NoSample.waited = 0
BY LimitsAssumption DEF NoSample

\* What SampledWell comes to for the state.
LEMMA SampledInv ==
    ASSUME PicturesInv, NEW e \in EntryType, NEW s \in SpellType, SampledWell(e, s), e.kept, viewing.watched,
           picture' = picture, viewing' = viewing,
           e.stale \/ picture.track # "playing" => s.there = 0
    PROVE  PicturesInv'
<1>1. /\ entry' \in EntryType /\ spell' \in SpellType
      /\ sampling' \in [awaits : {"nothing", "repair"}, current : BOOLEAN, waited : {0}]
      /\ entry'.kept = e.kept /\ entry'.stale = e.stale
      /\ Sound(entry') /\ Repaired(entry', spell')
      /\ spell'.missed = s.missed /\ spell'.there = s.there
      /\ sampling'.awaits = "repair" => s.there = 0
      /\ entry'.status # "failed" => InTime(entry', spell', sampling'.awaits, sampling'.waited)
  BY DEF SampledWell
<1>2. PicturesType'
  BY <1>1, LimitsAssumption DEF PicturesInv, PicturesType, EntryType, SpellType, Tracks
<1>3. Sound(entry)' /\ Repaired(entry, spell)' /\ (entry.status # "failed" => InTime(entry, spell, sampling.awaits, sampling.waited))'
  BY <1>1 DEF Sound, Repaired, InTime, FaultLasts, WhileNothing, WhileStatistics, WhileRepair, TellsInTime, FoundUnsampled
<1>4. sampling'.waited = 0 /\ sampling'.awaits \in {"nothing", "repair"}
  BY <1>1
<1> QED
  BY <1>1, <1>2, <1>3, <1>4, LimitsAssumption DEF PicturesInv

\* An entry that is sampled now, or rests, or asks for statistics first.
LEMMA SamplesInv ==
    ASSUME PicturesInv, NEW e \in EntryType, NEW s \in SpellType, e.kept, ~e.stale, Sound(e), Repaired(e, s),
           viewing.watched, picture' = picture, viewing' = viewing,
           picture.track # "playing" => s.there = 0,
           e.status # "failed" => Due(e, s), Samples(e, s)
    PROVE  PicturesInv'
<1>1. CASE Rests(e) /\ entry' = e /\ sampling' = NoSample /\ spell' = s
  BY <1>1, LimitsAssumption DEF Rests, PicturesInv, PicturesType, NoSample, Sound, Repaired
<1>2. CASE /\ ~Rests(e) /\ AsksForStatistics(e) /\ entry' = e /\ spell' = s
           /\ sampling' = [awaits |-> "statistics", current |-> TRUE, waited |-> 0]
  <2>1. e.status # "failed" /\ ~e.ready /\ Due(e, s)
    BY <1>2 DEF Rests, AsksForStatistics
  <2>2. PicturesType'
    BY <1>2, LimitsAssumption DEF PicturesInv, PicturesType
  <2>3. Sound(entry)' /\ Repaired(entry, spell)'
    BY <1>2 DEF Sound, Repaired
  <2>4. sampling'.awaits = "statistics" /\ sampling'.waited = 0 /\ sampling'.current
    BY <1>2
  <2>5. InTime(e, s, "statistics", 0)
    BY <2>1, LimitsAssumption DEF Due, InTime, WhileStatistics
  <2>6. InTime(entry, spell, sampling.awaits, sampling.waited)'
    BY <1>2, <2>4, <2>5 DEF InTime, FaultLasts, WhileNothing, WhileStatistics, WhileRepair, TellsInTime, FoundUnsampled
  <2> QED
    BY <1>2, <2>1, <2>2, <2>3, <2>4, <2>6 DEF PicturesInv
<1>3. CASE ~Rests(e) /\ ~AsksForStatistics(e) /\ Sampled(e, s)
  BY <1>3, SampleKeepsTime, SampledInv DEF Rests, AsksForStatistics, Lost
<1> QED
  BY <1>1, <1>2, <1>3 DEF Samples

LEMMA TickInv == PicturesInv /\ SampleTick => PicturesInv'
<1> SUFFICES ASSUME PicturesInv, SampleTick PROVE PicturesInv'
  OBVIOUS
<1> DEFINE e == Sync(TimerRings(Aged(entry)))
<1> DEFINE s == SpellAfter
<1> DEFINE w == IF sampling.awaits = "repair" THEN sampling.waited + 1 ELSE 0
<1>0. PicturesType /\ (entry.kept <=> viewing.watched) /\ Sound(entry) /\ Repaired(entry, spell)
  BY DEF PicturesInv
<1>1. /\ sampling.awaits # "statistics" /\ sampling.waited < AnswerWithin
      /\ \/ viewing.linked /\ sampling.awaits = "nothing" /\ Samples(e, s)
         \/ /\ ~viewing.linked \/ sampling.awaits = "repair"
            /\ entry' = e /\ spell' = s /\ sampling' = SampleGoesOn(w)
      /\ picture' = picture /\ viewing' = viewing
  BY DEF SampleTick
<1>2. /\ s \in SpellType
      /\ ~viewing.watched => s.missed = 0 /\ s.there = 0
      /\ s.early = spell.early
      /\ \/ s.unrepaired = spell.unrepaired + 1
         \/ s.unrepaired = spell.unrepaired /\ spell.unrepaired > LongestUnrepaired
      /\ picture.track # "playing" => s.there = 0
  BY <1>0, TickedSpell
<1>3. w \in 0..AnswerWithin /\ sampling.waited \in 0..AnswerWithin
  BY <1>0, <1>1, LimitsAssumption DEF PicturesType
<1>4. SampleGoesOn(w) \in [awaits : {"nothing", "statistics", "repair"}, current : BOOLEAN, waited : 0..AnswerWithin]
      /\ SampleGoesOn(w).awaits = sampling.awaits /\ SampleGoesOn(w).waited = w
  BY <1>0, <1>3 DEF SampleGoesOn, PicturesType
<1> HIDE DEF e, s, w
<1>5. CASE ~viewing.watched
  <2>1. e = Unwatched
    BY <1>5 DEF e, Sync
  <2>2. /\ e \in EntryType /\ ~e.kept /\ ~e.stale /\ ~e.ready /\ ~e.played /\ e.fault = Never /\ e.repaired = Never
        /\ e.status = "connecting"
    BY <2>1, UnwatchedEntry
  <2>3. Samples(e, s) => entry' = e /\ spell' = s /\ sampling' = NoSample
    BY <2>2 DEF Samples, Rests
  <2>4. /\ entry' = e /\ spell' = s
        /\ sampling' = NoSample \/ sampling' = SampleGoesOn(w)
    BY <1>1, <2>3
  <2>5. PicturesType'
    BY <1>4, <2>4, NoSampleType, <1>0, <1>1, <1>2, <2>2 DEF PicturesType
  <2>6. s.unrepaired >= Cooldown /\ ~s.early
    BY <1>0, <1>2, <1>5, LimitsAssumption DEF PicturesInv, Repaired, PicturesType, SpellType, LongestUnrepaired, Slack, Never
  <2>7. Sound(entry)' /\ Repaired(entry, spell)'
    BY <2>2, <2>4, <2>6 DEF Sound, Repaired, Never
  <2>8. /\ sampling'.awaits # "repair" => sampling'.waited = 0
        /\ sampling'.awaits # "statistics" /\ s.there <= sampling'.waited
    BY <1>1, <1>2, <1>3, <1>4, <1>5, <2>4 DEF NoSample, w
  <2> QED
    BY <1>1, <1>2, <1>5, <2>2, <2>4, <2>5, <2>7, <2>8 DEF PicturesInv
<1>6. CASE viewing.watched
  <2>1. /\ e \in EntryType /\ e.kept /\ ~e.stale /\ s \in SpellType /\ Sound(e) /\ Repaired(e, s)
        /\ (e.status = "failed" <=> entry.status = "failed")
        /\ sampling.awaits = "repair" => s.there <= sampling.waited + 1
        /\ e.status # "failed" =>
              /\ sampling.awaits = "nothing" /\ viewing.linked => Due(e, s)
              /\ sampling.awaits = "nothing" /\ ~viewing.linked => InTime(e, s, "nothing", 0)
              /\ sampling.awaits = "repair" => InTime(e, s, "repair", sampling.waited + 1)
    BY <1>0, <1>1, <1>6, TickKeepsTime DEF e, s
  <2>2. CASE viewing.linked /\ sampling.awaits = "nothing" /\ Samples(e, s)
    BY <1>1, <1>2, <1>6, <2>1, <2>2, SamplesInv
  <2>3. CASE /\ ~viewing.linked \/ sampling.awaits = "repair"
             /\ entry' = e /\ spell' = s /\ sampling' = SampleGoesOn(w)
    BY <1>0, <1>1, <1>4, <2>1, <2>3, <1>2, <1>6 DEF PicturesType, Sound, Repaired, w, InTime, FaultLasts,
       WhileNothing, WhileStatistics, WhileRepair, TellsInTime, FoundUnsampled, PicturesInv
  <2> QED
    BY <1>1, <2>2, <2>3
<1> QED
  BY <1>0, <1>5, <1>6 DEF PicturesType

LEMMA StatisticsInv == PicturesInv /\ StatisticsAnswered => PicturesInv'
<1> SUFFICES ASSUME PicturesInv, StatisticsAnswered PROVE PicturesInv'
  OBVIOUS
<1>0. /\ PicturesType /\ (entry.kept <=> viewing.watched) /\ Sound(entry) /\ Repaired(entry, spell)
      /\ entry \in EntryType /\ spell \in SpellType
  BY DEF PicturesInv, PicturesType
<1>1. sampling.awaits = "statistics" /\ picture' = picture /\ viewing' = viewing
  BY DEF StatisticsAnswered
<1>2. CASE ~sampling.current
  BY <1>1, <1>2, <1>0, NoSampleType, NothingMissed DEF StatisticsAnswered, PicturesInv, PicturesType, Sound,
     Repaired, InTime, FaultLasts, WhileNothing, TellsInTime, FoundUnsampled
<1>3. CASE sampling.current /\ picture.track = "playing" /\ ~entry.stale
  <2> DEFINE n == NotePlayback(entry)
  <2> DEFINE z == [spell EXCEPT !.missed = 0]
  <2>1. entry.kept /\ entry.status # "failed"
    BY <1>1, <1>3 DEF PicturesInv
  <2>2. /\ n \in EntryType /\ n.kept = entry.kept /\ n.stale = entry.stale /\ n.started = entry.started
        /\ n.repaired = entry.repaired /\ n.ready /\ n.played /\ n.interrupted = Never /\ n.fault = Never
        /\ n.unavailable = Never /\ n.status = "ready"
    BY <1>0, <1>3, <2>1, NotedEntry
  <2>3. z \in SpellType /\ z.missed = 0 /\ z.there = spell.there /\ z.unrepaired = spell.unrepaired /\ z.early = spell.early
    BY <1>0 DEF SpellType
  <2>4. Sampled(n, z)
    BY <1>1, <1>3 DEF StatisticsAnswered
  <2> HIDE DEF n, z
  <2>5. ~Lost(n) /\ Sound(n) /\ Repaired(n, z)
    BY <1>0, <1>3, <2>2, <2>3, LimitsAssumption DEF Lost, Sound, Repaired, Never
  <2>6. Due(n, z)
    BY <2>2, <2>3, LimitsAssumption DEF Due, TellsInTime, FaultLasts, Never, L
  <2>7. SampledWell(n, z)
    BY <2>1, <2>2, <2>3, <2>4, <2>5, <2>6, SampleKeepsTime
  <2> QED
    BY <1>0, <1>1, <1>3, <2>1, <2>2, <2>3, <2>7, SampledInv
<1>4. CASE sampling.current /\ (picture.track # "playing" \/ entry.stale)
  BY <1>1, <1>4, <1>0, LimitsAssumption, SampleKeepsTime, SampledInv DEF StatisticsAnswered, PicturesInv, InTime,
     Due, WhileStatistics, EntryType, SpellType, Never, L
<1> QED
  BY <1>0, <1>2, <1>3, <1>4

\* What sync makes of an entry that is kept, and when it changes nothing else.
LEMMA SyncedEntry ==
    ASSUME PicturesType, viewing.watched, entry.kept
    PROVE  LET e == Sync(entry) IN
           /\ e \in EntryType /\ e.kept /\ ~e.stale /\ (e.ready <=> entry.ready /\ ~entry.stale)
           /\ e.played = entry.played /\ e.fault = entry.fault /\ e.repaired = entry.repaired
           /\ e.started = IF entry.stale /\ entry.ready THEN 0 ELSE entry.started
           /\ e.unavailable = IF entry.stale THEN -1 ELSE entry.unavailable
           /\ e.interrupted = IF entry.stale /\ entry.played /\ entry.interrupted = -1 THEN 0 ELSE entry.interrupted
           /\ (e.status = "failed" <=> entry.status = "failed")
           /\ ~entry.stale => e.status = entry.status
           /\ Sound(entry) => Sound(e)
<1> DEFINE e == Sync(entry)
<1> DEFINE r == RenewedEntry(entry)
<1>1. /\ entry \in EntryType /\ entry.interrupted \in -1..Presentation
  BY DEF PicturesType, EntryType
<1>2. (entry.stale => e = r) /\ (~entry.stale => e = entry)
  BY DEF Sync
<1>3. /\ r \in EntryType
      /\ r.kept /\ ~r.stale /\ ~r.ready /\ r.played = entry.played /\ r.unavailable = Never
      /\ r.started = IF entry.ready THEN 0 ELSE entry.started
      /\ r.fault = entry.fault /\ r.repaired = entry.repaired
      /\ r.interrupted = IF entry.played /\ entry.interrupted = Never THEN 0 ELSE entry.interrupted
      /\ r.status = IF ~entry.played \/ entry.status = "failed" THEN entry.status
                    ELSE IF r.interrupted >= Presentation THEN "reconnecting" ELSE "ready"
  BY <1>1, RenewedOne
<1> HIDE DEF e, r
<1>4. CASE entry.stale
  BY <1>3, <1>1, LimitsAssumption, <1>2, <1>4 DEF EntryType, Sound, Never, e
<1>5. CASE ~entry.stale
  BY <1>1, <1>2, <1>5 DEF e
<1> QED
  BY <1>4, <1>5

LEMMA RepairEndsInv == PicturesInv /\ RepairEnds => PicturesInv'
<1> SUFFICES ASSUME PicturesInv, RepairEnds PROVE PicturesInv'
  OBVIOUS
<1> DEFINE e == Sync(entry)
<1>0. /\ PicturesType /\ (entry.kept <=> viewing.watched) /\ Sound(entry) /\ Repaired(entry, spell)
      /\ entry \in EntryType /\ spell \in SpellType
  BY DEF PicturesInv, PicturesType
<1>1. /\ sampling.awaits = "repair" /\ entry' = e /\ sampling' = NoSample
      /\ picture' = picture /\ viewing' = viewing /\ spell' = spell
  BY DEF RepairEnds
<1> HIDE DEF e
<1>2. CASE ~viewing.watched
  BY <1>2, UnwatchedEntry, <1>0, <1>1, NoSampleType DEF e, Sync, PicturesType, PicturesInv, Repaired, Sound, Never
<1>3. CASE viewing.watched
  <2>1. /\ e \in EntryType /\ e.kept /\ ~e.stale /\ (e.ready <=> entry.ready /\ ~entry.stale)
        /\ e.played = entry.played /\ e.fault = entry.fault /\ e.repaired = entry.repaired
        /\ e.started = IF entry.stale /\ entry.ready THEN 0 ELSE entry.started
        /\ e.unavailable = IF entry.stale THEN -1 ELSE entry.unavailable
        /\ e.interrupted = IF entry.stale /\ entry.played /\ entry.interrupted = -1 THEN 0 ELSE entry.interrupted
        /\ (e.status = "failed" <=> entry.status = "failed")
        /\ ~entry.stale => e.status = entry.status
        /\ Sound(entry) => Sound(e)
    BY <1>0, <1>3, SyncedEntry DEF e
  <2>2. PicturesType'
    BY <1>0, <1>1, <2>1, NoSampleType DEF PicturesType
  <2>3. Sound(entry)' /\ Repaired(entry, spell)'
    BY <1>0, <1>1, <2>1 DEF Sound, Repaired
  <2>4. ASSUME e.status # "failed" PROVE InTime(e, spell, "nothing", 0)
    <3>1. WhileRepair(entry, spell, sampling.waited) /\ FaultLasts(entry, spell)
      BY <1>0, <1>1, <1>3, <2>1, <2>4 DEF PicturesInv, InTime
    <3>2. /\ entry.started \in 0..Startup /\ entry.interrupted \in -1..Presentation /\ entry.unavailable \in -1..Unavailable
          /\ entry.fault \in -1..GiveUp /\ spell.missed \in Nat /\ spell.there \in Nat /\ spell.unrepaired \in Nat
          /\ sampling.waited \in 0..AnswerWithin /\ spell.there <= sampling.waited
      BY <1>0, <1>1 DEF PicturesInv, PicturesType, EntryType, SpellType
    <3>3. FaultLasts(e, spell)
      BY <2>1, <3>1, <3>2, LimitsAssumption DEF FaultLasts, L, Never
    <3>4. TellsInTime(e, spell, AnswerWithin)
      BY <2>1, <3>1, <3>2, LimitsAssumption DEF WhileRepair, TellsInTime, L, Never
    <3>5. WhileNothing(e, spell)
      BY <2>1, <3>1, <3>2, <3>4, LimitsAssumption DEF WhileRepair, WhileNothing, FoundUnsampled, L, Long, Never
    <3> QED
      BY <3>3, <3>5 DEF InTime
  <2>5. (entry.status # "failed" => InTime(entry, spell, sampling.awaits, sampling.waited))'
    BY <1>1, <2>4, NoSampleType DEF InTime, FaultLasts, WhileNothing, TellsInTime, FoundUnsampled
  <2>6. picture.track # "playing" => spell.there = 0
    BY DEF PicturesInv
  <2> QED
    BY <1>1, <1>3, <2>1, <2>2, <2>3, <2>5, <2>6, NoSampleType DEF PicturesInv
<1> QED
  BY <1>2, <1>3

LEMMA SampleGoes ==
    ASSUME PicturesType, NEW w \in 0..AnswerWithin
    PROVE  /\ SampleGoesOn(w) \in [awaits : {"nothing", "statistics", "repair"}, current : BOOLEAN, waited : 0..AnswerWithin]
           /\ SampleGoesOn(w).awaits = sampling.awaits /\ SampleGoesOn(w).waited = w
           /\ (SampleGoesOn(w).current <=> sampling.current /\ ~Replaced)
BY DEF SampleGoesOn, PicturesType

LEMMA PictureNotedInv == PicturesInv /\ PictureNoted => PicturesInv'
<1> SUFFICES ASSUME PicturesInv, PictureNoted PROVE PicturesInv'
  OBVIOUS
<1> DEFINE e == Sync(entry)
<1> DEFINE n == NotePlayback(e)
<1> DEFINE z == [spell EXCEPT !.missed = 0]
<1>0. /\ PicturesType /\ (entry.kept <=> viewing.watched) /\ Sound(entry) /\ Repaired(entry, spell)
      /\ entry \in EntryType /\ spell \in SpellType /\ sampling.waited \in 0..AnswerWithin
      /\ sampling.awaits \in {"nothing", "statistics", "repair"}
  BY DEF PicturesInv, PicturesType
<1>1. /\ viewing.watched /\ entry.kept /\ picture.track \in {"playing", "silent"} /\ viewing' = viewing
      /\ entry' = n /\ picture' = [picture EXCEPT !.shown = TRUE] /\ sampling' = SampleGoesOn(sampling.waited)
      /\ spell' = z
  BY <1>0 DEF PictureNoted
<1>2. picture' \in [track : Tracks, shown : BOOLEAN] /\ picture'.track = picture.track
  BY <1>0, <1>1 DEF PicturesType
<1>3. /\ e \in EntryType /\ e.kept /\ ~e.stale /\ (e.ready <=> entry.ready /\ ~entry.stale)
      /\ e.played = entry.played /\ e.repaired = entry.repaired
      /\ (e.status = "failed" <=> entry.status = "failed")
      /\ Sound(entry) => Sound(e)
  BY <1>0, <1>1, SyncedEntry
<1>4. /\ n \in EntryType
      /\ e.status = "failed" => n = e
      /\ e.status # "failed" =>
            /\ n.kept = e.kept /\ n.stale = e.stale /\ n.started = e.started /\ n.repaired = e.repaired
            /\ n.ready /\ n.played /\ n.interrupted = Never /\ n.fault = Never /\ n.unavailable = Never
            /\ n.status = "ready"
  BY <1>1, <1>3, NotedEntry
<1>5. z \in SpellType /\ z.missed = 0 /\ z.there = spell.there /\ z.unrepaired = spell.unrepaired /\ z.early = spell.early
  BY <1>0 DEF SpellType
<1>6. /\ sampling' \in [awaits : {"nothing", "statistics", "repair"}, current : BOOLEAN, waited : 0..AnswerWithin]
      /\ sampling'.awaits = sampling.awaits /\ sampling'.waited = sampling.waited
      /\ (sampling'.current <=> sampling.current /\ ~Replaced)
  BY <1>0, <1>1, SampleGoes
<1> HIDE DEF e, n, z
<1>7. n.kept /\ ~n.stale /\ n.repaired = entry.repaired /\ (n.status = "failed" <=> entry.status = "failed")
  BY <1>3, <1>4
<1>8. PicturesType'
  BY <1>0, <1>1, <1>2, <1>4, <1>5, <1>6 DEF PicturesType
<1>9. Sound(entry)'
  <2>1. CASE e.status = "failed"
    BY <1>0, <1>1, <1>2, <1>3, <1>4, <2>1 DEF Sound
  <2>2. CASE e.status # "failed"
    <3>1. n.interrupted < Presentation
      BY <1>4, <2>2, LimitsAssumption DEF Never
    <3>2. picture'.track # "none"
      BY <1>1, <1>2
    <3> QED
      BY <1>1, <1>3, <1>4, <2>2, <3>1, <3>2 DEF Sound
  <2> QED
    BY <2>1, <2>2
<1>10. Repaired(entry, spell)'
  BY <1>0, <1>1, <1>5, <1>7 DEF Repaired
<1>11. (entry.status # "failed" => InTime(entry, spell, sampling.awaits, sampling.waited))'
  <2>1. n.status # "failed" => InTime(n, z, sampling.awaits, sampling.waited)
    BY <1>0, <1>3, <1>4, <1>5, FreshlyInTime
  <2> QED
    BY <1>1, <1>6, <2>1 DEF InTime, FaultLasts, WhileNothing, WhileStatistics, WhileRepair, TellsInTime, FoundUnsampled
<1>12. /\ picture.track # "playing" => spell.there = 0
       /\ sampling.awaits # "repair" => sampling.waited = 0
       /\ sampling.awaits = "repair" => spell.there <= sampling.waited
       /\ sampling.awaits = "statistics" /\ sampling.current => entry.kept /\ entry.status # "failed"
       /\ sampling.awaits = "statistics" /\ ~sampling.current => spell.missed = 0 /\ spell.there = 0
       /\ Replaced => spell.there = 0
  BY <1>1 DEF PicturesInv, Replaced
<1> QED
  BY <1>1, <1>2, <1>5, <1>6, <1>7, <1>8, <1>9, <1>10, <1>11, <1>12 DEF PicturesInv

LEMMA RetryInv == PicturesInv /\ RetryPressed => PicturesInv'
<1> SUFFICES ASSUME PicturesInv, RetryPressed PROVE PicturesInv'
  OBVIOUS
<1> DEFINE y == Sync(entry)
<1> DEFINE e == [y EXCEPT !.started = Startup, !.ready = FALSE, !.fault = Never, !.repaired = Never,
                          !.interrupted = IF y.played THEN Presentation ELSE Never,
                          !.status = IF y.played THEN "reconnecting" ELSE "connecting"]
<1>0. /\ PicturesType /\ (entry.kept <=> viewing.watched) /\ Sound(entry) /\ Repaired(entry, spell)
      /\ entry \in EntryType /\ spell \in SpellType /\ sampling.waited \in 0..AnswerWithin
      /\ sampling.awaits \in {"nothing", "statistics", "repair"}
  BY DEF PicturesInv, PicturesType
<1>1. /\ entry.kept /\ viewing.watched /\ picture' = picture /\ viewing' = viewing
      /\ \/ sampling.awaits = "nothing" /\ Samples(e, NoSpell)
         \/ sampling.awaits # "nothing" /\ entry' = e /\ spell' = NoSpell /\ sampling' = SampleGoesOn(sampling.waited)
  BY DEF RetryPressed
<1>2. y \in EntryType /\ y.kept /\ ~y.stale
  BY <1>0, <1>1, SyncedEntry
<1> HIDE DEF y
<1>3. PICK off \in BOOLEAN : off = FALSE
  OBVIOUS
<1>4. PICK i \in -1..Presentation : i = IF y.played THEN Presentation ELSE Never
  BY LimitsAssumption DEF Never
<1>5. PICK st \in {"reconnecting", "connecting"} : st = IF y.played THEN "reconnecting" ELSE "connecting"
  OBVIOUS
<1>6. e = [y EXCEPT !.started = Startup, !.ready = off, !.fault = -1, !.repaired = -1, !.interrupted = i, !.status = st]
  BY <1>3, <1>4, <1>5 DEF Never
<1> HIDE DEF e
<1>7. Startup \in 0..Startup /\ -1 \in -1..GiveUp /\ -1 \in -1..Cooldown
  BY LimitsAssumption
<1>8. /\ e \in EntryType /\ e.kept = y.kept /\ e.stale = y.stale /\ e.ready = off /\ e.fault = -1 /\ e.repaired = -1
      /\ e.status = st /\ e.interrupted = i /\ e.played = y.played
  BY <1>2, <1>6, <1>7 DEF EntryType
<1>9. Sound(e) /\ Repaired(e, NoSpell) /\ e.status # "failed"
  BY <1>2, <1>3, <1>5, <1>8, FreshSpell, LimitsAssumption DEF Sound, Repaired, Never
<1>10. CASE sampling.awaits = "nothing" /\ Samples(e, NoSpell)
  <2>1. e.started \in 0..Startup
    BY <1>8 DEF EntryType
  <2>2. Due(e, NoSpell)
    BY <1>3, <1>8, <2>1, FreshSpell, LimitsAssumption DEF Due, TellsInTime, FaultLasts, Never, L
  <2> QED
    BY <1>1, <1>2, <1>8, <1>9, <1>10, <2>2, FreshSpell, SamplesInv
<1>11. CASE sampling.awaits # "nothing" /\ entry' = e /\ spell' = NoSpell /\ sampling' = SampleGoesOn(sampling.waited)
  <2>1. /\ sampling' \in [awaits : {"nothing", "statistics", "repair"}, current : BOOLEAN, waited : 0..AnswerWithin]
        /\ sampling'.awaits = sampling.awaits /\ sampling'.waited = sampling.waited
    BY <1>0, <1>11, SampleGoes
  <2>2. PicturesType'
    BY <1>0, <1>1, <1>8, <1>11, <2>1, FreshSpell DEF PicturesType
  <2>3. Sound(entry)' /\ Repaired(entry, spell)'
    BY <1>1, <1>9, <1>11 DEF Sound, Repaired
  <2>4. InTime(e, NoSpell, sampling.awaits, sampling.waited)
    BY <1>0, <1>8, FreshSpell, FreshlyInTime DEF Never
  <2>5. InTime(entry, spell, sampling.awaits, sampling.waited)'
    BY <1>11, <2>1, <2>4 DEF InTime, FaultLasts, WhileNothing, WhileStatistics, WhileRepair, TellsInTime, FoundUnsampled
  <2>6. (sampling.awaits # "repair" => sampling.waited = 0) /\ 0 <= sampling.waited
    BY <1>0 DEF PicturesInv
  <2>7. entry'.kept /\ ~entry'.stale /\ entry'.status # "failed" /\ viewing'.watched /\ spell'.missed = 0 /\ spell'.there = 0
    BY <1>1, <1>2, <1>8, <1>9, <1>11, FreshSpell
  <2> QED
    BY <2>1, <2>2, <2>3, <2>5, <2>6, <2>7 DEF PicturesInv
<1> QED
  BY <1>1, <1>10, <1>11

\* The picture, the connection or the socket changes, the entry but for its age does not.
LEMMA OutsideInv ==
    ASSUME PicturesInv, PictureChanges \/ ConnectionReplaced \/ LinkChanges
    PROVE  PicturesInv'
<1>0. /\ PicturesType /\ (entry.kept <=> viewing.watched) /\ Sound(entry) /\ Repaired(entry, spell)
      /\ entry \in EntryType /\ spell \in SpellType /\ sampling.waited \in 0..AnswerWithin
      /\ sampling.awaits \in {"nothing", "statistics", "repair"}
  BY DEF PicturesInv, PicturesType
<1>1. /\ sampling' = sampling /\ spell' \in SpellType /\ spell'.missed \in {0, spell.missed} /\ spell'.there = 0
      /\ spell'.unrepaired = spell.unrepaired /\ spell'.early = spell.early
      /\ viewing' \in [watched : BOOLEAN, linked : BOOLEAN] /\ viewing'.watched = viewing.watched
  <2>1. CASE PictureChanges \/ ConnectionReplaced
    BY <1>0, <2>1 DEF PictureChanges, ConnectionReplaced, SpellType, PicturesType
  <2>2. CASE LinkChanges
    BY <2>2, <1>0 DEF LinkChanges, SpellType, PicturesType
  <2> QED
    BY <2>1, <2>2
<1>2. /\ entry' \in EntryType /\ entry'.kept = entry.kept /\ (entry'.stale => entry.kept)
      /\ entry'.ready = entry.ready /\ entry'.played = entry.played /\ entry'.status = entry.status
      /\ entry'.started = entry.started /\ entry'.unavailable = entry.unavailable /\ entry'.fault = entry.fault
      /\ entry'.interrupted = entry.interrupted /\ entry'.repaired = entry.repaired
      /\ picture' \in [track : Tracks, shown : BOOLEAN]
      /\ entry'.ready /\ ~entry'.stale => picture'.track # "none"
  <2>1. CASE LinkChanges
    BY <1>0, <2>1 DEF LinkChanges, Sound, PicturesType
  <2>2. CASE PictureChanges
    BY <2>2, <1>0 DEF PictureChanges, Sound, PicturesType, Tracks
  <2>3. CASE ConnectionReplaced
    BY <2>3, <1>0 DEF ConnectionReplaced, EntryType, PicturesInv, Sound, Tracks
  <2> QED
    BY <2>1, <2>2, <2>3
<1>3. PicturesType'
  BY <1>0, <1>1, <1>2 DEF PicturesType
<1>4. Sound(entry)' /\ Repaired(entry, spell)'
  BY <1>0, <1>1, <1>2 DEF Sound, Repaired
<1>5. (entry.kept /\ entry.status # "failed" => InTime(entry, spell, sampling.awaits, sampling.waited))'
  BY <1>0, <1>1, <1>2, TimeCarries DEF PicturesInv, InTime, FaultLasts, WhileNothing, WhileStatistics, WhileRepair,
     TellsInTime, FoundUnsampled
<1> QED
  BY <1>0, <1>1, <1>2, <1>3, <1>4, <1>5, LimitsAssumption DEF PicturesInv

LEMMA WatchChangesInv == PicturesInv /\ WatchChanges => PicturesInv'
<1> SUFFICES ASSUME PicturesInv, WatchChanges PROVE PicturesInv'
  OBVIOUS
<1>0. PicturesType
  BY DEF PicturesInv
<1>1. PICK b \in BOOLEAN : b = ~viewing.watched
  OBVIOUS
<1>2. PICK off \in BOOLEAN : off = FALSE
  OBVIOUS
<1>3. /\ viewing' = [viewing EXCEPT !.watched = b] /\ entry' = [Unwatched EXCEPT !.kept = b]
      /\ sampling' = [sampling EXCEPT !.current = off] /\ spell' = NoSpell /\ picture' = picture
  BY <1>1, <1>2 DEF WatchChanges
<1>4. /\ entry' \in EntryType /\ entry'.kept = b /\ ~entry'.stale /\ ~entry'.ready
      /\ entry'.fault = Never /\ entry'.repaired = Never /\ entry'.status = "connecting"
  BY <1>3, UnwatchedEntry DEF EntryType
<1>5. /\ viewing' \in [watched : BOOLEAN, linked : BOOLEAN] /\ viewing'.watched = b
      /\ sampling' \in [awaits : {"nothing", "statistics", "repair"}, current : BOOLEAN, waited : 0..AnswerWithin]
      /\ sampling'.awaits = sampling.awaits /\ sampling'.waited = sampling.waited /\ sampling'.current = off
  BY <1>0, <1>3 DEF PicturesType
<1>6. PicturesType'
  BY <1>0, <1>3, <1>4, <1>5, FreshSpell DEF PicturesType
<1>7. Sound(entry)' /\ Repaired(entry, spell)'
  BY <1>3, <1>4, FreshSpell, LimitsAssumption DEF Sound, Repaired, Never
<1>8. InTime(entry, spell, sampling.awaits, sampling.waited)'
  BY <1>4, <1>5, FreshSpell, FreshlyInTime, <1>3 DEF InTime, FaultLasts, WhileNothing, WhileStatistics, WhileRepair,
     TellsInTime, FoundUnsampled
<1>9. sampling.awaits # "repair" => sampling.waited = 0
  BY DEF PicturesInv
<1>10. 0 <= sampling'.waited
  BY <1>5
<1> QED
  BY <1>2, <1>3, <1>4, <1>5, <1>6, <1>7, <1>8, <1>9, <1>10, FreshSpell DEF PicturesInv

LEMMA PicturesInvHolds == ScreenRecoverySpec => []PicturesInv
<1>1. PicturesInv /\ UNCHANGED pictureVars => PicturesInv'
  BY DEF PicturesInv, PicturesType, Sound, Repaired, InTime, FaultLasts, WhileNothing, WhileStatistics, WhileRepair, TellsInTime,
         FoundUnsampled, pictureVars
<1>2. PicturesInv /\ [ScreenRecoveryNext]_pictureVars => PicturesInv'
  BY <1>1, TickInv, StatisticsInv, RepairEndsInv, PictureNotedInv, RetryInv, OutsideInv, WatchChangesInv
  DEF ScreenRecoveryNext
<1> QED
  BY <1>2, PicturesInvInit, PTL DEF ScreenRecoverySpec

\* For every setting of its limits: the member is told in time of a picture that is
\* missed, it is asked for again in time and given up at last, no repair comes too early,
\* and a picture that is there is shown as such.
THEOREM PicturesAlwaysRecover == ScreenRecoverySpec => []PicturesRecover
<1>1. PicturesInv => PicturesRecover
  <2> SUFFICES ASSUME PicturesInv PROVE PicturesRecover
    OBVIOUS
  <2>1. /\ entry \in EntryType /\ spell \in SpellType /\ sampling.waited \in 0..AnswerWithin
        /\ sampling.awaits \in {"nothing", "statistics", "repair"}
        /\ entry.started \in 0..Startup /\ entry.interrupted \in -1..Presentation /\ entry.unavailable \in -1..Unavailable
        /\ entry.fault \in -1..GiveUp /\ spell.missed \in Nat /\ spell.there \in Nat /\ spell.unrepaired \in Nat
        /\ entry.status \in {"connecting", "ready", "reconnecting", "failed"}
    BY DEF PicturesInv, PicturesType, EntryType, SpellType
  <2>2. ~spell.early
    BY DEF PicturesInv, Repaired
  <2>3. CASE entry.status = "failed"
    BY <2>2, <2>3 DEF PicturesRecover
  <2>4. CASE ~entry.kept
    BY <2>2, <2>4, LimitsAssumption DEF PicturesInv, PicturesRecover, Slack, LongestFault
  <2>5. CASE entry.kept /\ entry.status # "failed"
    <3>1. InTime(entry, spell, sampling.awaits, sampling.waited) /\ Sound(entry)
      BY <2>5 DEF PicturesInv
    <3>2. entry.status = "ready" => ~(spell.missed > Presentation + Slack)
      BY <2>1, <3>1, LimitsAssumption
      DEF InTime, WhileNothing, WhileStatistics, WhileRepair, TellsInTime, Sound, Slack, L, Never
    <3>3. spell.missed > Startup + Unavailable + Slack => spell.unrepaired <= LongestUnrepaired
      BY <2>1, <3>1, LimitsAssumption
      DEF InTime, WhileNothing, WhileStatistics, WhileRepair, FaultLasts, FoundUnsampled, Slack, L, Never, LongestUnrepaired
    <3>4. spell.missed < LongestFault
      BY <2>1, <3>1, LimitsAssumption
      DEF InTime, WhileNothing, WhileStatistics, WhileRepair, FaultLasts, FoundUnsampled, Slack, L, Long, Never, LongestFault
    <3>5. spell.there >= Slack => entry.status = "ready"
      BY <2>1, <3>1, LimitsAssumption DEF PicturesInv, InTime, WhileNothing, WhileStatistics, Slack, L
    <3>6. LongestFault \in Int
      BY LimitsAssumption DEF LongestFault, Slack
    <3> QED
      BY <2>1, <2>2, <3>2, <3>3, <3>4, <3>5, <3>6 DEF PicturesRecover
  <2> QED
    BY <2>3, <2>4, <2>5
<1> QED
  BY <1>1, PicturesInvHolds, PTL

=============================================================================
