----------------------------- MODULE VoiceCalls -----------------------------
(* The calls of accounts: voice membership with a history variable, who took  *)
(* the last step, and the promise of OneCall that it keeps.  Two steps of     *)
(* different Devices may lead to the same state, so what a Device may do to    *)
(* the call of another cannot be said of the state alone.                     *)
EXTENDS VoiceMembership

CONSTANTS Owner, Server, Network

VARIABLE actor     \* a Device, the owner, the server's timer, the network

actorVars == <<vars, actor>>

DeviceActs(s) ==
    /\ \E r \in Rooms :
          \/ Leave(s, r)
          \/ \E m \in MediaRequests : Join(s, r, m) \/ SetMediaState(s, r, m)
          \/ \E T \in SUBSET VisualTarget : SetVisualSubscriptions(s, r, T)
    /\ actor' = SessionOf[s]

NetworkActs ==
    /\ Restart \/ \E s \in Sockets : Connect(s) \/ Disconnect(s)
    /\ actor' = Network

ActorInit == Init /\ actor = Network

ActorNext ==
    \/ \E s \in Sockets : DeviceActs(s)
    \/ NetworkActs
    \/ OwnerNext /\ actor' = Owner
    \/ (\E u \in Users : GraceExpires(u)) /\ actor' = Server

\* FairSpec, with the history.
ActorSpec == ActorInit /\ [][ActorNext]_actorVars /\ TimersFire

\* Who may end a call: the Device that holds it, by leaving or going elsewhere;
\* another Device, only by taking the call; the timer, only when the Device has
\* no connection; the owner.  So the displaced laptop's own goodbye, or its
\* closing tab, never hangs up the call the phone is on (voice.ts, voice:leave
\* and leaveAllRooms), and a lost connection alone ends nothing.
OnlyTheHolderEndsTheCall ==
    [][\A u \in Users : \A r \in VoiceRoomsOf(u) :
        ~IsMember(r, u)' =>
            \/ actor' = holders[u].sessionId
            \/ /\ VoiceRoomsOf(u)' # {}
               /\ actor' = holders'[u].sessionId
            \/ actor' = Server /\ SocketsForSession(holders[u].sessionId) = {}
            \/ actor' = Owner
            \/ actor' = Network /\ connected' = {}]_actorVars

------------------------
\* The refinement mapping: the call of an account is the room it is in and the
\* Device recorded as holding it.
CallOf(u) ==
    IF VoiceRoomsOf(u) = {} THEN None
    ELSE [roomId |-> CHOOSE r \in VoiceRoomsOf(u) : TRUE,
          sessionId |-> holders[u].sessionId]

OnlineDevices == {SessionOf[s] : s \in connected}

Abstract == INSTANCE OneCall WITH call <- [u \in Users |-> CallOf(u)],
                                  online <- OnlineDevices

\* The server keeps, for every account, at most one call on one Device, and
\* gives up a call whose Device stays away (ADR-0014: voice follows the newest
\* Device).
ImplementsOneCall == Abstract!Spec

=============================================================================
