--------------------------- MODULE MCInstallation ---------------------------
(* The parts of an installation that share no state with each other, each on  *)
(* a small instance of its own: Init picks the part that runs, and the         *)
(* variables of the others keep their first values.                          *)
EXTENDS AccountRemoval, Presence, ChatClient, BotPresence, MusicRelay, ChannelLayout, Workspace, TrackAudio

CONSTANTS Parts, MaxPanel

VARIABLE part

WaysIn == {"links", "desktop", "access", "invites"}
Runs(p) == part = p

InstallationInit ==
    /\ part \in Parts
    /\ AccountsInit /\ LinksInit /\ LaunchesInit /\ RecoveryInit /\ InvitesInit /\ RemovalInit
    /\ PresenceInit
    /\ RoomInit /\ ClientInit
    /\ ~Runs("room") => online /\ joined = People
    /\ Runs("room") => ~online
    /\ BotPresenceInit
    /\ RelayInit
    /\ LayoutInit
    /\ WorkspaceInit
    /\ TrackAudioInit
    /\ ~Runs("workspace") => belongs = {} /\ serverRoute = Landing

(* The ways into an account.                                                  *)
SignOuts ==
    \E s \in DOMAIN sessions : LogOut(s) \/ (\E by \in DOMAIN sessions : RevokeOwnDevice(by, s))

\* The first invite has a limit, the second, whoever makes it, has none.
LimitedFirst == \A i \in DOMAIN invites' : invites'[i].limit = Unlimited <=> i > 1

LetInNext ==
    \/ Runs("links") /\ LinksNext /\ UNCHANGED <<launchVars, recoveryVars, inviteVars, removalVars>>
    \/ Runs("desktop") /\ LaunchesNext /\ UNCHANGED <<linkVars, recoveryVars, inviteVars, removalVars>>
    \/ Runs("access") /\ OwnerClaimsNext /\ UNCHANGED <<linkVars, launchVars, inviteVars, removalVars>>
    \/ Runs("access") /\ AccessLinksNext /\ UNCHANGED <<linkVars, launchVars, recoveryVars, removalVars>>
    \/ Runs("invites") /\ InvitesNext /\ LimitedFirst /\ UNCHANGED <<linkVars, launchVars, recoveryVars, removalVars>>
    \/ part \in {"links", "desktop"} /\ RecoveryNext
          /\ UNCHANGED <<linkVars, launchVars, inviteVars, removalVars>>

LockedOutNext ==
    \/ Runs("access") /\ RequestsNext
    \/ part \in WaysIn \ {"access"} /\ RemovalNext
    \/ part \in WaysIn \ {"invites"} /\ SignOuts
          /\ UNCHANGED <<linkVars, launchVars, recoveryVars, inviteVars, removalVars>>

(* A text room: the messages alone, waves and memberships among them; then the *)
(* client beside it, once with posts of the owner and what is read, once with  *)
(* the reactions to one message.                                             *)
NoAnswers == answer' = NoEvent

Posts ==
    /\ Len(messages') <= 2
    /\ \A id \in DOMAIN messages' : messages'[id].replyTo = 0 /\ messages'[id].by = RoomOwner

NoLateReply == \A id \in DOMAIN messages' : messages'[id].replyTo = 0 \/ id = 2

Posting == (MessageRequest /\ UNCHANGED clientVars) \/ ClientStep

TextRoomNext ==
    \/ Runs("room") /\ (MessageRequest \/ MembershipRequest) /\ NoAnswers /\ NoLateReply /\ UNCHANGED clientVars
    \/ Runs("reading") /\ Posting /\ NoAnswers /\ Posts
    \/ Runs("reactions") /\ ClientNext /\ Len(messages') <= 1 /\ readHere' = 0

(* Channels: what was not yet read of the changes is bounded, and the list does *)
(* not fall behind the last change, after which no other would mend it.         *)
ChannelsNext ==
    /\ LayoutNext /\ Len(changes') + Len(requested') <= 2
    /\ shownAt' < dueAt' \/ astray' => dueAt' < MaxLayouts

InstallationNext ==
    /\ UNCHANGED part
    /\ IF part \in WaysIn THEN LetInNext \/ LockedOutNext ELSE UNCHANGED <<waysInVars, removalVars>>
    /\ Runs("invites") => Cardinality(deleted' \cup banned') <= 1
    /\ IF Runs("presence") THEN PresenceNext ELSE UNCHANGED presenceVars
    /\ IF part \in {"room", "reading", "reactions"} THEN TextRoomNext
       ELSE UNCHANGED <<roomVars, wireVars, online, inside, clientVars>>
    /\ IF Runs("bot") THEN BotPresenceNext ELSE UNCHANGED botPresenceVars
    /\ IF Runs("panel") THEN RelayNext /\ used'.presses + used'.moves <= MaxPanel ELSE UNCHANGED relayVars
    /\ IF Runs("channels") THEN ChannelsNext ELSE UNCHANGED layoutVars
    /\ IF Runs("workspace") THEN WorkspaceNext /\ (overlaid' => happened' <= 1) ELSE UNCHANGED workspaceVars
    /\ IF Runs("track") THEN TrackAudioNext ELSE UNCHANGED trackAudioVars

allVars == <<part, waysInVars, removalVars, presenceVars, roomVars, wireVars, online, inside,
             clientVars, botPresenceVars, relayVars, layoutVars, workspaceVars,
             trackAudioVars>>

InstallationSpec == InstallationInit /\ [][InstallationNext]_allVars

\* Channels and lists settle at what the server keeps, and a member who lands anywhere
\* arrives at a room that is there.
WorkspaceSettles == ChannelsHold /\ MembersArrive

=============================================================================
