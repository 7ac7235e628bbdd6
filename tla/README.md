# Voxly: formal models

Voxly is a self-hosted voice and text service: a Node server (Fastify, Socket.IO,
SQLite), a web client that also runs inside a Tauri desktop shell, and a Music
bot that joins voice rooms as one more WebRTC peer. Media travels between peers;
the server keeps identity, membership and signalling. These modules model the
parts whose behaviour depends on the order in which things happen, check them on
small instances with TLC, and prove the most important properties for every value
of the constants with TLAPS.

## Inventory

| Part | State | Operations | What makes it hard |
| --- | --- | --- | --- |
| Voice membership (`apps/server/src/voice.ts`, `app.ts`) | four in-memory maps: members of a room, visual subscriptions, the Device that holds an account's call, armed disconnect timers; Socket.IO's `voice:<room>` sets | join, leave, media, subscriptions, disconnect and its 15 s timer; owner disconnect, moderation, kick, ban, room and server deletion, account end, Device sign-out | several tabs and Devices per account, hand-off, late goodbyes, timers against reconnects |
| Session rotation (`auth/sessions.ts`) | one row per Session and the credentials it retired | authenticate, rotate, confirm delivery, recover, refuse, renew, log out | parallel requests, lost and late responses, a browser killed before it wrote its cookies |
| Ways into an account (`deviceLinks.ts`, `desktopAuthorization.ts`, `recovery.ts`, `auth/ownerClaims.ts`, `invites.ts`, `accountDeletion.ts`, `ownerPanel.ts`) | one table of rows per way, the Sessions and the membership they meet in | mint, claim, approve, refuse, collect, redeem, cancel, expire; kick, ban, unban, delete | single use against expiry, revocation, parallel polls and every other way in |
| Presence (`app.ts`, `members.ts`) | connections, idle flags, chosen Status and its timer | connect, idle, choose, expire | timers against new choices, who is told of what |
| Messages, reactions, read state (`messages.ts`, `readState.ts`, web `useChatController.ts`) | SQLite rows, and the view of one client | post, react, delete, read, join a room, reconnect | answers and events that overtake each other |
| Rooms and servers (`servers.ts`, web `useWorkspaceController.ts`) | positions and categories, the list a client shows, the route | create, delete, rearrange, navigate | answers in any order over changes of other owners |
| Music bot (`apps/bot/src/playback.ts`, `music.ts`, `set.ts`, `player.ts`, `mesh.ts`, `audio.ts`, `stream.ts`) | Queue, current Set, one fetch and its two programs, Grace timer, a promise chain, one connection per Listener | add, skip, remove, play, stop, leave; ends, failures, evictions, snapshots, expiries | events between the awaits of a request, work that waited its turn |
| Music relay and panel (`apps/server/src/music.ts`, web `useMusicQueue.ts`) | requests waiting for the bot | forward a command, publish the Queue | a bot that answers after the limit, Devices that take a call over |
| Bot presence (`presence.ts`, `credentials.ts`, server `bots.ts`) | sockets per server, retry loop, poll | connect, reconnect, sync | every credential exchange retires the previous Sessions |
| Calls in the client (web `useVoiceMedia.ts`, `voicePeerRecovery.ts`, `screenRecovery.ts`; the rules in `packages/shared`) | one connection per pair; microphone, deafen, camera, screen | offer, answer, recover; toggle, move, rejoin; share, watch | glare, late answers, reconnects |
| Desktop shell (`apps/desktop/src`, `src-tauri/src`) | windows and Installations, updates, shortcuts and the keyboard hook, alerts, files | open, replace, update, bind, record, press, show, save | two processes that tell each other things unordered, links, kills |
| HTTP plumbing, storage, deployment | | | pure I/O |

The parts meet in few places. Routes and handlers run one at a time on one event
loop, so a handler without an `await` is one step. A row changes first and the
realtime layer is told afterwards, in the same handler (`revokeServerAccess`,
`deleteRoom`, `terminateAccount`, `disconnectDevice`). The Music bot reaches the
server like any client, through `voice:join`, `voice:leave`, `music:publish` and
the snapshots it is sent. A Session authenticates each HTTP request, and each
connection once, at its handshake.

What could go wrong at which line, with the properties that would notice, is listed
under `hazards` in `PROJECT.json`.

## Modules

| Module | What it is |
| --- | --- |
| `VoiceMembership` | the server's live voice state and every operation that changes it |
| `OneCall`, `VoiceCalls` | the promise "one call per account, on its newest Device"; membership with a history variable naming who took the last step, and the refinement mapping |
| `SessionRotation` | one Session, its credentials, the browser and the network between |
| `Accounts` | accounts and Sessions as the ways in see them |
| `DeviceLinks`, `DesktopAuthorization`, `Recovery`, `Invites` | one way in each: its rows and its routes |
| `OneTimeGrant` | the promise of a way in that asks somebody: issued, presented, approved, used once, or void for good |
| `AccountRemoval` | deletion and ban, and all ways in together (`WaysInSpec`) |
| `Presence` | Status, idleness and who is told |
| `RoomMessages`, `ChatClient` | one text room on the server; one member's client of it |
| `ChannelLayout`, `Workspace` | channels with an owner's list of them; the servers and the route of a client |
| `Playback` | the Queue's pure state machine, as operators from a state to a state and effects |
| `MusicResponder` | the bot around it: chain, Set, player, fetch, Grace period, and the server it talks to |
| `TrackAudio`, `ListenerMesh` | the two programs of a fetch; the bot's connection to one Listener |
| `MusicRelay`, `BotPresence` | panel, relay and answers; the bot's sockets and credential exchanges |
| `Negotiation` | offer, answer, rollback between two members of a room |
| `PeerRecovery` | the recovery state machine of one connection and its timers |
| `VoiceControls`, `ScreenSharing`, `ScreenRecovery` | microphone and deafen; sharing and watching; the picture that stopped |
| `PushToTalk`, `ShortcutKeys`, `ShortcutSettings` | from key to track; gates and recording; asking, confirming, saving |
| `DesktopUpdates`, `DesktopWindows`, `KeptState` | the updater; windows of Installations; files |
| `DesktopAlerts`, `CallCues` | alerts; sounds of a call |
| `VoiceProofs`, `SessionProofs`, `AccountProofs`, `MusicProofs`, `ClientProofs`, `InstallationProofs` | TLAPS proofs. `VoiceProofs` is also about `ListenerMesh` and `ScreenRecovery`, `SessionProofs` about `DesktopUpdates` and `DesktopWindows`, `AccountProofs` about `ChatClient`, the last two about several modules that share no state |
| `MCVoiceCalls`, `MCVoiceMedia`, `MCMusic`, `MCInstallation`, `MCClients` | instances for TLC |

Operators called a mutant in their comment are no part of a specification. Each is a
plausible mistake in the definition it is written before, kept to show that the
property it is paired with would notice.

`MCInstallation` and `MCClients` hold parts that share no state, each on an instance
of its own: `Init` picks the part, and only its variables move. `AccountRemoval` is
the exception among them: it is a real composition, in which deletions, bans and
recoveries act on the tables of four other modules.

### VoiceMembership

`membership`, `subscriptions`, `holders` and `pending` are the maps of
`VoiceContext`; `connected`, `socketRooms` and `instance` are what Socket.IO and
`socket.data` hold; `servers`, `rooms`, `access`, `banned`, `revoked` and
`moderated` are the rows voice reads. Each `socket.on` handler, each realtime
operation and the timer's callback is one action:

- `Join`, `Leave`, `SetMediaState`, `SetVisualSubscriptions`: the socket handlers,
  with every refusal as a guard. `Join` also evicts from other rooms and takes the
  displaced Device out of `voice:<room>`.
- `Disconnect`, `GraceExpires`: `leaveAllRooms` and the timer it arms. The timer
  is untimed: it may fire at any later moment. This includes every real delay.
- `DisconnectMember`, `RevokeServerAccess`, `UpdateModeration`, `DeleteRoom`,
  `DeleteServer`, `TerminateAccount`, `DisconnectDevice`: a route together with
  the realtime operation it calls. Closing several sockets runs their disconnect
  handlers in any order, which only shows in whose timer is left.
- `Restart`: rows survive, maps and connections do not.

Left out: who may call an owner's route, display identities, the text of refusals,
`speaking` in redacted snapshots, and `moveMember`, which changes no state. A
server always has text rooms and an owner other servers, so the refusals to delete
the last of either do not arise. `is_afk` is written when a room is created and
never changed, hence a constant.

### Playback and MusicResponder

`Playback` has one operator per event of `advancePlayback`, each returning the
next state and its effects. `MusicResponder` is what carries the effects out. The
variable `chain` is the promise chain: its head is the request being served, and
`step` says at which `await` it is suspended. Messages between bot and server are
two FIFO sequences, as on one socket. The server's half of a join, leave and
publish is modelled as far as the bot can notice it: membership, snapshots to the
room and redacted ones to everybody else on the server, acknowledgements.

A request is served in the steps the code awaits: the extractor, making way for
another room's Set, the RTC configuration, the join, the mesh's teardown. Between
them anything may arrive. A join may be refused, or (only with `JoinMayTimeOut`)
acknowledged too late.

Left out: the search chain (in `MusicRelay`), the refresh of TURN credentials,
speaking updates, packet pacing, and `close`, which belongs to the bot's presence.

### SessionRotation

The row is `current`, `issuedAt`, `lastSeen`, `expiresAt`, `revoked`; `retired` is
`session_tokens`. A credential is the number of its issue. Cookies carry the
credential in their name, so a jar is a set. `Serve*` are the paths of
`authenticateHttp`, `authenticateSocket` and the logout route; the browser keeps
cookies in memory and on disk, writes at most `WrittenWithin` later and may be
killed. Requests and responses are sets, hence reordered and lost at will, and
late by at most `RequestDelay` and `ResponseDelay`. Two identical requests of one
tick are one element of the set; the second would find nothing left to confirm or
rotate, as a later request with the same cookies finds.

Left out: several Sessions in one jar, legacy cookie names, banned accounts (they
are refused whatever the credential), the audit line of a stale rejection, labels.

### The ways in

Rows are kept in the order they were created, each named by its place. A Session
remembers the grant that created it. A route is one synchronous transaction, so one
action; the awaited operator challenge comes before anything is read. Expiry is an
event of its own that may come at any moment. A link's claim token is known by how
often the link had been claimed, because any Device that ever claimed it may poll
with its own; a launch and its authorization are one record, because a launch is
bound to at most one.

### Negotiation

A connection completes the calls made on it one after the other, so a member has a
queue of calls, and the code after an `await` is the action that completes the call.
Signals between the two travel in order. `superseded` is the offer generation
reduced to "still the latest"; the Music bot, which owes an overtaken offer where
the web client forgets it, is the member `bot`.

### The clients

The client and desktop modules each take one object of the code with everybody who
acts on it: the member, the page, the shell, timers and the other process. Sequence
numbers and generations are modelled by what the code asks of them, "is this still
the latest". Where the code really loses track, the module marks it with a named
excuse (`crossed`, `hurried`, `empty`, `deaf`, `late`, `odd`, `stale`, `cut`,
`overtaken`, `missed`, `unlisted`, ...) and the property is stated outside it; every
excuse is described under Observations. The runs go on behind all of them, and what an excuse does
not suspend is still checked there: behind `crossed`, that no answer, snapshot or
recovered device opens a silenced microphone, only what a failed join or a refused
deafen puts back (`OnlyPutBackIsSent`).

## Runs

| Run | Question | Bounds, and why they are enough |
| --- | --- | --- |
| `MCVoiceCalls` | Can a call end up nowhere, twice, on a Device that lost it, with a ghost in it, or be ended by a stranger? Does all of it amount to `OneCall`? | one account (calls of different accounts only meet in visual limits and subscriptions), two Devices with two connections, so a Device can lose one and keep one, two rooms |
| `MCVoiceMedia` | Does a mute hold? Do visual limit and subscriptions? | two accounts, one with two Devices, an ordinary and an AFK room, microphone and camera requests, limit 1: full and one over are both reached; the two Devices are alike, hence symmetric |
| `MCMusicSet` | Do player, fetch, panel and Grace period agree with the Queue, is every request served, does an abandoned Set end, and is the bot where its Set is? | two parts. `room`: three commands, so two skips can meet a third Track; limit 2, so a full Queue is reached; leave, return, leave; a late join; `OneAtATime` keeps commands, moves and mutes from all being spent in one behaviour. `rooms`: two rooms, two commands, a move and an eviction, joins answered in time |
| `MCInstallation` | The ways in, presence, a text room and its client, the bot's sockets, the panel, channels, servers, one Track | one member beside the owner and one newcomer, two codes, launches and access links each, a first invite with a limit and a second without (`LimitedFirst`); a history of one message where two are posted (`HistoryLimit`); two Devices; two presses; three layouts, no list falls behind the last; one of two accounts removed where there are invites; the other constants are in the cfg |
| `MCClients` | One Session, one pair of peers, one connection, one member's controls, one keyboard, the updater, the windows, the alerts, the files, the bot's Listener, a shared screen and its picture | two requests and responses under way, a kill, two rotations; two media changes; the rest are numbers of events of each kind in the cfg, limited together by `BoundedTogether` |
| `MCVoiceTracks`, `MCMusicTimeout`, `MCMusicEviction`, `MCMusicPanel`, `MCSessionSlow`, `MCNegotiation`, `MCPresenceExpiry` | disagreements, below | the smallest instance that shows each |

The parts of `MCInstallation` are `links` and `desktop` (each with Recovery codes,
sign-outs, requests for deletion, bans and deletions), `access` (owner claims and
access links with requests for deletion), `invites` (with bans, kicks and deletions),
`presence`, `room` (the server's messages with waves and memberships), `reading` and
`reactions` (with the client), `bot`, `panel`, `channels`, `workspace` and `track`.
Because bans are lifted only in `invites` and access links are made only in `access`,
no part of the run makes a deleted account's membership active again; see the hypothesis of
`WaysInUsedOnce` below. The parts of `MCClients` are `session`, `negotiation`,
`recovery`, `controls`, `shortcuts`, `keys`, `settings`, `updates`, `windows`,
`kept` and `places` (preferences and placements of `KeptState`), `alerts`, `cues`,
`mesh`, `screens` and `pictures`.

Some properties are conjunctions, kept in the module where their parts meet:
`WaysInAreUsedOnce` (`AccountRemoval`), `ChatHolds` (`ChatClient`: the view settles; what
was not seen stays unread), `WorkspaceSettles` (`MCInstallation`: channels and servers),
`MediaIsAsShown` (`MCClients`: controls, screens, pictures), `ShortcutsHold`
(`ShortcutSettings`: keys and settings), `AlertsHold` (`CallCues`), `UpdatesHold`,
`KeptStateHolds` and `RoomIsServed`.

Bounds that are part of a specification: `CommandBound`, `MoveBound`,
`EvictionBound`, `MuteBound` in `MusicResponder`; `LastTick`, `FlightBound`,
`KillBound` in `SessionRotation`; every constant named `Max...`. They end the
environment's activity, so those runs have no deadlock check: the system may come to
rest. The voice runs are unbounded and checked for deadlock. The intervals of
`SessionRotation` and `ScreenRecovery` are scaled: they keep the order of the real
ones. `Watchers` are the members whose panel is followed; it is empty where no
property looks at one.

Fairness. Voice: only that an armed timer fires (`WF` on `GraceExpires`); nobody has
to connect, leave or come back. Music: that the event loop goes on with its chain,
that the socket delivers in both directions, and that a Grace timer fires. Every
await of the chain has a bounded wait in the code, or settles by itself: the
extractor has its own limit, the join its five seconds (the fair run lets it run
out). Members and owners are never assumed to act.

## What is proved

Every theorem holds for all values of the constants that satisfy the named `ASSUME`s
of its module.

`VoiceProofs`, from `VoiceAssumption` (the shape of the constants) and
`NoneAssumption` (no value is not a value):

- `TypeCorrect`: `Spec => []TypeOK`.
- `OneRoom`, `SignalsReachHolder`, `NoStrandedMember`: the three safety properties
  about calls, through `CallInv`. None is inductive alone. That a displaced Device
  is put out of the right room needs `OneRoomPerAccount` before the step; that
  leaving spares the timer's Device needs to know whose the call is; and all three
  speak of the holder's Device, which must belong to the account (`HoldersAreOwn`).
  Most actions share one lemma about `LeaveVoiceMember`; `Join` and `GraceExpires`
  have their own.
- `OnlyTheAdmitted`, `MutesAreKept`, `VisualsInOrder`: through `RoomInv`. The visual
  limit is a cardinality, which says nothing of an infinite set, so the invariant
  carries that a room's publishers are finite; a join counts them without the joiner,
  and the limit then holds with it. Accounts need not be finitely many.
- `OnlyTheHolderEnds`: the action property about who may end a call, from `CallInv`.
- `ListenersStayFed` (`ListenerMesh`): the signals on the socket follow the snapshots
  they belong to (`WireFollows`), so the peer, or the closing that goes before it, is
  always of the Listener's instance last heard of (`MeshFits`, `Attended`), and a
  transport that is down has a timer or was reported (`Helped`).
- `PicturesAlwaysRecover` (`ScreenRecovery`), from `LimitsAssumption` (the limits are
  times), for any lengths of them: `PicturesInv` relates the ages the owner keeps of a
  picture (fault, interruption, last repair) to how long it really has been missed, by
  what the sample awaits. A fault that was found is never forgotten but by a picture that
  is there or by Retry, and a picture that is missed is a fault soon.
- `ImplementsOneCallSafely`: initial states and steps of `OneCall` under the mapping
  of `VoiceCalls`. That an abandoned call is given up rests on fairness and is left to
  TLC (`ImplementsOneCall`).

`SessionProofs`, for any intervals with `Grace < Rotation` and `Persistence <=
Rotation` (the code's `Rotation`, `Grace` and `Persistence` are 15, 2 and 5 minutes):

- `CredentialsCorrect`, `OneAttempt`: pending credentials share the current one's
  clock. A rotation leaves only the replaced credential pending, because by then the
  persistence time has passed and everything older was confirmed: this is where
  `Persistence <= Rotation` is needed.
- `SpacedReplacements`: a recovery happens only past the grace period of a pending
  credential, hence of the current one; a rotation only past `Rotation`.
- `OldStaysOld`: a credential whose replacement came back never becomes current or
  pending again, because recovery and rotation touch only the pending ones and the
  current one, and a new credential is always a new number.
- `SessionIsKept`: the browser and its disk hold a credential the server accepts,
  if `QuickEnough == ResponseDelay + WrittenWithin + RequestDelay < Persistence`. The
  invariant (`BrowserInv`) says where every cookie that is still good can be: what is
  under way, in memory or on disk is no younger than what the server issued; the disk
  follows memory within `WrittenWithin`; a request is sent with cookies that were
  held then; a clearing is behind every cookie it clears. The hypothesis is tight:
  with the sum equal to `Persistence` TLC finds a browser that loses its Session, and
  `MCSessionSlow` is such an instance.
- `UpdatesHoldAlways` (`DesktopUpdates`): the invariant (`UpdatesInv`) says what the
  updater holds in each phase (`UpdateIs`: the bytes are always the candidate's), where
  the scheduled task stands with the lease (`TurnIs`), that a download the member
  declined has been told so (`DeclinedIs`), and that Home, while nothing runs, shows
  what there is or is about to be told: by an event, or by an answer that is not older
  than what it says (`AnswersAre`, `HomeIs`). What was declined stays known because a
  cancelled version is the candidate as long as no newer one is.
- `HomeAlwaysSettles`, `ChoicesAlwaysHold` (`DesktopWindows`), from
  `DesktopWindowsAssumption` (no place is not a place), by `WindowsInv`: a window that
  loads has its timer (`NativeIs`); while Home's loading screen is up, the window loads,
  or the event or the answer that ends it is on its way (`TargetIs`); what Home knows of
  the open Installation is right or being told (`KnownIs`), but for a window that could not be built; a link is in one place
  (`LinkIs`); and the window that loads is the one the member asked for last (`WordIs`).

`AccountProofs`, for any accounts, codes, launches and invites:

- `WaysInHold`: every conjunct of `WaysInAreUsedOnce` but the one about deleted
  accounts, of `WaysInSpec`. Each table has an invariant that ties its rows to the
  Sessions they made (`LinkInv`, `LaunchInv`, `RecoveryInv`, `InviteInv`). What the
  other modules do to a table is only that rows fade (`LinksFade`, `LaunchesFade`,
  ...: they stay, and what was consumed, refused or revoked stays so), so each
  invariant is proved once against its own routes and once against fading. Sessions
  grow only at the end and with a grant of the table that acted (`Admits`). That a
  cancelled launch leaves nothing to collect is `EndingsMatch`; that a recovery
  withdraws approvals follows from `ApprovedByLive`: a Session that comes in through
  an approval was approved by a Session that still works, and a recovery ends those.
- `WaysInUsedOnce`: the whole of `WaysInAreUsedOnce`, as long as no owner lifts the
  ban of a deleted account (`DeletedStayBanned`). The hypothesis is needed and the
  code does not enforce it: `app.ts:649-677` bans and unbans a membership without
  looking at the account, a deleted account's membership so
  becomes active again, and `invites.ts:312-380` then issues it an access link and a
  Session. That Session is of no use: `sessions.ts:316-323` refuses a deleted account's.
- `GrantsHold`: Device links and desktop authorizations implement `OneTimeGrant`, all
  ways in and removals included. Under the mapping every route is a step of the
  abstract grant, a withdrawal by something else (a sign-out, a deletion, a recovery)
  is its `VoidAndIssue`, and the rest are stutters. The complete specification of
  `OneTimeGrant` is proved, since it has no fairness.
- `ChatHoldsAlways` (`RoomMessages`, `ChatClient`), from `RoomAssumption` (the owner is
  somebody) and `HistoryAssumption` (a history has a limit), of `ChatSpec`: every route of the room with every step of the client, where
  the run takes them apart. What an event, an answer or a history says of a message is
  what it is or was (`Fits`). The newest reactions of a message nothing was lost of
  have come, are in an event under way, or are in the history under way
  (`ReactionsCome`), and so has the message itself (`MessagesCome`); what counts as
  loaded or delivered is known up to there (`Reached`). Answers carry nothing that only
  they carry, which is why a lost one does no harm.

`MusicProofs`, from `PlaybackAssumption` (the limits are positive),
`ResponderAssumption` (the bot is nobody else) and `NoneAssumption` (no value is not
a value), for any rooms, members, Tracks and numbers of messages on the way. Three
layers, each an inductive invariant on top of the one before:

- `TheSetIsServed`, `GraceIsNotCutShort`, `NothingLeavesUnnamed`: by `BotInv`, what the
  bot knows by itself. Every event of the Queue keeps its head, starts another Track or
  takes the last one (`Keeps`, `Starts`, `Empties`), and what its effects ask of the
  player follows from which (`DrivenFits`). A report of an end that waits in the chain
  is of the head, which then really finished, or of an entry that is gone (`TaskFits`):
  so no event empties the Queue under a player that still sounds. An expiry that waits
  is of a clock that stopped, or of one replaced since.
- `TheRoomIsServed`, all of `RoomIsServed`: `SocketInv` adds what is on its way. A Set
  sends one join, gets one answer, and then only tells its Queue, the last time as it is
  now (`JoinFits`, `WordFits`); once let in the bot is a member until it is told
  otherwise (`AdmittedFits`); then the last snapshot on its way says who is in the room,
  and whoever does not know the Queue is about to: something is being told, or a
  snapshot that differs from what the bot knows comes, at which it tells the Queue
  (`RosterArrives`, `WordArrives`). The order of the socket is what this rests on.
- `MembershipFollows`: by `MembershipInv` a membership belongs to the Set that joined, or
  the room is about to be left. It assumes that every join is answered in time
  (`~JoinMayTimeOut`), and only that theorem does; `MCMusicTimeout` shows why it must.

`ClientProofs`, for any number of the events the runs bound:

- `RecoveryStaysSingleFlight` (`PeerRecovery`): by `RecoveryInv` a timer fits the phase
  it was set in, a restart has a peer, a broken transport has a grace timer or a restart
  kept for later, and a member who is there without a peer has a rebuild timer. That a
  handler of an earlier generation changes nothing is a case of every handler.
- `RecordingInv` (`PlainChordsAreAccepted`, part of `ShortcutsHoldAlways`), from
  `KeysAssumption`: as long as one press makes one chord, the draft of a recording is
  the chord that is down, so what is recorded is a binding the settings accept.
- `ShortcutsHoldAlways`, `ConsentIsAsked` (`ShortcutSettings`): what the system has
  registered is what the client takes to be active, and that is saved or shown as an
  error (`Registration`). Requests are numbered; what Home hears of, shows and answers
  is never newer than the last, and only the last is pending, so a confirmation of an
  older one does nothing (`ConsentInv`).
- `KeptStateHoldsAlways` (`KeptState`), from `KeptStateAssumption` (a limit of at least
  one Installation): every set of preferences in memory, on disk or being written is one
  the member meant (`KeptInv`). While the timer does not run, each of the two writers of
  placements writes where the windows are, and the file ends up saying so in whatever
  order they open, fill and rename (`Promised` in `PlacesInv`), unless one has failed.
- `AlertsHoldAlways` (`DesktopAlerts`, `CallCues`), from `DesktopAlertsAssumption` (there
  is an account): of each alert ever sent, one show and one answer to it are under way
  as long as the page waits, a close follows once, and what is up is current or about to
  be closed (`ShowFits`, `ToastFits`, `HeldFits`). Two snapshots that follow each other
  say who came between them (`SnapshotsFollow`), across the losses, evictions and
  rejoins of one stay, so a cue is of a change during the stay.
- `PressesBeginOne` (`ShortcutKeys`), from `KeysAssumption` (codes and masks differ):
  the bindings in force never overlap (`BoundApart`), because recording and the settings
  refuse one that does; two bindings a press satisfies at once would overlap, unless both
  sides of the modifier are down. No assumption on what was held when a binding was made.
- `TheKeyDecidesAlways` (`PushToTalk`), from `PushToTalkAssumption` (three different
  keys; the code refuses a conflict): the invariant (`TalkInv`) follows a hold along the
  way it takes. The hook holds an intent only while its key was last seen down; the
  stream of intents ends in a release for whatever the hook no longer holds (`LetsGo`),
  or the page is quiet, or waits out its release delay; the gate follows the page and
  the track follows the gate.
- `SilencedAlwaysStaysSilent` (`VoiceControls`), while `crossed` is not set: `SilentInv`
  says that what a join found is as it was (`JoinFits`), that a deafen on its way is of
  the button as it is and of the room the seat is in (`DeafensFit`), that one request or
  answer of a join is on its way and none about a room that was left is behind it
  (`JoinsFit`), and that nothing is captured in the AFK room (`Quiet`).
- `ExchangesStayOrderly` (`Negotiation`), whoever is the bot: the two sides never
  answer each other's offers at once, and at rest a settled side owes no offer. The invariant (`NegotiationInv`) is about
  what may stand in a queue of calls, and before what. Its core is that the impolite
  side's offer is in one place (`OnePlace`): on its way, in the polite side's calls,
  or answered with the answer on its way or being accepted, and all this time the
  impolite side is in have-local-offer (`OfferIsAwaited`). The impolite side applies
  an offer before it offers itself and never rolls back (`FirstApplies`); an offer
  owed has an exchange before it (`OwedIsAwaited`).

`InstallationProofs`:

- `StatusIsToldAlways` (`Presence`): a timer armed is the timer of the choice in force
  (`PresenceInv`), so only its own expiry ends a Status. What the others are shown is
  suspended (`untold`) from an expiry, or a connection beside idle ones, to the next
  change that reaches them; `MCPresenceExpiry` shows why.
- `PressesGetAnswers` (`MusicRelay`): a press the panel waits for is in one of three
  places (`Owed`): on its way to the server, asked of the bot for a Device that is still
  linked, or answered with the answer on its way. Every step keeps what it does not
  touch (`Grown`, `Cared`); a Device that takes the call over or reconnects starts anew.
- `EveryTrackIsExplained` (`TrackAudio`), from `BufferAssumption` (a buffer holds a
  frame): `HeardRight` ties what the bot heard to what the programs did; `OverRight` says
  that a fetch that is over broke or brought all of the audio, and that one without any
  audio has reported before the player can end the Track; `ReportsRight` carries this
  along the chain of reports. One lemma covers `finish` for every event that calls it.
- `ConnectionsAlwaysEndInOrder` (`BotPresence`), from `BotPresenceAssumption` (finitely
  many servers): who closes a socket knows the detacher of the one responder attached to
  it, or no work of it is left (`ServerFits`, `ClosesFit`); a socket of a sync is heard
  of as soon as it is open (`WireFits`, `OpeningFits`).

What proving corrected. TLC had agreed with each of these on its small instance. Two
plain keys at once are no chord (`PlainStroke`; the run has two plain keys now). A
placement that could not be written is remembered as such (`unsaved`; the run has a
second fault). A refused answer and an event at the same moment, and the scheduled
task's next place, were `CASE`s with overlapping guards in `DesktopUpdates` and
`ListenerMesh`. And `UnseenStaysUnread` needed its exception `FilledAfter`: the answer to
a wave counts as delivered (`useChatController.ts`, `wave`) and may overtake the event
of an earlier message, which is then reported as read before it is shown. The parts of
`MCInstallation` do not combine the two, so only the invariant met it. `ScreenRecovery`
gave a fault too little time (`LongestFault` now counts a repair awaited on each of two
connections), could not have seen a picture that is never asked for again, since that age
stopped at the cooldown, and did not say that repairs keep it. And in `VoiceControls` a
second ordinary room was missing: with it a deafened member who picks another room opens
the microphone at once (`Lifting`, below).

Only model-checked. Liveness and `ENABLED` are beyond the prover: `AbandonedCallEnds`,
the fairness of `ImplementsOneCall`, `BotComesToRest`. Of the invariants, no theorem
states `WorkspaceSettles` (channels and servers). Of `MediaIsAsShown` the two parts above
are proved; `OnlyPutBackIsSent`, `CallIsAsShown` (the buttons and the server's copy agree at rest) and
`SharingSettles` need invariants about every message on its way that are not proved.

## Disagreements found

- `MCVoiceTracks`: a publisher that rejoins its room with the camera off, after a
  reload or on another Device, leaves viewers subscribed to it; only
  `voice:setMediaState` clears what is no longer published.
- `MCMusicTimeout`: `end()` says goodbye only if the join was acknowledged. One that
  is carried out but acknowledged after five seconds leaves the bot in the room.
- `MCMusicEviction`: an eviction waits in the chain and then ends whatever Set is
  current, which a Summon served before it may have replaced.
- `MCMusicPanel`: the bot tells its Queue to a newcomer only when the roster of
  accounts changes. A Device that reconnects in the grace period, or takes its
  account's call over, goes on showing an old Queue.
- `MCSessionSlow`: the persistence time runs from the rotation on the server. When
  the response reaches the browser only near its end (a laptop that slept), the
  next request confirms a cookie that is not on disk yet, and a kill at that
  moment costs the Session.
- `MCPresenceExpiry`: ADR-0035 (line 36) and the comment at `app.ts:761` have the server
  announce that a Status ran out. When its timer fires, `presenceView` already reads the
  Status as Online, so the views before and after are the same (`app.ts:793`) and nobody
  is told: the others go on showing Idle, or nobody at all for who was invisible, until
  another change reaches them.
- `MCNegotiation`: an offer that arrives while the answer to one's own is still being
  applied counts as a collision; it is ignored, or rolled back too late, and its
  sender waits for an answer for good.

## Observations

What was met while modelling and is kept out of the properties, by an excuse of the
module or by leaving it out. File names are those of the components.

Accounts. Banning and then unbanning makes a removed membership active again, a
deleted account's too, whose Sessions stay refused. An idle member's second active
connection is not announced (`members.ts:217`, `app.ts:889`).

Messages. After a reconnect the client does not enter its room again
(`useRealtimeSync.ts:137`); a message posted meanwhile is marked read, unshown, once a
later one arrives. Events between a history's reading and the join are missed. A history
is the newest 100 messages, but comes with the sequence of the whole room
(`messages.ts:291-317`, `api.ts:343`): who returns to more has the rest reported as read
without ever having been shown it (`BeyondTheLimit`). A history that fails empties the
view (`useChatController.ts:129-131`) until the next one is asked for.
Message contents have no version.

Channels and servers. Room lists have no generation, so an older answer may stay, and a
failed refresh is swallowed (`App.tsx:131,135`): the list is wrong until the next one
comes, and a room deleted meanwhile stays open (`dueAt`, `astray`). Likewise for the list of
servers (`unlisted`); that of the start shows the fatal state instead. Who accepts a first
invite and then gets no list is left at the landing. A failed layout save restores the groups of when it began. The answer of a
saved layout that comes after the member moved to another server blanks its list. A
reconnect reads only notifications again. An older server list may replace a newer one
(`overlaid`). A kicked member's client keeps the server in its rail.

Music. A panel whose socket drops with a request pending shows it as pending until it
is closed (`cut`). A sync in the middle of opening, while a loss starts a cycle, leaves
two sockets of one account. A snapshot's peer made during an awaited close suppresses
the recovery request of the polite bot (`overtaken`); a first offer that fails waits
for the next snapshot (`missed`). ffmpeg's exit may be handled before its last output
(`hasty`); a program the system killed is not noticed; a refusal without audio may be
blamed on the bot.

Calls. A deafened member who picks another room by hand joins it undeafened
(`ChannelRail.tsx:530` passes no options), and the microphone opens towards the room that
is being left before the answer has come, though not if an owner muted the member; the
comment at `useVoiceMedia.ts:1341` says that a deafened member must not transmit
(`Lifting`). A camera change overtaken by the other's offer is forgotten by the web client,
not by the bot. A join that fails, times out or is overtaken restores the track's
earlier state, and with it a microphone muted, deafened or owner-muted meanwhile; the
answer to a restored microphone after an owner's unmute overwrites the button; buttons
pressed during a move are undone by its answer; leaving a first join that was not
answered says no goodbye (all `crossed`; `putBack` is the track that
was restored, until it is set again). Two quick presses of camera or screen
leave the first capture live and unheld, or have the refusal of one stop the other
(`hurried`). A capture the browser ends, or a call that is left, before the answer to its
announcement has come: the answer lights the button over a capture that is gone
(`useVoiceMedia.ts:1983-2003`), and it stays on until the next press (`empty`). An answer to a watch later than five
seconds leaves a subscription the watcher does not know (`deaf`), and a repair's
request can undo an unwatch (watcher `crossed`). A frozen picture on a live, unmuted
track is not noticed.

Shortcuts. Only the `Ctrl`-like group is modelled, with its two sides. A standalone
modifier bound while it is down is missed; stopping a recording with Tab or
Enter is always refused (`odd`); left and right of a modifier do not overlap yet start
both holds; a talk press while the settings window is in front cancels a pending
release. The close of a confirmation may answer the request that replaced it.

Windows and updates. A page that becomes ready after its twenty seconds is shown in
front of another's failure (`expired`); a retry may be told an older state (`stale`), and so
is Home when a window cannot be built after the old one was destroyed
(`installation.rs:300-315`): it goes on showing the old Installation as open, and a loading
that was on stays on in the shell; a
link's launch is lost when its window fails and is retried. A Cancel between the end of
a download and its settling is overridden (`late`); an answer older than an event may
be shown after it (`overtaken`); an installer that takes more than ten minutes is not
watched (`unwatched`).

Alerts and files. A show request served after its page reloaded leaves an alert of
nobody until the window closes. Two writers of placements share one temporary file, so
a kill in their overlap falls back to defaults; Home may put a default back from
preferences it has not read again yet. Changes of the last half second before an exit
are lost.

## Not modelled

Translations (`i18n.ts`), React components and style sheets, the wrappers of API calls
and the shared types have no state whose order matters; storage migrations,
configuration, deployment scripts and the HTTP layer are I/O. Of modelled components
these parts are left out: roles, nicknames and directories; message bodies, search,
mentions and pins; several Sessions in one jar; the setup claim of an installation
without an owner; RTP pacing; ICE candidates, device choice and quality controls;
sign-in screens and dialogs; window decoration, the tray's drawing and mouse buttons.

## Plan

The model is complete as far as the lists above go. Left for proofs: `Workspace` and
`ChannelLayout`, then `ScreenSharing` and the rest of `VoiceControls`.
