----------------------------- MODULE MusicRelay -----------------------------
(* The music panel of a member with several Devices, the server that relays   *)
(* its requests and the bot's Queue, and the bot, in one voice room that       *)
(* others share: requests and their answers, the 25 s limit, searches beside    *)
(* the chain, what is published and who is in the room to hear it, connections  *)
(* lost and restored, a call taken over by another Device.                     *)
EXTENDS Naturals, Sequences

CONSTANTS Devices, NoDevice, MaxPresses, MaxMoves, MaxTracks

VARIABLES
    holds,      \* server: the Device that holds the member's place in the room
    lapsing,    \* server: the timer of a lost connection runs
    linked,     \* Devices whose socket is connected
    hearing,    \* Devices whose socket is in the room's channel
    botIn,      \* server: the bot is a member of the room
    botOnline,  \* the bot's process has a socket
    music,      \* the bot's Set: there or not, its roster, its Queue
    minted,     \* Tracks so far
    rosters,    \* the snapshots on their way to the bot
    chained,    \* the requests in the bot's chain
    searches,   \* the chain of searches
    asked,      \* requests the server waits for: each with the Device it is for
    toPage,     \* the messages on their way to a Device
    toServer,   \* a Device's request on its way, or none
    page,       \* what the Device's page holds
    used        \* how many presses and moves

serverVars == <<holds, lapsing, linked, hearing, botIn, asked>>
responderVars == <<botOnline, music, minted, rosters, chained, searches>>
relayVars == <<serverVars, responderVars, toPage, toServer, page, used>>

NoRequest == [kind |-> "none"]
NoQueue == <<>>

\* A panel: in the room or not, whether it shows a bot, the Queue it was last
\* told, what it waits for, the list it offers and the refusal it shows.
FreshPage ==
    [inRoom |-> FALSE, sees |-> FALSE, queue |-> NoQueue, pending |-> 0,
     cut |-> FALSE, offered |-> FALSE, refused |-> FALSE]
Unmounted(p) == [p EXCEPT !.inRoom = FALSE, !.pending = 0, !.cut = FALSE, !.offered = FALSE, !.refused = FALSE]

Moves == used.moves < MaxMoves /\ used' = [used EXCEPT !.moves = @ + 1]

NoSet == [on |-> FALSE, roster |-> "unread", queue |-> NoQueue]

RelayInit ==
    /\ holds = NoDevice /\ lapsing = FALSE /\ linked = Devices /\ hearing = {}
    /\ botIn = FALSE /\ botOnline = TRUE /\ music = NoSet /\ minted = 0
    /\ rosters = <<>> /\ chained = <<>> /\ searches = <<>> /\ asked = {}
    /\ toPage = [d \in Devices |-> <<>>] /\ toServer = [d \in Devices |-> NoRequest]
    /\ page = [d \in Devices |-> FreshPage] /\ used = [presses |-> 0, moves |-> 0]

------------------------
(* What the server sends.  A Device whose socket is gone gets nothing.         *)
Sent(d, messages) == IF d \in linked THEN [toPage EXCEPT ![d] = @ \o messages] ELSE toPage

\* emitVoiceSnapshot: every Device of the server, and the bot.
SnapshotTo(pages, present, heard) ==
    [d \in Devices |-> IF d \in heard THEN Append(pages[d], [kind |-> "snapshot", bot |-> present]) ELSE pages[d]]
Roster(there) == IF there THEN "with" ELSE "without"

\* publishQueue: to the room's channel, from a bot still in the room.
Published(pages, queue) ==
    [d \in Devices |-> IF d \in hearing THEN Append(pages[d], [kind |-> "queue", queue |-> queue]) ELSE pages[d]]

AnswerTo(id, ok, results) == [kind |-> "answer", id |-> id, ok |-> ok, results |-> results]

------------------------
(* The panel.                                                                 *)
\* musicQueueFor, transport.
QueueShown(d) == IF page[d].sees THEN page[d].queue ELSE NoQueue

Requests(d) ==
    [kind: {"add", "search", "leave"}, entry: {0}] \cup
    (IF QueueShown(d) # NoQueue THEN [kind: {"skip"}, entry: {QueueShown(d)[1]}] ELSE {})

\* send: one request at a time, and none without a connection.
Press(d) ==
    /\ page[d].inRoom /\ page[d].pending = 0 /\ d \in linked
    /\ used.presses < MaxPresses /\ used' = [used EXCEPT !.presses = @ + 1]
    /\ \E r \in Requests(d) :
          toServer' = [toServer EXCEPT ![d] = [id |-> used'.presses, for |-> d, kind |-> r.kind, entry |-> r.entry]]
    /\ page' = [page EXCEPT ![d].pending = used'.presses, ![d].cut = FALSE, ![d].refused = FALSE]
    /\ UNCHANGED <<serverVars, responderVars, toPage>>

\* What arrives at a Device; an answer to another press than the last is dropped.
Heard(p, e) ==
    CASE e.kind = "snapshot" -> [p EXCEPT !.sees = e.bot]
      [] e.kind = "queue" -> [p EXCEPT !.queue = e.queue]
      [] e.kind = "joined" -> [p EXCEPT !.inRoom = TRUE]
      [] e.kind = "forceLeave" -> Unmounted(p)
      [] e.kind = "answer" ->
             IF e.id # p.pending THEN p
             ELSE IF e.ok THEN [p EXCEPT !.pending = 0, !.refused = FALSE, !.offered = e.results]
             ELSE [p EXCEPT !.pending = 0, !.refused = TRUE]

Hears(d) ==
    /\ toPage[d] # <<>> /\ toPage' = [toPage EXCEPT ![d] = Tail(@)]
    /\ page' = [page EXCEPT ![d] = Heard(@, Head(toPage[d]))]
    /\ UNCHANGED <<serverVars, responderVars, toServer, used>>

------------------------
(* forwardMusicCommand.                                                       *)
\* Mutant: nobody is told that the bot did not answer.
TimedOutQuietly(request) == toPage

\* askBot: no answer within botAckTimeoutMs.
TimedOut(request) == Sent(request.for, <<AnswerTo(request.id, FALSE, FALSE)>>)

Forward(d) ==
    LET r == toServer[d] IN
    /\ r # NoRequest
    /\ toServer' = [toServer EXCEPT ![d] = NoRequest]
    /\ IF holds # d \/ ~botOnline
       THEN /\ toPage' = Sent(d, <<AnswerTo(r.id, FALSE, FALSE)>>)
            /\ UNCHANGED <<asked, chained, searches>>
       ELSE /\ asked' = asked \cup {[id |-> r.id, for |-> d]}
            /\ IF r.kind = "search" THEN searches' = Append(searches, r) /\ UNCHANGED chained
               ELSE chained' = Append(chained, r) /\ UNCHANGED searches
            /\ UNCHANGED toPage
    /\ UNCHANGED <<holds, lapsing, linked, hearing, botIn, botOnline, music, minted, rosters, page, used>>

Timeout ==
    \E request \in asked :
        /\ asked' = asked \ {request}
        /\ toPage' = TimedOut(request)
        /\ UNCHANGED <<holds, lapsing, linked, hearing, botIn, responderVars, toServer, page, used>>

\* The bot's answer is relayed if the server still waits for it.
Relayed(r, pages, ok, results) ==
    LET request == [id |-> r.id, for |-> r.for] IN
    /\ asked' = asked \ {request}
    /\ toPage' = IF request \in asked THEN [pages EXCEPT ![r.for] = Append(@, AnswerTo(r.id, ok, results))] ELSE pages

------------------------
(* The bot.                                                                   *)
Searched ==
    /\ searches # <<>> /\ searches' = Tail(searches)
    /\ \E found \in BOOLEAN : Relayed(Head(searches), toPage, found, found)
    /\ UNCHANGED <<holds, lapsing, linked, hearing, botIn, botOnline, music, minted, rosters, chained, toServer, page, used>>

\* onListenersChanged: somebody came or went.
Tells(old, there) == old # there

ReadSnapshot ==
    /\ rosters # <<>> /\ rosters' = Tail(rosters)
    /\ music' = IF music.on THEN [music EXCEPT !.roster = Head(rosters)] ELSE music
    /\ toPage' = IF music.on /\ Tells(music.roster, Head(rosters)) THEN Published(toPage, music.queue) ELSE toPage
    /\ UNCHANGED <<serverVars, botOnline, minted, chained, searches, toServer, page, used>>

\* add: the Track is found or not; the bot joins if it is not in the room.
AddTrack(r) ==
    \/ /\ minted < MaxTracks /\ minted' = minted + 1
       /\ botIn' = TRUE
       /\ music' = [music EXCEPT !.on = TRUE, !.queue = Append(@, minted + 1)]
       /\ LET seen == IF music.on THEN toPage ELSE SnapshotTo(toPage, TRUE, linked)
          IN Relayed(r, Published(seen, music'.queue), TRUE, FALSE)
       /\ rosters' = IF music.on THEN rosters ELSE Append(rosters, Roster(holds # NoDevice))
    \/ Relayed(r, toPage, FALSE, FALSE) /\ UNCHANGED <<botIn, music, minted, rosters>>

SkipTrack(r) ==
    LET skips == music.on /\ music.queue # NoQueue /\ music.queue[1] = r.entry IN
    /\ music' = IF skips THEN [music EXCEPT !.queue = Tail(@)] ELSE music
    /\ Relayed(r, IF skips THEN Published(toPage, Tail(music.queue)) ELSE toPage, TRUE, FALSE)
    /\ UNCHANGED <<botIn, minted, rosters>>

\* endCurrentSet: the room is told of an empty Queue, and the bot leaves.
EndMusic(r) ==
    /\ music' = NoSet /\ botIn' = (botIn /\ ~music.on)
    /\ Relayed(r, IF music.on THEN SnapshotTo(Published(toPage, NoQueue), FALSE, linked) ELSE toPage, TRUE, FALSE)
    /\ UNCHANGED <<minted, rosters>>

BotServes ==
    /\ chained # <<>> /\ chained' = Tail(chained)
    /\ LET e == Head(chained) IN
       \/ e.kind = "add" /\ AddTrack(e)
       \/ e.kind = "skip" /\ SkipTrack(e)
       \/ e.kind = "leave" /\ EndMusic(e)
    /\ UNCHANGED <<holds, lapsing, linked, hearing, botOnline, searches, toServer, page, used>>

\* The Track ends by itself.
TrackEnds ==
    /\ music.on /\ music.queue # NoQueue
    /\ music' = [music EXCEPT !.queue = Tail(@)]
    /\ toPage' = Published(toPage, Tail(music.queue))
    /\ UNCHANGED <<serverVars, botOnline, minted, rosters, chained, searches, toServer, page, used>>

\* The bot's connection is lost: what it was asked is not answered, its Set is
\* over; another takes its place, and the old membership lapses.
BotLost ==
    /\ botOnline /\ botOnline' = FALSE /\ Moves
    /\ music' = NoSet /\ rosters' = <<>> /\ chained' = <<>> /\ searches' = <<>>
    /\ UNCHANGED <<serverVars, minted, toPage, toServer, page>>

BotBack ==
    /\ ~botOnline /\ botOnline' = TRUE
    /\ UNCHANGED <<serverVars, music, minted, rosters, chained, searches, toPage, toServer, page, used>>

BotLapses ==
    /\ botIn /\ ~music.on /\ botIn' = FALSE
    /\ toPage' = SnapshotTo(toPage, FALSE, linked)
    /\ UNCHANGED <<holds, lapsing, linked, hearing, asked, responderVars, toServer, page, used>>

------------------------
(* The member's place in the room.                                            *)
Told(there) == IF botIn /\ botOnline THEN Append(rosters, Roster(there)) ELSE rosters

\* voice:join, the first or again after a lost connection; the Device that held
\* the call is told to leave.
TakesPlace(d, reached) ==
    LET old == holds
        pages == IF old \in reached \ {d} THEN [toPage EXCEPT ![old] = Append(@, [kind |-> "forceLeave"])] ELSE toPage
    IN /\ holds' = d /\ lapsing' = FALSE /\ hearing' = {d}
       /\ toPage' = SnapshotTo([pages EXCEPT ![d] = Append(@, [kind |-> "joined"])], botIn, reached)
       /\ rosters' = Told(TRUE)

EntersRoom(d) ==
    /\ d \in linked /\ ~page[d].inRoom /\ toPage[d] = <<>> /\ Moves
    /\ TakesPlace(d, linked)
    /\ UNCHANGED <<linked, botIn, asked, botOnline, music, minted, chained, searches, toServer, page>>

LeaveRoom(d) ==
    /\ d \in linked /\ page[d].inRoom /\ Moves
    /\ page' = [page EXCEPT ![d] = Unmounted(@)]
    /\ hearing' = hearing \ {d}
    /\ IF holds = d
       THEN holds' = NoDevice /\ toPage' = SnapshotTo(toPage, botIn, linked) /\ rosters' = Told(FALSE)
       ELSE UNCHANGED <<holds, toPage, rosters>>
    /\ UNCHANGED <<lapsing, linked, botIn, asked, botOnline, music, minted, chained, searches, toServer>>

\* A socket that goes takes with it what was under way; the page keeps what it
\* shows, the acknowledgement it waits for included.
Cut(d) ==
    /\ d \in linked /\ Moves /\ linked' = linked \ {d} /\ hearing' = hearing \ {d}
    /\ lapsing' = (lapsing \/ holds = d)
    /\ toPage' = [toPage EXCEPT ![d] = <<>>] /\ toServer' = [toServer EXCEPT ![d] = NoRequest]
    /\ asked' = {request \in asked : request.for # d}
    /\ page' = [page EXCEPT ![d].cut = page[d].pending # 0]
    /\ UNCHANGED <<holds, botIn, responderVars>>

Lapse ==
    /\ lapsing /\ lapsing' = FALSE /\ holds \notin linked
    /\ holds' = NoDevice /\ toPage' = SnapshotTo(toPage, botIn, linked) /\ rosters' = Told(FALSE)
    /\ UNCHANGED <<linked, hearing, botIn, asked, botOnline, music, minted, chained, searches, toServer, page, used>>

\* The connection is back; a page that was in the room joins again.
Back(d) ==
    /\ d \notin linked /\ linked' = linked \cup {d}
    /\ IF page[d].inRoom THEN TakesPlace(d, linked \cup {d}) ELSE UNCHANGED <<holds, lapsing, hearing, toPage, rosters>>
    /\ UNCHANGED <<botIn, asked, botOnline, music, minted, chained, searches, toServer, page, used>>

\* The deadline for coming back passes.
GivesUp(d) ==
    /\ d \notin linked /\ page[d].inRoom /\ page' = [page EXCEPT ![d] = Unmounted(@)]
    /\ UNCHANGED <<serverVars, responderVars, toPage, toServer, used>>

RelayNext ==
    \/ \E d \in Devices :
          Press(d) \/ Hears(d) \/ Forward(d) \/ EntersRoom(d) \/ LeaveRoom(d) \/ Cut(d) \/ Back(d) \/ GivesUp(d)
    \/ Timeout \/ Searched \/ ReadSnapshot \/ BotServes \/ TrackEnds \/ BotLost \/ BotBack \/ BotLapses \/ Lapse

RelaySpec == RelayInit /\ [][RelayNext]_relayVars

------------------------
Arrived == rosters = <<>> /\ chained = <<>> /\ \A d \in Devices : toPage[d] = <<>>

\* Everyone who looks at the panel in the room sees the Queue the bot plays: the
\* bot says it again to whoever comes in.
PanelsAgree ==
    Arrived /\ music.on =>
        \A d \in hearing : page[d].inRoom => QueueShown(d) = music.queue

\* A member waits for an answer only while one is being made or is on its way,
\* whatever becomes of the bot and of the place in the room -- unless the
\* member's own connection was lost meanwhile.
PressesAreAnswered ==
    \A d \in Devices :
        page[d].pending # 0 /\ ~page[d].cut =>
            \/ toServer[d] # NoRequest
            \/ \E i \in DOMAIN toPage[d] : toPage[d][i].kind \in {"answer", "forceLeave"}
            \/ \E request \in asked : request.for = d

=============================================================================
