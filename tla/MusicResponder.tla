--------------------------- MODULE MusicResponder ---------------------------
(***************************************************************************)
(* The imperative half of the Music bot for one server: apps/bot/src/       *)
(* music.ts with set.ts and player.ts, and the part of the Voxly server it   *)
(* talks to (voice.ts, music.ts).                                           *)
(*                                                                         *)
(* Everything that changes the Set takes its turn in one promise chain.  The *)
(* head of `chain` is the request being served and `step` is the await it is *)
(* at; between two awaits the code runs alone.  What interleaves with an      *)
(* await: snapshots and evictions from the server, the player reaching the   *)
(* end of a Track, a fetch giving up, the Grace period going off.            *)
(*                                                                         *)
(* Bot and server exchange messages over one socket, in order each way.      *)
(***************************************************************************)
EXTENDS Playback, FiniteSets

CONSTANTS
    Rooms,
    Listeners,          \* members who may be in a voice room
    Watchers,           \* those whose screen is followed
    Bot,                \* the bot's own account, as a snapshot lists it
    JoinMayTimeOut,     \* whether `voice:join` may go unanswered for 5 s
    CommandBound,       \* bounds on what members and the owner do
    MoveBound,
    EvictionBound,
    MuteBound,
    None

ASSUME ResponderAssumption ==
    /\ JoinMayTimeOut \in BOOLEAN
    /\ {CommandBound, MoveBound, EvictionBound, MuteBound} \subseteq Nat
    /\ Bot \notin Listeners
    /\ Watchers \subseteq Listeners

\* A Set with its player, a fetch, a Grace timer; what waits in the chain; what the
\* bot sends and what it is sent.
Sets == [id: Nat, room: Rooms, joined: BOOLEAN, ended: BOOLEAN, roster: SUBSET (Listeners \cup {Bot}),
         requested: BOOLEAN, silenced: BOOLEAN, track: Nat \cup {None},
         finished: BOOLEAN, sounding: BOOLEAN]
Fetches == [entry: Nat, reported: BOOLEAN]
Timers == [set: Nat, wait: Nat, running: BOOLEAN]
MemberTasks == [kind: {"add", "play", "stop", "leave"}, room: Rooms]
                   \cup [kind: {"skip", "remove"}, room: Rooms, entry: Nat]
Tasks == MemberTasks \cup [kind: {"ended", "failed"}, set: Nat, entry: Nat]
             \cup [kind: {"grace"}, set: Nat, wait: Nat] \cup [kind: {"evicted"}, set: Nat]
Queues == [entries: Seq(Nat), playing: BOOLEAN]
Requests == [kind: {"join"}, set: Nat, room: Rooms] \cup [kind: {"leave"}, room: Rooms]
                \cup [kind: {"publish"}, room: Rooms, queue: Queues]
Messages == [kind: {"command"}, task: MemberTasks] \cup [kind: {"forceLeave"}, room: Rooms]
                \cup [kind: {"snapshot"}, room: Rooms, roster: SUBSET (Listeners \cup {Bot}), mic: BOOLEAN]
                \cup [kind: {"joinAck"}, set: Nat, ok: BOOLEAN]

ASSUME NoneAssumption == None \notin Rooms \cup Nat \cup Sets \cup Fetches \cup Timers

VARIABLES
    chain,      \* the promise chain `queue`: requests waiting, the served one first
    step,       \* the await the served request is at
    set,        \* the current Set with its player, or None
    closing,    \* the room a Set being torn down will leave, or None
    playback,   \* the Queue's state
    audio,      \* the live fetch, and whether it reported a failure; or None
    timer,      \* graceTimer: the wait it belongs to and whether it still runs
    waits,      \* graceWaitsStarted
    minted,     \* Sets created and entries minted so far
    toServer, toBot,    \* the socket
    botRoom,    \* server: the voice room the bot is a member of
    muted,      \* server: the owner muted the bot
    location,   \* server: the voice room each Listener is in
    panel,      \* panel[u][r]: what u's client was last told of the Queue of r
    spent       \* how much of each bound was used

botVars == <<chain, step, set, closing, playback, audio, timer, waits, minted>>
serverVars == <<botRoom, muted, location, panel>>
vars == <<botVars, serverVars, toServer, toBot, spent>>

------------------------
NewSet(id, r) ==
    [id |-> id, room |-> r, joined |-> FALSE, ended |-> FALSE, roster |-> {},
     requested |-> FALSE, silenced |-> FALSE,
     track |-> None, finished |-> FALSE, sounding |-> FALSE]

Task == Head(chain)
Served(kind) == chain # <<>> /\ Task.kind = kind
SetIn(r) == set # None /\ set.room = r
SetIs(id) == set # None /\ set.id = id
Done == chain' = Tail(chain) /\ step' = "ready"

PublishedQueue(r, st) ==
    [kind |-> "publish", room |-> r,
     queue |-> [entries |-> st.entries, playing |-> st.playing]]

\* Mutant: the player does not know it was silenced.
SyncedDespiteMute(current) ==
    [current EXCEPT !.sounding =
        current.requested /\ current.track # None /\ ~current.finished]

\* syncPlayer: the player sounds when the Queue asked for it and the server has
\* left the bot a microphone.  A Track that reached its end is not replayed.
Synced(current) ==
    [current EXCEPT !.sounding = /\ current.requested
                                 /\ ~current.silenced
                                 /\ current.track # None
                                 /\ ~current.finished]

\* The effects that reach the Set's player: load, play and stop.
Driven(current, fx, st) ==
    LET loaded == IF "load" \in fx
                  THEN [current EXCEPT !.track = Head(st.entries), !.finished = FALSE]
                  ELSE current
    IN  IF "play" \in fx THEN Synced([loaded EXCEPT !.requested = TRUE])
        ELSE IF "stop" \in fx THEN Synced([loaded EXCEPT !.requested = FALSE])
        ELSE loaded

\* advance and applyEffects for the Set `current`; `first` was sent just before.
Advance(current, result, first) ==
    LET st == result.state
        fx == result.effects
    IN  /\ playback' = st
        /\ set' = Driven(current, fx, st)
        /\ audio' = IF "load" \in fx THEN [entry |-> Head(st.entries), reported |-> FALSE]
                    ELSE IF "unload" \in fx THEN None
                    ELSE audio
        /\ waits' = IF "startGracePeriod" \in fx THEN waits + 1 ELSE waits
        /\ timer' = IF "startGracePeriod" \in fx
                    THEN [set |-> current.id, wait |-> waits + 1, running |-> TRUE]
                    ELSE IF "cancelGracePeriod" \in fx THEN None
                    ELSE timer
        /\ toServer' = toServer \o first
                \o (IF "publish" \in fx THEN <<PublishedQueue(current.room, st)>> ELSE <<>>)

\* endCurrentSet up to its await: the Queue is cleared and the room told while
\* the bot is still in it, then the player and the peers go.
EndSet ==
    LET result == Cleared(playback)
    IN  /\ set # None
        /\ set' = None
        /\ playback' = result.state
        /\ audio' = None
        /\ timer' = IF "cancelGracePeriod" \in result.effects THEN None ELSE timer
        /\ toServer' = toServer \o (IF "publish" \in result.effects
                                    THEN <<PublishedQueue(set.room, result.state)>>
                                    ELSE <<>>)
        /\ closing' = IF set.joined /\ ~set.ended THEN set.room ELSE None
        /\ UNCHANGED <<waits, minted>>

\* endCurrentSet with no Set.
ForgetQueue ==
    /\ set = None
    /\ playback' = EmptyPlayback
    /\ audio' = None
    /\ UNCHANGED <<set, closing, timer, waits, minted, toServer>>

------------------------
(* What members ask for, through the server: being in the room is the whole   *)
(* permission.                                                              *)

Ask(r, task) ==
    /\ spent.command < CommandBound
    /\ \E u \in Listeners : location[u] = r
    /\ toBot' = Append(toBot, [kind |-> "command", task |-> task])
    /\ spent' = [spent EXCEPT !.command = @ + 1]
    /\ UNCHANGED <<botVars, serverVars, toServer>>

Command ==
    \E r \in Rooms :
        \/ \E k \in {"add", "play", "stop", "leave"} : Ask(r, [kind |-> k, room |-> r])
        \/ \E k \in {"skip", "remove"} : \E e \in 1..minted.entries :
                Ask(r, [kind |-> k, room |-> r, entry |-> e])

------------------------
(* The served request.                                                      *)

\* add, up to resolving the link.  Only the Queue the Track would join counts.
AddBegins ==
    /\ Served("add")
    /\ step = "ready"
    /\ IF SetIn(Task.room) /\ AdditionRefused(playback)
       THEN Done
       ELSE step' = "resolving" /\ UNCHANGED chain
    /\ UNCHANGED <<set, closing, playback, audio, timer, waits, minted,
                   serverVars, toServer, toBot, spent>>

\* The extractor could not resolve the link: nothing was summoned.
AddUnresolved ==
    /\ Served("add")
    /\ step = "resolving"
    /\ Done
    /\ UNCHANGED <<set, closing, playback, audio, timer, waits, minted,
                   serverVars, toServer, toBot, spent>>

\* It did, and summon asks for the Set of the room: it is there, or another
\* room's is ended first, or there is none.
AddResolved ==
    /\ Served("add")
    /\ step = "resolving"
    /\ \/ /\ SetIn(Task.room)
          /\ step' = "adding"
          /\ UNCHANGED <<set, closing, playback, audio, timer, waits, minted, toServer>>
       \/ /\ set # None
          /\ set.room # Task.room
          /\ EndSet
          /\ step' = "makingWay"
       \/ /\ set = None
          /\ step' = "configuring"
          /\ UNCHANGED <<set, closing, playback, audio, timer, waits, minted, toServer>>
    /\ UNCHANGED <<chain, serverVars, toBot, spent>>

\* loadRtcConfig answered or failed, which is not fatal; then the Set is held,
\* and begun by joining the room.
Begin ==
    /\ step = "configuring"
    /\ set' = NewSet(minted.sets + 1, Task.room)
    /\ minted' = [minted EXCEPT !.sets = @ + 1]
    /\ toServer' = Append(toServer, [kind |-> "join", set |-> minted.sets + 1,
                                     room |-> Task.room])
    /\ step' = "joining"
    /\ UNCHANGED <<chain, closing, playback, audio, timer, waits, serverVars, toBot, spent>>

\* Five seconds without an acknowledgement: begin rejects, and the recovery of
\* the chain ends the Set.
JoinTimesOut ==
    /\ JoinMayTimeOut
    /\ step = "joining"
    /\ EndSet
    /\ step' = "ending"
    /\ UNCHANGED <<chain, serverVars, toBot, spent>>

\* Mutant: the failure of a request is not caught.
NoRecovery == step = "refused" /\ FALSE /\ UNCHANGED vars

\* After a refused join: begin ended the Set and threw.
Recover ==
    /\ step = "refused"
    /\ EndSet
    /\ step' = "ending"
    /\ UNCHANGED <<chain, serverVars, toBot, spent>>

\* The Track joins the Queue of the Set summon returned.
AddEnds ==
    /\ step = "adding"
    /\ Advance(set, Added(playback, minted.entries + 1), <<>>)
    /\ minted' = [minted EXCEPT !.entries = @ + 1]
    /\ Done
    /\ UNCHANGED <<closing, serverVars, toBot, spent>>

\* apply, for the requests that need no await, and the reports of the player
\* and the fetch.  Each names the room, or the Set, it is about.
Result ==
    CASE Task.kind = "play" -> Resumed(playback)
      [] Task.kind = "stop" -> Paused(playback)
      [] Task.kind = "skip" -> Skipped(playback, Task.entry)
      [] Task.kind = "remove" -> Removed(playback, Task.entry)
      [] Task.kind = "ended" -> Ended(playback, Task.entry)
      [] Task.kind = "failed" -> Failed(playback, Task.entry)

About(task) ==
    IF task.kind \in {"ended", "failed"} THEN SetIs(task.set) ELSE SetIn(task.room)

ApplyAtOnce ==
    /\ chain # <<>>
    /\ step = "ready"
    /\ Task.kind \in {"play", "stop", "skip", "remove", "ended", "failed"}
    /\ IF About(Task)
       THEN Advance(set, Result, <<>>)
       ELSE UNCHANGED <<set, playback, audio, timer, waits, toServer>>
    /\ Done
    /\ UNCHANGED <<closing, minted, serverVars, toBot, spent>>

\* Mutant: an expiry does not ask which wait it belongs to.
EndsTheSetForAnyWait(task) ==
    \/ task.kind = "leave" /\ SetIn(task.room)
    \/ task.kind = "grace" /\ SetIs(task.set) /\ playback.awaitingReturn
    \/ task.kind = "evicted" /\ set # None

\* A leave for the Set's room, a Grace period that is still the one running, or
\* an eviction -- which asks nothing more once it is in the chain.
EndsTheSet(task) ==
    \/ task.kind = "leave" /\ SetIn(task.room)
    \/ /\ task.kind = "grace"
       /\ SetIs(task.set)
       /\ task.wait = waits
       /\ playback.awaitingReturn
    \/ task.kind = "evicted" /\ set # None

ApplyEnding ==
    /\ chain # <<>>
    /\ step = "ready"
    /\ EndsTheSet(Task)
    /\ EndSet
    /\ step' = "ending"
    /\ UNCHANGED <<chain, serverVars, toBot, spent>>

ApplyNothing ==
    /\ chain # <<>>
    /\ step = "ready"
    /\ Task.kind \in {"leave", "grace", "evicted"}
    /\ ~EndsTheSet(Task)
    /\ Done
    /\ \/ Task.kind = "evicted" /\ ForgetQueue
       \/ /\ Task.kind # "evicted"
          /\ UNCHANGED <<set, closing, playback, audio, timer, waits, minted, toServer>>
    /\ UNCHANGED <<serverVars, toBot, spent>>

\* Mutant: a Set that is over never leaves its room.
ClosedInPlace ==
    /\ step \in {"makingWay", "ending"}
    /\ closing' = None
    /\ IF step = "makingWay" THEN step' = "configuring" /\ UNCHANGED chain ELSE Done
    /\ UNCHANGED <<set, playback, audio, timer, waits, minted, toServer, serverVars, toBot, spent>>

\* mesh.stop settled: a Set that had joined says goodbye.
Closed ==
    /\ step \in {"makingWay", "ending"}
    /\ toServer' = IF closing = None THEN toServer
                   ELSE Append(toServer, [kind |-> "leave", room |-> closing])
    /\ closing' = None
    /\ IF step = "makingWay"
       THEN step' = "configuring" /\ UNCHANGED chain
       ELSE Done
    /\ UNCHANGED <<set, playback, audio, timer, waits, minted, serverVars, toBot, spent>>

------------------------
(* What reaches the bot between two awaits.                                 *)

\* The player ran out of a complete Track.
PlayerFinishes ==
    /\ set # None
    /\ set.sounding
    /\ set' = [set EXCEPT !.sounding = FALSE, !.finished = TRUE]
    /\ chain' = IF audio = None THEN chain
                ELSE Append(chain, [kind |-> "ended", set |-> set.id, entry |-> audio.entry])
    /\ UNCHANGED <<step, closing, playback, audio, timer, waits, minted,
                   serverVars, toServer, toBot, spent>>

\* The fetch gave up on its Track, which it reports once.
FetchFails ==
    /\ set # None
    /\ audio # None
    /\ ~audio.reported
    /\ audio' = [audio EXCEPT !.reported = TRUE]
    /\ chain' = Append(chain, [kind |-> "failed", set |-> set.id, entry |-> audio.entry])
    /\ UNCHANGED <<step, set, closing, playback, timer, waits, minted,
                   serverVars, toServer, toBot, spent>>

\* The Grace period goes off, and its question takes its turn in the chain.
GraceFires ==
    /\ timer # None
    /\ timer.running
    /\ timer' = [timer EXCEPT !.running = FALSE]
    /\ chain' = Append(chain, [kind |-> "grace", set |-> timer.set, wait |-> timer.wait])
    /\ UNCHANGED <<step, set, closing, playback, audio, waits, minted,
                   serverVars, toServer, toBot, spent>>

\* Whoever just walked in has no Queue yet.
Welcome == <<PublishedQueue(set.room, playback)>>

\* A snapshot, live or an observer's: first the microphone, if the bot is
\* listed, then the roster -- published to whoever walked in, and told to the
\* Queue.  A Set that is over reads none.
Snapshot(message) ==
    LET moderated == Bot \in message.roster /\ message.mic = set.silenced
        current == IF moderated THEN Synced([set EXCEPT !.silenced = ~@]) ELSE set
        told == [current EXCEPT !.roster = message.roster]
        result == IF message.roster \subseteq {Bot} THEN RoomEmptied(playback)
                                                   ELSE ListenerReturned(playback)
    IN  /\ IF ~SetIn(message.room) \/ set.ended
           THEN UNCHANGED <<set, playback, audio, timer, waits, toServer>>
           ELSE IF message.roster = set.roster
           THEN /\ set' = current
                /\ UNCHANGED <<playback, audio, timer, waits, toServer>>
           ELSE Advance(told, result, Welcome)
        /\ UNCHANGED <<chain, step>>

\* onForceLeave: the room is compared now, the Set is ended when its turn comes.
ForceLeave(message) ==
    /\ chain' = IF SetIn(message.room)
                THEN Append(chain, [kind |-> "evicted", set |-> set.id])
                ELSE chain
    /\ UNCHANGED <<step, set, playback, audio, timer, waits, toServer>>

\* The acknowledgement of `voice:join`; one that comes too late finds nobody.
JoinAck(message) ==
    /\ IF step = "joining" /\ SetIs(message.set)
       THEN IF message.ok
            THEN /\ set' = [set EXCEPT !.joined = TRUE]
                 /\ step' = "adding"
            ELSE /\ set' = [set EXCEPT !.ended = TRUE, !.sounding = FALSE]
                 /\ step' = "refused"
       ELSE UNCHANGED <<set, step>>
    /\ UNCHANGED <<chain, playback, audio, timer, waits, toServer>>

\* handle: a request takes its turn.
Enqueue(task) ==
    /\ chain' = Append(chain, task)
    /\ UNCHANGED <<step, set, playback, audio, timer, waits, toServer>>

BotReceives ==
    /\ toBot # <<>>
    /\ \/ Head(toBot).kind = "command" /\ Enqueue(Head(toBot).task)
       \/ Head(toBot).kind = "snapshot" /\ Snapshot(Head(toBot))
       \/ Head(toBot).kind = "forceLeave" /\ ForceLeave(Head(toBot))
       \/ Head(toBot).kind = "joinAck" /\ JoinAck(Head(toBot))
    /\ toBot' = Tail(toBot)
    /\ UNCHANGED <<closing, minted, serverVars, spent>>

------------------------
(* The server.                                                              *)

ListenersIn(where, r) == {u \in Listeners : where[u] = r}

\* emitVoiceSnapshot: live to the room, redacted to the rest of the server, the
\* bot among them.
SnapshotOf(r, where, bot, isMuted) ==
    <<[kind |-> "snapshot", room |-> r,
       roster |-> ListenersIn(where, r) \cup {b \in {Bot} : bot = r},
       mic |-> bot = r /\ ~isMuted]>>

\* The same for a room that may be no room at all.
SnapshotIfAny(r, where, bot, isMuted) ==
    IF r = None THEN <<>> ELSE SnapshotOf(r, where, bot, isMuted)

JoinsServer(message) ==
    LET r == message.room
        left == IF botRoom = r THEN None ELSE botRoom
    IN  /\ botRoom' = r
        /\ toBot' = toBot \o SnapshotIfAny(left, location, r, muted)
                          \o <<[kind |-> "joinAck", set |-> message.set, ok |-> TRUE]>>
                          \o SnapshotOf(r, location, r, muted)
        /\ UNCHANGED panel

\* The room or the membership is gone.
JoinRefused(message) ==
    /\ toBot' = Append(toBot, [kind |-> "joinAck", set |-> message.set, ok |-> FALSE])
    /\ UNCHANGED <<botRoom, panel>>

LeavesServer(message) ==
    /\ IF botRoom = message.room
       THEN botRoom' = None
            /\ toBot' = toBot \o SnapshotOf(message.room, location, None, muted)
       ELSE UNCHANGED <<botRoom, toBot>>
    /\ UNCHANGED panel

\* publishQueue: only from a bot still in the room, to whoever is in it.
Publishes(message) ==
    /\ panel' = [u \in Watchers |->
                    IF botRoom = message.room /\ location[u] = message.room
                    THEN [panel[u] EXCEPT ![message.room] = message.queue]
                    ELSE panel[u]]
    /\ UNCHANGED <<toBot, botRoom>>

ServerReceives ==
    /\ toServer # <<>>
    /\ \/ Head(toServer).kind = "join" /\ JoinsServer(Head(toServer))
       \/ Head(toServer).kind = "join" /\ JoinRefused(Head(toServer))
       \/ Head(toServer).kind = "leave" /\ LeavesServer(Head(toServer))
       \/ Head(toServer).kind = "publish" /\ Publishes(Head(toServer))
    /\ toServer' = Tail(toServer)
    /\ UNCHANGED <<botVars, muted, location, spent>>

\* A Listener joins, leaves or changes rooms.
Move(u, r) ==
    LET where == [location EXCEPT ![u] = r]
    IN  /\ spent.move < MoveBound
        /\ location[u] # r
        /\ location' = where
        /\ spent' = [spent EXCEPT !.move = @ + 1]
        /\ toBot' = toBot \o SnapshotIfAny(location[u], where, botRoom, muted)
                          \o SnapshotIfAny(r, where, botRoom, muted)
        /\ UNCHANGED <<botVars, botRoom, muted, panel, toServer>>

\* The owner disconnects the bot, or deletes the room underneath it -- which
\* sends no snapshot.
Evict ==
    /\ spent.eviction < EvictionBound
    /\ botRoom # None
    /\ botRoom' = None
    /\ \E told \in {SnapshotOf(botRoom, location, None, muted), <<>>} :
            toBot' = toBot \o told \o <<[kind |-> "forceLeave", room |-> botRoom]>>
    /\ spent' = [spent EXCEPT !.eviction = @ + 1]
    /\ UNCHANGED <<botVars, muted, location, panel, toServer>>

\* The owner mutes or unmutes the bot.
Moderate ==
    /\ spent.mute < MuteBound
    /\ muted' = ~muted
    /\ toBot' = toBot \o SnapshotIfAny(botRoom, location, botRoom, ~muted)
    /\ spent' = [spent EXCEPT !.mute = @ + 1]
    /\ UNCHANGED <<botVars, botRoom, location, panel, toServer>>

------------------------
Init ==
    /\ chain = <<>>
    /\ step = "ready"
    /\ set = None
    /\ closing = None
    /\ playback = EmptyPlayback
    /\ audio = None
    /\ timer = None
    /\ waits = 0
    /\ minted = [sets |-> 0, entries |-> 0]
    /\ toServer = <<>>
    /\ toBot = <<>>
    /\ botRoom = None
    /\ muted \in {FALSE, MuteBound > 0}
    /\ location \in [Listeners -> Rooms \cup {None}]
    /\ panel = [u \in Watchers |-> [r \in Rooms |-> [entries |-> <<>>, playing |-> FALSE]]]
    /\ spent = [command |-> 0, move |-> 0, eviction |-> 0, mute |-> 0]

ChainNext ==
    \/ AddBegins \/ AddUnresolved \/ AddResolved \/ Begin \/ JoinTimesOut \/ Recover
    \/ AddEnds \/ ApplyAtOnce \/ ApplyEnding \/ ApplyNothing \/ Closed

OwnerNext == Evict \/ Moderate \/ \E u \in Listeners, r \in Rooms \cup {None} : Move(u, r)

Next ==
    \/ Command \/ ChainNext
    \/ PlayerFinishes \/ FetchFails \/ GraceFires \/ BotReceives
    \/ ServerReceives \/ OwnerNext

Spec == Init /\ [][Next]_vars

\* The event loop serves its chain, the socket delivers, and timers go off.
FairSpec ==
    Spec /\ WF_vars(ChainNext) /\ WF_vars(BotReceives) /\ WF_vars(ServerReceives)
         /\ WF_vars(GraceFires)

------------------------
(* What must never go wrong.                                                *)

Steps == {"ready", "resolving", "makingWay", "configuring", "joining", "adding",
          "refused", "ending"}

TypeOK ==
    /\ chain \in Seq(Tasks)
    /\ step \in Steps
    /\ set \in Sets \cup {None}
    /\ closing \in Rooms \cup {None}
    /\ playback \in PlaybackState
    /\ audio \in Fetches \cup {None}
    /\ timer \in Timers \cup {None}
    /\ waits \in Nat
    /\ minted \in [sets: Nat, entries: Nat]
    /\ toServer \in Seq(Requests)
    /\ toBot \in Seq(Messages)
    /\ botRoom \in Rooms \cup {None}
    /\ muted \in BOOLEAN
    /\ location \in [Listeners -> Rooms \cup {None}]
    /\ panel \in [Watchers -> [Rooms -> Queues]]

\* The player makes a sound exactly when the Queue plays and no mute is in
\* force, and the sound is the Track at the head: whatever order skips, ends,
\* failures, pauses and mutes come in, a room never hears a Track the Queue has
\* moved past, nor silence where the Queue says it plays.
PlayerFollowsTheQueue ==
    set # None /\ ~set.ended =>
        /\ set.sounding <=> playback.playing /\ ~set.silenced /\ ~set.finished
        /\ playback.playing => set.track = Head(playback.entries)

\* One fetch runs at a time and it is for the head of the Queue: a Track left
\* behind is not being downloaded (releaseAudio).
FetchFollowsTheQueue ==
    IF playback.entries = <<>> THEN audio = None
    ELSE set # None /\ audio # None /\ audio.entry = Head(playback.entries)

\* The Grace period is on exactly while the Set's room, as last reported, holds
\* nobody but the bot; its clock is the Set's own and the latest one.
GraceFollowsTheRoom ==
    IF set = None THEN ~playback.awaitingReturn
    ELSE /\ set.roster = {Bot} => playback.awaitingReturn
         /\ playback.awaitingReturn =>
                /\ set.roster \subseteq {Bot}
                /\ timer # None /\ timer.set = set.id /\ timer.wait = waits

Quiet == chain = <<>> /\ toServer = <<>> /\ toBot = <<>>

\* At rest the bot is a member of exactly the room its Set is in: "a join that
\* fails part-way through is a Set the error path can find and end rather than
\* one left holding a membership nothing points at any more" (music.ts, summon).
MembershipFollowsTheSet ==
    Quiet => botRoom = IF set = None THEN None ELSE set.room

\* At rest everyone in the Set's room was last told the Queue as it is, a member
\* who walked in mid-Set included: "everyone sees the same list" (music.ts).
PanelTellsTheQueue ==
    Quiet /\ set # None =>
        \A u \in ListenersIn(location, set.room) \cap Watchers :
            panel[u][set.room] = [entries |-> playback.entries, playing |-> playback.playing]

\* An expiry ends a Set only if its room is still empty and no later wait is
\* running: one that waited its turn behind a Summon cuts nothing short.
GraceNeverCutsAWaitShort ==
    [][ApplyEnding /\ Task.kind = "grace" =>
            set.roster \subseteq {Bot} /\ (timer = None \/ ~timer.running)]_vars

\* Being put out of one room ends the Set of that room, "rather than leaving one
\* pointed at a membership the server has already dropped" (music.ts,
\* onForceLeave) -- and no other Set.
EvictionEndsOnlyItsSet ==
    [][ApplyEnding /\ Task.kind = "evicted" => SetIs(Task.set)]_vars

\* While a Set lasts an entry leaves its Queue only by a request or a report
\* that names it: two members skipping at once, or a skip meeting the end of
\* the Track, cost one Track (ADR-0006).
TracksLeaveByName ==
    [][\A i \in DOMAIN playback.entries :
        LET e == playback.entries[i]
        IN  set' # None /\ set # None =>
                \/ \E j \in DOMAIN playback.entries' : playback.entries'[j] = e
                \/ Task.kind \in {"skip", "remove", "ended", "failed"} /\ Task.entry = e]_vars

\* Every request is answered, whatever fails on the way, and a Set in a room nobody
\* is in ends, unless somebody comes back.
BotComesToRest ==
    /\ []<>(chain = <<>>)
    /\ []<>(set = None \/ ListenersIn(location, set.room) # {})

\* What the bot plays and what it fetches follow the Queue; the Grace period and
\* the panels follow the room.
RoomIsServed ==
    PlayerFollowsTheQueue /\ FetchFollowsTheQueue /\ GraceFollowsTheRoom /\ PanelTellsTheQueue

=============================================================================
