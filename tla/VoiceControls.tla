---------------------------- MODULE VoiceControls ----------------------------
(* The controls of one member's voice client over one connection: the         *)
(* microphone and deafen buttons, the owner's mute, moves between rooms, the  *)
(* rejoin after a lost connection, and the server's copy of all of it.        *)
(* Requests and answers travel in order; an answer finds the client changed.  *)
(* The open microphone only: no shortcut gates the track.                     *)
EXTENDS Naturals, Sequences, FiniteSets

CONSTANTS MaxActs, MaxMutes, MaxDrops, MaxLosses

VARIABLES
    controls,     \* controlsRef: the microphone and deafen buttons
    track,        \* the microphone track: "gone", "silent" or "sending"
    known,        \* moderationRef.muted
    prefers,       \* microphoneOnBeforeDeafenRef and ...BeforeModerationMuteRef
    home,         \* roomRef
    lease,        \* microphoneRecoveryRef
    capturing,    \* the capture under way and for whom
    joins,        \* joins not settled, by number
    rejoin,       \* the rejoin after a reconnect: "idle", "scheduled" or "running"
    connected,
    upstream,     \* requests on their way to the server
    downstream,   \* answers and snapshots on their way back
    seat,         \* the server's membership, and whether this connection holds it
    ownerMuted,
    crossed,      \* the controls changed while a join or such was under way
    putBack,      \* the track sends because something that failed put it back
    spent

controlVars == <<controls, track, known, prefers, home, lease, capturing>>
joinVars == <<joins, rejoin, connected>>
seatVars == <<upstream, downstream, seat, ownerMuted>>
voiceControlVars == <<controlVars, joinVars, seatVars, crossed, putBack, spent>>

VoiceRooms == {"lounge", "hall", "idle"}
AfkRooms == {"idle"}
Out == "none"
NoLease == [room |-> Out, enabled |-> FALSE]
NoSeat == [room |-> Out, held |-> FALSE, mic |-> FALSE, deaf |-> FALSE]
Fresh == [mic |-> TRUE, deaf |-> FALSE]

VoiceControlsInit ==
    /\ controls = Fresh /\ track = "gone" /\ known = FALSE
    /\ prefers = [deaf |-> TRUE, mute |-> TRUE]
    /\ home = Out /\ lease = NoLease /\ capturing = "nothing"
    /\ joins = <<>> /\ rejoin = "idle" /\ connected = TRUE
    /\ upstream = <<>> /\ downstream = <<>>
    /\ seat = NoSeat /\ ownerMuted = FALSE
    /\ crossed = FALSE /\ putBack = FALSE
    /\ spent = [acts |-> 0, mutes |-> 0, drops |-> 0, losses |-> 0]

------------------------
Spend(what, most) == spent[what] < most /\ spent' = [spent EXCEPT ![what] = @ + 1]

Enabled(t, on) == IF t = "gone" THEN "gone" ELSE IF on THEN "sending" ELSE "silent"

\* effectiveVoiceMediaState.
Effective(c, t) == [mic |-> c.mic /\ ~c.deaf /\ t = "sending", deaf |-> c.deaf]

LockedByRoom(room) == room \in AfkRooms

MayTalk(c, muted, room) == c.mic /\ ~c.deaf /\ ~muted /\ ~LockedByRoom(room)

\* normalizeVoiceMedia: deafened, an owner's mute and the AFK room close it.
Normalized(media, muted, room) ==
    [media EXCEPT !.mic = @ /\ ~media.deaf /\ ~muted /\ ~LockedByRoom(room)]

\* The controls an answer of the server leaves.
Accepted(answer) ==
    [mic |-> answer.media.mic /\ ~answer.muted /\ ~answer.media.deaf, deaf |-> answer.media.deaf]

Deafening == {"deafen", "undeafen"}     \* what sets the deafen part too

\* deafenTransitionRef += 1: no deafen under way may be applied any more.
Outdated(messages) ==
    [i \in DOMAIN messages |-> [messages[i] EXCEPT !.current = @ /\ messages[i].ask \notin Deafening]]

\* joinAttemptRef += 1: so with every join under way.
OutdatedJoins == [j \in DOMAIN joins |-> [joins[j] EXCEPT !.current = FALSE]]

Request(kind, ask, media) ==
    [kind |-> kind, ask |-> ask, room |-> home, media |-> media, current |-> TRUE,
     saved |-> IF ask = "deafen" THEN <<controls, track, prefers.deaf>> ELSE <<>>]

\* emitMediaState.
Emit(messages, ask, media) == upstream' = Append(messages, Request("media", ask, media))

\* A join, the wait for one, or an answer that will overwrite the microphone
\* button: what the controls are set to meanwhile may be undone.
Asking(asks) ==
    \/ \E i \in DOMAIN upstream : upstream[i].ask \in asks /\ upstream[i].current
    \/ \E i \in DOMAIN downstream : downstream[i].ask \in asks /\ downstream[i].current
UnderWay == joins # <<>> \/ rejoin = "scheduled" \/ Asking({"restored"})
Crosses == crossed' = (crossed \/ UnderWay)

------------------------
(* The buttons.                                                              *)
MicAllowed == home # Out /\ ~controls.deaf /\ ~known /\ ~LockedByRoom(home)

ToggleMic ==
    /\ MicAllowed /\ Spend("acts", MaxActs) /\ Crosses
    /\ lease' = NoLease
    /\ downstream' = Outdated(downstream)
    /\ IF track = "gone"
       THEN /\ capturing' = "button"
            /\ upstream' = Outdated(upstream)
            /\ UNCHANGED <<controls, track>>
       ELSE /\ controls' = [controls EXCEPT !.mic = ~@]
            /\ track' = Enabled(track, ~controls.mic)
            /\ Emit(Outdated(upstream), "plain", [mic |-> ~controls.mic, deaf |-> controls.deaf])
            /\ UNCHANGED capturing
    /\ UNCHANGED <<known, prefers, home, joinVars, seat, ownerMuted>>

\* The capture opens: for the button, or for a microphone that came back.
Captured ==
    /\ capturing # "nothing" /\ capturing' = "nothing"
    /\ crossed' = (crossed \/ UnderWay \/ Asking(Deafening))
    /\ LET on == IF capturing = "button" THEN MicAllowed ELSE lease.enabled /\ MicAllowed IN
       IF capturing = "button" /\ ~MicAllowed
       THEN UNCHANGED <<controls, track, lease, upstream>>
       ELSE /\ controls' = [controls EXCEPT !.mic = on]
            /\ track' = Enabled("silent", on)
            /\ lease' = NoLease
            /\ Emit(upstream, "plain", [mic |-> on, deaf |-> controls.deaf])
    /\ UNCHANGED <<known, prefers, home, joinVars, downstream, seat, ownerMuted, spent>>

\* handleMicrophoneLost: the device is unplugged.
MicrophoneLost ==
    /\ track # "gone" /\ Spend("losses", MaxLosses) /\ Crosses
    /\ lease' = [room |-> home,
                 enabled |-> controls.mic \/ (controls.deaf /\ prefers.deaf) \/ (known /\ prefers.mute)]
    /\ capturing' = "nothing"
    /\ track' = "gone"
    /\ controls' = [controls EXCEPT !.mic = FALSE]
    /\ Emit(Outdated(upstream), "plain", [mic |-> FALSE, deaf |-> controls.deaf])
    /\ downstream' = Outdated(downstream)
    /\ joins' = [j \in DOMAIN joins |-> [joins[j] EXCEPT !.found = "gone"]]
    /\ UNCHANGED <<known, prefers, home, rejoin, connected, seat, ownerMuted>>

\* recoverMicrophone, after a device scan.
RecoverMicrophone ==
    /\ lease # NoLease /\ capturing = "nothing"
    /\ \A j \in DOMAIN joins : joins[j].again \/ ~joins[j].current
    /\ connected /\ track = "gone"
    /\ IF home = lease.room THEN capturing' = "lease" /\ UNCHANGED lease
       ELSE lease' = NoLease /\ UNCHANGED capturing
    /\ UNCHANGED <<controls, track, known, prefers, home, joinVars, seatVars, crossed, spent>>

\* setDeafened(true): applied here first, taken back if the server refuses.
Deafen ==
    /\ home # Out /\ connected /\ ~controls.deaf
    /\ Spend("acts", MaxActs) /\ Crosses
    /\ prefers' = [prefers EXCEPT !.deaf = IF known THEN prefers.mute ELSE controls.mic]
    /\ track' = Enabled(track, FALSE)
    /\ controls' = [mic |-> FALSE, deaf |-> TRUE]
    /\ Emit(Outdated(upstream), "deafen", Effective(controls', track'))
    /\ downstream' = Outdated(downstream)
    /\ UNCHANGED <<known, home, lease, capturing, joinVars, seat, ownerMuted>>

\* Mutant: what an owner muted meanwhile is opened again.
UndeafenMuted ==
    /\ home # Out /\ connected /\ controls.deaf
    /\ Spend("acts", MaxActs) /\ Crosses
    /\ track' = Enabled(track, prefers.deaf)
    /\ controls' = [mic |-> prefers.deaf /\ track # "gone", deaf |-> FALSE]
    /\ Emit(Outdated(upstream), "undeafen", Effective(controls', track'))
    /\ downstream' = Outdated(downstream)
    /\ UNCHANGED <<known, prefers, home, lease, capturing, joinVars, seat, ownerMuted>>

\* setDeafened(false): the microphone is as it was before, unless muted.
Undeafen ==
    /\ home # Out /\ connected /\ controls.deaf
    /\ Spend("acts", MaxActs) /\ Crosses
    /\ LET restore == ~known /\ prefers.deaf IN
       /\ track' = Enabled(track, restore)
       /\ controls' = [mic |-> restore /\ track # "gone", deaf |-> FALSE]
    /\ Emit(Outdated(upstream), "undeafen", Effective(controls', track'))
    /\ downstream' = Outdated(downstream)
    /\ UNCHANGED <<known, prefers, home, lease, capturing, joinVars, seat, ownerMuted>>

------------------------
(* Joins.                                                                    *)
Numbers == {"j1", "j2"} \ (DOMAIN joins \cup {upstream[i].ask : i \in DOMAIN upstream}
                                  \cup {downstream[i].ask : i \in DOMAIN downstream})

\* moveJoinOptions: what an owner's move carries over.
Carried ==
    [mic |-> IF controls.deaf THEN prefers.deaf /\ track # "gone"
             ELSE IF known THEN prefers.mute ELSE controls.mic,
     deaf |-> controls.deaf]

Join(room, options) ==
    /\ connected /\ Numbers # {} /\ Spend("acts", MaxActs) /\ Crosses
    /\ LET n == CHOOSE m \in Numbers : TRUE
           on == options.mic /\ ~LockedByRoom(room)
           open == ~options.deaf /\ ~known
           needed == on /\ track = "gone"
           media == [mic |-> on /\ open, deaf |-> options.deaf]
       IN /\ joins' = [j \in DOMAIN joins \cup {n} |->
                         IF j = n THEN [room |-> room, again |-> FALSE, current |-> TRUE, mic |-> on, acquired |-> needed,
                                        found |-> track, lifts |-> controls.deaf /\ ~options.deaf]
                         ELSE OutdatedJoins[j]]
          /\ track' = IF on THEN Enabled(track, open) ELSE track
          /\ upstream' = Append(upstream, [Request("join", n, media) EXCEPT !.room = room])
    /\ lease' = NoLease /\ capturing' = "nothing"
    /\ UNCHANGED <<controls, known, prefers, home, rejoin, connected, downstream, seat, ownerMuted>>

\* A room picked by hand is joined undeafened, so a deafened member's microphone
\* opens to the room being left before the server has answered.
Lifting == \E n \in DOMAIN joins : joins[n].lifts

JoinRoom == \E room \in VoiceRooms : home # room /\ Join(room, Fresh)
MoveTo == \E room \in VoiceRooms : home \notin {Out, room} /\ Join(room, Carried)

\* A join that fails, or that another has overtaken, puts the track back as it
\* found it.
JoinUndone(j) ==
    /\ track' = IF j.acquired \/ j.found = "gone" THEN track ELSE Enabled(track, j.found = "sending")
    /\ UNCHANGED <<controls, known, prefers, home>>

JoinAccepted(j, answer) ==
    /\ controls' = Accepted(answer)
    /\ known' = answer.muted
    /\ prefers' = [deaf |-> IF answer.media.deaf THEN j.mic ELSE Accepted(answer).mic,
                  mute |-> IF answer.muted THEN j.mic ELSE prefers.mute]
    /\ home' = j.room
    /\ track' = IF ~j.mic THEN "gone"
                ELSE Enabled(IF j.acquired THEN "silent" ELSE track,
                             MayTalk(Accepted(answer), answer.muted, j.room))

Settled(n) == joins' = [j \in DOMAIN joins \ {n} |-> joins[j]]

JoinAnswered(n, answer) ==
    LET j == joins[n] IN
    /\ Settled(n)
    /\ IF j.current /\ answer.ok
       THEN /\ JoinAccepted(j, answer)
            /\ upstream' = Outdated(upstream)
            /\ downstream' = Outdated(Tail(downstream))
       ELSE JoinUndone(j) /\ UNCHANGED upstream /\ downstream' = Tail(downstream)
    /\ UNCHANGED rejoin

\* requestVoiceJoin gives up after five seconds; a later answer is ignored.
JoinTimesOut ==
    /\ \E n \in DOMAIN joins :
          /\ Settled(n)
          /\ IF joins[n].again THEN UNCHANGED <<controls, known, prefers, home, track>> ELSE JoinUndone(joins[n])
          /\ rejoin' = IF joins[n].again /\ joins[n].current THEN "scheduled" ELSE rejoin
    /\ crossed' = TRUE
    /\ UNCHANGED <<lease, capturing, connected, seatVars, spent>>

Leave ==
    /\ home # Out \/ joins # <<>>
    /\ Spend("acts", MaxActs) /\ Crosses
    /\ upstream' = IF home = Out THEN Outdated(upstream)
                   ELSE Append(Outdated(upstream), Request("leave", "plain", Fresh))
    /\ downstream' = Outdated(downstream)
    /\ joins' = [j \in DOMAIN joins |-> [joins[j] EXCEPT !.current = FALSE, !.found = "gone"]]
    /\ controls' = Fresh /\ prefers' = [deaf |-> TRUE, mute |-> TRUE] /\ known' = FALSE
    /\ track' = "gone" /\ home' = Out /\ lease' = NoLease /\ capturing' = "nothing"
    /\ rejoin' = "idle"
    /\ UNCHANGED <<connected, seat, ownerMuted>>

------------------------
(* The connection.                                                           *)
VoiceDrop ==
    /\ connected /\ connected' = FALSE /\ Spend("drops", MaxDrops)
    /\ upstream' = <<>> /\ downstream' = <<>>
    /\ seat' = [seat EXCEPT !.held = FALSE]
    /\ joins' = OutdatedJoins
    /\ capturing' = "nothing"
    /\ rejoin' = "idle"
    /\ crossed' = (crossed \/ UnderWay)
    /\ UNCHANGED <<controls, track, known, prefers, home, lease, ownerMuted>>

\* The server's own grace for the lost connection ends.
SeatLost ==
    /\ ~connected /\ seat # NoSeat /\ seat' = NoSeat
    /\ UNCHANGED <<controlVars, joinVars, upstream, downstream, ownerMuted, crossed, spent>>

\* onConnect.
VoiceReconnect ==
    /\ ~connected /\ connected' = TRUE
    /\ rejoin' = IF home = Out THEN "idle" ELSE "scheduled"
    /\ UNCHANGED <<controlVars, joins, seatVars, crossed, spent>>

\* attemptRecovery: the same room, with the controls as they are now.
Rejoin ==
    /\ rejoin = "scheduled" /\ connected /\ home # Out /\ Numbers # {}
    /\ rejoin' = "running"
    /\ track' = Enabled(track, MayTalk(controls, known, home))
    /\ LET n == CHOOSE m \in Numbers : TRUE IN
       /\ joins' = [j \in DOMAIN joins \cup {n} |->
                      IF j = n THEN [room |-> home, again |-> TRUE, current |-> TRUE, mic |-> controls.mic,
                                     acquired |-> FALSE, found |-> "gone", lifts |-> FALSE]
                      ELSE OutdatedJoins[j]]
       /\ upstream' = Append(upstream, Request("join", n, Effective(controls, track')))
    /\ UNCHANGED <<controls, known, prefers, home, lease, capturing, connected, downstream, seat,
                   ownerMuted, crossed, spent>>

RejoinAnswered(n, answer) ==
    LET j == joins[n] IN
    /\ Settled(n)
    /\ downstream' = Tail(downstream)
    /\ rejoin' = IF ~(j.current /\ home = j.room) THEN rejoin
                 ELSE IF answer.ok THEN "idle" ELSE "scheduled"
    /\ UNCHANGED <<controls, track, known, prefers, home, upstream>>

------------------------
(* The server.                                                               *)
Answer(asked, ok, at) ==
    [kind |-> IF asked.kind = "join" THEN "joined" ELSE "set", ask |-> asked.ask, ok |-> ok,
     room |-> at.room, media |-> [mic |-> at.mic, deaf |-> at.deaf], muted |-> ownerMuted,
     current |-> asked.current, saved |-> asked.saved]

SnapshotOf(room, at) ==
    [kind |-> "snapshot", ask |-> "plain", ok |-> at.room = room, room |-> room,
     media |-> [mic |-> FALSE, deaf |-> FALSE], muted |-> ownerMuted, current |-> FALSE, saved |-> <<>>]

Seated(room, media) ==
    LET m == Normalized(media, ownerMuted, room)
    IN [room |-> room, held |-> TRUE, mic |-> m.mic, deaf |-> m.deaf]

\* All the client takes from a snapshot here is the owner's mute.  The mute
\* itself and every join are told in order, so the snapshots that follow a
\* change of media or answer voice:snapshot tell nothing new.
ServerAnswers ==
    /\ connected /\ upstream # <<>>
    /\ LET q == Head(upstream) IN
       /\ upstream' = Tail(upstream)
       /\ \/ /\ q.kind = "join"
             /\ seat' = Seated(q.room, q.media)
             /\ downstream' = downstream \o <<Answer(q, TRUE, seat'), SnapshotOf(q.room, seat')>>
          \/ /\ q.kind = "join" /\ q.room # seat.room      \* the limit on Visuals, or no such room
             /\ downstream' = Append(downstream, Answer(q, FALSE, seat)) /\ UNCHANGED seat
          \/ /\ q.kind = "media" /\ seat.held /\ seat.room = q.room
             /\ seat' = Seated(q.room, [mic |-> q.media.mic,
                                        deaf |-> IF q.ask \in Deafening THEN q.media.deaf ELSE seat.deaf])
             /\ downstream' = Append(downstream, Answer(q, TRUE, seat'))
          \/ /\ q.kind = "media" /\ ~(seat.held /\ seat.room = q.room)
             /\ downstream' = Append(downstream, Answer(q, FALSE, seat)) /\ UNCHANGED seat
          \/ /\ q.kind = "leave"
             /\ seat' = IF seat.room = q.room THEN NoSeat ELSE seat
             /\ UNCHANGED downstream
    /\ UNCHANGED <<controlVars, joinVars, ownerMuted, crossed, spent>>

\* updateModeration, by an owner.
Moderate ==
    /\ Spend("mutes", MaxMutes)
    /\ ownerMuted' = ~ownerMuted
    /\ seat' = IF seat = NoSeat THEN NoSeat
               ELSE [seat EXCEPT !.mic = Normalized([mic |-> @, deaf |-> seat.deaf], ownerMuted', seat.room).mic]
    /\ downstream' = IF seat = NoSeat \/ ~connected THEN downstream
                     ELSE Append(downstream, [SnapshotOf(seat.room, seat) EXCEPT !.muted = ownerMuted'])
    /\ UNCHANGED <<controlVars, joinVars, upstream, crossed>>

------------------------
(* What comes back.                                                          *)
\* applyVoiceSnapshot: the owner's mute closes the microphone, its end brings
\* back what the member had chosen.
SnapshotApplied(s) ==
    IF s.room # home \/ ~s.ok \/ s.muted = known THEN UNCHANGED <<controls, track, known, prefers, upstream>>
    ELSE LET restore == prefers.mute /\ ~controls.deaf IN
         /\ known' = s.muted
         /\ prefers' = IF s.muted THEN [prefers EXCEPT !.mute = controls.mic] ELSE prefers
         /\ track' = Enabled(track, ~s.muted /\ restore)
         /\ controls' = [controls EXCEPT !.mic = ~s.muted /\ restore /\ track # "gone"]
         /\ Emit(upstream, IF s.muted THEN "plain" ELSE "restored",
                 [mic |-> Effective(controls', track').mic, deaf |-> controls.deaf])

DeafenAnswered(a) ==
    IF ~a.current THEN UNCHANGED <<controls, track, prefers>>
    ELSE IF a.ok
    THEN /\ track' = Enabled(track, MayTalk(controls, known, home))
         /\ controls' = Accepted(a)
         /\ UNCHANGED prefers
    ELSE IF a.ask = "deafen"
    THEN /\ controls' = a.saved[1]
         /\ track' = Enabled(track, a.saved[2] = "sending")
         /\ prefers' = [prefers EXCEPT !.deaf = a.saved[3]]
    ELSE /\ controls' = [mic |-> FALSE, deaf |-> TRUE]
         /\ track' = Enabled(track, FALSE)
         /\ UNCHANGED prefers

Restored(a) ==
    /\ controls' = IF a.ok THEN [controls EXCEPT !.mic = Accepted(a).mic] ELSE controls
    /\ UNCHANGED <<track, prefers>>

ClientHears ==
    /\ connected /\ downstream # <<>>
    /\ LET a == Head(downstream) IN
       IF a.kind = "joined" /\ a.ask \in DOMAIN joins
       THEN /\ IF joins[a.ask].again THEN RejoinAnswered(a.ask, a) ELSE JoinAnswered(a.ask, a)
            /\ UNCHANGED crossed
       ELSE /\ downstream' = Tail(downstream)
            /\ UNCHANGED <<home, joins, rejoin>>
            /\ CASE a.kind = "snapshot" -> SnapshotApplied(a)
                 [] a.kind = "set" /\ a.ask \in Deafening ->
                       DeafenAnswered(a) /\ UNCHANGED <<known, upstream>>
                 [] a.kind = "set" /\ a.ask = "restored" -> Restored(a) /\ UNCHANGED <<known, upstream>>
                 [] OTHER -> UNCHANGED <<controls, track, known, prefers, upstream>>
            /\ crossed' = (crossed \/ (UnderWay /\ <<controls, track>>' # <<controls, track>>))
    /\ UNCHANGED <<lease, capturing, connected, seat, ownerMuted, spent>>

\* A join that failed or was overtaken, or a deafen that was refused, opens the track.
PutsBack ==
    /\ track # "sending" /\ track' = "sending"
    /\ \/ \E n \in DOMAIN joins \ DOMAIN joins' : JoinUndone(joins[n])
       \/ /\ downstream # <<>> /\ downstream' = Tail(downstream)
          /\ Head(downstream).ask = "deafen" /\ ~Head(downstream).ok

VoiceControlsNext ==
    /\ \/ ToggleMic \/ Captured \/ MicrophoneLost \/ RecoverMicrophone \/ Deafen \/ Undeafen
       \/ JoinRoom \/ MoveTo \/ JoinTimesOut \/ Leave
       \/ VoiceDrop \/ SeatLost \/ VoiceReconnect \/ Rejoin
       \/ ServerAnswers \/ Moderate \/ ClientHears
    /\ putBack' = (track' = "sending" /\ (putBack \/ PutsBack))

VoiceControlsSpec == VoiceControlsInit /\ [][VoiceControlsNext]_voiceControlVars

------------------------
\* A deafened member, one the client knows an owner muted, and anyone in the
\* AFK room sends nothing, whatever answers are still on their way.  Excepted is
\* the deafened member who has picked another room (Lifting).
SilencedStaysSilent ==
    ~crossed => (known \/ (controls.deaf /\ ~Lifting) \/ LockedByRoom(home) => track # "sending")

\* Even if controls changed meanwhile (crossed), such a member sends only what was
\* put back: no answer, snapshot or recovered device opens the track.
OnlyPutBackIsSent ==
    track = "sending" /\ (known \/ (controls.deaf /\ ~Lifting) \/ LockedByRoom(home)) => putBack

AtRest ==
    /\ connected /\ upstream = <<>> /\ downstream = <<>> /\ joins = <<>>
    /\ rejoin = "idle" /\ capturing = "nothing"

\* Once nothing is under way the member's buttons and the others show what is
\* sent, and whoever has left is in no room.
CallIsAsShown ==
    ~crossed /\ AtRest =>
        IF home = Out THEN ~seat.held
        ELSE /\ seat = [room |-> home, held |-> TRUE, mic |-> track = "sending", deaf |-> controls.deaf]
             /\ controls.mic = seat.mic

\* What is sent, what the member sees and what the others see are one thing.
WhatIsShownIsSent == SilencedStaysSilent /\ OnlyPutBackIsSent /\ CallIsAsShown

=============================================================================
