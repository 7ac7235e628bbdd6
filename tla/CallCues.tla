------------------------------- MODULE CallCues -------------------------------
(* The cues of a member's client, the sounds and alerts that tell what happens   *)
(* in its call: they are drawn from what changed between two snapshots of the    *)
(* room, which also reach those who only look on, and from the connection.  A    *)
(* lost connection takes the snapshots on their way with it, and once it is back *)
(* the client joins the same room again, with the roster it had.  The call is    *)
(* one other person beside the member; the truth of who came during the member's *)
(* stay, which lasts as long as the client keeps the room, is kept beside each    *)
(* snapshot.                                                                   *)
EXTENDS DesktopAlerts

CONSTANT MaxSnapshots

VARIABLES
    myCall,     \* the server's: who is in, and what happened during the member's stay
    snapshots,  \* on their way to the client
    cues,       \* the client's: its room, last snapshot, what it compares with
    health,     \* the connection: up, the overlay and its timer, the probe, the
                \* call to be taken up again, the goodbye on its way
    played      \* the cues of the last step

cueVars == <<myCall, snapshots, cues, health, played>>

NobodyIn == [me |-> FALSE, peer |-> FALSE, screen |-> FALSE, came |-> FALSE, shared |-> FALSE]
Unseeded == [seeded |-> FALSE, peer |-> FALSE, screen |-> FALSE]
NewCues == [active |-> FALSE, last |-> NobodyIn, roster |-> Unseeded, deafened |-> FALSE]

CallCuesInit ==
    /\ myCall \in [me : {FALSE}, peer : BOOLEAN, screen : {FALSE}, came : {FALSE}, shared : {FALSE}]
    /\ snapshots = <<>> /\ cues = [NewCues EXCEPT !.last = myCall]
    /\ health = [up |-> TRUE, overlay |-> FALSE, timer |-> FALSE, probe |-> FALSE,
                 recovering |-> FALSE, goodbye |-> FALSE]
    /\ played = {}

------------------------
(* The server: every change is told to the call and to those who look on, over  *)
(* the connection there is.                                                    *)
Tells(c) ==
    /\ myCall' = c /\ Len(snapshots) < MaxSnapshots
    /\ snapshots' = IF health.up THEN Append(snapshots, c) ELSE snapshots
Serving == played' = {} /\ UNCHANGED <<cues, health>>

PeerJoins == ~myCall.peer /\ Tells([myCall EXCEPT !.peer = TRUE, !.came = cues.active]) /\ Serving
PeerLeaves ==
    myCall.peer /\ Tells([myCall EXCEPT !.peer = FALSE, !.screen = FALSE, !.came = FALSE, !.shared = FALSE]) /\ Serving
PeerShares == myCall.peer /\ ~myCall.screen /\ Tells([myCall EXCEPT !.screen = TRUE, !.shared = cues.active]) /\ Serving
PeerStops == myCall.screen /\ Tells([myCall EXCEPT !.screen = FALSE, !.shared = FALSE]) /\ Serving
MemberIsOut(c) == [c EXCEPT !.me = FALSE]
\* The owner ends the member's call: the client is told in a message of its own.
CallIsEnded ==
    /\ myCall.me /\ cues.active /\ Tells(MemberIsOut(myCall))
    /\ played' = {} /\ health' = [health EXCEPT !.goodbye = health.up] /\ UNCHANGED cues
\* The grace period of a member ends whose client lost its connection.
GraceIsOver == myCall.me /\ (~cues.active \/ health.recovering) /\ Tells(MemberIsOut(myCall)) /\ Serving

------------------------
(* The client.                                                               *)
\* notificationSoundAllowed: deafened, only what tells of that is heard.
CueAllowed(key, deafened) == deafened => key \in {"deafen", "undeafen"}
Play(keys, deafened) == {key \in keys : CueAllowed(key, deafened)}

\* Mutant: whoever looks on takes the roster for a call's.
RosterAnybodySees(inCall, s) ==
    IF ~inCall THEN Unseeded ELSE [seeded |-> TRUE, peer |-> s.peer, screen |-> s.screen]
\* activeVoiceRosterUserIds: the snapshot must prove that the member is in.
RosterOf(inCall, s) ==
    IF ~inCall \/ ~s.me THEN Unseeded ELSE [seeded |-> TRUE, peer |-> s.peer, screen |-> s.screen]

\* advanceVoiceRoster, advanceVoiceScreenRoster: the first only sets a baseline,
\* and who leaves while sharing is told as leaving.
Transitions(old, new) ==
    IF ~old.seeded \/ ~new.seeded THEN {}
    ELSE (IF ~old.peer /\ new.peer THEN {"voicePeerJoin"} ELSE {})
         \cup (IF old.peer /\ ~new.peer THEN {"voicePeerLeave"} ELSE {})
         \cup (IF old.peer /\ new.peer /\ ~old.screen /\ new.screen THEN {"screenShareStart"} ELSE {})
         \cup (IF old.peer /\ new.peer /\ old.screen /\ ~new.screen THEN {"screenShareStop"} ELSE {})

Renders(c) ==
    LET roster == RosterOf(c.active, c.last)
        changed == Transitions(cues.roster, roster)
        room == IF c.active = cues.active THEN {} ELSE IF c.active THEN {"voiceJoin"} ELSE {"voiceLeave"}
        self == IF c.deafened = cues.deafened \/ room # {} THEN {}
                ELSE IF c.deafened THEN {"deafen"} ELSE {"undeafen"} IN
    /\ cues' = [c EXCEPT !.roster = roster]
    /\ played' = Play(changed \cup room \cup self, c.deafened)

HearSnapshot ==
    /\ snapshots # <<>> /\ snapshots' = Tail(snapshots)
    /\ Renders([cues EXCEPT !.last = Head(snapshots)])
    /\ UNCHANGED <<myCall, health>>

\* The answer to a join comes after what was sent before it; a stay begins.
CallBegins ==
    /\ ~cues.active /\ health.up /\ snapshots = <<>>
    /\ myCall' = [myCall EXCEPT !.me = TRUE, !.came = FALSE, !.shared = FALSE]
    /\ health' = [health EXCEPT !.goodbye = FALSE] /\ UNCHANGED snapshots
    /\ Renders([cues EXCEPT !.active = TRUE,
                            !.last = [myCall EXCEPT !.me = TRUE, !.came = FALSE, !.shared = FALSE]])
\* leave: without a connection, the server learns of it when the grace period ends.
LeavesCall ==
    /\ cues.active /\ Renders([cues EXCEPT !.active = FALSE])
    /\ \/ health.up /\ myCall.me /\ Tells(MemberIsOut(myCall))
       \/ ~(health.up /\ myCall.me) /\ UNCHANGED <<myCall, snapshots>>
\* Pressed, or because the call could not be taken up again in time.
CallLeft == LeavesCall /\ health' = [health EXCEPT !.recovering = FALSE]
HearEnded == health.goodbye /\ LeavesCall /\ health' = [health EXCEPT !.recovering = FALSE, !.goodbye = FALSE]
\* attemptRecovery: the same room again, for as long as it takes.
CallResumes ==
    /\ health.up /\ health.recovering /\ Tells([myCall EXCEPT !.me = TRUE])
    /\ health' = [health EXCEPT !.recovering = FALSE] /\ played' = {} /\ UNCHANGED cues
DeafenPressed ==
    /\ cues.active /\ Renders([cues EXCEPT !.deafened = ~@]) /\ UNCHANGED <<myCall, snapshots, health>>

------------------------
(* useConnectionHealth: an overlay after three seconds without a connection,   *)
(* down again once a probe was answered over the new one.                    *)
Linking == UNCHANGED <<myCall, cues>>
Shows(h) ==
    /\ health' = h
    /\ played' = Play((IF h.overlay = health.overlay THEN {}
                       ELSE IF h.overlay THEN {"connectionLost"} ELSE {"connectionRestored"}), cues.deafened)
    /\ Linking
\* The messages on their way are lost; a client in a call means to be back in it.
LinkIsLost ==
    /\ health.up /\ snapshots' = <<>>
    /\ Shows([health EXCEPT !.up = FALSE, !.timer = TRUE, !.probe = FALSE,
                            !.recovering = cues.active, !.goodbye = FALSE])
LinkIsUp == ~health.up /\ Shows([health EXCEPT !.up = TRUE, !.timer = FALSE, !.probe = TRUE]) /\ UNCHANGED snapshots
OverlayRises == health.timer /\ Shows([health EXCEPT !.timer = FALSE, !.overlay = TRUE]) /\ UNCHANGED snapshots
Probes == health.up /\ ~health.probe /\ Shows([health EXCEPT !.probe = TRUE]) /\ UNCHANGED snapshots
ProbeTimesOut == health.probe /\ Shows([health EXCEPT !.probe = FALSE]) /\ UNCHANGED snapshots
ProbeAnswered ==
    health.probe /\ Shows([health EXCEPT !.probe = FALSE, !.overlay = FALSE]) /\ UNCHANGED snapshots

CallCuesNext ==
    \/ PeerJoins \/ PeerLeaves \/ PeerShares \/ PeerStops \/ CallIsEnded \/ GraceIsOver
    \/ HearSnapshot \/ CallBegins \/ CallLeft \/ HearEnded \/ CallResumes \/ DeafenPressed
    \/ LinkIsLost \/ LinkIsUp \/ OverlayRises \/ Probes \/ ProbeTimesOut \/ ProbeAnswered

CallCuesSpec == CallCuesInit /\ [][CallCuesNext]_cueVars

------------------------
(* A cue of the room is drawn from a snapshot that has the member in, and tells  *)
(* what happened during the member's stay: nobody is announced who was there     *)
(* when it began, nothing begins that was shared by then, nobody is heard to     *)
(* stop sharing who left.  A stay outlasts a lost connection: whoever came or     *)
(* began to share while the member was out because of it is announced once the   *)
(* member is back.  Deafened, nothing of the room is heard.  The overlay is only  *)
(* up after a loss, and a connection is only restored to one that is up.          *)
CuesAreOfTheCall ==
    /\ played \cap {"voicePeerJoin", "voicePeerLeave", "screenShareStart", "screenShareStop"} # {}
           => cues.active /\ cues.last.me
    /\ "voicePeerJoin" \in played => cues.last.came
    /\ "screenShareStart" \in played => cues.last.shared
    /\ "screenShareStop" \in played => cues.last.peer
    /\ cues.deafened => played \subseteq {"deafen", "undeafen"}
    /\ "connectionRestored" \in played => health.up
    /\ health.timer => ~health.up

(* What a page tells its member on the desktop: the alerts and the cues.      *)
AlertsHold == AlertsSettle /\ CuesAreOfTheCall

=============================================================================
