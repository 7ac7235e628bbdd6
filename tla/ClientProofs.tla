---------------------------- MODULE ClientProofs ----------------------------
(* Theorems about the parts of a browser and of the desktop app that share no *)
(* state with each other. *)
EXTENDS Negotiation, PeerRecovery, VoiceControls, ShortcutSettings, PushToTalk, KeptState, CallCues,
        FiniteSetTheorems, SequenceTheorems, TLAPS

------------------------
(* Recovery of a connection. *)

Kept(kind) == [for |-> peer, kind |-> kind] \in deadlines

(* Only a connection has a grace timer, and not while it restarts; a rebuild *)
(* timer runs where there is no connection, and for the one that went last. *)
TimersFit ==
    /\ \A d \in deadlines : d.for # 0
    /\ peer # 0 => peer = generation
    /\ \/ retryTimer = NoTimer
       \/ retryTimer = [for |-> peer, kind |-> "grace"] /\ peer # 0 /\ phase # "restarting"
       \/ retryTimer = [for |-> generation, kind |-> "rebuild"] /\ peer = 0

(* What a connection waits for, by the state of its transport. *)
Awaits ==
    /\ transport \in {"new", "ice", "broken"} => Kept("first")
    /\ phase = "restarting" /\ reason = "quality" => Kept("quality")
    /\ transport = "up" /\ ~Steady => phase = "restarting" /\ reason = "quality"
    /\ transport = "down" =>
           \/ retryTimer.kind = "grace"
           \/ phase = "restarting" /\ (reason = "quality" \/ (reason = "transport" /\ Kept("restart")))

RecoveryInv ==
    /\ generation \in Nat /\ peer \in Nat
    /\ transport \in {"new", "ice", "broken", "up", "down"}
    /\ TimersFit
    /\ phase = "restarting" => peer # 0
    /\ peer # 0 => Awaits
    /\ present /\ peer = 0 => retryTimer.kind = "rebuild"

LEMMA RecoveryStarts == PeerInit => RecoveryInv
  BY DEF PeerInit, RecoveryInv, TimersFit, Awaits, Kept, Steady, NoTimer

(* Every handler keeps it, those of calls made before and timers set before. *)
LEMMA RecoveryGoesOn == RecoveryInv /\ [PeerNext]_peerVars => RecoveryInv'
<1> SUFFICES ASSUME RecoveryInv, [PeerNext]_peerVars PROVE RecoveryInv'
  OBVIOUS
<1> USE DEF RecoveryInv, TimersFit, Awaits, Kept, Steady, NoTimer
<1>1. CASE SnapshotShows
  BY <1>1 DEF SnapshotShows, EnsurePeer, recoveryStateVars, Makes, Now, ArmedFor
<1>2. CASE SnapshotShowsAnotherInstance
  BY <1>2 DEF SnapshotShowsAnotherInstance, Makes, Now, ArmedFor
<1>3. CASE SnapshotWithout
  BY <1>3 DEF SnapshotWithout, Forget, Now, Disarmed
<1>4. CASE HearsSignal
  BY <1>4 DEF HearsSignal, EnsurePeer, recoveryStateVars, Makes, Now, ArmedFor
<1>5. CASE HearsRecoveryRequest
  BY <1>5 DEF HearsRecoveryRequest, SchedulePeerRecovery, Rebuild, Now, Disarmed
<1>6. CASE IceConnects
  BY <1>6 DEF IceConnects, recoveryStateVars
<1>7. CASE Connects
  BY <1>7 DEF Connects, Now, Disarmed, Settling, recoveryStateVars
<1>8. CASE Disconnects
  BY <1>8 DEF Disconnects, recoveryStateVars, Now
<1>9. CASE Fails
  BY <1>9 DEF Fails, SchedulePeerRecovery, Rebuild, Now, Disarmed
<1>10. CASE GraceEnds
  BY <1>10 DEF GraceEnds, Now, ArmedOver, recoveryStateVars
<1>11. CASE RebuildDue
  BY <1>11 DEF RebuildDue, EnsurePeer, Makes, Now, ArmedFor, recoveryStateVars
<1>12. CASE AudioStalls
  BY <1>12 DEF AudioStalls, Now, ArmedFor
<1>13. CASE AudioResumes
  BY <1>13 DEF AudioResumes, Now, Disarmed
<1>14. ASSUME NEW d \in deadlines, DeadlinePasses(d) PROVE RecoveryInv'
  BY <1>14 DEF DeadlinePasses, Rebuild, Now, recoveryStateVars
<1>15. CASE UNCHANGED peerVars
  BY <1>15 DEF peerVars, recoveryStateVars
<1>16. QED
  BY <1>1, <1>2, <1>3, <1>4, <1>5, <1>6, <1>7, <1>8, <1>9, <1>10, <1>11, <1>12, <1>13, <1>14, <1>15 DEF PeerNext

(* A restart of a connection ends; none begins over it. *)
SettlesNext == phase = "restarting" /\ peer' = peer =>
                   <<phase', reason'>> \in {<<phase, reason>>, <<"stable", "none">>}

LEMMA RestartsSettleByStep == RecoveryInv /\ [PeerNext]_peerVars => SettlesNext
<1> SUFFICES ASSUME RecoveryInv, [PeerNext]_peerVars PROVE SettlesNext
  OBVIOUS
<1> USE DEF SettlesNext, RecoveryInv, TimersFit, Awaits, Kept, Steady, NoTimer
<1>1. CASE SnapshotShows
  BY <1>1 DEF SnapshotShows, EnsurePeer, recoveryStateVars, Makes, Now, ArmedFor
<1>2. CASE SnapshotShowsAnotherInstance
  BY <1>2 DEF SnapshotShowsAnotherInstance, Makes, Now, ArmedFor
<1>3. CASE SnapshotWithout
  BY <1>3 DEF SnapshotWithout, Forget, Now, Disarmed
<1>4. CASE HearsSignal
  BY <1>4 DEF HearsSignal, EnsurePeer, recoveryStateVars, Makes, Now, ArmedFor
<1>5. CASE HearsRecoveryRequest
  BY <1>5 DEF HearsRecoveryRequest, SchedulePeerRecovery, Rebuild, Now, Disarmed
<1>6. CASE IceConnects
  BY <1>6 DEF IceConnects, recoveryStateVars
<1>7. CASE Connects
  BY <1>7 DEF Connects, Settling, Now, Disarmed, recoveryStateVars
<1>8. CASE Disconnects
  BY <1>8 DEF Disconnects, Now, recoveryStateVars
<1>9. CASE Fails
  BY <1>9 DEF Fails, SchedulePeerRecovery, Rebuild, Now, Disarmed
<1>10. CASE GraceEnds
  BY <1>10 DEF GraceEnds, Now, ArmedOver, recoveryStateVars
<1>11. CASE RebuildDue
  BY <1>11 DEF RebuildDue, EnsurePeer, Makes, Now, ArmedFor, recoveryStateVars
<1>12. CASE AudioStalls
  BY <1>12 DEF AudioStalls, Now, ArmedFor
<1>13. CASE AudioResumes
  BY <1>13 DEF AudioResumes, Now, Disarmed
<1>14. ASSUME NEW d \in deadlines, DeadlinePasses(d) PROVE SettlesNext
  BY <1>14 DEF DeadlinePasses, Rebuild, Now, recoveryStateVars
<1>15. CASE UNCHANGED peerVars
  BY <1>15 DEF peerVars, recoveryStateVars
<1>16. QED
  BY <1>1, <1>2, <1>3, <1>4, <1>5, <1>6, <1>7, <1>8, <1>9, <1>10, <1>11, <1>12, <1>13, <1>14, <1>15 DEF PeerNext

(* A member who is there is heard, or a timer is set that sees to it. *)
LEMMA WatchedAlways == RecoveryInv => (present => PeerHeard \/ Watched)
  BY DEF PeerHeard, Watched, RecoveryInv, TimersFit, Awaits, Kept, Steady, NoTimer

(* One recovery at a time: while a connection restarts, nothing restarts it *)
(* again, and a member who is there is heard or waited for by a timer *)
(* (voicePeerRecovery.ts, useVoiceMedia.ts), for any number of rebuilds. *)
THEOREM RecoveryStaysSingleFlight == PeerSpec => RecoveryIsSingleFlight
<1>1. PeerSpec => []RecoveryInv
  BY RecoveryStarts, RecoveryGoesOn, PTL DEF PeerSpec
<1>2. RecoveryInv /\ [PeerNext]_peerVars => [SettlesNext]_peerVars
  BY RestartsSettleByStep
<1>3. QED
  BY <1>1, <1>2, WatchedAlways, PTL DEF PeerSpec, RecoveryIsSingleFlight, RestartsSettle, SettlesNext

------------------------
(* Shortcuts of the keyboard. *)

KeyGates == [down : SUBSET Keyboard, bound : [Bound -> Bindings \cup {Nothing}], held : SUBSET Bound]

(* Shortcuts: no two actions are bound to overlapping shortcuts. *)
BoundApart ==
    /\ gates \in KeyGates
    /\ keysDown \subseteq Keyboard
    /\ gates.bound["talk"] = Nothing \/ gates.bound["mute"] = Nothing
         \/ ~Overlaps(gates.bound["talk"], gates.bound["mute"])

LEMMA ApartIsSymmetric ==
    ASSUME NEW a, NEW b PROVE Overlaps(a, b) <=> Overlaps(b, a)
  BY DEF Overlaps

(* Two shortcuts that do not overlap become complete with one press only when *)
(* both sides of the modifier are down. *)
LEMMA OneBegins ==
    ASSUME NEW a \in Bindings, NEW b \in Bindings, NEW k, NEW keys,
           Matches(a, keys), Activates(a, k), Matches(b, keys), Activates(b, k), ~Overlaps(a, b)
    PROVE  Sides \subseteq keys
<1>1. a.key = b.key
  BY KeysAssumption DEF Bindings, Binding, Activates, Sides
<1>2. a.mods # b.mods /\ a.mods \in Requirements /\ b.mods \in Requirements
  BY <1>1 DEF Overlaps, Bindings, Binding, Requirements
<1>3. AcceptsSides(a.mods, keys \cap Sides) /\ AcceptsSides(b.mods, keys \cap Sides)
  BY DEF Matches
<1>4. a.mods # {} /\ b.mods # {}
  BY <1>2, <1>3, KeysAssumption DEF AcceptsSides, Requirements
<1>5. AnySide \notin a.mods \cup b.mods /\ a.mods \cap b.mods = {}
  BY <1>1, <1>4 DEF Overlaps
<1>6. \/ a.mods = {LeftSide} /\ b.mods = {RightSide}
      \/ a.mods = {RightSide} /\ b.mods = {LeftSide}
  BY <1>2, <1>4, <1>5 DEF Requirements
<1>7. LeftSide \in keys /\ RightSide \in keys
  BY <1>3, <1>6, KeysAssumption DEF AcceptsSides, Sides
<1>8. QED
  BY <1>7 DEF Sides

LEMMA FewBegin ==
    ASSUME NEW S, S \subseteq Bound, S # Bound
    PROVE  Cardinality(S) <= 1
<1>1. S \in {{}, {"talk"}, {"mute"}}
  BY DEF Bound
<1>2. Cardinality({}) = 0 /\ Cardinality({"talk"}) = 1 /\ Cardinality({"mute"}) = 1
  BY FS_EmptySet, FS_Singleton
<1>3. QED
  BY <1>1, <1>2

LEMMA HandleBegins ==
    ASSUME BoundApart, NEW k \in Keyboard, NEW isDown \in BOOLEAN, NEW g, g = Handle(gates, k, isDown)
    PROVE  /\ g \in KeyGates
           /\ g.bound = gates.bound
           /\ Sides \subseteq g.down \/ Cardinality(g.held \ gates.held) <= 1
<1> DEFINE keys == IF isDown THEN gates.down \cup {k} ELSE gates.down \ {k}
           now == {a \in Bound : /\ Matches(gates.bound[a], keys)
                                 /\ a \in gates.held \/ (isDown /\ Activates(gates.bound[a], k))}
<1>1. CASE (k \in gates.down) = isDown
  BY <1>1, FewBegin DEF Handle, Bound, BoundApart, KeyGates
<1>2. CASE (k \in gates.down) # isDown
  BY <1>2, OneBegins, FewBegin DEF Handle, BoundApart, KeyGates, Matches, Bound
<1>3. QED
  BY <1>1, <1>2

LEMMA IdleBegins ==
    ASSUME NEW g \in KeyGates, NEW c,
           NEW h, h = Idle(g, c)
    PROVE  /\ h \in KeyGates
           /\ h.held \subseteq g.held
           /\ h.bound = g.bound \/ h.bound = [a \in Bound |-> Nothing]
  BY DEF Idle, NoGates, KeyGates

BeginsFew == Sides \subseteq gates'.down \/ Cardinality(gates'.held \ gates.held) <= 1

LEMMA NoneBegin ==
    ASSUME gates'.held \subseteq gates.held
    PROVE  BeginsFew
BY FewBegin DEF Bound, BeginsFew

LEMMA KeysStart == ShortcutKeysInit => BoundApart
  BY DEF ShortcutKeysInit, BoundApart, KeyGates, NoGates, Bound

LEMMA StrokeSteps == BoundApart /\ (Stroke \/ Repeat) => BoundApart' /\ BeginsFew
BY NoneBegin, HandleBegins DEF Stroke, Repeat, BoundApart, KeyGates, BeginsFew

LEMMA BindStep == BoundApart /\ BindKeys => BoundApart' /\ BeginsFew
<1> SUFFICES ASSUME BoundApart, BindKeys PROVE BoundApart' /\ BeginsFew
  OBVIOUS
<1>1. PICK a \in Bound, b \in Bindings \cup {Nothing} :
          /\ \A c \in Bound \ {a} : b = Nothing \/ gates.bound[c] = Nothing \/ ~Overlaps(b, gates.bound[c])
          /\ gates' = Idle([gates EXCEPT !.bound[a] = b, !.held = @ \ {a}], capture)
  BY DEF BindKeys
<1> DEFINE g == [gates EXCEPT !.bound[a] = b, !.held = @ \ {a}]
<1>2. /\ g \in KeyGates
      /\ g.held \subseteq gates.held
      /\ g.bound = [gates.bound EXCEPT ![a] = b]
  BY DEF BoundApart, KeyGates
<1>3. /\ gates' \in KeyGates
      /\ gates'.held \subseteq gates.held
      /\ gates'.bound = g.bound \/ gates'.bound = [c \in Bound |-> Nothing]
  <2>1. gates' = Idle(g, capture)
    BY <1>1
  <2> HIDE DEF g
  <2>2. QED
    BY <1>2, <2>1, IdleBegins
<1>4. keysDown' = keysDown
  BY DEF BindKeys
<1>5. \/ gates'.bound["talk"] = Nothing \/ gates'.bound["mute"] = Nothing
      \/ ~Overlaps(gates'.bound["talk"], gates'.bound["mute"])
  BY <1>2, <1>1, ApartIsSymmetric, <1>3 DEF Bound, BoundApart, KeyGates
<1>6. QED
  BY <1>3, <1>4, <1>5, NoneBegin DEF BoundApart, KeyGates

LEMMA RecordingSteps ==
    BoundApart /\ (StartRecording \/ CaptureBegins \/ StopRecording \/ DraftJudged) => BoundApart' /\ BeginsFew
BY IdleBegins, NoneBegin DEF StartRecording, CaptureBegins, StopRecording, DraftJudged, BoundApart, KeyGates, Bound

LEMMA KeysGoOn ==
    BoundApart /\ [ShortcutKeysNext]_shortcutKeyVars => BoundApart' /\ (BeginsFew \/ UNCHANGED shortcutKeyVars)
BY StrokeSteps, BindStep, RecordingSteps DEF BoundApart, KeyGates, shortcutKeyVars, ShortcutKeysNext

(* One press begins the hold of at most one action, unless both sides of the *)
(* modifier are down (input_bindings.rs, overlaps and handle), for any keys. *)
THEOREM PressesBeginOne == ShortcutKeysSpec => PressesBeginOneHold
<1>1. BoundApart /\ [ShortcutKeysNext]_shortcutKeyVars => [BeginsFew]_shortcutKeyVars
  BY KeysGoOn
<1>2. BoundApart /\ [ShortcutKeysNext]_shortcutKeyVars => BoundApart'
  BY KeysGoOn
<1>3. QED
  BY KeysStart, <1>1, <1>2, PTL DEF ShortcutKeysSpec, PressesBeginOneHold, BeginsFew

------------------------
(* The chord that is recorded.  Of a plain chord the hook holds what is down, *)
(* the page knows the side that is down, and the draft names what was seen. *)
Drafts == [key : PlainKeys \cup {NoKey}, mods : SUBSET (Sides \cup {AnySide})]
Stages == {"idle", "asked", "recording", "stopped"}

RecordingTypes ==
    /\ capture \in [there : BOOLEAN, on : BOOLEAN, held : SUBSET Keyboard, chord : SUBSET Keyboard]
    /\ recorder \in [stage : Stages, draft : Drafts, sides : SUBSET Sides]
    /\ odd \in BOOLEAN
    /\ keysDown \subseteq Keyboard

OneSide(keys) == keys \cap Sides \subseteq {LeftSide} \/ keys \cap Sides \subseteq {RightSide}

Drafted(draft, chord) ==
    \/ draft = Nothing /\ chord = {}
    \/ draft # Nothing /\ MatchesObserved(draft, chord)

PlainSoFar ==
    /\ capture.on = TRUE /\ capture.held = keysDown /\ keysDown \subseteq capture.chord
    /\ recorder.stage = "recording" => recorder.sides = keysDown \cap Sides
    /\ OneSide(capture.chord)
    /\ Drafted(recorder.draft, capture.chord)

RecordingInv ==
    /\ RecordingTypes
    /\ recorder.stage = "asked" /\ ~odd => keysDown = {} /\ recorder = Recorder("asked")
    /\ recorder.stage \in {"recording", "stopped"} /\ ~odd => PlainSoFar
    /\ recorder.stage = "stopped" => recorder.draft # Nothing
    /\ RecordedIsAccepted

\* A side that goes down on an empty keyboard begins a chord and a draft of its own.
LEMMA SideDrafted ==
    ASSUME NEW k \in Sides
    PROVE  Drafted(Binding(NoKey, {k}), {k}) /\ OneSide({k})
BY KeysAssumption DEF Sides, Binding, MatchesObserved, Nothing, Drafted, OneSide

\* A key that goes down on an empty keyboard, or after one side and no other key,
\* is drafted with that side, and the chord holds the two.
LEMMA KeyDrafted ==
    ASSUME NEW k \in PlainKeys, NEW chord, NEW draft, NEW side \in SUBSET Sides,
           Drafted(draft, chord), OneSide(chord), side # {}, side \subseteq chord, draft.key \in {NoKey, k}
    PROVE  Drafted(Binding(k, side), chord \cup {k}) /\ OneSide(chord \cup {k})
<1>1. k # NoKey /\ k \notin Sides /\ LeftSide # AnySide /\ RightSide # AnySide
  BY KeysAssumption DEF Sides
<1>2. MatchesObserved(draft, chord)
  BY DEF Drafted
<1>3. chord \ Sides \subseteq {k} /\ (chord \cup {k}) \ Sides = {k}
  BY <1>1, <1>2 DEF MatchesObserved
<1>4. (chord \cup {k}) \cap Sides = chord \cap Sides
  BY <1>1
<1>5. chord \cap Sides = side /\ side # {AnySide}
  BY <1>1 DEF OneSide, Sides
<1>6. Binding(k, side).key = k /\ Binding(k, side).mods = side
  BY DEF Binding
<1>7. MatchesObserved(Binding(k, side), chord \cup {k})
  BY <1>1, <1>3, <1>4, <1>5, <1>6 DEF MatchesObserved
<1>8. Binding(k, side) # Nothing
  BY <1>1, <1>6 DEF Nothing, Binding
<1> QED
  BY <1>4, <1>7, <1>8 DEF Drafted, OneSide

LEMMA LoneKeyDrafted ==
    ASSUME NEW k \in PlainKeys
    PROVE  Drafted(Binding(k, {}), {k}) /\ OneSide({k})
BY KeysAssumption DEF Sides, Binding, MatchesObserved, Nothing, Drafted, OneSide

\* Whatever key it is of, a draft is one.
LEMMA DraftTypes ==
    ASSUME NEW k \in Keyboard, k # StopKey, NEW r, r.sides \in SUBSET Sides
    PROVE  DraftOf(k, r) \in Drafts
BY DEF DraftOf, Binding, Drafts, Keyboard, RecordedSides

\* What the hook's capture is after a key, and what the page's row is.
LEMMA CaptureTypes ==
    ASSUME RecordingTypes, NEW k \in Keyboard, NEW isDown \in BOOLEAN
    PROVE  /\ CaptureSees(capture, k, isDown)
                \in [there : BOOLEAN, on : BOOLEAN, held : SUBSET Keyboard, chord : SUBSET Keyboard]
           /\ CaptureSees(capture, k, isDown).on = capture.on
           /\ CaptureSees(capture, k, isDown).held = IF isDown THEN capture.held \cup {k} ELSE capture.held \ {k}
           /\ CaptureSees(capture, k, isDown).chord =
                IF isDown THEN (IF capture.held = {} THEN {} ELSE capture.chord) \cup {k} ELSE capture.chord
<1>1. capture.held \in SUBSET Keyboard /\ capture.chord \in SUBSET Keyboard
  BY DEF RecordingTypes
<1>2. CASE isDown
  <2> DEFINE observed == (IF capture.held = {} THEN {} ELSE capture.chord) \cup {k}
             now == capture.held \cup {k}
  <2>1. observed \in SUBSET Keyboard /\ now \in SUBSET Keyboard
    BY <1>1
  <2>2. CaptureSees(capture, k, isDown) = [capture EXCEPT !.chord = observed, !.held = now]
    BY <1>2 DEF CaptureSees, RecordingTypes
  <2> HIDE DEF observed, now
  <2>3. /\ [capture EXCEPT !.chord = observed, !.held = now]
             \in [there : BOOLEAN, on : BOOLEAN, held : SUBSET Keyboard, chord : SUBSET Keyboard]
        /\ [capture EXCEPT !.chord = observed, !.held = now].on = capture.on
        /\ [capture EXCEPT !.chord = observed, !.held = now].held = now
        /\ [capture EXCEPT !.chord = observed, !.held = now].chord = observed
    BY <2>1 DEF RecordingTypes
  <2> QED
    BY <1>2, <2>2, <2>3 DEF observed, now
<1>3. CASE ~isDown
  <2> DEFINE now == capture.held \ {k}
  <2>1. now \in SUBSET Keyboard
    BY <1>1
  <2>2. CaptureSees(capture, k, isDown) = [capture EXCEPT !.held = now]
    BY <1>3 DEF CaptureSees
  <2> HIDE DEF now
  <2>3. /\ [capture EXCEPT !.held = now]
             \in [there : BOOLEAN, on : BOOLEAN, held : SUBSET Keyboard, chord : SUBSET Keyboard]
        /\ [capture EXCEPT !.held = now].on = capture.on
        /\ [capture EXCEPT !.held = now].held = now
        /\ [capture EXCEPT !.held = now].chord = capture.chord
    BY <2>1 DEF RecordingTypes
  <2> QED
    BY <1>3, <2>2, <2>3 DEF now
<1> QED
  BY <1>2, <1>3

LEMMA RowTypes ==
    ASSUME RecordingTypes, NEW k \in Keyboard, NEW isDown \in BOOLEAN
    PROVE  /\ PageSees(k, isDown) \in [stage : Stages, draft : Drafts, sides : SUBSET Sides]
           /\ PageSees(k, isDown).stage = recorder.stage
           /\ recorder.draft # Nothing => PageSees(k, isDown).draft # Nothing
           /\ ~isDown => PageSees(k, isDown).draft = recorder.draft
           /\ recorder.stage = "recording" =>
                 LET sides == IF isDown THEN recorder.sides \cup ({k} \cap Sides) ELSE recorder.sides \ {k}
                 IN /\ PageSees(k, isDown).sides = sides
                    /\ isDown /\ k # StopKey => PageSees(k, isDown).draft = DraftOf(k, [recorder EXCEPT !.sides = sides])
<1> DEFINE sides == IF isDown THEN recorder.sides \cup ({k} \cap Sides) ELSE recorder.sides \ {k}
           r == [recorder EXCEPT !.sides = sides]
<1>1. sides \in SUBSET Sides
  BY DEF RecordingTypes
<1>2. CASE recorder.stage \notin {"asked", "recording"}
  BY <1>2 DEF PageSees, RecordingTypes
<1>3. CASE recorder.stage \in {"asked", "recording"}
  <2>1. PageSees(k, isDown) = IF ~isDown \/ k = StopKey THEN r ELSE [r EXCEPT !.draft = DraftOf(k, r)]
    BY <1>3 DEF PageSees
  <2>2. r \in [stage : Stages, draft : Drafts, sides : SUBSET Sides] /\ r.stage = recorder.stage
        /\ r.draft = recorder.draft /\ r.sides = sides
    <3> HIDE DEF sides
    <3> QED
      BY <1>1 DEF RecordingTypes
  <2> HIDE DEF r
  <2>3. k # StopKey => DraftOf(k, r) \in Drafts /\ DraftOf(k, r) # Nothing
    BY <1>1, <2>2, DraftTypes, KeysAssumption DEF DraftOf, Binding, Nothing, Keyboard
  <2> DEFINE d == DraftOf(k, r)
  <2>4. k # StopKey => /\ [r EXCEPT !.draft = d] \in [stage : Stages, draft : Drafts, sides : SUBSET Sides]
                       /\ [r EXCEPT !.draft = d].stage = recorder.stage
                       /\ [r EXCEPT !.draft = d].draft = d
                       /\ [r EXCEPT !.draft = d].sides = sides
    <3> HIDE DEF d, sides
    <3> QED
      BY <2>2, <2>3 DEF d
  <2>5. CASE ~isDown \/ k = StopKey
    <3>1. PageSees(k, isDown) = r
      BY <2>1, <2>5
    <3> HIDE DEF sides
    <3> QED
      BY <3>1, <2>2, <2>5 DEF sides
  <2>6. CASE isDown /\ k # StopKey
    <3>1. PageSees(k, isDown) = [r EXCEPT !.draft = d]
      BY <2>1, <2>6
    <3>2. d = DraftOf(k, [recorder EXCEPT !.sides = sides]) /\ d # Nothing
      BY <2>3, <2>6 DEF r
    <3> HIDE DEF d
    <3> QED
      BY <3>1, <3>2, <2>4, <2>6
  <2> QED
    BY <2>5, <2>6
<1> QED
  BY <1>2, <1>3

\* One key down of a plain chord.
LEMMA PlainDown ==
    ASSUME RecordingTypes, PlainSoFar, recorder.stage = "recording",
           NEW k \in Keyboard, k \notin keysDown, PlainStroke(k),
           keysDown' = keysDown \cup {k}, capture' = CaptureSees(capture, k, TRUE), recorder' = PageSees(k, TRUE)
    PROVE  PlainSoFar'
<1> DEFINE sides == recorder.sides \cup ({k} \cap Sides)
           r == [recorder EXCEPT !.sides = sides]
<1>s. StopKey \notin Sides /\ k # StopKey /\ (k \in Sides \/ k \in PlainKeys)
  BY KeysAssumption DEF Keyboard, Sides, PlainStroke
<1>1. /\ capture'.on = capture.on /\ capture'.held = capture.held \cup {k}
      /\ capture'.chord = (IF capture.held = {} THEN {} ELSE capture.chord) \cup {k}
  BY CaptureTypes
<1>2. recorder'.stage = "recording" /\ recorder'.sides = sides /\ recorder'.draft = DraftOf(k, r)
  BY <1>s, RowTypes
<1>3. r.sides = sides
  BY DEF RecordingTypes
<1>6. sides = keysDown' \cap Sides
  BY DEF PlainSoFar
<1> HIDE DEF r, sides
<1>8. OneSide(capture'.chord) /\ Drafted(DraftOf(k, r), capture'.chord)
  <2>1. CASE k \in Sides
    BY <2>1, <1>1, SideDrafted DEF PlainStroke, PlainSoFar, DraftOf
  <2>2. CASE k \notin Sides /\ keysDown = {}
    BY <2>2, <1>1, <1>s, LoneKeyDrafted DEF PlainSoFar, DraftOf
  <2>3. CASE k \notin Sides /\ keysDown # {}
    <3>1. keysDown \in SUBSET Sides /\ recorder.draft.key \in {NoKey, k}
      BY <2>3 DEF PlainStroke
    <3>2. capture'.chord = capture.chord \cup {k} /\ keysDown \subseteq capture.chord
      BY <2>3, <1>1 DEF PlainSoFar
    <3>3. sides = keysDown
      BY <3>1, <2>3, <1>6
    <3>4. DraftOf(k, r) = Binding(k, keysDown)
      BY <2>3, <3>1, <3>3, <1>3 DEF DraftOf, RecordedSides
    <3>5. OneSide(capture.chord) /\ Drafted(recorder.draft, capture.chord) /\ k \in PlainKeys /\ keysDown # {}
      BY <2>3, <1>s DEF PlainSoFar
    <3>6. Drafted(Binding(k, keysDown), capture.chord \cup {k}) /\ OneSide(capture.chord \cup {k})
      BY <3>1, <3>2, <3>5, KeyDrafted
    <3> QED
      BY <3>2, <3>4, <3>6
  <2> QED
    BY <2>1, <2>2, <2>3
<1>9. capture'.on = TRUE /\ capture'.held = keysDown' /\ keysDown' \subseteq capture'.chord
  BY <1>1 DEF PlainSoFar
<1> QED
  BY <1>2, <1>6, <1>8, <1>9 DEF PlainSoFar

\* A key goes up: the draft and the chord stay.
LEMMA PlainUp ==
    ASSUME RecordingTypes, PlainSoFar, NEW k \in Keyboard,
           keysDown' = keysDown \ {k}, capture' = CaptureSees(capture, k, FALSE), recorder' = PageSees(k, FALSE)
    PROVE  PlainSoFar'
<1>1. /\ capture'.on = capture.on /\ capture'.held = capture.held \ {k}
      /\ capture'.chord = capture.chord
  BY CaptureTypes
<1>2. /\ recorder'.stage = recorder.stage /\ recorder'.draft = recorder.draft
      /\ recorder.stage = "recording" => recorder'.sides = recorder.sides \ {k}
  BY RowTypes
<1> QED
  BY <1>1, <1>2 DEF PlainSoFar

LEMMA RecordingStart == ShortcutKeysInit => RecordingInv
<1> SUFFICES ASSUME ShortcutKeysInit PROVE RecordingInv
  OBVIOUS
<1>1. Nothing \in Drafts
  BY DEF Nothing, Binding, Drafts
<1> QED
  BY <1>1 DEF ShortcutKeysInit, RecordingInv, RecordingTypes, RecordedIsAccepted, NoCapture, Recorder, Stages

LEMMA RecordingStroke == ASSUME RecordingInv, Stroke PROVE RecordingInv'
<1>t. RecordingTypes /\ RecordedIsAccepted
  BY DEF RecordingInv
<1>1. PICK k \in Keyboard :
          LET isDown == k \notin keysDown IN
          /\ keysDown' = IF isDown THEN keysDown \cup {k} ELSE keysDown \ {k}
          /\ capture' = IF capture.on THEN CaptureSees(capture, k, isDown) ELSE capture
          /\ recorder' = PageSees(k, isDown)
          /\ odd' = (odd \/ (isDown /\ (~PlainStroke(k) \/ recorder.stage \in {"asked", "stopped"})))
  BY DEF Stroke
<1> DEFINE isDown == k \notin keysDown
<1>2. capture' = CaptureSees(capture, k, isDown) \/ capture' = capture
  BY <1>1
<1>3. /\ recorder' \in [stage : Stages, draft : Drafts, sides : SUBSET Sides]
      /\ recorder'.stage = recorder.stage /\ (recorder.draft # Nothing => recorder'.draft # Nothing)
  BY <1>1, <1>t, RowTypes
<1>4. RecordingTypes'
  <2>1. capture' \in [there : BOOLEAN, on : BOOLEAN, held : SUBSET Keyboard, chord : SUBSET Keyboard]
    <3>1. CaptureSees(capture, k, isDown) \in [there : BOOLEAN, on : BOOLEAN, held : SUBSET Keyboard, chord : SUBSET Keyboard]
      BY <1>t, CaptureTypes
    <3> HIDE DEF isDown
    <3> QED
      BY <3>1, <1>2, <1>t DEF RecordingTypes
  <2>2. odd' \in BOOLEAN /\ keysDown' \subseteq Keyboard
    BY <1>1, <1>t DEF RecordingTypes
  <2> QED
    BY <2>1, <2>2, <1>3 DEF RecordingTypes
<1>5. ~odd' => ~odd /\ (isDown => PlainStroke(k) /\ recorder.stage \notin {"asked", "stopped"})
  BY <1>1
<1>6. RecordedIsAccepted'
  BY <1>1, <1>3, <1>t DEF Stroke, RecordedIsAccepted
<1>7. recorder'.stage = "stopped" => recorder'.draft # Nothing
  BY <1>3 DEF RecordingInv
<1>8. ~(recorder'.stage = "asked" /\ ~odd')
  BY <1>3, <1>5 DEF RecordingInv
<1>9. recorder'.stage \in {"recording", "stopped"} /\ ~odd' => PlainSoFar'
  BY <1>3, <1>5, <1>1, <1>t, PlainDown, PlainUp DEF RecordingInv, PlainSoFar
<1> QED
  BY <1>4, <1>6, <1>7, <1>8, <1>9 DEF RecordingInv

LEMMA RecordingRepeat == ASSUME RecordingInv, Repeat PROVE RecordingInv'
<1>1. PICK k \in keysDown : capture' = IF capture.on THEN CaptureSees(capture, k, TRUE) ELSE capture
  BY DEF Repeat
<1>2. UNCHANGED <<keysDown, recorder, verdict>> /\ (odd => odd') /\ odd' \in BOOLEAN
  BY DEF Repeat, RecordingInv, RecordingTypes
<1>3. RecordingTypes /\ k \in Keyboard
  BY DEF RecordingInv, RecordingTypes
<1>4. RecordingTypes'
  BY <1>1, <1>3, CaptureTypes, <1>2 DEF RecordingTypes
<1>5. PlainSoFar => PlainSoFar'
  <2> SUFFICES ASSUME PlainSoFar PROVE PlainSoFar'
    OBVIOUS
  <2>1. capture' = CaptureSees(capture, k, TRUE)
    BY <1>1 DEF PlainSoFar
  <2>2. /\ capture'.on = capture.on /\ capture'.held = capture.held \cup {k}
        /\ capture'.chord = (IF capture.held = {} THEN {} ELSE capture.chord) \cup {k}
    BY <2>1, <1>3, CaptureTypes
  <2>3. capture'.held = capture.held /\ capture'.chord = capture.chord
    BY <2>2 DEF PlainSoFar
  <2> QED
    BY <2>2, <2>3, <1>2 DEF PlainSoFar
<1> QED
  BY <1>2, <1>4, <1>5 DEF RecordingInv, RecordedIsAccepted

LEMMA RecordingRow ==
    ASSUME RecordingInv, StartRecording \/ CaptureBegins \/ StopRecording \/ DraftJudged \/ BindKeys
    PROVE  RecordingInv'
<1>t. RecordingTypes
  BY DEF RecordingInv
<1>n. Nothing \in Drafts
  BY DEF Nothing, Binding, Drafts
<1>c. NoCapture \in [there : BOOLEAN, on : BOOLEAN, held : SUBSET Keyboard, chord : SUBSET Keyboard]
  BY DEF NoCapture
<1>1. CASE StartRecording
  BY <1>1, <1>t, <1>n DEF StartRecording, Recorder, RecordingTypes, Stages, RecordingInv, RecordedIsAccepted
<1>2. CASE CaptureBegins
  <2>1. /\ recorder.stage = "asked" /\ recorder' = [recorder EXCEPT !.stage = "recording"]
        /\ capture' = [NoCapture EXCEPT !.there = TRUE, !.on = TRUE]
        /\ UNCHANGED <<keysDown, odd, verdict>>
    BY <1>2 DEF CaptureBegins
  <2>2. capture' = [there |-> TRUE, on |-> TRUE, held |-> {}, chord |-> {}]
    BY <2>1 DEF NoCapture
  <2>3. RecordingTypes' /\ recorder'.stage = "recording"
    BY <2>2, <2>1, <1>t DEF RecordingTypes, Stages
  <2>4. ~odd => PlainSoFar'
    <3> SUFFICES ASSUME ~odd PROVE PlainSoFar'
      OBVIOUS
    <3>1. keysDown = {} /\ recorder.draft = Nothing /\ recorder.sides = {}
      BY <2>1 DEF RecordingInv, Recorder
    <3>2. recorder'.draft = Nothing /\ recorder'.sides = {}
      BY <3>1, <2>1, <1>t DEF RecordingTypes
    <3>3. capture'.on = TRUE /\ capture'.held = {} /\ capture'.chord = {}
      BY <2>2
    <3>4. OneSide({}) /\ Drafted(Nothing, {})
      BY DEF OneSide, Drafted
    <3>5. recorder'.sides = keysDown' \cap Sides /\ capture'.held = keysDown' /\ keysDown' \subseteq capture'.chord
      BY <3>1, <3>2, <3>3, <2>1
    <3> QED
      BY <3>2, <3>3, <3>4, <3>5 DEF PlainSoFar
  <2> QED
    BY <2>1, <2>3, <2>4 DEF RecordingInv, RecordedIsAccepted
<1>3. CASE StopRecording
  <2>1. /\ recorder.stage = "recording" /\ recorder.draft # Nothing
        /\ recorder' = [recorder EXCEPT !.stage = "stopped"] /\ UNCHANGED <<keysDown, capture, odd, verdict>>
    BY <1>3 DEF StopRecording
  <2>2. RecordingTypes' /\ recorder'.stage = "stopped" /\ recorder'.draft = recorder.draft
    BY <2>1, <1>t DEF RecordingTypes, Stages
  <2>3. ~odd => PlainSoFar'
    BY <2>1, <2>2 DEF RecordingInv, PlainSoFar
  <2> QED
    BY <2>1, <2>2, <2>3 DEF RecordingInv, RecordedIsAccepted
<1>4. CASE DraftJudged
  <2>1. /\ recorder.stage = "stopped" /\ capture' = NoCapture /\ recorder' = Recorder("idle")
        /\ verdict' = IF MatchesObserved(recorder.draft, capture.chord) THEN "accepted" ELSE "refused"
        /\ UNCHANGED <<keysDown, odd>> /\ recorder'.stage = "idle"
    BY <1>4 DEF DraftJudged, Recorder
  <2>2. RecordingTypes'
    BY <2>1, <1>t, <1>n, <1>c DEF RecordingTypes, Recorder, Stages
  <2>3. ~odd => MatchesObserved(recorder.draft, capture.chord)
    BY <2>1 DEF RecordingInv, PlainSoFar, Drafted
  <2> QED
    BY <2>1, <2>2, <2>3 DEF RecordingInv, RecordedIsAccepted
<1>5. CASE BindKeys
  BY <1>5 DEF BindKeys, RecordingInv, RecordingTypes, PlainSoFar, RecordedIsAccepted
<1> QED
  BY <1>1, <1>2, <1>3, <1>4, <1>5

\* The draft of a plain chord names exactly the keys that the hook saw, so that what
\* the person recorded is not refused when the row is stopped.
THEOREM PlainChordsAreAccepted == ShortcutKeysSpec => []RecordedIsAccepted
<1>1. RecordingInv /\ [ShortcutKeysNext]_shortcutKeyVars => RecordingInv'
  BY RecordingStroke, RecordingRepeat, RecordingRow DEF shortcutKeyVars, RecordingInv, RecordingTypes, PlainSoFar,
     RecordedIsAccepted, ShortcutKeysNext
<1>2. RecordingInv => RecordedIsAccepted
  BY DEF RecordingInv
<1> QED
  BY <1>1, <1>2, RecordingStart, PTL DEF ShortcutKeysSpec

------------------------
(* The settings of the shortcuts. *)
ShortcutRequests == [id : Nat, action : Shortcuts, binding : Bindable, generation : Nat]
PageCommands ==
    [op : {"on", "off", "set", "ask", "reset"}, action : Shortcuts, binding : Bindable, window : Nat]

NativeTypes ==
    /\ saved \in [Shortcuts -> Bindable] /\ active \in [Shortcuts -> Bindable]
    /\ failed \in [Shortcuts -> BOOLEAN] /\ hotkeys \in [Shortcuts -> SUBSET Bindable]

SettingTypes ==
    /\ NativeTypes
    /\ window \in Nat \ {0}
    /\ remoteShortcuts \in [next : Nat, pending : ShortcutRequests, live : BOOLEAN]
    /\ hookChord \in [there : BOOLEAN, on : BOOLEAN, keys : Bindable]
    /\ commands \subseteq PageCommands
    /\ row \in [action : Shortcuts \cup {"none"}, draft : Bindable]
    /\ row # NoRow => row.action \in Shortcuts
    /\ told \in Seq(ShortcutRequests)
    /\ dialog \in [request : ShortcutRequests, listeners : SUBSET Nat, closings : Nat, confirmed : BOOLEAN]
    /\ answers \subseteq [id : Nat, accept : BOOLEAN]

Registration == \A a \in Shortcuts : hotkeys[a] = Registered(active[a]) /\ (active[a] = saved[a] \/ failed[a])
SavesOnly(a, b) == \A x \in Shortcuts : saved'[x] # saved[x] => x = a /\ saved'[x] = b

\* Whatever the system does in the course of a change, what it registered, what is
\* taken to be active and what is saved are as they should be afterwards.
LEMMA AfterKeeps ==
    ASSUME NativeTypes, NEW a \in Shortcuts, NEW s \in Bindable, NEW b \in Bindable, NEW f \in BOOLEAN,
           b = s \/ f, After(a, s, b, f, Registered(b))
    PROVE  /\ NativeTypes'
           /\ Registration => Registration'
           /\ SavesOnly(a, s)
BY DEF Registered, NativeTypes, After, Registration, SavesOnly

LEMMA SameKeeps ==
    ASSUME NativeTypes, UNCHANGED nativeVars, NEW a, NEW b
    PROVE  /\ NativeTypes'
           /\ Registration => Registration'
           /\ SavesOnly(a, b)
BY DEF NativeTypes, Registration, nativeVars, SavesOnly

LEMMA SetKeeps ==
    ASSUME NativeTypes, Registration, NEW a \in Shortcuts, NEW b \in Bindable, SetShortcut(a, b)
    PROVE  NativeTypes' /\ Registration' /\ SavesOnly(a, b)
<1> DEFINE StaysSound == NativeTypes' /\ Registration' /\ SavesOnly(a, b)
<1>u. UNCHANGED nativeVars => StaysSound
  BY SameKeeps
<1>a. active[a] \in Bindable /\ saved[a] \in Bindable /\ hotkeys[a] = Registered(active[a])
  BY DEF NativeTypes, Registration
<1>e. Unset \in Bindable /\ Registered(Unset) = {} /\ (b # Unset => Registered(b) = {b})
  BY DEF Bindable, Registered
<1>l. SavesOnly(a, saved[a]) => SavesOnly(a, b)
  BY DEF SavesOnly
<1>p. PutBack(a, {}) => StaysSound
  BY <1>a, AfterKeeps, <1>l, <1>e DEF PutBack
<1>d. After(a, b, b, FALSE, Registered(b)) => StaysSound
  BY AfterKeeps
<1>f. b # Unset /\ After(a, saved[a], b, TRUE, {b}) => StaysSound
  BY <1>e, <1>a, AfterKeeps, <1>l
<1>c. Change(a, b) => StaysSound
  BY <1>u, <1>d, <1>a, <1>p, <1>f DEF Change, Undone
<1> QED
  BY <1>c, <1>u DEF SetShortcut

\* The types of what the page, the native code and Home keep.
LEMMA SettingTypesStart == ShortcutSettingsInit => SettingTypes /\ Registration
<1> SUFFICES ASSUME ShortcutSettingsInit PROVE SettingTypes /\ Registration
  OBVIOUS
<1>1. NativeTypes /\ Registration
  BY DEF ShortcutSettingsInit, NativeTypes, Registration, Registered, Bindable
<1>2. NoRequest \in ShortcutRequests
  BY DEF NoRequest, ShortcutRequests, Shortcuts, Bindable
<1>3. told \in Seq(ShortcutRequests)
  BY DEF ShortcutSettingsInit
<1> QED
  BY <1>1, <1>2, <1>3 DEF ShortcutSettingsInit, SettingTypes, NoChord, NoRow, NoDialog, Bindable

LEMMA PageTypes ==
    ASSUME SettingTypes, RowRecords \/ RowCancels \/ RowStops \/ RowClears \/ RowResets \/ PressChord
    PROVE  SettingTypes' /\ UNCHANGED nativeVars
<1>1. UNCHANGED nativeVars /\ NativeTypes' /\ UNCHANGED <<window, remoteShortcuts, told, dialog, answers>>
  BY DEF RowRecords, RowCancels, RowStops, RowClears, RowResets, PressChord, nativeVars, SettingTypes, NativeTypes
<1>s. \A op \in {"on", "off", "set", "ask", "reset"}, a \in Shortcuts, b \in Bindable :
         PageSends(op, a, b) \in PageCommands
  BY DEF PageSends, PageCommands, SettingTypes
<1>r. "talk" \in Shortcuts /\ Unset \in Bindable /\ Chords \subseteq Bindable
  BY DEF Shortcuts, Bindable
<1>n. RecordOn \in PageCommands /\ RecordOff \in PageCommands
  BY <1>s, <1>r DEF RecordOn, RecordOff
<1> DEFINE CommandsFit == (commands \subseteq PageCommands)'
           RowFits == (row \in [action : Shortcuts \cup {"none"}, draft : Bindable])' /\ (row # NoRow => row.action \in Shortcuts)'
           HookFits == (hookChord \in [there : BOOLEAN, on : BOOLEAN, keys : Bindable])'
<1>2. CommandsFit /\ RowFits /\ HookFits
  BY <1>n, <1>r, <1>s DEF RowRecords, SettingTypes, RowCancels, RowEnds, NoRow, RowStops, RowClears, RowResets,
     PressChord
<1> QED
  BY <1>1, <1>2 DEF SettingTypes

LEMMA ShellTypes ==
    ASSUME SettingTypes,
           ServeOn \/ ServeOff \/ Alarm \/ Expired \/ ServeSet \/ Propose \/ ReplaceWindow
    PROVE  SettingTypes' /\ UNCHANGED nativeVars
<1>r. NoRequest \in ShortcutRequests /\ NoChord \in [there : BOOLEAN, on : BOOLEAN, keys : Bindable]
  BY DEF NoRequest, ShortcutRequests, Shortcuts, Bindable, NoChord
<1>1. CASE ServeOn
  BY <1>1, <1>r DEF ServeOn, ServesCommand, SettingTypes, NativeTypes, nativeVars, rowVars, NoChord
<1>2. CASE ServeOff
  BY <1>2 DEF ServeOff, ServesCommand, SettingTypes, NativeTypes, nativeVars, rowVars
<1>3. CASE Alarm
  BY <1>3 DEF Alarm, SettingTypes, NativeTypes, nativeVars, rowVars
<1>4. CASE Expired
  BY <1>4, <1>r DEF Expired, SettingTypes, NativeTypes, nativeVars, rowVars
<1>5. CASE ServeSet
  <2>1. PICK c \in commands :
           /\ hookChord' = NoChord
           /\ commands' = (commands \ {c}) \cup (IF Authorized(c) THEN {[c EXCEPT !.op = "ask"]} ELSE {})
    BY <1>5 DEF ServeSet
  <2>2. [c EXCEPT !.op = "ask"] \in PageCommands
    BY DEF SettingTypes, PageCommands
  <2>3. commands' \subseteq PageCommands
    BY <2>1, <2>2 DEF SettingTypes
  <2> QED
    BY <1>5, <2>1, <2>3, <1>r DEF ServeSet, SettingTypes, NativeTypes, nativeVars
<1>6. CASE Propose
  <2>1. PICK c \in commands :
          LET r == [id |-> remoteShortcuts.next + 1, action |-> c.action, binding |-> c.binding, generation |-> window] IN
          /\ remoteShortcuts' = [remoteShortcuts EXCEPT !.next = @ + 1, !.pending = r]
          /\ commands' = commands \ {c} /\ told' = Append(told, r)
    BY <1>6 DEF Propose
  <2> DEFINE r == [id |-> remoteShortcuts.next + 1, action |-> c.action, binding |-> c.binding, generation |-> window]
  <2>2. r \in ShortcutRequests
    BY DEF SettingTypes, PageCommands, ShortcutRequests
  <2>3. remoteShortcuts' \in [next : Nat, pending : ShortcutRequests, live : BOOLEAN]
    <3>1. remoteShortcuts' = [next |-> remoteShortcuts.next + 1, pending |-> r, live |-> remoteShortcuts.live]
      BY <2>1 DEF SettingTypes
    <3>2. remoteShortcuts.next + 1 \in Nat /\ remoteShortcuts.live \in BOOLEAN
      BY DEF SettingTypes
    <3> HIDE DEF r
    <3> QED
      BY <3>1, <3>2, <2>2
  <2>4. told' \in Seq(ShortcutRequests)
    BY <2>1, <2>2 DEF SettingTypes
  <2> QED
    BY <1>6, <2>1, <2>3, <2>4 DEF Propose, SettingTypes, NativeTypes, nativeVars
<1>7. CASE ReplaceWindow
  <2>1. remoteShortcuts' \in [next : Nat, pending : ShortcutRequests, live : BOOLEAN]
    BY <1>7, <1>r DEF ReplaceWindow, SettingTypes
  <2> QED
    BY <1>7, <2>1, <1>r DEF ReplaceWindow, SettingTypes, NativeTypes, nativeVars, NoRow, Bindable
<1> QED
  BY <1>1, <1>2, <1>3, <1>4, <1>5, <1>6, <1>7

LEMMA HomeTypes ==
    ASSUME SettingTypes, HearRequest \/ DialogConfirmed \/ DialogCancelled \/ DialogCloses \/ MoveToFront
    PROVE  SettingTypes' /\ UNCHANGED nativeVars
<1> DEFINE Dialogs == [request : ShortcutRequests, listeners : SUBSET Nat, closings : Nat, confirmed : BOOLEAN]
<1>r. NoRequest \in ShortcutRequests
  BY DEF NoRequest, ShortcutRequests, Shortcuts, Bindable
<1>1. CASE HearRequest
  <2>1. Head(told) \in ShortcutRequests /\ Tail(told) \in Seq(ShortcutRequests)
    BY <1>1 DEF HearRequest, SettingTypes
  <2>2. Head(told).id \in Nat
    BY <2>1 DEF ShortcutRequests
  <2>3. dialog' \in Dialogs
    BY <1>1, <2>1, <2>2 DEF HearRequest, SettingTypes
  <2> QED
    BY <1>1, <2>1, <2>3 DEF HearRequest, SettingTypes, NativeTypes, nativeVars, rowVars
<1>2. ASSUME NEW said \in BOOLEAN, Dialog(said) PROVE SettingTypes' /\ UNCHANGED nativeVars
  <2>1. dialog' \in Dialogs
    <3>1. dialog' = [request |-> NoRequest, listeners |-> dialog.listeners, closings |-> dialog.closings + 1,
                     confirmed |-> said]
      BY <1>2 DEF Dialog, SettingTypes
    <3>2. dialog.listeners \in SUBSET Nat /\ dialog.closings + 1 \in Nat
      BY DEF SettingTypes
    <3> QED
      BY <3>1, <3>2, <1>r
  <2> QED
    BY <1>2, <2>1 DEF Dialog, SettingTypes, NativeTypes, nativeVars, rowVars
<1>3. CASE DialogCloses
  <2>1. dialog' \in Dialogs
    <3>1. dialog' = [request |-> dialog.request, listeners |-> {}, closings |-> dialog.closings - 1,
                     confirmed |-> dialog.confirmed]
      BY <1>3 DEF DialogCloses, SettingTypes
    <3>2. dialog.request \in ShortcutRequests /\ dialog.closings - 1 \in Nat /\ dialog.confirmed \in BOOLEAN
      BY <1>3 DEF DialogCloses, SettingTypes
    <3> QED
      BY <3>1, <3>2
  <2>2. answers' \subseteq [id : Nat, accept : BOOLEAN]
    BY <1>3 DEF DialogCloses, SettingTypes
  <2> QED
    BY <1>3, <2>1, <2>2 DEF DialogCloses, SettingTypes, NativeTypes, nativeVars, rowVars
<1>4. CASE MoveToFront
  BY <1>4 DEF MoveToFront, SettingTypes, NativeTypes, nativeVars, rowVars
<1> QED
  BY <1>1, <1>2, <1>3, <1>4 DEF DialogConfirmed, DialogCancelled

LEMMA ChangeTypes ==
    ASSUME SettingTypes, Registration, ServeReset \/ ServeAnswer \/ HomeChanges
    PROVE  SettingTypes' /\ Registration' /\ UNCHANGED <<hookChord, expiring>>
<1>r. NoRequest \in ShortcutRequests
  BY DEF NoRequest, ShortcutRequests, Shortcuts, Bindable
<1>n. NativeTypes
  BY DEF SettingTypes
<1>1. CASE ServeReset
  BY <1>1, <1>n, SetKeeps DEF ServeReset, SettingTypes, PageCommands
<1>2. CASE ServeAnswer
  <2>1. PICK x \in answers :
          LET r == AnsweredRequest(x.id) IN
          /\ answers' = answers \ {x}
          /\ remoteShortcuts' = IF remoteShortcuts.pending.id = x.id THEN [remoteShortcuts EXCEPT !.pending = NoRequest] ELSE remoteShortcuts
          /\ IF x.accept /\ r # NoRequest THEN SetShortcut(r.action, r.binding) ELSE UNCHANGED nativeVars
    BY <1>2 DEF ServeAnswer
  <2> DEFINE r == AnsweredRequest(x.id)
  <2>2. r \in ShortcutRequests
    BY <1>r DEF AnsweredRequest, SettingTypes
  <2>3. r.action \in Shortcuts /\ r.binding \in Bindable
    BY <2>2 DEF ShortcutRequests
  <2> HIDE DEF r
  <2>4. SetShortcut(r.action, r.binding) => NativeTypes' /\ Registration'
    BY <2>3, <1>n, SetKeeps
  <2>5. UNCHANGED nativeVars => NativeTypes' /\ Registration'
    BY <1>n, SameKeeps
  <2>6. NativeTypes' /\ Registration'
    BY <2>1, <2>4, <2>5 DEF r
  <2>7. remoteShortcuts' \in [next : Nat, pending : ShortcutRequests, live : BOOLEAN]
    BY <2>1, <1>r DEF SettingTypes
  <2> QED
    BY <1>2, <2>1, <2>6, <2>7 DEF ServeAnswer, SettingTypes, rowVars
<1>3. CASE HomeChanges
  BY <1>3, <1>n, SetKeeps DEF HomeChanges, SettingTypes, rowVars
<1> QED
  BY <1>1, <1>2, <1>3

\* The hook captures only while a recording is live or its expiry is under way.
Captures == hookChord.on => remoteShortcuts.live \/ expiring

LEMMA OrderStep ==
    ASSUME SettingTypes, Registration, Captures, [ShortcutSettingsNext]_shortcutSettingVars
    PROVE  SettingTypes' /\ Registration' /\ Captures'
<1>s. UNCHANGED nativeVars => Registration'
  BY DEF Registration, nativeVars
<1>1. CASE RowRecords \/ RowCancels \/ RowStops \/ RowClears \/ RowResets \/ PressChord
  BY <1>1, <1>s, PageTypes DEF RowRecords, RowCancels, RowStops, RowClears, RowResets, PressChord, SettingTypes,
     Captures
<1>2. CASE ServeOn \/ ServeOff \/ Alarm \/ Expired \/ ServeSet \/ Propose \/ ReplaceWindow
  <2>1. SettingTypes' /\ Registration'
    BY <1>2, <1>s, ShellTypes
  <2>2. CASE ServeOn
    BY <2>2, <2>1 DEF ServeOn, SettingTypes, Captures
  <2>3. CASE ServeOff
    BY <2>3, <2>1 DEF ServeOff, SettingTypes, Captures
  <2>4. CASE Alarm
    BY <2>4, <2>1 DEF Alarm, Captures
  <2>5. CASE Expired \/ ServeSet \/ ReplaceWindow
    BY <2>5, <2>1 DEF Expired, ServeSet, ReplaceWindow, NoChord, Captures
  <2>6. CASE Propose
    BY <2>6, <2>1 DEF Propose, SettingTypes, Captures
  <2> QED
    BY <1>2, <2>1, <2>2, <2>3, <2>4, <2>5, <2>6
<1>3. CASE HearRequest \/ DialogConfirmed \/ DialogCancelled \/ DialogCloses \/ MoveToFront
  BY <1>3, <1>s, HomeTypes DEF HearRequest, DialogConfirmed, DialogCancelled, Dialog, DialogCloses, MoveToFront,
     Captures
<1>4. CASE ServeReset \/ ServeAnswer \/ HomeChanges
  BY <1>4, ChangeTypes DEF ServeReset, ServeAnswer, HomeChanges, SettingTypes, Captures
<1>5. CASE UNCHANGED shortcutSettingVars
  BY <1>5, <1>s DEF shortcutSettingVars, nativeVars, SettingTypes, NativeTypes, rowVars, Captures
<1> QED
  BY <1>1, <1>2, <1>3, <1>4, <1>5 DEF ShortcutSettingsNext

\* What is registered with the system, taken to be active, saved and shown as an
\* error agrees at every moment of every change, and no capture outlives its expiry.
THEOREM ShortcutsStayInOrder == ShortcutSettingsSpec => []ShortcutsAreInOrder
<1> DEFINE Ordered == SettingTypes /\ Registration /\ Captures
<1>1. ShortcutSettingsInit => Ordered
  BY SettingTypesStart DEF ShortcutSettingsInit, NoChord, Captures
<1>2. Ordered /\ [ShortcutSettingsNext]_shortcutSettingVars => Ordered'
  BY OrderStep
<1>3. Ordered => ShortcutsAreInOrder
  BY DEF Registration, Captures, ShortcutsAreInOrder
<1> QED
  BY <1>1, <1>2, <1>3, PTL DEF ShortcutSettingsSpec

------------------------
(* Consent.  Requests are numbered: what Home hears of, shows and answers is *)
(* never newer than what was proposed last, and only the last is pending. *)
Consented(r) == r.id # 0 => <<r.action, r.binding>> \in agreed
IsPending(r) == r.id = remoteShortcuts.pending.id /\ r.id # 0
                  => r.action = remoteShortcuts.pending.action /\ r.binding = remoteShortcuts.pending.binding

RequestNumbers ==
    /\ remoteShortcuts.pending.id \in {0, remoteShortcuts.next}
    /\ remoteShortcuts.pending.id = 0 => remoteShortcuts.pending.generation = 0
    /\ dialog.request.id <= remoteShortcuts.next
    /\ \A n \in dialog.listeners :
          n <= remoteShortcuts.next /\ (dialog.request # NoRequest => n <= dialog.request.id)
    /\ \A x \in answers : x.id <= remoteShortcuts.next
    /\ \A i \in 1..Len(told) :
          /\ told[i].id <= remoteShortcuts.next
          /\ dialog.request.id < told[i].id
          /\ \A n \in dialog.listeners : n < told[i].id
    /\ \A i, j \in 1..Len(told) : i < j => told[i].id < told[j].id

Requested == IsPending(dialog.request) /\ \A i \in 1..Len(told) : IsPending(told[i])

Agreements ==
    /\ \A c \in commands : c.op = "reset" => <<c.action, c.binding>> \in agreed
    /\ dialog.confirmed /\ remoteShortcuts.pending.id \in dialog.listeners => Consented(remoteShortcuts.pending)
    /\ \A x \in answers : x.accept /\ x.id = remoteShortcuts.pending.id => Consented(remoteShortcuts.pending)

ConsentInv == RequestNumbers /\ Requested /\ Agreements

\* Steps that leave the requests and what was said to them alone.
LEMMA ConsentElsewhere ==
    ASSUME ConsentInv, UNCHANGED <<dialog, answers, told>>, agreed \subseteq agreed',
           remoteShortcuts'.next = remoteShortcuts.next, remoteShortcuts'.pending = remoteShortcuts.pending,
           \A c \in commands' : c.op = "reset" => <<c.action, c.binding>> \in agreed'
    PROVE  ConsentInv'
BY DEF ConsentInv, RequestNumbers, Requested, IsPending, Consented, Agreements

\* A request that is withdrawn, or was answered, is pending no more.
LEMMA ConsentWithdrawn ==
    ASSUME SettingTypes, ConsentInv, UNCHANGED <<dialog, told, commands, agreed>>, answers' \subseteq answers,
           remoteShortcuts'.next = remoteShortcuts.next, remoteShortcuts'.pending = NoRequest
    PROVE  ConsentInv'
BY DEF NoRequest, ConsentInv, RequestNumbers, Requested, IsPending, Consented, Agreements

LEMMA ConsentProposed == ASSUME SettingTypes, ConsentInv, Propose PROVE ConsentInv'
<1>1. PICK c \in commands :
        LET r == [id |-> remoteShortcuts.next + 1, action |-> c.action, binding |-> c.binding, generation |-> window] IN
        /\ remoteShortcuts' = [remoteShortcuts EXCEPT !.next = @ + 1, !.pending = r]
        /\ commands' = commands \ {c} /\ told' = Append(told, r)
  BY DEF Propose
<1> DEFINE r == [id |-> remoteShortcuts.next + 1, action |-> c.action, binding |-> c.binding, generation |-> window]
<1>2. /\ remoteShortcuts'.next = remoteShortcuts.next + 1 /\ remoteShortcuts'.pending = r
      /\ remoteShortcuts.next \in Nat
  BY <1>1 DEF SettingTypes
<1>3. r.id = remoteShortcuts.next + 1
  OBVIOUS
<1>4. told' = Append(told, r) /\ told \in Seq(ShortcutRequests) /\ r \in ShortcutRequests
  BY <1>1 DEF SettingTypes, PageCommands, ShortcutRequests
<1>5. UNCHANGED <<dialog, answers, agreed>> /\ commands' \subseteq commands
  BY <1>1 DEF Propose
<1>6. dialog.listeners \subseteq Nat /\ dialog.request.id \in Nat
  BY DEF SettingTypes, ShortcutRequests
<1>n. \A x \in answers : x.id \in Nat
  BY DEF SettingTypes
<1> HIDE DEF r
<1>7. /\ Len(told') = Len(told) + 1 /\ Len(told) \in Nat
      /\ \A i \in 1..Len(told) : told'[i] = told[i] /\ told[i].id \in Nat
      /\ told'[Len(told) + 1] = r
  <2>1. \A i \in 1..Len(told) : told[i] \in ShortcutRequests
    BY <1>4
  <2>2. \A i \in 1..Len(told) : told[i].id \in Nat
    BY <2>1 DEF ShortcutRequests
  <2> QED
    BY <1>4, <2>2
<1>8. \A i \in 1..Len(told') : i = Len(told) + 1 \/ i \in 1..Len(told)
  BY <1>7
<1>9. RequestNumbers'
  <2>1. /\ remoteShortcuts'.pending.id \in {0, remoteShortcuts'.next}
        /\ remoteShortcuts'.pending.id = 0 => remoteShortcuts'.pending.generation = 0
    BY <1>2, <1>3
  <2>2. /\ dialog.request.id <= remoteShortcuts'.next
        /\ \A n \in dialog.listeners :
              n <= remoteShortcuts'.next /\ (dialog.request # NoRequest => n <= dialog.request.id)
        /\ \A x \in answers : x.id <= remoteShortcuts'.next
    BY <1>2, <1>6, <1>n DEF ConsentInv, RequestNumbers
  <2>3. ASSUME NEW i \in 1..Len(told')
        PROVE  /\ told'[i].id <= remoteShortcuts'.next
               /\ dialog.request.id < told'[i].id
               /\ \A n \in dialog.listeners : n < told'[i].id
    BY <2>3, <1>2, <1>3, <1>6, <1>7, <1>8 DEF ConsentInv, RequestNumbers
  <2>4. ASSUME NEW i \in 1..Len(told'), NEW j \in 1..Len(told'), i < j
        PROVE  told'[i].id < told'[j].id
    BY <2>4, <1>7, <1>2, <1>3, <1>8 DEF ConsentInv, RequestNumbers
  <2> QED
    BY <2>1, <2>2, <2>3, <2>4, <1>5 DEF RequestNumbers
<1>10. Requested'
  BY <1>2, <1>3, <1>6, <1>7, <1>8, <1>5 DEF ConsentInv, RequestNumbers, Requested, IsPending
<1>11. Agreements'
  BY <1>2, <1>3, <1>6, <1>n, <1>5 DEF ConsentInv, RequestNumbers, Agreements
<1> QED
  BY <1>9, <1>10, <1>11 DEF ConsentInv

LEMMA ConsentHeard == ASSUME SettingTypes, ConsentInv, HearRequest PROVE ConsentInv'
<1>1. /\ told # <<>> /\ told' = Tail(told) /\ told \in Seq(ShortcutRequests)
      /\ UNCHANGED <<remoteShortcuts, commands, answers, agreed>>
  BY DEF HearRequest, SettingTypes
<1>2. /\ dialog'.request = Head(told) /\ dialog'.listeners = dialog.listeners \cup {Head(told).id}
      /\ dialog'.confirmed = FALSE
  BY DEF HearRequest
<1>3. /\ Head(told) = told[1] /\ 1 \in 1..Len(told)
      /\ \A i \in 1..Len(told') : i + 1 \in 1..Len(told) /\ told'[i] = told[i + 1] /\ i \in Nat /\ 1 < i + 1
      /\ \A i \in 1..Len(told) : told[i].id \in Nat
  <2>1. \A i \in 1..Len(told) : told[i] \in ShortcutRequests
    BY <1>1
  <2>2. \A i \in 1..Len(told) : told[i].id \in Nat
    BY <2>1 DEF ShortcutRequests
  <2> QED
    BY <1>1, <2>2
<1>4. dialog.listeners \subseteq Nat /\ remoteShortcuts.next \in Nat
  BY DEF SettingTypes
<1>5. RequestNumbers'
  <2>1. /\ Head(told).id <= remoteShortcuts.next
        /\ \A n \in dialog'.listeners : n <= remoteShortcuts.next /\ n <= Head(told).id
    BY <1>2, <1>3, <1>4 DEF ConsentInv, RequestNumbers
  <2>2. ASSUME NEW i \in 1..Len(told')
        PROVE  /\ told'[i].id <= remoteShortcuts.next
               /\ Head(told).id < told'[i].id
               /\ \A n \in dialog'.listeners : n < told'[i].id
    BY <1>3, <1>2 DEF ConsentInv, RequestNumbers
  <2>3. \A i, j \in 1..Len(told') : i < j => told'[i].id < told'[j].id
    <3> SUFFICES ASSUME NEW i \in 1..Len(told'), NEW j \in 1..Len(told'), i < j PROVE told'[i].id < told'[j].id
      OBVIOUS
    <3>1. i + 1 < j + 1
      BY <1>3
    <3> QED
      BY <3>1, <1>3 DEF ConsentInv, RequestNumbers
  <2> QED
    BY <2>1, <2>2, <2>3, <1>1, <1>2 DEF ConsentInv, RequestNumbers
<1>6. Requested'
  BY <1>1, <1>2, <1>3 DEF ConsentInv, Requested, IsPending
<1>7. Agreements'
  BY <1>1, <1>2 DEF ConsentInv, Agreements, Consented
<1> QED
  BY <1>5, <1>6, <1>7 DEF ConsentInv

LEMMA ConsentSaid == ASSUME SettingTypes, ConsentInv, NEW said \in BOOLEAN, Dialog(said) PROVE ConsentInv'
<1>1. /\ dialog'.request = NoRequest /\ dialog'.listeners = dialog.listeners /\ dialog'.confirmed = said
      /\ UNCHANGED <<remoteShortcuts, commands, answers, told>> /\ dialog.request # NoRequest
      /\ agreed' = IF said THEN agreed \cup {<<dialog.request.action, dialog.request.binding>>} ELSE agreed
  BY DEF Dialog, SettingTypes
<1>2. NoRequest.id = 0
  BY DEF NoRequest
<1>3. RequestNumbers'
  <2>1. remoteShortcuts.next \in Nat /\ dialog.request.id \in Nat /\ \A i \in 1..Len(told) : told[i].id \in Nat
    <3>1. told \in Seq(ShortcutRequests)
      BY DEF SettingTypes
    <3>2. \A i \in 1..Len(told) : told[i] \in ShortcutRequests
      BY <3>1
    <3> QED
      BY <3>2 DEF SettingTypes, ShortcutRequests
  <2>2. 0 <= remoteShortcuts.next /\ \A i \in 1..Len(told) : 0 < told[i].id
    BY <2>1 DEF ConsentInv, RequestNumbers
  <2> QED
    BY <1>1, <1>2, <2>2 DEF ConsentInv, RequestNumbers
<1>4. Requested'
  BY <1>1, <1>2 DEF ConsentInv, Requested, IsPending
<1>5. Consented(remoteShortcuts.pending) => Consented(remoteShortcuts.pending)'
  BY <1>1 DEF Consented
<1>6. said /\ remoteShortcuts.pending.id \in dialog.listeners => Consented(remoteShortcuts.pending)'
  BY <1>1 DEF Consented, SettingTypes, ShortcutRequests, ConsentInv, RequestNumbers, Requested, IsPending
<1>7. Agreements'
  BY <1>1, <1>5, <1>6 DEF ConsentInv, Agreements
<1> QED
  BY <1>3, <1>4, <1>7 DEF ConsentInv

LEMMA ConsentAnswered == ASSUME SettingTypes, ConsentInv, DialogCloses PROVE ConsentInv'
<1>1. /\ dialog'.request = dialog.request /\ dialog'.listeners = {} /\ dialog'.confirmed = dialog.confirmed
      /\ UNCHANGED <<remoteShortcuts, commands, told, agreed>>
      /\ answers' = answers \cup {[id |-> n, accept |-> dialog.confirmed] : n \in dialog.listeners}
  BY DEF DialogCloses, SettingTypes
<1>2. \A x \in answers' : x \in answers \/ (x.id \in dialog.listeners /\ x.accept = dialog.confirmed)
  BY <1>1
<1>3. RequestNumbers'
  BY <1>1, <1>2 DEF ConsentInv, RequestNumbers
<1>4. Requested'
  BY <1>1 DEF ConsentInv, Requested, IsPending
<1>5. Consented(remoteShortcuts.pending) => Consented(remoteShortcuts.pending)'
  BY <1>1 DEF Consented
<1>6. Agreements'
  BY <1>1, <1>2, <1>5 DEF ConsentInv, Agreements
<1> QED
  BY <1>3, <1>4, <1>6 DEF ConsentInv

LEMMA ConsentStart == ShortcutSettingsInit => ConsentInv
BY DEF ShortcutSettingsInit, RequestNumbers, NoDialog, NoRequest, Requested, IsPending, Agreements, ConsentInv

Agreed == \A a \in Shortcuts : saved'[a] # saved[a] => <<a, saved'[a]>> \in agreed'

LEMMA ConsentStep ==
    ASSUME SettingTypes, Registration, ConsentInv, [ShortcutSettingsNext]_shortcutSettingVars
    PROVE  ConsentInv' /\ Agreed
<1>n. NativeTypes
  BY DEF SettingTypes
<1>u. UNCHANGED nativeVars => Agreed
  BY DEF nativeVars, Agreed
<1>k. \A c \in commands : c.op = "reset" => <<c.action, c.binding>> \in agreed
  BY DEF ConsentInv, Agreements
<1>1. CASE RowRecords \/ RowCancels \/ RowStops \/ RowClears \/ RowResets \/ PressChord
  <2>1. /\ UNCHANGED <<remoteShortcuts, dialog, answers, told>> /\ agreed \subseteq agreed'
        /\ UNCHANGED nativeVars
    BY <1>1 DEF RowRecords, RowCancels, RowStops, RowClears, RowResets, PressChord
  <2>2. \A a, b : \A op \in {"on", "off", "set", "ask"} : PageSends(op, a, b).op # "reset"
    BY DEF PageSends
  <2>3. RecordOn.op # "reset" /\ RecordOff.op # "reset"
    BY DEF RecordOn, RecordOff, PageSends
  <2>4. \A c \in commands' : c.op = "reset" => <<c.action, c.binding>> \in agreed'
    BY <2>2, <2>3, <2>1, <1>k, <1>1 DEF RowRecords, RowCancels, RowStops, RowEnds, RowClears, PressChord, RowResets,
       PageSends
  <2> QED
    BY <2>1, <2>4, <1>u, ConsentElsewhere
<1>2. CASE ServeOn \/ ServeOff \/ Alarm \/ Expired
  BY <1>2, <1>k, <1>u, ConsentElsewhere DEF ServeOn, ServeOff, ServesCommand, Alarm, Expired, SettingTypes
<1>3. CASE ServeSet
  BY <1>3, <1>k, <1>u, ConsentElsewhere DEF ServeSet, SettingTypes, PageCommands
<1>4. CASE Propose
  BY <1>4, <1>u, ConsentProposed DEF Propose
<1>5. CASE ReplaceWindow
  BY <1>5, <1>u, ConsentWithdrawn DEF ReplaceWindow, SettingTypes
<1>6. CASE HearRequest
  BY <1>6, <1>u, ConsentHeard DEF HearRequest
<1>7. CASE DialogConfirmed \/ DialogCancelled
  BY <1>7, <1>u, ConsentSaid DEF DialogConfirmed, DialogCancelled, Dialog
<1>8. CASE DialogCloses
  BY <1>8, <1>u, ConsentAnswered DEF DialogCloses
<1>9. CASE MoveToFront
  BY <1>9, <1>k, <1>u, ConsentElsewhere DEF MoveToFront
<1>10. CASE ServeReset
  BY <1>10, <1>n, SetKeeps, <1>k, ConsentElsewhere DEF ServeReset, SettingTypes, PageCommands, SavesOnly, Agreed
<1>11. CASE ServeAnswer
  <2>1. PICK x \in answers :
          LET r == AnsweredRequest(x.id) IN
          /\ answers' = answers \ {x}
          /\ remoteShortcuts' = IF remoteShortcuts.pending.id = x.id THEN [remoteShortcuts EXCEPT !.pending = NoRequest] ELSE remoteShortcuts
          /\ IF x.accept /\ r # NoRequest THEN SetShortcut(r.action, r.binding) ELSE UNCHANGED nativeVars
    BY <1>11 DEF ServeAnswer
  <2>2. UNCHANGED <<dialog, told, commands, agreed>>
    BY <1>11 DEF ServeAnswer, rowVars
  <2>3. ConsentInv'
    BY <2>1, <2>2, ConsentWithdrawn DEF SettingTypes, ConsentInv, RequestNumbers, Requested, IsPending, Agreements,
       Consented
  <2>4. Agreed
    <3>1. CASE x.accept /\ AnsweredRequest(x.id) # NoRequest
      <4> DEFINE p == remoteShortcuts.pending
      <4>1. p.id = x.id /\ p.generation = window /\ AnsweredRequest(x.id) = p
        BY <3>1 DEF AnsweredRequest
      <4>2. p.id # 0
        BY <4>1 DEF ConsentInv, RequestNumbers, SettingTypes
      <4>3. <<p.action, p.binding>> \in agreed
        BY <3>1, <4>1, <4>2 DEF ConsentInv, Agreements, Consented
      <4>4. SetShortcut(p.action, p.binding)
        BY <3>1, <4>1, <2>1
      <4>5. p.action \in Shortcuts /\ p.binding \in Bindable
        BY DEF SettingTypes, ShortcutRequests
      <4> HIDE DEF p
      <4>6. SavesOnly(p.action, p.binding)
        BY <4>4, <4>5, <1>n, SetKeeps
      <4> QED
        BY <4>3, <4>6, <2>2 DEF SavesOnly, Agreed
    <3>2. CASE ~(x.accept /\ AnsweredRequest(x.id) # NoRequest)
      BY <3>2, <2>1, <1>u
    <3> QED
      BY <3>1, <3>2
  <2> QED
    BY <2>3, <2>4
<1>12. CASE HomeChanges
  BY <1>12, <1>n, SetKeeps, <1>k, ConsentElsewhere DEF HomeChanges, SavesOnly, Agreed, rowVars
<1>13. CASE UNCHANGED shortcutSettingVars
  BY <1>13, <1>k, <1>u, ConsentElsewhere DEF shortcutSettingVars
<1> QED
  BY <1>1, <1>2, <1>3, <1>4, <1>5, <1>6, <1>7, <1>8, <1>9, <1>10, <1>11, <1>12, <1>13
  DEF ShortcutSettingsNext

\* A saved shortcut changes only to what the member confirmed in Home, chose there
\* or reset, however old the dialog and whatever the page asked for meanwhile.
THEOREM ConsentIsAsked == ShortcutSettingsSpec => ShortcutsAreConsented
<1> DEFINE All == SettingTypes /\ Registration /\ Captures /\ ConsentInv
<1>1. ShortcutSettingsInit => All
  BY SettingTypesStart, ConsentStart DEF ShortcutSettingsInit, NoChord, Captures
<1>2. All /\ [ShortcutSettingsNext]_shortcutSettingVars => All' /\ Agreed
  BY OrderStep, ConsentStep
<1>3. Agreed => [\A a \in Shortcuts : saved'[a] # saved[a] => <<a, saved'[a]>> \in agreed']_shortcutSettingVars
  BY DEF Agreed
<1> QED
  BY <1>1, <1>2, <1>3, PTL DEF ShortcutSettingsSpec, ShortcutsAreConsented

\* What the settings say, the system has registered and the member is shown agree, and
\* what the member records is not refused, whatever is bound, confirmed and pressed.
THEOREM ShortcutsHoldAlways == ShortcutSettingsSpec /\ ShortcutKeysSpec => []ShortcutsHold
BY ShortcutsStayInOrder, PlainChordsAreAccepted, PTL DEF ShortcutsHold

------------------------
(* Push-to-talk. *)

Queued == [intent : Intents, down : BOOLEAN, for : Nat, mayDelay : BOOLEAN]
Bridges == [mode : Modes, talk : BOOLEAN, hush : BOOLEAN, releasing : BOOLEAN]
Gates == [mode : Modes, talk : BOOLEAN, hush : BOOLEAN, observed : BOOLEAN, blocked : BOOLEAN, tail : BOOLEAN]

TalkTypes ==
    /\ intents \in Seq(Queued) /\ voiceGeneration \in Nat \ {0} /\ tail \in Nat
    /\ \A i \in 1..Len(intents) : intents[i].for <= voiceGeneration
    /\ bridge \in Bridges /\ gate \in Gates
    /\ chosen \in [saved : Modes, booted : Modes]
    /\ talkingTo \in [room : BOOLEAN, on : BOOLEAN]
    /\ bridged \in BOOLEAN /\ live \in BOOLEAN /\ delayed \in BOOLEAN

(* The hook holds what is bound to keys it saw go down and not come up. *)
HookInv ==
    /\ seenDown \subseteq fingers /\ fingers \subseteq Keys
    /\ bindings \in [Intents -> Keys \cup {Unbound}]
    /\ \A a, b \in Intents : bindings[a] = bindings[b] => a = b \/ bindings[a] = Unbound
    /\ held \subseteq Intents /\ \A a \in held : bindings[a] \in seenDown
    /\ ~Hooked => seenDown = {}

(* The gate follows the bridge, and the microphone the gate. *)
Follows(g, b) ==
    /\ g.mode = b.mode /\ g.hush = b.hush /\ g.observed = b.talk
    /\ g.talk => b.talk
    /\ g.tail => b.releasing
    /\ b.talk => g.blocked \/ g.talk
PageInv ==
    /\ Follows(gate, bridge)
    /\ gate.mode = "talk" => (live <=> gate.talk \/ gate.tail)
    /\ gate.mode = "hush" /\ live => ~gate.hush
    /\ ~bridged => bridge = FreshBridge(bridge.mode) /\ ~live /\ ~talkingTo.room

(* What is on its way to the page, after the last of it about talking, ends the *)
(* talking; or the page does not talk, but for the release delay. *)
TalkIn(q, n, i) == q[i].intent = "talk" /\ q[i].for = n
EndsIn(q, n) == \E i \in 1..Len(q) : /\ TalkIn(q, n, i) /\ ~q[i].down
                                     /\ \A j \in 1..Len(q) : j > i => ~TalkIn(q, n, j)
SilentIn(q, n) == \A j \in 1..Len(q) : ~TalkIn(q, n, j)
PageQuiet == ~bridge.talk /\ (bridge.releasing => tail = voiceGeneration)
LetsGo == "talk" \in held \/ EndsIn(intents, voiceGeneration) \/ (SilentIn(intents, voiceGeneration) /\ PageQuiet)

TalkInv == TalkTypes /\ HookInv /\ PageInv /\ LetsGo

------------------------
(* The gate. *)
LEMMA AllowsBy ==
    ASSUME NEW g \in Gates
    PROVE  /\ g.mode = "talk" => (Allows(g) <=> g.talk \/ g.tail)
           /\ g.mode = "hush" => (Allows(g) <=> ~g.hush)
  BY DEF Allows, Gates, Modes

LEMMA Resets ==
    ASSUME NEW g \in Gates, NEW b \in Bridges, Follows(g, b)
    PROVE  /\ HoldsReset(g) \in Gates /\ Follows(HoldsReset(g), b)
           /\ ~HoldsReset(g).talk /\ ~HoldsReset(g).tail
           /\ HoldsReset(g).mode = g.mode /\ HoldsReset(g).hush = g.hush
  BY DEF HoldsReset, Gates, Bridges, Follows

(* What the gate is after the bridge notified it. *)
LEMMA GatedFollows ==
    ASSUME NEW g \in Gates, NEW b \in Bridges, NEW allowed \in BOOLEAN
    PROVE  /\ Gated(g, b, allowed) \in Gates
           /\ Follows(Gated(g, b, allowed), b)
           /\ Gated(g, b, allowed).talk => allowed
           /\ Gated(g, b, allowed).tail => allowed
<1> DEFINE fresh == IF b.mode # g.mode THEN HoldsReset([g EXCEPT !.mode = b.mode]) ELSE g
           blocked == b.talk /\ (fresh.blocked \/ ~allowed)
           tails == b.releasing /\ allowed /\ ~blocked /\ (fresh.talk \/ fresh.tail)
           talks == b.talk /\ allowed /\ ~blocked
<1>1. Gated(g, b, allowed) = [fresh EXCEPT !.blocked = blocked, !.observed = b.talk, !.tail = tails,
                                           !.talk = talks, !.hush = b.hush]
  BY DEF Gated
<1>2. fresh \in Gates /\ fresh.mode = b.mode
  BY DEF HoldsReset, Gates, Bridges
<1>3. blocked \in BOOLEAN /\ tails \in BOOLEAN /\ talks \in BOOLEAN /\ b.talk \in BOOLEAN /\ b.hush \in BOOLEAN
  BY DEF Bridges
<1> DEFINE after == Gated(g, b, allowed)
<1> HIDE DEF fresh
<1>4. after.mode = fresh.mode /\ after.observed = b.talk /\ after.hush = b.hush
  BY <1>1, <1>2 DEF Gates
<1>5. after.blocked = blocked /\ after.talk = talks /\ after.tail = tails
  BY <1>1, <1>2 DEF Gates
<1>6. after \in Gates
  <2> HIDE DEF tails, talks, blocked
  <2>1. QED
    BY <1>1, <1>2, <1>3 DEF Gates
<1>7. (talks => b.talk) /\ (tails => b.releasing) /\ (b.talk => blocked \/ talks) /\ (talks => allowed) /\ (tails => allowed)
  OBVIOUS
<1> HIDE DEF after, tails, talks, blocked
<1>8. Follows(after, b) /\ (after.talk => allowed) /\ (after.tail => allowed)
  BY <1>2, <1>4, <1>5, <1>7 DEF Follows
<1>9. QED
  BY <1>6, <1>8 DEF after

(* It opens only with a press. *)
LEMMA GatedOpens ==
    ASSUME NEW g \in Gates, NEW b \in Bridges, NEW c \in Bridges, NEW allowed \in BOOLEAN,
           Follows(g, b), c.mode = "talk",
           (c.mode = g.mode /\ (c.talk => b.talk)) \/ (~c.talk /\ ~c.releasing),
           Gated(g, c, allowed).talk \/ Gated(g, c, allowed).tail
    PROVE  g.mode = "talk" /\ (g.talk \/ g.tail)
<1> DEFINE fresh == IF c.mode # g.mode THEN HoldsReset([g EXCEPT !.mode = c.mode]) ELSE g
           blocked == c.talk /\ (fresh.blocked \/ ~allowed)
           after == [fresh EXCEPT
          !.blocked = blocked,
          !.observed = c.talk,
          !.tail = c.releasing /\ allowed /\ ~blocked /\ (fresh.talk \/ fresh.tail),
          !.talk = c.talk /\ allowed /\ ~blocked,
          !.hush = c.hush]
<1>1. Gated(g, c, allowed) = after
  BY DEF Gated
<1>2. fresh \in Gates
  BY DEF HoldsReset, Gates, Bridges
<1> HIDE DEF fresh
<1>3. /\ after.talk = (c.talk /\ allowed /\ ~blocked)
      /\ after.tail = (c.releasing /\ allowed /\ ~blocked /\ (fresh.talk \/ fresh.tail))
  BY <1>2 DEF Gates
<1>4. (c.talk /\ ~fresh.blocked) \/ (c.releasing /\ (fresh.talk \/ fresh.tail))
  BY <1>1, <1>3
<1>5. CASE c.mode # g.mode
  BY <1>5, <1>4
<1>6. CASE c.mode = g.mode
  BY <1>4, <1>6 DEF fresh, Follows
<1>7. QED
  BY <1>5, <1>6

------------------------
(* What is on its way to the page. *)
LEMMA Appended ==
    ASSUME NEW q \in Seq(Queued), NEW e \in Queued
    PROVE  /\ Append(q, e) \in Seq(Queued) /\ Len(Append(q, e)) = Len(q) + 1 /\ Len(q) \in Nat
           /\ \A i \in 1..Len(q) : Append(q, e)[i] = q[i]
           /\ Append(q, e)[Len(q) + 1] = e
  OBVIOUS

LEMMA EndAppended ==
    ASSUME NEW q \in Seq(Queued), NEW e \in Queued, NEW n, e.intent = "talk", e.for = n, ~e.down
    PROVE  EndsIn(Append(q, e), n)
BY Appended DEF TalkIn, EndsIn

LEMMA OtherAppended ==
    ASSUME NEW q \in Seq(Queued), NEW e \in Queued, NEW n, e.intent # "talk" \/ e.for # n
    PROVE  /\ EndsIn(q, n) => EndsIn(Append(q, e), n)
           /\ SilentIn(q, n) => SilentIn(Append(q, e), n)
<1> DEFINE r == Append(q, e)
<1>1. /\ Len(r) = Len(q) + 1 /\ Len(q) \in Nat
      /\ \A i \in 1..Len(q) : TalkIn(r, n, i) = TalkIn(q, n, i) /\ r[i].down = q[i].down
      /\ ~TalkIn(r, n, Len(q) + 1)
  BY Appended DEF TalkIn
<1> HIDE DEF r
<1>2. \A i \in 1..Len(r) : i \in 1..Len(q) \/ i = Len(q) + 1
  BY <1>1
<1>3. 1..Len(q) \subseteq 1..Len(r)
  BY <1>1
<1>4. SilentIn(q, n) => SilentIn(r, n)
  BY <1>1, <1>2 DEF SilentIn
<1>5. ASSUME EndsIn(q, n) PROVE EndsIn(r, n)
  BY <1>5, <1>1, <1>2, <1>3 DEF EndsIn
<1>6. QED
  BY <1>4, <1>5 DEF r

(* Anything but a press keeps that the talking ends. *)
Keeps(q, r, n) == /\ EndsIn(q, n) => EndsIn(r, n)
                  /\ SilentIn(q, n) => SilentIn(r, n) \/ EndsIn(r, n)
LEMMA ReleaseAppended ==
    ASSUME NEW q \in Seq(Queued), NEW e \in Queued, NEW n, e.intent # "talk" \/ ~e.down
    PROVE  Keeps(q, Append(q, e), n)
  BY EndAppended, OtherAppended DEF Keeps

LEMMA TwoAppended ==
    ASSUME NEW q \in Seq(Queued), NEW e, NEW f
    PROVE  /\ q \o <<>> = q /\ q \o <<e>> = Append(q, e) /\ q \o <<e, f>> = Append(Append(q, e), f)
           /\ (q \o <<e>>) \o <<f>> = Append(Append(q, e), f)
  OBVIOUS

(* The oldest is delivered. *)
LEMMA Delivered ==
    ASSUME NEW q \in Seq(Queued), q # <<>>, NEW n
    PROVE  /\ Head(q) \in Queued /\ Tail(q) \in Seq(Queued) /\ Head(q) = q[1]
           /\ \A i \in 1..Len(Tail(q)) : i + 1 \in 1..Len(q) /\ Tail(q)[i] = q[i + 1]
           /\ SilentIn(q, n) => SilentIn(Tail(q), n) /\ ~(Head(q).intent = "talk" /\ Head(q).for = n)
           /\ EndsIn(q, n) => \/ EndsIn(Tail(q), n)
                              \/ SilentIn(Tail(q), n) /\ Head(q).intent = "talk" /\ Head(q).for = n /\ ~Head(q).down
<1> DEFINE r == Tail(q)
<1>1. /\ Head(q) \in Queued /\ r \in Seq(Queued) /\ Head(q) = q[1] /\ Len(q) \in Nat /\ Len(q) > 0 /\ Len(r) = Len(q) - 1
      /\ \A i \in 1..Len(r) : i + 1 \in 1..Len(q) /\ r[i] = q[i + 1]
  OBVIOUS
<1> HIDE DEF r
<1>2. \A i \in 1..Len(r) : TalkIn(r, n, i) = TalkIn(q, n, i + 1) /\ r[i].down = q[i + 1].down
  BY <1>1 DEF TalkIn
<1>3. SilentIn(q, n) => SilentIn(r, n)
  BY <1>1, <1>2 DEF SilentIn
<1>4. SilentIn(q, n) => ~TalkIn(q, n, 1)
  BY <1>1 DEF SilentIn
<1>5. ASSUME EndsIn(q, n)
      PROVE  EndsIn(r, n) \/ (SilentIn(r, n) /\ TalkIn(q, n, 1) /\ ~q[1].down)
  <2>1. PICK i \in 1..Len(q) : TalkIn(q, n, i) /\ ~q[i].down /\ \A j \in 1..Len(q) : j > i => ~TalkIn(q, n, j)
    BY <1>5 DEF EndsIn
  <2>2. CASE i = 1
    BY <2>1, <2>2, <1>1, <1>2 DEF SilentIn
  <2>3. CASE i # 1
    <3>1. i - 1 \in 1..Len(r) /\ (i - 1) + 1 = i
      BY <2>3, <1>1
    <3>2. TalkIn(r, n, i - 1) /\ ~r[i - 1].down
      BY <3>1, <2>1, <1>2
    <3>3. \A j \in 1..Len(r) : j > i - 1 => ~TalkIn(r, n, j)
      BY <1>1, <1>2, <2>1
    <3>4. QED
      BY <3>1, <3>2, <3>3 DEF EndsIn
  <2>4. QED
    BY <2>2, <2>3
<1>6. QED
  BY <1>1, <1>3, <1>4, <1>5 DEF r, TalkIn

------------------------
(* The hook. *)
LEMMA HookSteps ==
    ASSUME TalkInv, HookInv', UNCHANGED <<voiceGeneration, bridged, tail, delayed, chosen, pageVars>>,
           intents' \in Seq(Queued), \A i \in 1..Len(intents') : intents'[i].for <= voiceGeneration,
           \/ "talk" \in held' \/ EndsIn(intents', voiceGeneration)
           \/ "talk" \notin held /\ Keeps(intents, intents', voiceGeneration)
    PROVE  TalkInv'
BY DEF TalkInv, TalkTypes, pageVars, PageInv, PageQuiet, LetsGo, Keeps

LEMMA IntentFits ==
    ASSUME TalkTypes, NEW a \in Intents, NEW down \in BOOLEAN, NEW mayDelay \in BOOLEAN,
           NEW e, e = Intent(a, down, mayDelay)
    PROVE  e \in Queued /\ e.intent = a /\ (e.down <=> down) /\ e.for = voiceGeneration
  BY DEF Intent, Queued, TalkTypes

LEMMA StreamFits ==
    ASSUME NEW q \in Seq(Queued), NEW e \in Queued, NEW n \in Nat, e.for <= n,
           \A i \in 1..Len(q) : q[i].for <= n
    PROVE  \A i \in 1..Len(Append(q, e)) : Append(q, e)[i].for <= n
BY Appended

LEMMA ObserveSteps ==
    ASSUME TalkInv, NEW k \in Keys, NEW down \in BOOLEAN, Observe(k, down), UNCHANGED bindings,
           fingers' \subseteq Keys, k \in fingers' <=> down, seenDown \ {k} \subseteq fingers',
           Hooked
    PROVE  /\ HookInv'
           /\ intents' \in Seq(Queued)
           /\ \A i \in 1..Len(intents') : intents'[i].for <= voiceGeneration
           /\ \/ "talk" \in held' \/ EndsIn(intents', voiceGeneration)
              \/ "talk" \notin held /\ Keeps(intents, intents', voiceGeneration)
<1>1. seenDown' \subseteq fingers'
  BY DEF Observe
<1>2. Hooked' = Hooked
  BY DEF Hooked
<1>3. TalkTypes /\ HookInv
  BY DEF TalkInv
<1>4. CASE \E a \in Intents : bindings[a] = k /\ ((a \in held) # down)
  <2>1. PICK a \in Intents : /\ bindings[a] = k
                             /\ held' = IF down THEN held \cup {a} ELSE held \ {a}
                             /\ intents' = Append(intents, Intent(a, down, TRUE))
    BY <1>4 DEF Observe, Queue
  <2>2. \A b \in Intents : bindings[b] = k => b = a
    BY <2>1, <1>3, PushToTalkAssumption DEF HookInv, Keys
  <2>3. held' \subseteq Intents /\ \A b \in held' : bindings[b] \in seenDown'
    BY <2>1, <2>2, <1>3 DEF HookInv, Observe
  <2>4. HookInv'
    BY <1>1, <1>2, <1>3, <2>3 DEF HookInv
  <2> DEFINE e == Intent(a, down, TRUE)
  <2>5. e \in Queued /\ e.intent = a /\ (e.down <=> down) /\ e.for = voiceGeneration
    BY <1>3, IntentFits
  <2> HIDE DEF e
  <2>6. intents' = Append(intents, e)
    BY <2>1 DEF e
  <2>7. intents \in Seq(Queued) /\ voiceGeneration \in Nat /\ \A i \in 1..Len(intents) : intents[i].for <= voiceGeneration
    BY <1>3 DEF TalkTypes
  <2>8. intents' \in Seq(Queued)
    BY <2>5, <2>6, <2>7, Appended
  <2>9. \A i \in 1..Len(intents') : intents'[i].for <= voiceGeneration
    BY <2>5, <2>6, <2>7, StreamFits
  <2>10. \/ "talk" \in held' \/ EndsIn(intents', voiceGeneration)
         \/ "talk" \notin held /\ Keeps(intents, intents', voiceGeneration)
    <3>1. CASE a = "talk" /\ down
      BY <3>1, <2>1
    <3>2. CASE a = "talk" /\ ~down
      BY <3>2, <2>5, <2>6, <2>7, EndAppended
    <3>3. CASE a # "talk"
      <4>1. Keeps(intents, intents', voiceGeneration)
        BY <3>3, <2>5, <2>6, <2>7, ReleaseAppended
      <4>2. "talk" \in held => "talk" \in held'
        BY <2>1, <3>3
      <4>3. QED
        BY <4>1, <4>2
    <3>4. QED
      BY <3>1, <3>2, <3>3
  <2>11. QED
    BY <2>4, <2>8, <2>9, <2>10
<1>5. CASE ~\E a \in Intents : bindings[a] = k /\ ((a \in held) # down)
  <2>1. UNCHANGED <<held, intents>>
    BY <1>5 DEF Observe
  <2>2. \A b \in held : bindings[b] \in seenDown'
    BY <1>3, <1>5 DEF HookInv, Observe
  <2>3. HookInv'
    BY <1>1, <1>2, <1>3, <2>1, <2>2 DEF HookInv
  <2>4. QED
    BY <2>1, <2>3, <1>3 DEF TalkTypes, Keeps
<1>6. QED
  BY <1>4, <1>5

LEMMA KeySteps == TalkInv /\ (KeyMoves \/ KeyRepeats) => TalkInv'
<1> SUFFICES ASSUME TalkInv, KeyMoves \/ KeyRepeats PROVE TalkInv'
  OBVIOUS
<1>1. UNCHANGED <<voiceGeneration, bridged, tail, delayed, chosen, pageVars, bindings>>
  BY DEF KeyMoves, KeyRepeats, shellVars
<1>2. TalkTypes /\ HookInv
  BY DEF TalkInv
<1>3. CASE \E k \in Keys, down \in BOOLEAN : /\ Hooked /\ Observe(k, down) /\ fingers' \subseteq Keys
                                              /\ (k \in fingers' <=> down) /\ seenDown \ {k} \subseteq fingers'
  BY <1>1, <1>3, ObserveSteps, HookSteps
<1>4. CASE UNCHANGED <<seenDown, held, intents>> /\ fingers' \subseteq Keys /\ seenDown \subseteq fingers'
  BY <1>1, <1>2, <1>4, HookSteps DEF HookInv, Hooked, Keeps, TalkTypes
<1>5. CASE KeyMoves
  <2>1. PICK k \in Keys :
          /\ fingers' = IF k \in fingers THEN fingers \ {k} ELSE fingers \cup {k}
          /\ IF Hooked /\ (k \in seenDown) = (k \in fingers) THEN Observe(k, k \notin fingers)
             ELSE UNCHANGED <<seenDown, held, intents>>
    BY <1>5 DEF KeyMoves
  <2>2. CASE Hooked /\ (k \in seenDown) = (k \in fingers)
    BY <2>1, <2>2, <1>2, <1>3 DEF HookInv
  <2>3. CASE ~(Hooked /\ (k \in seenDown) = (k \in fingers))
    BY <2>3, <1>2, <2>1, <1>4 DEF HookInv
  <2>4. QED
    BY <2>2, <2>3
<1>6. CASE KeyRepeats
  BY <1>6, <1>2, <1>3 DEF KeyRepeats, HookInv
<1>7. QED
  BY <1>5, <1>6

------------------------
(* Settings of the hook, and what recording a shortcut ends. *)
LEMMA ChangeStep == TalkInv /\ ChangeShortcut => TalkInv'
<1> SUFFICES ASSUME TalkInv, ChangeShortcut PROVE TalkInv'
  OBVIOUS
<1>1. TalkTypes /\ HookInv
  BY DEF TalkInv
<1>2. UNCHANGED <<voiceGeneration, bridged, tail, delayed, chosen, pageVars, fingers>>
  BY DEF ChangeShortcut, shellVars
<1>3. PICK a \in Intents, k \in Keys \cup {Unbound} :
          /\ k = Unbound \/ \A b \in Intents \ {a} : bindings[b] # k
          /\ \/ bindings' = [bindings EXCEPT ![a] = k]
             \/ UNCHANGED bindings
          /\ held' = IF k # bindings[a] THEN held \ {a} ELSE held
          /\ seenDown' = IF k # bindings[a] /\ (\A b \in Intents \ {a} : bindings[b] = Unbound) THEN {}
                         ELSE seenDown
          /\ intents' = intents \o (IF k # bindings[a] /\ a \in held THEN <<Intent(a, FALSE, TRUE)>> ELSE <<>>)
                                \o <<Intent(a, FALSE, FALSE)>>
  BY DEF ChangeShortcut
<1>4. /\ held' \subseteq held
      /\ "talk" \in held /\ a # "talk" => "talk" \in held'
  BY <1>3
<1>5. /\ bindings' \in [Intents -> Keys \cup {Unbound}]
      /\ \A b \in Intents \ {a} : bindings'[b] = bindings[b]
      /\ bindings'[a] = k \/ bindings'[a] = bindings[a]
  BY <1>1, <1>3 DEF HookInv
<1>6. HookInv'
  <2>1. \A b, c \in Intents : bindings'[b] = bindings'[c] => b = c \/ bindings'[b] = Unbound
    BY <1>1, <1>3, <1>5 DEF HookInv
  <2>2. held' \subseteq Intents /\ seenDown' \subseteq seenDown
    BY <1>1, <1>4, <1>3 DEF HookInv
  <2>3. \A b \in held' : bindings'[b] = bindings[b] \/ b = a
    BY <1>1, <1>4, <1>5 DEF HookInv
  <2>4. \A b \in held' : bindings'[b] \in seenDown'
    BY <1>1, <1>3, PushToTalkAssumption, <1>5 DEF HookInv, Keys
  <2>5. ASSUME ~Hooked' PROVE seenDown' = {}
    BY <2>5, <1>5, <1>3, <1>1 DEF Hooked, HookInv
  <2>6. QED
    BY <1>1, <1>2, <1>5, <2>1, <2>2, <2>4, <2>5 DEF HookInv
<1> DEFINE e == Intent(a, FALSE, TRUE)
           f == Intent(a, FALSE, FALSE)
<1>7. /\ e \in Queued /\ e.intent = a /\ ~e.down /\ e.for = voiceGeneration
      /\ f \in Queued /\ f.intent = a /\ ~f.down /\ f.for = voiceGeneration
  BY <1>1, IntentFits
<1>a. intents' = intents \o (IF k # bindings[a] /\ a \in held THEN <<e>> ELSE <<>>) \o <<f>>
  BY <1>3
<1> HIDE DEF e, f
<1> DEFINE q == IF k # bindings[a] /\ a \in held THEN Append(intents, e) ELSE intents
<1>8. intents' = Append(q, f)
  <2>1. intents \in Seq(Queued)
    BY <1>1 DEF TalkTypes
  <2>2. CASE k # bindings[a] /\ a \in held
    <3>1. intents' = (intents \o <<e>>) \o <<f>>
      BY <2>2, <1>a
    <3>2. (intents \o <<e>>) \o <<f>> = Append(Append(intents, e), f)
      BY <2>1, TwoAppended
    <3>3. QED
      BY <2>2, <3>1, <3>2
  <2>3. CASE ~(k # bindings[a] /\ a \in held)
    <3>1. intents' = (intents \o <<>>) \o <<f>>
      BY <2>3, <1>a
    <3>2. QED
      BY <2>1, <2>3, <3>1, TwoAppended
  <2>4. QED
    BY <2>2, <2>3
<1>9. /\ intents \in Seq(Queued) /\ voiceGeneration \in Nat
      /\ \A i \in 1..Len(intents) : intents[i].for <= voiceGeneration
  BY <1>1 DEF TalkTypes
<1>10. /\ q \in Seq(Queued) /\ Keeps(intents, q, voiceGeneration)
       /\ \A i \in 1..Len(q) : q[i].for <= voiceGeneration
  BY <1>9, <1>7, Appended, ReleaseAppended, StreamFits DEF Keeps
<1> HIDE DEF q
<1>11. /\ intents' \in Seq(Queued) /\ Keeps(q, intents', voiceGeneration)
       /\ \A i \in 1..Len(intents') : intents'[i].for <= voiceGeneration
  BY <1>7, <1>8, <1>9, <1>10, Appended, ReleaseAppended, StreamFits
<1>12. a = "talk" => EndsIn(intents', voiceGeneration)
  BY <1>7, <1>8, <1>10, EndAppended
<1>13. Keeps(intents, intents', voiceGeneration)
  BY <1>10, <1>11 DEF Keeps
<1>14. QED
  BY <1>2, <1>4, <1>6, <1>11, <1>12, <1>13, HookSteps

LEMMA FocusStep == TalkInv /\ MoveFocus => TalkInv'
<1> SUFFICES ASSUME TalkInv, MoveFocus PROVE TalkInv'
  OBVIOUS
<1>1. TalkTypes /\ HookInv
  BY DEF TalkInv
<1>2. UNCHANGED <<voiceGeneration, bridged, tail, delayed, chosen, pageVars, hookVars>>
  BY DEF MoveFocus
<1>3. \/ intents' = intents
      \/ intents' = intents \o <<Intent("talk", FALSE, FALSE), Intent("hush", FALSE, FALSE)>>
  BY DEF MoveFocus
<1>4. HookInv'
  BY <1>1, <1>2 DEF HookInv, hookVars, Hooked
<1>5. /\ intents \in Seq(Queued) /\ voiceGeneration \in Nat
      /\ \A i \in 1..Len(intents) : intents[i].for <= voiceGeneration
  BY <1>1 DEF TalkTypes
<1>6. CASE intents' = intents
  BY <1>2, <1>4, <1>5, <1>6, HookSteps DEF Keeps, hookVars
<1>7. CASE intents' = intents \o <<Intent("talk", FALSE, FALSE), Intent("hush", FALSE, FALSE)>>
  <2> DEFINE e == Intent("talk", FALSE, FALSE)
             f == Intent("hush", FALSE, FALSE)
             q == Append(intents, e)
  <2>1. /\ e \in Queued /\ e.intent = "talk" /\ ~e.down /\ e.for = voiceGeneration
        /\ f \in Queued /\ f.intent = "hush" /\ f.for = voiceGeneration
    BY <1>1, IntentFits DEF Intents
  <2>a. intents' = intents \o <<e, f>>
    BY <1>7
  <2> HIDE DEF e, f
  <2>2. intents' = Append(q, f)
    BY <1>5, <2>a, TwoAppended
  <2>3. q \in Seq(Queued) /\ EndsIn(q, voiceGeneration) /\ \A i \in 1..Len(q) : q[i].for <= voiceGeneration
    BY <1>5, <2>1, Appended, EndAppended, StreamFits
  <2> HIDE DEF q
  <2>4. /\ intents' \in Seq(Queued) /\ EndsIn(intents', voiceGeneration)
        /\ \A i \in 1..Len(intents') : intents'[i].for <= voiceGeneration
    BY <1>5, <2>1, <2>2, <2>3, Appended, OtherAppended, StreamFits
  <2>5. QED
    BY <1>2, <1>4, <2>4, HookSteps
<1>8. QED
  BY <1>3, <1>6, <1>7

------------------------
(* The page. *)
PressArrives ==
    intents # <<>> /\ intents' = Tail(intents) /\ Head(intents).intent = "talk" /\ Head(intents).down
OpensByPress == gate'.mode = "talk" /\ live' /\ ~live => PressArrives

Sounding(g, l) == /\ g.mode = "talk" => (l <=> g.talk \/ g.tail)
                  /\ g.mode = "hush" /\ l => ~g.hush

LEMMA FreshFits ==
    ASSUME NEW m \in Modes
    PROVE  /\ FreshBridge(m) \in Bridges /\ NewGate(m) \in Gates /\ Follows(NewGate(m), FreshBridge(m))
           /\ ~FreshBridge(m).talk /\ ~FreshBridge(m).releasing /\ FreshBridge(m).mode = m
           /\ NewGate(m).mode = m /\ ~NewGate(m).talk /\ ~NewGate(m).tail
           /\ Sounding(NewGate(m), FALSE)
  BY DEF FreshBridge, NewGate, Bridges, Gates, Follows, Sounding

(* A step of the page that leaves the hook and what is on its way alone. *)
LEMMA PageSteps ==
    ASSUME TalkInv, UNCHANGED <<hookVars, intents, voiceGeneration>>, TalkTypes', PageInv', PageQuiet => PageQuiet'
    PROVE  TalkInv'
BY DEF TalkInv, HookInv, hookVars, Hooked, LetsGo

LEMMA NotifySteps ==
    ASSUME TalkTypes, NEW b \in Bridges, Notify(b)
    PROVE  /\ bridge' = b /\ gate' \in Gates /\ live' \in BOOLEAN
           /\ Follows(gate', bridge') /\ Sounding(gate', live')
BY GatedFollows, AllowsBy DEF Allowed, TalkTypes, Notify, Sounding

LEMMA NotifyOpens ==
    ASSUME TalkTypes, PageInv, NEW b \in Bridges, Notify(b),
           (b.mode = bridge.mode /\ (b.talk => bridge.talk)) \/ (~b.talk /\ ~b.releasing)
    PROVE  gate'.mode = "talk" /\ live' => live
BY NotifySteps, GatedOpens DEF Allowed, TalkTypes, PageInv, Sounding, Follows, Notify

LEMMA ButtonSteps ==
    ASSUME TalkTypes, NEW g \in Gates, NEW b \in Bridges, Follows(g, b), ButtonPressed(g)
    PROVE  /\ gate' \in Gates /\ Follows(gate', b) /\ live' \in BOOLEAN /\ Sounding(gate', live')
           /\ talkingTo' \in [room : BOOLEAN, on : BOOLEAN] /\ talkingTo'.room = talkingTo.room
           /\ gate'.mode = "talk" /\ live' => g.mode = "talk" /\ (g.talk \/ g.tail)
<1> DEFINE on == ~talkingTo.on
           sounds == on /\ Allows(g)
<1>1. talkingTo' = [talkingTo EXCEPT !.on = on] /\ live' = sounds /\ gate' = IF sounds THEN g ELSE HoldsReset(g)
  BY DEF ButtonPressed
<1>2. on \in BOOLEAN /\ sounds \in BOOLEAN
  OBVIOUS
<1>3. talkingTo' \in [room : BOOLEAN, on : BOOLEAN] /\ talkingTo'.room = talkingTo.room
  <2> HIDE DEF on
  <2>1. QED
    BY <1>1, <1>2 DEF TalkTypes
<1>4. CASE sounds
  BY <1>1, <1>4, <1>3, AllowsBy DEF Sounding
<1>5. CASE ~sounds
  BY <1>1, <1>5, <1>3, Resets DEF Sounding
<1>6. QED
  BY <1>4, <1>5

LEMMA ModeSteps == TalkInv /\ (SetMicrophoneMode \/ SetReleaseDelay \/ TailEnds) => TalkInv' /\ OpensByPress
<1> SUFFICES ASSUME TalkInv, SetMicrophoneMode \/ SetReleaseDelay \/ TailEnds PROVE TalkInv' /\ OpensByPress
  OBVIOUS
<1>1. TalkTypes /\ PageInv
  BY DEF TalkInv
<1>2. UNCHANGED <<hookVars, intents, voiceGeneration, bridged, talkingTo>>
  BY DEF SetMicrophoneMode, SetReleaseDelay, TailEnds
<1>3. chosen' \in [saved : Modes, booted : Modes] /\ delayed' \in BOOLEAN /\ tail' \in {tail, NoTail}
  BY <1>1 DEF SetMicrophoneMode, TalkTypes, SetReleaseDelay, TailEnds
<1>4. CASE /\ UNCHANGED <<bridge, gate, live>>
           /\ tail' = tail \/ ~(tail = voiceGeneration /\ bridged)
  BY <1>1, <1>2, <1>3, <1>4, PageSteps DEF TalkTypes, NoTail, PageInv, PageQuiet, FreshBridge, OpensByPress
<1>5. ASSUME bridged, NEW b \in Bridges, Notify(b), ~b.releasing,
             (b.mode = bridge.mode /\ (b.talk => bridge.talk)) \/ (~b.talk /\ ~b.releasing)
      PROVE  TalkInv' /\ OpensByPress
  <2>1. /\ bridge' = b /\ gate' \in Gates /\ live' \in BOOLEAN
        /\ Follows(gate', bridge') /\ Sounding(gate', live')
    BY <1>1, <1>5, NotifySteps
  <2>2. gate'.mode = "talk" /\ live' => live
    BY <1>1, <1>5, NotifyOpens
  <2>3. TalkTypes'
    BY <1>1, <1>2, <1>3, <1>5, <2>1 DEF TalkTypes, NoTail
  <2>4. PageInv'
    BY <1>2, <1>5, <2>1 DEF PageInv, Sounding
  <2>5. b.talk => bridge.talk
    BY <1>5
  <2>6. PageQuiet => PageQuiet'
    BY <1>5, <2>1, <2>5 DEF PageQuiet
  <2>7. QED
    BY <1>2, <2>2, <2>3, <2>4, <2>6, PageSteps DEF OpensByPress
<1>6. CASE SetMicrophoneMode
  BY <1>6, <1>5, FreshFits, <1>4 DEF SetMicrophoneMode
<1>7. CASE SetReleaseDelay \/ TailEnds
  <2> DEFINE b == [bridge EXCEPT !.releasing = FALSE]
  <2>1. b \in Bridges /\ b.mode = bridge.mode /\ b.talk = bridge.talk /\ ~b.releasing
    BY <1>1 DEF TalkTypes, Bridges
  <2>2. \/ bridged /\ Notify(b)
        \/ /\ UNCHANGED <<bridge, gate, live>>
           /\ tail' = tail \/ ~(tail = voiceGeneration /\ bridged)
    BY <1>7 DEF SetReleaseDelay, TailEnds
  <2> HIDE DEF b
  <2>3. QED
    BY <2>1, <2>2, <1>4, <1>5
<1>8. QED
  BY <1>6, <1>7

LEMMA ButtonStep == TalkInv /\ TurnMicrophone => TalkInv' /\ OpensByPress
<1> SUFFICES ASSUME TalkInv, TurnMicrophone PROVE TalkInv' /\ OpensByPress
  OBVIOUS
<1>1. TalkTypes /\ PageInv
  BY DEF TalkInv
<1>2. UNCHANGED <<hookVars, intents, voiceGeneration, bridged, tail, delayed, chosen, bridge>> /\ bridged /\ ButtonPressed(gate)
  BY DEF TurnMicrophone, shellVars
<1>3. gate \in Gates /\ bridge \in Bridges /\ Follows(gate, bridge)
  BY <1>1 DEF TalkTypes, PageInv
<1>4. /\ gate' \in Gates /\ Follows(gate', bridge) /\ live' \in BOOLEAN /\ Sounding(gate', live')
      /\ talkingTo' \in [room : BOOLEAN, on : BOOLEAN]
      /\ gate'.mode = "talk" /\ live' => gate.mode = "talk" /\ (gate.talk \/ gate.tail)
  BY <1>1, <1>2, <1>3, ButtonSteps
<1>5. TalkTypes' /\ PageInv' /\ (PageQuiet => PageQuiet')
  BY <1>1, <1>2, <1>4 DEF TalkTypes, PageInv, Sounding, PageQuiet
<1>6. OpensByPress
  BY <1>1, <1>4 DEF OpensByPress, PageInv
<1>7. QED
  BY <1>2, <1>5, <1>6, PageSteps

LEMMA RoomSteps == TalkInv /\ (VoiceGone \/ VoiceBack \/ PublicationRefused) => TalkInv' /\ OpensByPress
<1> SUFFICES ASSUME TalkInv, VoiceGone \/ VoiceBack \/ PublicationRefused PROVE TalkInv' /\ OpensByPress
  OBVIOUS
<1>1. TalkTypes /\ PageInv
  BY DEF TalkInv
<1>2. UNCHANGED <<hookVars, intents, voiceGeneration, bridged, tail, delayed, chosen, bridge>> /\ bridged
  BY <1>1 DEF VoiceGone, VoiceBack, PublicationRefused, shellVars, PageInv
<1>3. gate \in Gates /\ bridge \in Bridges /\ Follows(gate, bridge)
  BY <1>1 DEF TalkTypes, PageInv
<1>4. gate' = HoldsReset(gate)
  BY DEF VoiceGone, VoiceBack, PublicationRefused
<1>5. /\ gate' \in Gates /\ Follows(gate', bridge)
      /\ ~gate'.talk /\ ~gate'.tail /\ gate'.mode = gate.mode /\ gate'.hush = gate.hush
  BY <1>3, <1>4, Resets
<1>6. talkingTo' \in [room : BOOLEAN, on : BOOLEAN]
  BY <1>1 DEF VoiceGone, VoiceBack, PublicationRefused, TalkTypes
<1>7. Sounding(gate', live') /\ live' \in BOOLEAN
  BY <1>1, <1>5, AllowsBy DEF VoiceGone, Sounding, TalkTypes, VoiceBack, PublicationRefused
<1>8. TalkTypes' /\ PageInv' /\ (PageQuiet => PageQuiet')
  BY <1>1, <1>2, <1>5, <1>6, <1>7 DEF TalkTypes, PageInv, Sounding, PageQuiet
<1>9. OpensByPress
  BY <1>5, <1>7 DEF OpensByPress, Sounding
<1>10. QED
  BY <1>2, <1>8, <1>9, PageSteps

LEMMA WindowSteps == TalkInv /\ (Reload \/ OpenWindow) => TalkInv' /\ OpensByPress
<1> SUFFICES ASSUME TalkInv, Reload \/ OpenWindow PROVE TalkInv' /\ OpensByPress
  OBVIOUS
<1>1. TalkTypes /\ PageInv
  BY DEF TalkInv
<1>2. UNCHANGED <<hookVars, intents, voiceGeneration, tail, delayed>> /\ bridged'
  BY DEF Reload, OpenWindow, shellVars
<1>3. PICK m \in Modes : bridge' = FreshBridge(m) /\ gate' = NewGate(m)
  BY <1>1 DEF Reload, OpenWindow, TalkTypes
<1>4. ~live' /\ live' = FALSE
  BY <1>1 DEF Reload, OpenWindow, PageInv, TalkTypes
<1>5. chosen' \in [saved : Modes, booted : Modes] /\ talkingTo' \in [room : BOOLEAN, on : BOOLEAN] /\ bridged' \in BOOLEAN
  <2>1. CASE Reload
    BY <1>1, <2>1 DEF Reload, TalkTypes, shellVars
  <2>2. CASE OpenWindow
    BY <1>1, <2>2 DEF OpenWindow, TalkTypes
  <2>3. QED
    BY <2>1, <2>2
<1>6. TalkTypes'
  BY <1>1, <1>2, <1>3, <1>4, <1>5, FreshFits DEF TalkTypes
<1>7. PageInv' /\ PageQuiet'
  BY <1>2, <1>3, <1>4, FreshFits DEF PageInv, PageQuiet, Sounding
<1>8. QED
  BY <1>2, <1>4, <1>6, <1>7, PageSteps DEF OpensByPress

LEMMA CloseStep == TalkInv /\ CloseWindow => TalkInv' /\ OpensByPress
<1> SUFFICES ASSUME TalkInv, CloseWindow PROVE TalkInv' /\ OpensByPress
  OBVIOUS
<1>1. TalkTypes /\ PageInv /\ HookInv
  BY DEF TalkInv
<1>2. /\ UNCHANGED <<hookVars, intents, tail, delayed, chosen>> /\ ~bridged' /\ bridged' = FALSE
      /\ voiceGeneration' = voiceGeneration + 1 /\ live' = FALSE /\ talkingTo' = [room |-> FALSE, on |-> TRUE]
  BY DEF CloseWindow
<1>3. chosen.saved \in Modes /\ bridge' = FreshBridge(chosen.saved) /\ gate' = NewGate(chosen.saved)
  BY <1>1 DEF CloseWindow, TalkTypes
<1>4. TalkTypes'
  <2>1. \A i \in 1..Len(intents) : intents[i].for <= voiceGeneration + 1
    <3>1. \A i \in 1..Len(intents) : intents[i].for \in Nat
      <4>1. \A i \in 1..Len(intents) : intents[i] \in Queued
        BY <1>1 DEF TalkTypes
      <4>2. QED
        BY <4>1 DEF Queued
    <3>2. QED
      BY <1>1, <3>1 DEF TalkTypes
  <2>2. voiceGeneration + 1 \in Nat \ {0}
    BY <1>1 DEF TalkTypes
  <2>3. talkingTo' \in [room : BOOLEAN, on : BOOLEAN]
    BY <1>2
  <2>4. QED
    BY <1>1, <1>2, <1>3, <2>1, <2>2, <2>3, FreshFits DEF TalkTypes
<1>5. PageInv' /\ PageQuiet'
  BY <1>2, <1>3, FreshFits DEF PageInv, PageQuiet, Sounding
<1>6. SilentIn(intents, voiceGeneration + 1)
  BY <1>1 DEF TalkTypes, SilentIn, TalkIn
<1>7. HookInv'
  BY <1>1, <1>2 DEF HookInv, hookVars, Hooked
<1>8. LetsGo'
  BY <1>2, <1>5, <1>6 DEF LetsGo
<1>9. QED
  BY <1>2, <1>4, <1>5, <1>7, <1>8 DEF TalkInv, OpensByPress

(* What arrives at the page. *)
DeliversWell == /\ TalkTypes' /\ PageInv' /\ OpensByPress
                /\ PageQuiet => \/ PageQuiet' 
                                \/ Head(intents).intent = "talk" /\ Head(intents).for = voiceGeneration
                /\ Head(intents).intent = "talk" /\ Head(intents).for = voiceGeneration /\ ~Head(intents).down => PageQuiet'

LEMMA DeliveredFits ==
    ASSUME TalkInv, Deliver
    PROVE  /\ intents # <<>> /\ intents' = Tail(intents) /\ intents \in Seq(Queued)
           /\ Head(intents) \in Queued /\ intents' \in Seq(Queued)
           /\ \A i \in 1..Len(intents') : intents'[i].for <= voiceGeneration
           /\ UNCHANGED <<hookVars, voiceGeneration, bridged, delayed, chosen, focus>>
BY Delivered DEF Deliver, TalkInv, TalkTypes

LEMMA DeliveredNowhere ==
    ASSUME TalkInv, Deliver, Head(intents).for # voiceGeneration \/ ~bridged
    PROVE  DeliversWell
BY DeliveredFits DEF Deliver, TalkInv, TalkTypes, pageVars, PageInv, PageQuiet, FreshBridge, DeliversWell,
   OpensByPress

(* A step that notifies the bridge. *)
LEMMA DeliveredToBridge ==
    ASSUME TalkInv, Deliver, bridged, NEW b \in Bridges, Notify(b), UNCHANGED talkingTo, tail' \in Nat,
           b.mode = bridge.mode, (b.talk => bridge.talk) \/ (Head(intents).intent = "talk" /\ Head(intents).down)
    PROVE  TalkTypes' /\ PageInv' /\ OpensByPress /\ bridge' = b
<1>1. TalkTypes /\ PageInv
  BY DEF TalkInv
<1>2. /\ bridge' = b /\ gate' \in Gates /\ live' \in BOOLEAN
      /\ Follows(gate', bridge') /\ Sounding(gate', live')
  BY <1>1, NotifySteps
<1>3. TalkTypes'
  BY <1>1, <1>2, DeliveredFits DEF TalkTypes
<1>4. PageInv'
  BY <1>1, <1>2, DeliveredFits DEF PageInv, Sounding
<1>5. OpensByPress
  BY <1>1, NotifyOpens, DeliveredFits DEF OpensByPress, PressArrives
<1>6. QED
  BY <1>2, <1>3, <1>4, <1>5

LEMMA DeliveredMute ==
    ASSUME TalkInv, Deliver, bridged, Head(intents).for = voiceGeneration,
           Head(intents).intent = "mute", Head(intents).down
    PROVE  DeliversWell
<1>1. TalkTypes /\ PageInv
  BY DEF TalkInv
<1>2. tail' = NoTail /\ Mute
  BY DEF Deliver
<1> DEFINE b == IF tail # NoTail THEN [bridge EXCEPT !.releasing = FALSE] ELSE bridge
           g == IF tail # NoTail THEN Gated(gate, b, Allowed) ELSE gate
<1>3. /\ bridge' = b
      /\ IF Reaches(Head(intents)) /\ talkingTo.room THEN ButtonPressed(g)
         ELSE /\ gate' = g
              /\ live' = IF tail # NoTail THEN Allowed /\ Allows(g) ELSE live
              /\ UNCHANGED talkingTo
  BY <1>2 DEF Mute
<1>4. /\ b \in Bridges /\ b.mode = bridge.mode /\ b.talk = bridge.talk
      /\ b.releasing => tail = NoTail /\ bridge.releasing
  BY <1>1 DEF TalkTypes, Bridges
<1>5. Allowed \in BOOLEAN /\ gate \in Gates /\ bridge \in Bridges /\ Follows(gate, bridge)
  BY <1>1 DEF Allowed, TalkTypes, PageInv
<1> HIDE DEF b
<1>6. /\ g \in Gates /\ Follows(g, b)
      /\ g.mode = "talk" /\ (g.talk \/ g.tail) => live
  <2>1. CASE tail = NoTail
    BY <2>1, <1>1, <1>5 DEF b, PageInv
  <2>2. CASE tail # NoTail
    BY <2>2, <1>4, <1>5, GatedFollows, GatedOpens, <1>1 DEF Follows, PageInv
  <2>3. QED
    BY <2>1, <2>2
<1> HIDE DEF g
<1>7. CASE Reaches(Head(intents)) /\ talkingTo.room
  <2>1. ButtonPressed(g)
    BY <1>3, <1>7
  <2>2. /\ gate' \in Gates /\ Follows(gate', b) /\ live' \in BOOLEAN /\ Sounding(gate', live')
        /\ talkingTo' \in [room : BOOLEAN, on : BOOLEAN]
        /\ gate'.mode = "talk" /\ live' => g.mode = "talk" /\ (g.talk \/ g.tail)
    BY <2>1, <1>1, <1>4, <1>6, ButtonSteps
  <2>3. TalkTypes'
    BY <1>1, <1>2, <1>3, <1>4, <2>2, DeliveredFits DEF TalkTypes, NoTail
  <2>4. PageInv'
    BY <1>3, <2>2, DeliveredFits DEF PageInv, Sounding
  <2>5. OpensByPress
    BY <2>2, <1>6 DEF OpensByPress
  <2>6. PageQuiet => PageQuiet'
    BY <1>1, <1>3, <1>4 DEF PageQuiet, TalkTypes, NoTail
  <2>7. QED
    BY <2>3, <2>4, <2>5, <2>6 DEF DeliversWell
<1>8. CASE ~(Reaches(Head(intents)) /\ talkingTo.room)
  <2>1. gate' = g /\ (live' = IF tail # NoTail THEN Allowed /\ Allows(g) ELSE live) /\ UNCHANGED talkingTo
    BY <1>3, <1>8
  <2>2. Sounding(gate', live') /\ live' \in BOOLEAN
    BY <2>1, <1>1, <1>4, <1>5, GatedFollows, <1>6, AllowsBy DEF g, PageInv, Sounding, TalkTypes
  <2>3. TalkTypes'
    BY <1>1, <1>2, <1>3, <1>4, <1>6, <2>1, <2>2, DeliveredFits DEF TalkTypes, NoTail
  <2>4. PageInv'
    BY <1>3, <1>6, <2>1, <2>2, DeliveredFits DEF PageInv, Sounding
  <2>5. OpensByPress
    BY <1>6, <2>1, <2>2 DEF OpensByPress, Sounding
  <2>6. PageQuiet => PageQuiet'
    BY <1>1, <1>3, <1>4 DEF PageQuiet, TalkTypes, NoTail
  <2>7. QED
    BY <2>3, <2>4, <2>5, <2>6 DEF DeliversWell
<1>9. QED
  BY <1>7, <1>8

LEMMA DeliveredTalk ==
    ASSUME TalkInv, Deliver, bridged, Head(intents).for = voiceGeneration, Head(intents).intent = "talk"
    PROVE  DeliversWell
<1>1. TalkTypes /\ PageInv
  BY DEF TalkInv
<1> DEFINE e == Head(intents)
           late == e.intent = "talk" /\ ~e.down /\ e.mayDelay /\ delayed
           b == [bridge EXCEPT !.releasing = ~e.down /\ bridge.talk /\ late, !.talk = e.down]
<1>2. /\ tail' = IF late THEN e.for ELSE IF e.intent = "talk" THEN NoTail ELSE tail
      /\ IF Reaches(e) THEN Dispatch(e, late) ELSE UNCHANGED pageVars
  BY DEF Deliver
<1>3. e.down \in BOOLEAN /\ e \in Queued
  BY DeliveredFits DEF Queued
<1>4. (late => tail' = voiceGeneration) /\ tail' \in Nat
  BY <1>1, <1>2 DEF NoTail, TalkTypes
<1>5. ~e.down => Reaches(e)
  BY DEF Reaches
<1>6. CASE Reaches(e)
  <2>1. Notify(b) /\ UNCHANGED talkingTo
    BY <1>2, <1>6 DEF Dispatch
  <2> DEFINE releases == ~e.down /\ bridge.talk /\ late
  <2>2. releases \in BOOLEAN /\ (releases => late)
    OBVIOUS
  <2>3. b = [bridge EXCEPT !.releasing = releases, !.talk = e.down]
    OBVIOUS
  <2> HIDE DEF releases, b
  <2>4. b \in Bridges /\ b.mode = bridge.mode /\ b.talk = e.down /\ b.releasing = releases
    BY <1>1, <1>3, <2>2, <2>3 DEF TalkTypes, Bridges
  <2> HIDE DEF late, e
  <2>5. (b.talk => bridge.talk) \/ (Head(intents).intent = "talk" /\ Head(intents).down)
    BY <2>4 DEF e
  <2>6. TalkTypes' /\ PageInv' /\ OpensByPress /\ bridge' = b
    BY <1>4, <2>1, <2>4, <2>5, DeliveredToBridge
  <2>7. ~e.down => PageQuiet'
    BY <1>4, <2>2, <2>4, <2>6, DeliveredFits DEF PageQuiet
  <2>8. QED
    BY <2>6, <2>7 DEF DeliversWell, e
<1>7. CASE ~Reaches(e)
  BY <1>2, <1>7, <1>1, <1>4, DeliveredFits, <1>5 DEF TalkTypes, PageInv, pageVars, DeliversWell, OpensByPress
<1>8. QED
  BY <1>6, <1>7

LEMMA DeliveredOther ==
    ASSUME TalkInv, Deliver, bridged, Head(intents).for = voiceGeneration,
           Head(intents).intent # "talk", ~(Head(intents).intent = "mute" /\ Head(intents).down)
    PROVE  DeliversWell
<1>1. TalkTypes /\ PageInv
  BY DEF TalkInv
<1> DEFINE e == Head(intents)
           b == [bridge EXCEPT !.hush = e.down]
<1>2. e.down \in BOOLEAN /\ e.intent \in {"hush", "mute"}
  BY DeliveredFits DEF Queued, Intents
<1>3. tail' = tail /\ tail' \in Nat
  BY <1>1 DEF Deliver, TalkTypes
<1>4. (Notify(b) /\ UNCHANGED talkingTo) \/ UNCHANGED pageVars
  BY <1>2 DEF Deliver, Dispatch
<1>5. CASE Notify(b) /\ UNCHANGED talkingTo
  <2>1. b \in Bridges /\ b.mode = bridge.mode /\ b.talk = bridge.talk /\ b.releasing = bridge.releasing
    BY <1>1, <1>2 DEF TalkTypes, Bridges
  <2> HIDE DEF b
  <2>2. TalkTypes' /\ PageInv' /\ OpensByPress /\ bridge' = b
    BY <1>3, <1>5, <2>1, DeliveredToBridge
  <2>3. PageQuiet => PageQuiet'
    BY <1>3, <2>1, <2>2, DeliveredFits DEF PageQuiet
  <2>4. QED
    BY <2>2, <2>3 DEF DeliversWell
<1>6. CASE UNCHANGED pageVars
  BY <1>1, <1>3, <1>6, DeliveredFits DEF TalkTypes, PageInv, pageVars, PageQuiet, DeliversWell, OpensByPress
<1>7. QED
  BY <1>4, <1>5, <1>6

LEMMA DeliverStep == TalkInv /\ Deliver => TalkInv' /\ OpensByPress
<1> SUFFICES ASSUME TalkInv, Deliver PROVE TalkInv' /\ OpensByPress
  OBVIOUS
<1>1. DeliversWell
  BY DeliveredNowhere, DeliveredMute, DeliveredTalk, DeliveredOther
<1>2. HookInv'
  BY DeliveredFits DEF TalkInv, HookInv, hookVars, Hooked
<1>3. LetsGo'
  BY DeliveredFits, Delivered, <1>1 DEF TalkInv, hookVars, DeliversWell, LetsGo
<1>4. QED
  BY <1>1, <1>2, <1>3 DEF DeliversWell, TalkInv

------------------------
LEMMA TalkStarts == PushToTalkInit => TalkInv
<1> SUFFICES ASSUME PushToTalkInit PROVE TalkInv
  OBVIOUS
<1>1. PICK m \in {"talk", "hush"} : chosen = [saved |-> m, booted |-> m]
  BY DEF PushToTalkInit
<1>2. m \in Modes /\ bridge = FreshBridge(m) /\ gate = NewGate(m) /\ live = (m # "talk")
  BY <1>1 DEF PushToTalkInit, Modes
<1>3. intents = <<>> /\ intents \in Seq(Queued) /\ Len(intents) = 0
  BY DEF PushToTalkInit
<1>4. TalkTypes
  <2>1. /\ chosen \in [saved : Modes, booted : Modes] /\ live \in BOOLEAN /\ delayed \in BOOLEAN
        /\ talkingTo \in [room : BOOLEAN, on : BOOLEAN] /\ bridged \in BOOLEAN
    BY <1>1, <1>2 DEF PushToTalkInit
  <2>2. bridge \in Bridges /\ gate \in Gates /\ tail \in Nat /\ voiceGeneration = 1
    BY <1>2, FreshFits DEF PushToTalkInit, NoTail
  <2>3. \A i \in 1..Len(intents) : intents[i].for <= voiceGeneration
    BY <1>3
  <2>4. QED
    BY <1>3, <2>1, <2>2, <2>3 DEF TalkTypes
<1>5. HookInv
  <2>1. /\ bindings["talk"] = TalkKey /\ bindings["hush"] = HushKey /\ bindings["mute"] = MuteKey
        /\ bindings \in [Intents -> Keys \cup {Unbound}] /\ held = {} /\ seenDown = {} /\ fingers = {}
    <3>1. bindings = [talk |-> TalkKey, hush |-> HushKey, mute |-> MuteKey]
      BY DEF PushToTalkInit
    <3>2. bindings = [a \in Intents |-> IF a = "talk" THEN TalkKey ELSE IF a = "hush" THEN HushKey ELSE MuteKey]
      BY <3>1 DEF Intents
    <3>3. QED
      BY <3>2 DEF PushToTalkInit, Keys, Intents
  <2>2. \A a, b \in Intents : bindings[a] = bindings[b] => a = b \/ bindings[a] = Unbound
    <3>1. \A a \in Intents : a = "talk" \/ a = "hush" \/ a = "mute"
      BY DEF Intents
    <3>2. QED
      BY <2>1, <3>1, PushToTalkAssumption
  <2>3. QED
    BY <2>1, <2>2 DEF HookInv
<1>6. PageInv
  <2>1. ~bridged => bridge = FreshBridge(bridge.mode) /\ ~live /\ ~talkingTo.room
    BY DEF PushToTalkInit
  <2>2. gate.mode = m /\ ~gate.talk /\ ~gate.tail /\ ~gate.hush
    BY <1>2 DEF NewGate
  <2>3. Follows(gate, bridge)
    BY <1>2, FreshFits
  <2>4. live <=> m # "talk"
    BY <1>2
  <2>5. /\ gate.mode = "talk" => (live <=> gate.talk \/ gate.tail)
        /\ gate.mode = "hush" /\ live => ~gate.hush
    BY <2>2, <2>4
  <2>6. QED
    BY <2>1, <2>3, <2>5 DEF PageInv
<1>7. LetsGo
  <2>1. PageQuiet
    BY <1>2, FreshFits DEF PageQuiet
  <2>2. \A j \in 1..Len(intents) : FALSE
    BY <1>3
  <2>3. QED
    BY <2>1, <2>2 DEF LetsGo, SilentIn
<1>8. QED
  BY <1>4, <1>5, <1>6, <1>7 DEF TalkInv

LEMMA TalkGoesOn ==
    TalkInv /\ [PushToTalkNext]_pushToTalkVars => TalkInv' /\ (OpensByPress \/ UNCHANGED pushToTalkVars)
<1>1. TalkInv /\ UNCHANGED pushToTalkVars => TalkInv'
  <2> SUFFICES ASSUME TalkInv, UNCHANGED pushToTalkVars PROVE TalkInv'
    OBVIOUS
  <2>1. TalkTypes' /\ PageInv' /\ PageQuiet' = PageQuiet
    BY DEF pushToTalkVars, shellVars, pageVars, TalkInv, TalkTypes, PageInv, PageQuiet
  <2>2. QED
    BY <2>1, PageSteps DEF pushToTalkVars, shellVars
<1>2. KeyMoves \/ KeyRepeats \/ ChangeShortcut \/ MoveFocus => OpensByPress
  BY DEF KeyMoves, KeyRepeats, ChangeShortcut, MoveFocus, pageVars, OpensByPress
<1>3. QED
  BY <1>1, <1>2, KeySteps, ChangeStep, FocusStep, ModeSteps, ButtonStep, RoomSteps, WindowSteps, CloseStep, DeliverStep
  DEF PushToTalkNext

(* Under the invariant, what is heard is what is held. *)
LEMMA HeldIsHeard ==
    TalkInv => (live => /\ gate.mode = "talk" /\ intents = <<>> => TalkIsHeld
                        /\ gate.mode = "hush" => ~bridge.hush)
<1> SUFFICES ASSUME TalkInv, live
             PROVE  /\ gate.mode = "talk" /\ intents = <<>> => TalkIsHeld
                    /\ gate.mode = "hush" => ~bridge.hush
  OBVIOUS
<1>1. ASSUME gate.mode = "talk", intents = <<>> PROVE TalkIsHeld
  BY <1>1 DEF TalkInv, HookInv, TalkIsHeld, EndsIn, LetsGo, PageInv, Follows, PageQuiet
<1>2. gate.mode = "hush" => ~bridge.hush
  BY DEF TalkInv, PageInv, Follows
<1>3. QED
  BY <1>1, <1>2

(* In push-to-talk a member is heard only with the key held, while a press or a *)
(* release is on its way, or until the release delay ends, and the microphone *)
(* opens only as a press arrives; in push-to-mute never while the page knows the *)
(* key is held (voice.rs, voice-bridge.js, voiceMedia.ts): whatever settings, *)
(* windows, rooms and the button do in between. *)
THEOREM TheKeyDecidesAlways == PushToTalkSpec => TheKeyDecides
<1>1. TalkInv /\ [PushToTalkNext]_pushToTalkVars => TalkInv'
  BY TalkGoesOn
<1>2. TalkInv /\ [PushToTalkNext]_pushToTalkVars => [OpensByPress]_pushToTalkVars
  BY TalkGoesOn
<1>3. QED
  BY TalkStarts, HeldIsHeard, <1>1, <1>2, PTL
  DEF PushToTalkSpec, TheKeyDecides, OnlyAPressOpens, OpensByPress, PressArrives

------------------------
(* Negotiation: a connection completes its calls in the order they were made, *)
(* so the argument is about what may stand in its queue of calls, and before *)
(* what.  It holds for any number of media changes and whoever is the Music bot. *)
------------------------
(* Queues: which kinds of elements they hold, how often and in which order. *)

Has(s, S) == \E i \in DOMAIN s : s[i] \in S
Once(s, S) == \A i, j \in DOMAIN s : s[i] \in S /\ s[j] \in S => i = j
Before(s, S, U) == \A i, j \in DOMAIN s : s[i] \in S /\ s[j] \in U => i < j

LEMMA HeadAndTail ==
    ASSUME NEW E, NEW s \in Seq(E), s # <<>>
    PROVE  /\ Head(s) \in E /\ Tail(s) \in Seq(E)
           /\ Len(s) \in Nat \ {0} /\ Len(Tail(s)) = Len(s) - 1
           /\ Head(s) = s[1]
           /\ \A i \in DOMAIN Tail(s) : i + 1 \in DOMAIN s /\ Tail(s)[i] = s[i + 1]
           /\ \A i \in DOMAIN s : i = 1 \/ (i - 1 \in DOMAIN Tail(s) /\ Tail(s)[i - 1] = s[i])
  OBVIOUS

LEMMA TailHas ==
    ASSUME NEW E, NEW s \in Seq(E), s # <<>>, NEW S
    PROVE  /\ Has(s, S) <=> Head(s) \in S \/ Has(Tail(s), S)
           /\ Once(s, S) => Once(Tail(s), S) /\ (Head(s) \in S => ~Has(Tail(s), S))
<1>1. Has(s, S) <=> Head(s) \in S \/ Has(Tail(s), S)
  <2>1. ASSUME NEW i \in DOMAIN s, s[i] \in S PROVE Head(s) \in S \/ Has(Tail(s), S)
    <3>1. CASE i = 1
      BY <2>1, <3>1, HeadAndTail
    <3>2. CASE i # 1
      BY <2>1, <3>2, HeadAndTail DEF Has
    <3>3. QED
      BY <3>1, <3>2
  <2>2. Head(s) \in S => Has(s, S)
    BY HeadAndTail DEF Has
  <2>3. Has(Tail(s), S) => Has(s, S)
    BY HeadAndTail DEF Has
  <2>4. QED
    BY <2>1, <2>2, <2>3 DEF Has
<1>2. ASSUME Once(s, S) PROVE Once(Tail(s), S)
  BY HeadAndTail, <1>2 DEF Once
<1>3. ASSUME Once(s, S), Head(s) \in S, Has(Tail(s), S) PROVE FALSE
  BY <1>3, HeadAndTail DEF Has, Once
<1>4. QED
  BY <1>1, <1>2, <1>3

LEMMA TailBefore ==
    ASSUME NEW E, NEW s \in Seq(E), s # <<>>, NEW S, NEW U, Before(s, S, U)
    PROVE  /\ Before(Tail(s), S, U)
           /\ Head(s) \in U => ~Has(s, S)
BY HeadAndTail DEF Before, Has

LEMMA AppendHas ==
    ASSUME NEW E, NEW s \in Seq(E), NEW e \in E, NEW S
    PROVE  /\ Append(s, e) \in Seq(E)
           /\ Has(Append(s, e), S) <=> Has(s, S) \/ e \in S
           /\ Once(s, S) /\ (e \in S => ~Has(s, S)) => Once(Append(s, e), S)
BY DEF Has, Once

LEMMA AppendBefore ==
    ASSUME NEW E, NEW s \in Seq(E), NEW e \in E, NEW S, NEW U, Before(s, S, U),
           e \in S => ~Has(s, U) /\ e \notin U
    PROVE  Before(Append(s, e), S, U)
<1>1. /\ Len(s) \in Nat /\ DOMAIN s = 1..Len(s)
      /\ DOMAIN Append(s, e) = DOMAIN s \cup {Len(s) + 1}
      /\ Append(s, e)[Len(s) + 1] = e
      /\ \A i \in DOMAIN s : Append(s, e)[i] = s[i]
  OBVIOUS
<1>2. ASSUME NEW i \in DOMAIN Append(s, e), NEW j \in DOMAIN Append(s, e),
             Append(s, e)[i] \in S, Append(s, e)[j] \in U
      PROVE  i < j
  BY <1>1, <1>2 DEF Before, Has
<1>3. QED
  BY <1>2 DEF Before

------------------------
(* The invariant. *)

CallsOf(ops) == [op: ops, video: BOOLEAN, shows: BOOLEAN]
Offering == CallsOf({"createOffer", "setOffer"})
SettingOffer == CallsOf({"setOffer"})
RollingBack == CallsOf({"rollback"})
Applying == CallsOf({"setRemote"})
Answering == CallsOf({"createAnswer", "setAnswer"})
Handling == CallsOf({"rollback", "setRemote", "createAnswer", "setAnswer"})
Accepting == CallsOf({"accept"})
Calls == CallsOf({"createOffer", "setOffer", "rollback", "setRemote", "createAnswer",
                  "setAnswer", "accept"})

SignalsOf(types) == [type: types, video: BOOLEAN, shows: BOOLEAN]
Offers == SignalsOf({"offer"})
Answers == SignalsOf({"answer"})
Signals == SignalsOf({"offer", "answer"})

NegotiationTypeOK ==
    /\ signalling \in [Pair -> {"stable", "local", "remote"}]
    /\ calls \in [Pair -> Seq(Calls)]
    /\ signals \in [Pair -> Seq(Signals)]
    /\ making \in [Pair -> BOOLEAN]
    /\ superseded \in [Pair -> BOOLEAN]
    /\ pendingOffer \in [Pair -> BOOLEAN]
    /\ offered \in [Pair -> BOOLEAN]
    /\ camera \in [Pair -> BOOLEAN]
    /\ section \in [Pair -> BOOLEAN]
    /\ seen \in [Pair -> BOOLEAN]

\* An offer being made is one call under way, on a connection that has none out.
MakingIsACall(p) ==
    /\ making[p] <=> Has(calls[p], Offering)
    /\ Once(calls[p], Offering)
    /\ making[p] => signalling[p] # "local"

\* An offer owed on a settled connection has an exchange before it.
OwedIsAwaited(p) ==
    pendingOffer[p] /\ signalling[p] = "stable" => making[p] \/ Has(calls[p], Applying)

\* A rollback that comes too late finds the owed offer being made.
LateRollback(p) ==
    pendingOffer[p] /\ signalling[p] = "stable" /\ Has(calls[p], RollingBack) => making[p]

\* Only the polite side is overtaken; the client's offer is then forgotten before
\* the one that overtook it is applied.
Overtaken(p) ==
    superseded[p] =>
        /\ p = 2
        /\ making[p] /\ p # bot =>
               Has(calls[p], Applying) /\ Before(calls[p], Offering, Applying)

\* The impolite side takes an offer only while it makes none of its own, so it
\* applies it before it offers, and never takes its own offer back.
FirstApplies(p) ==
    p = 1 =>
        /\ ~Has(calls[p], RollingBack)
        /\ Has(calls[p], Applying) => signalling[p] # "local" /\ ~Has(calls[p], SettingOffer)
        /\ Before(calls[p], Applying, Offering)

MemberInv(p) ==
    MakingIsACall(p) /\ OwedIsAwaited(p) /\ LateRollback(p) /\ Overtaken(p) /\ FirstApplies(p)

\* The impolite side's offer is in one place: on its way, in the other's calls, or
\* answered, with the answer on its way or being accepted.  All this time the
\* impolite side waits for it.
OnePlace ==
    /\ Once(signals[2], Offers) /\ Once(calls[2], Handling)
    /\ Once(signals[1], Answers) /\ Once(calls[1], Accepting)
    /\ Has(signals[2], Offers) =>
            ~Has(calls[2], Handling) /\ ~Has(signals[1], Answers) /\ ~Has(calls[1], Accepting)
    /\ Has(calls[2], Handling) => ~Has(signals[1], Answers) /\ ~Has(calls[1], Accepting)
    /\ Has(signals[1], Answers) => ~Has(calls[1], Accepting)

OfferIsAwaited ==
    \/ signalling[1] = "local"
    \/ /\ ~Has(signals[2], Offers) /\ ~Has(calls[2], Handling)
       /\ ~Has(signals[1], Answers) /\ ~Has(calls[1], Accepting)

\* Who has applied an offer is about to answer it.
RemoteAnswers == signalling[2] = "remote" => Has(calls[2], Answering)

ExchangeInv == OnePlace /\ OfferIsAwaited /\ RemoteAnswers

NegotiationInv ==
    NegotiationTypeOK /\ (\A p \in Pair : MemberInv(p)) /\ ExchangeInv

\* Which kinds a call and a signal are of.
LEMMA CallKinds ==
    ASSUME NEW c \in Calls
    PROVE  /\ c \in Offering <=> c.op \in {"createOffer", "setOffer"}
           /\ c \in SettingOffer <=> c.op = "setOffer"
           /\ c \in RollingBack <=> c.op = "rollback"
           /\ c \in Applying <=> c.op = "setRemote"
           /\ c \in Answering <=> c.op \in {"createAnswer", "setAnswer"}
           /\ c \in Handling <=> c.op \in {"rollback", "setRemote", "createAnswer", "setAnswer"}
           /\ c \in Accepting <=> c.op = "accept"
  BY DEF Calls, CallsOf, Offering, SettingOffer, RollingBack, Applying, Answering, Handling,
         Accepting

LEMMA SignalKinds ==
    ASSUME NEW s \in Signals
    PROVE  (s \in Offers <=> s.type = "offer") /\ (s \in Answers <=> s.type = "answer")
           /\ s.video \in BOOLEAN /\ s.shows \in BOOLEAN
  BY DEF Signals, SignalsOf, Offers, Answers

LEMMA CallIsCall ==
    ASSUME NEW op \in {"createOffer", "setOffer", "rollback", "setRemote", "createAnswer",
                       "setAnswer", "accept"},
           NEW v \in BOOLEAN, NEW s \in BOOLEAN
    PROVE  Call(op, v, s) \in Calls /\ Call(op, v, s).op = op
  BY DEF Call, Calls, CallsOf

LEMMA HandlingHas ==
    ASSUME NEW s
    PROVE  /\ Has(s, RollingBack) => Has(s, Handling)
           /\ Has(s, Applying) => Has(s, Handling)
           /\ Has(s, Answering) => Has(s, Handling)
           /\ Has(s, SettingOffer) => Has(s, Offering)
           /\ ~Has(<<>>, Applying) /\ ~Has(<<>>, Offering)
  BY DEF Has, CallsOf, RollingBack, Applying, Answering, Handling, SettingOffer, Offering

LEMMA InvIsOrderly == NegotiationInv => ExchangesAreOrderly
<1> SUFFICES ASSUME NegotiationInv PROVE ExchangesAreOrderly
  OBVIOUS
<1>1. OneExchangeAtATime
  BY HandlingHas DEF NegotiationInv, ExchangeInv, RemoteAnswers, OfferIsAwaited, OneExchangeAtATime, Pair
<1>2. OwedOffersAreMade
  BY HandlingHas DEF NegotiationAtRest, NegotiationInv, MemberInv, MakingIsACall, OwedIsAwaited, OwedOffersAreMade
<1>3. QED
  BY <1>1, <1>2 DEF ExchangesAreOrderly

\* The member that did not act.
LEMMA OtherMember ==
    ASSUME NEW q \in Pair, MemberInv(q), bot' = bot, calls'[q] = calls[q],
           signalling'[q] = signalling[q], making'[q] = making[q],
           pendingOffer'[q] = pendingOffer[q], superseded'[q] = superseded[q]
    PROVE  MemberInv(q)'
  BY DEF MemberInv, MakingIsACall, OwedIsAwaited, LateRollback, Overtaken, FirstApplies

\* A step that moves the impolite side's offer nowhere, or loses it.
LEMMA NowhereNew ==
    ASSUME ExchangeInv,
           Has(signals'[2], Offers) => Has(signals[2], Offers),
           Has(calls'[2], Handling) => Has(calls[2], Handling),
           Has(signals'[1], Answers) => Has(signals[1], Answers),
           Has(calls'[1], Accepting) => Has(calls[1], Accepting),
           Once(signals'[2], Offers), Once(calls'[2], Handling),
           Once(signals'[1], Answers), Once(calls'[1], Accepting),
           signalling[1] = "local" => signalling'[1] = "local",
           signalling'[2] = "remote" => Has(calls'[2], Answering)
    PROVE  ExchangeInv'
  BY DEF ExchangeInv, OnePlace, OfferIsAwaited, RemoteAnswers

------------------------
(* The actions.  Each is stated of one member, p, and its peer. *)

LEMMA PairOfTwo ==
    /\ \A p \in Pair : Peer(p) \in Pair /\ Peer(p) # p /\ \A q \in Pair : q = p \/ q = Peer(p)
    /\ Peer(1) = 2 /\ Peer(2) = 1 /\ 1 \in Pair /\ 2 \in Pair /\ \A p \in Pair : p = 1 \/ p = 2
  BY DEF Pair, Peer

\* What a call that is added, or that ends, changes of a queue of calls.
LEMMA CallAdded ==
    ASSUME NEW s \in Seq(Calls), NEW c \in Calls, NEW t, t = Append(s, c)
    PROVE  /\ t \in Seq(Calls)
           /\ Has(t, Offering) <=> Has(s, Offering) \/ c.op \in {"createOffer", "setOffer"}
           /\ Has(t, SettingOffer) <=> Has(s, SettingOffer) \/ c.op = "setOffer"
           /\ Has(t, RollingBack) <=> Has(s, RollingBack) \/ c.op = "rollback"
           /\ Has(t, Applying) <=> Has(s, Applying) \/ c.op = "setRemote"
           /\ Has(t, Answering) <=> Has(s, Answering) \/ c.op \in {"createAnswer", "setAnswer"}
           /\ Has(t, Handling) <=> Has(s, Handling)
                \/ c.op \in {"rollback", "setRemote", "createAnswer", "setAnswer"}
           /\ Has(t, Accepting) <=> Has(s, Accepting) \/ c.op = "accept"
           /\ Once(s, Offering) /\ ~(c.op \in {"createOffer", "setOffer"} /\ Has(s, Offering))
                => Once(t, Offering)
           /\ Once(s, Handling)
                /\ ~(c.op \in {"rollback", "setRemote", "createAnswer", "setAnswer"}
                     /\ Has(s, Handling))
                => Once(t, Handling)
           /\ Once(s, Accepting) /\ ~(c.op = "accept" /\ Has(s, Accepting)) => Once(t, Accepting)
           /\ Before(s, Offering, Applying)
                /\ ~(c.op \in {"createOffer", "setOffer"} /\ Has(s, Applying))
                => Before(t, Offering, Applying)
           /\ Before(s, Applying, Offering) /\ ~(c.op = "setRemote" /\ Has(s, Offering))
                => Before(t, Applying, Offering)
<1>1. /\ t \in Seq(Calls)
      /\ Has(t, Offering) <=> Has(s, Offering) \/ c.op \in {"createOffer", "setOffer"}
      /\ Has(t, SettingOffer) <=> Has(s, SettingOffer) \/ c.op = "setOffer"
      /\ Has(t, RollingBack) <=> Has(s, RollingBack) \/ c.op = "rollback"
      /\ Has(t, Applying) <=> Has(s, Applying) \/ c.op = "setRemote"
      /\ Has(t, Answering) <=> Has(s, Answering) \/ c.op \in {"createAnswer", "setAnswer"}
      /\ Has(t, Handling) <=> Has(s, Handling)
                \/ c.op \in {"rollback", "setRemote", "createAnswer", "setAnswer"}
      /\ Has(t, Accepting) <=> Has(s, Accepting) \/ c.op = "accept"
  BY AppendHas, CallKinds
<1>2. /\ Once(s, Offering) /\ ~(c.op \in {"createOffer", "setOffer"} /\ Has(s, Offering))
            => Once(t, Offering)
      /\ Once(s, Handling)
            /\ ~(c.op \in {"rollback", "setRemote", "createAnswer", "setAnswer"}
                 /\ Has(s, Handling))
            => Once(t, Handling)
      /\ Once(s, Accepting) /\ ~(c.op = "accept" /\ Has(s, Accepting)) => Once(t, Accepting)
  BY AppendHas, CallKinds
<1>3. ASSUME Before(s, Offering, Applying),
             ~(c.op \in {"createOffer", "setOffer"} /\ Has(s, Applying))
      PROVE  Before(t, Offering, Applying)
  BY <1>3, AppendBefore, CallKinds
<1>4. ASSUME Before(s, Applying, Offering), ~(c.op = "setRemote" /\ Has(s, Offering))
      PROVE  Before(t, Applying, Offering)
  BY <1>4, AppendBefore, CallKinds
<1>5. QED
  BY <1>1, <1>2, <1>3, <1>4

LEMMA CallEnded ==
    ASSUME NEW s \in Seq(Calls), s # <<>>
    PROVE  /\ Tail(s) \in Seq(Calls) /\ Head(s) \in Calls
           /\ Has(s, Offering) <=> Has(Tail(s), Offering) \/ Head(s).op \in {"createOffer", "setOffer"}
           /\ Has(s, SettingOffer) <=> Has(Tail(s), SettingOffer) \/ Head(s).op = "setOffer"
           /\ Has(s, RollingBack) <=> Has(Tail(s), RollingBack) \/ Head(s).op = "rollback"
           /\ Has(s, Applying) <=> Has(Tail(s), Applying) \/ Head(s).op = "setRemote"
           /\ Has(s, Answering) <=> Has(Tail(s), Answering)
                \/ Head(s).op \in {"createAnswer", "setAnswer"}
           /\ Has(s, Handling) <=> Has(Tail(s), Handling)
                \/ Head(s).op \in {"rollback", "setRemote", "createAnswer", "setAnswer"}
           /\ Has(s, Accepting) <=> Has(Tail(s), Accepting) \/ Head(s).op = "accept"
           /\ Once(s, Offering) =>
                /\ Once(Tail(s), Offering)
                /\ Head(s).op \in {"createOffer", "setOffer"} => ~Has(Tail(s), Offering)
           /\ Once(s, Handling) =>
                /\ Once(Tail(s), Handling)
                /\ Head(s).op \in {"rollback", "setRemote", "createAnswer", "setAnswer"}
                        => ~Has(Tail(s), Handling)
           /\ Once(s, Accepting) =>
                /\ Once(Tail(s), Accepting)
                /\ Head(s).op = "accept" => ~Has(Tail(s), Accepting)
           /\ Before(s, Offering, Applying) =>
                /\ Before(Tail(s), Offering, Applying)
                /\ Head(s).op = "setRemote" => ~Has(s, Offering)
           /\ Before(s, Applying, Offering) =>
                /\ Before(Tail(s), Applying, Offering)
                /\ Head(s).op \in {"createOffer", "setOffer"} => ~Has(s, Applying)
<1>1. Tail(s) \in Seq(Calls) /\ Head(s) \in Calls
  BY HeadAndTail
<1>2. /\ Has(s, Offering) <=> Has(Tail(s), Offering) \/ Head(s).op \in {"createOffer", "setOffer"}
      /\ Has(s, SettingOffer) <=> Has(Tail(s), SettingOffer) \/ Head(s).op = "setOffer"
      /\ Has(s, RollingBack) <=> Has(Tail(s), RollingBack) \/ Head(s).op = "rollback"
      /\ Has(s, Applying) <=> Has(Tail(s), Applying) \/ Head(s).op = "setRemote"
      /\ Has(s, Answering) <=> Has(Tail(s), Answering)
                \/ Head(s).op \in {"createAnswer", "setAnswer"}
      /\ Has(s, Handling) <=> Has(Tail(s), Handling)
                \/ Head(s).op \in {"rollback", "setRemote", "createAnswer", "setAnswer"}
      /\ Has(s, Accepting) <=> Has(Tail(s), Accepting) \/ Head(s).op = "accept"
  BY <1>1, TailHas, CallKinds
<1>3. /\ Once(s, Offering) =>
            /\ Once(Tail(s), Offering)
            /\ Head(s).op \in {"createOffer", "setOffer"} => ~Has(Tail(s), Offering)
      /\ Once(s, Handling) =>
            /\ Once(Tail(s), Handling)
            /\ Head(s).op \in {"rollback", "setRemote", "createAnswer", "setAnswer"}
                    => ~Has(Tail(s), Handling)
      /\ Once(s, Accepting) =>
            /\ Once(Tail(s), Accepting)
            /\ Head(s).op = "accept" => ~Has(Tail(s), Accepting)
  BY <1>1, TailHas, CallKinds
<1>4. ASSUME Before(s, Offering, Applying)
      PROVE  /\ Before(Tail(s), Offering, Applying)
             /\ Head(s).op = "setRemote" => ~Has(s, Offering)
  BY <1>1, <1>4, TailBefore, CallKinds
<1>5. ASSUME Before(s, Applying, Offering)
      PROVE  /\ Before(Tail(s), Applying, Offering)
             /\ Head(s).op \in {"createOffer", "setOffer"} => ~Has(s, Applying)
  BY <1>1, <1>5, TailBefore, CallKinds
<1>6. QED
  BY <1>1, <1>2, <1>3, <1>4, <1>5

LEMMA OneActs ==
    ASSUME NegotiationInv, NEW p \in Pair, bot' = bot,
           \A q \in Pair \ {p} : /\ calls'[q] = calls[q] /\ signalling'[q] = signalling[q]
                                 /\ making'[q] = making[q] /\ superseded'[q] = superseded[q]
                                 /\ pendingOffer'[q] = pendingOffer[q],
           NegotiationTypeOK', MemberInv(p)', ExchangeInv'
    PROVE  NegotiationInv'
BY OtherMember DEF NegotiationInv

\* An offer begun, or owed, by a member that has just been given a reason for one.
LEMMA SendingKeeps ==
    ASSUME NegotiationInv, NEW p \in Pair, SendOffer(p, calls[p]), NegotiationTypeOK',
           UNCHANGED <<bot, signalling, signals>>
    PROVE  NegotiationInv'
<1>1. /\ calls \in [Pair -> Seq(Calls)] /\ making \in [Pair -> BOOLEAN]
      /\ superseded \in [Pair -> BOOLEAN] /\ pendingOffer \in [Pair -> BOOLEAN]
      /\ signalling \in [Pair -> {"stable", "local", "remote"}]
      /\ MemberInv(p) /\ ExchangeInv
  BY DEF NegotiationInv, NegotiationTypeOK
<1>2. CASE Collides(p)
  <2>1. /\ pendingOffer' = [pendingOffer EXCEPT ![p] = TRUE]
        /\ calls' = calls /\ making' = making /\ superseded' = superseded
    BY <1>1, <1>2 DEF SendOffer
  <2>2. MemberInv(p)'
    BY <1>1, <1>2, <2>1 DEF OwedIsAwaited, LateRollback, Collides, MemberInv, MakingIsACall, Overtaken, FirstApplies
  <2>3. ExchangeInv'
    BY <1>1, <2>1 DEF ExchangeInv, OnePlace, OfferIsAwaited, RemoteAnswers
  <2>4. \A q \in Pair \ {p} : pendingOffer'[q] = pendingOffer[q]
    BY <1>1, <2>1
  <2>5. QED
    BY <2>1, <2>2, <2>3, <2>4, OneActs
<1>3. CASE ~Collides(p)
  <2> DEFINE c == Call("createOffer", FALSE, FALSE)
  <2>1. /\ making' = [making EXCEPT ![p] = TRUE]
        /\ superseded' = [superseded EXCEPT ![p] = FALSE]
        /\ calls' = [calls EXCEPT ![p] = Append(calls[p], c)]
        /\ pendingOffer' = pendingOffer
    BY <1>3 DEF SendOffer
  <2>2. /\ making'[p] /\ ~superseded'[p] /\ calls'[p] = Append(calls[p], c)
        /\ \A q \in Pair \ {p} : making'[q] = making[q] /\ superseded'[q] = superseded[q]
                                    /\ calls'[q] = calls[q]
    BY <1>1, <2>1
  <2>3. c \in Calls /\ c.op = "createOffer" /\ calls[p] \in Seq(Calls)
    BY <1>1, CallIsCall
  <2> HIDE DEF c
  <2>4. ~making[p] /\ signalling[p] = "stable"
    BY <1>3 DEF Collides
  <2>5. MemberInv(p)'
    <3>1. MakingIsACall(p)'
      BY <1>1, <2>2, <2>3, <2>4, CallAdded DEF MemberInv, MakingIsACall
    <3>2. OwedIsAwaited(p)' /\ LateRollback(p)'
      BY <2>2 DEF OwedIsAwaited, LateRollback
    <3>3. Overtaken(p)'
      BY <2>2 DEF Overtaken
    <3>4. FirstApplies(p)'
      <4>1. /\ Has(calls'[p], RollingBack) <=> Has(calls[p], RollingBack)
            /\ Has(calls'[p], Applying) <=> Has(calls[p], Applying)
            /\ Has(calls'[p], SettingOffer) <=> Has(calls[p], SettingOffer)
            /\ Before(calls[p], Applying, Offering) => Before(calls'[p], Applying, Offering)
        BY <2>2, <2>3, CallAdded
      <4>2. QED
        BY <1>1, <4>1 DEF MemberInv, FirstApplies
    <3>5. QED
      BY <3>1, <3>2, <3>3, <3>4 DEF MemberInv
  <2>6. ExchangeInv'
    <3>1. ASSUME NEW q \in Pair
          PROVE  /\ Has(calls'[q], Handling) <=> Has(calls[q], Handling)
                 /\ Has(calls'[q], Accepting) <=> Has(calls[q], Accepting)
                 /\ Has(calls'[q], Answering) <=> Has(calls[q], Answering)
                 /\ Once(calls[q], Handling) => Once(calls'[q], Handling)
                 /\ Once(calls[q], Accepting) => Once(calls'[q], Accepting)
      BY <2>2, <2>3, CallAdded
    <3>2. signals' = signals /\ signalling' = signalling
      OBVIOUS
    <3>3. QED
      BY <1>1, <3>1, <3>2, PairOfTwo DEF ExchangeInv, OnePlace, OfferIsAwaited, RemoteAnswers
  <2>7. QED
    BY <2>1, <2>2, <2>5, <2>6, OneActs
<1>4. QED
  BY <1>2, <1>3

\* Handling is one thing at a time.
LEMMA OneHandling ==
    ASSUME NEW s \in Seq(Calls), Once(s, Handling), Has(s, Applying)
    PROVE  ~Has(s, RollingBack)
BY DEF Has, Handling, Applying, RollingBack, CallsOf, Once

\* What the lemmas below know of p before its step.
LEMMA Before_p ==
    ASSUME NegotiationInv, NEW p \in Pair
    PROVE  /\ calls \in [Pair -> Seq(Calls)] /\ making \in [Pair -> BOOLEAN]
           /\ superseded \in [Pair -> BOOLEAN] /\ pendingOffer \in [Pair -> BOOLEAN]
           /\ signalling \in [Pair -> {"stable", "local", "remote"}]
           /\ signals \in [Pair -> Seq(Signals)]
           /\ calls[p] \in Seq(Calls) /\ signals[p] \in Seq(Signals)
           /\ MakingIsACall(p) /\ OwedIsAwaited(p) /\ LateRollback(p) /\ Overtaken(p)
           /\ FirstApplies(p) /\ ExchangeInv
  BY DEF NegotiationInv, NegotiationTypeOK, MemberInv

LEMMA OfferCreatedKeeps ==
    ASSUME NegotiationInv, NEW p \in Pair, OfferCreated(p), NegotiationTypeOK'
    PROVE  NegotiationInv'
<1> DEFINE s == calls[p]
           c == Call("setOffer", section[p], camera[p])
<1>1. /\ s \in Seq(Calls) /\ s # <<>> /\ Head(s).op = "createOffer"
      /\ MakingIsACall(p) /\ OwedIsAwaited(p) /\ LateRollback(p) /\ Overtaken(p)
      /\ FirstApplies(p) /\ ExchangeInv
  BY Before_p DEF OfferCreated, CallIs
<1>2. UNCHANGED <<bot, signalling, superseded, signals>>
  BY DEF OfferCreated
<1>3. /\ making[p] /\ ~Has(Tail(s), Offering) /\ Once(Tail(s), Offering)
      /\ Has(Tail(s), SettingOffer) => FALSE
  BY <1>1, CallEnded, HandlingHas DEF MakingIsACall
<1>4. /\ Has(Tail(s), RollingBack) <=> Has(s, RollingBack)
      /\ Has(Tail(s), Applying) <=> Has(s, Applying)
      /\ Has(Tail(s), Answering) <=> Has(s, Answering)
      /\ Has(Tail(s), Handling) <=> Has(s, Handling)
      /\ Has(Tail(s), Accepting) <=> Has(s, Accepting)
  BY <1>1, CallEnded
<1>5. /\ Once(s, Handling) => Once(Tail(s), Handling)
      /\ Once(s, Accepting) => Once(Tail(s), Accepting)
      /\ Before(s, Applying, Offering) => Before(Tail(s), Applying, Offering) /\ ~Has(s, Applying)
      /\ Tail(s) \in Seq(Calls)
  BY <1>1, CallEnded
<1>6. CASE signalling[p] # "stable" \/ (superseded[p] /\ p # bot)
  <2>1. /\ calls' = [calls EXCEPT ![p] = Tail(s)]
        /\ making' = [making EXCEPT ![p] = FALSE]
        /\ pendingOffer' = [pendingOffer EXCEPT ![p] = pendingOffer[p] \/ p = bot]
    BY <1>6 DEF OfferCreated, Ends, Released
  <2>2. /\ calls'[p] = Tail(s) /\ ~making'[p] /\ (pendingOffer'[p] <=> pendingOffer[p] \/ p = bot)
        /\ \A q \in Pair \ {p} : /\ calls'[q] = calls[q] /\ making'[q] = making[q]
                                 /\ pendingOffer'[q] = pendingOffer[q]
    BY <2>1, Before_p
  <2>3. MemberInv(p)'
    <3>1. MakingIsACall(p)'
      BY <1>3, <2>2 DEF MakingIsACall
    <3>2. ASSUME signalling[p] = "stable"
          PROVE  (pendingOffer[p] /\ p = 2 /\ Has(s, Applying)) \/ ~pendingOffer'[p]
      BY <1>1, <1>3, <1>6, <2>2, <3>2 DEF Overtaken
    <3>3. OwedIsAwaited(p)'
      BY <1>2, <1>4, <2>2, <3>2 DEF OwedIsAwaited
    <3>4. LateRollback(p)'
      BY <1>1, OneHandling, <1>2, <1>4, <2>2, <3>2 DEF ExchangeInv, OnePlace, LateRollback
    <3>5. Overtaken(p)'
      BY <1>1, <1>2, <2>2 DEF Overtaken
    <3>6. FirstApplies(p)'
      BY <1>1, <1>2, <1>3, <1>4, <1>5, <2>2 DEF FirstApplies
    <3>7. QED
      BY <3>1, <3>3, <3>4, <3>5, <3>6 DEF MemberInv
  <2>4. ExchangeInv'
    BY <1>1, <1>2, <1>4, <1>5, <2>2, PairOfTwo
    DEF ExchangeInv, OnePlace, OfferIsAwaited, RemoteAnswers
  <2>5. QED
    BY <1>2, <2>2, <2>3, <2>4, OneActs
<1>7. CASE ~(signalling[p] # "stable" \/ (superseded[p] /\ p # bot))
  <2>1. /\ calls' = [calls EXCEPT ![p] = Append(Tail(s), c)]
        /\ making' = making /\ pendingOffer' = pendingOffer
    BY <1>7 DEF OfferCreated, GoesOn
  <2>2. /\ calls'[p] = Append(Tail(s), c)
        /\ \A q \in Pair \ {p} : calls'[q] = calls[q]
    BY <2>1, Before_p
  <2>3. c \in Calls /\ c.op = "setOffer"
    BY CallIsCall DEF NegotiationInv, NegotiationTypeOK
  <2> HIDE DEF c
  <2>4. /\ Has(calls'[p], Offering) /\ Once(calls'[p], Offering)
        /\ Has(calls'[p], RollingBack) <=> Has(s, RollingBack)
        /\ Has(calls'[p], Applying) <=> Has(s, Applying)
        /\ Has(calls'[p], Answering) <=> Has(s, Answering)
        /\ Has(calls'[p], Handling) <=> Has(s, Handling)
        /\ Has(calls'[p], Accepting) <=> Has(s, Accepting)
    <3>1. Has(calls'[p], Offering) /\ Once(calls'[p], Offering)
      BY <1>3, <1>5, <2>2, <2>3, CallAdded
    <3>2. /\ Has(calls'[p], RollingBack) <=> Has(Tail(s), RollingBack)
          /\ Has(calls'[p], Applying) <=> Has(Tail(s), Applying)
          /\ Has(calls'[p], Answering) <=> Has(Tail(s), Answering)
          /\ Has(calls'[p], Handling) <=> Has(Tail(s), Handling)
          /\ Has(calls'[p], Accepting) <=> Has(Tail(s), Accepting)
      BY <1>5, <2>2, <2>3, CallAdded
    <3>3. QED
      BY <1>4, <3>1, <3>2
  <2>5. /\ Once(s, Handling) => Once(calls'[p], Handling)
        /\ Once(s, Accepting) => Once(calls'[p], Accepting)
        /\ Before(s, Applying, Offering) => Before(calls'[p], Applying, Offering)
    BY <1>5, <2>2, <2>3, CallAdded
  <2>6. MemberInv(p)'
    <3>1. MakingIsACall(p)'
      BY <1>1, <1>2, <1>3, <2>1, <2>4 DEF MakingIsACall
    <3>2. OwedIsAwaited(p)' /\ LateRollback(p)'
      BY <1>3, <2>1 DEF OwedIsAwaited, LateRollback
    <3>3. Overtaken(p)'
      BY <1>1, <1>2, <1>7, <2>1 DEF Overtaken
    <3>4. FirstApplies(p)'
      BY <1>1, <1>2, <1>5, <2>4, <2>5 DEF FirstApplies
    <3>5. QED
      BY <3>1, <3>2, <3>3, <3>4 DEF MemberInv
  <2>7. ExchangeInv'
    BY <1>1, <1>2, <2>2, <2>4, <2>5, PairOfTwo
    DEF ExchangeInv, OnePlace, OfferIsAwaited, RemoteAnswers
  <2>8. QED
    BY <1>2, <2>1, <2>2, <2>6, <2>7, OneActs
<1>8. QED
  BY <1>6, <1>7

LEMMA SignalsMove ==
    ASSUME NEW s \in Seq(Signals)
    PROVE  /\ s # <<>> =>
                /\ Tail(s) \in Seq(Signals) /\ Head(s) \in Signals
                /\ Has(s, Offers) <=> Has(Tail(s), Offers) \/ Head(s).type = "offer"
                /\ Has(s, Answers) <=> Has(Tail(s), Answers) \/ Head(s).type = "answer"
                /\ Once(s, Offers) => /\ Once(Tail(s), Offers)
                                      /\ Head(s).type = "offer" => ~Has(Tail(s), Offers)
                /\ Once(s, Answers) => /\ Once(Tail(s), Answers)
                                       /\ Head(s).type = "answer" => ~Has(Tail(s), Answers)
           /\ \A m \in Signals :
                /\ Has(Append(s, m), Offers) <=> Has(s, Offers) \/ m.type = "offer"
                /\ Has(Append(s, m), Answers) <=> Has(s, Answers) \/ m.type = "answer"
                /\ Once(s, Offers) /\ ~(m.type = "offer" /\ Has(s, Offers))
                        => Once(Append(s, m), Offers)
                /\ Once(s, Answers) /\ ~(m.type = "answer" /\ Has(s, Answers))
                        => Once(Append(s, m), Answers)
<1>1. ASSUME s # <<>>
      PROVE  /\ Tail(s) \in Seq(Signals) /\ Head(s) \in Signals
             /\ Has(s, Offers) <=> Has(Tail(s), Offers) \/ Head(s).type = "offer"
             /\ Has(s, Answers) <=> Has(Tail(s), Answers) \/ Head(s).type = "answer"
             /\ Once(s, Offers) => /\ Once(Tail(s), Offers)
                                   /\ Head(s).type = "offer" => ~Has(Tail(s), Offers)
             /\ Once(s, Answers) => /\ Once(Tail(s), Answers)
                                    /\ Head(s).type = "answer" => ~Has(Tail(s), Answers)
  BY <1>1, HeadAndTail, TailHas, SignalKinds
<1>2. ASSUME NEW m \in Signals
      PROVE  /\ Has(Append(s, m), Offers) <=> Has(s, Offers) \/ m.type = "offer"
             /\ Has(Append(s, m), Answers) <=> Has(s, Answers) \/ m.type = "answer"
             /\ Once(s, Offers) /\ ~(m.type = "offer" /\ Has(s, Offers))
                     => Once(Append(s, m), Offers)
             /\ Once(s, Answers) /\ ~(m.type = "answer" /\ Has(s, Answers))
                     => Once(Append(s, m), Answers)
  BY AppendHas, SignalKinds
<1>3. QED
  BY <1>1, <1>2

\* A signal that goes out.
LEMMA Sending ==
    ASSUME NegotiationInv, NEW p \in Pair, NEW type \in {"offer", "answer"},
           NEW video \in BOOLEAN, NEW shows \in BOOLEAN, Sends(p, type, video, shows)
    PROVE  /\ signals'[p] = signals[p]
           /\ Has(signals'[Peer(p)], Offers) <=> Has(signals[Peer(p)], Offers) \/ type = "offer"
           /\ Has(signals'[Peer(p)], Answers) <=> Has(signals[Peer(p)], Answers) \/ type = "answer"
           /\ Once(signals[Peer(p)], Offers) /\ ~(type = "offer" /\ Has(signals[Peer(p)], Offers))
                => Once(signals'[Peer(p)], Offers)
           /\ Once(signals[Peer(p)], Answers) /\ ~(type = "answer" /\ Has(signals[Peer(p)], Answers))
                => Once(signals'[Peer(p)], Answers)
<1> DEFINE m == [type |-> type, video |-> video, shows |-> shows]
<1>1. m \in Signals /\ m.type = type
  BY DEF Signals, SignalsOf
<1>2. /\ signals'[p] = signals[p]
      /\ signals'[Peer(p)] = Append(signals[Peer(p)], m)
      /\ signals[Peer(p)] \in Seq(Signals)
  BY Before_p, PairOfTwo DEF Sends
<1> HIDE DEF m
<1>3. QED
  BY <1>1, <1>2, SignalsMove

LEMMA OfferSetKeeps ==
    ASSUME NegotiationInv, NEW p \in Pair, OfferSet(p), NegotiationTypeOK'
    PROVE  NegotiationInv'
<1> DEFINE s == calls[p]
<1>1. /\ s \in Seq(Calls) /\ s # <<>> /\ Head(s).op = "setOffer" /\ Head(s) \in Calls
      /\ MakingIsACall(p) /\ OwedIsAwaited(p) /\ LateRollback(p) /\ Overtaken(p)
      /\ FirstApplies(p) /\ ExchangeInv
  BY Before_p, CallEnded DEF OfferSet, CallIs
<1>2. /\ calls' = [calls EXCEPT ![p] = Tail(s)]
      /\ making' = [making EXCEPT ![p] = FALSE]
      /\ signalling' = [signalling EXCEPT ![p] = IF signalling[p] = "stable" THEN "local" ELSE signalling[p]]
      /\ UNCHANGED <<bot, superseded, pendingOffer>>
  BY DEF OfferSet, Ends, Released
<1>3. /\ calls'[p] = Tail(s) /\ ~making'[p]
      /\ signalling'[p] = IF signalling[p] = "stable" THEN "local" ELSE signalling[p]
      /\ \A q \in Pair \ {p} : /\ calls'[q] = calls[q] /\ making'[q] = making[q]
                               /\ signalling'[q] = signalling[q]
  BY <1>2, Before_p
<1>4. /\ Has(Tail(s), RollingBack) <=> Has(s, RollingBack)
      /\ Has(Tail(s), Applying) <=> Has(s, Applying)
      /\ Has(Tail(s), Answering) <=> Has(s, Answering)
      /\ Has(Tail(s), Handling) <=> Has(s, Handling)
      /\ Has(Tail(s), Accepting) <=> Has(s, Accepting)
  BY <1>1, CallEnded
<1>5. /\ Once(s, Handling) => Once(Tail(s), Handling)
      /\ Once(s, Accepting) => Once(Tail(s), Accepting)
      /\ Before(s, Applying, Offering) => Before(Tail(s), Applying, Offering) /\ ~Has(s, Applying)
      /\ making[p] /\ ~Has(Tail(s), Offering) /\ Once(Tail(s), Offering)
  BY <1>1, CallEnded DEF MakingIsACall
<1>6. signalling'[p] # "stable"
  BY <1>3
<1>7. MemberInv(p)'
  BY <1>3, <1>5, <1>6, <1>1, <1>2, <1>4 DEF MakingIsACall, OwedIsAwaited, LateRollback, Overtaken, FirstApplies,
     MemberInv
<1>8. ExchangeInv'
  <2>1. /\ signals' = signals
        \/ /\ signalling[p] = "stable"
           /\ Sends(p, "offer", Head(s).video, Head(s).shows)
    BY DEF OfferSet, ThisCall
  <2>2. /\ Has(signals'[1], Answers) <=> Has(signals[1], Answers)
        /\ Once(signals[1], Answers) => Once(signals'[1], Answers)
        /\ Has(signals[2], Offers) => Has(signals'[2], Offers)
        /\ Has(signals'[2], Offers) => Has(signals[2], Offers) \/ (p = 1 /\ signalling[1] = "stable")
        /\ Once(signals[2], Offers) /\ ~(p = 1 /\ signalling[1] = "stable" /\ Has(signals[2], Offers))
                => Once(signals'[2], Offers)
    <3>1. CASE signals' = signals
      BY <3>1
    <3>2. CASE signalling[p] = "stable" /\ Sends(p, "offer", Head(s).video, Head(s).shows)
      <4>1. Head(s).video \in BOOLEAN /\ Head(s).shows \in BOOLEAN
        BY <1>1 DEF Calls, CallsOf
      <4>2. /\ signals'[p] = signals[p]
            /\ Has(signals'[Peer(p)], Offers)
            /\ Has(signals'[Peer(p)], Answers) <=> Has(signals[Peer(p)], Answers)
            /\ Once(signals[Peer(p)], Offers) /\ ~Has(signals[Peer(p)], Offers)
                  => Once(signals'[Peer(p)], Offers)
            /\ Once(signals[Peer(p)], Answers) => Once(signals'[Peer(p)], Answers)
        BY <3>2, <4>1, Sending
      <4>3. CASE p = 1
        BY <3>2, <4>2, <4>3, PairOfTwo
      <4>4. CASE p = 2
        BY <4>2, <4>4, PairOfTwo
      <4>5. QED
        BY <4>3, <4>4, PairOfTwo
    <3>3. QED
      BY <2>1, <3>1, <3>2
  <2>3. CASE p = 1
    <3>1. signalling[1] # "local"
      BY <1>1, <1>5, <2>3 DEF MakingIsACall
    <3>2. /\ ~Has(signals[2], Offers) /\ ~Has(calls[2], Handling)
          /\ ~Has(signals[1], Answers) /\ ~Has(calls[1], Accepting)
      BY <1>1, <3>1 DEF ExchangeInv, OfferIsAwaited
    <3>3. calls'[2] = calls[2] /\ signalling'[2] = signalling[2]
      BY <1>3, <2>3, PairOfTwo
    <3>4. ~Has(calls'[1], Accepting) /\ Once(calls'[1], Accepting)
      BY <1>1, <1>3, <1>4, <1>5, <2>3, <3>2 DEF ExchangeInv, OnePlace
    <3>5. Has(signals'[2], Offers) => signalling'[1] = "local"
      BY <1>3, <2>2, <2>3, <3>2
    <3>6. OnePlace'
      BY <1>1, <2>2, <3>2, <3>3, <3>4 DEF ExchangeInv, OnePlace
    <3>7. OfferIsAwaited'
      BY <2>2, <3>2, <3>3, <3>4, <3>5 DEF OfferIsAwaited
    <3>8. RemoteAnswers'
      BY <1>1, <3>3 DEF ExchangeInv, RemoteAnswers
    <3>9. QED
      BY <3>6, <3>7, <3>8 DEF ExchangeInv
  <2>4. CASE p = 2
    <3>1. calls'[1] = calls[1] /\ signalling'[1] = signalling[1]
      BY <1>3, <2>4, PairOfTwo
    <3>2. signalling'[2] = "remote" => Has(calls'[2], Answering)
      BY <1>1, <1>3, <1>4, <2>4 DEF ExchangeInv, RemoteAnswers
    <3>3. Has(signals'[2], Offers) => Has(signals[2], Offers)
      BY <2>2, <2>4
    <3>4. Once(signals'[2], Offers) /\ Once(calls'[2], Handling)
          /\ Once(signals'[1], Answers) /\ Once(calls'[1], Accepting)
      BY <1>1, <1>3, <1>5, <2>2, <2>4, <3>1 DEF ExchangeInv, OnePlace
    <3>5. Has(calls'[2], Handling) => Has(calls[2], Handling)
      BY <1>3, <1>4, <2>4
    <3>6. QED
      BY <1>1, <2>2, <3>1, <3>2, <3>3, <3>4, <3>5, NowhereNew
  <2>5. QED
    BY <2>3, <2>4, PairOfTwo
<1>9. QED
  BY <1>2, <1>3, <1>7, <1>8, OneActs

\* A signal taken out.
LEMMA Taking ==
    ASSUME NegotiationInv, NEW p \in Pair, signals[p] # <<>>, Took(p)
    PROVE  /\ \A q \in Pair \ {p} : signals'[q] = signals[q]
           /\ Head(signals[p]) \in Signals
           /\ Has(signals[p], Offers) <=> Has(signals'[p], Offers) \/ Head(signals[p]).type = "offer"
           /\ Has(signals[p], Answers) <=> Has(signals'[p], Answers) \/ Head(signals[p]).type = "answer"
           /\ Once(signals[p], Offers) => /\ Once(signals'[p], Offers)
                                          /\ Head(signals[p]).type = "offer" => ~Has(signals'[p], Offers)
           /\ Once(signals[p], Answers) => /\ Once(signals'[p], Answers)
                                           /\ Head(signals[p]).type = "answer" => ~Has(signals'[p], Answers)
BY Before_p, SignalsMove DEF Took

LEMMA HearsOfferKeeps ==
    ASSUME NegotiationInv, NEW p \in Pair, HearsOffer(p), NegotiationTypeOK'
    PROVE  NegotiationInv'
<1> DEFINE s == calls[p]
           m == Head(signals[p])
           c == Call(IF signalling[p] = "stable" THEN "setRemote" ELSE "rollback", m.video, m.shows)
<1>1. /\ s \in Seq(Calls) /\ signals[p] # <<>> /\ m.type = "offer" /\ Took(p)
      /\ MakingIsACall(p) /\ OwedIsAwaited(p) /\ LateRollback(p) /\ Overtaken(p)
      /\ FirstApplies(p) /\ ExchangeInv
      /\ superseded[p] \in BOOLEAN /\ signalling[p] \in {"stable", "local", "remote"}
      /\ making[p] \in BOOLEAN
  BY Before_p DEF HearsOffer, Heard
<1>2. UNCHANGED <<bot, signalling, making, pendingOffer>>
  BY DEF HearsOffer
<1>3. /\ \A q \in Pair \ {p} : signals'[q] = signals[q]
      /\ m \in Signals /\ Has(signals[p], Offers)
      /\ Has(signals'[p], Offers) => Has(signals[p], Offers)
      /\ Has(signals[p], Answers) <=> Has(signals'[p], Answers)
      /\ Once(signals[p], Offers) => Once(signals'[p], Offers) /\ ~Has(signals'[p], Offers)
      /\ Once(signals[p], Answers) => Once(signals'[p], Answers)
  BY <1>1, Taking
<1>4. CASE ShouldIgnoreOffer(p)
  <2>1. calls' = calls /\ superseded' = superseded
    BY <1>4 DEF HearsOffer
  <2>2. MemberInv(p)'
    BY <1>1, <1>2, <2>1
    DEF MemberInv, MakingIsACall, OwedIsAwaited, LateRollback, Overtaken, FirstApplies
  <2>3. p = 1
    BY <1>4, PairOfTwo DEF ShouldIgnoreOffer, Polite, Peer, Pair
  <2>4. ExchangeInv'
    BY <1>1, <1>2, <1>3, <2>1, <2>3, PairOfTwo
    DEF ExchangeInv, OnePlace, OfferIsAwaited, RemoteAnswers
  <2>5. QED
    BY <1>2, <2>1, <2>2, <2>4, OneActs
<1>5. CASE ~ShouldIgnoreOffer(p)
  <2>1. /\ superseded' = [superseded EXCEPT ![p] = superseded[p] \/ Collides(p)]
        /\ calls' = [calls EXCEPT ![p] = Append(s, c)]
    BY <1>5 DEF HearsOffer
  <2>2. /\ calls'[p] = Append(s, c) /\ (superseded'[p] <=> superseded[p] \/ Collides(p))
        /\ \A q \in Pair \ {p} : calls'[q] = calls[q] /\ superseded'[q] = superseded[q]
    BY <2>1, Before_p
  <2>3. c \in Calls /\ c.op = IF signalling[p] = "stable" THEN "setRemote" ELSE "rollback"
    BY <1>3, SignalKinds, CallIsCall
  <2> HIDE DEF c
  <2>4. /\ Has(calls'[p], Offering) <=> Has(s, Offering)
        /\ Has(calls'[p], SettingOffer) <=> Has(s, SettingOffer)
        /\ Has(calls'[p], RollingBack) <=> Has(s, RollingBack) \/ signalling[p] # "stable"
        /\ Has(calls'[p], Applying) <=> Has(s, Applying) \/ signalling[p] = "stable"
        /\ Has(calls'[p], Answering) <=> Has(s, Answering)
        /\ Has(calls'[p], Handling)
        /\ Has(calls'[p], Accepting) <=> Has(s, Accepting)
    BY <1>1, <2>2, <2>3, CallAdded
  <2>5. /\ Once(s, Offering) => Once(calls'[p], Offering)
        /\ Once(s, Handling) /\ ~Has(s, Handling) => Once(calls'[p], Handling)
        /\ Once(s, Accepting) => Once(calls'[p], Accepting)
        /\ Before(s, Offering, Applying) => Before(calls'[p], Offering, Applying)
        /\ Before(s, Applying, Offering) /\ ~Has(s, Offering) => Before(calls'[p], Applying, Offering)
    BY <1>1, <2>2, <2>3, CallAdded
  <2>6. CASE p = 1
    <3>1. ~Collides(p)
      BY <1>5, <2>6 DEF ShouldIgnoreOffer, Polite, Peer
    <3>2. ~making[p] /\ signalling[p] = "stable"
      BY <3>1 DEF Collides
    <3>3. ~superseded'[p]
      BY <1>1, <2>2, <2>6, <3>1 DEF Overtaken
    <3>4. MemberInv(p)'
      <4>1. MakingIsACall(p)'
        BY <1>1, <1>2, <2>4, <2>5 DEF MakingIsACall
      <4>2. OwedIsAwaited(p)' /\ LateRollback(p)'
        BY <1>1, <1>2, <2>4, <3>2 DEF OwedIsAwaited, LateRollback
      <4>3. Overtaken(p)'
        BY <3>3 DEF Overtaken
      <4>4. ~Has(s, Offering) /\ ~Has(s, SettingOffer)
        BY <1>1, <3>2, HandlingHas DEF MakingIsACall
      <4>5. FirstApplies(p)'
        BY <1>1, <1>2, <2>4, <2>5, <2>6, <3>2, <4>4 DEF FirstApplies
      <4>6. QED
        BY <4>1, <4>2, <4>3, <4>5 DEF MemberInv
    <3>5. ExchangeInv'
      <4>1. calls'[2] = calls[2] /\ signals'[2] = signals[2]
        BY <1>3, <2>2, <2>6, PairOfTwo
      <4>2. /\ Has(signals'[1], Answers) => Has(signals[1], Answers)
            /\ Has(calls'[1], Accepting) => Has(calls[1], Accepting)
            /\ Once(signals'[1], Answers) /\ Once(calls'[1], Accepting)
        BY <1>1, <1>3, <2>4, <2>5, <2>6 DEF ExchangeInv, OnePlace
      <4>3. QED
        BY <1>1, <1>2, <4>1, <4>2 DEF ExchangeInv, OnePlace, OfferIsAwaited, RemoteAnswers
    <3>6. QED
      BY <1>2, <2>2, <3>4, <3>5, OneActs
  <2>7. CASE p = 2
    <3>1. /\ ~Has(calls[2], Handling) /\ ~Has(signals[1], Answers) /\ ~Has(calls[1], Accepting)
          /\ signalling[1] = "local" /\ signalling[2] # "remote"
      BY <1>1, <1>3, <2>7, HandlingHas DEF ExchangeInv, OnePlace, OfferIsAwaited, RemoteAnswers
    <3>2. MemberInv(p)'
      <4>1. MakingIsACall(p)'
        BY <1>1, <1>2, <2>4, <2>5 DEF MakingIsACall
      <4>2. OwedIsAwaited(p)'
        BY <1>1, <1>2, <2>4 DEF OwedIsAwaited
      <4>3. LateRollback(p)'
        BY <1>1, <1>2, <2>4 DEF LateRollback
      <4>4. making[p] => signalling[p] = "stable"
        BY <1>1, <2>7, <3>1 DEF MakingIsACall
      <4>5. Before(s, Offering, Applying)
        BY <2>7, <3>1, HandlingHas DEF Has, Before
      <4>6. Overtaken(p)'
        BY <1>2, <2>4, <2>5, <2>7, <4>4, <4>5 DEF Overtaken
      <4>7. FirstApplies(p)'
        BY <2>7 DEF FirstApplies
      <4>8. QED
        BY <4>1, <4>2, <4>3, <4>6, <4>7 DEF MemberInv
    <3>3. ExchangeInv'
      <4>1. calls'[1] = calls[1] /\ signals'[1] = signals[1]
        BY <1>3, <2>2, <2>7, PairOfTwo
      <4>2. /\ ~Has(signals'[2], Offers) /\ Once(signals'[2], Offers) /\ Once(calls'[2], Handling)
        BY <1>1, <1>3, <2>5, <2>7, <3>1 DEF ExchangeInv, OnePlace
      <4>3. OnePlace'
        BY <1>1, <3>1, <4>1, <4>2 DEF ExchangeInv, OnePlace
      <4>4. OfferIsAwaited' /\ RemoteAnswers'
        BY <1>2, <3>1 DEF OfferIsAwaited, RemoteAnswers
      <4>5. QED
        BY <4>3, <4>4 DEF ExchangeInv
    <3>4. QED
      BY <1>2, <2>2, <3>2, <3>3, OneActs
  <2>8. QED
    BY <2>6, <2>7, PairOfTwo
<1>6. QED
  BY <1>4, <1>5

LEMMA RolledBackKeeps ==
    ASSUME NegotiationInv, NEW p \in Pair, RolledBack(p), NegotiationTypeOK'
    PROVE  NegotiationInv'
<1> DEFINE s == calls[p]
           c == Call("setRemote", Head(s).video, Head(s).shows)
<1>1. /\ s \in Seq(Calls) /\ s # <<>> /\ Head(s).op = "rollback" /\ Head(s) \in Calls
      /\ MakingIsACall(p) /\ OwedIsAwaited(p) /\ LateRollback(p) /\ Overtaken(p)
      /\ FirstApplies(p) /\ ExchangeInv
  BY Before_p, CallEnded DEF RolledBack, CallIs
<1>2. UNCHANGED <<bot, making, superseded, pendingOffer, signals>>
  BY DEF RolledBack
<1>3. /\ signalling'[p] = "stable"
      /\ \A q \in Pair \ {p} : signalling'[q] = signalling[q]
  BY Before_p DEF RolledBack, Becomes
<1>4. Has(s, RollingBack) /\ Has(s, Handling)
  BY <1>1, CallEnded
<1>5. p = 2
  BY <1>1, <1>4, PairOfTwo DEF FirstApplies
<1>6. /\ ~Has(Tail(s), Handling) /\ Once(Tail(s), Handling) /\ Tail(s) \in Seq(Calls)
      /\ Has(Tail(s), Offering) <=> Has(s, Offering)
      /\ Once(s, Offering) => Once(Tail(s), Offering)
  BY <1>1, <1>5, CallEnded DEF ExchangeInv, OnePlace
<1>7. ~Has(s, Applying)
  BY <1>1, <1>4, <1>5, OneHandling DEF ExchangeInv, OnePlace
<1>8. \/ signalling[p] = "stable" /\ calls' = [calls EXCEPT ![p] = Tail(s)]
      \/ signalling[p] # "stable" /\ calls' = [calls EXCEPT ![p] = Append(Tail(s), c)]
  BY DEF RolledBack, Ends, GoesOn, ThisCall
<1>9. \/ signalling[p] = "stable" /\ calls'[p] = Tail(s)
      \/ signalling[p] # "stable" /\ calls'[p] = Append(Tail(s), c)
  BY <1>8, Before_p
<1>10. \A q \in Pair \ {p} : calls'[q] = calls[q]
  BY <1>8, Before_p
<1>11. c \in Calls /\ c.op = "setRemote"
  BY <1>1, CallIsCall DEF Calls, CallsOf
<1> HIDE DEF c
<1>12. /\ Has(calls'[p], Offering) <=> Has(s, Offering)
       /\ Once(s, Offering) => Once(calls'[p], Offering)
       /\ ~Has(calls'[p], RollingBack)
       /\ signalling[p] # "stable" => Has(calls'[p], Applying)
       /\ Once(calls'[p], Handling)
  <2>1. CASE calls'[p] = Tail(s) /\ signalling[p] = "stable"
    BY <1>6, <2>1, HandlingHas
  <2>2. CASE calls'[p] = Append(Tail(s), c)
    BY <1>6, HandlingHas, <1>11, <2>2, CallAdded
  <2>3. QED
    BY <1>9, <2>1, <2>2
<1>13. MemberInv(p)'
  BY <1>1, <1>2, <1>3, <1>12, <1>4, <1>7, <1>5 DEF MakingIsACall, OwedIsAwaited, LateRollback, Overtaken,
     FirstApplies, MemberInv
<1>14. ExchangeInv'
  <2>1. calls'[1] = calls[1] /\ signalling'[1] = signalling[1] /\ signalling'[2] = "stable"
    BY <1>3, <1>5, <1>10, PairOfTwo
  <2>2. Has(calls[2], Handling) /\ Once(calls'[2], Handling)
    BY <1>4, <1>5, <1>12
  <2>3. QED
    BY <1>1, <1>2, <2>1, <2>2, NowhereNew DEF ExchangeInv, OnePlace
<1>15. QED
  BY <1>2, <1>3, <1>10, <1>13, <1>14, OneActs

LEMMA OfferAppliedKeeps ==
    ASSUME NegotiationInv, NEW p \in Pair, OfferApplied(p), NegotiationTypeOK'
    PROVE  NegotiationInv'
<1> DEFINE s == calls[p]
           c == Call("createAnswer", Head(s).video, FALSE)
<1>1. /\ s \in Seq(Calls) /\ s # <<>> /\ Head(s).op = "setRemote" /\ Head(s) \in Calls
      /\ MakingIsACall(p) /\ OwedIsAwaited(p) /\ LateRollback(p) /\ Overtaken(p)
      /\ FirstApplies(p) /\ ExchangeInv
  BY Before_p, CallEnded DEF OfferApplied, CallIs
<1>2. UNCHANGED <<bot, making, superseded, pendingOffer, signals>>
  BY DEF OfferApplied
<1>3. /\ signalling'[p] = "remote" /\ calls'[p] = Append(Tail(s), c)
      /\ \A q \in Pair \ {p} : signalling'[q] = signalling[q] /\ calls'[q] = calls[q]
  BY Before_p DEF OfferApplied, Becomes, GoesOn, ThisCall
<1>4. c \in Calls /\ c.op = "createAnswer"
  <2>1. Head(s).video \in BOOLEAN
    BY <1>1 DEF Calls, CallsOf
  <2>2. QED
    BY <2>1, CallIsCall
<1> HIDE DEF c
<1>5. /\ Tail(s) \in Seq(Calls) /\ Has(s, Applying) /\ Has(s, Handling)
      /\ Has(Tail(s), Offering) <=> Has(s, Offering)
      /\ Has(Tail(s), SettingOffer) <=> Has(s, SettingOffer)
      /\ Has(Tail(s), RollingBack) <=> Has(s, RollingBack)
      /\ Has(Tail(s), Accepting) <=> Has(s, Accepting)
      /\ Once(s, Offering) => Once(Tail(s), Offering)
      /\ Once(s, Handling) => Once(Tail(s), Handling) /\ ~Has(Tail(s), Handling)
      /\ Once(s, Accepting) => Once(Tail(s), Accepting)
      /\ Before(s, Applying, Offering) => Before(Tail(s), Applying, Offering)
      /\ Before(s, Offering, Applying) => ~Has(s, Offering)
  BY <1>1, CallEnded
<1>6. /\ Has(calls'[p], Offering) <=> Has(s, Offering)
      /\ Has(calls'[p], SettingOffer) <=> Has(s, SettingOffer)
      /\ Has(calls'[p], RollingBack) <=> Has(s, RollingBack)
      /\ Has(calls'[p], Accepting) <=> Has(s, Accepting)
      /\ Has(calls'[p], Answering)
      /\ Once(s, Offering) => Once(calls'[p], Offering)
      /\ Once(s, Handling) => Once(calls'[p], Handling)
      /\ Once(s, Accepting) => Once(calls'[p], Accepting)
      /\ Before(s, Applying, Offering) => Before(calls'[p], Applying, Offering)
  BY <1>3, <1>4, <1>5, CallAdded
<1>7. MemberInv(p)'
  BY <1>1, <1>2, <1>3, <1>6, <1>5 DEF MakingIsACall, OwedIsAwaited, LateRollback, Overtaken, FirstApplies, MemberInv
<1>8. ExchangeInv'
  <2>1. CASE p = 1
    BY <1>1, <1>5, <2>1, <1>3, PairOfTwo, <1>6, <1>2 DEF FirstApplies, ExchangeInv, OnePlace, OfferIsAwaited,
       RemoteAnswers
  <2>2. CASE p = 2
    <3>1. calls'[1] = calls[1] /\ signalling'[1] = signalling[1]
      BY <1>3, <2>2, PairOfTwo
    <3>2. Has(calls[2], Handling) /\ Once(calls'[2], Handling) /\ Has(calls'[2], Answering)
      BY <1>1, <1>5, <1>6, <2>2 DEF ExchangeInv, OnePlace
    <3>3. QED
      BY <1>1, <1>2, <3>1, <3>2, NowhereNew DEF ExchangeInv, OnePlace
  <2>3. QED
    BY <2>1, <2>2, PairOfTwo
<1>9. QED
  BY <1>2, <1>3, <1>7, <1>8, OneActs

LEMMA AnswerCreatedKeeps ==
    ASSUME NegotiationInv, NEW p \in Pair, AnswerCreated(p), NegotiationTypeOK'
    PROVE  NegotiationInv'
<1> DEFINE s == calls[p]
           c == Call("setAnswer", Head(s).video, Head(s).video /\ camera[p])
<1>1. /\ s \in Seq(Calls) /\ s # <<>> /\ Head(s).op = "createAnswer" /\ Head(s) \in Calls
      /\ MakingIsACall(p) /\ OwedIsAwaited(p) /\ LateRollback(p) /\ Overtaken(p)
      /\ FirstApplies(p) /\ ExchangeInv
  BY Before_p, CallEnded DEF AnswerCreated, CallIs
<1>2. UNCHANGED <<bot, signalling, making, superseded, pendingOffer, signals>>
  BY DEF AnswerCreated
<1>3. /\ calls'[p] = Append(Tail(s), c)
      /\ \A q \in Pair \ {p} : calls'[q] = calls[q]
  BY Before_p DEF AnswerCreated, GoesOn, ThisCall
<1>4. c \in Calls /\ c.op = "setAnswer"
  <2>1. Head(s).video \in BOOLEAN
    BY <1>1 DEF Calls, CallsOf
  <2>2. (Head(s).video /\ camera[p]) \in BOOLEAN
    OBVIOUS
  <2>3. QED
    BY <2>1, <2>2, CallIsCall
<1> HIDE DEF c
<1>5. /\ Tail(s) \in Seq(Calls) /\ Has(s, Answering) /\ Has(s, Handling)
      /\ Has(Tail(s), Offering) <=> Has(s, Offering)
      /\ Has(Tail(s), SettingOffer) <=> Has(s, SettingOffer)
      /\ Has(Tail(s), RollingBack) <=> Has(s, RollingBack)
      /\ Has(Tail(s), Applying) <=> Has(s, Applying)
      /\ Has(Tail(s), Accepting) <=> Has(s, Accepting)
      /\ Once(s, Offering) => Once(Tail(s), Offering)
      /\ Once(s, Handling) => Once(Tail(s), Handling) /\ ~Has(Tail(s), Handling)
      /\ Once(s, Accepting) => Once(Tail(s), Accepting)
      /\ Before(s, Applying, Offering) => Before(Tail(s), Applying, Offering)
      /\ Before(s, Offering, Applying) => Before(Tail(s), Offering, Applying)
  BY <1>1, CallEnded
<1>6. /\ Has(calls'[p], Offering) <=> Has(s, Offering)
      /\ Has(calls'[p], SettingOffer) <=> Has(s, SettingOffer)
      /\ Has(calls'[p], RollingBack) <=> Has(s, RollingBack)
      /\ Has(calls'[p], Applying) <=> Has(s, Applying)
      /\ Has(calls'[p], Accepting) <=> Has(s, Accepting)
      /\ Has(calls'[p], Answering)
      /\ Once(s, Offering) => Once(calls'[p], Offering)
      /\ Once(s, Handling) => Once(calls'[p], Handling)
      /\ Once(s, Accepting) => Once(calls'[p], Accepting)
      /\ Before(s, Applying, Offering) => Before(calls'[p], Applying, Offering)
      /\ Before(s, Offering, Applying) => Before(calls'[p], Offering, Applying)
  <2>1. /\ Has(calls'[p], Offering) <=> Has(Tail(s), Offering)
        /\ Has(calls'[p], SettingOffer) <=> Has(Tail(s), SettingOffer)
        /\ Has(calls'[p], RollingBack) <=> Has(Tail(s), RollingBack)
        /\ Has(calls'[p], Applying) <=> Has(Tail(s), Applying)
        /\ Has(calls'[p], Accepting) <=> Has(Tail(s), Accepting)
        /\ Has(calls'[p], Answering)
    BY <1>3, <1>4, <1>5, CallAdded
  <2>2. /\ Once(s, Offering) => Once(calls'[p], Offering)
        /\ Once(s, Handling) => Once(calls'[p], Handling)
        /\ Once(s, Accepting) => Once(calls'[p], Accepting)
    BY <1>3, <1>4, <1>5, CallAdded
  <2>3. /\ Before(s, Applying, Offering) => Before(calls'[p], Applying, Offering)
        /\ Before(s, Offering, Applying) => Before(calls'[p], Offering, Applying)
    BY <1>3, <1>4, <1>5, CallAdded
  <2>4. QED
    BY <1>5, <2>1, <2>2, <2>3
<1>7. MemberInv(p)'
  BY <1>1, <1>2, <1>6 DEF MakingIsACall, OwedIsAwaited, LateRollback, Overtaken, FirstApplies, MemberInv
<1>8. ExchangeInv'
  <2>1. CASE p = 1
    BY <1>3, <2>1, PairOfTwo, <1>1, <1>6, <1>2, NowhereNew DEF ExchangeInv, OnePlace, RemoteAnswers
  <2>2. CASE p = 2
    <3>1. calls'[1] = calls[1]
      BY <1>3, <2>2, PairOfTwo
    <3>2. Has(calls[2], Handling) /\ Once(calls'[2], Handling) /\ Has(calls'[2], Answering)
      BY <1>1, <1>5, <1>6, <2>2 DEF ExchangeInv, OnePlace
    <3>3. QED
      BY <1>1, <1>2, <3>1, <3>2, NowhereNew DEF ExchangeInv, OnePlace
  <2>3. QED
    BY <2>1, <2>2, PairOfTwo
<1>9. QED
  BY <1>2, <1>3, <1>7, <1>8, OneActs

\* The end of an exchange, for the member whose it is: the call that ended it is
\* gone, and an offer it owes is begun.
LEMMA SettlingMember ==
    ASSUME NegotiationInv, NEW p \in Pair, calls[p] # <<>>,
           Head(calls[p]).op \in {"setAnswer", "accept"}, bot' = bot,
           \/ Settles(p)
           \/ Ends(p) /\ UNCHANGED <<signalling, pendingOffer, making, superseded>>
    PROVE  /\ MemberInv(p)'
           /\ \A q \in Pair \ {p} : /\ calls'[q] = calls[q] /\ signalling'[q] = signalling[q]
                                    /\ making'[q] = making[q] /\ superseded'[q] = superseded[q]
                                    /\ pendingOffer'[q] = pendingOffer[q]
           /\ Settles(p) => signalling'[p] = "stable"
           /\ Has(calls'[p], Handling) <=> Has(Tail(calls[p]), Handling)
           /\ Has(calls'[p], Answering) <=> Has(Tail(calls[p]), Answering)
           /\ Has(calls'[p], Accepting) <=> Has(Tail(calls[p]), Accepting)
           /\ Once(calls[p], Handling) => Once(calls'[p], Handling)
           /\ Once(calls[p], Accepting) => Once(calls'[p], Accepting)
<1> DEFINE s == calls[p]
           c == Call("createOffer", FALSE, FALSE)
<1>1. /\ s \in Seq(Calls) /\ s # <<>>
      /\ MakingIsACall(p) /\ OwedIsAwaited(p) /\ LateRollback(p) /\ Overtaken(p)
      /\ FirstApplies(p)
  BY Before_p
<1>2. c \in Calls /\ c.op = "createOffer"
  BY CallIsCall
<1>3. /\ Tail(s) \in Seq(Calls)
      /\ Has(Tail(s), Offering) <=> Has(s, Offering)
      /\ Has(Tail(s), SettingOffer) <=> Has(s, SettingOffer)
      /\ Has(Tail(s), RollingBack) <=> Has(s, RollingBack)
      /\ Has(Tail(s), Applying) <=> Has(s, Applying)
      /\ Once(s, Offering) => Once(Tail(s), Offering)
      /\ Once(s, Handling) => Once(Tail(s), Handling)
      /\ Once(s, Accepting) => Once(Tail(s), Accepting)
      /\ Before(s, Applying, Offering) => Before(Tail(s), Applying, Offering)
      /\ Before(s, Offering, Applying) => Before(Tail(s), Offering, Applying)
  BY <1>1, CallEnded
<1>4. CASE Settles(p) /\ pendingOffer[p] /\ ~making[p]
  <2>1. /\ signalling' = [signalling EXCEPT ![p] = "stable"]
        /\ pendingOffer' = [pendingOffer EXCEPT ![p] = FALSE]
        /\ making' = [making EXCEPT ![p] = TRUE]
        /\ superseded' = [superseded EXCEPT ![p] = FALSE]
        /\ calls' = [calls EXCEPT ![p] = Append(Tail(s), c)]
    BY <1>4 DEF Settles, Becomes, GoesOn
  <2>2. /\ signalling'[p] = "stable" /\ ~pendingOffer'[p] /\ making'[p] /\ ~superseded'[p]
        /\ calls'[p] = Append(Tail(s), c)
    BY <2>1, Before_p
  <2>3. \A q \in Pair \ {p} : /\ calls'[q] = calls[q] /\ signalling'[q] = signalling[q]
                              /\ making'[q] = making[q] /\ superseded'[q] = superseded[q]
                              /\ pendingOffer'[q] = pendingOffer[q]
    BY <2>1, Before_p
  <2> HIDE DEF c
  <2>4. /\ Has(calls'[p], Offering)
        /\ Has(calls'[p], SettingOffer) <=> Has(s, SettingOffer)
        /\ Has(calls'[p], RollingBack) <=> Has(s, RollingBack)
        /\ Has(calls'[p], Applying) <=> Has(s, Applying)
        /\ Has(calls'[p], Handling) <=> Has(Tail(s), Handling)
        /\ Has(calls'[p], Answering) <=> Has(Tail(s), Answering)
        /\ Has(calls'[p], Accepting) <=> Has(Tail(s), Accepting)
    BY <1>2, <1>3, <2>2, CallAdded
  <2>5. /\ Once(s, Offering) /\ ~Has(s, Offering) => Once(calls'[p], Offering)
        /\ Once(s, Handling) => Once(calls'[p], Handling)
        /\ Once(s, Accepting) => Once(calls'[p], Accepting)
        /\ Before(s, Applying, Offering) => Before(calls'[p], Applying, Offering)
    BY <1>2, <1>3, <2>2, CallAdded
  <2>6. MemberInv(p)'
    BY <1>1, <1>4, <2>2, <2>4, <2>5 DEF MakingIsACall, OwedIsAwaited, LateRollback, Overtaken, FirstApplies,
       MemberInv
  <2>7. QED
    BY <2>2, <2>3, <2>4, <2>5, <2>6
<1>5. CASE \/ Settles(p) /\ ~(pendingOffer[p] /\ ~making[p])
           \/ Ends(p) /\ UNCHANGED <<signalling, pendingOffer, making, superseded>>
  <2>1. /\ calls' = [calls EXCEPT ![p] = Tail(s)]
        /\ UNCHANGED <<pendingOffer, making, superseded>>
        /\ \/ signalling' = signalling /\ ~Settles(p)
           \/ /\ signalling' = [signalling EXCEPT ![p] = "stable"]
              /\ pendingOffer[p] => making[p]
           \/ signalling' = signalling /\ signalling'[p] = "stable"
    BY <1>5, Before_p DEF Settles, Ends, Becomes
  <2>2. /\ calls'[p] = Tail(s)
        /\ \/ signalling'[p] = signalling[p]
           \/ signalling'[p] = "stable" /\ (pendingOffer[p] => making[p])
        /\ Settles(p) => signalling'[p] = "stable"
    BY <2>1, Before_p
  <2>3. \A q \in Pair \ {p} : /\ calls'[q] = calls[q] /\ signalling'[q] = signalling[q]
                              /\ making'[q] = making[q] /\ superseded'[q] = superseded[q]
                              /\ pendingOffer'[q] = pendingOffer[q]
    BY <2>1, Before_p
  <2>4. MemberInv(p)'
    BY <1>1, <1>3, <2>1, <2>2 DEF MakingIsACall, OwedIsAwaited, LateRollback, Overtaken, FirstApplies, MemberInv
  <2>5. QED
    BY <1>3, <2>2, <2>3, <2>4
<1>6. QED
  BY <1>4, <1>5

LEMMA AnswerSetKeeps ==
    ASSUME NegotiationInv, NEW p \in Pair, AnswerSet(p), NegotiationTypeOK'
    PROVE  NegotiationInv'
<1> DEFINE s == calls[p]
<1>1. /\ s \in Seq(Calls) /\ s # <<>> /\ Head(s).op = "setAnswer" /\ Head(s) \in Calls
      /\ bot' = bot /\ ExchangeInv
  BY Before_p, CallEnded DEF AnswerSet, CallIs
<1>2. \/ /\ signalling[p] = "remote" /\ Settles(p)
         /\ Sends(p, "answer", Head(s).video, Head(s).shows)
      \/ /\ signalling[p] # "remote" /\ Ends(p)
         /\ UNCHANGED <<signalling, pendingOffer, making, superseded, signals>>
  BY DEF AnswerSet, ThisCall
<1>3. /\ MemberInv(p)'
      /\ \A q \in Pair \ {p} : /\ calls'[q] = calls[q] /\ signalling'[q] = signalling[q]
                               /\ making'[q] = making[q] /\ superseded'[q] = superseded[q]
                               /\ pendingOffer'[q] = pendingOffer[q]
      /\ Settles(p) => signalling'[p] = "stable"
      /\ Has(calls'[p], Handling) <=> Has(Tail(s), Handling)
      /\ Has(calls'[p], Accepting) <=> Has(Tail(s), Accepting)
      /\ Once(s, Handling) => Once(calls'[p], Handling)
      /\ Once(s, Accepting) => Once(calls'[p], Accepting)
  BY <1>1, <1>2, SettlingMember
<1>4. /\ Has(s, Handling) /\ (Once(s, Handling) => ~Has(calls'[p], Handling))
      /\ Has(calls'[p], Accepting) <=> Has(s, Accepting)
  BY <1>1, <1>3, CallEnded
<1>5. \/ signals' = signals
      \/ /\ signals'[p] = signals[p]
         /\ Has(signals'[Peer(p)], Offers) <=> Has(signals[Peer(p)], Offers)
         /\ Once(signals[Peer(p)], Offers) => Once(signals'[Peer(p)], Offers)
         /\ Once(signals[Peer(p)], Answers) /\ ~Has(signals[Peer(p)], Answers)
                => Once(signals'[Peer(p)], Answers)
  BY <1>1, <1>2, Sending DEF Calls, CallsOf
<1>6. ExchangeInv'
  <2>1. CASE p = 1
    <3>1. /\ calls'[2] = calls[2] /\ signalling'[2] = signalling[2]
          /\ signalling[1] = "local" => signalling'[1] = "local"
      BY <1>2, <1>3, <2>1, PairOfTwo
    <3>2. /\ Has(signals'[2], Offers) <=> Has(signals[2], Offers)
          /\ Once(signals[2], Offers) => Once(signals'[2], Offers)
          /\ signals'[1] = signals[1]
      BY <1>5, <2>1, PairOfTwo
    <3>3. (Has(calls'[1], Accepting) => Has(calls[1], Accepting)) /\ Once(calls'[1], Accepting)
      BY <1>1, <1>3, <1>4, <2>1 DEF ExchangeInv, OnePlace
    <3>4. QED
      BY <1>1, <3>1, <3>2, <3>3, NowhereNew DEF ExchangeInv, OnePlace, RemoteAnswers
  <2>2. CASE p = 2
    BY <1>3, <2>2, PairOfTwo, <1>1, <1>4, <1>5, <1>2 DEF ExchangeInv, OnePlace, OfferIsAwaited, RemoteAnswers
  <2>3. QED
    BY <2>1, <2>2, PairOfTwo
<1>7. QED
  BY <1>1, <1>3, <1>6, OneActs

LEMMA HearsAnswerKeeps ==
    ASSUME NegotiationInv, NEW p \in Pair, HearsAnswer(p), NegotiationTypeOK'
    PROVE  NegotiationInv'
<1> DEFINE s == calls[p]
           m == Head(signals[p])
           c == Call("accept", m.video, m.shows)
<1>1. /\ s \in Seq(Calls) /\ signals[p] # <<>> /\ m.type = "answer" /\ Took(p)
      /\ MakingIsACall(p) /\ OwedIsAwaited(p) /\ LateRollback(p) /\ Overtaken(p)
      /\ FirstApplies(p) /\ ExchangeInv
  BY Before_p DEF HearsAnswer, Heard
<1>2. UNCHANGED <<bot, signalling, making, superseded, pendingOffer>>
  BY DEF HearsAnswer
<1>3. /\ \A q \in Pair \ {p} : signals'[q] = signals[q]
      /\ m \in Signals /\ Has(signals[p], Answers)
      /\ Has(signals[p], Offers) <=> Has(signals'[p], Offers)
      /\ Once(signals[p], Answers) => Once(signals'[p], Answers) /\ ~Has(signals'[p], Answers)
      /\ Once(signals[p], Offers) => Once(signals'[p], Offers)
  BY <1>1, Taking
<1>4. /\ calls'[p] = Append(s, c) /\ \A q \in Pair \ {p} : calls'[q] = calls[q]
  BY Before_p DEF HearsAnswer
<1>5. c \in Calls /\ c.op = "accept"
  BY <1>3, SignalKinds, CallIsCall
<1> HIDE DEF c
<1>6. /\ Has(calls'[p], Offering) <=> Has(s, Offering)
      /\ Has(calls'[p], SettingOffer) <=> Has(s, SettingOffer)
      /\ Has(calls'[p], RollingBack) <=> Has(s, RollingBack)
      /\ Has(calls'[p], Applying) <=> Has(s, Applying)
      /\ Has(calls'[p], Answering) <=> Has(s, Answering)
      /\ Has(calls'[p], Handling) <=> Has(s, Handling)
  BY <1>1, <1>4, <1>5, CallAdded
<1>7. /\ Once(s, Offering) => Once(calls'[p], Offering)
      /\ Once(s, Handling) => Once(calls'[p], Handling)
      /\ Once(s, Accepting) /\ ~Has(s, Accepting) => Once(calls'[p], Accepting)
      /\ Before(s, Offering, Applying) => Before(calls'[p], Offering, Applying)
      /\ Before(s, Applying, Offering) => Before(calls'[p], Applying, Offering)
  BY <1>1, <1>4, <1>5, CallAdded
<1>8. MemberInv(p)'
  BY <1>1, <1>2, <1>6, <1>7 DEF MakingIsACall, OwedIsAwaited, LateRollback, Overtaken, FirstApplies, MemberInv
<1>9. ExchangeInv'
  <2>1. CASE p = 1
    BY <1>3, <1>4, <2>1, PairOfTwo, <1>1, <1>7, <1>2 DEF ExchangeInv, OnePlace, OfferIsAwaited, RemoteAnswers
  <2>2. CASE p = 2
    <3>1. calls'[1] = calls[1] /\ signals'[1] = signals[1]
      BY <1>3, <1>4, <2>2, PairOfTwo
    <3>2. /\ (Has(signals'[2], Offers) => Has(signals[2], Offers)) /\ Once(signals'[2], Offers)
          /\ (Has(calls'[2], Handling) => Has(calls[2], Handling)) /\ Once(calls'[2], Handling)
          /\ Has(calls'[2], Answering) <=> Has(calls[2], Answering)
      BY <1>1, <1>3, <1>6, <1>7, <2>2 DEF ExchangeInv, OnePlace
    <3>3. QED
      BY <1>1, <1>2, <3>1, <3>2, NowhereNew DEF ExchangeInv, OnePlace, RemoteAnswers
  <2>3. QED
    BY <2>1, <2>2, PairOfTwo
<1>10. QED
  BY <1>2, <1>4, <1>8, <1>9, OneActs

LEMMA AnswerAppliedKeeps ==
    ASSUME NegotiationInv, NEW p \in Pair, AnswerApplied(p), NegotiationTypeOK'
    PROVE  NegotiationInv'
<1> DEFINE s == calls[p]
<1>1. /\ s \in Seq(Calls) /\ s # <<>> /\ Head(s).op = "accept"
      /\ bot' = bot /\ signals' = signals /\ ExchangeInv
  BY Before_p DEF AnswerApplied, CallIs
<1>2. \/ signalling[p] = "local" /\ Settles(p)
      \/ Ends(p) /\ UNCHANGED <<signalling, pendingOffer, making, superseded>>
  BY DEF AnswerApplied
<1>3. /\ MemberInv(p)'
      /\ \A q \in Pair \ {p} : /\ calls'[q] = calls[q] /\ signalling'[q] = signalling[q]
                               /\ making'[q] = making[q] /\ superseded'[q] = superseded[q]
                               /\ pendingOffer'[q] = pendingOffer[q]
      /\ Settles(p) => signalling'[p] = "stable"
      /\ Has(calls'[p], Handling) <=> Has(Tail(s), Handling)
      /\ Has(calls'[p], Answering) <=> Has(Tail(s), Answering)
      /\ Has(calls'[p], Accepting) <=> Has(Tail(s), Accepting)
      /\ Once(s, Handling) => Once(calls'[p], Handling)
      /\ Once(s, Accepting) => Once(calls'[p], Accepting)
  BY <1>1, <1>2, SettlingMember
<1>4. /\ Has(s, Accepting) /\ (Once(s, Accepting) => ~Has(calls'[p], Accepting))
      /\ Has(calls'[p], Handling) <=> Has(s, Handling)
      /\ Has(calls'[p], Answering) <=> Has(s, Answering)
  BY <1>1, <1>3, CallEnded
<1>5. ExchangeInv'
  BY <1>3, PairOfTwo, <1>1, <1>4, <1>2, NowhereNew DEF ExchangeInv, OnePlace, OfferIsAwaited, RemoteAnswers
<1>6. QED
  BY <1>1, <1>3, <1>5, OneActs

------------------------
(* The theorem. *)

LEMMA CallMade ==
    ASSUME NEW rest \in Seq(Calls),
           NEW op \in {"createOffer", "setOffer", "rollback", "setRemote", "createAnswer",
                       "setAnswer", "accept"},
           NEW video \in BOOLEAN, NEW shows \in BOOLEAN
    PROVE  Append(rest, Call(op, video, shows)) \in Seq(Calls)
<1> DEFINE c == Call(op, video, shows)
<1>1. c \in Calls
  BY CallIsCall
<1> HIDE DEF c
<1>2. Append(rest, c) \in Seq(Calls)
  BY <1>1, AppendHas
<1>3. QED
  BY <1>2 DEF c

\* The kinds of value the variables take.
LEMMA TypesKeep ==
    ASSUME NegotiationTypeOK, NEW p \in Pair,
           \/ Meets(p) \/ ChangesMedia(p)
           \/ OfferCreated(p) \/ OfferSet(p)
           \/ HearsOffer(p) \/ RolledBack(p) \/ OfferApplied(p) \/ AnswerCreated(p) \/ AnswerSet(p)
           \/ HearsAnswer(p) \/ AnswerApplied(p)
    PROVE  NegotiationTypeOK'
<1>1. /\ signalling \in [Pair -> {"stable", "local", "remote"}]
      /\ calls \in [Pair -> Seq(Calls)] /\ signals \in [Pair -> Seq(Signals)]
      /\ making \in [Pair -> BOOLEAN] /\ superseded \in [Pair -> BOOLEAN]
      /\ pendingOffer \in [Pair -> BOOLEAN] /\ offered \in [Pair -> BOOLEAN]
      /\ camera \in [Pair -> BOOLEAN] /\ section \in [Pair -> BOOLEAN] /\ seen \in [Pair -> BOOLEAN]
  BY DEF NegotiationTypeOK
<1>2. /\ calls[p] \in Seq(Calls) /\ signals[p] \in Seq(Signals) /\ Peer(p) \in Pair
      /\ signals[Peer(p)] \in Seq(Signals)
  BY <1>1, PairOfTwo
<1>3. ASSUME calls[p] # <<>>
      PROVE  /\ Tail(calls[p]) \in Seq(Calls) /\ Head(calls[p]).video \in BOOLEAN
             /\ Head(calls[p]).shows \in BOOLEAN
  <2>1. Tail(calls[p]) \in Seq(Calls) /\ Head(calls[p]) \in Calls
    BY <1>2, <1>3, HeadAndTail
  <2>2. QED
    BY <2>1 DEF Calls, CallsOf
<1>4. ASSUME signals[p] # <<>>
      PROVE  /\ Tail(signals[p]) \in Seq(Signals) /\ Head(signals[p]).video \in BOOLEAN
             /\ Head(signals[p]).shows \in BOOLEAN
  BY <1>2, <1>4, SignalsMove, SignalKinds
<1>5. ASSUME NEW rest \in Seq(Calls), SendOffer(p, rest)
      PROVE  /\ calls' \in [Pair -> Seq(Calls)] /\ making' \in [Pair -> BOOLEAN]
             /\ superseded' \in [Pair -> BOOLEAN] /\ pendingOffer' \in [Pair -> BOOLEAN]
  <2>1. Append(rest, Call("createOffer", FALSE, FALSE)) \in Seq(Calls)
    BY CallMade
  <2>2. QED
    BY <1>1, <1>5, <2>1 DEF SendOffer
<1>6. ASSUME NEW op \in {"createOffer", "setOffer", "rollback", "setRemote", "createAnswer",
                         "setAnswer", "accept"},
             NEW video \in BOOLEAN, NEW shows \in BOOLEAN, calls[p] # <<>>,
             GoesOn(p, Call(op, video, shows))
      PROVE  calls' \in [Pair -> Seq(Calls)]
  BY <1>3, <1>6, CallMade, <1>1 DEF GoesOn
<1>7. calls[p] # <<>> /\ Ends(p) => calls' \in [Pair -> Seq(Calls)]
  BY <1>1, <1>3 DEF Ends
<1>8. ASSUME NEW type \in {"offer", "answer"}, NEW video \in BOOLEAN, NEW shows \in BOOLEAN,
             Sends(p, type, video, shows)
      PROVE  signals' \in [Pair -> Seq(Signals)]
  BY <1>1, <1>2, <1>8 DEF Sends, Signals, SignalsOf
<1>9. signals[p] # <<>> /\ Took(p) => signals' \in [Pair -> Seq(Signals)]
  BY <1>1, <1>4 DEF Took
<1>10. ASSUME calls[p] # <<>>,
              \/ Settles(p)
              \/ Ends(p) /\ UNCHANGED <<signalling, pendingOffer, making, superseded>>
       PROVE  /\ signalling' \in [Pair -> {"stable", "local", "remote"}]
              /\ calls' \in [Pair -> Seq(Calls)] /\ making' \in [Pair -> BOOLEAN]
              /\ superseded' \in [Pair -> BOOLEAN] /\ pendingOffer' \in [Pair -> BOOLEAN]
  <2>1. calls' \in [Pair -> Seq(Calls)]
    BY <1>6, <1>7, <1>10 DEF Settles
  <2>2. QED
    BY <1>1, <1>10, <2>1 DEF Settles, Becomes
<1>11. CASE Meets(p) \/ ChangesMedia(p)
  BY <1>1, <1>2, <1>5, <1>11 DEF Meets, ChangesMedia, mediaVars, NegotiationTypeOK
<1>12. CASE OfferCreated(p)
  <2>1. calls' \in [Pair -> Seq(Calls)]
    BY <1>1, <1>6, <1>7, <1>12 DEF OfferCreated, CallIs
  <2>2. QED
    BY <1>1, <1>12, <2>1 DEF OfferCreated, Released, mediaVars, NegotiationTypeOK
<1>13. CASE OfferSet(p)
  <2>1. calls' \in [Pair -> Seq(Calls)] /\ signals' \in [Pair -> Seq(Signals)]
    BY <1>1, <1>3, <1>7, <1>8, <1>13 DEF OfferSet, CallIs, ThisCall
  <2>2. QED
    BY <1>1, <1>13, <2>1 DEF OfferSet, Released, mediaVars, NegotiationTypeOK
<1>14. CASE HearsOffer(p)
  <2>1. signals' \in [Pair -> Seq(Signals)]
    BY <1>9, <1>14 DEF HearsOffer, Heard
  <2>2. calls' \in [Pair -> Seq(Calls)]
    <3>1. CASE ShouldIgnoreOffer(p)
      BY <1>1, <1>14, <3>1 DEF HearsOffer
    <3>2. CASE ~ShouldIgnoreOffer(p)
      <4> DEFINE op == IF signalling[p] = "stable" THEN "setRemote" ELSE "rollback"
      <4>1. Append(calls[p], Call(op, Head(signals[p]).video, Head(signals[p]).shows))
                \in Seq(Calls)
        BY <1>2, <1>4, <1>14, CallMade DEF HearsOffer, Heard
      <4>2. QED
        BY <1>1, <1>14, <3>2, <4>1 DEF HearsOffer
    <3>3. QED
      BY <3>1, <3>2
  <2>3. QED
    BY <1>1, <1>14, <2>1, <2>2 DEF HearsOffer, Collides, mediaVars, NegotiationTypeOK
<1>15. CASE RolledBack(p)
  BY <1>3, <1>6, <1>7, <1>15, <1>1 DEF RolledBack, CallIs, ThisCall, Becomes, mediaVars, NegotiationTypeOK
<1>16. CASE OfferApplied(p)
  BY <1>3, <1>6, <1>16, <1>1 DEF OfferApplied, CallIs, ThisCall, Becomes, NegotiationTypeOK
<1>17. CASE AnswerCreated(p)
  BY <1>3, <1>6, <1>17, <1>1 DEF AnswerCreated, CallIs, ThisCall, mediaVars, NegotiationTypeOK
<1>18. CASE AnswerSet(p)
  BY <1>1, <1>3, <1>8, <1>18, <1>10 DEF AnswerSet, CallIs, ThisCall, mediaVars, NegotiationTypeOK
<1>19. CASE HearsAnswer(p)
  BY <1>9, <1>19, <1>2, <1>4, CallMade, <1>1 DEF HearsAnswer, Heard, mediaVars, NegotiationTypeOK
<1>20. CASE AnswerApplied(p)
  BY <1>10, <1>20, <1>1, <1>3 DEF AnswerApplied, CallIs, ThisCall, mediaVars, NegotiationTypeOK
<1>21. QED
  BY <1>11, <1>12, <1>13, <1>14, <1>15, <1>16, <1>17, <1>18, <1>19, <1>20

LEMMA InitKeeps == NegotiationInit => NegotiationInv
<1> SUFFICES ASSUME NegotiationInit PROVE NegotiationInv
  OBVIOUS
<1>1. NegotiationTypeOK
  BY DEF NegotiationInit, NegotiationTypeOK
<1>2. \A S : ~Has(<<>>, S) /\ Once(<<>>, S) /\ \A U : Before(<<>>, S, U)
  BY DEF Has, Once, Before
<1>3. \A p \in Pair : calls[p] = <<>> /\ signals[p] = <<>> /\ signalling[p] = "stable"
                      /\ ~making[p] /\ ~superseded[p] /\ ~pendingOffer[p]
  BY DEF NegotiationInit
<1>4. ASSUME NEW p \in Pair PROVE MemberInv(p)
  BY <1>2, <1>3
  DEF MemberInv, MakingIsACall, OwedIsAwaited, LateRollback, Overtaken, FirstApplies
<1>5. ExchangeInv
  BY <1>2, <1>3, PairOfTwo DEF ExchangeInv, OnePlace, OfferIsAwaited, RemoteAnswers
<1>6. QED
  BY <1>1, <1>4, <1>5 DEF NegotiationInv

LEMMA NegotiationStep == NegotiationInv /\ [NegotiationNext]_negotiationVars => NegotiationInv'
<1> SUFFICES ASSUME NegotiationInv, [NegotiationNext]_negotiationVars PROVE NegotiationInv'
  OBVIOUS
<1>1. CASE UNCHANGED negotiationVars
  BY <1>1, OtherMember DEF NegotiationInv, negotiationVars, NegotiationTypeOK, ExchangeInv, OnePlace,
     OfferIsAwaited, RemoteAnswers
<1>2. CASE NegotiationNext
  <2>1. PICK p \in Pair :
           \/ Meets(p) \/ ChangesMedia(p)
           \/ OfferCreated(p) \/ OfferSet(p)
           \/ HearsOffer(p) \/ RolledBack(p) \/ OfferApplied(p) \/ AnswerCreated(p) \/ AnswerSet(p)
           \/ HearsAnswer(p) \/ AnswerApplied(p)
    BY <1>2 DEF NegotiationNext
  <2>2. NegotiationTypeOK'
    BY <2>1, TypesKeep DEF NegotiationInv
  <2>3. CASE Meets(p) \/ ChangesMedia(p)
    BY <2>2, <2>3, SendingKeeps DEF Meets, ChangesMedia
  <2>4. CASE OfferCreated(p)
    BY <2>2, <2>4, OfferCreatedKeeps
  <2>5. CASE OfferSet(p)
    BY <2>2, <2>5, OfferSetKeeps
  <2>6. CASE HearsOffer(p)
    BY <2>2, <2>6, HearsOfferKeeps
  <2>7. CASE RolledBack(p)
    BY <2>2, <2>7, RolledBackKeeps
  <2>8. CASE OfferApplied(p)
    BY <2>2, <2>8, OfferAppliedKeeps
  <2>9. CASE AnswerCreated(p)
    BY <2>2, <2>9, AnswerCreatedKeeps
  <2>10. CASE AnswerSet(p)
    BY <2>2, <2>10, AnswerSetKeeps
  <2>11. CASE HearsAnswer(p)
    BY <2>2, <2>11, HearsAnswerKeeps
  <2>12. CASE AnswerApplied(p)
    BY <2>2, <2>12, AnswerAppliedKeeps
  <2>13. QED
    BY <2>1, <2>3, <2>4, <2>5, <2>6, <2>7, <2>8, <2>9, <2>10, <2>11, <2>12
<1>3. QED
  BY <1>1, <1>2

\* Whoever yields and however the two sides' offers, answers and rollbacks cross,
\* both never answer at once, and when all is quiet a settled side owes no offer
\* (shouldIgnoreIncomingOffer in index.ts, sendOffer and handleSignal of the web
\* client and of the Music bot).
THEOREM ExchangesStayOrderly == NegotiationSpec => []ExchangesAreOrderly
<1>1. NegotiationSpec => []NegotiationInv
  BY InitKeeps, NegotiationStep, PTL DEF NegotiationSpec
<1>2. QED
  BY <1>1, InvIsOrderly, PTL

------------------------
(* What the desktop app keeps.  Preferences are sound when load accepts them *)
(* and every entry, and the one that opens at the start, is of the member. *)
KeptPrefs == [entries : SUBSET Entries, named : SUBSET Entries, opening : Entries \cup {NoEntry},
              onStart : BOOLEAN, quits : BOOLEAN]
KeptPleas == [kind : {"save", "forget", "default", "rename", "quits", "signedIn"}, from : Nat,
              entry : Entries \cup {NoEntry}, enabled : BOOLEAN]
HomeViews == [shown : KeptPrefs, again : BOOLEAN, busy : BOOLEAN, renames : BOOLEAN]
KeptSaves == [step : {"write", "rename", "remember"}, plea : KeptPleas, next : KeptPrefs]

KeptTypes ==
    /\ inMemory \in KeptPrefs /\ filed \in KeptPrefs
    /\ keeping = Unheld \/ keeping \in KeptSaves
    /\ pleas \subseteq KeptPleas
    /\ shownPage \in [entry : Entries \cup {NoEntry}, number : Nat, chosen : BOOLEAN]
    /\ homeSees \in HomeViews
    /\ appUp \in {"up", "down"}
    /\ used \in [pleas : Nat, moves : Nat, kills : Nat, faults : Nat, pages : Nat]
    /\ meant \in [local : SUBSET Entries, signed : SUBSET Entries, picked : SUBSET (Entries \cup {NoEntry})]

Sound(prefs, by) ==
    /\ prefs \in KeptPrefs /\ IsFiniteSet(prefs.entries) /\ Loadable(prefs)
    /\ prefs.opening \in by.signed \cup by.picked
    /\ prefs.onStart => prefs.opening \in prefs.entries
    /\ prefs.entries \subseteq by.local \cup by.signed

PleaMeant(plea) ==
    /\ plea.kind = "save" => plea.entry \in Entries \cap meant.local
    /\ plea.kind = "default" => plea.entry \in meant.picked
    /\ plea.from # 0 <=> plea.kind \in {"quits", "signedIn"}
    /\ plea.kind = "signedIn" =>
         /\ plea.from <= used.pages
         /\ shownPage.entry # NoEntry /\ shownPage.number = plea.from /\ shownPage.chosen
              => shownPage.entry \in meant.signed

KeptInv ==
    /\ KeptTypes
    /\ NoEntry \in meant.picked
    /\ Sound(inMemory, meant) /\ Sound(filed, meant) /\ (keeping # Unheld => Sound(keeping.next, meant))
    /\ appUp = "up" => filed = IF keeping.step = "remember" THEN keeping.next ELSE inMemory
    /\ appUp = "up" /\ ~homeSees.again => homeSees.shown = inMemory
    /\ appUp = "down" => keeping = Unheld /\ pleas = {}
    /\ \A plea \in pleas : PleaMeant(plea)
    /\ keeping # Unheld /\ keeping.plea.from # 0 => keeping.plea.kind \notin {"save", "forget"}
    /\ shownPage.number <= used.pages /\ (shownPage.entry # NoEntry => shownPage.number # 0)

\* Preferences stay sound when the member means more.
LEMMA SoundGrows ==
    ASSUME NEW p, NEW m, NEW n, Sound(p, m), m.local \subseteq n.local, m.signed \subseteq n.signed,
           m.picked \subseteq n.picked
    PROVE  Sound(p, n)
BY DEF Sound

LEMMA SoundSmaller ==
    ASSUME NEW p, NEW q \in KeptPrefs, Sound(p, meant), q.entries \subseteq p.entries,
           q.opening \in q.entries \cup {NoEntry}, q.opening \in meant.signed \cup meant.picked,
           q.onStart => q.opening \in q.entries
    PROVE  Sound(q, meant)
BY FS_Subset, FS_CardinalityType, KeptStateAssumption DEF Sound, Loadable

LEMMA SoundLarger ==
    ASSUME NEW p, NEW q \in KeptPrefs, NEW e \in meant.local \cup meant.signed, Sound(p, meant), Fits(p, e),
           q.entries = p.entries \cup {e},
           q.opening \in q.entries \cup {NoEntry}, q.opening \in meant.signed \cup meant.picked,
           q.onStart => q.opening \in q.entries
    PROVE  Sound(q, meant)
<1>1. IsFiniteSet(p.entries) /\ Cardinality(p.entries) <= EntryLimit /\ EntryLimit \in Nat
  BY KeptStateAssumption DEF Sound, Loadable
<1>2. /\ IsFiniteSet(p.entries \cup {e}) /\ Cardinality(p.entries) \in Nat
      /\ Cardinality(p.entries \cup {e}) = IF e \in p.entries THEN Cardinality(p.entries) ELSE Cardinality(p.entries) + 1
  BY <1>1, FS_AddElement, FS_CardinalityType
<1>3. e \in p.entries \/ Cardinality(p.entries) < EntryLimit
  BY DEF Fits
<1>4. Cardinality(q.entries) <= EntryLimit
  BY <1>1, <1>2, <1>3
<1>5. q.entries \subseteq meant.local \cup meant.signed
  BY DEF Sound
<1> QED
  BY <1>2, <1>4, <1>5 DEF Sound, Loadable

\* What a command that is allowed wants is sound.
LEMMA WantedIsSound ==
    ASSUME KeptInv, NEW plea \in pleas, PleaAllowed(plea)
    PROVE  Sound(Wanted(plea), meant)
<1>1. /\ inMemory \in KeptPrefs /\ plea \in KeptPleas /\ Sound(inMemory, meant) /\ PleaMeant(plea)
      /\ NoEntry \in meant.picked
  BY DEF KeptInv, KeptTypes
<1>2. /\ inMemory.entries \in SUBSET Entries /\ inMemory.named \in SUBSET Entries
      /\ inMemory.opening \in inMemory.entries \cup {NoEntry} /\ inMemory.opening \in meant.signed \cup meant.picked
      /\ inMemory.onStart => inMemory.opening \in inMemory.entries
  BY <1>1 DEF KeptPrefs, Sound, Loadable
<1>3. CASE plea.kind = "save"
  <2> DEFINE more == inMemory.entries \cup {plea.entry}
             q == [inMemory EXCEPT !.entries = more]
  <2>1. plea.entry \in Entries \cap meant.local /\ Fits(inMemory, plea.entry)
    BY <1>1, <1>3 DEF PleaMeant, PleaAllowed
  <2>2. more \in SUBSET Entries
    BY <1>2, <2>1
  <2>3. q \in KeptPrefs /\ q.entries = more /\ q.opening = inMemory.opening /\ q.onStart = inMemory.onStart
    <3> HIDE DEF more
    <3> QED
      BY <2>2, <1>1 DEF KeptPrefs
  <2> HIDE DEF q
  <2>4. Sound(q, meant)
    BY <2>1, <2>3, <1>1, <1>2, SoundLarger
  <2> QED
    BY <2>4, <1>3 DEF Wanted, q
<1>4. CASE plea.kind = "forget"
  <2> DEFINE e == plea.entry
             q == Forgets(inMemory, plea.entry)
             fewer == inMemory.entries \ {e}
             names == inMemory.named \ {e}
             opens == IF inMemory.opening = e THEN NoEntry ELSE inMemory.opening
             starts == inMemory.onStart /\ inMemory.opening # e
  <2>1. q = [inMemory EXCEPT !.entries = fewer, !.named = names, !.opening = opens, !.onStart = starts]
    BY <1>1 DEF Forgets, KeptPrefs
  <2>2. fewer \in SUBSET Entries /\ names \in SUBSET Entries /\ opens \in Entries \cup {NoEntry} /\ starts \in BOOLEAN
    BY <1>2
  <2>3. opens \in fewer \cup {NoEntry} /\ opens \in meant.signed \cup meant.picked /\ (starts => opens \in fewer)
    BY <1>1, <1>2
  <2> HIDE DEF q, fewer, names, opens, starts
  <2>4. q \in KeptPrefs /\ q.entries = fewer /\ q.opening = opens /\ q.onStart = starts
    BY <2>1, <2>2, <1>1 DEF KeptPrefs
  <2>5. fewer \subseteq inMemory.entries
    BY DEF fewer
  <2>6. Sound(q, meant)
    BY <2>3, <2>4, <2>5, <1>1, SoundSmaller
  <2> QED
    BY <2>6, <1>4 DEF Wanted, q
<1>5. CASE plea.kind = "default"
  <2> DEFINE e == plea.entry
             starts == plea.enabled /\ e # NoEntry
             q == Selects(inMemory, e, plea.enabled)
  <2>1. q = [inMemory EXCEPT !.opening = e, !.onStart = starts]
    BY DEF Selects
  <2>2. e \in inMemory.entries \cup {NoEntry} /\ e \in meant.picked /\ starts \in BOOLEAN
        /\ (starts => e \in inMemory.entries)
    BY <1>1, <1>5 DEF PleaMeant, PleaAllowed
  <2>3. e \in Entries \cup {NoEntry}
    BY <2>2, <1>2
  <2> HIDE DEF q, e, starts
  <2>4. q \in KeptPrefs /\ q.entries = inMemory.entries /\ q.opening = e /\ q.onStart = starts
    BY <2>1, <2>2, <2>3, <1>1 DEF KeptPrefs
  <2>5. Sound(q, meant)
    BY <2>2, <2>4, <1>1, SoundSmaller
  <2> QED
    BY <2>5, <1>5 DEF Wanted, q, e
<1>6. CASE plea.kind = "rename"
  <2> DEFINE names == IF plea.enabled THEN inMemory.named \cup {plea.entry} ELSE inMemory.named \ {plea.entry}
             q == [inMemory EXCEPT !.named = names]
  <2>1. plea.entry \in inMemory.entries
    BY <1>6 DEF PleaAllowed
  <2>2. names \in SUBSET Entries
    BY <2>1, <1>2
  <2>3. q \in KeptPrefs /\ q.entries = inMemory.entries /\ q.opening = inMemory.opening /\ q.onStart = inMemory.onStart
    <3> HIDE DEF names
    <3> QED
      BY <2>2, <1>1 DEF KeptPrefs
  <2> HIDE DEF q
  <2>4. Sound(q, meant)
    BY <2>3, <1>1, <1>2, SoundSmaller
  <2> QED
    BY <2>4, <1>6 DEF Wanted, q
<1>7. CASE plea.kind = "signedIn"
  <2> DEFINE e == shownPage.entry
             more == inMemory.entries \cup {e}
             q == Remembers(inMemory, e)
  <2>1. /\ shownPage.chosen /\ Fits(inMemory, e) /\ shownPage.entry # NoEntry /\ shownPage.number = plea.from
        /\ e \in meant.signed
    BY <1>1, <1>7 DEF PleaMeant, PleaAllowed, FromCurrent
  <2>2. e \in Entries /\ more \in SUBSET Entries /\ e \in more
    BY <2>1, <1>2 DEF KeptInv, KeptTypes
  <2>3. q = [inMemory EXCEPT !.entries = more, !.opening = e, !.onStart = TRUE]
    BY <1>1 DEF Remembers, KeptPrefs
  <2> HIDE DEF q, e, more
  <2>4. q \in KeptPrefs /\ q.entries = more /\ q.opening = e
    BY <2>2, <2>3, <1>1 DEF KeptPrefs
  <2>5. more = inMemory.entries \cup {e}
    BY DEF more
  <2>6. Sound(q, meant)
    BY <2>1, <2>2, <2>4, <2>5, <1>1, SoundLarger
  <2> QED
    BY <2>6, <1>7 DEF Wanted, q, e
<1>8. CASE plea.kind = "quits"
  <2> DEFINE q == [inMemory EXCEPT !.quits = plea.enabled]
  <2>1. plea.enabled \in BOOLEAN
    BY <1>1 DEF KeptPleas
  <2>2. q \in KeptPrefs /\ q.entries = inMemory.entries /\ q.opening = inMemory.opening /\ q.onStart = inMemory.onStart
    BY <2>1, <1>1 DEF KeptPrefs
  <2> HIDE DEF q
  <2>3. Sound(q, meant)
    BY <2>2, <1>1, <1>2, SoundSmaller
  <2> QED
    BY <2>3, <1>8 DEF Wanted, q
<1> QED
  BY <1>1, <1>3, <1>4, <1>5, <1>6, <1>7, <1>8 DEF KeptPleas

LEMMA KeptStart == KeptStateInit => KeptInv
<1> SUFFICES ASSUME KeptStateInit PROVE KeptInv
  OBVIOUS
<1>1. FreshPrefs \in KeptPrefs
  BY DEF FreshPrefs, KeptPrefs
<1>2. IsFiniteSet({}) /\ Cardinality({}) = 0 /\ 0 <= EntryLimit
  BY FS_EmptySet, KeptStateAssumption
<1>3. Sound(FreshPrefs, meant)
  BY <1>1, <1>2 DEF KeptStateInit, Sound, FreshPrefs, Loadable
<1>4. homeSees \in HomeViews
  BY <1>1 DEF KeptStateInit, HomeViews
<1>5. KeptTypes
  BY <1>1, <1>4 DEF KeptStateInit, KeptTypes, NoPage
<1> QED
  BY <1>3, <1>5 DEF KeptStateInit, KeptInv, Unheld, NoPage

\* Steps that add nothing, or that only let the member mean more.
LEMMA KeptElsewhere ==
    ASSUME KeptInv, KeptTypes', UNCHANGED <<inMemory, filed, keeping, shownPage, appUp>>,
           used'.pages = used.pages, homeSees'.again = homeSees.again, homeSees'.shown = homeSees.shown,
           meant.local \subseteq meant'.local, meant.signed \subseteq meant'.signed, meant.picked \subseteq meant'.picked,
           appUp = "up" \/ pleas' = {}, \A plea \in pleas' : plea \in pleas \/ PleaMeant(plea)'
    PROVE  KeptInv'
BY SoundGrows DEF KeptInv, PleaMeant

\* The commands that are asked.
IsPlea(p, kind, from, e) == p \in KeptPleas /\ p.kind = kind /\ p.from = from /\ p.entry = e

LEMMA Pleading ==
    ASSUME NEW kind \in {"save", "forget", "default", "rename", "quits", "signedIn"}, NEW from \in Nat,
           NEW e \in Entries \cup {NoEntry}, NEW b \in BOOLEAN
    PROVE  /\ IsPlea(Plea(kind, from), kind, from, NoEntry)
           /\ IsPlea([Plea(kind, from) EXCEPT !.entry = e], kind, from, e)
           /\ IsPlea([Plea(kind, from) EXCEPT !.enabled = b], kind, from, NoEntry)
           /\ IsPlea([Plea(kind, from) EXCEPT !.entry = e, !.enabled = b], kind, from, e)
<1> DEFINE p == Plea(kind, from)
<1>1. p \in KeptPleas /\ p.kind = kind /\ p.from = from /\ p.entry = NoEntry
  BY DEF Plea, KeptPleas
<1> HIDE DEF p
<1>2. IsPlea(p, kind, from, NoEntry)
  BY <1>1 DEF IsPlea
<1>3. IsPlea([p EXCEPT !.entry = e], kind, from, e)
  BY <1>1 DEF IsPlea, KeptPleas
<1>4. IsPlea([p EXCEPT !.enabled = b], kind, from, NoEntry)
  BY <1>1 DEF IsPlea, KeptPleas
<1>5. IsPlea([p EXCEPT !.entry = e, !.enabled = b], kind, from, e)
  BY <1>1 DEF IsPlea, KeptPleas
<1> QED
  BY <1>2, <1>3, <1>4, <1>5 DEF p

LEMMA HomeAskTypes ==
    ASSUME KeptTypes, NEW plea \in KeptPleas, HomeAsks(plea),
           meant' \in [local : SUBSET Entries, signed : SUBSET Entries, picked : SUBSET (Entries \cup {NoEntry})]
    PROVE  /\ KeptTypes' /\ UNCHANGED <<inMemory, filed, keeping, shownPage, appUp>> /\ appUp = "up"
           /\ used'.pages = used.pages /\ pleas' = pleas \cup {plea}
           /\ homeSees'.again = homeSees.again /\ homeSees'.shown = homeSees.shown
<1>1. used' \in [pleas : Nat, moves : Nat, kills : Nat, faults : Nat, pages : Nat] /\ used'.pages = used.pages
  BY DEF HomeAsks, Asks, Count, KeptTypes
<1>2. homeSees' \in HomeViews /\ homeSees'.again = homeSees.again /\ homeSees'.shown = homeSees.shown
  BY DEF HomeAsks, KeptTypes, HomeViews
<1> QED
  BY <1>1, <1>2 DEF HomeAsks, Asks, KeptTypes

LEMMA KeptHomeAsks ==
    ASSUME KeptInv, PressSave \/ PressForget \/ PressDefault \/ PressRename
    PROVE  KeptInv'
<1> DEFINE Meanings == [local : SUBSET Entries, signed : SUBSET Entries, picked : SUBSET (Entries \cup {NoEntry})]
<1>t. KeptTypes /\ meant \in Meanings /\ homeSees.shown \in KeptPrefs /\ homeSees.shown.entries \in SUBSET Entries
  BY DEF KeptInv, KeptTypes, HomeViews, KeptPrefs
<1>1. CASE PressSave
  <2>1. PICK e \in Entries : /\ HomeAsks([Plea("save", 0) EXCEPT !.entry = e])
                             /\ meant' = [meant EXCEPT !.local = @ \cup {e}]
    BY <1>1 DEF PressSave
  <2>2. IsPlea([Plea("save", 0) EXCEPT !.entry = e], "save", 0, e)
    BY Pleading
  <2>3. PICK plea \in KeptPleas : HomeAsks(plea) /\ plea.kind = "save" /\ plea.entry = e /\ plea.from = 0
    BY <2>1, <2>2 DEF IsPlea
  <2>4. meant' \in Meanings /\ meant'.local = meant.local \cup {e} /\ UNCHANGED <<meant.signed, meant.picked>>
    BY <2>1, <1>t
  <2>5. /\ KeptTypes' /\ UNCHANGED <<inMemory, filed, keeping, shownPage, appUp>> /\ appUp = "up"
        /\ used'.pages = used.pages /\ pleas' = pleas \cup {plea}
        /\ homeSees'.again = homeSees.again /\ homeSees'.shown = homeSees.shown
    BY <2>3, <2>4, <1>t, HomeAskTypes
  <2>6. PleaMeant(plea)'
    BY <2>3, <2>4 DEF PleaMeant
  <2> QED
    BY <2>4, <2>5, <2>6, KeptElsewhere
<1>2. CASE PressForget
  <2>1. PICK e \in homeSees.shown.entries : HomeAsks([Plea("forget", 0) EXCEPT !.entry = e]) /\ UNCHANGED meant
    BY <1>2 DEF PressForget
  <2>2. IsPlea([Plea("forget", 0) EXCEPT !.entry = e], "forget", 0, e)
    BY <2>1, <1>t, Pleading
  <2>3. PICK plea \in KeptPleas : HomeAsks(plea) /\ plea.kind = "forget" /\ plea.from = 0
    BY <2>1, <2>2 DEF IsPlea
  <2>5. /\ KeptTypes' /\ UNCHANGED <<inMemory, filed, keeping, shownPage, appUp>> /\ appUp = "up"
        /\ used'.pages = used.pages /\ pleas' = pleas \cup {plea}
        /\ homeSees'.again = homeSees.again /\ homeSees'.shown = homeSees.shown
    BY <2>1, <2>3, <1>t, HomeAskTypes
  <2>6. PleaMeant(plea)'
    BY <2>3 DEF PleaMeant
  <2> QED
    BY <2>1, <2>5, <2>6, KeptElsewhere
<1>3. CASE PressDefault
  <2>1. PICK e \in homeSees.shown.entries, ticks \in BOOLEAN :
          LET picked == IF e = homeSees.shown.opening /\ ~ticks THEN NoEntry ELSE e
          IN /\ HomeAsks([Plea("default", 0) EXCEPT !.entry = picked,
                                                    !.enabled = (ticks # homeSees.shown.onStart) /\ picked # NoEntry])
             /\ meant' = [meant EXCEPT !.picked = @ \cup {picked}]
    BY <1>3 DEF PressDefault
  <2> DEFINE picked == IF e = homeSees.shown.opening /\ ~ticks THEN NoEntry ELSE e
             starts == (ticks # homeSees.shown.onStart) /\ picked # NoEntry
  <2>0. starts \in BOOLEAN /\ picked \in Entries \cup {NoEntry}
        /\ HomeAsks([Plea("default", 0) EXCEPT !.entry = picked, !.enabled = starts])
        /\ meant' = [meant EXCEPT !.picked = @ \cup {picked}]
    BY <2>1, <1>t
  <2> HIDE DEF starts, picked
  <2>2. PICK by : by = picked
    OBVIOUS
  <2>3. PICK plea \in KeptPleas : HomeAsks(plea) /\ plea.kind = "default" /\ plea.entry = by /\ plea.from = 0
    <3>1. IsPlea([Plea("default", 0) EXCEPT !.entry = picked, !.enabled = starts], "default", 0, picked)
      BY <2>0, Pleading
    <3> QED
      BY <3>1, <2>0, <2>2 DEF IsPlea
  <2>4. meant' \in Meanings /\ meant'.picked = meant.picked \cup {by} /\ UNCHANGED <<meant.signed, meant.local>>
    BY <2>0, <2>2, <1>t
  <2>5. /\ KeptTypes' /\ UNCHANGED <<inMemory, filed, keeping, shownPage, appUp>> /\ appUp = "up"
        /\ used'.pages = used.pages /\ pleas' = pleas \cup {plea}
        /\ homeSees'.again = homeSees.again /\ homeSees'.shown = homeSees.shown
    BY <2>3, <2>4, <1>t, HomeAskTypes
  <2>6. PleaMeant(plea)'
    BY <2>3, <2>4 DEF PleaMeant
  <2> QED
    BY <2>4, <2>5, <2>6, KeptElsewhere
<1>4. CASE PressRename
  <2>1. PICK e \in homeSees.shown.entries, name \in BOOLEAN :
           Asks([Plea("rename", 0) EXCEPT !.entry = e, !.enabled = name])
    BY <1>4 DEF PressRename
  <2>2. IsPlea([Plea("rename", 0) EXCEPT !.entry = e, !.enabled = name], "rename", 0, e)
    BY <2>1, <1>t, Pleading
  <2>3. PICK plea \in KeptPleas : Asks(plea) /\ plea.kind = "rename" /\ plea.from = 0
    BY <2>1, <2>2 DEF IsPlea
  <2>4. /\ UNCHANGED <<inMemory, filed, keeping, shownPage, appUp, meant>> /\ appUp = "up" /\ pleas' = pleas \cup {plea}
    BY <1>4, <2>3 DEF PressRename, Asks
  <2>5. used' \in [pleas : Nat, moves : Nat, kills : Nat, faults : Nat, pages : Nat] /\ used'.pages = used.pages
    BY <2>1, <1>t DEF Asks, Count, KeptTypes
  <2>6. homeSees' \in HomeViews /\ homeSees'.again = homeSees.again /\ homeSees'.shown = homeSees.shown
    BY <1>4, <1>t DEF PressRename, KeptTypes, HomeViews
  <2>7. KeptTypes'
    BY <2>3, <2>4, <2>5, <2>6, <1>t DEF KeptTypes
  <2>8. PleaMeant(plea)'
    BY <2>3 DEF PleaMeant
  <2> QED
    BY <2>4, <2>5, <2>6, <2>7, <2>8, KeptElsewhere
<1> QED
  BY <1>1, <1>2, <1>3, <1>4

LEMMA KeptPageAsks == ASSUME KeptInv, PageAsks PROVE KeptInv'
<1> DEFINE Meanings == [local : SUBSET Entries, signed : SUBSET Entries, picked : SUBSET (Entries \cup {NoEntry})]
<1>t. KeptTypes /\ meant \in Meanings /\ shownPage.number \in Nat /\ shownPage.entry \in Entries /\ shownPage.number # 0
      /\ shownPage.number <= used.pages
  BY DEF KeptInv, KeptTypes, PageAsks
<1>0. UNCHANGED <<inMemory, filed, keeping, shownPage, homeSees, appUp>>
  BY DEF PageAsks
<1>a. ASSUME NEW plea \in KeptPleas, Asks(plea), meant' \in Meanings
      PROVE  KeptTypes' /\ used'.pages = used.pages /\ appUp = "up" /\ pleas' = pleas \cup {plea}
  BY <1>a, <1>t, <1>0 DEF Asks, Count, KeptTypes
<1>1. CASE (\E enabled \in BOOLEAN : Asks([Plea("quits", shownPage.number) EXCEPT !.enabled = enabled])) /\ UNCHANGED meant
  <2>1. PICK enabled \in BOOLEAN : Asks([Plea("quits", shownPage.number) EXCEPT !.enabled = enabled])
    BY <1>1
  <2>2. IsPlea([Plea("quits", shownPage.number) EXCEPT !.enabled = enabled], "quits", shownPage.number, NoEntry)
    BY <1>t, Pleading
  <2>3. PICK plea \in KeptPleas : Asks(plea) /\ plea.kind = "quits" /\ plea.from = shownPage.number
    BY <2>1, <2>2 DEF IsPlea
  <2>4. KeptTypes' /\ used'.pages = used.pages /\ appUp = "up" /\ pleas' = pleas \cup {plea}
    BY <2>3, <1>a, <1>1, <1>t
  <2>5. PleaMeant(plea)'
    BY <2>3, <1>t, <1>0 DEF PleaMeant
  <2> QED
    BY <2>4, <2>5, <1>0, <1>1, KeptElsewhere
<1>2. CASE /\ Asks(Plea("signedIn", shownPage.number))
           /\ meant' = IF shownPage.chosen THEN [meant EXCEPT !.signed = @ \cup {shownPage.entry}] ELSE meant
  <2>1. IsPlea(Plea("signedIn", shownPage.number), "signedIn", shownPage.number, NoEntry)
    BY <1>t, Pleading
  <2>2. PICK plea \in KeptPleas : Asks(plea) /\ plea.kind = "signedIn" /\ plea.from = shownPage.number
    BY <2>1, <1>2 DEF IsPlea
  <2>3. meant' \in Meanings /\ meant.signed \subseteq meant'.signed /\ UNCHANGED <<meant.local, meant.picked>>
        /\ (shownPage.chosen => shownPage.entry \in meant'.signed)
    BY <1>2, <1>t
  <2>4. KeptTypes' /\ used'.pages = used.pages /\ appUp = "up" /\ pleas' = pleas \cup {plea}
    BY <2>2, <2>3, <1>a
  <2>5. PleaMeant(plea)'
    BY <2>2, <2>3, <2>4, <1>t, <1>0 DEF PleaMeant
  <2> QED
    BY <2>3, <2>4, <2>5, <1>0, KeptElsewhere
<1> QED
  BY <1>1, <1>2 DEF PageAsks

LEMMA KeptPages == ASSUME KeptInv, OpensPage \/ Leaves PROVE KeptInv'
<1> DEFINE Meanings == [local : SUBSET Entries, signed : SUBSET Entries, picked : SUBSET (Entries \cup {NoEntry})]
           Pages == [entry : Entries \cup {NoEntry}, number : Nat, chosen : BOOLEAN]
<1>t. KeptTypes /\ meant \in Meanings /\ used.pages \in Nat
  BY DEF KeptInv, KeptTypes
<1>0. UNCHANGED <<inMemory, filed, keeping, pleas, homeSees, appUp>>
  BY DEF OpensPage, Leaves
<1>1. CASE OpensPage
  <2>1. PICK e \in Entries, typed \in BOOLEAN :
          /\ shownPage' = [entry |-> e, number |-> used.pages + 1, chosen |-> typed \/ e \in inMemory.entries]
          /\ meant' = IF typed THEN [meant EXCEPT !.local = @ \cup {e}] ELSE meant
    BY <1>1 DEF OpensPage
  <2>2. shownPage' \in Pages /\ shownPage'.number = used.pages + 1
    <3> DEFINE mine == typed \/ e \in inMemory.entries
    <3>1. mine \in BOOLEAN
      OBVIOUS
    <3>2. shownPage' = [entry |-> e, number |-> used.pages + 1, chosen |-> mine]
      BY <2>1
    <3> HIDE DEF mine
    <3> QED
      BY <3>1, <3>2, <1>t
  <2>3. meant' \in Meanings /\ meant.local \subseteq meant'.local /\ UNCHANGED <<meant.signed, meant.picked>>
    BY <2>1, <1>t
  <2>4. used' \in [pleas : Nat, moves : Nat, kills : Nat, faults : Nat, pages : Nat] /\ used'.pages = used.pages + 1
    BY <1>1, <1>t DEF OpensPage, Count, KeptTypes
  <2>5. KeptTypes'
    BY <2>2, <2>3, <2>4, <1>0, <1>t DEF KeptTypes
  <2>6. \A plea \in pleas : PleaMeant(plea)'
    BY <1>t, <2>2, <2>4, <2>3 DEF KeptInv, KeptTypes, KeptPleas, PleaMeant
  <2>7. Sound(inMemory, meant)' /\ Sound(filed, meant)' /\ (keeping # Unheld => Sound(keeping.next, meant))'
    BY <2>3, SoundGrows, <1>0 DEF KeptInv
  <2>8. shownPage'.number <= used'.pages /\ shownPage'.number # 0
    BY <2>2, <2>4, <1>t
  <2> QED
    BY <2>3, <2>5, <2>6, <2>7, <2>8, <1>0 DEF KeptInv
<1>2. CASE Leaves
  BY <1>2, <1>0, <1>t DEF Leaves, NoPage, KeptTypes, KeptInv, PleaMeant
<1> QED
  BY <1>1, <1>2

\* What Home is answered.
LEMMA AnswerTypes ==
    ASSUME KeptTypes, NEW plea, NEW heard \in BOOLEAN, NEW prefs \in KeptPrefs
    PROVE  /\ PleaAnswered(plea, heard, prefs) \in HomeViews
           /\ PleaAnswered(plea, heard, prefs).again = homeSees.again
           /\ PleaAnswered(plea, heard, prefs).shown = IF plea.from = 0 /\ heard THEN prefs ELSE homeSees.shown
<1> DEFINE busy == IF plea.kind = "rename" THEN homeSees.busy ELSE FALSE
           renames == IF plea.kind = "rename" THEN FALSE ELSE homeSees.renames
           over == [homeSees EXCEPT !.busy = busy, !.renames = renames]
           shows == IF heard THEN prefs ELSE homeSees.shown
<1>1. homeSees \in HomeViews /\ busy \in BOOLEAN /\ renames \in BOOLEAN /\ shows \in KeptPrefs
  BY DEF KeptTypes, HomeViews
<1> HIDE DEF busy, renames, shows
<1>2. over \in HomeViews /\ over.again = homeSees.again /\ over.shown = homeSees.shown
  BY <1>1 DEF HomeViews
<1>3. PleaAnswered(plea, heard, prefs) = IF plea.from = 0 THEN [over EXCEPT !.shown = shows] ELSE homeSees
  BY <1>1, <1>2 DEF PleaAnswered, busy, renames, shows, HomeViews
<1> HIDE DEF over
<1>4. [over EXCEPT !.shown = shows] \in HomeViews /\ [over EXCEPT !.shown = shows].again = over.again
      /\ [over EXCEPT !.shown = shows].shown = shows
  BY <1>1, <1>2 DEF HomeViews
<1> QED
  BY <1>1, <1>2, <1>3, <1>4 DEF shows

LEMMA KeptServes == ASSUME KeptInv, NEW plea \in pleas, Serves(plea) PROVE KeptInv'
<1>t. KeptTypes /\ plea \in KeptPleas /\ PleaMeant(plea) /\ inMemory \in KeptPrefs
  BY DEF KeptInv, KeptTypes
<1>0. UNCHANGED <<inMemory, filed, shownPage, appUp, used, meant>> /\ keeping = Unheld /\ pleas' \subseteq pleas
      /\ keeping.step = "free"
  BY DEF Serves, Unheld
<1>p. \A p \in pleas' : PleaMeant(p)'
  BY <1>0 DEF KeptInv, PleaMeant
<1>d. appUp = "up"
  BY DEF KeptInv, KeptTypes
<1>1. CASE PleaAllowed(plea) /\ ~(plea.kind = "save" /\ plea.entry \in inMemory.entries)
  BY <1>1, WantedIsSound, <1>t, <1>0, <1>p, <1>d DEF Serves, KeptSaves, Sound, PleaMeant, KeptTypes, KeptInv
<1>2. CASE ~(PleaAllowed(plea) /\ ~(plea.kind = "save" /\ plea.entry \in inMemory.entries))
  <2> DEFINE heard == PleaAllowed(plea)
  <2>1. homeSees' = PleaAnswered(plea, heard, inMemory) /\ UNCHANGED keeping
    BY <1>2 DEF Serves
  <2>2. heard \in BOOLEAN
    BY DEF PleaAllowed
  <2> HIDE DEF heard
  <2>3. homeSees' \in HomeViews /\ homeSees'.again = homeSees.again
        /\ homeSees'.shown = IF plea.from = 0 /\ heard THEN inMemory ELSE homeSees.shown
    BY <2>1, <2>2, <1>t, AnswerTypes
  <2>4. KeptTypes'
    BY <2>1, <2>3, <1>0, <1>t DEF KeptTypes
  <2>5. (appUp = "up" /\ ~homeSees.again => homeSees.shown = inMemory)'
    BY <2>3, <1>0 DEF KeptInv
  <2> QED
    BY <2>1, <2>4, <2>5, <1>0, <1>p, <1>d DEF KeptInv
<1> QED
  BY <1>1, <1>2

LEMMA KeptSaving == ASSUME KeptInv, Written \/ Renamed \/ SaveFails \/ Remembered \/ HomeReads PROVE KeptInv'
<1>t. KeptTypes /\ inMemory \in KeptPrefs
  BY DEF KeptInv, KeptTypes
<1>f. Unheld.step = "free"
  BY DEF Unheld
<1>0. UNCHANGED <<pleas, shownPage, appUp, meant>>
  BY DEF Written, Renamed, SaveFails, Remembered, HomeReads
<1>u. used' \in [pleas : Nat, moves : Nat, kills : Nat, faults : Nat, pages : Nat] /\ used'.pages = used.pages
  <2>1. UNCHANGED used \/ Count("faults")
    BY DEF Written, Renamed, SaveFails, Remembered, HomeReads
  <2> QED
    BY <2>1, <1>t DEF Count, KeptTypes
<1>p. \A p \in pleas' : PleaMeant(p)'
  BY <1>0, <1>u DEF KeptInv, PleaMeant
<1>k. keeping.step # "free" => /\ keeping \in KeptSaves /\ keeping # Unheld /\ Sound(keeping.next, meant)
                               /\ keeping.next \in KeptPrefs /\ appUp = "up"
  BY <1>f, <1>t DEF KeptInv, KeptTypes, KeptSaves
<1>1. CASE Written
  <2>1. /\ keeping.step = "write" /\ keeping' = [keeping EXCEPT !.step = "rename"]
        /\ UNCHANGED <<inMemory, filed, homeSees>>
    BY <1>1 DEF Written
  <2>2. /\ keeping' \in KeptSaves /\ keeping'.step = "rename" /\ keeping'.next = keeping.next
        /\ keeping'.plea = keeping.plea
    BY <2>1, <1>k DEF KeptSaves
  <2>3. KeptTypes'
    BY <2>1, <2>2, <1>0, <1>u, <1>t DEF KeptTypes
  <2> QED
    BY <2>1, <2>2, <2>3, <1>0, <1>u, <1>p, <1>k DEF KeptInv
<1>2. CASE Renamed
  BY <1>2, <1>k, <1>0, <1>u, <1>t, <1>p DEF Renamed, KeptSaves, KeptTypes, KeptInv
<1>3. CASE SaveFails
  <2>1. /\ keeping.step \in {"write", "rename"} /\ keeping' = Unheld
        /\ homeSees' = PleaAnswered(keeping.plea, FALSE, inMemory) /\ UNCHANGED <<inMemory, filed>>
    BY <1>3 DEF SaveFails
  <2>2. homeSees' \in HomeViews /\ homeSees'.again = homeSees.again /\ homeSees'.shown = homeSees.shown
    BY <2>1, <1>t, AnswerTypes
  <2>3. KeptTypes'
    BY <2>1, <2>2, <1>0, <1>u, <1>t DEF KeptTypes
  <2>4. keeping'.step = "free" /\ keeping.step # "remember" /\ keeping.step # "free"
    BY <2>1, <1>f
  <2> QED
    BY <2>1, <2>2, <2>3, <2>4, <1>0, <1>u, <1>p, <1>k DEF KeptInv
<1>4. CASE Remembered
  <2> DEFINE over == PleaAnswered(keeping.plea, TRUE, keeping.next)
             again == over.again \/ keeping.plea.kind \notin {"save", "forget"}
  <2>1. /\ keeping.step = "remember" /\ keeping' = Unheld /\ inMemory' = keeping.next /\ UNCHANGED filed
        /\ homeSees' = [over EXCEPT !.again = @ \/ keeping.plea.kind \notin {"save", "forget"}]
    BY <1>4 DEF Remembered
  <2>2. /\ over \in HomeViews /\ over.again = homeSees.again
        /\ over.shown = IF keeping.plea.from = 0 THEN keeping.next ELSE homeSees.shown
    BY <2>1, <1>t, <1>k, AnswerTypes
  <2>3. again \in BOOLEAN
    BY <2>2 DEF HomeViews
  <2>4. homeSees' = [over EXCEPT !.again = again]
    BY <2>1, <2>2 DEF HomeViews
  <2>5. ~again => keeping.plea.from = 0
    BY <2>1, <1>k DEF KeptInv
  <2> HIDE DEF over, again
  <2>6. homeSees' \in HomeViews /\ homeSees'.again = again /\ homeSees'.shown = over.shown
    BY <2>2, <2>3, <2>4 DEF HomeViews
  <2>7. KeptTypes'
    BY <2>1, <2>6, <1>0, <1>u, <1>t, <1>k DEF KeptTypes
  <2>8. (appUp = "up" /\ ~homeSees.again => homeSees.shown = inMemory)'
    BY <2>1, <2>2, <2>5, <2>6, <1>0
  <2>9. (appUp = "up" => filed = IF keeping.step = "remember" THEN keeping.next ELSE inMemory)'
    BY <2>1, <1>0, <1>f, <1>k DEF KeptInv
  <2> QED
    BY <2>1, <2>7, <2>8, <2>9, <1>0, <1>u, <1>p, <1>k DEF KeptInv
<1>5. CASE HomeReads
  BY <1>5, <1>t, <1>0, <1>u, <1>p DEF HomeReads, HomeViews, KeptTypes, KeptInv
<1> QED
  BY <1>1, <1>2, <1>3, <1>4, <1>5

LEMMA KeptLife == ASSUME KeptInv, Killed \/ AppStarts PROVE KeptInv'
<1>t. KeptTypes /\ inMemory \in KeptPrefs /\ filed \in KeptPrefs /\ used.pages \in Nat
  BY DEF KeptInv, KeptTypes
<1>f. Unheld.step = "free"
  BY DEF Unheld
<1>1. CASE Killed
  <2>1. /\ appUp' = "down" /\ keeping' = Unheld /\ pleas' = {} /\ shownPage' = NoPage
        /\ homeSees' = [homeSees EXCEPT !.again = FALSE, !.busy = FALSE, !.renames = FALSE]
        /\ UNCHANGED <<inMemory, filed, meant>>
    BY <1>1 DEF Killed
  <2>2. homeSees' \in HomeViews
    BY <2>1, <1>t DEF KeptTypes, HomeViews
  <2>3. used' \in [pleas : Nat, moves : Nat, kills : Nat, faults : Nat, pages : Nat] /\ used'.pages = used.pages
    BY <1>1, <1>t DEF Killed, Count, KeptTypes
  <2>4. shownPage' \in [entry : Entries \cup {NoEntry}, number : Nat, chosen : BOOLEAN] /\ shownPage'.number = 0
        /\ shownPage'.entry = NoEntry
    BY <2>1 DEF NoPage
  <2>5. KeptTypes'
    BY <2>1, <2>2, <2>3, <2>4, <1>t DEF KeptTypes
  <2> QED
    BY <2>1, <2>3, <2>4, <2>5, <1>t DEF KeptInv
<1>2. CASE AppStarts
  <2>1. Loadable(filed) /\ appUp = "down" /\ keeping = Unheld /\ pleas = {}
    BY <1>2 DEF AppStarts, KeptInv, Sound
  <2>2. /\ appUp' = "up" /\ inMemory' = filed /\ homeSees' = [homeSees EXCEPT !.shown = filed]
        /\ shownPage' = IF filed.onStart /\ filed.opening # NoEntry
                        THEN [entry |-> filed.opening, number |-> used.pages + 1, chosen |-> TRUE]
                        ELSE NoPage
        /\ used' = [used EXCEPT !.pages = @ + 1]
        /\ UNCHANGED <<filed, keeping, pleas, meant>>
    BY <2>1, <1>2 DEF AppStarts
  <2>3. homeSees' \in HomeViews /\ homeSees'.shown = filed
    BY <2>2, <1>t DEF KeptTypes, HomeViews
  <2>4. used' \in [pleas : Nat, moves : Nat, kills : Nat, faults : Nat, pages : Nat] /\ used'.pages = used.pages + 1
    BY <2>2, <1>t DEF KeptTypes
  <2>5. shownPage' \in [entry : Entries \cup {NoEntry}, number : Nat, chosen : BOOLEAN]
        /\ shownPage'.number \in {0, used.pages + 1} /\ (shownPage'.entry # NoEntry => shownPage'.number = used.pages + 1)
    BY <1>t, <2>2 DEF NoPage, KeptPrefs
  <2>6. KeptTypes'
    BY <2>2, <2>3, <2>4, <2>5, <1>t DEF KeptTypes
  <2>7. shownPage'.number <= used'.pages /\ (shownPage'.entry # NoEntry => shownPage'.number # 0)
    BY <2>4, <2>5, <1>t
  <2>8. (appUp = "up" => filed = IF keeping.step = "remember" THEN keeping.next ELSE inMemory)'
    BY <2>1, <2>2, <1>f
  <2> QED
    BY <2>1, <2>2, <2>3, <2>6, <2>7, <2>8 DEF KeptInv
<1> QED
  BY <1>1, <1>2

\* Where the windows are is no preference.
LEMMA KeptUnmoved ==
    ASSUME KeptInv, UNCHANGED <<inMemory, filed, keeping, pleas, shownPage, homeSees, appUp, meant>>,
           used' \in [pleas : Nat, moves : Nat, kills : Nat, faults : Nat, pages : Nat], used'.pages = used.pages
    PROVE  KeptInv'
BY DEF KeptInv, KeptTypes, PleaMeant

LEMMA KeptStep == KeptInv /\ [KeptStateNext]_keptVars => KeptInv'
<1> SUFFICES ASSUME KeptInv, [KeptStateNext]_keptVars PROVE KeptInv'
  OBVIOUS
<1>1. CASE PreferencesNext
  BY <1>1, KeptHomeAsks, KeptPageAsks, KeptPages, KeptServes, KeptSaving, KeptLife DEF PreferencesNext
<1>2. CASE Killed \/ AppStarts
  BY <1>2, KeptLife
<1>3. CASE \/ Moves \/ TimerFires \/ WindowCloses
           \/ \E s \in Scribes : Truncates(s) \/ Fills(s) \/ Renames(s) \/ PlacementFails(s)
  <2>1. UNCHANGED <<inMemory, filed, keeping, pleas, shownPage, homeSees, appUp, meant>>
    BY <1>3 DEF Moves, TimerFires, WindowCloses, Truncates, Fills, Renames, PlacementFails
  <2>2. UNCHANGED used \/ Count("moves") \/ Count("faults")
    BY <1>3 DEF Moves, TimerFires, WindowCloses, Truncates, Fills, Renames, PlacementFails
  <2>3. used' \in [pleas : Nat, moves : Nat, kills : Nat, faults : Nat, pages : Nat] /\ used'.pages = used.pages
    BY <2>2 DEF KeptInv, KeptTypes, Count
  <2> QED
    BY <2>1, <2>3, KeptUnmoved
<1>4. CASE UNCHANGED keptVars
  BY <1>4, KeptUnmoved DEF keptVars, KeptInv, KeptTypes
<1> QED
  BY <1>1, <1>2, <1>3, <1>4 DEF KeptStateNext, PlacementsNext

LEMMA KeptSurvives == KeptInv => PreferencesSurvive
BY DEF KeptInv, KeptTypes, PreferencesSurvive, Sound

------------------------
(* Where the windows were left.  While the timer does not run, every writer *)
(* writes where the windows are; and unless one has failed, one of them has *)
(* yet to write the temporary file, or what is there and what is under way *)
(* ends with the file saying so, in whatever order they open and rename. *)
PlaceFiles == [at : Nat, torn : BOOLEAN]
Writers == [step : {"begun", "opened", "filled"}, at : Nat, to : {"nowhere", "sheet", "placed"}]

PlaceTypes ==
    places \in [where : Nat, timer : BOOLEAN, sheet : PlaceFiles, placed : PlaceFiles, there : BOOLEAN,
                timed : {Unheld} \cup Writers, closing : {Unheld} \cup Writers, unsaved : BOOLEAN]

Under(writer) == writer.step \in {"opened", "filled"}
WritesTo(writer, file) == writer.step = "opened" /\ writer.to = file

Promised(one, two, sheet, there, placed, where) ==
    \/ one.step = "begun" \/ two.step = "begun"
    \/ /\ there /\ (Under(one) \/ Under(two)) =>
            sheet = Whole(where) \/ WritesTo(one, "sheet") \/ WritesTo(two, "sheet")
       /\ \/ there /\ (Under(one) \/ Under(two))
          \/ placed = Whole(where) \/ WritesTo(one, "placed") \/ WritesTo(two, "placed")

PlacesInv ==
    /\ PlaceTypes
    /\ appUp = "down" => places.timed = Unheld /\ places.closing = Unheld /\ ~places.timer
    /\ ~places.timer => /\ places.timed # Unheld => places.timed.at = places.where
                        /\ places.closing # Unheld => places.closing.at = places.where
    /\ appUp = "up" /\ ~places.timer /\ ~places.unsaved =>
           Promised(places.timed, places.closing, places.sheet, places.there, places.placed, places.where)

LEMMA WriterSteps ==
    /\ Unheld.step = "free" /\ Unheld \notin Writers
    /\ \A at \in Nat : Scribe(at) \in Writers /\ Scribe(at).step = "begun" /\ Scribe(at).at = at
    /\ Torn \in PlaceFiles /\ Absent \in PlaceFiles /\ \A at \in Nat : Whole(at) \in PlaceFiles
BY DEF Writers, Unheld, Scribe, Torn, Absent, Whole, PlaceFiles

LEMMA PromiseIsMutual ==
    ASSUME NEW one, NEW two, NEW sheet, NEW there, NEW placed, NEW where,
           Promised(one, two, sheet, there, placed, where)
    PROVE  Promised(two, one, sheet, there, placed, where)
BY DEF Promised

\* A writer opens the temporary file.
LEMMA PromiseOpened ==
    ASSUME NEW one, NEW two, NEW placed, NEW where, one.step = "opened", one.to = "sheet"
    PROVE  Promised(one, two, Torn, TRUE, placed, where)
BY DEF Promised, Under, WritesTo

\* It fills the file that it opened, whatever that file is called by now.
LEMMA PromiseFilled ==
    ASSUME NEW one, NEW two, NEW sheet, NEW there, NEW placed, NEW where, NEW done,
           Promised(one, two, sheet, there, placed, where), one.step = "opened", one.at = where,
           done.step = "filled"
    PROVE  Promised(done, two, IF one.to = "sheet" THEN Whole(one.at) ELSE sheet, there,
                    IF one.to = "placed" THEN Whole(one.at) ELSE placed, where)
BY DEF Promised, Under, WritesTo

\* It renames the temporary file, and what the other has open with it; or finds it
\* renamed already.
LEMMA PromiseRenamed ==
    ASSUME NEW one, NEW two \in {Unheld} \cup Writers, NEW sheet, NEW placed, NEW where,
           Promised(one, two, sheet, TRUE, placed, where), one.step = "filled"
    PROVE  Promised(Unheld, Rides(two), Absent, FALSE, sheet, where)
<1>1. CASE two = Unheld
  BY <1>1, WriterSteps DEF Promised, Under, WritesTo, Rides
<1>2. CASE two \in Writers
  <2> DEFINE to == IF two.to = "sheet" THEN "placed" ELSE IF two.to = "placed" THEN "nowhere" ELSE two.to
  <2>1. Rides(two) = [two EXCEPT !.to = to]
    BY <1>2, WriterSteps DEF Rides, Writers
  <2>2. Rides(two).step = two.step /\ Rides(two).to = to
    <3> HIDE DEF to
    <3> QED
      BY <2>1, <1>2 DEF Writers
  <2> QED
    BY <2>2, WriterSteps DEF Promised, Under, WritesTo
<1> QED
  BY <1>1, <1>2

LEMMA PromiseOvertaken ==
    ASSUME NEW one, NEW two, NEW sheet, NEW placed, NEW where,
           Promised(one, two, sheet, FALSE, placed, where), one.step = "filled"
    PROVE  Promised(Unheld, two, sheet, FALSE, placed, where)
BY WriterSteps DEF Promised, Under, WritesTo

LEMMA RidesTypes ==
    ASSUME NEW two \in {Unheld} \cup Writers
    PROVE  /\ Rides(two) \in {Unheld} \cup Writers
           /\ Rides(two) # Unheld => two # Unheld /\ Rides(two).at = two.at
<1>1. CASE two = Unheld
  BY <1>1 DEF Rides
<1>2. CASE two \in Writers
  <2> DEFINE to == IF two.to = "sheet" THEN "placed" ELSE IF two.to = "placed" THEN "nowhere" ELSE two.to
  <2>1. Rides(two) = [two EXCEPT !.to = to]
    BY <1>2, WriterSteps DEF Rides, Writers
  <2>2. to \in {"nowhere", "sheet", "placed"}
    BY <1>2 DEF Writers
  <2> HIDE DEF to
  <2>3. Rides(two) \in Writers /\ Rides(two).at = two.at
    BY <2>1, <2>2, <1>2 DEF Writers
  <2> QED
    BY <2>3, <1>2, WriterSteps
<1> QED
  BY <1>1, <1>2

\* Any step is judged by what it leaves.
PlacesAre(where, timer, sheet, placed, there, timed, closing, unsaved) ==
    places = [where |-> where, timer |-> timer, sheet |-> sheet, placed |-> placed, there |-> there,
              timed |-> timed, closing |-> closing, unsaved |-> unsaved]

LEMMA PlacesStart == KeptStateInit => PlacesInv
BY WriterSteps DEF KeptStateInit, NewPlaces, PlacesAre, PlaceTypes, Promised, Absent, Whole, PlacesInv

LEMMA PlacesBegin == ASSUME PlacesInv, Moves \/ TimerFires \/ WindowCloses PROVE PlacesInv'
<1>t. PlaceTypes /\ places.where \in Nat
  BY DEF PlacesInv, PlaceTypes
<1>1. CASE Moves
  <2>1. places' = [places EXCEPT !.where = @ + 1, !.timer = TRUE] /\ UNCHANGED appUp /\ appUp = "up"
    BY <1>1 DEF Moves
  <2>2. places.where + 1 \in Nat /\ TRUE \in BOOLEAN
    BY <1>t
  <2>3. places' = [places EXCEPT !.where = places.where + 1, !.timer = TRUE]
    BY <2>1
  <2>4. PlaceTypes' /\ places'.timer = TRUE
    <3> DEFINE next == places.where + 1
    <3> HIDE DEF next
    <3>1. next \in Nat /\ places' = [places EXCEPT !.where = next, !.timer = TRUE]
      BY <2>2, <2>3 DEF next
    <3> QED
      BY <3>1, <2>2, <1>t DEF PlaceTypes
  <2> QED
    BY <2>1, <2>4 DEF PlacesInv
<1>2. CASE TimerFires
  <2>1. places' = [places EXCEPT !.timer = FALSE, !.timed = Scribe(places.where), !.unsaved = FALSE] /\ UNCHANGED appUp
        /\ places.timer /\ (places.closing # Unheld => places.closing.at = places.where)
    BY <1>2 DEF TimerFires
  <2> DEFINE new == Scribe(places.where)
  <2>2. new \in Writers /\ new.step = "begun" /\ new.at = places.where
    BY <1>t, WriterSteps
  <2> HIDE DEF new
  <2>3. PlaceTypes' /\ places'.timed = new /\ places'.closing = places.closing /\ places'.where = places.where
    BY <2>1, <2>2, <1>t DEF PlaceTypes, new
  <2>4. appUp # "down"
    BY <2>1 DEF PlacesInv
  <2> QED
    BY <2>1, <2>2, <2>3, <2>4 DEF PlacesInv, Promised
<1>3. CASE WindowCloses
  <2> DEFINE unkept == places.unsaved /\ places.timed # Unheld
             new == Scribe(places.where)
  <2>1. places' = [places EXCEPT !.closing = new, !.unsaved = unkept]
        /\ UNCHANGED appUp /\ appUp = "up"
    BY <1>3, <1>t DEF WindowCloses, PlaceTypes
  <2>2. new \in Writers /\ new.step = "begun" /\ new.at = places.where /\ unkept \in BOOLEAN
    BY <1>t, WriterSteps
  <2> HIDE DEF new, unkept
  <2>3. PlaceTypes' /\ places'.closing = new /\ places'.timed = places.timed /\ places'.where = places.where
        /\ places'.timer = places.timer
    BY <2>1, <2>2, <1>t DEF PlaceTypes
  <2> QED
    BY <2>1, <2>2, <2>3 DEF PlacesInv, Promised
<1> QED
  BY <1>1, <1>2, <1>3

Other(s) == IF s = "timed" THEN "closing" ELSE "timed"

PlacesBecome(s, one, two, sheet, placed, there, unsaved) ==
    places' = [places EXCEPT ![s] = one, ![Other(s)] = two, !.sheet = sheet, !.placed = placed,
                             !.there = there, !.unsaved = unsaved]

\* A step of one writer, and what it has to leave.
LEMMA PlacesEdited ==
    ASSUME PlacesInv, NEW s \in Scribes, NEW one \in {Unheld} \cup Writers, NEW two \in {Unheld} \cup Writers,
           NEW sheet \in PlaceFiles, NEW placed \in PlaceFiles, NEW there \in BOOLEAN, NEW unsaved \in BOOLEAN,
           PlacesBecome(s, one, two, sheet, placed, there, unsaved),
           UNCHANGED appUp, appUp # "down",
           ~places.timer => /\ one # Unheld => one.at = places.where
                            /\ two # Unheld => two.at = places.where,
           ~places.timer /\ ~unsaved /\ appUp = "up" => Promised(one, two, sheet, there, placed, places.where)
    PROVE  PlacesInv'
<1>t. PlaceTypes
  BY DEF PlacesInv
<1>1. /\ PlaceTypes' /\ places'.timer = places.timer /\ places'.where = places.where
      /\ places'.sheet = sheet /\ places'.placed = placed /\ places'.there = there /\ places'.unsaved = unsaved
  <2>1. CASE s = "timed"
    BY <2>1, <1>t DEF Other, PlacesBecome, PlaceTypes
  <2>2. CASE s = "closing"
    BY <2>2, <1>t DEF Other, PlacesBecome, PlaceTypes
  <2> QED
    BY <2>1, <2>2 DEF Scribes
<1>2. \/ places'.timed = one /\ places'.closing = two
      \/ places'.timed = two /\ places'.closing = one
  BY <1>t DEF Other, PlacesBecome, PlaceTypes, Scribes
<1>3. PlacesInv' = (/\ PlaceTypes'
                    /\ appUp' = "down" => places'.timed = Unheld /\ places'.closing = Unheld /\ ~places'.timer
                    /\ ~places'.timer => /\ places'.timed # Unheld => places'.timed.at = places'.where
                                         /\ places'.closing # Unheld => places'.closing.at = places'.where
                    /\ appUp' = "up" /\ ~places'.timer /\ ~places'.unsaved =>
                           Promised(places'.timed, places'.closing, places'.sheet, places'.there,
                                    places'.placed, places'.where))
  BY DEF PlacesInv
<1>4. ~places.timer => /\ places'.timed # Unheld => places'.timed.at = places'.where
                       /\ places'.closing # Unheld => places'.closing.at = places'.where
  BY <1>1, <1>2
<1>5. ~places.timer /\ ~unsaved /\ appUp = "up" =>
          Promised(places'.timed, places'.closing, sheet, there, placed, places'.where)
  BY <1>1, <1>2, PromiseIsMutual
<1> QED
  BY <1>1, <1>3, <1>4, <1>5

\* What is known of a writer that takes a step.
LEMMA PlacesBefore ==
    ASSUME PlacesInv, NEW s \in Scribes, places[s] # Unheld
    PROVE  /\ places[s] \in Writers /\ places[Other(s)] \in {Unheld} \cup Writers /\ appUp # "down"
           /\ ~places.timer => /\ places[s].at = places.where
                               /\ places[Other(s)] # Unheld => places[Other(s)].at = places.where
           /\ ~places.timer /\ ~places.unsaved /\ appUp = "up" =>
                  Promised(places[s], places[Other(s)], places.sheet, places.there, places.placed, places.where)
           /\ places.sheet \in PlaceFiles /\ places.placed \in PlaceFiles
           /\ places.there \in BOOLEAN /\ places.unsaved \in BOOLEAN
           /\ places \in [where : Nat, timer : BOOLEAN, sheet : PlaceFiles, placed : PlaceFiles, there : BOOLEAN,
                          timed : {Unheld} \cup Writers, closing : {Unheld} \cup Writers, unsaved : BOOLEAN]
BY PromiseIsMutual DEF PlacesInv, PlaceTypes, Other, Scribes

LEMMA PlacesTruncated == ASSUME PlacesInv, NEW s \in Scribes, Truncates(s) PROVE PlacesInv'
<1>1. places[s] # Unheld /\ places[s].step = "begun" /\ UNCHANGED appUp
  BY WriterSteps DEF Truncates
<1> DEFINE new == [places[s] EXCEPT !.step = "opened", !.to = "sheet"]
<1>2. new \in Writers /\ new.step = "opened" /\ new.to = "sheet" /\ new.at = places[s].at
  BY <1>1, PlacesBefore DEF Writers
<1>3. PlacesBecome(s, new, places[Other(s)], Torn, places.placed, TRUE, places.unsaved)
  <2>1. places' = [places EXCEPT ![s] = new, !.sheet = Torn, !.there = TRUE]
    BY <1>1, PlacesBefore DEF Truncates, Writers, Scribes
  <2> HIDE DEF new
  <2>2. CASE s = "timed"
    BY <2>1, <2>2, <1>1, PlacesBefore DEF Other, PlacesBecome
  <2>3. CASE s = "closing"
    BY <2>1, <2>3, <1>1, PlacesBefore DEF Other, PlacesBecome
  <2> QED
    BY <2>2, <2>3 DEF Scribes
<1> HIDE DEF new
<1>4. Promised(new, places[Other(s)], Torn, TRUE, places.placed, places.where)
  BY <1>2, PromiseOpened
<1>5. Torn \in PlaceFiles /\ TRUE \in BOOLEAN
  BY WriterSteps
<1>6. /\ appUp # "down" /\ places[Other(s)] \in {Unheld} \cup Writers
      /\ places.there \in BOOLEAN /\ places.unsaved \in BOOLEAN /\ places.sheet \in PlaceFiles /\ places.placed \in PlaceFiles
      /\ ~places.timer => /\ new # Unheld => new.at = places.where
                          /\ places[Other(s)] # Unheld => places[Other(s)].at = places.where
  BY <1>1, <1>2, PlacesBefore
<1> QED
  BY <1>1, <1>2, <1>3, <1>4, <1>5, <1>6, PlacesEdited

LEMMA PlacesFilled == ASSUME PlacesInv, NEW s \in Scribes, Fills(s) PROVE PlacesInv'
<1>1. places[s] # Unheld /\ places[s].step = "opened" /\ UNCHANGED appUp
  BY WriterSteps DEF Fills
<1> DEFINE new == [places[s] EXCEPT !.step = "filled"]
           sheet == IF places[s].to = "sheet" THEN Whole(places[s].at) ELSE places.sheet
           placed == IF places[s].to = "placed" THEN Whole(places[s].at) ELSE places.placed
<1>2. new \in Writers /\ new.step = "filled" /\ new.at = places[s].at
  BY <1>1, PlacesBefore DEF Writers
<1>3. PlacesBecome(s, new, places[Other(s)], sheet, placed, places.there, places.unsaved)
  <2>1. places' = [places EXCEPT ![s] = new, !.sheet = sheet, !.placed = placed]
    <3>1. CASE s = "timed"
      <4>1. places' = [places EXCEPT !["timed"].step = "filled", !.sheet = sheet, !.placed = placed]
        BY <3>1 DEF Fills
      <4>2. places.timed \in Writers
        BY <3>1, <1>1, PlacesBefore
      <4> QED
        <5> HIDE DEF sheet, placed
        <5> QED
          BY <4>1, <4>2, <3>1, <1>1, PlacesBefore DEF Writers
    <3>2. CASE s = "closing"
      <4>1. places' = [places EXCEPT !["closing"].step = "filled", !.sheet = sheet, !.placed = placed]
        BY <3>2 DEF Fills
      <4>2. places.closing \in Writers
        BY <3>2, <1>1, PlacesBefore
      <4> QED
        <5> HIDE DEF sheet, placed
        <5> QED
          BY <4>1, <4>2, <3>2, <1>1, PlacesBefore DEF Writers
    <3> QED
      BY <3>1, <3>2 DEF Scribes
  <2> HIDE DEF new, sheet, placed
  <2>2. CASE s = "timed"
    BY <2>1, <2>2, <1>1, PlacesBefore DEF Other, PlacesBecome
  <2>3. CASE s = "closing"
    BY <2>1, <2>3, <1>1, PlacesBefore DEF Other, PlacesBecome
  <2> QED
    BY <2>2, <2>3 DEF Scribes
<1>4. sheet \in PlaceFiles /\ placed \in PlaceFiles
  BY <1>1, PlacesBefore, WriterSteps DEF Writers
<1>5. ~places.timer /\ ~places.unsaved /\ appUp = "up" =>
          Promised(new, places[Other(s)], sheet, places.there, placed, places.where)
  <2> HIDE DEF new
  <2> QED
    BY <1>1, <1>2, PlacesBefore, PromiseFilled
<1> HIDE DEF new, sheet, placed
<1>6. /\ appUp # "down" /\ places[Other(s)] \in {Unheld} \cup Writers
      /\ places.there \in BOOLEAN /\ places.unsaved \in BOOLEAN
      /\ ~places.timer => /\ new # Unheld => new.at = places.where
                          /\ places[Other(s)] # Unheld => places[Other(s)].at = places.where
  BY <1>1, <1>2, PlacesBefore
<1> QED
  BY <1>1, <1>2, <1>3, <1>4, <1>5, <1>6, PlacesEdited

LEMMA PlacesRenamed == ASSUME PlacesInv, NEW s \in Scribes, Renames(s) PROVE PlacesInv'
<1>1. places[s] # Unheld /\ places[s].step = "filled" /\ UNCHANGED appUp
  BY WriterSteps DEF Renames
<1>2. (CHOOSE o \in Scribes : o # s) = Other(s)
  BY DEF Scribes, Other
<1>3. Absent \in PlaceFiles /\ FALSE \in BOOLEAN
  BY WriterSteps
<1>4. CASE places.there
  <2> DEFINE two == Rides(places[Other(s)])
  <2>1. two \in {Unheld} \cup Writers /\ (two # Unheld => places[Other(s)] # Unheld /\ two.at = places[Other(s)].at)
    BY <1>1, PlacesBefore, RidesTypes
  <2>2. PlacesBecome(s, Unheld, two, Absent, places.sheet, FALSE, places.unsaved)
    <3>1. places' = [places EXCEPT ![s] = Unheld, ![Other(s)] = two, !.placed = places.sheet,
                                   !.sheet = Absent, !.there = FALSE]
      BY <1>1, <1>2, <1>4, PlacesBefore DEF Renames, Other, Scribes
    <3> HIDE DEF two
    <3>2. CASE s = "timed"
      BY <3>1, <3>2, <1>1, PlacesBefore DEF Other, PlacesBecome
    <3>3. CASE s = "closing"
      BY <3>1, <3>3, <1>1, PlacesBefore DEF Other, PlacesBecome
    <3> QED
      BY <3>2, <3>3 DEF Scribes
  <2>3. ~places.timer /\ ~places.unsaved /\ appUp = "up" =>
            Promised(Unheld, two, Absent, FALSE, places.sheet, places.where)
    BY <1>1, <1>4, PlacesBefore, PromiseRenamed
  <2>4. /\ appUp # "down" /\ places.unsaved \in BOOLEAN /\ places.sheet \in PlaceFiles
        /\ ~places.timer => (two # Unheld => two.at = places.where)
    BY <1>1, <2>1, PlacesBefore
  <2> HIDE DEF two
  <2> QED
    BY <1>1, <1>3, <2>1, <2>2, <2>3, <2>4, PlacesEdited
<1>5. CASE ~places.there
  <2>1. PlacesBecome(s, Unheld, places[Other(s)], places.sheet, places.placed, FALSE, places.unsaved)
    BY <1>1, <1>5, PlacesBefore DEF Renames, Other, PlacesBecome, Scribes
  <2>2. ~places.timer /\ ~places.unsaved /\ appUp = "up" =>
            Promised(Unheld, places[Other(s)], places.sheet, FALSE, places.placed, places.where)
    BY <1>1, <1>5, PlacesBefore, PromiseOvertaken
  <2>3. /\ appUp # "down" /\ places[Other(s)] \in {Unheld} \cup Writers
        /\ places.unsaved \in BOOLEAN /\ places.sheet \in PlaceFiles /\ places.placed \in PlaceFiles
        /\ ~places.timer => (places[Other(s)] # Unheld => places[Other(s)].at = places.where)
    BY <1>1, PlacesBefore
  <2> QED
    BY <1>1, <1>3, <2>1, <2>2, <2>3, PlacesEdited
<1> QED
  BY <1>4, <1>5

LEMMA PlacesFailed == ASSUME PlacesInv, NEW s \in Scribes, PlacementFails(s) PROVE PlacesInv'
<1>1. places[s] # Unheld /\ UNCHANGED appUp
  BY WriterSteps DEF PlacementFails
<1>2. TRUE \in BOOLEAN
  OBVIOUS
<1>3. PlacesBecome(s, Unheld, places[Other(s)], places.sheet, places.placed, places.there, TRUE)
  BY <1>1, PlacesBefore DEF PlacementFails, Other, PlacesBecome, Scribes
<1>4. /\ appUp # "down" /\ places[Other(s)] \in {Unheld} \cup Writers
      /\ places.there \in BOOLEAN /\ places.sheet \in PlaceFiles /\ places.placed \in PlaceFiles
      /\ ~places.timer => (places[Other(s)] # Unheld => places[Other(s)].at = places.where)
  BY <1>1, PlacesBefore
<1> QED
  BY <1>1, <1>2, <1>3, <1>4, PlacesEdited

\* The app ends and starts: it puts the windows where the file says.
LEMMA PlacesRestarted == ASSUME PlacesInv, Killed \/ AppStarts PROVE PlacesInv'
<1>t. PlaceTypes
  BY DEF PlacesInv
<1>1. CASE Killed
  <2>1. places' = [places EXCEPT !.timed = Unheld, !.closing = Unheld, !.timer = FALSE] /\ appUp' = "down"
    BY <1>1 DEF Killed
  <2>2. PlaceTypes' /\ places'.timed = Unheld /\ places'.closing = Unheld /\ places'.timer = FALSE
    BY <2>1, <1>t DEF PlaceTypes
  <2> QED
    BY <2>1, <2>2 DEF PlacesInv
<1>2. CASE AppStarts
  <2> DEFINE at == IF places.placed.torn THEN 0 ELSE places.placed.at
             torn == places.placed.torn
  <2>1. places' = [places EXCEPT !.where = at, !.unsaved = torn]
        /\ places.timed = Unheld /\ places.closing = Unheld /\ ~places.timer
    BY <1>2 DEF AppStarts, PlacesInv
  <2>2. at \in Nat /\ torn \in BOOLEAN /\ (~torn => places.placed = Whole(at))
    BY <1>t DEF PlaceTypes, PlaceFiles, Whole
  <2> HIDE DEF at, torn
  <2>3. /\ PlaceTypes' /\ places'.timed = Unheld /\ places'.closing = Unheld /\ places'.timer = places.timer
        /\ places'.placed = places.placed /\ places'.where = at /\ places'.unsaved = torn
    BY <2>1, <2>2, <1>t DEF PlaceTypes
  <2>4. ~torn => Promised(Unheld, Unheld, places'.sheet, places'.there, places.placed, at)
    BY <2>2, WriterSteps DEF Promised, Under
  <2> QED
    BY <2>1, <2>3, <2>4 DEF PlacesInv
<1> QED
  BY <1>1, <1>2

LEMMA PlacesStep == ASSUME PlacesInv, [KeptStateNext]_keptVars PROVE PlacesInv'
<1>1. CASE UNCHANGED <<places, appUp>>
  BY <1>1 DEF PlacesInv, PlaceTypes
<1>2. CASE KeptStateNext /\ ~UNCHANGED <<places, appUp>>
  <2>1. \/ Moves \/ TimerFires \/ WindowCloses \/ Killed \/ AppStarts
        \/ \E s \in Scribes : Truncates(s) \/ Fills(s) \/ Renames(s) \/ PlacementFails(s)
    BY <1>2 DEF KeptStateNext, PreferencesNext, PlacementsNext, PressSave, PressForget, PressDefault, PressRename,
                PageAsks, OpensPage, Leaves, Serves, Written, Renamed, SaveFails, Remembered, HomeReads, HomeAsks, Asks
  <2> QED
    BY <2>1, PlacesBegin, PlacesTruncated, PlacesFilled, PlacesRenamed, PlacesFailed, PlacesRestarted
<1> QED
  BY <1>1, <1>2 DEF keptVars

LEMMA PlacesAreWhereTheyAre == PlacesInv => PlacementsSettle
BY WriterSteps DEF PlacesInv, PlacementsSettle, Promised, Under, WritesTo

\* Whatever moment the app is killed at, and in whatever order its two writers take
\* their steps, it starts from sound preferences and finds its windows where they were.
THEOREM KeptStateHoldsAlways == KeptStateSpec => []KeptStateHolds
<1>1. KeptStateInit => KeptInv /\ PlacesInv
  BY KeptStart, PlacesStart
<1>2. KeptInv /\ PlacesInv /\ [KeptStateNext]_keptVars => KeptInv' /\ PlacesInv'
  BY KeptStep, PlacesStep
<1>3. KeptInv /\ PlacesInv => KeptStateHolds
  BY KeptSurvives, PlacesAreWhereTheyAre DEF KeptStateHolds
<1> QED
  BY <1>1, <1>2, <1>3, PTL DEF KeptStateSpec

------------------------
(* Desktop alerts.  Of each alert the page ever sent: whether it is asked about, *)
(* up as a toast, current, or let go follows from what is under way of it. *)
AlertRecords == [kind : Kinds, account : Accounts \cup {NoAccount}, native : BOOLEAN, asked : BOOLEAN,
                 closed : BOOLEAN, fallback : {"none", "up", "gone"}]
Deliveries == {"shown", "blocked", "fallback"}
ToastEvents == {"click", "gone", "failed"}
LineMessages(ids) ==
    {ShellCall(name, id) : name \in {"show", "close", "activate"}, id \in ids}
    \cup {PageTold(name, id) : name \in Deliveries \cup ToastEvents \cup {"activated"}, id \in ids}

AlertTypes ==
    /\ screen \in [focused : BOOLEAN, shows : BOOLEAN, native : BOOLEAN]
    /\ alertPage \in [account : Accounts \cup {NoAccount}, current : [Kinds -> Nat], recent : SUBSET Kinds]
    /\ alerts \in Seq(AlertRecords)
    /\ toasts \in [up : SUBSET DOMAIN alerts, recent : SUBSET Kinds]
    /\ line \subseteq LineMessages(DOMAIN alerts)

\* The page's own alerts are the account's, each of its kind.
CurrentFits(k) ==
    alertPage.current[k] # 0 =>
        /\ alertPage.current[k] \in DOMAIN alerts
        /\ alerts[alertPage.current[k]].kind = k
        /\ alerts[alertPage.current[k]].account = alertPage.account

Bids(name, id) == ShellCall(name, id) \in line
Says(name, id) == PageTold(name, id) \in line

\* One show, then one answer to it, is under way as long as the page waits.
ShowFits(id) ==
    /\ alerts[id].asked <=> Bids("show", id) \/ \E name \in Deliveries : Says(name, id)
    /\ Bids("show", id) => \A name \in Deliveries : ~Says(name, id)
    /\ \A one, other \in Deliveries : Says(one, id) /\ Says(other, id) => one = other

\* A close goes out once, after the answer, and takes a toast along.
ToastFits(id) ==
    /\ Bids("close", id) => alerts[id].closed /\ ~alerts[id].asked
    /\ id \in toasts.up =>
          /\ alerts[id].asked => Says("shown", id)
          /\ alerts[id].closed => alerts[id].asked \/ Bids("close", id)
    /\ ~alerts[id].closed =>
          \/ id \in toasts.up
          \/ \E name \in ToastEvents : Says(name, id)
          \/ alerts[id].asked /\ ~Says("shown", id)

HeldFits(id) ==
    ~alerts[id].closed \/ alerts[id].fallback = "up" => alertPage.current[alerts[id].kind] = id

AlertInv ==
    /\ AlertTypes
    /\ went.of = went.at
    /\ \A k \in Kinds : CurrentFits(k)
    /\ \A id \in DOMAIN alerts : ShowFits(id) /\ ToastFits(id) /\ HeldFits(id)

LEMMA MessagesDiffer ==
    /\ \A n, o, i, j : ShellCall(n, i) = ShellCall(o, j) <=> n = o /\ i = j
    /\ \A n, o, i, j : PageTold(n, i) = PageTold(o, j) <=> n = o /\ i = j
    /\ \A n, o, i, j : ShellCall(n, i) # PageTold(o, j)
BY DEF ShellCall, PageTold

\* What is on the line of one alert, and of no other.
LEMMA MessagesOf ==
    ASSUME NEW ids, NEW id \in ids
    PROVE  /\ \A name \in {"show", "close", "activate"} : ShellCall(name, id) \in LineMessages(ids)
           /\ \A name \in Deliveries \cup ToastEvents \cup {"activated"} : PageTold(name, id) \in LineMessages(ids)
           /\ LineMessages({id}) \subseteq LineMessages(ids)
           /\ \A j, name : j # id => /\ ShellCall(name, j) \notin LineMessages({id})
                                     /\ PageTold(name, j) \notin LineMessages({id})
BY MessagesDiffer DEF LineMessages

LEMMA MessageIs ==
    ASSUME AlertTypes, NEW m \in line, m.name \in Deliveries \cup ToastEvents
    PROVE  m.id \in DOMAIN alerts /\ m = PageTold(m.name, m.id)
BY DEF AlertTypes, ShellCall, Deliveries, ToastEvents, PageTold, LineMessages

LEMMA AlertIs ==
    ASSUME AlertTypes, NEW id \in DOMAIN alerts
    PROVE  /\ alerts[id] \in AlertRecords /\ id \in Nat /\ id # 0 /\ Len(alerts) \in Nat
           /\ DOMAIN alerts = 1..Len(alerts)
           /\ Retired(alerts[id]) \in AlertRecords
           /\ Retired(alerts[id]).kind = alerts[id].kind /\ Retired(alerts[id]).account = alerts[id].account
           /\ Retired(alerts[id]).closed = TRUE /\ Retired(alerts[id]).asked = alerts[id].asked
           /\ Retired(alerts[id]).fallback # "up"
<1>1. alerts[id] \in AlertRecords /\ id \in Nat /\ id # 0 /\ Len(alerts) \in Nat /\ DOMAIN alerts = 1..Len(alerts)
  BY LenProperties, ElementOfSeq DEF AlertTypes
<1>2. TRUE \in BOOLEAN
  OBVIOUS
<1> QED
  BY <1>1, <1>2 DEF Retired, AlertRecords

\* What is not touched stays in order.
LEMMA AlertStands ==
    ASSUME NEW id, ShowFits(id), ToastFits(id), HeldFits(id), alerts'[id] = alerts[id],
           alertPage.current[alerts[id].kind] = id => alertPage'.current[alerts[id].kind] = id,
           id \in toasts'.up <=> id \in toasts.up,
           \A name : ShellCall(name, id) \in line' <=> ShellCall(name, id) \in line,
           \A name : PageTold(name, id) \in line' <=> PageTold(name, id) \in line
    PROVE  ShowFits(id)' /\ ToastFits(id)' /\ HeldFits(id)'
BY DEF ShowFits, Bids, Says, ToastFits, HeldFits

\* What the page lets go of: Windows is told now, or once the show was answered.
LEMMA AlertLetGo ==
    ASSUME AlertTypes, NEW id \in DOMAIN alerts, ShowFits(id), ToastFits(id), HeldFits(id),
           alerts'[id] = Retired(alerts[id]),
           id \in toasts'.up <=> id \in toasts.up,
           ShellCall("show", id) \in line' <=> ShellCall("show", id) \in line,
           ShellCall("close", id) \in line'
               <=> ShellCall("close", id) \in line \/ (~alerts[id].closed /\ ~alerts[id].asked),
           \A name \in Deliveries : PageTold(name, id) \in line' <=> PageTold(name, id) \in line
    PROVE  ShowFits(id)' /\ ToastFits(id)' /\ HeldFits(id)'
BY AlertIs DEF ShowFits, Bids, Says, ToastFits, Deliveries, HeldFits

\* A step that is about one alert.
LEMMA AlertSteps ==
    ASSUME AlertInv, NEW id \in DOMAIN alerts, NEW new \in AlertRecords,
           new.kind = alerts[id].kind, new.account = alerts[id].account,
           alerts' = [alerts EXCEPT ![id] = new],
           NEW heard \in SUBSET LineMessages({id}), NEW sent \in SUBSET LineMessages({id}),
           line' = (line \ heard) \cup sent,
           screen' \in [focused : BOOLEAN, shows : BOOLEAN, native : BOOLEAN],
           toasts' \in [up : SUBSET DOMAIN alerts, recent : SUBSET Kinds],
           \A j \in DOMAIN alerts : j # id => (j \in toasts'.up <=> j \in toasts.up),
           alertPage' \in [account : Accounts \cup {NoAccount}, current : [Kinds -> Nat], recent : SUBSET Kinds],
           alertPage'.account = alertPage.account,
           \A k \in Kinds : \/ alertPage'.current[k] = alertPage.current[k]
                            \/ alertPage.current[k] = id /\ alertPage'.current[k] = 0,
           went'.of = went'.at,
           ShowFits(id)', ToastFits(id)', HeldFits(id)'
    PROVE  AlertInv'
<1>1. AlertTypes /\ alerts \in Seq(AlertRecords) /\ DOMAIN alerts = 1..Len(alerts) /\ Len(alerts) \in Nat
  BY AlertIs DEF AlertInv, AlertTypes
<1>2. /\ alerts' \in Seq(AlertRecords) /\ DOMAIN alerts' = DOMAIN alerts
      /\ alerts'[id] = new /\ \A j \in DOMAIN alerts : j # id => alerts'[j] = alerts[j]
  BY <1>1, ExceptSeq
<1>3. line' \subseteq LineMessages(DOMAIN alerts')
  BY <1>1, <1>2, MessagesOf DEF AlertTypes
<1>4. AlertTypes'
  BY <1>2, <1>3 DEF AlertTypes
<1>5. ASSUME NEW k \in Kinds PROVE CurrentFits(k)'
  BY <1>2 DEF AlertInv, CurrentFits
<1>6. ASSUME NEW j \in DOMAIN alerts', j # id PROVE ShowFits(j)' /\ ToastFits(j)' /\ HeldFits(j)'
  <2>1. j \in DOMAIN alerts /\ ShowFits(j) /\ ToastFits(j) /\ HeldFits(j) /\ alerts'[j] = alerts[j]
    BY <1>2, <1>6 DEF AlertInv
  <2>2. alerts[j].kind \in Kinds
    BY <2>1, <1>1, AlertIs DEF AlertRecords
  <2>3. alertPage.current[alerts[j].kind] = j => alertPage'.current[alerts[j].kind] = j
    BY <2>2, <1>6
  <2>4. \A name : ShellCall(name, j) \in line' <=> ShellCall(name, j) \in line
    BY <1>6, MessagesOf
  <2>5. \A name : PageTold(name, j) \in line' <=> PageTold(name, j) \in line
    BY <1>6, MessagesOf
  <2>6. j \in toasts'.up <=> j \in toasts.up
    BY <2>1, <1>6
  <2> QED
    BY <2>1, <2>3, <2>4, <2>5, <2>6, AlertStands
<1> QED
  BY <1>2, <1>4, <1>5, <1>6 DEF AlertInv

LEMMA OneRetired ==
    ASSUME NEW as \in Seq(AlertRecords), NEW id \in DOMAIN as
    PROVE  RetireAll(as, {id}) = [as EXCEPT ![id] = Retired(as[id])]
BY DEF RetireAll

\* The page without the alert.
LEMMA PageWithout ==
    ASSUME AlertTypes, NEW id \in DOMAIN alerts
    PROVE  LET page == Without(alertPage, alerts, id) IN
           /\ page \in [account : Accounts \cup {NoAccount}, current : [Kinds -> Nat], recent : SUBSET Kinds]
           /\ page.account = alertPage.account
           /\ \A k \in Kinds : \/ page.current[k] = alertPage.current[k]
                               \/ alertPage.current[k] = id /\ page.current[k] = 0
BY AlertIs DEF AlertTypes, AlertRecords, Without

LEMMA CloseCallIs ==
    ASSUME NEW a, NEW id
    PROVE  CloseCall(a, id) = IF ~a.closed /\ ~a.asked THEN {ShellCall("close", id)} ELSE {}
BY DEF CloseCall

\* The page lets go of one alert: by its own close, or by the click that it follows.
LEMMA AlertEnds ==
    ASSUME AlertInv, NEW id \in DOMAIN alerts,
           NEW heard \in SUBSET LineMessages({id}), NEW more \in SUBSET LineMessages({id}),
           \A name \in {"show", "close"} : ShellCall(name, id) \notin heard \cup more,
           \A name \in Deliveries : PageTold(name, id) \notin heard \cup more,
           alertPage' = Without(alertPage, alerts, id), alerts' = RetireAll(alerts, {id}),
           line' = ((line \ heard) \cup CloseCall(alerts[id], id)) \cup more,
           UNCHANGED <<screen, toasts, went>>
    PROVE  AlertInv'
<1> DEFINE sent == CloseCall(alerts[id], id) \cup more
<1>1. AlertTypes /\ alerts \in Seq(AlertRecords) /\ ShowFits(id) /\ ToastFits(id) /\ HeldFits(id)
  BY DEF AlertInv, AlertTypes
<1>2. sent \in SUBSET LineMessages({id})
  BY CloseCallIs, MessagesOf
<1>3. line' = (line \ heard) \cup sent
  OBVIOUS
<1>4. /\ alerts' = [alerts EXCEPT ![id] = Retired(alerts[id])]
      /\ alerts'[id] = Retired(alerts[id])
  BY <1>1, OneRetired
<1>5. /\ ShellCall("show", id) \in line' <=> ShellCall("show", id) \in line
      /\ ShellCall("close", id) \in line'
             <=> ShellCall("close", id) \in line \/ (~alerts[id].closed /\ ~alerts[id].asked)
      /\ \A name \in Deliveries : PageTold(name, id) \in line' <=> PageTold(name, id) \in line
  BY CloseCallIs, MessagesDiffer
<1>6. ShowFits(id)' /\ ToastFits(id)' /\ HeldFits(id)'
  BY <1>1, <1>4, <1>5, AlertLetGo
<1>7. /\ alertPage' \in [account : Accounts \cup {NoAccount}, current : [Kinds -> Nat], recent : SUBSET Kinds]
      /\ alertPage'.account = alertPage.account
      /\ \A k \in Kinds : \/ alertPage'.current[k] = alertPage.current[k]
                          \/ alertPage.current[k] = id /\ alertPage'.current[k] = 0
  BY <1>1, PageWithout
<1>8. /\ Retired(alerts[id]) \in AlertRecords
      /\ Retired(alerts[id]).kind = alerts[id].kind /\ Retired(alerts[id]).account = alerts[id].account
  BY <1>1, AlertIs
<1>9. /\ screen' \in [focused : BOOLEAN, shows : BOOLEAN, native : BOOLEAN]
      /\ toasts' \in [up : SUBSET DOMAIN alerts, recent : SUBSET Kinds]
      /\ \A j \in DOMAIN alerts : j # id => (j \in toasts'.up <=> j \in toasts.up)
      /\ went'.of = went'.at
  BY <1>1 DEF AlertInv, AlertTypes
<1> HIDE DEF sent
<1> QED
  BY <1>2, <1>3, <1>4, <1>6, <1>7, <1>8, <1>9, AlertSteps

\* An alert that is not let go of is the current one of the account.
LEMMA HeldIsCurrent ==
    ASSUME AlertInv, NEW id \in DOMAIN alerts, ~alerts[id].closed \/ alerts[id].fallback = "up"
    PROVE  Current(alertPage, alerts, id)
<1>1. alertPage.current[alerts[id].kind] = id /\ id # 0 /\ alerts[id].kind \in Kinds
  BY AlertIs DEF AlertInv, HeldFits, AlertRecords
<1> QED
  BY <1>1 DEF AlertInv, CurrentFits, Current

LEMMA AlertFollowed ==
    ASSUME AlertInv, NEW id \in DOMAIN alerts, NEW heard \in SUBSET LineMessages({id}),
           \A name \in {"show", "close"} : ShellCall(name, id) \notin heard,
           \A name \in Deliveries : PageTold(name, id) \notin heard,
           ~alerts[id].closed \/ alerts[id].fallback = "up",
           \/ Follow(id, line \ heard)
           \/ LetGo(id, line \ heard),
           UNCHANGED <<screen, toasts, went>>
    PROVE  AlertInv'
<1>1. PICK more \in {{ShellCall("activate", id)}, {}} :
          /\ alertPage' = Without(alertPage, alerts, id) /\ alerts' = RetireAll(alerts, {id})
          /\ line' = ((line \ heard) \cup CloseCall(alerts[id], id)) \cup more
  BY HeldIsCurrent DEF Follow, LetGo
<1>2. /\ more \in SUBSET LineMessages({id})
      /\ \A name \in {"show", "close"} : ShellCall(name, id) \notin heard \cup more
      /\ \A name \in Deliveries : PageTold(name, id) \notin heard \cup more
  BY MessagesOf, MessagesDiffer
<1> QED
  BY <1>1, <1>2, AlertEnds

\* The answer to a show: what had been let go of is closed after it.
LEMMA AlertsDelivered ==
    ASSUME AlertInv, NEW m \in line, HearDelivery(m)
    PROVE  AlertInv'
<1>m. PICK id : id = m.id
  OBVIOUS
<1>1. id \in DOMAIN alerts /\ m = PageTold(m.name, id) /\ m.name \in Deliveries
  BY <1>m, MessageIs DEF HearDelivery, Deliveries, AlertInv
<1>2. /\ AlertTypes /\ alerts \in Seq(AlertRecords) /\ ShowFits(id) /\ ToastFits(id) /\ HeldFits(id)
      /\ alerts[id] \in AlertRecords /\ TRUE \in BOOLEAN /\ FALSE \in BOOLEAN
  BY <1>1, AlertIs DEF AlertInv, AlertTypes
<1>3. Says(m.name, id) /\ alerts[id].asked /\ ~Bids("show", id)
  BY <1>1, <1>2 DEF Says, ShowFits
<1>4. /\ {m} \in SUBSET LineMessages({id}) /\ {ShellCall("close", id)} \in SUBSET LineMessages({id})
      /\ {} \in SUBSET LineMessages({id})
  BY <1>1, MessagesOf
<1>5. /\ UNCHANGED <<screen, toasts, went>>
      /\ screen' \in [focused : BOOLEAN, shows : BOOLEAN, native : BOOLEAN]
      /\ toasts' \in [up : SUBSET DOMAIN alerts, recent : SUBSET Kinds]
      /\ \A j \in DOMAIN alerts : j # id => (j \in toasts'.up <=> j \in toasts.up)
      /\ went'.of = went'.at
  BY <1>2 DEF HearDelivery, AlertInv, AlertTypes
\* Whatever the answer, nothing is asked any more; a close goes out for what is let go.
<1>6. ASSUME NEW new \in AlertRecords, new.kind = alerts[id].kind, new.account = alerts[id].account,
             ~new.asked, alerts' = [alerts EXCEPT ![id] = new],
             NEW sent \in {{ShellCall("close", id)}, {}}, line' = (line \ {m}) \cup sent,
             alerts[id].closed => new.closed, new.closed <=> sent # {},
             ~new.closed => m.name = "shown",
             new.fallback = "up" => (alerts[id].fallback = "up" \/ ~alerts[id].closed) /\ alertPage' = alertPage,
             ~new.closed => alertPage' = alertPage,
             alertPage' = alertPage \/ alertPage' = Without(alertPage, alerts, id)
      PROVE  AlertInv'
  <2>1. alerts'[id] = new
    BY <1>1, <1>2, <1>6
  <2>2. /\ ~Bids("show", id)' /\ \A name \in Deliveries : ~Says(name, id)'
        /\ Bids("close", id)' <=> sent # {} \/ Bids("close", id)
        /\ \A name \in ToastEvents : Says(name, id)' <=> Says(name, id)
    BY <1>3, <1>6, MessagesDiffer, <1>1, <1>2 DEF Bids, ShowFits, Says, ToastEvents, Deliveries
  <2>3. ShowFits(id)'
    BY <2>1, <2>2, <1>6 DEF ShowFits
  <2>4. ToastFits(id)'
    BY <2>2, <1>6, <1>2, <1>3, <2>1, <1>5 DEF ToastFits
  <2>5. HeldFits(id)'
    BY <2>1, <1>2, <1>6 DEF HeldFits
  <2>6. /\ alertPage' \in [account : Accounts \cup {NoAccount}, current : [Kinds -> Nat], recent : SUBSET Kinds]
        /\ alertPage'.account = alertPage.account
        /\ \A k \in Kinds : \/ alertPage'.current[k] = alertPage.current[k]
                            \/ alertPage.current[k] = id /\ alertPage'.current[k] = 0
    BY <1>1, <1>2, <1>6, PageWithout DEF AlertTypes
  <2>7. sent \in SUBSET LineMessages({id})
    BY <1>4, <1>6
  <2> QED
    BY <1>1, <1>4, <1>5, <1>6, <2>3, <2>4, <2>5, <2>6, <2>7, AlertSteps
<1> DEFINE answered == [alerts[id] EXCEPT !.asked = FALSE]
           fallen(f) == [alerts[id] EXCEPT !.asked = FALSE, !.closed = TRUE, !.fallback = f]
           gone == Retired(answered)
<1>7. /\ answered \in AlertRecords /\ answered.kind = alerts[id].kind /\ answered.account = alerts[id].account
      /\ ~answered.asked /\ answered.closed = alerts[id].closed /\ answered.fallback = alerts[id].fallback
  BY <1>2 DEF AlertRecords
<1>8. CASE alerts[id].closed
  <2>1. alerts' = [alerts EXCEPT ![id] = answered]
    BY <1>8, <1>m, <1>2 DEF HearDelivery
  <2>2. line' = (line \ {m}) \cup {ShellCall("close", id)} /\ alertPage' = alertPage
    BY <1>8, <1>m DEF HearDelivery, LateClose
  <2> HIDE DEF answered
  <2> QED
    BY <2>1, <2>2, <1>6, <1>7, <1>8, <1>2 DEF HeldFits
<1>9. CASE ~alerts[id].closed /\ m.name = "shown"
  <2>1. /\ alerts' = [alerts EXCEPT ![id] = answered] /\ line' = (line \ {m}) \cup {} /\ alertPage' = alertPage
    BY <1>9, <1>m, <1>2 DEF HearDelivery
  <2> HIDE DEF answered
  <2> QED
    BY <2>1, <1>6, <1>7, <1>9, <1>2 DEF HeldFits
<1>10. CASE ~alerts[id].closed /\ m.name = "fallback"
  <2>1. PICK f \in {"gone", "up"} : alerts' = [alerts EXCEPT ![id].asked = FALSE, ![id].closed = TRUE, ![id].fallback = f]
    BY <1>10, <1>m DEF HearDelivery, FallsBack
  <2> DEFINE new == fallen(f)
  <2>2. alerts' = [alerts EXCEPT ![id] = new]
    BY <2>1, <1>1, <1>2
  <2>3. line' = (line \ {m}) \cup {ShellCall("close", id)} /\ alertPage' = alertPage
    BY <1>10, <1>m DEF HearDelivery
  <2>4. /\ new \in AlertRecords /\ new.kind = alerts[id].kind /\ new.account = alerts[id].account
        /\ ~new.asked /\ new.closed
    BY <1>2 DEF AlertRecords
  <2> HIDE DEF new
  <2> QED
    BY <2>2, <2>3, <2>4, <1>6, <1>10
<1>11. CASE ~alerts[id].closed /\ m.name = "blocked"
  <2> DEFINE all == [alerts EXCEPT ![id] = answered]
  <2>1. all \in Seq(AlertRecords) /\ id \in DOMAIN all /\ all[id] = answered
    BY <1>1, <1>2, <1>7, ExceptSeq
  <2>2. alerts' = RetireAll(all, {id})
    BY <1>1, <1>2, <1>11, <1>m DEF HearDelivery
  <2>3. alerts' = [all EXCEPT ![id] = gone]
    BY <2>1, <2>2, OneRetired
  <2>4. alerts' = [alerts EXCEPT ![id] = gone]
    BY <2>3, <1>1, <1>2
  <2>5. line' = (line \ {m}) \cup {ShellCall("close", id)} /\ alertPage' = Without(alertPage, alerts, id)
    BY <1>11, <1>m DEF HearDelivery
  <2>6. /\ gone \in AlertRecords /\ gone.kind = alerts[id].kind /\ gone.account = alerts[id].account
        /\ ~gone.asked /\ gone.closed /\ gone.fallback # "up"
    BY <1>2, <1>7 DEF AlertRecords, Retired
  <2> HIDE DEF gone
  <2> QED
    BY <2>4, <2>5, <2>6, <1>6, <1>11
<1> QED
  BY <1>1, <1>8, <1>9, <1>10, <1>11 DEF Deliveries

\* An event of a toast: of what the page still holds, it is the end.
LEMMA AlertsHeard ==
    ASSUME AlertInv, NEW m \in line, HearToast(m)
    PROVE  AlertInv'
<1>m. PICK id : id = m.id
  OBVIOUS
<1>1. id \in DOMAIN alerts /\ m = PageTold(m.name, id) /\ m.name \in ToastEvents
  BY <1>m, MessageIs DEF HearToast, ToastEvents, AlertInv
<1>2. /\ AlertTypes /\ alerts \in Seq(AlertRecords) /\ ShowFits(id) /\ ToastFits(id) /\ HeldFits(id)
      /\ alerts[id] \in AlertRecords /\ TRUE \in BOOLEAN /\ FALSE \in BOOLEAN
  BY <1>1, AlertIs DEF AlertInv, AlertTypes
<1>3. {m} \in SUBSET LineMessages({id}) /\ {} \in SUBSET LineMessages({id})
  BY <1>1, MessagesOf
<1>4. /\ UNCHANGED <<screen, toasts, went>>
      /\ screen' \in [focused : BOOLEAN, shows : BOOLEAN, native : BOOLEAN]
      /\ toasts' \in [up : SUBSET DOMAIN alerts, recent : SUBSET Kinds]
      /\ \A j \in DOMAIN alerts : j # id => (j \in toasts'.up <=> j \in toasts.up)
      /\ went'.of = went'.at
  BY <1>2 DEF HearToast, AlertInv, AlertTypes
<1>5. /\ \A name \in {"show", "close"} : ShellCall(name, id) \notin {m}
      /\ \A name \in Deliveries : PageTold(name, id) \notin {m}
  BY <1>1, MessagesDiffer DEF ToastEvents, Deliveries
<1>6. CASE ~alerts[id].closed /\ m.name \in {"click", "gone"}
  BY <1>6, <1>m, <1>1, <1>3, <1>4, <1>5, AlertFollowed DEF HearToast
<1>7. CASE alerts[id].closed \/ m.name = "failed"
  <2>1. PICK f \in {"up", "gone"}, sent \in SUBSET LineMessages({id}) :
            /\ alerts' = IF alerts[id].closed THEN alerts
                         ELSE [alerts EXCEPT ![id].closed = TRUE, ![id].fallback = f]
            /\ sent = IF alerts[id].closed \/ alerts[id].asked THEN {} ELSE {ShellCall("close", id)}
            /\ line' = (line \ {m}) \cup sent
    <3>1. CASE alerts[id].closed
      BY <3>1, <1>m, <1>3 DEF HearToast
    <3>2. CASE ~alerts[id].closed
      <4>1. CloseCall(alerts[id], id) \in SUBSET LineMessages({id})
        BY MessagesOf, CloseCallIs
      <4> QED
        BY <4>1, <3>2, <1>7, <1>m DEF HearToast, CloseCall
    <3> QED
      BY <3>1, <3>2
  <2> DEFINE new == IF alerts[id].closed THEN alerts[id] ELSE [alerts[id] EXCEPT !.closed = TRUE, !.fallback = f]
  <2>2. /\ new \in AlertRecords /\ new.kind = alerts[id].kind /\ new.account = alerts[id].account
        /\ new.closed /\ new.asked = alerts[id].asked
        /\ alerts[id].closed => new = alerts[id]
    BY <1>2 DEF AlertRecords
  <2>3. alerts' = [alerts EXCEPT ![id] = new]
    <3>1. CASE alerts[id].closed
      BY <2>1, <2>2, <3>1, <1>1, <1>2
    <3>2. CASE ~alerts[id].closed
      <4>1. new = [alerts[id] EXCEPT !.closed = TRUE, !.fallback = f]
        BY <3>2
      <4>2. alerts' = [alerts EXCEPT ![id].closed = TRUE, ![id].fallback = f]
        BY <2>1, <3>2
      <4> HIDE DEF new
      <4> QED
        BY <4>1, <4>2, <1>1, <1>2
    <3> QED
      BY <3>1, <3>2
  <2>4. alertPage' = alertPage
    BY <1>7, <1>m DEF HearToast
  <2> HIDE DEF new
  <2>5. alerts'[id] = new
    BY <2>3, <1>1, <1>2
  <2>6. /\ ShellCall("show", id) \in line' <=> ShellCall("show", id) \in line
        /\ ShellCall("close", id) \in line'
               <=> ShellCall("close", id) \in line \/ (~alerts[id].closed /\ ~alerts[id].asked)
        /\ \A name \in Deliveries : PageTold(name, id) \in line' <=> PageTold(name, id) \in line
    BY <2>1, <1>1, <1>5, MessagesDiffer
  <2>7. ShowFits(id)'
    BY <2>2, <2>5, <2>6, <1>2 DEF ShowFits, Bids, Says
  <2>8. ToastFits(id)'
    BY <2>2, <2>5, <2>6, <1>2, <1>4 DEF ToastFits, Bids, Says, Deliveries
  <2>9. HeldFits(id)'
    BY <2>2, <2>4, <2>5, <1>2 DEF HeldFits
  <2> QED
    BY <1>1, <1>2, <1>3, <1>4, <2>1, <2>2, <2>3, <2>4, <2>7, <2>8, <2>9, AlertSteps DEF AlertTypes
<1> QED
  BY <1>1, <1>6, <1>7 DEF ToastEvents

\* What Windows does with one alert: the page's own records stay.
LEMMA AlertsServed ==
    ASSUME AlertInv, NEW id \in DOMAIN alerts,
           \/ ServeShow(id) \/ ServeClose(id) \/ ServeActivate(id) \/ Arrive(id)
           \/ \E name \in {"click", "gone", "failed"} : ToastEvent(id, name)
    PROVE  AlertInv'
<1>1. /\ AlertTypes /\ alerts \in Seq(AlertRecords) /\ ShowFits(id) /\ ToastFits(id) /\ HeldFits(id)
      /\ alerts[id] \in AlertRecords /\ TRUE \in BOOLEAN /\ went.of = went.at
      /\ alerts = [alerts EXCEPT ![id] = alerts[id]]
  BY AlertIs DEF AlertInv, AlertTypes
<1>2. UNCHANGED <<alerts, alertPage>>
  BY DEF ServeShow, ServeClose, ServeActivate, Arrive, ToastEvent
<1>3. ASSUME NEW heard \in SUBSET LineMessages({id}), NEW sent \in SUBSET LineMessages({id}),
             line' = (line \ heard) \cup sent,
             screen' \in [focused : BOOLEAN, shows : BOOLEAN, native : BOOLEAN],
             toasts' \in [up : SUBSET DOMAIN alerts, recent : SUBSET Kinds],
             \A j \in DOMAIN alerts : j # id => (j \in toasts'.up <=> j \in toasts.up),
             went'.of = went'.at,
             ShowFits(id)', ToastFits(id)'
      PROVE  AlertInv'
  BY <1>1, <1>2, <1>3, AlertSteps DEF HeldFits, AlertTypes
<1>4. CASE ServeShow(id)
  <2>1. PICK name \in Deliveries :
            /\ line' = (line \ {ShellCall("show", id)}) \cup {PageTold(name, id)}
            /\ \E recent \in SUBSET Kinds :
                  toasts' = [up |-> IF name = "shown" THEN toasts.up \cup {id} ELSE toasts.up, recent |-> recent]
    <3>1. toasts \in [up : SUBSET DOMAIN alerts, recent : SUBSET Kinds] /\ alerts[id].kind \in Kinds
      BY <1>1 DEF AlertTypes, AlertRecords
    <3>2. toasts = [up |-> toasts.up, recent |-> toasts.recent]
          /\ [toasts EXCEPT !.recent = @ \cup {alerts[id].kind}]
                = [up |-> toasts.up, recent |-> toasts.recent \cup {alerts[id].kind}]
          /\ toasts.recent \in SUBSET Kinds /\ toasts.recent \cup {alerts[id].kind} \in SUBSET Kinds
      BY <3>1
    <3>3. PICK name \in Deliveries :
              /\ line' = (line \ {ShellCall("show", id)}) \cup {PageTold(name, id)}
              /\ \/ toasts' = toasts /\ name # "shown"
                 \/ toasts' = [toasts EXCEPT !.recent = @ \cup {alerts[id].kind}] /\ name # "shown"
                 \/ /\ toasts' = [up |-> toasts.up \cup {id}, recent |-> toasts.recent \cup {alerts[id].kind}]
                    /\ name = "shown"
      BY <1>4 DEF ServeShow, Deliveries
    <3>4. CASE toasts' = toasts /\ name # "shown"
      BY <3>2, <3>3, <3>4
    <3>5. CASE toasts' = [toasts EXCEPT !.recent = @ \cup {alerts[id].kind}] /\ name # "shown"
      BY <3>2, <3>3, <3>5
    <3>6. CASE toasts' = [up |-> toasts.up \cup {id}, recent |-> toasts.recent \cup {alerts[id].kind}] /\ name = "shown"
      BY <3>2, <3>3, <3>6
    <3> QED
      BY <3>3, <3>4, <3>5, <3>6
  <2>2. /\ toasts'.up = IF name = "shown" THEN toasts.up \cup {id} ELSE toasts.up
        /\ toasts' \in [up : SUBSET DOMAIN alerts, recent : SUBSET Kinds]
    BY <1>1, <2>1 DEF AlertTypes
  <2>3. Bids("show", id) /\ alerts[id].asked /\ \A other \in Deliveries : ~Says(other, id)
    BY <1>4, <1>1 DEF ServeShow, ShowFits, Bids
  <2>4. id \notin toasts.up
    BY <2>3, <1>1 DEF ToastFits, Deliveries
  <2>5. /\ ~Bids("show", id)'
        /\ Bids("close", id)' <=> Bids("close", id)
        /\ \A other \in Deliveries : PageTold(other, id) \in line' <=> other = name
        /\ \A event \in ToastEvents : PageTold(event, id) \in line' <=> PageTold(event, id) \in line
    BY <2>1, <2>3, MessagesDiffer DEF Bids, Says, Deliveries, ToastEvents
  <2>6. ShowFits(id)'
    BY <2>1, <2>3, <2>5, <1>2 DEF ShowFits, Says
  <2>7. ToastFits(id)'
    BY <2>1, <2>2, <2>3, <2>4, <2>5, <1>1, <1>2 DEF ToastFits, Says, Deliveries
  <2>8. {ShellCall("show", id)} \in SUBSET LineMessages({id}) /\ {PageTold(name, id)} \in SUBSET LineMessages({id})
    BY MessagesOf
  <2>9. screen' = screen /\ went' = went
    BY <1>4 DEF ServeShow
  <2>10. \A j \in DOMAIN alerts : j # id => (j \in toasts'.up <=> j \in toasts.up)
    BY <2>2
  <2> QED
    BY <1>1, <1>3, <2>1, <2>2, <2>6, <2>7, <2>8, <2>9, <2>10 DEF AlertTypes
\* Whatever else: the shows and their answers stay as they are.
<1>5. ASSUME NEW heard \in SUBSET LineMessages({id}), NEW sent \in SUBSET LineMessages({id}),
             line' = (line \ heard) \cup sent,
             ShellCall("show", id) \notin heard \cup sent,
             \A name \in Deliveries : PageTold(name, id) \notin heard \cup sent
      PROVE  ShowFits(id)'
  BY <1>1, <1>2, <1>5 DEF ShowFits, Bids, Says
<1>6. CASE ServeClose(id)
  <2> DEFINE heard == {ShellCall("close", id)}
             sent == {}
  <2>1. /\ ShellCall("close", id) \in line /\ line' = (line \ heard) \cup sent
        /\ toasts' = [toasts EXCEPT !.up = @ \ {id}] /\ screen' = screen /\ went' = went
    BY <1>6 DEF ServeClose
  <2>2. heard \in SUBSET LineMessages({id}) /\ sent \in SUBSET LineMessages({id})
    BY MessagesOf
  <2>3. /\ ShellCall("show", id) \notin heard \cup sent
        /\ \A name \in Deliveries : PageTold(name, id) \notin heard \cup sent
    BY MessagesDiffer
  <2>4. toasts'.up = toasts.up \ {id} /\ toasts' \in [up : SUBSET DOMAIN alerts, recent : SUBSET Kinds]
    BY <2>1, <1>1 DEF AlertTypes
  <2>5. ShowFits(id)'
    BY <1>5, <2>1, <2>2, <2>3
  <2>6. alerts[id].closed /\ ~alerts[id].asked
    BY <2>1, <1>1 DEF ToastFits, Bids
  <2>7. ToastFits(id)'
    BY <2>4, <2>6, <1>2 DEF ToastFits
  <2>8. \A j \in DOMAIN alerts : j # id => (j \in toasts'.up <=> j \in toasts.up)
    BY <2>4
  <2> HIDE DEF heard, sent
  <2> QED
    BY <1>1, <1>3, <2>1, <2>2, <2>4, <2>5, <2>7, <2>8 DEF AlertTypes
<1>7. CASE \E name \in {"click", "gone", "failed"} : ToastEvent(id, name)
  <2>1. PICK name \in ToastEvents :
            /\ id \in toasts.up /\ toasts' = [toasts EXCEPT !.up = @ \ {id}]
            /\ line' = line \cup {PageTold(name, id)} /\ screen' = screen /\ went' = went
    BY <1>7 DEF ToastEvent, ToastEvents
  <2> DEFINE heard == {}
             sent == {PageTold(name, id)}
  <2>2. heard \in SUBSET LineMessages({id}) /\ sent \in SUBSET LineMessages({id}) /\ line' = (line \ heard) \cup sent
    BY <2>1, MessagesOf
  <2>3. /\ ShellCall("show", id) \notin heard \cup sent
        /\ \A other \in Deliveries : PageTold(other, id) \notin heard \cup sent
    BY MessagesDiffer DEF ToastEvents, Deliveries
  <2>4. toasts'.up = toasts.up \ {id} /\ toasts' \in [up : SUBSET DOMAIN alerts, recent : SUBSET Kinds]
    BY <2>1, <1>1 DEF AlertTypes
  <2>5. ShowFits(id)'
    BY <1>5, <2>2, <2>3
  <2>6. Says(name, id)' /\ (Bids("close", id)' <=> Bids("close", id))
    BY <2>1, MessagesDiffer DEF Says, Bids
  <2>7. ToastFits(id)'
    BY <2>4, <2>6, <1>1, <1>2 DEF ToastFits
  <2>8. \A j \in DOMAIN alerts : j # id => (j \in toasts'.up <=> j \in toasts.up)
    BY <2>4
  <2> HIDE DEF heard, sent
  <2> QED
    BY <1>1, <1>3, <2>1, <2>2, <2>4, <2>5, <2>7, <2>8 DEF AlertTypes
<1>8. CASE ServeActivate(id) \/ Arrive(id)
  <2>1. PICK heard \in {{ShellCall("activate", id)}, {PageTold("activated", id)}},
             sent \in {{PageTold("activated", id)}, {}} : line' = (line \ heard) \cup sent
    BY <1>8 DEF ServeActivate, Arrive
  <2>2. heard \in SUBSET LineMessages({id}) /\ sent \in SUBSET LineMessages({id})
    BY MessagesOf
  <2>3. /\ ShellCall("show", id) \notin heard \cup sent /\ ShellCall("close", id) \notin heard \cup sent
        /\ \A other \in Deliveries : PageTold(other, id) \notin heard \cup sent
        /\ \A event \in ToastEvents : PageTold(event, id) \notin heard \cup sent
    BY MessagesDiffer DEF ToastEvents, Deliveries
  <2>4. toasts' = toasts
    BY <1>8 DEF ServeActivate, Arrive
  <2>5. ShowFits(id)'
    BY <1>5, <2>1, <2>2, <2>3
  <2>6. ToastFits(id)'
    BY <1>1, <1>2, <2>1, <2>3, <2>4 DEF ToastFits, Bids, Says, Deliveries
  <2>7. went'.of = went'.at
    BY <1>8, <1>1 DEF ServeActivate, Arrive
  <2>8. screen' \in [focused : BOOLEAN, shows : BOOLEAN, native : BOOLEAN]
    BY <1>8, <1>1 DEF ServeActivate, Arrive, AlertTypes
  <2>9. /\ toasts' \in [up : SUBSET DOMAIN alerts, recent : SUBSET Kinds]
        /\ \A j \in DOMAIN alerts : j # id => (j \in toasts'.up <=> j \in toasts.up)
    BY <1>1, <2>4 DEF AlertTypes
  <2> QED
    BY <1>3, <2>1, <2>2, <2>5, <2>6, <2>7, <2>8, <2>9
<1> QED
  BY <1>4, <1>6, <1>7, <1>8

LEMMA FallbacksEnd ==
    ASSUME AlertInv, NEW id \in DOMAIN alerts, FallbackClicked(id) \/ FallbackClosed(id)
    PROVE  AlertInv'
<1> DEFINE heard == {}
<1>1. /\ heard \in SUBSET LineMessages({id}) /\ line \ heard = line
      /\ \A name \in {"show", "close"} : ShellCall(name, id) \notin heard
      /\ \A name \in Deliveries : PageTold(name, id) \notin heard
  OBVIOUS
<1>2. /\ alerts[id].fallback = "up" /\ (Follow(id, line) \/ LetGo(id, line))
      /\ UNCHANGED <<screen, toasts, went>>
  BY DEF FallbackClicked, FallbackClosed
<1>3. Follow(id, line \ heard) \/ LetGo(id, line \ heard)
  BY <1>1, <1>2
<1> HIDE DEF heard
<1> QED
  BY <1>1, <1>2, <1>3, AlertFollowed

LEMMA AlertsPass ==
    ASSUME AlertInv, \/ Glance \/ TurnsOff \/ \E k \in Kinds : Second(k)
    PROVE  AlertInv'
<1>1. /\ UNCHANGED <<alerts, line, went>> /\ toasts'.up = toasts.up
      /\ alertPage'.current = alertPage.current /\ alertPage'.account = alertPage.account
      /\ screen' \in [focused : BOOLEAN, shows : BOOLEAN, native : BOOLEAN]
      /\ toasts' \in [up : SUBSET DOMAIN alerts, recent : SUBSET Kinds]
      /\ alertPage' \in [account : Accounts \cup {NoAccount}, current : [Kinds -> Nat], recent : SUBSET Kinds]
  <2>1. CASE Glance
    BY <2>1 DEF Glance, AlertInv, AlertTypes
  <2>2. CASE TurnsOff
    BY <2>2 DEF TurnsOff, AlertInv, AlertTypes
  <2>3. CASE \E k \in Kinds : Second(k)
    BY <2>3 DEF Second, AlertInv, AlertTypes
  <2> QED
    BY <2>1, <2>2, <2>3
<1>2. AlertTypes'
  BY <1>1 DEF AlertInv, AlertTypes
<1>3. \A k \in Kinds : CurrentFits(k)'
  BY <1>1 DEF AlertInv, CurrentFits
<1>4. ASSUME NEW id \in DOMAIN alerts' PROVE ShowFits(id)' /\ ToastFits(id)' /\ HeldFits(id)'
  BY <1>1, AlertStands DEF AlertInv
<1> QED
  BY <1>1, <1>2, <1>3, <1>4 DEF AlertInv

\* What an account had, or the alert before one of the same kind, is let go of.
LEMMA ClosesAre ==
    ASSUME NEW as, NEW ids, NEW x
    PROVE  x \in ClosesOf(as, ids)
               <=> \E id \in ids : x = ShellCall("close", id) /\ ~as[id].closed /\ ~as[id].asked
BY DEF ClosesOf, CloseCall

\* Several alerts are let go of, the others are not current any more, or still are.
LEMMA AlertsRetired ==
    ASSUME AlertInv, NEW ids \in SUBSET DOMAIN alerts, NEW id \in DOMAIN alerts,
           alerts'[id] = RetireAll(alerts, ids)[id],
           id \in toasts'.up <=> id \in toasts.up,
           \A name : ShellCall(name, id) \in line' <=> ShellCall(name, id) \in line \cup ClosesOf(alerts, ids),
           \A name : PageTold(name, id) \in line' <=> PageTold(name, id) \in line,
           id \notin ids /\ alertPage.current[alerts[id].kind] = id => alertPage'.current[alerts[id].kind] = id
    PROVE  ShowFits(id)' /\ ToastFits(id)' /\ HeldFits(id)'
BY ClosesAre, MessagesDiffer, AlertLetGo, AlertStands DEF AlertInv, RetireAll

LEMMA RetiredAre ==
    ASSUME AlertTypes, NEW ids \in SUBSET DOMAIN alerts
    PROVE  /\ RetireAll(alerts, ids) \in Seq(AlertRecords)
           /\ DOMAIN RetireAll(alerts, ids) = DOMAIN alerts /\ Len(RetireAll(alerts, ids)) = Len(alerts)
           /\ \A id \in DOMAIN alerts : /\ RetireAll(alerts, ids)[id].kind = alerts[id].kind
                                        /\ RetireAll(alerts, ids)[id].account = alerts[id].account
           /\ ClosesOf(alerts, ids) \subseteq LineMessages(DOMAIN alerts)
<1>1. alerts \in Seq(AlertRecords) /\ DOMAIN alerts = 1..Len(alerts) /\ Len(alerts) \in Nat
  BY LenProperties DEF AlertTypes
<1>2. \A id \in DOMAIN alerts : /\ alerts[id] \in AlertRecords /\ Retired(alerts[id]) \in AlertRecords
                                /\ Retired(alerts[id]).kind = alerts[id].kind
                                /\ Retired(alerts[id]).account = alerts[id].account
  BY AlertIs
<1>3. RetireAll(alerts, ids) \in [1..Len(alerts) -> AlertRecords]
  BY <1>1, <1>2 DEF RetireAll
<1>4. RetireAll(alerts, ids) \in Seq(AlertRecords)
  BY <1>1, <1>3, SeqDef
<1>5. DOMAIN RetireAll(alerts, ids) = 1..Len(alerts) /\ Len(RetireAll(alerts, ids)) = Len(alerts)
  <2>1. DOMAIN RetireAll(alerts, ids) = 1..Len(RetireAll(alerts, ids)) /\ Len(RetireAll(alerts, ids)) \in Nat
    BY <1>4, LenProperties
  <2>2. DOMAIN RetireAll(alerts, ids) = 1..Len(alerts)
    BY <1>3
  <2>3. \A a, b \in Nat : 1..a = 1..b => a = b
    OBVIOUS
  <2> QED
    BY <2>1, <2>2, <2>3, <1>1
<1>6. \A id \in DOMAIN alerts : /\ RetireAll(alerts, ids)[id].kind = alerts[id].kind
                                /\ RetireAll(alerts, ids)[id].account = alerts[id].account
  BY <1>2 DEF RetireAll
<1>7. ClosesOf(alerts, ids) \subseteq LineMessages(DOMAIN alerts)
  <2> SUFFICES ASSUME NEW x \in ClosesOf(alerts, ids) PROVE x \in LineMessages(DOMAIN alerts)
    OBVIOUS
  <2>1. PICK id \in ids : x = ShellCall("close", id)
    BY ClosesAre
  <2>2. id \in DOMAIN alerts
    OBVIOUS
  <2> QED
    BY <2>1, <2>2, MessagesOf
<1> QED
  BY <1>1, <1>4, <1>5, <1>6, <1>7

LEMMA AccountsChange ==
    ASSUME AlertInv, NEW a \in Accounts \cup {NoAccount}, AccountChanges(a)
    PROVE  AlertInv'
<1>1. PICK ids : ids = {alertPage.current[k] : k \in Kinds} \ {0}
  OBVIOUS
<1>2. /\ AlertTypes /\ DOMAIN alerts = 1..Len(alerts)
      /\ \A k \in Kinds : CurrentFits(k) /\ alertPage.current[k] \in Nat
  BY LenProperties DEF AlertInv, AlertTypes
<1>3. ids \in SUBSET DOMAIN alerts
  BY <1>1, <1>2 DEF CurrentFits
<1>4. /\ alertPage' = NewPage(a) /\ alerts' = RetireAll(alerts, ids)
      /\ line' = line \cup ClosesOf(alerts, ids) /\ UNCHANGED <<screen, toasts, went>>
  BY <1>1 DEF AccountChanges
<1>5. AlertTypes'
  BY <1>4, <1>2, <1>3, RetiredAre DEF NewPage, NoAlerts, AlertTypes
<1>6. \A k \in Kinds : CurrentFits(k)'
  BY <1>4 DEF CurrentFits, NewPage, NoAlerts
<1>7. ASSUME NEW id \in DOMAIN alerts' PROVE ShowFits(id)' /\ ToastFits(id)' /\ HeldFits(id)'
  <2>1. id \in DOMAIN alerts
    BY <1>2, <1>3, <1>4, RetiredAre
  <2>2. alerts[id].kind \in Kinds /\ id # 0
    BY <2>1, <1>2, AlertIs DEF AlertRecords
  <2>3. id \notin ids => alertPage.current[alerts[id].kind] # id
    BY <2>2, <1>1
  <2>4. \A name : ShellCall(name, id) \in line' <=> ShellCall(name, id) \in line \cup ClosesOf(alerts, ids)
    BY <1>4
  <2>5. \A name : PageTold(name, id) \in line' <=> PageTold(name, id) \in line
    BY <1>4, ClosesAre, MessagesDiffer
  <2> QED
    BY <2>1, <2>3, <2>4, <2>5, <1>3, <1>4, AlertsRetired
<1> QED
  BY <1>4, <1>5, <1>6, <1>7 DEF AlertInv

LEMMA AlertsSent ==
    ASSUME AlertInv, NEW k \in Kinds, SendAlert(k)
    PROVE  AlertInv'
<1>1. PICK n, ids, new, sent :
          /\ n = Len(alerts) + 1 /\ ids = {alertPage.current[k]} \ {0} /\ new = Alert(k, screen.native)
          /\ sent = IF screen.native THEN {ShellCall("show", n)} ELSE {}
  OBVIOUS
<1>2. /\ AlertTypes /\ DOMAIN alerts = 1..Len(alerts) /\ Len(alerts) \in Nat
      /\ CurrentFits(k) /\ alertPage.current[k] \in Nat
  BY LenProperties DEF AlertInv, AlertTypes
<1>3. ids \in SUBSET DOMAIN alerts
  BY <1>1, <1>2 DEF CurrentFits
<1>4. /\ alertPage' = [alertPage EXCEPT !.current[k] = n, !.recent = @ \cup {k}]
      /\ alerts' = Append(RetireAll(alerts, ids), new)
      /\ line' = (line \cup ClosesOf(alerts, ids)) \cup sent /\ UNCHANGED <<screen, toasts, went>>
  BY <1>1 DEF SendAlert
<1>5. /\ new \in AlertRecords /\ new.kind = k /\ new.account = alertPage.account
      /\ new.asked = screen.native /\ new.closed = ~screen.native /\ screen.native \in BOOLEAN
  BY <1>1, <1>2 DEF Alert, AlertRecords, AlertTypes
<1>6. /\ alerts' \in Seq(AlertRecords) /\ DOMAIN alerts' = 1..n /\ alerts'[n] = new
      /\ \A id \in DOMAIN alerts : alerts'[id] = RetireAll(alerts, ids)[id]
  <2>1. PICK left : /\ left = RetireAll(alerts, ids)
                    /\ left \in Seq(AlertRecords) /\ Len(left) = Len(alerts)
    BY <1>2, <1>3, RetiredAre
  <2>2. /\ alerts' \in Seq(AlertRecords) /\ Len(alerts') = n
        /\ \A id \in 1..Len(alerts) : alerts'[id] = RetireAll(alerts, ids)[id]
        /\ alerts'[n] = new
    <3>1. alerts' = Append(left, new)
      BY <2>1, <1>4
    <3>2. /\ Append(left, new) \in Seq(AlertRecords) /\ Len(Append(left, new)) = Len(left) + 1
          /\ \A id \in 1..Len(left) : Append(left, new)[id] = left[id]
          /\ Append(left, new)[Len(left) + 1] = new
      BY <2>1, <1>5, AppendProperties
    <3>3. n = Len(left) + 1 /\ Len(left) = Len(alerts)
      BY <2>1, <1>1
    <3> QED
      BY <2>1, <3>1, <3>2, <3>3
  <2> QED
    BY <2>2, <1>2, LenProperties
<1>7. /\ alertPage' \in [account : Accounts \cup {NoAccount}, current : [Kinds -> Nat], recent : SUBSET Kinds]
      /\ alertPage'.account = alertPage.account /\ alertPage'.current[k] = n
      /\ \A other \in Kinds : other # k => alertPage'.current[other] = alertPage.current[other]
  <2>1. n \in Nat
    BY <1>1, <1>2
  <2>2. alertPage \in [account : Accounts \cup {NoAccount}, current : [Kinds -> Nat], recent : SUBSET Kinds]
    BY <1>2 DEF AlertTypes
  <2> QED
    BY <2>1, <2>2, <1>4
<1>8. n \in DOMAIN alerts' /\ n \notin DOMAIN alerts /\ DOMAIN alerts \subseteq DOMAIN alerts'
  BY <1>1, <1>2, <1>6
<1>9. AlertTypes'
  <2>1. ClosesOf(alerts, ids) \subseteq LineMessages(DOMAIN alerts)
    BY <1>2, <1>3, RetiredAre
  <2>2. LineMessages(DOMAIN alerts) \subseteq LineMessages(DOMAIN alerts')
    BY <1>8 DEF LineMessages
  <2>3. sent \subseteq LineMessages(DOMAIN alerts')
    BY <1>1, <1>8, MessagesOf
  <2>4. line' \subseteq LineMessages(DOMAIN alerts')
    BY <1>2, <1>4, <2>1, <2>2, <2>3 DEF AlertTypes
  <2> QED
    BY <1>2, <1>4, <1>6, <1>7, <1>8, <2>4 DEF AlertTypes
<1>10. ASSUME NEW other \in Kinds PROVE CurrentFits(other)'
  BY <1>5, <1>6, <1>7, <1>8, <1>2, <1>3, RetiredAre DEF CurrentFits, AlertInv
<1>11. ASSUME NEW id \in DOMAIN alerts PROVE ShowFits(id)' /\ ToastFits(id)' /\ HeldFits(id)'
  <2>1. alerts[id].kind \in Kinds /\ id # 0 /\ id # n
    BY <1>2, <1>8, AlertIs DEF AlertRecords
  <2>2. id \notin ids /\ alertPage.current[alerts[id].kind] = id => alertPage'.current[alerts[id].kind] = id
    BY <2>1, <1>1, <1>7
  <2>3. \A name : ShellCall(name, id) \in line' <=> ShellCall(name, id) \in line \cup ClosesOf(alerts, ids)
    BY <2>1, <1>1, <1>4, MessagesDiffer
  <2>4. \A name : PageTold(name, id) \in line' <=> PageTold(name, id) \in line
    BY <1>1, <1>4, ClosesAre, MessagesDiffer
  <2>5. alerts'[id] = RetireAll(alerts, ids)[id] /\ (id \in toasts'.up <=> id \in toasts.up)
    BY <1>4, <1>6
  <2> QED
    BY <2>2, <2>3, <2>4, <2>5, <1>3, AlertsRetired
\* Of the new alert there was nothing on the line.
<1>12. ShowFits(n)' /\ ToastFits(n)' /\ HeldFits(n)'
  <2>1. \A name : ShellCall(name, n) \notin line /\ PageTold(name, n) \notin line
    BY <1>2, <1>8, MessagesDiffer DEF AlertTypes, LineMessages
  <2>2. \A name : ShellCall(name, n) \notin ClosesOf(alerts, ids) /\ PageTold(name, n) \notin ClosesOf(alerts, ids)
    BY <1>3, <1>8, ClosesAre, MessagesDiffer
  <2>3. /\ ShellCall("show", n) \in line' <=> screen.native
        /\ ShellCall("close", n) \notin line' /\ \A name : PageTold(name, n) \notin line'
    <3>1. /\ \A name : PageTold(name, n) \notin sent /\ ShellCall("close", n) \notin sent
          /\ ShellCall("show", n) \in sent <=> screen.native
      BY <1>1, <1>5, MessagesDiffer
    <3>2. \A x : x \in line' <=> x \in line \/ x \in ClosesOf(alerts, ids) \/ x \in sent
      BY <1>4
    <3> QED
      BY <2>1, <2>2, <3>1, <3>2
  <2>4. n \notin toasts'.up
    BY <1>2, <1>4, <1>8 DEF AlertTypes
  <2>5. ShowFits(n)'
    BY <2>3, <1>5, <1>6 DEF ShowFits, Bids, Says
  <2>6. ToastFits(n)'
    BY <2>3, <2>4, <1>5, <1>6 DEF ToastFits, Bids, Says
  <2>7. HeldFits(n)'
    BY <1>5, <1>6, <1>7 DEF HeldFits
  <2> QED
    BY <2>5, <2>6, <2>7
<1>13. \A id \in DOMAIN alerts' : id \in DOMAIN alerts \/ id = n
  BY <1>1, <1>2, <1>6
<1> QED
  BY <1>4, <1>9, <1>10, <1>11, <1>12, <1>13 DEF AlertInv

LEMMA AlertsStart == DesktopAlertsInit => AlertInv
<1> SUFFICES ASSUME DesktopAlertsInit PROVE AlertInv
  OBVIOUS
<1>1. TRUE \in BOOLEAN /\ FALSE \in BOOLEAN /\ 0 \in Nat
  OBVIOUS
<1>2. alerts = <<>> /\ alerts \in Seq(AlertRecords) /\ DOMAIN alerts = {}
  BY DEF DesktopAlertsInit
<1>3. alertPage \in [account : Accounts \cup {NoAccount}, current : [Kinds -> Nat], recent : SUBSET Kinds]
  BY DesktopAlertsAssumption DEF DesktopAlertsInit, NewPage, NoAlerts
<1>4. screen \in [focused : BOOLEAN, shows : BOOLEAN, native : BOOLEAN]
  BY <1>1 DEF DesktopAlertsInit
<1>5. toasts \in [up : SUBSET DOMAIN alerts, recent : SUBSET Kinds] /\ line \subseteq LineMessages(DOMAIN alerts)
  BY DEF DesktopAlertsInit
<1>6. AlertTypes
  BY <1>2, <1>3, <1>4, <1>5 DEF AlertTypes
<1>7. \A k \in Kinds : CurrentFits(k)
  BY DEF DesktopAlertsInit, CurrentFits, NewPage, NoAlerts
<1> QED
  BY <1>2, <1>6, <1>7 DEF AlertInv, DesktopAlertsInit, NoRoute

\* Once everything was heard, what is on the screen is what the page holds; a
\* click leads only to the account its alert was sent to.
THEOREM AlertsAreThePages == DesktopAlertsSpec => []AlertsSettle
<1>1. AlertInv /\ [DesktopAlertsNext]_alertVars => AlertInv'
  <2> SUFFICES ASSUME AlertInv, [DesktopAlertsNext]_alertVars PROVE AlertInv'
    OBVIOUS
  <2>1. CASE UNCHANGED alertVars
    BY <2>1 DEF alertVars, AlertInv, AlertTypes, CurrentFits, ShowFits, ToastFits, HeldFits, Bids, Says
  <2>2. CASE DesktopAlertsNext
    <3>1. CASE \E k \in Kinds : SendAlert(k)
      BY <3>1, AlertsSent
    <3>2. CASE (\E k \in Kinds : Second(k)) \/ Glance \/ TurnsOff
      BY <3>2, AlertsPass
    <3>3. CASE \E a \in Accounts \cup {NoAccount} : AccountChanges(a)
      BY <3>3, AccountsChange
    <3>4. CASE \E m \in line : HearDelivery(m) \/ HearToast(m)
      BY <3>4, AlertsDelivered, AlertsHeard
    <3>5. CASE \E id \in DOMAIN alerts : FallbackClicked(id) \/ FallbackClosed(id)
      BY <3>5, FallbacksEnd
    <3>6. CASE \E id \in DOMAIN alerts :
                  \/ ServeShow(id) \/ ServeClose(id) \/ ServeActivate(id) \/ Arrive(id)
                  \/ \E name \in {"click", "gone", "failed"} : ToastEvent(id, name)
      BY <3>6, AlertsServed
    <3> QED
      BY <2>2, <3>1, <3>2, <3>3, <3>4, <3>5, <3>6 DEF DesktopAlertsNext
  <2> QED
    BY <2>1, <2>2
<1>2. AlertInv => AlertsSettle
  BY DEF AlertInv, AlertsSettle, ShowFits, Bids, Says, ToastFits, HeldFits
<1> QED
  BY <1>1, <1>2, AlertsStart, PTL DEF DesktopAlertsSpec

------------------------
(* The cues of a call.  While the member stays, whoever is in or shares now, and *)
(* was not or did not in a snapshot heard or under way, came or began during the *)
(* stay, whatever was lost between the two. *)
CallStates == [me : BOOLEAN, peer : BOOLEAN, screen : BOOLEAN, came : BOOLEAN, shared : BOOLEAN]
HealthStates == [up : BOOLEAN, overlay : BOOLEAN, timer : BOOLEAN, probe : BOOLEAN,
                 recovering : BOOLEAN, goodbye : BOOLEAN]
CueStates == [active : BOOLEAN, last : CallStates, deafened : BOOLEAN,
              roster : [seeded : BOOLEAN, peer : BOOLEAN, screen : BOOLEAN]]
CueTypes ==
    /\ myCall \in CallStates
    /\ snapshots \in Seq(CallStates)
    /\ cues \in CueStates
    /\ health \in HealthStates

\* Nothing is in b that was not in a and did not begin during the stay.
FollowsOn(a, b) == (~a.peer /\ b.peer => b.came) /\ (~a.screen /\ b.screen => b.shared)

SnapshotsFollow ==
    cues.active =>
        /\ FollowsOn(cues.last, myCall)
        /\ \A i \in 1..Len(snapshots) : FollowsOn(snapshots[i], myCall)
        /\ snapshots # <<>> => FollowsOn(cues.last, snapshots[1])
        /\ \A i \in 1..(Len(snapshots) - 1) : FollowsOn(snapshots[i], snapshots[i + 1])

CueInv ==
    /\ CueTypes
    /\ SnapshotsFollow
    /\ cues.roster = RosterOf(cues.active, cues.last)
    /\ health.probe => health.up
    /\ CuesAreOfTheCall

LEMMA CuesStart == CallCuesInit => CueInv
<1> SUFFICES ASSUME CallCuesInit PROVE CueInv
  OBVIOUS
<1>1. TRUE \in BOOLEAN /\ FALSE \in BOOLEAN
  OBVIOUS
<1>2. snapshots = <<>> /\ Len(snapshots) = 0 /\ snapshots \in Seq(CallStates)
  BY DEF CallCuesInit
<1>3. myCall \in CallStates
  BY <1>1 DEF CallCuesInit, CallStates
<1>4. /\ cues.active = FALSE /\ cues.last = myCall /\ cues.roster = Unseeded /\ cues.deafened = FALSE
      /\ cues \in CueStates
  BY <1>1, <1>3 DEF CallCuesInit, NewCues, Unseeded, CueStates
<1>5. CueTypes
  BY <1>1, <1>2, <1>3, <1>4 DEF CallCuesInit, CueTypes, HealthStates
<1>6. SnapshotsFollow
  BY <1>4 DEF SnapshotsFollow
<1>7. CuesAreOfTheCall
  BY DEF CallCuesInit, CuesAreOfTheCall
<1> QED
  BY <1>4, <1>5, <1>6, <1>7 DEF CueInv, CallCuesInit, RosterOf

\* The server tells of a change.
LEMMA ChangesFollow ==
    ASSUME CueInv, NEW c \in CallStates, Tells(c), cues'.last = cues.last,
           cues'.active => cues.active,
           cues.active => \A a \in CallStates : FollowsOn(a, myCall) => FollowsOn(a, c)
    PROVE  SnapshotsFollow' /\ myCall' \in CallStates /\ snapshots' \in Seq(CallStates)
<1>t. cues.last \in CallStates /\ snapshots \in Seq(CallStates) /\ myCall' = c
  BY DEF CueInv, CueTypes, CueStates, Tells
<1>1. CASE ~health.up
  <2>1. snapshots' = snapshots
    BY <1>1 DEF Tells
  <2>2. \A i \in 1..Len(snapshots) : snapshots[i] \in CallStates
    BY <1>t
  <2> QED
    BY <1>t, <2>1, <2>2 DEF SnapshotsFollow, CueInv
<1>2. CASE health.up
  <2>1. /\ snapshots \in Seq(CallStates) /\ Len(snapshots) \in Nat
        /\ snapshots = <<>> <=> Len(snapshots) = 0
        /\ snapshots' = Append(snapshots, c)
    BY <1>2, <1>t, EmptySeq, LenProperties DEF Tells
  <2>2. /\ snapshots' \in Seq(CallStates) /\ Len(snapshots') = Len(snapshots) + 1
        /\ \A i \in 1..Len(snapshots) : snapshots'[i] = snapshots[i]
        /\ snapshots'[Len(snapshots) + 1] = c /\ snapshots' # <<>>
    BY <2>1, AppendProperties
  <2>3. \A i \in 1..Len(snapshots) : snapshots[i] \in CallStates
    BY <1>t
  <2>4. ASSUME cues'.active
        PROVE  /\ FollowsOn(cues'.last, myCall')
               /\ \A i \in 1..Len(snapshots') : FollowsOn(snapshots'[i], myCall')
    <3>1. FollowsOn(cues'.last, myCall')
      BY <2>4, <1>t DEF CueInv, SnapshotsFollow
    <3>2. ASSUME NEW i \in 1..Len(snapshots') PROVE FollowsOn(snapshots'[i], myCall')
      <4>1. CASE i = Len(snapshots) + 1
        BY <4>1, <2>2, <1>t DEF FollowsOn
      <4>2. CASE i \in 1..Len(snapshots)
        BY <4>2, <2>4, <2>2, <2>3, <1>t DEF CueInv, SnapshotsFollow
      <4> QED
        BY <4>1, <4>2, <2>1, <2>2
    <3> QED
      BY <3>1, <3>2
  <2>5. ASSUME cues'.active PROVE FollowsOn(cues'.last, snapshots'[1])
    BY <2>5, <2>1, <2>2, <1>t DEF CueInv, SnapshotsFollow
  <2>6. ASSUME cues'.active, NEW i \in 1..(Len(snapshots') - 1)
        PROVE  FollowsOn(snapshots'[i], snapshots'[i + 1])
    <3>1. CASE i = Len(snapshots)
      BY <3>1, <2>6, <2>1, <2>2, <2>3, <1>t DEF CueInv, SnapshotsFollow
    <3>2. CASE i \in 1..(Len(snapshots) - 1)
      BY <3>2, <2>6, <2>1, <2>2 DEF CueInv, SnapshotsFollow
    <3> QED
      BY <3>1, <3>2, <2>1, <2>2
  <2> QED
    BY <1>t, <2>2, <2>4, <2>5, <2>6 DEF SnapshotsFollow
<1> QED
  BY <1>1, <1>2

Changes == {[myCall EXCEPT !.peer = TRUE, !.came = cues.active],
            [myCall EXCEPT !.peer = FALSE, !.screen = FALSE, !.came = FALSE, !.shared = FALSE],
            [myCall EXCEPT !.screen = TRUE, !.shared = cues.active],
            [myCall EXCEPT !.screen = FALSE, !.shared = FALSE],
            [myCall EXCEPT !.me = TRUE], MemberIsOut(myCall)}

LEMMA ChangesAre ==
    ASSUME CueInv, NEW c \in Changes
    PROVE  /\ c \in CallStates
           /\ cues.active => \A a \in CallStates : FollowsOn(a, myCall) => FollowsOn(a, c)
<1>1. TRUE \in BOOLEAN /\ FALSE \in BOOLEAN /\ myCall \in CallStates /\ cues.active \in BOOLEAN
  BY DEF CueInv, CueTypes, CueStates
<1>2. c \in CallStates
  BY <1>1 DEF CallStates, MemberIsOut, Changes
<1>3. ASSUME cues.active, NEW a \in CallStates, FollowsOn(a, myCall) PROVE FollowsOn(a, c)
  BY <1>1, <1>3 DEF CallStates, MemberIsOut, FollowsOn, Changes
<1> QED
  BY <1>2, <1>3

\* A change the client draws nothing from at once.
LEMMA CuesServed ==
    ASSUME CueInv, PeerJoins \/ PeerLeaves \/ PeerShares \/ PeerStops \/ CallIsEnded \/ GraceIsOver \/ CallResumes
    PROVE  CueInv'
<1>1. PICK c \in Changes : Tells(c) /\ played' = {} /\ UNCHANGED cues
  BY DEF PeerJoins, PeerLeaves, PeerShares, PeerStops, CallIsEnded, GraceIsOver, CallResumes, Serving, Changes
<1>h. health' \in HealthStates /\ health'.up = health.up /\ health'.probe = health.probe /\ health'.timer = health.timer
  <2>1. health \in HealthStates /\ TRUE \in BOOLEAN /\ FALSE \in BOOLEAN /\ health.up \in BOOLEAN
    BY DEF CueInv, CueTypes, HealthStates
  <2>2. \/ UNCHANGED health
        \/ health' = [health EXCEPT !.goodbye = health.up]
        \/ health' = [health EXCEPT !.recovering = FALSE]
    BY DEF PeerJoins, PeerLeaves, PeerShares, PeerStops, CallIsEnded, GraceIsOver, CallResumes, Serving
  <2> QED
    BY <2>1, <2>2 DEF HealthStates
<1>2. /\ c \in CallStates
      /\ cues.active => \A a \in CallStates : FollowsOn(a, myCall) => FollowsOn(a, c)
  BY ChangesAre
<1>3. SnapshotsFollow' /\ myCall' \in CallStates /\ snapshots' \in Seq(CallStates)
  BY <1>1, <1>2, ChangesFollow
<1>4. CueTypes'
  BY <1>1, <1>3, <1>h DEF CueInv, CueTypes
<1>5. CuesAreOfTheCall'
  BY <1>1, <1>h DEF CueInv, CuesAreOfTheCall
<1>6. cues'.roster = RosterOf(cues'.active, cues'.last) /\ (health'.probe => health'.up)
  BY <1>1, <1>h DEF CueInv
<1> QED
  BY <1>3, <1>4, <1>5, <1>6 DEF CueInv

\* What the client draws from a snapshot that follows the one before it.
LEMMA CuesRendered ==
    ASSUME CueInv, NEW within \in BOOLEAN, NEW deafened \in BOOLEAN, NEW last \in CallStates,
           \/ last = cues.last
           \/ within = cues.active /\ (within => FollowsOn(cues.last, last))
           \/ ~cues.active \/ ~within,
           Renders([cues EXCEPT !.active = within, !.deafened = deafened, !.last = last]),
           health'.timer = health.timer, health'.up = health.up
    PROVE  /\ CuesAreOfTheCall' /\ cues' \in CueStates
           /\ cues'.last = last /\ cues'.active = within
           /\ cues'.roster = RosterOf(cues'.active, cues'.last)
<1> DEFINE roster == RosterOf(within, last)
           changed == Transitions(cues.roster, roster)
           room == IF within = cues.active THEN {} ELSE IF within THEN {"voiceJoin"} ELSE {"voiceLeave"}
           self == IF deafened = cues.deafened \/ room # {} THEN {}
                   ELSE IF deafened THEN {"deafen"} ELSE {"undeafen"}
<1>1. TRUE \in BOOLEAN /\ FALSE \in BOOLEAN /\ cues.last \in CallStates /\ cues.active \in BOOLEAN
      /\ cues \in CueStates
  BY DEF CueInv, CueTypes, CueStates
<1>2. /\ cues' = [cues EXCEPT !.active = within, !.deafened = deafened, !.last = last, !.roster = roster]
      /\ played' = Play(changed \cup room \cup self, deafened)
  BY <1>1 DEF Renders, CueStates
<1>3. roster \in [seeded : BOOLEAN, peer : BOOLEAN, screen : BOOLEAN]
  BY <1>1 DEF RosterOf, Unseeded, CallStates
<1>4. cues.roster = RosterOf(cues.active, cues.last)
  BY DEF CueInv
<1>5. /\ "voicePeerJoin" \in changed => last.came
      /\ "screenShareStart" \in changed => last.shared
      /\ "screenShareStop" \in changed => last.peer
      /\ "connectionRestored" \notin changed
  BY <1>1, <1>4 DEF Transitions, RosterOf, Unseeded, CallStates, FollowsOn
<1>6. changed # {} => within /\ last.me
  BY <1>1 DEF Transitions, RosterOf, Unseeded
<1>7. room \cup self \subseteq {"voiceJoin", "voiceLeave", "deafen", "undeafen"}
  OBVIOUS
<1> HIDE DEF roster, changed, room, self
<1>8. /\ cues'.last = last /\ cues'.active = within /\ cues'.deafened = deafened /\ cues'.roster = roster
      /\ cues' \in CueStates
  BY <1>1, <1>2, <1>3 DEF CueStates
<1>9. /\ \A key \in played' : key \in changed \/ key \in room \cup self
      /\ deafened => played' \subseteq {"deafen", "undeafen"}
  BY <1>2 DEF Play, CueAllowed
<1>10. CuesAreOfTheCall'
  <2>1. played' \cap {"voicePeerJoin", "voicePeerLeave", "screenShareStart", "screenShareStop"} # {}
            => within /\ last.me
    BY <1>6, <1>7, <1>9
  <2> QED
    BY <2>1, <1>5, <1>7, <1>8, <1>9 DEF CueInv, CuesAreOfTheCall
<1> QED
  BY <1>8, <1>10 DEF roster

LEMMA CuesHeard == ASSUME CueInv, HearSnapshot PROVE CueInv'
<1> DEFINE within == cues.active
           deafened == cues.deafened
           last == Head(snapshots)
<1>1. /\ snapshots \in Seq(CallStates) /\ Len(snapshots) \in Nat /\ snapshots # <<>> /\ Len(snapshots) # 0
      /\ snapshots' = Tail(snapshots) /\ UNCHANGED <<myCall, health>>
  BY EmptySeq, LenProperties DEF HearSnapshot, CueInv, CueTypes
<1>2. /\ Tail(snapshots) \in Seq(CallStates) /\ Len(Tail(snapshots)) = Len(snapshots) - 1
      /\ Head(snapshots) \in CallStates /\ Head(snapshots) = snapshots[1]
      /\ \A i \in 1..Len(Tail(snapshots)) : Tail(snapshots)[i] = snapshots[i + 1]
      /\ Tail(snapshots) = <<>> <=> Len(Tail(snapshots)) = 0
  <2>1. /\ Tail(snapshots) \in Seq(CallStates) /\ Len(Tail(snapshots)) = Len(snapshots) - 1
        /\ Head(snapshots) \in CallStates
        /\ \A i \in 1..Len(Tail(snapshots)) : Tail(snapshots)[i] = snapshots[i + 1]
    BY <1>1, HeadTailProperties
  <2>2. Tail(snapshots) = <<>> <=> Len(Tail(snapshots)) = 0
    BY <2>1, EmptySeq
  <2>3. Head(snapshots) = snapshots[1]
    BY <1>1
  <2> QED
    BY <2>1, <2>2, <2>3
<1>3. /\ within \in BOOLEAN /\ deafened \in BOOLEAN /\ last \in CallStates /\ cues \in CueStates
      /\ within => FollowsOn(cues.last, last)
  BY <1>1, <1>2 DEF CueInv, CueTypes, CueStates, SnapshotsFollow
<1>4. Renders([cues EXCEPT !.active = within, !.deafened = deafened, !.last = last])
  <2>1. [cues EXCEPT !.active = within, !.deafened = deafened, !.last = last]
            = [cues EXCEPT !.last = Head(snapshots)]
    BY <1>3 DEF CueStates
  <2> QED
    BY <2>1 DEF HearSnapshot
<1>5. /\ CuesAreOfTheCall' /\ cues' \in CueStates /\ cues'.last = last /\ cues'.active = cues.active
      /\ cues'.roster = RosterOf(cues'.active, cues'.last)
  <2> HIDE DEF within, deafened, last
  <2>1. within = cues.active /\ health'.timer = health.timer /\ health'.up = health.up
    BY <1>1 DEF within
  <2> QED
    BY <2>1, <1>3, <1>4, CuesRendered
<1>6. SnapshotsFollow'
  <2> SUFFICES ASSUME cues'.active
               PROVE  /\ FollowsOn(cues'.last, myCall')
                      /\ \A i \in 1..Len(snapshots') : FollowsOn(snapshots'[i], myCall')
                      /\ snapshots' # <<>> => FollowsOn(cues'.last, snapshots'[1])
                      /\ \A i \in 1..(Len(snapshots') - 1) : FollowsOn(snapshots'[i], snapshots'[i + 1])
    BY DEF SnapshotsFollow
  <2>1. /\ \A i \in 1..Len(snapshots) : FollowsOn(snapshots[i], myCall)
        /\ \A i \in 1..(Len(snapshots) - 1) : FollowsOn(snapshots[i], snapshots[i + 1])
    BY <1>5 DEF CueInv, SnapshotsFollow
  <2> QED
    BY <2>1, <1>1, <1>2, <1>5
<1> QED
  BY <1>1, <1>2, <1>5, <1>6 DEF CueInv, CueTypes

\* The member's own steps: what was heard last stays what it was.
LEMMA CuesOfTheMember ==
    ASSUME CueInv, CallBegins \/ CallLeft \/ HearEnded \/ DeafenPressed
    PROVE  CueInv'
<1>t. /\ cues \in CueStates /\ health \in HealthStates
      /\ myCall \in CallStates /\ TRUE \in BOOLEAN /\ FALSE \in BOOLEAN
      /\ cues.active \in BOOLEAN /\ cues.deafened \in BOOLEAN /\ cues.last \in CallStates
  BY DEF CueInv, CueTypes, CueStates
<1>h. /\ health' \in HealthStates /\ health'.up = health.up /\ health'.probe = health.probe
      /\ health'.timer = health.timer
  <2>1. \/ UNCHANGED health
        \/ health' = [health EXCEPT !.goodbye = FALSE]
        \/ health' = [health EXCEPT !.recovering = FALSE]
        \/ health' = [health EXCEPT !.recovering = FALSE, !.goodbye = FALSE]
    BY DEF CallBegins, CallLeft, HearEnded, DeafenPressed
  <2> QED
    BY <2>1, <1>t DEF HealthStates
<1>1. CASE CallBegins
  <2> DEFINE last == [myCall EXCEPT !.me = TRUE, !.came = FALSE, !.shared = FALSE]
  <2>1. /\ snapshots = <<>> /\ Len(snapshots) = 0 /\ snapshots' = snapshots /\ myCall' = last /\ ~cues.active
        /\ [cues EXCEPT !.active = TRUE, !.last = last]
               = [cues EXCEPT !.active = TRUE, !.deafened = cues.deafened, !.last = last]
    BY <1>1, <1>t DEF CallBegins, CueStates
  <2>2. Renders([cues EXCEPT !.active = TRUE, !.deafened = cues.deafened, !.last = last])
    BY <1>1, <2>1 DEF CallBegins
  <2>3. last \in CallStates
    BY <1>t DEF CallStates
  <2> HIDE DEF last
  <2>4. /\ CuesAreOfTheCall' /\ cues' \in CueStates /\ cues'.last = last
        /\ cues'.roster = RosterOf(cues'.active, cues'.last)
    BY <1>t, <1>h, <2>1, <2>2, <2>3, CuesRendered
  <2>5. SnapshotsFollow'
    BY <2>1, <2>4 DEF SnapshotsFollow, FollowsOn
  <2> QED
    BY <1>h, <2>1, <2>3, <2>4, <2>5 DEF CueInv, CueTypes
<1>2. ASSUME NEW within \in BOOLEAN, NEW deafened \in BOOLEAN,
             Renders([cues EXCEPT !.active = within, !.deafened = deafened, !.last = cues.last])
      PROVE  /\ CuesAreOfTheCall' /\ cues' \in CueStates /\ cues'.last = cues.last /\ cues'.active = within
             /\ cues'.roster = RosterOf(cues'.active, cues'.last)
  BY <1>2, <1>t, <1>h, CuesRendered
<1>3. CASE CallLeft \/ HearEnded
  <2>1. [cues EXCEPT !.active = FALSE]
            = [cues EXCEPT !.active = FALSE, !.deafened = cues.deafened, !.last = cues.last]
    BY <1>t DEF CueStates
  <2>2. LeavesCall
    BY <1>3 DEF CallLeft, HearEnded
  <2>3. Renders([cues EXCEPT !.active = FALSE, !.deafened = cues.deafened, !.last = cues.last])
    BY <2>1, <2>2 DEF LeavesCall
  <2>4. /\ CuesAreOfTheCall' /\ cues' \in CueStates /\ cues'.last = cues.last /\ cues'.active = FALSE
        /\ cues'.roster = RosterOf(cues'.active, cues'.last)
    BY <1>2, <1>t, <2>3
  <2>5. SnapshotsFollow'
    BY <2>4 DEF SnapshotsFollow
  <2>6. myCall' \in CallStates /\ snapshots' \in Seq(CallStates)
    <3>1. CASE Tells(MemberIsOut(myCall))
      <4>1. MemberIsOut(myCall) \in Changes
        BY DEF Changes
      <4>2. MemberIsOut(myCall) \in CallStates
        BY <4>1, ChangesAre
      <4>3. PICK c \in CallStates : c = MemberIsOut(myCall)
        BY <4>2
      <4> QED
        BY <3>1, <4>3, AppendProperties DEF Tells, CueInv, CueTypes
    <3>2. CASE UNCHANGED <<myCall, snapshots>>
      BY <3>2 DEF CueInv, CueTypes
    <3> QED
      BY <2>2, <3>1, <3>2 DEF LeavesCall
  <2> QED
    BY <1>h, <2>4, <2>5, <2>6 DEF CueInv, CueTypes
<1>4. CASE DeafenPressed
  <2>1. /\ [cues EXCEPT !.deafened = ~cues.deafened]
               = [cues EXCEPT !.active = cues.active, !.deafened = ~cues.deafened, !.last = cues.last]
        /\ (~cues.deafened) \in BOOLEAN
    BY <1>t DEF CueStates
  <2>2. PICK deafened \in BOOLEAN :
            Renders([cues EXCEPT !.active = cues.active, !.deafened = deafened, !.last = cues.last])
    BY <1>4, <1>t, <2>1 DEF DeafenPressed
  <2>3. UNCHANGED <<myCall, snapshots>>
    BY <1>4 DEF DeafenPressed
  <2>4. /\ CuesAreOfTheCall' /\ cues' \in CueStates /\ cues'.last = cues.last /\ cues'.active = cues.active
        /\ cues'.roster = RosterOf(cues'.active, cues'.last)
    BY <1>2, <1>t, <2>2
  <2>5. SnapshotsFollow'
    BY <2>3, <2>4 DEF SnapshotsFollow, CueInv
  <2> QED
    BY <1>h, <2>3, <2>4, <2>5 DEF CueInv, CueTypes
<1> QED
  BY <1>1, <1>3, <1>4

LEMMA CuesOfTheLink ==
    ASSUME CueInv, LinkIsLost \/ LinkIsUp \/ OverlayRises \/ Probes \/ ProbeTimesOut \/ ProbeAnswered
    PROVE  CueInv'
<1>t. /\ health \in HealthStates /\ TRUE \in BOOLEAN /\ FALSE \in BOOLEAN /\ cues.active \in BOOLEAN
      /\ (health.probe => health.up) /\ (health.timer => ~health.up)
  BY DEF CueInv, CueTypes, CueStates, CuesAreOfTheCall
<1>1. PICK h \in HealthStates :
          /\ Shows(h) /\ (h.probe => h.up) /\ (h.timer => ~h.up)
          /\ health.overlay /\ ~h.overlay => h.up
  <2>1. /\ [health EXCEPT !.up = FALSE, !.timer = TRUE, !.probe = FALSE,
                          !.recovering = cues.active, !.goodbye = FALSE] \in HealthStates
        /\ [health EXCEPT !.up = TRUE, !.timer = FALSE, !.probe = TRUE] \in HealthStates
        /\ [health EXCEPT !.timer = FALSE, !.overlay = TRUE] \in HealthStates
        /\ [health EXCEPT !.probe = TRUE] \in HealthStates
        /\ [health EXCEPT !.probe = FALSE] \in HealthStates
        /\ [health EXCEPT !.probe = FALSE, !.overlay = FALSE] \in HealthStates
    BY <1>t DEF HealthStates
  <2>2. \E h \in HealthStates :
            /\ Shows(h)
            /\ \/ h = [health EXCEPT !.up = FALSE, !.timer = TRUE, !.probe = FALSE,
                                     !.recovering = cues.active, !.goodbye = FALSE]
               \/ h = [health EXCEPT !.up = TRUE, !.timer = FALSE, !.probe = TRUE]
               \/ h = [health EXCEPT !.timer = FALSE, !.overlay = TRUE] /\ health.timer
               \/ h = [health EXCEPT !.probe = TRUE] /\ health.up
               \/ h = [health EXCEPT !.probe = FALSE]
               \/ h = [health EXCEPT !.probe = FALSE, !.overlay = FALSE] /\ health.probe
    BY <2>1 DEF LinkIsLost, LinkIsUp, OverlayRises, Probes, ProbeTimesOut, ProbeAnswered
  <2> QED
    BY <2>2, <1>t DEF HealthStates
<1>2. /\ health' = h /\ UNCHANGED <<myCall, cues>>
      /\ played' = Play((IF h.overlay = health.overlay THEN {}
                         ELSE IF h.overlay THEN {"connectionLost"} ELSE {"connectionRestored"}), cues.deafened)
  BY <1>1 DEF Shows, Linking
<1>3. CuesAreOfTheCall'
  <2>1. /\ played' \subseteq {"connectionLost", "connectionRestored"}
        /\ "connectionRestored" \in played' => health.overlay /\ ~h.overlay
        /\ cues.deafened => played' = {}
    <3>1. PICK deafened \in BOOLEAN : cues.deafened = deafened
      BY DEF CueInv, CueTypes, CueStates
    <3>2. PICK old, new \in BOOLEAN : health.overlay = old /\ h.overlay = new
      BY <1>t DEF HealthStates
    <3> QED
      BY <1>2, <3>1, <3>2 DEF Play, CueAllowed
  <2>2. played' \cap {"voicePeerJoin", "voicePeerLeave", "screenShareStart", "screenShareStop"} = {}
    BY <2>1
  <2>3. /\ cues' = cues /\ (health'.timer => ~health'.up)
        /\ "connectionRestored" \in played' => health'.up
    BY <1>1, <1>2, <2>1
  <2> QED
    BY <2>1, <2>2, <2>3 DEF CuesAreOfTheCall
<1>4. SnapshotsFollow' /\ snapshots' \in Seq(CallStates)
  <2>1. CASE snapshots' = snapshots
    BY <2>1, <1>2 DEF CueInv, CueTypes, SnapshotsFollow
  <2>2. CASE snapshots' = <<>>
    BY <2>2, <1>2 DEF CueInv, SnapshotsFollow
  <2> QED
    BY <2>1, <2>2 DEF LinkIsLost, LinkIsUp, OverlayRises, Probes, ProbeTimesOut, ProbeAnswered
<1> QED
  BY <1>1, <1>2, <1>3, <1>4 DEF CueInv, CueTypes

\* Whatever order snapshots, the member's presses and the connection come in, a
\* cue tells of the call the member was in when it happened.
THEOREM CuesTellOfTheCall == CallCuesSpec => []CuesAreOfTheCall
<1>1. CueInv /\ [CallCuesNext]_cueVars => CueInv'
  BY CuesServed, CuesHeard, CuesOfTheMember, CuesOfTheLink DEF cueVars, CueInv, CueTypes, SnapshotsFollow,
     CuesAreOfTheCall, CallCuesNext
<1>2. CueInv => CuesAreOfTheCall
  BY DEF CueInv
<1> QED
  BY <1>1, <1>2, CuesStart, PTL DEF CallCuesSpec

\* The alerts and the cues of a page.
THEOREM AlertsHoldAlways == DesktopAlertsSpec /\ CallCuesSpec => []AlertsHold
BY AlertsAreThePages, CuesTellOfTheCall, PTL DEF AlertsHold

------------------------
(* The controls of a member in a call.  Of the messages on their way, those *)
(* of deafen presses that still count agree with the button, those of a join *)
(* answer the one that is awaited, and none is about a room that was left. *)

ControlTracks == {"gone", "silent", "sending"}
Medias == [mic : BOOLEAN, deaf : BOOLEAN]
AnyRoom == VoiceRooms \cup {Out}
AnyAsk == {"plain", "deafen", "undeafen", "restored", "j1", "j2"}
Saves == {<<>>} \cup Medias \X ControlTracks \X BOOLEAN
Upward == [kind : {"join", "media", "leave"}, ask : AnyAsk, room : AnyRoom, media : Medias, current : BOOLEAN, saved : Saves]
Downward == {m \in [kind : {"joined", "set", "snapshot"}, ask : AnyAsk, ok : BOOLEAN, room : AnyRoom, media : Medias,
                    muted : BOOLEAN, current : BOOLEAN, saved : Saves] : m.kind = "snapshot" => m.room # Out}
JoinType == [room : VoiceRooms, again : BOOLEAN, current : {TRUE}, mic : BOOLEAN, acquired : BOOLEAN,
             found : ControlTracks, lifts : BOOLEAN]
Seats == [room : VoiceRooms, held : BOOLEAN, mic : BOOLEAN, deaf : BOOLEAN] \cup {NoSeat}

OnlyJoin(n, j) == [m \in {n} |-> j]
ControlTypes ==
    /\ controls \in Medias /\ track \in ControlTracks /\ known \in BOOLEAN
    /\ prefers \in [deaf : BOOLEAN, mute : BOOLEAN] /\ home \in AnyRoom
    /\ lease \in [room : AnyRoom, enabled : BOOLEAN] /\ capturing \in {"nothing", "button", "lease"}
    /\ seat \in Seats /\ ownerMuted \in BOOLEAN
JoinTypes ==
    /\ rejoin \in {"idle", "scheduled", "running"} /\ connected \in BOOLEAN
    /\ upstream \in Seq(Upward) /\ downstream \in Seq(Downward)
    /\ joins = <<>> \/ \E n \in {"j1", "j2"}, j \in JoinType : joins = OnlyJoin(n, j)

\* Nothing is sent from nowhere or from the AFK room, and nothing captured there.
Shut == lease = NoLease /\ capturing = "nothing"
Quiet ==
    /\ SilencedStaysSilent
    /\ LockedByRoom(home) => track = "gone" /\ Shut
    /\ home = Out => track = "gone" /\ Shut /\ ~controls.deaf /\ ~known

\* What a join found is as it was.
JoinFits(j) ==
    /\ ~j.again => /\ Shut /\ rejoin = "idle"
                   /\ LockedByRoom(j.room) => ~j.mic
                   /\ j.acquired => j.found = "gone"
                   /\ j.found = "gone" => track = "gone"
                   /\ j.found = "sending" => track = "sending" /\ ~j.lifts
    /\ j.again => rejoin = "running" /\ j.room = home /\ ~j.lifts
JoiningWell ==
    /\ \A n \in DOMAIN joins : JoinFits(joins[n])
    /\ rejoin = "scheduled" => joins = <<>>
    /\ rejoin = "running" => joins # <<>>
    /\ ~connected => joins = <<>>
    /\ rejoin # "idle" => home # Out

UpKind(k) == {q \in Upward : q.kind = k}
DownKind(k) == {a \in Downward : a.kind = k}
UpDeafens == {q \in Upward : q.ask \in Deafening /\ q.current}
DownDeafens == {a \in Downward : a.ask \in Deafening /\ a.current}
UpHere(deaf, room) == {q \in Upward : q.kind = "media" /\ q.media.deaf = deaf /\ q.room = room}
DownHere(deaf) == {a \in Downward : a.kind = "set" /\ a.ok /\ a.media.deaf = deaf}
Asked(js) == {q \in Upward : q.ask \in DOMAIN js /\ q.room = js[q.ask].room}
Answered(js, at) == {a \in Downward : a.ask \in DOMAIN js /\ (a.ok => at.held /\ at.room = js[a.ask].room)}

DeafensFit ==
    /\ ~Has(upstream, UpDeafens \ UpHere(controls.deaf, home))
    /\ Has(upstream, UpDeafens) => connected /\ home # Out /\ seat.held /\ seat.room = home
    /\ ~Has(downstream, DownDeafens \ DownHere(controls.deaf))
    /\ Has(downstream, DownDeafens) => home # Out
JoinsFit ==
    /\ Has(upstream, UpKind("leave")) => home = Out
    /\ Before(upstream, UpDeafens, UpKind("join")) /\ Before(upstream, UpKind("leave"), UpKind("join"))
    /\ Once(upstream, UpKind("join")) /\ ~Has(upstream, UpKind("join") \ Asked(joins))
    /\ Once(downstream, DownKind("joined")) /\ ~Has(downstream, DownKind("joined") \ Answered(joins, seat))
    /\ Has(downstream, DownKind("joined")) =>
          ~Has(upstream, UpKind("join")) /\ ~Has(upstream, UpKind("leave")) /\ ~Has(upstream, UpDeafens)

AcceptedJoins == {a \in Downward : a.kind = "joined" /\ a.ok}
SeatFits == connected /\ home # Out /\ rejoin = "idle" /\ ~Has(downstream, AcceptedJoins) => seat.held /\ seat.room = home

SilentInv == ControlTypes /\ JoinTypes /\ Quiet /\ JoiningWell /\ DeafensFit /\ JoinsFit /\ SeatFits
SilentHolds == ~crossed => SilentInv

LEMMA NoneOf ==
    ASSUME NEW E, NEW s \in Seq(E), NEW U, ~Has(s, U)
    PROVE  Once(s, U) /\ \A S : Before(s, S, U) /\ ~Has(s, U \ S)
  BY DEF Has, Once, Before

LEMMA OutdatedUp ==
    ASSUME NEW s \in Seq(Upward)
    PROVE  /\ Outdated(s) \in Seq(Upward) /\ ~Has(Outdated(s), UpDeafens)
           /\ \A k : Has(Outdated(s), UpKind(k)) => Has(s, UpKind(k))
<1>1. /\ DOMAIN Outdated(s) = DOMAIN s /\ DOMAIN s = 1..Len(s) /\ Len(s) \in Nat
      /\ \A i \in DOMAIN s : s[i] \in Upward /\ Outdated(s)[i] = [s[i] EXCEPT !.current = @ /\ s[i].ask \notin Deafening]
  BY DEF Outdated
<1>2. ASSUME NEW i \in DOMAIN s
      PROVE  Outdated(s)[i] \in Upward \ UpDeafens /\ Outdated(s)[i].kind = s[i].kind
  BY <1>1 DEF Upward, UpDeafens
<1>3. Outdated(s) \in Seq(Upward)
  BY <1>1, <1>2 DEF Outdated
<1> QED
  BY <1>1, <1>2, <1>3 DEF Has, UpKind

LEMMA OutdatedDown ==
    ASSUME NEW s \in Seq(Downward)
    PROVE  /\ Outdated(s) \in Seq(Downward) /\ ~Has(Outdated(s), DownDeafens)
           /\ \A k : Has(Outdated(s), DownKind(k)) => Has(s, DownKind(k))
<1>1. /\ DOMAIN Outdated(s) = DOMAIN s /\ DOMAIN s = 1..Len(s) /\ Len(s) \in Nat
      /\ \A i \in DOMAIN s : s[i] \in Downward /\ Outdated(s)[i] = [s[i] EXCEPT !.current = @ /\ s[i].ask \notin Deafening]
  BY DEF Outdated
<1>2. ASSUME NEW i \in DOMAIN s
      PROVE  Outdated(s)[i] \in Downward \ DownDeafens /\ Outdated(s)[i].kind = s[i].kind
  <2>1. PICK b \in BOOLEAN : b = (s[i].current /\ s[i].ask \notin Deafening)
    OBVIOUS
  <2>2. Outdated(s)[i] = [s[i] EXCEPT !.current = b]
    BY <1>1, <2>1
  <2> QED
    BY <1>1, <2>1, <2>2 DEF Downward, DownDeafens
<1>3. Outdated(s) \in Seq(Downward)
  BY <1>1, <1>2 DEF Outdated
<1> QED
  BY <1>1, <1>2, <1>3 DEF Has, DownKind

\* Nothing of a join is on its way.
NoJoins == joins = <<>> /\ ~Has(upstream, UpKind("join")) /\ ~Has(downstream, DownKind("joined"))
LEMMA WithoutJoins == ASSUME JoinsFit, joins = <<>> PROVE NoJoins
BY DEF Asked, Answered, JoinsFit, NoJoins, Has

LEMMA NotCrossed ==
    ASSUME SilentInv, Crosses, ~crossed'
    PROVE  NoJoins /\ rejoin = "idle" /\ ~UnderWay
  BY WithoutJoins DEF SilentInv, Crosses, UnderWay, JoinTypes, JoiningWell

\* What the buttons do to the messages, when no join is under way.
LEMMA Emitted ==
    ASSUME SilentInv, NoJoins, rejoin = "idle", UNCHANGED <<joinVars, seat, home>>, controls' \in Medias,
           NEW m \in Upward, m.kind = "media",
           m.ask \in Deafening => connected /\ home # Out /\ m.media.deaf = controls'.deaf /\ m.room = home,
           \/ upstream' \in {Outdated(upstream), Append(Outdated(upstream), m)} /\ downstream' = Outdated(downstream)
           \/ /\ upstream' \in {upstream, Append(upstream, m)} /\ downstream' = downstream
              /\ controls'.deaf = controls.deaf
    PROVE  JoinTypes' /\ JoiningWell' /\ DeafensFit' /\ JoinsFit' /\ SeatFits'
<1>1. JoinTypes /\ JoinsFit /\ DeafensFit /\ SeatFits /\ JoiningWell /\ seat' = seat /\ home' = home /\ UNCHANGED joinVars
  BY DEF SilentInv
<1>2. ASSUME NEW s \in Seq(Upward)
      PROVE  /\ Append(s, m) \in Seq(Upward)
             /\ Has(Append(s, m), UpKind("join")) => Has(s, UpKind("join"))
             /\ Has(Append(s, m), UpKind("leave")) => Has(s, UpKind("leave"))
             /\ Has(Append(s, m), UpDeafens) <=> Has(s, UpDeafens) \/ m \in UpDeafens
             /\ Has(Append(s, m), UpDeafens \ UpHere(controls'.deaf, home)) => Has(s, UpDeafens \ UpHere(controls'.deaf, home))
  <2>1. ~(m \in UpKind("join") \cup UpKind("leave") \cup (UpDeafens \ UpHere(controls'.deaf, home)))
    BY DEF UpKind, UpDeafens, UpHere
  <2> QED
    BY <2>1, AppendHas DEF Has
<1>3. /\ upstream' \in Seq(Upward) /\ downstream' \in Seq(Downward)
      /\ ~Has(upstream', UpKind("join")) /\ ~Has(downstream', DownKind("joined"))
      /\ Has(upstream', UpKind("leave")) => home = Out
      /\ ~Has(upstream', UpDeafens \ UpHere(controls'.deaf, home))
      /\ ~Has(downstream', DownDeafens \ DownHere(controls'.deaf))
      /\ Has(upstream', UpDeafens) => Has(upstream, UpDeafens) \/ m \in UpDeafens
      /\ Has(downstream', DownDeafens) => home # Out
  <2>1. CASE upstream' \in {Outdated(upstream), Append(Outdated(upstream), m)} /\ downstream' = Outdated(downstream)
    <3> DEFINE u == Outdated(upstream)
               d == Outdated(downstream)
    <3>1. /\ u \in Seq(Upward) /\ ~Has(u, UpDeafens) /\ ~Has(u, UpDeafens \ UpHere(controls'.deaf, home))
          /\ Has(u, UpKind("leave")) => home = Out
          /\ ~Has(u, UpKind("join"))
      BY <1>1, OutdatedUp, NoneOf DEF JoinTypes, NoJoins, JoinsFit
    <3>2. /\ d \in Seq(Downward) /\ ~Has(d, DownDeafens) /\ ~Has(d, DownDeafens \ DownHere(controls'.deaf))
          /\ ~Has(d, DownKind("joined"))
      BY <1>1, OutdatedDown, NoneOf DEF JoinTypes, NoJoins
    <3> HIDE DEF u, d
    <3>3. upstream' \in {u, Append(u, m)} /\ downstream' = d
      BY <2>1 DEF u, d
    <3>4. CASE upstream' = u
      BY <3>1, <3>2, <3>3, <3>4
    <3>5. CASE upstream' = Append(u, m)
      BY <1>2, <3>1, <3>2, <3>3, <3>5
    <3> QED
      BY <3>3, <3>4, <3>5
  <2>2. CASE upstream' \in {upstream, Append(upstream, m)} /\ downstream' = downstream /\ controls'.deaf = controls.deaf
    <3>1. /\ upstream \in Seq(Upward) /\ downstream \in Seq(Downward) /\ ~Has(upstream, UpKind("join"))
          /\ ~Has(downstream, DownKind("joined"))
          /\ Has(upstream, UpKind("leave")) => home = Out
          /\ ~Has(upstream, UpDeafens \ UpHere(controls'.deaf, home))
          /\ ~Has(downstream, DownDeafens \ DownHere(controls'.deaf))
          /\ Has(downstream, DownDeafens) => home # Out
      BY <1>1, <2>2 DEF JoinTypes, NoJoins, JoinsFit, DeafensFit
    <3>2. CASE upstream' = upstream
      BY <2>2, <3>1, <3>2
    <3>3. CASE upstream' = Append(upstream, m)
      BY <1>2, <2>2, <3>1, <3>3
    <3> QED
      BY <2>2, <3>2, <3>3
  <2> QED
    BY <2>1, <2>2
<1>4. ~Has(downstream', AcceptedJoins) /\ ~Has(downstream, AcceptedJoins)
  BY <1>3 DEF Has, AcceptedJoins, DownKind, NoJoins
<1>5. connected /\ home # Out => seat.held /\ seat.room = home
  BY <1>1, <1>4 DEF SeatFits
<1>6. Has(upstream', UpDeafens) => connected /\ home # Out /\ seat.held /\ seat.room = home
  BY <1>1, <1>3, <1>5 DEF DeafensFit, UpDeafens
<1>7. JoinsFit'
  BY <1>1, <1>3, NoneOf DEF JoinsFit
<1>8. JoinTypes' /\ JoiningWell'
  BY <1>1, <1>3 DEF JoinTypes, JoiningWell, joinVars, NoJoins
<1>9. DeafensFit' /\ SeatFits'
  BY <1>1, <1>3, <1>5, <1>6 DEF DeafensFit, SeatFits, joinVars
<1> QED
  BY <1>7, <1>8, <1>9

LEMMA RequestFits ==
    ASSUME ControlTypes, NEW k \in {"join", "media", "leave"}, NEW ask \in AnyAsk, NEW media \in Medias
    PROVE  /\ Request(k, ask, media) \in Upward
           /\ Request(k, ask, media) = [kind |-> k, ask |-> ask, room |-> home, media |-> media, current |-> TRUE,
                                        saved |-> Request(k, ask, media).saved]
BY DEF ControlTypes, Saves, Request, Upward

LEMMA ToggleMicSilent == ASSUME SilentInv, ToggleMic, ~crossed' PROVE SilentInv'
<1>1. NoJoins /\ rejoin = "idle"
  BY NotCrossed DEF ToggleMic
<1>2. ControlTypes /\ Quiet /\ ~Lifting /\ ~Lifting'
  BY <1>1 DEF SilentInv, ToggleMic, joinVars, NoJoins, Lifting
<1> DEFINE media == [mic |-> ~controls.mic, deaf |-> controls.deaf]
           m == Request("media", "plain", media)
<1>3. media \in Medias
  BY <1>2 DEF ControlTypes, Medias
<1>4. PICK b \in BOOLEAN : b = ~controls.mic
  OBVIOUS
<1>5. \/ controls' = controls /\ track' = track /\ capturing' = "button"
      \/ controls' = [controls EXCEPT !.mic = b] /\ track' = Enabled(track, b) /\ capturing' = capturing
  BY <1>2, <1>4 DEF ToggleMic, ControlTypes, Medias
<1>6. controls' \in Medias /\ controls'.deaf = controls.deaf
  BY <1>2, <1>5 DEF ControlTypes, Medias
<1>7. UNCHANGED <<joinVars, seat, home, known, prefers, ownerMuted>> /\ lease' = NoLease
  BY DEF ToggleMic
<1>8. JoinTypes' /\ JoiningWell' /\ DeafensFit' /\ JoinsFit' /\ SeatFits'
  <2>1. m \in Upward /\ m.kind = "media" /\ m.ask \notin Deafening
    BY <1>2, <1>3, RequestFits DEF AnyAsk, Deafening
  <2>2. upstream' \in {Outdated(upstream), Append(Outdated(upstream), m)} /\ downstream' = Outdated(downstream)
    BY DEF ToggleMic, Emit
  <2> HIDE DEF m
  <2> QED
    BY <1>1, <1>6, <1>7, <2>1, <2>2, Emitted
<1>9. ControlTypes'
  BY <1>2, <1>5, <1>6, <1>7 DEF ControlTypes, Enabled, ControlTracks, NoLease, AnyRoom
<1>10. ~known /\ ~controls.deaf /\ ~LockedByRoom(home) /\ home # Out
  BY DEF ToggleMic, MicAllowed
<1>11. Quiet'
  BY <1>2, <1>6, <1>7, <1>10 DEF Quiet, SilencedStaysSilent, LockedByRoom
<1> QED
  BY <1>8, <1>9, <1>11 DEF SilentInv

LEMMA NoLeaseFits == NoLease \in [room : AnyRoom, enabled : BOOLEAN]
  BY DEF NoLease, AnyRoom

LEMMA CapturedSilent == ASSUME SilentInv, Captured, ~crossed' PROVE SilentInv'
<1>1. NoJoins /\ rejoin = "idle"
  BY WithoutJoins DEF SilentInv, Captured, UnderWay, JoinTypes, JoiningWell
<1>2. ControlTypes /\ Quiet /\ ~Lifting /\ ~Lifting'
  BY <1>1 DEF SilentInv, Captured, joinVars, NoJoins, Lifting
<1>3. PICK on \in BOOLEAN : on = IF capturing = "button" THEN MicAllowed ELSE lease.enabled /\ MicAllowed
  BY <1>2 DEF ControlTypes, MicAllowed
<1> DEFINE media == [mic |-> on, deaf |-> controls.deaf]
           m == Request("media", "plain", media)
<1>4. UNCHANGED <<joinVars, seat, home, known, prefers, ownerMuted, downstream>> /\ capturing' = "nothing"
  BY DEF Captured
<1>5. \/ UNCHANGED <<controls, track, lease, upstream>>
      \/ /\ controls' = [controls EXCEPT !.mic = on] /\ track' = Enabled("silent", on) /\ lease' = NoLease
         /\ upstream' = Append(upstream, m)
  BY <1>3 DEF Captured, Emit
<1>6. controls' \in Medias /\ controls'.deaf = controls.deaf
  BY <1>2, <1>5 DEF ControlTypes, Medias
<1>7. JoinTypes' /\ JoiningWell' /\ DeafensFit' /\ JoinsFit' /\ SeatFits'
  <2>1. m \in Upward /\ m.kind = "media" /\ m.ask \notin Deafening
    BY <1>2, RequestFits DEF AnyAsk, Deafening, ControlTypes, Medias
  <2> HIDE DEF m
  <2>2. upstream' \in {upstream, Append(upstream, m)} /\ downstream' = downstream
    BY <1>4, <1>5
  <2> QED
    BY <1>1, <1>4, <1>6, <2>1, <2>2, Emitted
<1>8. ControlTypes'
  BY <1>2, <1>5, NoLeaseFits, <1>4, <1>6 DEF ControlTypes, Enabled, ControlTracks
<1>9. ~LockedByRoom(home) /\ home # Out /\ (on => ~known /\ ~controls.deaf)
  BY <1>2, <1>3 DEF Quiet, Shut, Captured, MicAllowed
<1>10. Quiet'
  <2>1. ~crossed
    BY DEF Captured
  <2>2. known' \/ controls'.deaf => track' # "sending"
    BY <1>2, <1>4, <2>1, <1>6, <1>9, <1>5 DEF Quiet, SilencedStaysSilent, Enabled
  <2> QED
    BY <1>4, <1>9, <2>2 DEF Quiet, SilencedStaysSilent, LockedByRoom
<1> QED
  BY <1>7, <1>8, <1>10 DEF SilentInv

LEMMA LostSilent == ASSUME SilentInv, MicrophoneLost, ~crossed' PROVE SilentInv'
<1>1. NoJoins /\ rejoin = "idle"
  BY NotCrossed DEF MicrophoneLost
<1>2. ControlTypes /\ Quiet
  BY DEF SilentInv
<1> DEFINE media == [mic |-> FALSE, deaf |-> controls.deaf]
           m == Request("media", "plain", media)
<1>3. UNCHANGED <<rejoin, connected, seat, home, known, prefers, ownerMuted>> /\ track' = "gone" /\ capturing' = "nothing"
  BY DEF MicrophoneLost
<1>4. joins' = joins
  BY <1>1 DEF NoJoins, MicrophoneLost
<1>5. controls' \in Medias /\ controls'.deaf = controls.deaf
  BY <1>2 DEF ControlTypes, Medias, MicrophoneLost
<1>6. JoinTypes' /\ JoiningWell' /\ DeafensFit' /\ JoinsFit' /\ SeatFits'
  <2> media \in Medias
    BY <1>2 DEF ControlTypes, Medias
  <2>1. m \in Upward /\ m.kind = "media" /\ m.ask \notin Deafening
    BY <1>2, RequestFits DEF AnyAsk, Deafening
  <2>2. upstream' \in {Outdated(upstream), Append(Outdated(upstream), m)} /\ downstream' = Outdated(downstream)
    BY DEF MicrophoneLost, Emit
  <2> HIDE DEF m
  <2>3. UNCHANGED <<joinVars, seat, home>>
    BY <1>3, <1>4 DEF joinVars
  <2> QED
    BY <1>1, <1>5, <2>1, <2>2, <2>3, Emitted
<1>7. ControlTypes'
  BY <1>2, <1>3, <1>5 DEF ControlTypes, Medias, MicrophoneLost, ControlTracks
<1>8. ~LockedByRoom(home) /\ home # Out
  BY <1>2 DEF Quiet, MicrophoneLost
<1>9. Quiet'
  BY <1>3, <1>8 DEF Quiet, SilencedStaysSilent, LockedByRoom
<1> QED
  BY <1>6, <1>7, <1>9 DEF SilentInv

LEMMA DeafenSilent == ASSUME SilentInv, Deafen \/ Undeafen, ~crossed' PROVE SilentInv'
<1>1. NoJoins /\ rejoin = "idle"
  BY NotCrossed DEF Deafen, Undeafen
<1>2. ControlTypes /\ Quiet
  BY DEF SilentInv
<1>3. UNCHANGED <<joinVars, seat, home, known, lease, capturing, ownerMuted>> /\ home # Out /\ connected
  BY DEF Deafen, Undeafen
<1>4. PICK b \in BOOLEAN : b = (~known /\ prefers.deaf)
  OBVIOUS
<1>5. PICK ask \in Deafening, mic \in BOOLEAN :
           /\ controls' = [mic |-> mic, deaf |-> ask = "deafen"]
           /\ ask = "deafen" => track' = Enabled(track, FALSE)
           /\ ask = "undeafen" => track' = Enabled(track, b)
           /\ upstream' = Append(Outdated(upstream), Request("media", ask, Effective(controls', track')))
           /\ downstream' = Outdated(downstream)
  BY <1>4 DEF Deafen, Deafening, Emit, Undeafen
<1>6. controls' \in Medias
  BY <1>5 DEF Medias, Deafening
<1>7. JoinTypes' /\ JoiningWell' /\ DeafensFit' /\ JoinsFit' /\ SeatFits'
  <2>1. PICK on \in BOOLEAN : on = (controls'.mic /\ ~controls'.deaf /\ track' = "sending")
    OBVIOUS
  <2> DEFINE media == [mic |-> on, deaf |-> controls'.deaf]
             m == Request("media", ask, media)
  <2>2. Effective(controls', track') = media /\ media \in Medias
    BY <1>6, <2>1 DEF Effective, Medias
  <2>3. m \in Upward /\ m.kind = "media" /\ m.media.deaf = controls'.deaf /\ m.room = home
    BY <1>2, <2>2, RequestFits DEF AnyAsk, Deafening
  <2>4. upstream' = Append(Outdated(upstream), m) /\ downstream' = Outdated(downstream)
    BY <1>5, <2>2
  <2> HIDE DEF m
  <2> QED
    BY <1>1, <1>3, <1>6, <2>3, <2>4, Emitted
<1>8. track' \in ControlTracks /\ (track' = "gone" <=> track = "gone") /\ (track' = "sending" => b /\ ~controls'.deaf)
  BY <1>2, <1>5 DEF ControlTypes, ControlTracks, Enabled, Deafening
<1>9. ControlTypes'
  BY <1>2, <1>3, <1>6, <1>8 DEF ControlTypes, Medias, Deafen, Undeafen
<1>10. Quiet'
  BY <1>2, <1>3, <1>4, <1>8 DEF Quiet, SilencedStaysSilent, LockedByRoom, Shut, ControlTypes
<1> QED
  BY <1>7, <1>9, <1>10 DEF SilentInv

LEMMA RecoverSilent == ASSUME SilentInv, RecoverMicrophone PROVE SilentInv'
<1>1. ~LockedByRoom(home) /\ home # Out /\ \A n \in DOMAIN joins : joins[n].again
  BY DEF RecoverMicrophone, Shut, SilentInv, JoiningWell, JoinFits, Quiet
<1>2. /\ UNCHANGED <<controls, track, known, prefers, home, joins, rejoin, connected, upstream, downstream, seat, ownerMuted,
                     crossed>>
      /\ \/ lease' = lease /\ capturing' = "lease"
         \/ lease' = NoLease /\ capturing' = capturing
  BY DEF RecoverMicrophone, joinVars, seatVars
<1>3. ControlTypes' /\ JoinTypes'
  BY <1>2, NoLeaseFits DEF SilentInv, ControlTypes, JoinTypes
<1>6. Quiet'
  BY <1>1, <1>2 DEF SilentInv, Quiet, SilencedStaysSilent, Lifting, LockedByRoom
<1>4. JoiningWell'
  BY <1>1, <1>2 DEF SilentInv, JoiningWell, JoinFits
<1>5. DeafensFit' /\ JoinsFit' /\ SeatFits'
  BY <1>2 DEF SilentInv, DeafensFit, JoinsFit, SeatFits
<1> QED
  BY <1>3, <1>6, <1>4, <1>5 DEF SilentInv

\* A join that is sent when no other is under way.
LEMMA JoinSent ==
    ASSUME SilentInv, NoJoins, connected, UNCHANGED <<connected, seat, home, controls, downstream>>,
           NEW n \in {"j1", "j2"}, NEW j \in JoinType, joins' = OnlyJoin(n, j), rejoin' \in {"idle", "running"}, JoinFits(j)',
           rejoin' # "idle" => home # Out, rejoin' = "idle" => rejoin = "idle",
           NEW m \in Upward, m.kind = "join", m.ask = n, m.room = j.room, upstream' = Append(upstream, m)
    PROVE  JoinTypes' /\ JoiningWell' /\ DeafensFit' /\ JoinsFit' /\ SeatFits'
<1>1. JoinTypes /\ JoinsFit /\ DeafensFit /\ SeatFits /\ NoJoins
  BY DEF SilentInv
<1>2. DOMAIN joins' = {n} /\ joins'[n] = j /\ joins' # <<>>
  BY DEF OnlyJoin
<1>3. m \in UpKind("join") /\ m \notin UpKind("leave") /\ m \notin UpDeafens /\ m \in Asked(joins')
  BY <1>2 DEF UpKind, UpDeafens, Deafening, Asked
<1>4. upstream \in Seq(Upward) /\ downstream' = downstream /\ downstream \in Seq(Downward)
  BY <1>1 DEF JoinTypes
<1>5. /\ upstream' \in Seq(Upward)
      /\ Has(upstream', UpDeafens) => Has(upstream, UpDeafens)
      /\ Has(upstream', UpKind("leave")) => Has(upstream, UpKind("leave"))
      /\ Has(upstream', UpDeafens \ UpHere(controls.deaf, home)) => Has(upstream, UpDeafens \ UpHere(controls.deaf, home))
      /\ Has(upstream', UpKind("join") \ Asked(joins')) => Has(upstream, UpKind("join") \ Asked(joins'))
      /\ Once(upstream', UpKind("join"))
  BY <1>3, <1>4, AppendHas, NoneOf DEF NoJoins
<1>6. Before(upstream', UpDeafens, UpKind("join")) /\ Before(upstream', UpKind("leave"), UpKind("join"))
  BY <1>3, <1>4, AppendBefore, NoneOf DEF NoJoins
<1>7. JoinTypes'
  BY <1>1, <1>4, <1>5 DEF JoinTypes
<1>8. JoiningWell'
  BY <1>2 DEF JoiningWell
<1>9. DeafensFit' /\ SeatFits'
  BY <1>1, <1>4, <1>5 DEF DeafensFit, SeatFits
<1>10. JoinsFit'
  BY <1>4, <1>1, <1>5, <1>6, NoneOf DEF NoJoins, JoinsFit
<1> QED
  BY <1>7, <1>8, <1>9, <1>10

LEMMA JoinSilent == ASSUME SilentInv, JoinRoom \/ MoveTo, ~crossed' PROVE SilentInv'
<1>1. PICK room \in VoiceRooms, options \in Medias : Join(room, options) /\ (options.deaf => controls.deaf)
  <2>1. Fresh \in Medias /\ ~Fresh.deaf
    BY DEF Fresh, Medias
  <2>2. Carried \in Medias /\ Carried.deaf = controls.deaf
    BY DEF SilentInv, ControlTypes, Medias, Carried
  <2> QED
    BY <2>1, <2>2 DEF JoinRoom, MoveTo
<1>2. NoJoins /\ rejoin = "idle"
  BY <1>1, NotCrossed DEF Join
<1>3. ControlTypes /\ Quiet /\ ~Lifting
  BY <1>2 DEF SilentInv, NoJoins, Lifting
<1>4. PICK n \in {"j1", "j2"} : n = CHOOSE m \in Numbers : TRUE
  BY <1>1 DEF Join, Numbers
<1>5. PICK on \in BOOLEAN, open \in BOOLEAN, needed \in BOOLEAN, lifts \in BOOLEAN, mic \in BOOLEAN :
           /\ on <=> options.mic /\ ~LockedByRoom(room)
           /\ open <=> ~options.deaf /\ ~known
           /\ needed <=> on /\ track = "gone"
           /\ lifts <=> controls.deaf /\ ~options.deaf
           /\ mic <=> on /\ open
  OBVIOUS
<1>9. PICK j \in JoinType :
           j = [room |-> room, again |-> FALSE, current |-> TRUE, mic |-> on, acquired |-> needed, found |-> track,
                lifts |-> lifts]
  BY <1>3 DEF JoinType, ControlTypes
<1> DEFINE media == [mic |-> mic, deaf |-> options.deaf]
           m == [Request("join", n, media) EXCEPT !.room = room]
<1>6. /\ joins' = OnlyJoin(n, j) /\ upstream' = Append(upstream, m)
      /\ track' = IF on THEN Enabled(track, open) ELSE track
  <2>1. DOMAIN joins = {}
    BY <1>2 DEF NoJoins
  <2>2. /\ (on = (options.mic /\ ~LockedByRoom(room))) /\ (open = (~options.deaf /\ ~known)) /\ (needed = (on /\ track = "gone"))
        /\ (lifts = (controls.deaf /\ ~options.deaf)) /\ (mic = (on /\ open))
    BY <1>5
  <2> QED
    BY <1>1, <1>4, <1>9, <2>1, <2>2 DEF Join, OnlyJoin
<1>7. /\ UNCHANGED <<connected, seat, home, controls, downstream, known, prefers, ownerMuted, rejoin>> /\ connected
      /\ lease' = NoLease /\ capturing' = "nothing"
  BY <1>1 DEF Join
<1>8. m \in Upward /\ m.kind = "join" /\ m.ask = n /\ m.room = room
  BY <1>3, RequestFits DEF Upward, AnyAsk, AnyRoom, Medias
<1>10. track' \in ControlTracks /\ (track = "gone" => track' = "gone") /\ (track' = "gone" => track = "gone")
       /\ (track' = "sending" => track = "sending" \/ (on /\ open)) /\ (track = "sending" /\ ~(on /\ ~open) => track' = "sending")
  BY <1>3, <1>6 DEF Enabled, ControlTypes, ControlTracks
<1>11. ~crossed /\ (track = "sending" => ~known /\ ~controls.deaf /\ ~LockedByRoom(home))
  BY <1>1, <1>3 DEF Quiet, SilencedStaysSilent, Join, Crosses
<1> HIDE DEF m
<1>12. j.room = room /\ j.again = FALSE /\ j.mic = on /\ j.acquired = needed /\ j.found = track /\ j.lifts = lifts
  BY <1>9
<1>13. track = "sending" => track' = "sending" /\ ~lifts
  BY <1>1, <1>5, <1>10, <1>11
<1>14. JoinFits(j)'
  BY <1>2, <1>5, <1>7, <1>10, <1>12, <1>13 DEF JoinFits, Shut
<1>15. JoinTypes' /\ JoiningWell' /\ DeafensFit' /\ JoinsFit' /\ SeatFits'
  <2>1. UNCHANGED <<connected, seat, home, controls, downstream>> /\ rejoin' = "idle"
    BY <1>2, <1>7
  <2> QED
    BY <1>2, <1>6, <1>7, <1>8, <1>9, <1>12, <1>14, <2>1, JoinSent
<1>16. ControlTypes'
  BY <1>3, <1>7, <1>10, NoLeaseFits DEF ControlTypes
<1>17. lifts => Lifting'
  BY <1>6, <1>12 DEF Lifting, OnlyJoin
<1>18. Quiet'
  BY <1>3, <1>5, <1>7, <1>10, <1>11, <1>17 DEF Quiet, SilencedStaysSilent, LockedByRoom, Shut
<1> QED
  BY <1>15, <1>16, <1>18 DEF SilentInv

LEMMA RejoinSilent == ASSUME SilentInv, ~crossed, Rejoin PROVE SilentInv'
<1>1. NoJoins /\ home \in VoiceRooms /\ connected
  BY WithoutJoins DEF SilentInv, JoiningWell, Rejoin, ControlTypes, AnyRoom
<1>2. ControlTypes /\ Quiet /\ ~Lifting
  BY <1>1 DEF SilentInv, NoJoins, Lifting
<1>3. PICK n \in {"j1", "j2"} : n = CHOOSE m \in Numbers : TRUE
  BY DEF Rejoin, Numbers
<1>4. PICK j \in JoinType :
           j = [room |-> home, again |-> TRUE, current |-> TRUE, mic |-> controls.mic, acquired |-> FALSE,
                found |-> "gone", lifts |-> FALSE]
  BY <1>1, <1>2 DEF JoinType, ControlTypes, Medias, ControlTracks
<1>5. PICK may \in BOOLEAN : may = MayTalk(controls, known, home)
  BY DEF MayTalk
<1>6. track' = Enabled(track, may) /\ track' \in ControlTracks
  BY <1>2, <1>5 DEF Rejoin, Enabled, ControlTracks, ControlTypes
<1>7. PICK media \in Medias : media = Effective(controls, track')
  BY <1>2 DEF Effective, Medias, ControlTypes
<1> DEFINE m == Request("join", n, media)
<1>8. joins' = OnlyJoin(n, j) /\ upstream' = Append(upstream, m)
  BY <1>1, <1>3, <1>4, <1>7 DEF NoJoins, Rejoin, OnlyJoin
<1>9. m \in Upward /\ m.kind = "join" /\ m.ask = n /\ m.room = j.room
  BY <1>2, <1>4, RequestFits DEF AnyAsk
<1>10. /\ UNCHANGED <<connected, seat, home, controls, downstream>> /\ UNCHANGED <<known, prefers, lease, capturing, ownerMuted>>
       /\ rejoin' = "running"
  BY DEF Rejoin
<1> HIDE DEF m
<1>11. JoinFits(j)' /\ home # Out
  BY <1>4, <1>10, <1>1 DEF JoinFits, VoiceRooms, Out
<1>12. JoinTypes' /\ JoiningWell' /\ DeafensFit' /\ JoinsFit' /\ SeatFits'
  BY <1>1, <1>8, <1>9, <1>10, <1>11, JoinSent
<1>13. ControlTypes' /\ ~Lifting'
  BY <1>2, <1>4, <1>6, <1>8, <1>10 DEF ControlTypes, Lifting, OnlyJoin
<1>14. Quiet'
  BY <1>2, <1>5, <1>6, <1>10, <1>11, <1>13 DEF Quiet, SilencedStaysSilent, LockedByRoom, Shut, Enabled, MayTalk
<1> QED
  BY <1>12, <1>13, <1>14 DEF SilentInv

LEMMA LeaveSilent == ASSUME SilentInv, Leave, ~crossed' PROVE SilentInv'
<1>1. NoJoins /\ rejoin = "idle" /\ home # Out
  BY NotCrossed DEF Leave, NoJoins
<1> DEFINE m == Request("leave", "plain", Fresh)
           u == Outdated(upstream)
<1>2. joins' = <<>>
  BY <1>1 DEF NoJoins, Leave
<1>3. Fresh \in Medias /\ ControlTypes /\ JoinTypes
  BY DEF Fresh, Medias, SilentInv
<1>4. m \in Upward /\ m.kind = "leave" /\ m.ask = "plain"
  BY <1>3, RequestFits DEF AnyAsk
<1>5. u \in Seq(Upward) /\ ~Has(u, UpDeafens) /\ ~Has(u, UpKind("join"))
  BY <1>1, <1>3, OutdatedUp DEF NoJoins, JoinTypes
<1>6. /\ downstream' \in Seq(Downward) /\ ~Has(downstream', DownDeafens) /\ ~Has(downstream', DownKind("joined"))
  BY <1>1, <1>3, OutdatedDown DEF NoJoins, JoinTypes, Leave
<1>7. upstream' = Append(u, m)
  BY <1>1 DEF Leave
<1>8. m \notin UpDeafens /\ m \notin UpKind("join")
  BY <1>4 DEF UpDeafens, UpKind, Deafening
<1> HIDE DEF m, u
<1>9. upstream' \in Seq(Upward) /\ ~Has(upstream', UpDeafens) /\ ~Has(upstream', UpKind("join"))
  BY <1>4, <1>5, <1>7, <1>8, AppendHas
<1>10. /\ UNCHANGED <<connected, seat, ownerMuted>> /\ controls' = Fresh /\ prefers' = [deaf |-> TRUE, mute |-> TRUE]
       /\ known' = FALSE /\ track' = "gone" /\ home' = Out /\ lease' = NoLease /\ capturing' = "nothing" /\ rejoin' = "idle"
  BY DEF Leave
<1>11. ControlTypes' /\ JoinTypes'
  BY <1>2, <1>3, <1>6, <1>9, <1>10, NoLeaseFits DEF ControlTypes, JoinTypes, ControlTracks, AnyRoom
<1>12. Quiet' /\ JoiningWell' /\ SeatFits'
  BY <1>2, <1>10 DEF Quiet, SilencedStaysSilent, LockedByRoom, Shut, JoiningWell, SeatFits, Fresh
<1>13. DeafensFit' /\ JoinsFit'
  BY <1>6, <1>9, <1>10, NoneOf DEF DeafensFit, JoinsFit
<1> QED
  BY <1>11, <1>12, <1>13 DEF SilentInv

LEMMA DropSilent == ASSUME SilentInv, VoiceDrop, ~crossed' PROVE SilentInv'
<1>1. joins = <<>> /\ UNCHANGED <<controls, track, known, prefers, home, lease, ownerMuted>>
  BY DEF VoiceDrop, UnderWay
<1>2. /\ connected' = FALSE /\ upstream' = <<>> /\ downstream' = <<>> /\ capturing' = "nothing" /\ rejoin' = "idle"
      /\ seat' = [seat EXCEPT !.held = FALSE]
  BY DEF VoiceDrop
<1>3. joins' = <<>>
  BY <1>1 DEF VoiceDrop, OutdatedJoins
<1>10. ~crossed
  BY DEF VoiceDrop
<1>4. seat' \in Seats
  <2>1. CASE seat = NoSeat
    BY <1>2, <2>1 DEF Seats, NoSeat
  <2>2. CASE seat \in [room : VoiceRooms, held : BOOLEAN, mic : BOOLEAN, deaf : BOOLEAN]
    BY <1>2, <2>2 DEF Seats
  <2> QED
    BY <2>1, <2>2 DEF SilentInv, ControlTypes, Seats
<1>5. \A S : ~Has(<<>>, S)
  BY DEF Has
<1>6. <<>> \in Seq(Upward) /\ <<>> \in Seq(Downward)
  OBVIOUS
<1>7. ControlTypes' /\ JoinTypes'
  BY <1>1, <1>2, <1>3, <1>4, <1>6 DEF SilentInv, ControlTypes, JoinTypes
<1>8. Quiet' /\ JoiningWell' /\ SeatFits'
  BY <1>1, <1>2, <1>3, <1>10 DEF SilentInv, Quiet, SilencedStaysSilent, Lifting, Shut, JoiningWell, SeatFits
<1>9. DeafensFit' /\ JoinsFit'
  BY <1>2, <1>5, <1>6, NoneOf DEF DeafensFit, JoinsFit
<1> QED
  BY <1>7, <1>8, <1>9 DEF SilentInv

LEMMA ConnectionSilent == ASSUME SilentInv, SeatLost \/ VoiceReconnect PROVE SilentInv'
<1>1. NoJoins /\ ~Has(upstream, UpDeafens) /\ ~connected
  BY WithoutJoins DEF SilentInv, SeatLost, VoiceReconnect, JoiningWell, DeafensFit
<1>2. /\ UNCHANGED <<controls, track, known, prefers, home, lease, capturing, joins, upstream, downstream, ownerMuted, crossed>>
      /\ \/ seat' = NoSeat /\ UNCHANGED <<rejoin, connected>>
         \/ /\ seat' = seat /\ connected' = TRUE /\ rejoin' = IF home = Out THEN "idle" ELSE "scheduled"
  BY DEF SeatLost, VoiceReconnect, controlVars, joinVars, seatVars
<1>3. ControlTypes' /\ JoinTypes'
  BY <1>2 DEF SilentInv, ControlTypes, JoinTypes, Seats
<1>4. Quiet' /\ JoiningWell' /\ SeatFits'
  BY <1>1, <1>2 DEF SilentInv, Quiet, SilencedStaysSilent, Lifting, Shut, JoiningWell, SeatFits, NoJoins
<1>5. DeafensFit' /\ JoinsFit'
  BY <1>1, <1>2, NoneOf DEF SilentInv, DeafensFit, JoinsFit, NoJoins, JoinTypes
<1> QED
  BY <1>3, <1>4, <1>5 DEF SilentInv

LEMMA SnapshotFits ==
    ASSUME ownerMuted \in BOOLEAN, NEW room \in VoiceRooms, NEW at
    PROVE  SnapshotOf(room, at) \in Downward
BY DEF SnapshotOf, Downward, Saves, Medias, AnyAsk, AnyRoom, VoiceRooms, Out

LEMMA ModerateSilent == ASSUME SilentInv, Moderate PROVE SilentInv'
<1>1. /\ UNCHANGED <<controls, track, known, prefers, home, lease, capturing, joins, rejoin, connected, upstream, crossed>>
      /\ ownerMuted' = ~ownerMuted
  BY DEF Moderate, controlVars, joinVars
<1>2. PICK muted \in BOOLEAN : muted = ~ownerMuted
  OBVIOUS
<1>3. seat' \in Seats /\ seat'.held = seat.held /\ seat'.room = seat.room
  BY DEF Normalized, Moderate, SilentInv, ControlTypes, Seats
<1> DEFINE s == SnapshotOf(seat.room, seat)
           m == [s EXCEPT !.muted = muted]
<1>4. downstream' = downstream \/ (downstream' = Append(downstream, m) /\ seat # NoSeat)
  BY <1>1, <1>2 DEF Moderate
<1>12. m.kind = "snapshot" /\ m.current = FALSE
  BY DEF SnapshotOf
<1>5. seat # NoSeat => m \in Downward
  <2> SUFFICES ASSUME seat # NoSeat PROVE m \in Downward
    OBVIOUS
  <2>1. s \in Downward
    BY SnapshotFits DEF SilentInv, ControlTypes, Seats
  <2> HIDE DEF s
  <2> QED
    BY <2>1 DEF Downward
<1>6. m \notin DownDeafens /\ m \notin DownKind("joined") /\ m \notin AcceptedJoins
  BY <1>12 DEF DownDeafens, DownKind, AcceptedJoins
<1> HIDE DEF m
<1>7. Answered(joins, seat') = Answered(joins, seat)
  BY <1>3 DEF Answered
<1>8. /\ downstream' \in Seq(Downward)
      /\ Has(downstream', DownDeafens) => Has(downstream, DownDeafens)
      /\ Has(downstream', DownDeafens \ DownHere(controls.deaf)) => Has(downstream, DownDeafens \ DownHere(controls.deaf))
      /\ Has(downstream', DownKind("joined")) => Has(downstream, DownKind("joined"))
      /\ Once(downstream, DownKind("joined")) => Once(downstream', DownKind("joined"))
      /\ Has(downstream', DownKind("joined") \ Answered(joins, seat)) => Has(downstream, DownKind("joined") \ Answered(joins, seat))
      /\ Has(downstream, AcceptedJoins) => Has(downstream', AcceptedJoins)
  <2>1. downstream \in Seq(Downward)
    BY DEF SilentInv, JoinTypes
  <2>2. CASE downstream' = downstream
    BY <2>1, <2>2
  <2>3. CASE downstream' = Append(downstream, m) /\ seat # NoSeat
    BY <1>5, <1>6, <2>1, <2>3, AppendHas
  <2> QED
    BY <1>4, <2>2, <2>3
<1>9. ControlTypes' /\ JoinTypes'
  BY <1>1, <1>2, <1>3, <1>8 DEF SilentInv, ControlTypes, JoinTypes
<1>10. Quiet' /\ JoiningWell' /\ SeatFits'
  BY <1>1, <1>3, <1>8 DEF SilentInv, Quiet, SilencedStaysSilent, Lifting, Shut, JoiningWell, JoinFits, SeatFits
<1>11. DeafensFit' /\ JoinsFit'
  BY <1>1, <1>3, <1>7, <1>8 DEF SilentInv, DeafensFit, JoinsFit
<1> QED
  BY <1>9, <1>10, <1>11 DEF SilentInv

AnswersAs(a, q, at) ==
    /\ a \in Downward /\ a.ask = q.ask /\ a.current = q.current /\ a.media.deaf = at.deaf
    /\ a.kind = IF q.kind = "join" THEN "joined" ELSE "set"
LEMMA AnswerFits ==
    ASSUME ownerMuted \in BOOLEAN, NEW q \in Upward, q.kind \in {"join", "media"}, NEW at \in Seats
    PROVE  /\ AnswersAs(Answer(q, TRUE, at), q, at) /\ Answer(q, TRUE, at).ok
           /\ AnswersAs(Answer(q, FALSE, at), q, at) /\ ~Answer(q, FALSE, at).ok
<1>1. at \in [room : AnyRoom, held : BOOLEAN, mic : BOOLEAN, deaf : BOOLEAN]
  <2>1. NoSeat \in [room : AnyRoom, held : BOOLEAN, mic : BOOLEAN, deaf : BOOLEAN]
    BY DEF NoSeat, AnyRoom
  <2> QED
    BY <2>1 DEF Seats, AnyRoom
<1>2. [mic |-> at.mic, deaf |-> at.deaf] \in Medias
  BY <1>1 DEF Medias
<1> QED
  BY <1>1, <1>2 DEF Answer, AnswersAs, Upward, Downward

LEMMA SeatedFits ==
    ASSUME NEW room \in VoiceRooms, NEW media \in Medias
    PROVE  /\ Seated(room, media) \in Seats /\ Seated(room, media).room = room
           /\ Seated(room, media).held /\ Seated(room, media).deaf = media.deaf
BY DEF Normalized, Seated, Seats, Medias

\* The messages and the seat once the server has carried out the next request.
LEMMA ServedFits ==
    ASSUME SilentInv, connected, upstream # <<>>, upstream' = Tail(upstream), UNCHANGED <<controls, home, joins, rejoin, connected>>,
           seat' \in Seats,
           \/ UNCHANGED <<seat, downstream>>
           \/ Head(upstream).kind = "leave" /\ UNCHANGED downstream
           \/ \E a \in Downward :
                 /\ downstream' = Append(downstream, a) /\ a.kind = "set" /\ (a \in DownDeafens => a \in DownHere(controls.deaf))
                 /\ a \in DownDeafens => Head(upstream) \in UpDeafens
                 /\ seat'.held = seat.held /\ seat'.room = seat.room
           \/ \E a \in Downward, b \in Seq(Downward) :
                 /\ Head(upstream).kind = "join" /\ b = Append(downstream, a) /\ a.kind = "joined" /\ a.ask = Head(upstream).ask
                 /\ \/ ~a.ok /\ seat' = seat /\ downstream' = b
                    \/ /\ a.ok /\ seat'.held /\ seat'.room = Head(upstream).room
                       /\ \E c \in Downward : c.kind = "snapshot" /\ c.current = FALSE /\ downstream' = Append(b, c)
    PROVE  JoinTypes' /\ DeafensFit' /\ JoinsFit' /\ SeatFits'
<1> DEFINE q == Head(upstream)
<1>1. JoinTypes /\ DeafensFit /\ JoinsFit /\ SeatFits
  BY DEF SilentInv
<1>2. upstream \in Seq(Upward) /\ downstream \in Seq(Downward) /\ q \in Upward /\ upstream' \in Seq(Upward)
  BY <1>1, HeadAndTail DEF JoinTypes
<1>3. /\ Has(upstream', UpDeafens) => Has(upstream, UpDeafens)
      /\ Has(upstream', UpKind("leave")) => Has(upstream, UpKind("leave"))
      /\ Has(upstream', UpKind("join")) => Has(upstream, UpKind("join"))
      /\ Has(upstream', UpDeafens \ UpHere(controls.deaf, home)) => Has(upstream, UpDeafens \ UpHere(controls.deaf, home))
      /\ Has(upstream', UpKind("join") \ Asked(joins)) => Has(upstream, UpKind("join") \ Asked(joins))
      /\ Once(upstream', UpKind("join"))
      /\ Before(upstream', UpDeafens, UpKind("join")) /\ Before(upstream', UpKind("leave"), UpKind("join"))
  BY <1>1, <1>2, TailHas, TailBefore DEF JoinsFit
<1>4. q.kind = "join" => /\ ~Has(upstream, UpDeafens) /\ ~Has(upstream, UpKind("leave")) /\ ~Has(upstream', UpKind("join"))
                         /\ ~Has(downstream, DownKind("joined")) /\ q \in Asked(joins)
  BY <1>2, <1>1, TailHas, TailBefore DEF UpKind, JoinsFit
<1>5. q.kind = "leave" => /\ home = Out /\ ~Has(downstream, DownKind("joined"))
  BY <1>2, TailHas, <1>1 DEF UpKind, JoinsFit
<1>6. Has(upstream, UpDeafens) /\ q.kind \notin {"join", "leave"} => connected /\ home # Out /\ seat.held /\ seat.room = home
  BY <1>1 DEF DeafensFit
<1>7. q \in UpDeafens => home # Out
  BY <1>1, <1>2, TailHas DEF DeafensFit
<1> HIDE DEF q
<1>8. CASE UNCHANGED <<seat, downstream>> \/ (q.kind = "leave" /\ UNCHANGED downstream)
  BY <1>1, <1>5, <1>8, <1>2, NoneOf, <1>3 DEF DeafensFit, JoinsFit, JoinTypes, SeatFits
<1>9. ASSUME NEW a \in Downward, downstream' = Append(downstream, a), a.kind = "set", a \in DownDeafens => a \in DownHere(controls.deaf),
             a \in DownDeafens => q \in UpDeafens, seat'.held = seat.held, seat'.room = seat.room
      PROVE  JoinTypes' /\ DeafensFit' /\ JoinsFit' /\ SeatFits'
  BY <1>9, <1>1, <1>2, <1>7, AppendHas, <1>3 DEF DownKind, AcceptedJoins, Answered, DeafensFit, JoinsFit, JoinTypes,
     SeatFits
<1>10. ASSUME NEW a \in Downward, NEW b \in Seq(Downward), q.kind = "join", b = Append(downstream, a), a.kind = "joined", a.ask = q.ask,
              \/ ~a.ok /\ seat' = seat /\ downstream' = b
              \/ /\ a.ok /\ seat'.held /\ seat'.room = q.room
                 /\ \E c \in Downward : c.kind = "snapshot" /\ c.current = FALSE /\ downstream' = Append(b, c)
       PROVE  JoinTypes' /\ DeafensFit' /\ JoinsFit' /\ SeatFits'
  <2>1. a \in Answered(joins, seat') /\ a \notin DownDeafens
    BY <1>1, <1>4, <1>10 DEF Asked, JoinTypes, OnlyJoin, Answered, DownDeafens, Deafening
  <2>2. /\ Once(b, DownKind("joined")) /\ ~Has(b, DownKind("joined") \ Answered(joins, seat'))
        /\ Has(b, DownDeafens) => home # Out
        /\ ~Has(b, DownDeafens \ DownHere(controls.deaf))
        /\ Has(b, AcceptedJoins) \/ (~a.ok /\ (Has(downstream, AcceptedJoins) <=> Has(b, AcceptedJoins)))
    <3>1. a.ok => a \in AcceptedJoins
      BY <1>10 DEF AcceptedJoins
    <3>2. ~a.ok => a \notin AcceptedJoins
      BY DEF AcceptedJoins
    <3>3. ~Has(downstream, DownKind("joined") \ Answered(joins, seat')) /\ Once(downstream, DownKind("joined"))
      BY <1>2, <1>4, <1>10, NoneOf
    <3>4. Once(b, DownKind("joined")) /\ ~Has(b, DownKind("joined") \ Answered(joins, seat'))
      BY <1>2, <1>4, <1>10, <2>1, <3>3, AppendHas
    <3>5. /\ Has(b, DownDeafens) => home # Out
          /\ ~Has(b, DownDeafens \ DownHere(controls.deaf))
      BY <1>1, <1>2, <1>10, <2>1, AppendHas DEF DeafensFit
    <3>6. Has(b, AcceptedJoins) <=> Has(downstream, AcceptedJoins) \/ a \in AcceptedJoins
      BY <1>2, <1>10, AppendHas
    <3> QED
      BY <1>10, <3>1, <3>2, <3>4, <3>5, <3>6
  <2>3. /\ downstream' \in Seq(Downward) /\ Once(downstream', DownKind("joined"))
        /\ ~Has(downstream', DownKind("joined") \ Answered(joins, seat'))
        /\ Has(downstream', DownDeafens) => home # Out
        /\ ~Has(downstream', DownDeafens \ DownHere(controls.deaf))
        /\ Has(downstream', AcceptedJoins) \/ (seat' = seat /\ (Has(downstream, AcceptedJoins) <=> Has(downstream', AcceptedJoins)))
    <3>1. CASE downstream' = b /\ seat' = seat
      BY <1>10, <2>2, <3>1
    <3>2. CASE a.ok /\ \E c \in Downward : c.kind = "snapshot" /\ c.current = FALSE /\ downstream' = Append(b, c)
      BY <3>2, <2>2, AppendHas DEF DownKind, DownDeafens
    <3> QED
      BY <1>10, <3>1, <3>2
  <2> QED
    BY <1>1, <1>2, <1>3, <1>4, <1>10, <2>3 DEF JoinTypes, DeafensFit, JoinsFit, SeatFits
<1> QED
  BY <1>8, <1>9, <1>10 DEF q

LEMMA SeatFacts ==
    ASSUME NEW s \in Seats
    PROVE  /\ s.held \in BOOLEAN /\ s.deaf \in BOOLEAN
           /\ s.held \/ s # NoSeat => s.room \in VoiceRooms
<1>1. CASE s = NoSeat
  BY <1>1 DEF NoSeat
<1> QED
  BY <1>1 DEF Seats

LEMMA JoinsTyped ==
    ASSUME JoinTypes, NEW n \in DOMAIN joins
    PROVE  n \in {"j1", "j2"} /\ joins[n] \in JoinType /\ joins = OnlyJoin(n, joins[n])
<1>1. PICK m \in {"j1", "j2"}, j \in JoinType : joins = OnlyJoin(m, j)
  BY DEF JoinTypes
<1> QED
  BY <1>1 DEF OnlyJoin

LEMMA ServerSilent == ASSUME SilentInv, ServerAnswers PROVE SilentInv'
<1> DEFINE q == Head(upstream)
<1>1. ControlTypes /\ upstream \in Seq(Upward) /\ upstream # <<>> /\ connected /\ upstream' = Tail(upstream)
  BY DEF SilentInv, JoinTypes, ServerAnswers
<1>2. q \in Upward /\ q \in Upward /\ (q.kind = "media" /\ q \in UpDeafens => Has(upstream, UpDeafens))
  BY <1>1, HeadAndTail, TailHas
<1>3. UNCHANGED <<controls, track, known, prefers, home, lease, capturing, joins, rejoin, connected, ownerMuted, crossed>>
  BY DEF ServerAnswers, controlVars, joinVars
<1>4. seat \in Seats /\ ownerMuted \in BOOLEAN /\ downstream \in Seq(Downward)
  BY <1>1 DEF ControlTypes, SilentInv, JoinTypes
<1>5. q \in UpDeafens => q \in UpHere(controls.deaf, home) /\ seat.held /\ seat.room = home
  BY <1>1, <1>2, HeadAndTail, TailHas DEF SilentInv, DeafensFit
<1> HIDE DEF q
<1>6. seat' \in Seats /\ JoinTypes' /\ DeafensFit' /\ JoinsFit' /\ SeatFits'
  <2>1. CASE /\ q.kind = "join"
             /\ seat' = Seated(q.room, q.media)
             /\ downstream' = downstream \o <<Answer(q, TRUE, seat'), SnapshotOf(q.room, seat')>>
    <3> DEFINE a == Answer(q, TRUE, seat')
               c == SnapshotOf(q.room, seat')
    <3>1. q.room \in VoiceRooms
      <4>1. q \in Asked(joins)
        BY <1>1, <1>2, <2>1, HeadAndTail, TailHas DEF SilentInv, JoinsFit, UpKind, q
      <4> QED
        BY <4>1, JoinsTyped DEF SilentInv, Asked, JoinType
    <3>2. seat' \in Seats /\ seat'.held /\ seat'.room = q.room
      BY <1>2, <2>1, <3>1, SeatedFits DEF Upward
    <3>3. a \in Downward /\ a.kind = "joined" /\ a.ask = q.ask /\ a.ok
      BY <1>2, <1>4, <2>1, <3>2, AnswerFits DEF AnswersAs
    <3>4. c \in Downward /\ c.kind = "snapshot" /\ c.current = FALSE
      BY <1>4, <3>1, SnapshotFits DEF SnapshotOf
    <3> HIDE DEF a, c
    <3>5. downstream' = Append(Append(downstream, a), c) /\ Append(downstream, a) \in Seq(Downward)
      <4>1. downstream' = downstream \o <<a, c>>
        BY <2>1 DEF a, c
      <4> QED
        BY <1>4, <3>3, <3>4, <4>1
    <3> QED
      BY <1>1, <1>3, <2>1, <3>2, <3>3, <3>4, <3>5, ServedFits DEF q
  <2>2. CASE /\ q.kind = "join" /\ downstream' = Append(downstream, Answer(q, FALSE, seat)) /\ UNCHANGED seat
    <3> DEFINE a == Answer(q, FALSE, seat)
    <3>1. a \in Downward /\ a.kind = "joined" /\ a.ask = q.ask /\ ~a.ok
      BY <1>2, <1>4, <2>2, AnswerFits DEF AnswersAs
    <3> HIDE DEF a
    <3>2. downstream' = Append(downstream, a)
      BY <2>2 DEF a
    <3>3. Append(downstream, a) \in Seq(Downward)
      BY <1>4, <3>1
    <3> QED
      BY <1>1, <1>3, <1>4, <2>2, <3>1, <3>2, <3>3, ServedFits DEF q
  <2>3. CASE /\ q.kind = "media" /\ seat.held /\ seat.room = q.room
             /\ seat' = Seated(q.room, [mic |-> q.media.mic,
                                        deaf |-> IF q.ask \in Deafening THEN q.media.deaf ELSE seat.deaf])
             /\ downstream' = Append(downstream, Answer(q, TRUE, seat'))
    <3> DEFINE a == Answer(q, TRUE, seat')
    <3>1. PICK deaf \in BOOLEAN : deaf = IF q.ask \in Deafening THEN q.media.deaf ELSE seat.deaf
      BY <1>2, <1>4, SeatFacts DEF Upward, Medias
    <3>2. q.room \in VoiceRooms /\ [mic |-> q.media.mic, deaf |-> deaf] \in Medias
      BY <1>2, <1>4, <2>3, SeatFacts DEF Upward, Medias
    <3>3. seat' \in Seats /\ seat'.held /\ seat'.room = q.room /\ seat'.deaf = deaf
      BY <2>3, <3>1, <3>2, SeatedFits
    <3>4. a \in Downward /\ a.kind = "set" /\ a.ok /\ a.ask = q.ask /\ a.current = q.current /\ a.media.deaf = deaf
      <4>1. AnswersAs(a, q, seat') /\ a.ok
        BY <1>2, <1>4, <2>3, <3>3, AnswerFits
      <4> HIDE DEF a
      <4> QED
        BY <2>3, <3>3, <4>1 DEF AnswersAs
    <3>5. a \in DownDeafens => q \in UpDeafens /\ a \in DownHere(controls.deaf)
      BY <1>2, <1>5, <3>1, <3>4 DEF DownDeafens, UpDeafens, UpHere, DownHere
    <3>6. downstream' = Append(downstream, a)
      BY <2>3
    <3> HIDE DEF a
    <3>7. (seat'.held = seat.held) /\ seat'.room = seat.room
      BY <1>4, <2>3, <3>3, SeatFacts
    <3> QED
      BY <1>1, <1>3, <3>3, <3>4, <3>5, <3>6, <3>7, ServedFits DEF q
  <2>4. CASE /\ q.kind = "media" /\ ~(seat.held /\ seat.room = q.room)
             /\ downstream' = Append(downstream, Answer(q, FALSE, seat)) /\ UNCHANGED seat
    <3> DEFINE a == Answer(q, FALSE, seat)
    <3>1. a \in Downward /\ a.kind = "set" /\ a.ask = q.ask /\ a.current = q.current
      BY <1>2, <1>4, <2>4, AnswerFits DEF AnswersAs
    <3>2. a \notin DownDeafens
      BY <1>2, <1>5, <2>4, <3>1 DEF DownDeafens, UpDeafens, UpHere
    <3>3. downstream' = Append(downstream, a) /\ seat' = seat
      BY <2>4
    <3> HIDE DEF a
    <3> QED
      BY <1>1, <1>3, <1>4, <3>1, <3>2, <3>3, ServedFits DEF q
  <2>5. CASE /\ q.kind = "leave" /\ seat' = (IF seat.room = q.room THEN NoSeat ELSE seat) /\ UNCHANGED downstream
    BY <1>1, <1>3, <1>4, <2>5, ServedFits DEF Seats, q
  <2> QED
    BY <2>1, <2>2, <2>3, <2>4, <2>5 DEF ServerAnswers, q
<1>7. ControlTypes'
  BY <1>1, <1>3, <1>6 DEF ControlTypes
<1>8. Quiet' /\ JoiningWell'
  BY <1>3 DEF SilentInv, Quiet, SilencedStaysSilent, Lifting, Shut, JoiningWell, JoinFits
<1> QED
  BY <1>6, <1>7, <1>8 DEF SilentInv

\* The rest of the messages once the first has been read.
LEMMA ReadFits ==
    ASSUME SilentInv, downstream # <<>>, NEW a, a = Head(downstream), NEW t, t = Tail(downstream)
    PROVE  /\ a \in Downward /\ t \in Seq(Downward) /\ Once(t, DownKind("joined"))
           /\ \A S : Has(t, S) => Has(downstream, S)
           /\ a \in DownDeafens => a \in DownHere(controls.deaf) /\ home # Out
           /\ ~Has(t, AcceptedJoins) /\ a \notin AcceptedJoins => ~Has(downstream, AcceptedJoins)
           /\ a.kind = "joined" =>
                 /\ a \in Answered(joins, seat) /\ ~Has(t, DownKind("joined"))
                 /\ ~Has(upstream, UpKind("join")) /\ ~Has(upstream, UpKind("leave")) /\ ~Has(upstream, UpDeafens)
<1>1. downstream \in Seq(Downward) /\ DeafensFit /\ JoinsFit
  BY DEF SilentInv, JoinTypes
<1>2. a \in Downward /\ t \in Seq(Downward)
  BY <1>1, HeadAndTail
<1>3. \A S : Has(downstream, S) <=> a \in S \/ Has(t, S)
  BY <1>1, TailHas
<1>4. Once(t, DownKind("joined")) /\ (a \in DownKind("joined") => ~Has(t, DownKind("joined")))
  BY <1>1, TailHas DEF JoinsFit
<1>5. a \in DownDeafens => a \in DownHere(controls.deaf) /\ home # Out
  BY <1>1, <1>3 DEF DeafensFit
<1>6. ASSUME a.kind = "joined"
      PROVE  /\ a \in Answered(joins, seat) /\ ~Has(t, DownKind("joined"))
             /\ ~Has(upstream, UpKind("join")) /\ ~Has(upstream, UpKind("leave")) /\ ~Has(upstream, UpDeafens)
  BY <1>2, <1>6, <1>1, <1>3, <1>4 DEF DownKind, JoinsFit
<1> QED
  BY <1>2, <1>3, <1>4, <1>5, <1>6

\* A join that has been answered is settled.
LEMMA SettledFits ==
    ASSUME SilentInv, NEW n \in DOMAIN joins, Settled(n)
    PROVE  joins' = <<>> /\ joins[n] \in JoinType /\ JoinFits(joins[n]) /\ (Lifting <=> joins[n].lifts) /\ ~Lifting'
<1>1. n \in {"j1", "j2"} /\ joins[n] \in JoinType /\ joins = OnlyJoin(n, joins[n])
  BY JoinsTyped DEF SilentInv
<1>2. DOMAIN joins \ {n} = {}
  BY <1>1 DEF OnlyJoin
<1>3. joins' = <<>>
  BY <1>2 DEF Settled
<1>4. DOMAIN joins' = {}
  BY <1>3
<1>5. \A i \in DOMAIN joins : i = n
  BY <1>2
<1> QED
  BY <1>1, <1>3, <1>4, <1>5 DEF SilentInv, JoiningWell, Lifting

LEMMA RejoinedSilent ==
    ASSUME SilentInv, ~crossed, ClientHears, NEW n \in DOMAIN joins, joins[n].again, Head(downstream).kind = "joined",
           Head(downstream).ask = n
    PROVE  SilentInv'
<1> DEFINE a == Head(downstream)
           t == Tail(downstream)
<1>1. downstream # <<>> /\ RejoinAnswered(n, a) /\ UNCHANGED <<lease, capturing, connected, seat, ownerMuted>>
  BY DEF ClientHears
<1>2. /\ Settled(n) /\ downstream' = t /\ UNCHANGED <<controls, track, known, prefers, home, upstream>>
      /\ rejoin' = IF ~(joins[n].current /\ home = joins[n].room) THEN rejoin ELSE IF a.ok THEN "idle" ELSE "scheduled"
  BY <1>1 DEF RejoinAnswered
<1>3. /\ a \in Downward /\ t \in Seq(Downward) /\ Once(t, DownKind("joined"))
      /\ \A S : Has(t, S) => Has(downstream, S)
      /\ a \in Answered(joins, seat) /\ ~Has(t, DownKind("joined"))
      /\ ~Has(upstream, UpKind("join")) /\ ~Has(upstream, UpKind("leave")) /\ ~Has(upstream, UpDeafens)
  BY <1>1, ReadFits
<1>4. joins' = <<>> /\ joins[n].current = TRUE /\ joins[n].room = home /\ ~Lifting /\ ~Lifting' /\ home # Out /\ joins # <<>>
      /\ connected
  BY <1>2, SettledFits DEF JoinType, JoinFits, SilentInv, JoiningWell
<1>5. a.ok => seat.held /\ seat.room = home
  BY <1>3, <1>4 DEF Answered
<1> HIDE DEF a, t
<1>6. rejoin' = IF a.ok THEN "idle" ELSE "scheduled"
  BY <1>2, <1>4
<1>7. ControlTypes' /\ JoinTypes'
  BY <1>1, <1>2, <1>3, <1>4, <1>6 DEF SilentInv, ControlTypes, JoinTypes
<1>8. Quiet' /\ JoiningWell' /\ SeatFits'
  BY <1>1, <1>2, <1>4, <1>5, <1>6 DEF SilentInv, Quiet, SilencedStaysSilent, Shut, JoiningWell, SeatFits
<1>9. DeafensFit' /\ JoinsFit'
  BY <1>1, <1>2, <1>3, NoneOf DEF SilentInv, JoinTypes, DeafensFit, JoinsFit
<1> QED
  BY <1>7, <1>8, <1>9 DEF SilentInv

LEMMA JoinedSilent ==
    ASSUME SilentInv, ~crossed, ClientHears, NEW n \in DOMAIN joins, ~joins[n].again, Head(downstream).kind = "joined",
           Head(downstream).ask = n
    PROVE  SilentInv'
<1> DEFINE a == Head(downstream)
           t == Tail(downstream)
           j == joins[n]
<1>1. downstream # <<>> /\ JoinAnswered(n, a) /\ UNCHANGED <<lease, capturing, connected, seat, ownerMuted, crossed>>
  BY DEF ClientHears
<1>2. /\ a \in Downward /\ t \in Seq(Downward) /\ Once(t, DownKind("joined"))
      /\ \A S : Has(t, S) => Has(downstream, S)
      /\ a \in Answered(joins, seat) /\ ~Has(t, DownKind("joined"))
      /\ ~Has(upstream, UpKind("join")) /\ ~Has(upstream, UpKind("leave")) /\ ~Has(upstream, UpDeafens)
      /\ ~Has(t, AcceptedJoins) /\ a \notin AcceptedJoins => ~Has(downstream, AcceptedJoins)
  BY <1>1, ReadFits
<1>3. /\ joins' = <<>> /\ j \in JoinType /\ (Lifting <=> j.lifts) /\ ~Lifting' /\ Shut /\ rejoin = "idle" /\ rejoin' = "idle"
      /\ LockedByRoom(j.room) => ~j.mic
      /\ j.acquired => j.found = "gone"
      /\ j.found = "gone" => track = "gone"
      /\ j.found = "sending" => track = "sending" /\ ~j.lifts
  BY <1>1, SettledFits DEF JoinFits, JoinAnswered
<1>4. ControlTypes /\ JoinTypes /\ Quiet /\ connected /\ Shut'
  BY <1>1, <1>3 DEF SilentInv, ClientHears, Shut
<1>5. a.ok => seat.held /\ seat.room = j.room
  BY <1>2 DEF Answered
<1>6. /\ a.muted \in BOOLEAN /\ a.media \in Medias /\ j.current = TRUE /\ j.room \in VoiceRooms /\ j.room # Out /\ j.mic \in BOOLEAN
      /\ j.found \in ControlTracks
  BY <1>2, <1>3 DEF Downward, JoinType, VoiceRooms, Out
<1>7. CASE a.ok
  <2>1. /\ JoinAccepted(j, a) /\ upstream' = Outdated(upstream) /\ downstream' = Outdated(t)
    BY <1>1, <1>6, <1>7 DEF JoinAnswered
  <2>2. PICK c \in Medias : c = Accepted(a)
    <3>1. PICK b \in BOOLEAN : b = (a.media.mic /\ ~a.muted /\ ~a.media.deaf)
      OBVIOUS
    <3>2. Accepted(a) = [mic |-> b, deaf |-> a.media.deaf] /\ a.media.deaf \in BOOLEAN
      BY <1>6, <3>1 DEF Accepted, Medias
    <3> HIDE DEF a
    <3> QED
      BY <3>1, <3>2 DEF Medias
  <2>3. PICK may \in BOOLEAN : may = MayTalk(c, a.muted, j.room)
    BY DEF MayTalk
  <2>4. PICK dp \in BOOLEAN, mp \in BOOLEAN : dp = (IF a.media.deaf THEN j.mic ELSE c.mic)
                                              /\ mp = (IF a.muted THEN j.mic ELSE prefers.mute)
    BY <1>4, <1>6 DEF Medias, ControlTypes
  <2>5. /\ controls' = c /\ known' = a.muted /\ home' = j.room /\ prefers' = [deaf |-> dp, mute |-> mp]
        /\ track' = IF ~j.mic THEN "gone" ELSE Enabled(IF j.acquired THEN "silent" ELSE track, may)
    BY <2>1, <2>2, <2>3, <2>4 DEF JoinAccepted
  <2>6. track' \in ControlTracks /\ (track' = "sending" => may) /\ (~j.mic => track' = "gone")
    BY <1>4, <2>5 DEF Enabled, ControlTracks, ControlTypes
  <2>7. upstream \in Seq(Upward)
    BY <1>4 DEF JoinTypes
  <2>8. /\ upstream' \in Seq(Upward) /\ ~Has(upstream', UpDeafens) /\ ~Has(upstream', UpKind("join")) /\ ~Has(upstream', UpKind("leave"))
    BY <1>2, <2>1, <2>7, OutdatedUp
  <2>9. downstream' \in Seq(Downward) /\ ~Has(downstream', DownDeafens) /\ ~Has(downstream', DownKind("joined"))
    BY <1>2, <2>1, OutdatedDown
  <2> HIDE DEF a, j, t
  <2>10. ControlTypes' /\ JoinTypes'
    BY <1>1, <1>3, <1>4, <1>6, <2>5, <2>6, <2>8, <2>9 DEF ControlTypes, JoinTypes, AnyRoom
  <2>11. Quiet'
    BY <1>3, <1>4, <1>6, <2>3, <2>5, <2>6 DEF Quiet, SilencedStaysSilent, MayTalk, LockedByRoom
  <2>12. JoiningWell' /\ SeatFits'
    BY <1>1, <1>3, <1>4, <1>5, <1>7, <2>5 DEF JoiningWell, SeatFits
  <2>13. DeafensFit' /\ JoinsFit'
    BY <2>8, <2>9, NoneOf DEF DeafensFit, JoinsFit
  <2> QED
    BY <2>10, <2>11, <2>12, <2>13 DEF SilentInv
<1>8. CASE ~a.ok
  <2>1. JoinUndone(j) /\ UNCHANGED upstream /\ downstream' = t
    BY <1>1, <1>8 DEF JoinAnswered
  <2> HIDE DEF a, j, t
  <2>2. UNCHANGED <<controls, known, prefers, home>>
        /\ track' = IF j.acquired \/ j.found = "gone" THEN track ELSE Enabled(track, j.found = "sending")
    BY <2>1 DEF JoinUndone
  <2>3. track' \in ControlTracks /\ (track = "gone" => track' = "gone") /\ (track' = "sending" => track = "sending" /\ ~j.lifts)
    BY <1>3, <1>4, <1>6, <2>2 DEF Enabled, ControlTypes, ControlTracks
  <2>4. ControlTypes' /\ JoinTypes'
    BY <1>1, <1>2, <1>3, <1>4, <2>1, <2>2, <2>3 DEF ControlTypes, JoinTypes
  <2>5. Quiet' /\ JoiningWell'
    BY <1>1, <1>3, <1>4, <2>2, <2>3 DEF Quiet, SilencedStaysSilent, JoiningWell, LockedByRoom
  <2>6. SeatFits'
    BY <1>1, <1>2, <1>3, <1>4, <1>8, <2>1, <2>2 DEF SeatFits, SilentInv, AcceptedJoins
  <2>7. DeafensFit' /\ JoinsFit'
    BY <1>1, <1>2, <1>4, <2>1, <2>2, NoneOf DEF SilentInv, DeafensFit, JoinsFit, JoinTypes
  <2> QED
    BY <2>4, <2>5, <2>6, <2>7 DEF SilentInv
<1> QED
  BY <1>7, <1>8

\* What a message that answers no join may change.
Told(m) ==
    /\ controls' \in Medias /\ controls'.deaf = controls.deaf /\ track' \in ControlTracks /\ known' \in BOOLEAN
    /\ prefers' \in [deaf : BOOLEAN, mute : BOOLEAN]
    /\ track = "gone" => track' = "gone"
    /\ (track' = track /\ known' = known) \/ (home # Out /\ (track' = "sending" => ~known' /\ ~controls.deaf))
    /\ m \in Upward /\ m.kind = "media" /\ m.ask \notin Deafening /\ upstream' \in {upstream, Append(upstream, m)}
LEMMA ToldFits ==
    ASSUME SilentInv, ClientHears, ~(Head(downstream).kind = "joined" /\ Head(downstream).ask \in DOMAIN joins)
    PROVE  \E m : Told(m)
<1> DEFINE a == Head(downstream)
<1>1. /\ a \in Downward /\ (a \in DownDeafens => a \in DownHere(controls.deaf) /\ home # Out)
  BY ReadFits DEF ClientHears
<1>2. ControlTypes
  BY DEF SilentInv
<1>3. a.muted \in BOOLEAN /\ a.media \in Medias
  BY <1>1 DEF Downward
<1>4. PICK plain \in Upward : plain.kind = "media" /\ plain.ask \notin Deafening
  <2>1. Request("media", "plain", Fresh) \in Upward
    BY <1>2, RequestFits DEF AnyAsk, Fresh, Medias
  <2> QED
    BY <2>1 DEF Request, Deafening
<1>5. CASE UNCHANGED <<controls, track, known, prefers, upstream>>
  BY <1>2, <1>4, <1>5 DEF Told, ControlTypes
<1>6. PICK c \in Medias : c = Accepted(a) /\ c.deaf = a.media.deaf
  <2>1. PICK b \in BOOLEAN : b = (a.media.mic /\ ~a.muted /\ ~a.media.deaf)
    OBVIOUS
  <2>2. Accepted(a) = [mic |-> b, deaf |-> a.media.deaf] /\ a.media.deaf \in BOOLEAN
    BY <1>3, <2>1 DEF Accepted, Medias
  <2> HIDE DEF a
  <2> QED
    BY <2>2 DEF Medias
<1>7. CASE a.kind = "snapshot" /\ SnapshotApplied(a)
  <2>1. CASE a.room # home \/ ~a.ok \/ a.muted = known
    BY <1>5, <1>7, <2>1 DEF SnapshotApplied
  <2>2. CASE ~(a.room # home \/ ~a.ok \/ a.muted = known)
    <3> HIDE DEF a
    <3>1. PICK r \in BOOLEAN, mic \in BOOLEAN :
             r = (prefers.mute /\ ~controls.deaf) /\ mic = (~a.muted /\ r /\ track # "gone")
      OBVIOUS
    <3>2. /\ known' = a.muted /\ prefers' = (IF a.muted THEN [prefers EXCEPT !.mute = controls.mic] ELSE prefers)
          /\ track' = Enabled(track, ~a.muted /\ r) /\ controls' = [controls EXCEPT !.mic = mic]
          /\ upstream' = Append(upstream, Request("media", IF a.muted THEN "plain" ELSE "restored",
                                                  [mic |-> Effective(controls', track').mic, deaf |-> controls.deaf]))
      BY <1>7, <2>2, <3>1 DEF SnapshotApplied, Emit
    <3>3. PICK ask \in {"plain", "restored"} : ask = IF a.muted THEN "plain" ELSE "restored"
      OBVIOUS
    <3>4. controls' \in Medias /\ controls'.deaf = controls.deaf
      BY <1>2, <3>2 DEF ControlTypes, Medias
    <3>5. PICK media \in Medias : media = [mic |-> Effective(controls', track').mic, deaf |-> controls.deaf]
      BY <1>2 DEF Effective, Medias, ControlTypes
    <3> DEFINE m == Request("media", ask, media)
    <3>6. m \in Upward /\ m.kind = "media" /\ m.ask \notin Deafening
      BY <1>2, RequestFits DEF AnyAsk, Deafening
    <3>7. upstream' = Append(upstream, m)
      BY <3>2, <3>3, <3>5
    <3> HIDE DEF m
    <3>8. home # Out
      BY <1>1, <1>7, <2>2 DEF Downward
    <3>9. prefers' \in [deaf : BOOLEAN, mute : BOOLEAN]
      BY <1>2, <3>2 DEF ControlTypes, Medias
    <3>10. track' \in ControlTracks /\ (track = "gone" => track' = "gone") /\ (track' = "sending" => ~a.muted /\ r)
      BY <1>2, <3>2 DEF ControlTypes, ControlTracks, Enabled
    <3> QED
      BY <1>3, <3>1, <3>2, <3>4, <3>6, <3>7, <3>8, <3>9, <3>10 DEF Told
  <2> QED
    BY <2>1, <2>2
<1>8. CASE a.kind = "set" /\ a.ask \in Deafening /\ DeafenAnswered(a) /\ UNCHANGED <<known, upstream>>
  <2>1. CASE ~a.current
    BY <1>5, <1>8, <2>1 DEF DeafenAnswered
  <2>2. CASE a.current
    <3>1. a.ok /\ a.media.deaf = controls.deaf /\ home # Out
      BY <1>1, <1>8, <2>2 DEF DownDeafens, DownHere
    <3>2. PICK may \in BOOLEAN : may = MayTalk(controls, known, home)
      BY DEF MayTalk
    <3> HIDE DEF a
    <3>3. track' = Enabled(track, may) /\ controls' = c /\ prefers' = prefers
      BY <1>6, <1>8, <2>2, <3>1, <3>2 DEF DeafenAnswered
    <3>4. track' \in ControlTracks /\ (track = "gone" => track' = "gone") /\ (track' = "sending" => ~known /\ ~controls.deaf)
      BY <1>2, <3>2, <3>3 DEF ControlTypes, ControlTracks, Enabled, MayTalk
    <3> QED
      BY <1>2, <1>4, <1>6, <1>8, <3>1, <3>3, <3>4 DEF Told, ControlTypes
  <2> QED
    BY <2>1, <2>2
<1>9. CASE a.kind = "set" /\ a.ask = "restored" /\ Restored(a) /\ UNCHANGED <<known, upstream>>
  <2> HIDE DEF a
  <2>1. UNCHANGED <<track, prefers>> /\ (controls' = controls \/ controls' = [controls EXCEPT !.mic = c.mic])
    BY <1>6, <1>9 DEF Restored
  <2>2. controls' \in Medias /\ controls'.deaf = controls.deaf
    BY <1>2, <1>6, <2>1 DEF ControlTypes, Medias
  <2> QED
    BY <1>2, <1>4, <1>9, <2>1, <2>2 DEF Told, ControlTypes
<1> QED
  BY <1>7, <1>8, <1>9, <1>5 DEF ClientHears, Deafening

LEMMA HearsSilent == ASSUME SilentInv, ClientHears, ~crossed' PROVE SilentInv'
<1> DEFINE a == Head(downstream)
           t == Tail(downstream)
<1>1. ~crossed
  BY DEF ClientHears
<1>2. CASE a.kind = "joined" /\ a.ask \in DOMAIN joins
  BY <1>1, <1>2, RejoinedSilent, JoinedSilent
<1>3. CASE ~(a.kind = "joined" /\ a.ask \in DOMAIN joins)
  <2>1. PICK m : Told(m)
    BY <1>3, ToldFits
  <2>2. /\ downstream # <<>> /\ downstream' = t /\ UNCHANGED <<home, joins, rejoin, lease, capturing, connected, seat, ownerMuted>>
        /\ UnderWay => controls' = controls /\ track' = track
    BY <1>3 DEF ClientHears
  <2>3. /\ a \in Downward /\ t \in Seq(Downward) /\ Once(t, DownKind("joined"))
        /\ \A S : Has(t, S) => Has(downstream, S)
        /\ ~Has(t, AcceptedJoins) /\ a \notin AcceptedJoins => ~Has(downstream, AcceptedJoins)
        /\ a.kind = "joined" => a.ask \in DOMAIN joins
    BY <2>2, ReadFits DEF Answered
  <2>4. a \notin AcceptedJoins
    BY <1>3, <2>3 DEF AcceptedJoins
  <2>5. ControlTypes /\ JoinTypes /\ Quiet /\ JoiningWell /\ DeafensFit /\ JoinsFit /\ SeatFits
    BY DEF SilentInv
  <2> HIDE DEF a, t
  <2>6. upstream \in Seq(Upward) /\ m \in Upward /\ m.kind = "media" /\ m.ask \notin Deafening
    BY <2>1, <2>5 DEF Told, JoinTypes
  <2>7. m \notin UpDeafens /\ m \notin UpKind("join") /\ m \notin UpKind("leave")
    BY <2>6 DEF UpDeafens, UpKind
  <2>8. /\ upstream' \in Seq(Upward)
        /\ Has(upstream', UpDeafens) => Has(upstream, UpDeafens)
        /\ Has(upstream', UpKind("leave")) => Has(upstream, UpKind("leave"))
        /\ Has(upstream', UpKind("join")) => Has(upstream, UpKind("join"))
        /\ Has(upstream', UpDeafens \ UpHere(controls.deaf, home)) => Has(upstream, UpDeafens \ UpHere(controls.deaf, home))
        /\ Has(upstream', UpKind("join") \ Asked(joins)) => Has(upstream, UpKind("join") \ Asked(joins))
        /\ Once(upstream', UpKind("join"))
        /\ Before(upstream', UpDeafens, UpKind("join")) /\ Before(upstream', UpKind("leave"), UpKind("join"))
    <3>1. Once(upstream, UpKind("join")) /\ Before(upstream, UpDeafens, UpKind("join")) /\ Before(upstream, UpKind("leave"), UpKind("join"))
      BY <2>5 DEF JoinsFit
    <3>2. CASE upstream' = upstream
      BY <2>6, <3>1, <3>2
    <3>3. CASE upstream' = Append(upstream, m)
      BY <2>6, <2>7, <3>1, <3>3, AppendHas, AppendBefore
    <3> QED
      BY <2>1, <3>2, <3>3 DEF Told
  <2>9. ControlTypes' /\ JoinTypes'
    BY <2>1, <2>2, <2>3, <2>5, <2>8 DEF ControlTypes, JoinTypes, Told
  <2>10. Quiet'
    BY <1>1, <2>1, <2>2, <2>5 DEF Quiet, SilencedStaysSilent, Lifting, Shut, LockedByRoom, Told, ControlTypes
  <2>11. JoiningWell'
    <3>1. CASE joins = <<>>
      <4>1. DOMAIN joins = {}
        BY <3>1
      <4> QED
        BY <2>2, <2>5, <3>1, <4>1 DEF JoiningWell
    <3>2. CASE joins # <<>>
      BY <2>2, <3>2, <2>5 DEF UnderWay, JoiningWell, JoinFits, Shut
    <3> QED
      BY <3>1, <3>2
  <2>12. DeafensFit' /\ SeatFits'
    BY <2>1, <2>2, <2>3, <2>4, <2>5, <2>8 DEF Told, DeafensFit, SeatFits
  <2>13. JoinsFit'
    BY <2>2, <2>3, <2>5, <2>8 DEF JoinsFit
  <2> QED
    BY <2>9, <2>10, <2>11, <2>12, <2>13 DEF SilentInv
<1> QED
  BY <1>2, <1>3

\* Until the controls are changed under a join or such, the invariant holds.
LEMMA SilentHoldsAlways == VoiceControlsSpec => []SilentHolds
<1>1. VoiceControlsInit => SilentHolds
  <2> SUFFICES ASSUME VoiceControlsInit PROVE SilentInv
    BY DEF SilentHolds
  <2>1. ControlTypes
    BY NoLeaseFits DEF VoiceControlsInit, ControlTypes, Fresh, Medias, ControlTracks, AnyRoom, Seats
  <2>2. JoinTypes
    BY DEF VoiceControlsInit, JoinTypes
  <2>3. DOMAIN joins = {}
    BY DEF VoiceControlsInit
  <2>4. Quiet /\ JoiningWell /\ SeatFits
    BY <2>3 DEF VoiceControlsInit, Quiet, SilencedStaysSilent, Shut, JoiningWell, SeatFits, Fresh
  <2>5. \A S : ~Has(<<>>, S)
    BY DEF Has
  <2>6. DeafensFit /\ JoinsFit
    BY <2>2, <2>5, NoneOf DEF VoiceControlsInit, DeafensFit, JoinsFit, JoinTypes
  <2> QED
    BY <2>1, <2>2, <2>4, <2>6 DEF SilentInv
<1>2. SilentHolds /\ [VoiceControlsNext]_voiceControlVars => SilentHolds'
  <2> SUFFICES ASSUME SilentHolds, [VoiceControlsNext]_voiceControlVars, ~crossed' PROVE SilentInv'
    BY DEF SilentHolds
  <2>1. CASE UNCHANGED voiceControlVars
    <3>1. SilentInv /\ UNCHANGED <<controls, track, known, prefers, home, lease, capturing, joins, rejoin, connected, upstream,
                                   downstream, seat, ownerMuted, crossed>>
      BY <2>1 DEF SilentHolds, voiceControlVars, controlVars, joinVars, seatVars
    <3> QED
      BY <3>1 DEF SilentInv, ControlTypes, JoinTypes, Quiet, SilencedStaysSilent, Lifting, Shut, JoiningWell, JoinFits, DeafensFit,
                  JoinsFit, SeatFits
  <2>2. CASE VoiceControlsNext
    <3>1. ~crossed
      BY <2>2 DEF VoiceControlsNext, ToggleMic, Captured, MicrophoneLost, RecoverMicrophone, Deafen, Undeafen, JoinRoom, MoveTo,
                  Join, JoinTimesOut, Leave, VoiceDrop, SeatLost, VoiceReconnect, Rejoin, ServerAnswers, Moderate, ClientHears,
                  Crosses
    <3>2. SilentInv /\ ~JoinTimesOut
      BY <3>1 DEF SilentHolds, JoinTimesOut
    <3> QED
      BY <2>2, <3>1, <3>2, ToggleMicSilent, CapturedSilent, LostSilent, RecoverSilent, DeafenSilent, JoinSilent, LeaveSilent,
         DropSilent, ConnectionSilent, RejoinSilent, ServerSilent, ModerateSilent, HearsSilent DEF VoiceControlsNext
  <2> QED
    BY <2>1, <2>2
<1> QED
  BY <1>1, <1>2, PTL DEF VoiceControlsSpec

THEOREM SilencedAlwaysStaysSilent == VoiceControlsSpec => []SilencedStaysSilent
<1>1. SilentHolds => SilencedStaysSilent
  BY DEF SilentHolds, SilentInv, Quiet, SilencedStaysSilent
<1> QED
  BY <1>1, SilentHoldsAlways, PTL

=============================================================================
