---------------------------- MODULE ShortcutKeys ----------------------------
(* One keyboard and its three readers: the gates of the desktop client's hook, *)
(* which begin and end the holds of the bound actions; the chord the hook      *)
(* captures while the installation's page records a shortcut; and the draft    *)
(* the page makes of its own key events, which is held to that chord.  One     *)
(* group of modifiers with its two sides stands for the four.                  *)
EXTENDS Naturals, FiniteSets

CONSTANTS LeftSide, RightSide, AnySide, PlainKeys, StopKey, NoKey, MaxStrokes, MaxBinds

(* Codes of sides, other keys and no key differ, and so do the masks.          *)
ASSUME KeysAssumption ==
    /\ AnySide \notin {LeftSide, RightSide}
    /\ PlainKeys \cap {LeftSide, RightSide, NoKey} = {}
    /\ {NoKey, StopKey} \cap {LeftSide, RightSide} = {}
    /\ StopKey \notin PlainKeys

Sides == {LeftSide, RightSide}
Keyboard == Sides \cup PlainKeys \cup {StopKey}   \* StopKey: Tab, or Enter on the Stop button
Bound == {"talk", "mute"}
Requirements == {{}, {LeftSide}, {RightSide}, {LeftSide, RightSide}, {AnySide}}
Binding(k, mods) == [key |-> k, mods |-> mods]
Bindings ==
    {Binding(k, mods) : k \in PlainKeys, mods \in Requirements}
      \cup {Binding(NoKey, mods) : mods \in {{LeftSide}, {RightSide}, {AnySide}}}
Nothing == Binding(NoKey, {})

VARIABLES
    keysDown,   \* keys physically down
    latest,     \* the one that went down last: only this repeats
    gates,      \* PhysicalShortcutGates: the keys it saw, what is bound, what is held
    capture,    \* ShortcutCapture, and whether it is there and running
    recorder,   \* the page's ShortcutRow
    odd,        \* the recording met more than one plain chord
    verdict,    \* of the last recording
    strokes, binds

shortcutKeyVars == <<keysDown, latest, gates, capture, recorder, odd, verdict, strokes, binds>>

NoCapture == [there |-> FALSE, on |-> FALSE, held |-> {}, chord |-> {}]
NoGates == [down |-> {}, bound |-> [a \in Bound |-> Nothing], held |-> {}]
Recorder(stage) == [stage |-> stage, draft |-> Nothing, sides |-> {}]

ShortcutKeysInit ==
    /\ keysDown = {} /\ latest = NoKey /\ gates = NoGates /\ capture = NoCapture
    /\ recorder = Recorder("idle") /\ odd = FALSE /\ verdict = "none"
    /\ strokes = 0 /\ binds = 0

------------------------
(* Bindings.                                                                 *)
AcceptsSides(required, actual) ==
    CASE required = {} -> actual = {}
      [] required = {AnySide} -> actual # {}
      [] OTHER -> required \subseteq actual

\* Mutant: only the same binding counts as a duplicate.
SameBinding(a, b) == a = b
Overlaps(a, b) ==
    /\ a.key = b.key
    /\ \/ a.mods = b.mods
       \/ /\ a.mods # {} /\ b.mods # {}
          /\ (AnySide \in a.mods \cup b.mods) \/ (a.mods \cap b.mods # {})

Matches(b, keys) ==
    /\ b # Nothing
    /\ AcceptsSides(b.mods, keys \cap Sides)
    /\ b.key = NoKey \/ b.key \in keys
Activates(b, k) == IF b.key = NoKey THEN k \in Sides ELSE b.key = k

\* matches_observed.
MatchesObserved(b, chord) ==
    /\ chord # {}
    /\ (chord \ Sides) = ({b.key} \ {NoKey})
    /\ IF b.mods = {AnySide} THEN chord \cap Sides # {} ELSE chord \cap Sides = b.mods

------------------------
(* The hook, which runs while something is bound or captured.                *)
Listens(g, c) == c.there \/ \E a \in Bound : g.bound[a] # Nothing

Handle(g, k, isDown) ==
    LET keys == IF isDown THEN g.down \cup {k} ELSE g.down \ {k}
    IN IF (k \in g.down) = isDown THEN g
       ELSE [g EXCEPT !.down = keys,
                      !.held = {a \in Bound :
                                  /\ Matches(g.bound[a], keys)
                                  /\ a \in g.held \/ (isDown /\ Activates(g.bound[a], k))}]

CaptureSees(c, k, isDown) ==
    IF isDown
    THEN [c EXCEPT !.chord = (IF c.held = {} THEN {} ELSE @) \cup {k}, !.held = @ \cup {k}]
    ELSE [c EXCEPT !.held = @ \ {k}]

\* Stopping the hook lets go of everything.
Idle(g, c) == IF Listens(g, c) THEN g ELSE NoGates

------------------------
(* The page.                                                                 *)
RecordedSides(r) == IF r.sides = {} THEN {AnySide} ELSE r.sides
DraftOf(k, r) ==
    IF k \in Sides THEN Binding(NoKey, {k})
    ELSE Binding(k, IF keysDown \cap Sides = {} THEN {} ELSE RecordedSides(r))

PageSees(k, isDown) ==
    IF recorder.stage \notin {"asked", "recording"} THEN recorder
    ELSE LET r == [recorder EXCEPT !.sides = IF isDown THEN @ \cup ({k} \cap Sides) ELSE @ \ {k}]
         IN IF ~isDown \/ k = StopKey THEN r ELSE [r EXCEPT !.draft = DraftOf(k, r)]

------------------------
(* One key goes down or up.  A chord is plain when its keys go down one after *)
(* another from an empty keyboard, at most one side before at most one key: a *)
(* second key, though the first was let go, is drafted alone and observed     *)
(* together with the first, and refused.                                      *)
PlainStroke(k) ==
    IF k \in Sides THEN keysDown = {}
    ELSE /\ k # StopKey
         /\ keysDown = {} \/ (keysDown \subseteq Sides /\ recorder.draft.key \in {NoKey, k})

Stroke ==
    /\ strokes < MaxStrokes
    /\ \E k \in Keyboard :
          LET isDown == k \notin keysDown IN
          /\ strokes' = strokes + (IF isDown THEN 1 ELSE 0)
          /\ keysDown' = IF isDown THEN keysDown \cup {k} ELSE keysDown \ {k}
          /\ latest' = IF isDown THEN k ELSE IF latest = k THEN NoKey ELSE latest
          /\ gates' = IF Listens(gates, capture) THEN Handle(gates, k, isDown) ELSE gates
          /\ capture' = IF capture.on THEN CaptureSees(capture, k, isDown) ELSE capture
          /\ recorder' = PageSees(k, isDown)
          /\ odd' = (odd \/ (isDown /\ (~PlainStroke(k) \/ recorder.stage \in {"asked", "stopped"})))
    /\ UNCHANGED <<verdict, binds>>

\* A key that is held repeats: the page skips repeats, the hook does not.
Repeat ==
    /\ \E k \in keysDown \cap {latest} :
          /\ gates' = IF Listens(gates, capture) THEN Handle(gates, k, TRUE) ELSE gates
          /\ capture' = IF capture.on THEN CaptureSees(capture, k, TRUE) ELSE capture
          /\ odd' = (odd \/ (capture.on /\ k \notin capture.held))
    /\ UNCHANGED <<keysDown, latest, recorder, verdict, strokes, binds>>

------------------------
(* Settings.                                                                 *)
\* validate_shortcuts, and set_binding in the hook's thread.
BindKeys ==
    /\ binds < MaxBinds /\ binds' = binds + 1
    /\ \E a \in Bound, b \in Bindings \cup {Nothing} :
          /\ \A c \in Bound \ {a} : b = Nothing \/ gates.bound[c] = Nothing \/ ~Overlaps(b, gates.bound[c])
          /\ gates' = Idle([gates EXCEPT !.bound[a] = b, !.held = @ \ {a}], capture)
    /\ UNCHANGED <<keysDown, latest, capture, recorder, odd, verdict, strokes>>

\* ShortcutRow begins to record; begin_capture follows when the command arrives.
StartRecording ==
    /\ recorder.stage = "idle" /\ binds < MaxBinds /\ binds' = binds + 1
    /\ recorder' = Recorder("asked") /\ odd' = (keysDown # {})
    /\ UNCHANGED <<keysDown, latest, gates, capture, verdict, strokes>>
CaptureBegins ==
    /\ recorder.stage = "asked"
    /\ recorder' = [recorder EXCEPT !.stage = "recording"]
    /\ capture' = [NoCapture EXCEPT !.there = TRUE, !.on = TRUE]
    /\ UNCHANGED <<keysDown, latest, gates, odd, verdict, strokes, binds>>
\* stop: the draft is sent, and judged by authorize_remote_binding when it arrives.
StopRecording ==
    /\ recorder.stage = "recording" /\ recorder.draft # Nothing
    /\ recorder' = [recorder EXCEPT !.stage = "stopped"]
    /\ UNCHANGED <<keysDown, latest, gates, capture, odd, verdict, strokes, binds>>
DraftJudged ==
    /\ recorder.stage = "stopped"
    /\ verdict' = IF MatchesObserved(recorder.draft, capture.chord) THEN "accepted" ELSE "refused"
    /\ capture' = NoCapture /\ gates' = Idle(gates, NoCapture)
    /\ recorder' = Recorder("idle")
    /\ UNCHANGED <<keysDown, latest, odd, strokes, binds>>

ShortcutKeysNext ==
    \/ Stroke \/ Repeat \/ BindKeys
    \/ StartRecording \/ CaptureBegins \/ StopRecording \/ DraftJudged

ShortcutKeysSpec == ShortcutKeysInit /\ [][ShortcutKeysNext]_shortcutKeyVars

------------------------
(* One press of a key begins the hold of at most one action, whatever the     *)
(* order of keys, whatever was down before and whatever is bound meanwhile,   *)
(* unless both sides of the modifier are down: this is what the refusal of    *)
(* overlapping bindings is for.                                               *)
PressesBeginOneHold ==
    [][Sides \subseteq gates'.down \/ Cardinality(gates'.held \ gates.held) <= 1]_shortcutKeyVars

(* A plain chord that the person recorded is not refused: the draft made of   *)
(* the page's key events names exactly the keys the hook saw.                 *)
RecordedIsAccepted == verdict = "refused" /\ recorder.stage = "idle" => odd

=============================================================================
