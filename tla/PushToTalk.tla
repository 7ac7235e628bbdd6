---------------------------- MODULE PushToTalk ----------------------------
(* The desktop client's shortcuts: keys the input hook sees, the queue of     *)
(* voice intents between the hook and the installation's window, the release   *)
(* delay, the bridge in the page, and the gate every microphone track of the  *)
(* page passes.  Settings, other windows and a change of installation come    *)
(* in between.  Physical bindings on one key each.                            *)
EXTENDS Naturals, Sequences

CONSTANTS TalkKey, HushKey, MuteKey, Unbound, MaxKeyEvents, MaxSettings, MaxUpsets

(* Shortcuts that are set differ.                                             *)
ASSUME PushToTalkAssumption ==
    /\ TalkKey # HushKey /\ TalkKey # MuteKey /\ HushKey # MuteKey
    /\ Unbound \notin {TalkKey, HushKey, MuteKey}

Intents == {"talk", "hush", "mute"}      \* PushToTalk, PushToMute, Mute
Modes == {"openMic", "talk", "hush"}
Keys == {TalkKey, HushKey, MuteKey}

VARIABLES
    fingers,      \* keys physically down
    bindings,     \* of the hook: intent -> key
    seenDown,     \* the keys the hook takes to be down
    held,         \* the intents whose hold the hook has begun
    intents,      \* shortcut_events, oldest first
    voiceGeneration,  \* voice_generation, of the window with the call
    bridged,      \* the voice_target is set and its window is there
    tail,         \* the release deadline: none, or the generation it is for
    delayed,      \* push_to_talk_release_delay_ms is not zero
    chosen,       \* the saved microphone mode, and the one in the window's bootstrap
    focus,        \* "call", "settings", "recording" in the call's window, or "away"
    bridge,       \* the microphone object of voice-bridge.js
    gate,         \* DesktopMicrophoneGate
    talkingTo,    \* whether the page is in a room, and the button is on
    live,         \* the track is enabled: what the microphone hears is sent
    spentKeys, spentSettings, spentUpsets

hookVars == <<fingers, bindings, seenDown, held>>
shellVars == <<voiceGeneration, bridged, tail, delayed, chosen, focus>>
pageVars == <<bridge, gate, talkingTo, live>>
spentVars == <<spentKeys, spentSettings, spentUpsets>>
pushToTalkVars == <<hookVars, intents, shellVars, pageVars, spentVars>>

NoTail == 0
FreshBridge(mode) == [mode |-> mode, talk |-> FALSE, hush |-> FALSE, releasing |-> FALSE]
NewGate(mode) ==
    [mode |-> mode, talk |-> FALSE, hush |-> FALSE, observed |-> FALSE, blocked |-> FALSE, tail |-> FALSE]

PushToTalkInit ==
    /\ fingers = {} /\ seenDown = {} /\ held = {}
    /\ bindings = [talk |-> TalkKey, hush |-> HushKey, mute |-> MuteKey]
    /\ intents = <<>>
    /\ voiceGeneration = 1 /\ bridged = TRUE /\ tail = NoTail /\ delayed \in BOOLEAN
    /\ chosen \in {[saved |-> m, booted |-> m] : m \in {"talk", "hush"}}
    /\ focus = "call"
    /\ bridge = FreshBridge(chosen.saved) /\ gate = NewGate(chosen.saved)
    /\ talkingTo = [room |-> TRUE, on |-> TRUE] /\ live = (chosen.saved # "talk")
    /\ spentKeys = 0 /\ spentSettings = 0 /\ spentUpsets = 0

------------------------
(* The gate.                                                                 *)
Allows(g) == CASE g.mode = "talk" -> g.talk \/ g.tail
               [] g.mode = "hush" -> ~g.hush
               [] OTHER -> TRUE

HoldsReset(g) == [g EXCEPT !.blocked = g.observed, !.talk = FALSE, !.tail = FALSE]

Allowed == talkingTo.room /\ talkingTo.on

Gated(g, b, allowed) ==
    LET fresh == IF b.mode # g.mode THEN HoldsReset([g EXCEPT !.mode = b.mode]) ELSE g
        blocked == b.talk /\ (fresh.blocked \/ ~allowed)
    IN [fresh EXCEPT
          !.blocked = blocked,
          !.observed = b.talk,
          !.tail = b.releasing /\ allowed /\ ~blocked /\ (fresh.talk \/ fresh.tail),
          !.talk = b.talk /\ allowed /\ ~blocked,
          !.hush = b.hush]

\* notifyMicrophone, and the page's subscriber.
Notify(b) ==
    /\ bridge' = b
    /\ gate' = Gated(gate, b, Allowed)
    /\ live' = (Allowed /\ Allows(gate'))

------------------------
(* The hook.                                                                 *)
Intent(a, down, mayDelay) == [intent |-> a, down |-> down, for |-> voiceGeneration, mayDelay |-> mayDelay]
Queue(a, down, mayDelay) == intents' = Append(intents, Intent(a, down, mayDelay))

Hooked == \E a \in Intents : bindings[a] # Unbound

\* PhysicalShortcutGates.handle.
Observe(k, down) ==
    /\ seenDown' = IF down THEN seenDown \cup {k} ELSE seenDown \ {k}
    /\ IF \E a \in Intents : bindings[a] = k /\ ((a \in held) # down)
       THEN \E a \in Intents :
              /\ bindings[a] = k
              /\ held' = IF down THEN held \cup {a} ELSE held \ {a}
              /\ Queue(a, down, TRUE)
       ELSE UNCHANGED <<held, intents>>

KeyMoves ==
    /\ spentKeys < MaxKeyEvents /\ spentKeys' = spentKeys + 1
    /\ \E k \in Keys :
          /\ fingers' = IF k \in fingers THEN fingers \ {k} ELSE fingers \cup {k}
          /\ IF Hooked /\ (k \in seenDown) = (k \in fingers) THEN Observe(k, k \notin fingers)
             ELSE UNCHANGED <<seenDown, held, intents>>
    /\ UNCHANGED <<bindings, shellVars, pageVars, spentSettings, spentUpsets>>

\* A key that was down when the hook started repeats.
KeyRepeats ==
    /\ Hooked
    /\ \E k \in fingers \ seenDown : Observe(k, TRUE)
    /\ UNCHANGED <<fingers, bindings, shellVars, pageVars, spentVars>>

------------------------
(* Settings.                                                                 *)
Setting == spentSettings < MaxSettings /\ spentSettings' = spentSettings + 1

\* change_shortcut: the hook lets go of the old key, and the hold ends whatever
\* it does.  What fails is put back as it was.
ChangeShortcut ==
    /\ Setting
    /\ \E a \in Intents, k \in Keys \cup {Unbound} :
          LET ends == IF k # bindings[a] /\ a \in held THEN <<Intent(a, FALSE, TRUE)>> ELSE <<>> IN
          /\ k = Unbound \/ \A b \in Intents \ {a} : bindings[b] # k
          /\ \/ bindings' = [bindings EXCEPT ![a] = k]
             \/ UNCHANGED bindings
          /\ held' = IF k # bindings[a] THEN held \ {a} ELSE held
          /\ seenDown' = IF k # bindings[a] /\ (\A b \in Intents \ {a} : bindings[b] = Unbound) THEN {}
                         ELSE seenDown
          /\ intents' = intents \o ends \o <<Intent(a, FALSE, FALSE)>>
    /\ UNCHANGED <<fingers, shellVars, pageVars, spentKeys, spentUpsets>>

SetMicrophoneMode ==
    /\ Setting
    /\ \E m \in Modes \ {chosen.saved} :
          /\ m \in Intents => bindings[m] # Unbound
          /\ chosen' = [chosen EXCEPT !.saved = m]
          /\ delayed' = (delayed \/ m = "talk")
          /\ IF bridged THEN Notify(FreshBridge(m)) ELSE UNCHANGED <<bridge, gate, live>>
    /\ UNCHANGED <<hookVars, intents, voiceGeneration, bridged, tail, focus, talkingTo, spentKeys, spentUpsets>>

SetReleaseDelay ==
    /\ Setting
    /\ delayed' \in BOOLEAN
    /\ IF bridged THEN Notify([bridge EXCEPT !.releasing = FALSE]) ELSE UNCHANGED <<bridge, gate, live>>
    /\ UNCHANGED <<hookVars, intents, voiceGeneration, bridged, tail, chosen, focus, talkingTo, spentKeys, spentUpsets>>

\* Recording a shortcut ends every hold first.
MoveFocus ==
    /\ Setting
    /\ \E f \in {"call", "settings", "recording", "away"} \ {focus} :
          /\ f = "recording" => bridged
          /\ focus' = f
          /\ intents' = IF f = "recording"
                        THEN intents \o <<Intent("talk", FALSE, FALSE), Intent("hush", FALSE, FALSE)>>
                        ELSE intents
    /\ UNCHANGED <<hookVars, voiceGeneration, bridged, tail, delayed, chosen, pageVars, spentKeys, spentUpsets>>

------------------------
(* The delivery task.                                                        *)
\* Mutant: nothing is delivered while the settings have the focus.
ReachesWhenInFront(e) == focus \in {"call", "away"}
Reaches(e) == ~e.down \/ focus \in {"call", "away"}

\* toggleMic, with dispatchMute or the button.
ButtonPressed(g) ==
    LET on == ~talkingTo.on
        sounds == on /\ Allows(g)
    IN /\ talkingTo' = [talkingTo EXCEPT !.on = on]
       /\ live' = sounds
       /\ gate' = IF sounds THEN g ELSE HoldsReset(g)

Dispatch(e, late) ==
    CASE e.intent = "talk" ->
            /\ Notify([bridge EXCEPT !.releasing = ~e.down /\ bridge.talk /\ late, !.talk = e.down])
            /\ UNCHANGED talkingTo
      [] e.intent = "hush" -> Notify([bridge EXCEPT !.hush = e.down]) /\ UNCHANGED talkingTo
      [] OTHER -> UNCHANGED pageVars

\* A mute pressed during the release delay cuts it before it is carried out.
Mute ==
    LET b == IF tail # NoTail THEN [bridge EXCEPT !.releasing = FALSE] ELSE bridge
        g == IF tail # NoTail THEN Gated(gate, b, Allowed) ELSE gate
    IN /\ bridge' = b
       /\ IF Reaches(Head(intents)) /\ talkingTo.room THEN ButtonPressed(g)
          ELSE /\ gate' = g
               /\ live' = IF tail # NoTail THEN Allowed /\ Allows(g) ELSE live
               /\ UNCHANGED talkingTo

Deliver ==
    /\ intents # <<>> /\ intents' = Tail(intents)
    /\ LET e == Head(intents)
           late == e.intent = "talk" /\ ~e.down /\ e.mayDelay /\ delayed
       IN IF e.for # voiceGeneration \/ ~bridged THEN UNCHANGED <<tail, pageVars>>
          ELSE IF e.intent = "mute" /\ e.down THEN tail' = NoTail /\ Mute
          ELSE /\ tail' = IF late THEN e.for ELSE IF e.intent = "talk" THEN NoTail ELSE tail
               /\ IF Reaches(e) THEN Dispatch(e, late) ELSE UNCHANGED pageVars
    /\ UNCHANGED <<hookVars, voiceGeneration, bridged, delayed, chosen, focus, spentVars>>

TailEnds ==
    /\ tail # NoTail /\ tail' = NoTail
    /\ IF tail = voiceGeneration /\ bridged THEN Notify([bridge EXCEPT !.releasing = FALSE])
       ELSE UNCHANGED <<bridge, gate, live>>
    /\ UNCHANGED <<hookVars, intents, voiceGeneration, bridged, delayed, chosen, focus, talkingTo, spentVars>>

------------------------
(* The page and its window.                                                  *)
Upset == spentUpsets < MaxUpsets /\ spentUpsets' = spentUpsets + 1

\* The button, a deafen or the owner's mute: what closes the microphone cuts a
\* hold, what opens it asks the gate.
TurnMicrophone ==
    /\ bridged /\ talkingTo.room /\ Upset /\ ButtonPressed(gate)
    /\ UNCHANGED <<hookVars, intents, shellVars, bridge, spentKeys, spentSettings>>

\* The connection goes, with an open microphone for the moment as it was, or
\* the room is left; and a join or rejoin.
VoiceGone ==
    /\ bridged /\ talkingTo.room /\ Upset
    /\ talkingTo' = [talkingTo EXCEPT !.room = FALSE]
    /\ gate' = HoldsReset(gate)
    /\ live' \in {FALSE, live /\ gate.mode = "openMic"}
    /\ UNCHANGED <<hookVars, intents, shellVars, bridge, spentKeys, spentSettings>>

VoiceBack ==
    /\ bridged /\ ~talkingTo.room
    /\ talkingTo' = [talkingTo EXCEPT !.room = TRUE]
    /\ gate' = HoldsReset(gate)
    /\ live' = (talkingTo.on /\ Allows(gate'))
    /\ UNCHANGED <<hookVars, intents, shellVars, bridge, spentVars>>

\* The server did not accept the microphone.
PublicationRefused ==
    /\ live /\ Upset
    /\ gate' = HoldsReset(gate) /\ live' = FALSE
    /\ UNCHANGED <<hookVars, intents, shellVars, bridge, talkingTo, spentKeys, spentSettings>>

\* The page is loaded again: the bootstrap says what it said at first.
Reload ==
    /\ bridged /\ Upset
    /\ bridge' = FreshBridge(chosen.booted) /\ gate' = NewGate(chosen.booted)
    /\ talkingTo' = [room |-> FALSE, on |-> TRUE] /\ live' = FALSE
    /\ UNCHANGED <<hookVars, intents, shellVars, spentKeys, spentSettings>>

\* connect_installation destroys the window first; until the next is there,
\* what the task takes from the queue goes nowhere.
CloseWindow ==
    /\ bridged /\ Upset
    /\ voiceGeneration' = voiceGeneration + 1 /\ bridged' = FALSE
    /\ focus' = IF focus = "recording" THEN "settings" ELSE focus
    /\ bridge' = FreshBridge(chosen.saved) /\ gate' = NewGate(chosen.saved)
    /\ talkingTo' = [room |-> FALSE, on |-> TRUE] /\ live' = FALSE
    /\ UNCHANGED <<hookVars, intents, tail, delayed, chosen, spentKeys, spentSettings>>

OpenWindow ==
    /\ ~bridged /\ bridged' = TRUE
    /\ chosen' = [chosen EXCEPT !.booted = chosen.saved]
    /\ bridge' = FreshBridge(chosen.saved) /\ gate' = NewGate(chosen.saved)
    /\ UNCHANGED <<hookVars, intents, voiceGeneration, tail, delayed, focus, talkingTo, live, spentVars>>

PushToTalkNext ==
    \/ KeyMoves \/ KeyRepeats
    \/ ChangeShortcut \/ SetMicrophoneMode \/ SetReleaseDelay \/ MoveFocus
    \/ Deliver \/ TailEnds
    \/ TurnMicrophone \/ VoiceGone \/ VoiceBack \/ PublicationRefused
    \/ Reload \/ CloseWindow \/ OpenWindow

PushToTalkSpec == PushToTalkInit /\ [][PushToTalkNext]_pushToTalkVars

------------------------
TalkIsHeld == bindings["talk"] \in fingers \/ tail = voiceGeneration

\* In push-to-talk the microphone opens only as a press of the key arrives: not
\* with an unmute, a rejoin, another key or the end of a delay.
OnlyAPressOpens ==
    [][gate'.mode = "talk" /\ live' /\ ~live =>
          /\ intents # <<>> /\ intents' = Tail(intents)
          /\ Head(intents).intent = "talk" /\ Head(intents).down]_pushToTalkVars

\* The held key, and nothing else, opens the microphone (voice.rs, voiceMedia.ts).
\* Once every intent is delivered, a member in push-to-talk is heard only with
\* the key held or until the release delay ends; with push-to-mute, never
\* while the page knows the key is held.
TheKeyDecides ==
    /\ [](live => /\ gate.mode = "talk" /\ intents = <<>> => TalkIsHeld
                  /\ gate.mode = "hush" => ~bridge.hush)
    /\ OnlyAPressOpens

=============================================================================
