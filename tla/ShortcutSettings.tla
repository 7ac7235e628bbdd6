-------------------------- MODULE ShortcutSettings --------------------------
(* Changing a global shortcut of the desktop client: the page of an            *)
(* installation records a chord and asks; native code holds what it asked      *)
(* until the member confirms it in Home; Home may also change one itself.      *)
(* Commands of the page travel unordered, and its window may be replaced at    *)
(* any moment.  Chords are whole here: ShortcutKeys takes them apart.          *)
EXTENDS ShortcutKeys, Sequences

CONSTANTS Chords, Unset, MaxAsks, MaxWindows

Shortcuts == {"talk", "hush"}   \* the two whose default is no binding
Bindable == Chords \cup {Unset}
NoRequest == [id |-> 0, action |-> "talk", binding |-> Unset, generation |-> 0]

VARIABLES
    saved,       \* preferences: action -> binding
    active,      \* Registration.active
    failed,      \* Registration.error is set
    hotkeys,     \* what the system has registered for the action
    window,      \* voice_generation
    remoteShortcuts, \* RemoteShortcuts
    hookChord,   \* mouse_hook: whether CAPTURE is there, on, and its chord
    expiring,    \* an expiry has ended its recording and not yet dropped the capture
    commands,    \* of the page, on their way or half served
    row,         \* the page: which row records, its draft
    waiting,     \* the page: a save is under way
    inFront,     \* the window in front: "page" or "home"
    told,        \* shell:shortcut-request, on its way to Home, oldest first
    dialog,      \* Home: the request shown, the listeners of its end, closings under way
    answers,     \* answer_shortcut_request, on their way
    agreed,      \* what the member confirmed or chose in Home
    pageAsks     \* of the page, and changes of Home's own

nativeVars == <<saved, active, failed, hotkeys>>
rowVars == <<row, waiting>>
shortcutSettingVars ==
    <<nativeVars, window, remoteShortcuts, hookChord, expiring, commands, rowVars, inFront, told, dialog, answers,
      agreed, pageAsks>>

NoChord == [there |-> FALSE, on |-> FALSE, keys |-> Unset]
NoRow == [action |-> "none", draft |-> Unset]
NoDialog == [request |-> NoRequest, listeners |-> {}, closings |-> 0, confirmed |-> FALSE]

ShortcutSettingsInit ==
    /\ saved = [a \in Shortcuts |-> Unset]
    /\ active = saved /\ failed = [a \in Shortcuts |-> FALSE] /\ hotkeys = [a \in Shortcuts |-> {}]
    /\ window = 1
    /\ remoteShortcuts = [next |-> 0, pending |-> NoRequest, live |-> FALSE]
    /\ hookChord = NoChord /\ expiring = FALSE
    /\ commands = {} /\ row = NoRow /\ waiting = FALSE /\ inFront = "page"
    /\ told = <<>> /\ dialog = NoDialog /\ answers = {} /\ agreed = {}
    /\ pageAsks = 0

------------------------
(* change_shortcut, under the lock: Registration.change with the save inside  *)
(* it.  Any call of the system may fail; what can be put back is put back.    *)
After(a, s, act, f, keys) ==
    /\ saved' = [saved EXCEPT ![a] = s]
    /\ active' = [active EXCEPT ![a] = act]
    /\ failed' = [failed EXCEPT ![a] = f]
    /\ hotkeys' = [hotkeys EXCEPT ![a] = keys]

Registered(b) == {b} \ {Unset}
PutBack(a, left) ==
    \/ After(a, saved[a], active[a], TRUE, left \cup Registered(active[a]))
    \/ After(a, saved[a], Unset, TRUE, left)

\* Mutant: what was registered stays when the file cannot be written.
UndoneOver(a, b) == PutBack(a, Registered(b))
Undone(a, b) ==
    \/ PutBack(a, {})
    \/ b # Unset /\ After(a, saved[a], b, TRUE, {b})

Distinct(a, b) == b = Unset \/ \A c \in Shortcuts \ {a} : saved[c] # b

Change(a, b) ==
    IF active[a] = b
    THEN After(a, b, b, FALSE, hotkeys[a]) \/ UNCHANGED nativeVars
    ELSE \/ active[a] # Unset /\ UNCHANGED nativeVars
         \/ After(a, b, b, FALSE, Registered(b))
         \/ b # Unset /\ PutBack(a, {})
         \/ Undone(a, b)

SetShortcut(a, b) == IF Distinct(a, b) THEN Change(a, b) ELSE UNCHANGED nativeVars

------------------------
(* The page.                                                                 *)
PageSends(op, a, b) == [op |-> op, action |-> a, binding |-> b, window |-> window]
RecordOn == PageSends("on", "talk", Unset)
RecordOff == PageSends("off", "talk", Unset)

RowRecords ==
    /\ inFront = "page" /\ ~waiting /\ pageAsks < MaxAsks /\ pageAsks' = pageAsks + 1
    /\ \E a \in Shortcuts \ {row.action} :
          /\ row' = [action |-> a, draft |-> Unset]
          /\ commands' = commands \cup {RecordOn} \cup (IF row = NoRow THEN {} ELSE {RecordOff})
    /\ UNCHANGED <<nativeVars, window, remoteShortcuts, hookChord, expiring, waiting, inFront, told, dialog, answers,
                   agreed>>

\* Escape, or the window loses the focus.
RowEnds(sent) == row' = NoRow /\ commands' = commands \cup sent
RowCancels ==
    /\ row # NoRow /\ RowEnds({RecordOff})
    /\ UNCHANGED <<nativeVars, window, remoteShortcuts, hookChord, expiring, waiting, inFront, told, dialog, answers,
                   agreed, pageAsks>>
RowStops ==
    /\ row # NoRow /\ row.draft # Unset
    /\ RowEnds({PageSends("set", row.action, row.draft), RecordOff}) /\ waiting' = TRUE
    /\ UNCHANGED <<nativeVars, window, remoteShortcuts, hookChord, expiring, inFront, told, dialog, answers, agreed, pageAsks>>
RowClears ==
    /\ inFront = "page" /\ ~waiting /\ pageAsks < MaxAsks /\ pageAsks' = pageAsks + 1
    /\ \E a \in Shortcuts : saved[a] # Unset /\ row.action # a /\ commands' = commands \cup {PageSends("set", a, Unset)}
    /\ waiting' = TRUE
    /\ UNCHANGED <<nativeVars, window, remoteShortcuts, hookChord, expiring, row, inFront, told, dialog, answers, agreed>>

RowResets ==
    /\ inFront = "page" /\ ~waiting /\ pageAsks < MaxAsks /\ pageAsks' = pageAsks + 1
    /\ \E a \in Shortcuts \ {row.action} :
          /\ commands' = commands \cup {PageSends("reset", a, Unset)}
          /\ agreed' = agreed \cup {<<a, Unset>>}
    /\ waiting' = TRUE
    /\ UNCHANGED <<nativeVars, window, remoteShortcuts, hookChord, expiring, row, inFront, told,
                   dialog, answers>>

\* The person presses a chord in front of one of the windows of Voxly.
PressChord ==
    /\ hookChord.on \/ row # NoRow
    /\ \E c \in Chords :
          /\ hookChord' = IF hookChord.on THEN [hookChord EXCEPT !.keys = c] ELSE hookChord
          /\ row' = IF row # NoRow /\ inFront = "page" THEN [row EXCEPT !.draft = c] ELSE row
    /\ UNCHANGED <<nativeVars, window, remoteShortcuts, expiring, commands, waiting, inFront, told, dialog, answers,
                   agreed, pageAsks>>

------------------------
(* Native code.  A command of a window that was replaced is refused.          *)
ServesCommand(op) == \E c \in commands : c.op = op /\ c.window = window /\ commands' = commands \ {c}

\* Recording: begin_recording and begin_capture, or their ends.
ServeOn ==
    /\ ServesCommand("on")
    /\ remoteShortcuts' = [remoteShortcuts EXCEPT !.live = TRUE]
    /\ hookChord' \in {[NoChord EXCEPT !.there = TRUE, !.on = TRUE], hookChord}
    /\ UNCHANGED <<nativeVars, window, expiring, rowVars, inFront, told, dialog, answers, agreed,
                   pageAsks>>
ServeOff ==
    /\ ServesCommand("off")
    /\ remoteShortcuts' = [remoteShortcuts EXCEPT !.live = FALSE] /\ hookChord' = [hookChord EXCEPT !.on = FALSE]
    /\ UNCHANGED <<nativeVars, window, expiring, rowVars, inFront, told, dialog, answers, agreed, pageAsks>>

\* expire_remote_recording, and the capture it drops only afterwards.
\* The alarm of an earlier recording finds another number, and does nothing.
Alarm ==
    /\ remoteShortcuts.live /\ remoteShortcuts' = [remoteShortcuts EXCEPT !.live = FALSE]
    /\ ~expiring /\ expiring' = TRUE
    /\ UNCHANGED <<nativeVars, window, hookChord, commands, rowVars, inFront, told, dialog, answers, agreed,
                   pageAsks>>
Expired ==
    /\ expiring /\ expiring' = FALSE /\ hookChord' = NoChord
    /\ UNCHANGED <<nativeVars, window, remoteShortcuts, commands, rowVars, inFront, told, dialog, answers, agreed, pageAsks>>

\* authorize_remote_binding takes the chord; the request is proposed once the
\* lock is had, by which time the window may be another.
Authorized(c) == c.binding = Unset \/ (hookChord.there /\ hookChord.keys = c.binding)
ServeSet ==
    /\ \E c \in commands :
          /\ c.op = "set" /\ c.window = window
          /\ hookChord' = NoChord
          /\ commands' = (commands \ {c}) \cup (IF Authorized(c) THEN {[c EXCEPT !.op = "ask"]} ELSE {})
          /\ waiting' = Authorized(c)
    /\ UNCHANGED <<nativeVars, window, remoteShortcuts, expiring, row, inFront, told, dialog, answers, agreed, pageAsks>>
Propose ==
    /\ \E c \in commands :
          LET r == [id |-> remoteShortcuts.next + 1, action |-> c.action, binding |-> c.binding, generation |-> window] IN
          /\ c.op = "ask"
          /\ remoteShortcuts' = [remoteShortcuts EXCEPT !.next = @ + 1, !.pending = r]
          /\ commands' = commands \ {c} /\ told' = Append(told, r)
    /\ inFront' = "home"
    /\ waiting' = FALSE
    /\ UNCHANGED <<nativeVars, window, hookChord, expiring, row, dialog, answers, agreed, pageAsks>>

\* reset_shortcut, the one change a page makes without Home.
ServeReset ==
    /\ \E c \in commands :
          /\ c.op = "reset" /\ c.window = window /\ commands' = commands \ {c}
          /\ SetShortcut(c.action, c.binding)
    /\ waiting' = FALSE
    /\ UNCHANGED <<window, remoteShortcuts, hookChord, expiring, row, inFront, told, dialog,
                   answers, agreed, pageAsks>>

\* connect_installation replaces the window: the page goes, what it left is discarded.
ReplaceWindow ==
    /\ window < MaxWindows /\ window' = window + 1
    /\ remoteShortcuts' = [remoteShortcuts EXCEPT !.pending = NoRequest, !.live = FALSE]
    /\ hookChord' = NoChord
    /\ row' = NoRow /\ waiting' = FALSE
    /\ UNCHANGED <<nativeVars, expiring, commands, inFront, told, dialog, answers, agreed,
                   pageAsks>>

------------------------
(* Home.                                                                     *)
\* shell:shortcut-request: a newer request closes the dialog of the older.
HearRequest ==
    /\ told # <<>> /\ told' = Tail(told)
    /\ dialog' = [request |-> Head(told), listeners |-> dialog.listeners \cup {Head(told).id},
                  closings |-> dialog.closings + (IF dialog.request = NoRequest THEN 0 ELSE 1),
                  confirmed |-> FALSE]
    /\ UNCHANGED <<nativeVars, window, remoteShortcuts, hookChord, expiring, commands, rowVars, inFront, answers,
                   agreed, pageAsks>>

Dialog(said) ==
    /\ inFront = "home" /\ dialog.request # NoRequest
    /\ dialog' = [dialog EXCEPT !.request = NoRequest, !.closings = @ + 1, !.confirmed = said]
    /\ agreed' = IF said THEN agreed \cup {<<dialog.request.action, dialog.request.binding>>} ELSE agreed
    /\ UNCHANGED <<nativeVars, window, remoteShortcuts, hookChord, expiring, commands, rowVars, inFront, told, answers, pageAsks>>
DialogConfirmed == Dialog(TRUE)
DialogCancelled == Dialog(FALSE)

\* The close event resolves every promise that listens to the dialog.
DialogCloses ==
    /\ dialog.closings > 0
    /\ answers' = answers \cup {[id |-> n, accept |-> dialog.confirmed] : n \in dialog.listeners}
    /\ dialog' = [dialog EXCEPT !.closings = @ - 1, !.listeners = {}]
    /\ UNCHANGED <<nativeVars, window, remoteShortcuts, hookChord, expiring, commands, rowVars, inFront, told, agreed, pageAsks>>

\* RemoteShortcuts.answer.
\* Mutant: whatever is pending is taken for what was answered.
AnyPending(id) == remoteShortcuts.pending
AnsweredRequest(id) ==
    IF remoteShortcuts.pending.id = id /\ remoteShortcuts.pending.generation = window THEN remoteShortcuts.pending ELSE NoRequest

ServeAnswer ==
    /\ \E x \in answers :
          LET r == AnsweredRequest(x.id) IN
          /\ answers' = answers \ {x}
          /\ remoteShortcuts' = IF remoteShortcuts.pending.id = x.id THEN [remoteShortcuts EXCEPT !.pending = NoRequest] ELSE remoteShortcuts
          /\ IF x.accept /\ r # NoRequest THEN SetShortcut(r.action, r.binding) ELSE UNCHANGED nativeVars
    /\ inFront' = "page"
    /\ UNCHANGED <<window, hookChord, expiring, commands, rowVars, told, dialog, agreed, pageAsks>>

\* Home's own row.
HomeChanges ==
    /\ pageAsks < MaxAsks /\ pageAsks' = pageAsks + 1
    /\ inFront = "home" /\ dialog.request = NoRequest
    /\ \E a \in Shortcuts, b \in Bindable : agreed' = agreed \cup {<<a, b>>} /\ SetShortcut(a, b)
    /\ UNCHANGED <<window, remoteShortcuts, hookChord, expiring, commands, rowVars, inFront, told, dialog, answers>>

\* Worth a step only while there is something to do in the other window.
MoveToFront ==
    /\ pageAsks < MaxAsks \/ (inFront = "page" /\ dialog.request # NoRequest)
    /\ inFront' \in {"page", "home"} \ {inFront}
    /\ row = NoRow \/ inFront # "page"
    /\ UNCHANGED <<nativeVars, window, remoteShortcuts, hookChord, expiring, commands, rowVars, told, dialog, answers,
                   agreed, pageAsks>>

ShortcutSettingsNext ==
    \/ RowRecords \/ RowCancels \/ RowStops \/ RowClears \/ RowResets \/ PressChord
    \/ ServeOn \/ ServeOff \/ Alarm \/ Expired \/ ServeSet \/ ServeReset \/ Propose \/ ReplaceWindow
    \/ HearRequest \/ DialogConfirmed \/ DialogCancelled \/ DialogCloses \/ ServeAnswer
    \/ HomeChanges \/ MoveToFront

ShortcutSettingsSpec == ShortcutSettingsInit /\ [][ShortcutSettingsNext]_shortcutSettingVars

------------------------
(* What the system has registered for an action is what the client takes to   *)
(* be active, and that is what is saved or the member is shown an error; and  *)
(* the hook never captures without an expiry that will end it.                *)
ShortcutsAreInOrder ==
    /\ \A a \in Shortcuts :
          /\ hotkeys[a] = Registered(active[a])
          /\ active[a] = saved[a] \/ failed[a]
    /\ hookChord.on => remoteShortcuts.live \/ expiring

(* What is registered, saved and shown of the shortcuts agrees, and a chord    *)
(* that was recorded is refused only when its keys were pressed oddly.         *)
ShortcutsHold == ShortcutsAreInOrder /\ RecordedIsAccepted

(* A saved shortcut changes only to what the member confirmed in Home's       *)
(* dialog, chose there, or reset: not to what the page asked since.           *)
ShortcutsAreConsented ==
    [][\A a \in Shortcuts : saved'[a] # saved[a] => <<a, saved'[a]>> \in agreed']_shortcutSettingVars

=============================================================================
