------------------------------ MODULE MCClients ------------------------------
(* The parts of a browser, of the desktop app or of the bot that share no state with each *)
(* other, each on a small instance of its own, as in MCInstallation.  Of a     *)
(* Session that ended for good nothing changes any more.                      *)
EXTENDS SessionRotation, Negotiation, PeerRecovery, VoiceControls, PushToTalk, DesktopUpdates,
        DesktopWindows, ShortcutSettings, ShortcutKeys, CallCues, KeptState,
        ListenerMesh, ScreenSharing, ScreenRecovery

CONSTANT Parts

VARIABLE part

Runs(p) == part = p

ClientsInit ==
    /\ part \in Parts
    /\ Init
    /\ NegotiationInit
    /\ ~Runs("negotiation") => bot = 0
    /\ PeerInit
    /\ VoiceControlsInit
    /\ PushToTalkInit
    /\ ~Runs("shortcuts") => ~delayed /\ chosen.saved = "talk"
    /\ DesktopUpdatesInit
    /\ WindowsInit
    /\ ShortcutSettingsInit
    /\ ShortcutKeysInit
    /\ DesktopAlertsInit
    /\ ~Runs("alerts") => screen.native
    /\ CallCuesInit
    /\ ~Runs("cues") => ~myCall.peer
    /\ KeptStateInit
    /\ ListenerMeshInit
    /\ ~Runs("mesh") => elected
    /\ ScreenSharingInit
    /\ ScreenRecoveryInit
    /\ remote.place \in {NoPlace} \cup (IF Runs("windows") THEN {CHOOSE place \in Places : TRUE} ELSE {})

\* What is bounded on its own is bounded together as well, so that a part that acts
\* to the full in one respect does less in another.
BoundedTogether ==
    /\ decided.choices + decided.calls <= MaxChoices
    /\ happened.stays + happened.signals + happened.troubles + happened.refreshes + happened.looks <= 4
    /\ spent.acts + spent.mutes + spent.drops + spent.losses <= IF crossed THEN 4 - spent.drops ELSE 5
    /\ spentKeys + spentSettings + spentUpsets <= 4
    /\ strokes + binds <= 4
    /\ pageAsks + window <= 3
    /\ Cardinality({c \in Captures : captured[c] # "none"}) + watcher.request + screens.calls
         <= IF hurried \/ watcher.deaf THEN 4 ELSE 5
    /\ Cardinality(line) <= 2

ClientsNext ==
    /\ UNCHANGED part
    /\ IF Runs("session") THEN Live /\ Next ELSE UNCHANGED vars
    /\ IF Runs("negotiation") THEN NegotiationNext ELSE UNCHANGED negotiationVars
    /\ IF Runs("recovery") THEN PeerNext ELSE UNCHANGED peerVars
    /\ IF Runs("controls") THEN VoiceControlsNext ELSE UNCHANGED voiceControlVars
    /\ IF Runs("shortcuts") THEN PushToTalkNext ELSE UNCHANGED pushToTalkVars
    /\ IF Runs("updates") THEN DesktopUpdatesNext ELSE UNCHANGED updateVars
    /\ IF Runs("windows") THEN DesktopWindowsNext ELSE UNCHANGED windowVars
    /\ IF Runs("settings") THEN ShortcutSettingsNext ELSE UNCHANGED shortcutSettingVars
    /\ IF Runs("keys") THEN ShortcutKeysNext ELSE UNCHANGED shortcutKeyVars
    /\ IF Runs("alerts") THEN DesktopAlertsNext ELSE UNCHANGED alertVars
    /\ IF Runs("cues") THEN CallCuesNext ELSE UNCHANGED cueVars
    /\ IF Runs("kept") THEN PreferencesNext
       ELSE IF Runs("places") THEN PlacementsNext ELSE UNCHANGED keptVars
    /\ IF Runs("mesh") THEN ListenerMeshNext ELSE UNCHANGED meshVars
    /\ IF Runs("screens") THEN ScreenSharingNext ELSE UNCHANGED sharingVars
    /\ IF Runs("pictures") THEN ScreenRecoveryNext ELSE UNCHANGED pictureVars
    /\ BoundedTogether'

clientsVars == <<part, vars, negotiationVars, peerVars, voiceControlVars, pushToTalkVars, updateVars,
               windowVars, shortcutSettingVars, shortcutKeyVars, alertVars, cueVars, keptVars, meshVars, sharingVars,
               pictureVars>>

ClientsSpec == ClientsInit /\ [][ClientsNext]_clientsVars

\* A member's controls, the screens of a call and their pictures are what the member
\* is shown, and what is shown is what the server tells the others.
MediaIsAsShown == WhatIsShownIsSent /\ SharingSettles /\ PicturesRecover

=============================================================================
