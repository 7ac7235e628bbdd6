---------------------------- MODULE MCVoiceMedia ----------------------------
(* Media: two accounts, one of which may move its call to a second Device, in *)
(* an ordinary room and the AFK room.                                        *)
EXTENDS VoiceMembership, TLC

CONSTANTS ada, bo, laptop, phone, bosTablet, tab1, tab2, tab3, page1, page2, page3,
          srv, lobby, afk

MediaUsers == {ada, bo}
MediaSessions == {laptop, phone, bosTablet}
MediaSockets == {tab1, tab2, tab3}
MediaAccountOf == (laptop :> ada) @@ (phone :> ada) @@ (bosTablet :> bo)
MediaSessionOf == (tab1 :> laptop) @@ (tab2 :> phone) @@ (tab3 :> bosTablet)
MediaInstanceOf == (tab1 :> page1) @@ (tab2 :> page2) @@ (tab3 :> page3)
MediaRooms == {lobby, afk}
OneRoom == {lobby}
MediaServerOf == [r \in MediaRooms |-> srv]
OneServerOf == [r \in OneRoom |-> srv]

Request(mic, camera, screen) ==
    [mic |-> mic, camera |-> camera, screen |-> screen,
     deafened |-> FALSE, speaking |-> FALSE]

TalkOrShow == {Request(m, c, FALSE) : m \in BOOLEAN, c \in BOOLEAN}
VisualRequests == {Request(FALSE, c, s) : c \in BOOLEAN, s \in BOOLEAN}

Moderations == {[muted |-> m, deafened |-> FALSE] : m \in BOOLEAN}
NoModeration == {}

\* The laptop and the phone, each with its tab and page, may change places.
AdasDevices == {laptop, phone, tab1, tab2, page1, page2}
Swap == (laptop :> phone) @@ (phone :> laptop) @@ (tab1 :> tab2) @@ (tab2 :> tab1)
        @@ (page1 :> page2) @@ (page2 :> page1)
DeviceSymmetry ==
    {p \in Permutations(AdasDevices) : p = Swap \/ \A x \in AdasDevices : p[x] = x}

=============================================================================
