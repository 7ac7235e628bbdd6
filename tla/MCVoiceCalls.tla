---------------------------- MODULE MCVoiceCalls ----------------------------
(* Hand-off: one account, a laptop with two tabs, and a phone whose page has  *)
(* a reconnected signalling socket next to the old one.                      *)
EXTENDS VoiceCalls, TLC

CONSTANTS ada, laptop, phone, tab1, tab2, tab3, tab4, page1, page2, page3,
          srv, lobby, den

CallUsers == {ada}
CallSessions == {laptop, phone}
CallSockets == {tab1, tab2, tab3, tab4}
CallAccountOf == [d \in CallSessions |-> ada]
CallSessionOf == (tab1 :> laptop) @@ (tab2 :> laptop)
                 @@ (tab3 :> phone) @@ (tab4 :> phone)
CallInstanceOf == (tab1 :> page1) @@ (tab2 :> page2)
                  @@ (tab3 :> page3) @@ (tab4 :> page3)
CallRooms == {lobby, den}
CallServerOf == [r \in CallRooms |-> srv]

Silent == [mic |-> FALSE, camera |-> FALSE, screen |-> FALSE,
           deafened |-> FALSE, speaking |-> FALSE]
QuietRequests == {Silent}

=============================================================================
