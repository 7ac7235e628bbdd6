------------------------------ MODULE OneCall -------------------------------
(***************************************************************************)
(* What voice membership promises, without rooms of sockets, maps or timers: *)
(* an account has at most one call, on one Device.  The newest Device takes  *)
(* the call; a Device that goes offline keeps it for a while; a call whose   *)
(* Device stays away is eventually over.                                     *)
(***************************************************************************)
CONSTANTS Users, Rooms, Sessions, AccountOf, None

VARIABLES call,     \* call[u]: [roomId, sessionId], or None
          online    \* Devices with a connection

vars == <<call, online>>

\* A connected Device takes its account's call, in one step from wherever it was.
Take(u, r, d) ==
    /\ d \in online
    /\ AccountOf[d] = u
    /\ call' = [call EXCEPT ![u] = [roomId |-> r, sessionId |-> d]]
    /\ UNCHANGED online

\* Hanging up, an owner's decision about one account, a room that goes away.
End(U) ==
    /\ \E u \in U : call[u] # None
    /\ call' = [u \in Users |-> IF u \in U THEN None ELSE call[u]]
    /\ UNCHANGED online

\* The call of a Device that went away is given up.
Abandon(u) ==
    /\ call[u] # None
    /\ call[u].sessionId \notin online
    /\ End({u})

\* Devices come and go; no call changes by that alone.
Presence ==
    /\ online' \in SUBSET Sessions
    /\ UNCHANGED call

\* An account is closed, with all its Devices.
Terminate(u) ==
    /\ call' = [call EXCEPT ![u] = None]
    /\ online' = {d \in online : AccountOf[d] # u}

\* The service restarts: nobody is connected and nobody is in a call.
Restart ==
    /\ call' = [u \in Users |-> None]
    /\ online' = {}

Init == call = [u \in Users |-> None] /\ online = {}

Next ==
    \/ \E u \in Users, r \in Rooms, d \in Sessions : Take(u, r, d)
    \/ \E U \in SUBSET Users : End(U)
    \/ Presence
    \/ \E u \in Users : Terminate(u)
    \/ Restart

Spec == Init /\ [][Next]_vars /\ \A u \in Users : WF_vars(Abandon(u))

=============================================================================
