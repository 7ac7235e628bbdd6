---------------------------- MODULE PeerRecovery ----------------------------
(* How the web client keeps one connection of a call alive: the recovery state *)
(* machine (voicePeerRecovery.ts) and the timers and browser events that drive  *)
(* it (useVoiceMedia.ts).  The other side of the connection and the network     *)
(* are free; a timer that is armed may fire at any moment.                      *)
EXTENDS Naturals, FiniteSets

CONSTANTS
    MaxRebuilds,   \* bound: connections made to the other member
    MaxRecoveries     \* bound: verdicts of the quality sampler

VARIABLES
    present,          \* the other member is in the latest snapshot of the room
    peer,             \* the current connection's generation, 0 for none
    generation,       \* peerGenerations: moves with every making and removal
    transport,        \* "new", "ice" (a route, no DTLS yet), "broken" (lost again), "up", "down"
    phase, reason, attempt,   \* PeerRecoveryState; phase "none" when forgotten
    retryTimer,       \* peerRecoveryTimers: [for, kind], kind "none" "grace" "rebuild"
    deadline,         \* peerConnectionTimeouts: the deadline the map still names
    deadlines,        \* every deadline that has not fired or been cleared
    connections,      \* bound
    verdicts          \* bound

recoveryStateVars == <<phase, reason, attempt>>
peerVars == <<present, peer, generation, transport, phase, reason, attempt,
              retryTimer, deadline, deadlines, connections, verdicts>>

NoTimer == [for |-> 0, kind |-> "none"]

PeerInit ==
    /\ present = FALSE /\ peer = 0 /\ generation = 0 /\ transport = "new"
    /\ phase = "none" /\ reason = "none" /\ attempt = 0
    /\ retryTimer = NoTimer /\ deadline = NoTimer /\ deadlines = {}
    /\ connections = 0 /\ verdicts = 0

------------------------
(* advancePeerRecovery.                                                       *)

Now(p, r, a) == phase' = p /\ reason' = r /\ attempt' = a
Steady == phase \in {"none", "stable"}

\* rebuildBackoffMs has four entries.
NextAttempt == IF attempt < 3 THEN attempt + 1 ELSE 3

(* "connected" and "restart_succeeded" settle everything but an audio fault.    *)
Settling == ~(phase = "restarting" /\ reason = "quality")

------------------------
(* Connections.                                                               *)

(* deadlines once the one in the map is cleared, and another takes its place.   *)
ArmedFor(kind, for) ==
    /\ deadline' = [for |-> for, kind |-> kind]
    /\ deadlines' = (deadlines \ {deadline}) \cup {deadline'}

(* The same without clearTimeout: the grace timer forgets the one it replaces.  *)
ArmedOver(kind, for) ==
    /\ deadline' = [for |-> for, kind |-> kind]
    /\ deadlines' = deadlines \cup {deadline'}

Disarmed == deadline' = NoTimer /\ deadlines' = deadlines \ {deadline}

(* ensurePeer with no connection to return.                                   *)
Makes(g) ==
    /\ connections < MaxRebuilds /\ connections' = connections + 1
    /\ generation' = g /\ peer' = g /\ transport' = "new"
    /\ retryTimer' = NoTimer

EnsurePeer ==
    IF peer # 0
    THEN UNCHANGED <<peer, generation, transport, recoveryStateVars, retryTimer,
                     deadline, deadlines, connections>>
    ELSE /\ Makes(generation + 1)
         /\ Now(IF phase = "none" THEN "stable" ELSE phase, reason, attempt)
         /\ ArmedFor("first", generation')

(* A bug to notice: the recovery timer is cleared with the connection, and none *)
(* takes its place.                                                           *)
RebuildLater ==
    /\ Now("rebuilding", reason, NextAttempt)
    /\ peer' = 0 /\ generation' = generation + 1
    /\ retryTimer' = NoTimer
    /\ UNCHANGED <<present, transport, connections, verdicts>>

(* removePeer of schedulePeerRecovery: the recovery state is kept, and a timer   *)
(* is set for the replacement.                                                *)
Rebuild ==
    /\ Now("rebuilding", reason, NextAttempt)
    /\ peer' = 0 /\ generation' = generation + 1
    /\ retryTimer' = [for |-> generation + 1, kind |-> "rebuild"]
    /\ UNCHANGED <<present, transport, connections, verdicts>>

SchedulePeerRecovery == Rebuild /\ Disarmed

(* removePeer of a member that left, or of an instance that was replaced.       *)
Forget ==
    /\ peer' = 0 /\ generation' = generation + 1
    /\ Now("none", "none", 0)
    /\ retryTimer' = NoTimer /\ Disarmed

------------------------
(* Snapshots and signals.                                                     *)

SnapshotShows ==
    /\ present' = TRUE
    /\ EnsurePeer
    /\ UNCHANGED verdicts

(* The member has joined again from another page: the old connection is useless. *)
SnapshotShowsAnotherInstance ==
    /\ present /\ peer # 0
    /\ Makes(generation + 2)
    /\ Now("stable", "none", 0)
    /\ ArmedFor("first", generation')
    /\ UNCHANGED <<present, verdicts>>

SnapshotWithout ==
    /\ present /\ present' = FALSE
    /\ Forget
    /\ UNCHANGED <<transport, connections, verdicts>>

(* The other side asks for a fresh connection; the request makes one if need be. *)
HearsRecoveryRequest ==
    /\ peer # 0
    /\ SchedulePeerRecovery

HearsSignal ==
    /\ EnsurePeer
    /\ UNCHANGED <<present, verdicts>>

------------------------
(* What the browser reports.                                                  *)

(* ICE has a route, DTLS not yet: nothing is cleared.                           *)
IceConnects ==
    /\ peer # 0 /\ transport \in {"new", "broken"}
    /\ transport' = "ice"
    /\ UNCHANGED <<present, peer, generation, recoveryStateVars, retryTimer, deadline,
                   deadlines, connections, verdicts>>

(* DTLS completes: only onconnectionstatechange runs, which leaves the retry     *)
(* timer.  A reconnection runs the ICE handler too, which clears it.            *)
Connects ==
    /\ peer # 0 /\ transport \in {"ice", "down"}
    /\ transport' = "up"
    /\ IF Settling
       THEN /\ Now("stable", "none", 0) /\ Disarmed
            /\ retryTimer' = IF transport = "down" THEN NoTimer ELSE retryTimer
       ELSE UNCHANGED <<recoveryStateVars, deadline, deadlines, retryTimer>>
    /\ UNCHANGED <<present, peer, generation, connections, verdicts>>

(* The grace period starts, unless a timer or a restart is already at work.      *)
Disconnects ==
    /\ peer # 0 /\ transport \in {"ice", "up"}
    /\ transport' = IF transport = "up" THEN "down" ELSE "broken"
    /\ IF retryTimer # NoTimer \/ phase = "restarting"
       THEN UNCHANGED <<recoveryStateVars, retryTimer>>
       ELSE Now("grace", "transport", attempt) /\ retryTimer' = [for |-> peer, kind |-> "grace"]
    /\ UNCHANGED <<present, peer, generation, deadline, deadlines, connections, verdicts>>

Fails ==
    /\ peer # 0 /\ transport # "up"
    /\ SchedulePeerRecovery

------------------------
(* Timers.                                                                    *)

(* The grace period is over and ICE is still disconnected: requestPeerRecovery.  *)
GraceEnds ==
    /\ retryTimer.kind = "grace"
    /\ retryTimer' = NoTimer
    /\ IF retryTimer.for = peer /\ transport \in {"broken", "down"}
       THEN Now("restarting", "transport", attempt) /\ ArmedOver("restart", peer)
       ELSE UNCHANGED <<recoveryStateVars, deadline, deadlines>>
    /\ UNCHANGED <<present, peer, generation, transport, connections, verdicts>>

(* The rebuild delay is over; recoverPeerRef asks the other side too.           *)
RebuildDue ==
    /\ retryTimer.kind = "rebuild"
    /\ IF present /\ retryTimer.for = generation
       THEN EnsurePeer
       ELSE retryTimer' = NoTimer /\ UNCHANGED <<peer, generation, transport, recoveryStateVars,
                                                 deadline, deadlines, connections>>
    /\ UNCHANGED <<present, verdicts>>

(* A deadline fires: the map forgets whichever deadline it names.               *)
DeadlinePasses(d) ==
    LET passed == deadlines' = deadlines \ {d} /\ deadline' = NoTimer
        ours   == d.for = peer
        late   == IF d.kind = "quality" THEN phase = "restarting" /\ reason = "quality"
                                        ELSE transport # "up"
    IN  /\ d \in deadlines
        /\ IF ours /\ late
           THEN Rebuild /\ deadline' = NoTimer /\ deadlines' = deadlines \ {d, deadline}
           ELSE /\ IF ours \/ d.kind # "quality" THEN passed
                   ELSE deadlines' = deadlines \ {d} /\ UNCHANGED deadline
                /\ UNCHANGED <<present, peer, generation, transport, recoveryStateVars,
                               retryTimer, connections, verdicts>>

------------------------
(* The quality sampler.                                                       *)

(* recoverPeer with the connection that was measured: no sound in two samples,   *)
(* eight seconds in which any grace period of three has run out.                *)
AudioStalls ==
    /\ peer # 0 /\ transport = "up" /\ Steady /\ retryTimer = NoTimer
    /\ verdicts < MaxRecoveries /\ verdicts' = verdicts + 1
    /\ Now("restarting", "quality", attempt)
    /\ ArmedFor("quality", peer)
    /\ UNCHANGED <<present, peer, generation, transport, retryTimer, connections>>

(* confirmPeerAudioRecovered.                                                 *)
AudioResumes ==
    /\ peer # 0 /\ transport = "up" /\ phase = "restarting" /\ reason = "quality"
    /\ Now("stable", "none", 0)
    /\ Disarmed
    /\ UNCHANGED <<present, peer, generation, transport, retryTimer, connections, verdicts>>

PeerNext ==
    \/ SnapshotShows \/ SnapshotShowsAnotherInstance \/ SnapshotWithout
    \/ HearsSignal \/ HearsRecoveryRequest
    \/ IceConnects \/ Connects \/ Disconnects \/ Fails
    \/ GraceEnds \/ RebuildDue \/ (\E d \in deadlines : DeadlinePasses(d))
    \/ AudioStalls \/ AudioResumes

PeerSpec == PeerInit /\ [][PeerNext]_peerVars

------------------------
(* Properties.                                                                *)

(* A timer will look at the member's connection again.                         *)
Watched ==
    \/ retryTimer.kind = "rebuild"
    \/ retryTimer.kind = "grace" /\ retryTimer.for = peer
    \/ \E d \in deadlines : d.for = peer

PeerHeard == transport = "up" /\ peer # 0 /\ Steady

(* A restart of a connection ends with the connection settled, rebuilt or gone, *)
(* never with another restart or a grace period beside it.                     *)
RestartsSettle ==
    [][phase = "restarting" /\ peer' = peer =>
           <<phase', reason'>> \in {<<phase, reason>>, <<"stable", "none">>}]_peerVars

(* While a member of the call is not heard, or its recovery is not over, a       *)
(* timer is armed that will act on its connection, and restarts settle:         *)
(* "without leaving the member stuck on `connecting`" (the reliability plan) and *)
(* "Recovery is single-flight per peer. It will not issue overlapping ICE         *)
(* restarts" (the reliability design).                                         *)
RecoveryIsSingleFlight == [](present => PeerHeard \/ Watched) /\ RestartsSettle

=============================================================================
