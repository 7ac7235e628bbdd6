---------------------------- MODULE ListenerMesh ----------------------------
(* The Music bot's side of one Listener, apart from the offer and answer       *)
(* themselves (Negotiation): the connection it builds, drops and rebuilds as   *)
(* snapshots, signals and the transport tell it to, the timers of its          *)
(* recovery, closing that takes its time, and the output the player writes     *)
(* the Track's frames to.                                                      *)
EXTENDS Naturals, Sequences

CONSTANTS MaxStays, MaxSignals, MaxTroubles, MaxRefreshes, MaxLooks

VARIABLES elected,  \* the shared rule makes the bot the one that offers
          listener, \* the server's membership of the Listener: 0, or its media instance
          wire,     \* what the server sent the bot's socket, in order
          mesh,     \* VoiceMesh: the Listener's instance, peer and output, timers, peers that close
          playing,  \* TrackPlayer.isPlaying
          hearing,  \* ghost: the Listener heard nothing since a silence began; a marker was missing
          happened  \* how often anything happened that is bounded

meshVars == <<elected, listener, wire, mesh, playing, hearing, happened>>

NoPeer == [id |-> 0, state |-> "none"]
NoOutput == [of |-> 0, marked |-> FALSE]

ListenerMeshInit ==
    /\ elected \in BOOLEAN
    /\ listener = 0
    /\ wire = <<>>
    /\ mesh = [started |-> TRUE, known |-> 0, peer |-> NoPeer, output |-> NoOutput, built |-> 0,
               credential |-> 0, deadlines |-> {}, closing |-> {}, owed |-> FALSE, overtaken |-> FALSE]
    /\ playing = FALSE
    /\ hearing = [silent |-> TRUE, missing |-> FALSE]
    /\ happened = [stays |-> 0, signals |-> 0, troubles |-> 0, refreshes |-> 0, looks |-> 0]

Again(what, bound) == happened[what] < bound /\ happened' = [happened EXCEPT ![what] = @ + 1]

------------------------
(* The Listener joins with a new media instance or with its last, reloads its  *)
(* page, leaves; its client signals, stamped with the instance by the server.  *)

Told(kind, instance) == wire' = Append(wire, [kind |-> kind, instance |-> instance])

ListenerStays ==
    /\ \/ Again("stays", MaxStays) /\ listener' = happened.stays + 1
       \/ listener = 0 /\ happened.stays # 0 /\ Again("signals", MaxSignals) /\ listener' = happened.stays
    /\ Told("snapshot", listener')
    /\ UNCHANGED <<elected, mesh, playing, hearing>>

ListenerGoes ==
    /\ listener # 0
    /\ listener' = 0
    /\ Told("snapshot", 0)
    /\ UNCHANGED <<elected, mesh, playing, hearing, happened>>

ListenerSignals ==
    /\ listener # 0
    /\ Again("signals", MaxSignals)
    /\ \E kind \in {"offer", "recovery", "snapshot"} : Told(kind, listener)
    /\ UNCHANGED <<elected, listener, mesh, playing, hearing>>

------------------------
(* What becomes of the mesh. *)

(* ensurePeer: a new peer carries the output the player has for the Listener. *)
Ensured(m) ==
    IF m.peer # NoPeer THEN m
    ELSE [m EXCEPT !.built = @ + 1,
                   !.peer = [id |-> m.built + 1, state |-> "new", of |-> m.known, offered |-> FALSE,
                             making |-> "no", missed |-> FALSE, credential |-> m.credential,
                             grace |-> FALSE, generation |-> 0, asked |-> FALSE],
                   !.output = IF @ = NoOutput THEN [of |-> m.built + 1, marked |-> FALSE] ELSE @]

DroppedLeavingTheOutput(m) == [m EXCEPT !.peer = NoPeer]

(* removePeer: the output is released at once, whatever closing takes. *)
Dropped(m) == [m EXCEPT !.peer = NoPeer, !.output = NoOutput]

(* ensureOffered *)
Offering(m) ==
    [m EXCEPT !.peer.making = IF elected /\ ~m.peer.offered /\ @ = "no" THEN "first" ELSE @]

(* rebuildPeer, until the old peer has closed. *)
Rebuilding(m) ==
    [Dropped(m) EXCEPT !.closing = @ \cup {[id |-> m.peer.id, instance |-> m.known]},
                       !.owed = ~elected, !.overtaken = FALSE]

(* recoverPeer: with old credentials a new peer; else the elected side         *)
(* restarts and gives it ten seconds, the other asks for that.                 *)
Recovering(m) ==
    LET next == m.peer.generation + 1
        again == [m EXCEPT !.peer.grace = FALSE, !.peer.generation = next]
    IN IF m.peer.credential # m.credential THEN Rebuilding(m)
       ELSE IF elected
              THEN [again EXCEPT !.peer.making = "recovery",
                                 !.deadlines = @ \cup {[id |-> m.peer.id, generation |-> next]}]
              ELSE [again EXCEPT !.peer.asked = TRUE]

Replaces(m, instance) == m.known \notin {0, instance}

WithSnapshot(m, instance) ==
    LET over == instance = 0 \/ Replaces(m, instance)
        left == IF over THEN [Dropped(m) EXCEPT !.owed = FALSE] ELSE m
        here == [left EXCEPT !.known = instance]
    IN IF instance = 0 THEN here ELSE Offering(Ensured(here))

(* An offer that is answered settles the connection. *)
WithOffer(m, instance) ==
    [Ensured([m EXCEPT !.known = instance]) EXCEPT !.peer.offered = TRUE, !.owed = FALSE]

HearWire ==
    LET heard == Head(wire)
        late == ~mesh.started \/ (heard.kind # "snapshot" /\ Replaces(mesh, heard.instance))
    IN /\ wire # <<>>
       /\ wire' = Tail(wire)
       /\ mesh' = IF late THEN mesh
                  ELSE CASE heard.kind = "snapshot" -> WithSnapshot(mesh, heard.instance)
                         [] heard.kind = "offer"    -> WithOffer(mesh, heard.instance)
                         [] OTHER -> Rebuilding(Ensured([mesh EXCEPT !.known = heard.instance]))
       /\ UNCHANGED <<elected, listener, playing, hearing, happened>>

(* The old peer has closed: its successor, unless one was built meanwhile.     *)
CloseEnds ==
    /\ \E c \in mesh.closing :
           LET closed == [mesh EXCEPT !.closing = @ \ {c}]
               next == [Ensured(closed) EXCEPT !.peer.asked = ~elected, !.owed = FALSE]
           IN mesh' = IF mesh.started /\ mesh.peer = NoPeer /\ mesh.known = c.instance THEN Offering(next)
                      ELSE [closed EXCEPT !.overtaken = @ \/ mesh.peer # NoPeer]
    /\ UNCHANGED <<elected, listener, wire, playing, hearing, happened>>

------------------------
(* Offers, the transport and its timers. *)

HasPeer == mesh.peer # NoPeer

OfferGoes ==
    /\ HasPeer
    /\ mesh.peer.making # "no"
    /\ mesh' = [mesh EXCEPT !.peer.making = "no", !.peer.offered = TRUE]
    /\ UNCHANGED <<elected, listener, wire, playing, hearing, happened>>

OfferFails ==
    /\ HasPeer
    /\ mesh.peer.making # "no"
    /\ Again("troubles", MaxTroubles)
    /\ mesh' = IF mesh.peer.making = "recovery" THEN Rebuilding(mesh)
               ELSE [mesh EXCEPT !.peer.making = "no", !.peer.missed = TRUE]
    /\ UNCHANGED <<elected, listener, wire, playing, hearing>>

(* Up: whatever was written before went nowhere. *)
TransportUp ==
    /\ HasPeer
    /\ mesh.peer.offered
    /\ mesh.peer.state # "connected"
    /\ mesh' = [mesh EXCEPT !.peer.state = "connected", !.peer.grace = FALSE, !.peer.asked = FALSE,
                            !.output.marked = FALSE]
    /\ hearing' = [hearing EXCEPT !.silent = TRUE]
    /\ UNCHANGED <<elected, listener, wire, playing, happened>>

TransportBreaks ==
    /\ HasPeer
    /\ mesh.peer.state = "connected"
    /\ Again("troubles", MaxTroubles)
    /\ mesh' = [mesh EXCEPT !.peer.state = "disconnected", !.peer.grace = TRUE, !.peer.generation = @ + 1]
    /\ UNCHANGED <<elected, listener, wire, playing, hearing>>

TransportFails ==
    /\ HasPeer
    /\ mesh.peer.offered
    /\ mesh.peer.state # "failed"
    /\ Again("troubles", MaxTroubles)
    /\ mesh' = Recovering([mesh EXCEPT !.peer.state = "failed"])
    /\ UNCHANGED <<elected, listener, wire, playing, hearing>>

RecoveryGraceEnds ==
    /\ HasPeer
    /\ mesh.peer.grace
    /\ mesh' = Recovering(mesh)
    /\ UNCHANGED <<elected, listener, wire, playing, hearing, happened>>

RecoveryTimesOut ==
    /\ \E d \in mesh.deadlines :
           LET over == [mesh EXCEPT !.deadlines = @ \ {d}] IN
           mesh' = IF /\ mesh.peer.id = d.id
                      /\ mesh.peer.generation = d.generation
                      /\ mesh.peer.state # "connected"
                     THEN Rebuilding(over) ELSE over
    /\ UNCHANGED <<elected, listener, wire, playing, hearing, happened>>

FreshCredentials ==
    /\ mesh.started
    /\ Again("refreshes", MaxRefreshes)
    /\ mesh' = [mesh EXCEPT !.credential = @ + 1]
    /\ UNCHANGED <<elected, listener, wire, playing, hearing>>

------------------------
(* The player. *)

Down == mesh.peer.state \in {"disconnected", "failed"}

(* The next frame of every output opens a talkspurt: a Track is loaded, or the  *)
(* audio it waited for resumes (nothing is written between a stall and that).  *)
Reopens ==
    /\ mesh' = [mesh EXCEPT !.output.marked = FALSE]
    /\ hearing' = [hearing EXCEPT !.silent = TRUE]
    /\ UNCHANGED <<elected, listener, wire, playing, happened>>

LoadsTrack == mesh.started /\ Reopens
Starves == playing /\ Reopens

(* play looks after an unhealthy Listener, then starts the player. *)
Plays ==
    /\ mesh.started
    /\ IF Down THEN Again("looks", MaxLooks) ELSE ~playing /\ UNCHANGED happened
    /\ playing' = TRUE
    /\ mesh' = [(IF Down THEN Recovering(mesh) ELSE mesh) EXCEPT !.output.marked = @ /\ playing]
    /\ hearing' = [hearing EXCEPT !.silent = @ \/ ~playing]
    /\ UNCHANGED <<elected, listener, wire>>

StopsPlaying ==
    /\ playing
    /\ playing' = FALSE
    /\ UNCHANGED <<elected, listener, wire, mesh, hearing, happened>>

WritesFrame ==
    /\ playing
    /\ mesh' = [mesh EXCEPT !.output.marked = mesh.output # NoOutput]
    /\ hearing' = IF mesh.peer.state = "connected"
                    THEN [silent |-> FALSE, missing |-> hearing.missing \/ (hearing.silent /\ mesh.output.marked)]
                    ELSE hearing
    /\ UNCHANGED <<elected, listener, wire, playing, happened>>

(* end closes the playing, then the mesh. *)
SetEnds ==
    /\ mesh.started
    /\ playing' = FALSE
    /\ mesh' = [Dropped(mesh) EXCEPT !.started = FALSE, !.known = 0, !.owed = FALSE]
    /\ UNCHANGED <<elected, listener, wire, hearing, happened>>

ListenerMeshNext ==
    \/ ListenerStays \/ ListenerGoes \/ ListenerSignals \/ HearWire \/ CloseEnds
    \/ OfferGoes \/ OfferFails \/ TransportUp \/ TransportBreaks \/ TransportFails
    \/ RecoveryGraceEnds \/ RecoveryTimesOut \/ FreshCredentials
    \/ LoadsTrack \/ Plays \/ StopsPlaying \/ Starves \/ WritesFrame \/ SetEnds

ListenerMeshSpec == ListenerMeshInit /\ [][ListenerMeshNext]_meshVars

------------------------
(* However snapshots, signals, closing peers and timers follow each other: a   *)
(* Listener's peer carries the one output the player feeds, and an output      *)
(* without a peer is never left behind; once all is heard there is a peer, or  *)
(* one on its way, exactly for the media instance the server shows; the        *)
(* elected side has offered or will; a transport that is down has a timer or   *)
(* was reported to the side that must restart it, and a peer dropped to be     *)
(* rebuilt is asked for, unless a snapshot's peer came before its successor;   *)
(* and the first frame heard after a silence says that it opens a talkspurt.   *)
ListenersAreFed ==
    LET fed == mesh.peer IN
    /\ mesh.output.of = fed.id
    /\ mesh.started /\ wire = <<>> =>
           IF listener = 0 THEN ~HasPeer
           ELSE IF HasPeer THEN fed.of = listener ELSE \E c \in mesh.closing : c.instance = listener
    /\ HasPeer =>
           /\ elected => fed.offered \/ fed.making # "no" \/ fed.missed
           /\ Down => \/ fed.grace \/ fed.asked \/ fed.making = "recovery"
                      \/ [id |-> fed.id, generation |-> fed.generation] \in mesh.deadlines
    /\ mesh.owed => mesh.closing # {} \/ mesh.overtaken
    /\ ~hearing.missing

=============================================================================
