------------------------------ MODULE MCMusic ------------------------------
(* The Music bot, twice: in one room with a member it serves, and between two  *)
(* rooms, among which another member moves and out of which the bot may be put, *)
(* every join being answered in time.                                        *)
EXTENDS MusicResponder, TLC

CONSTANTS Parts, ada, bo, lounge, studio

VARIABLE part

InOneRoom == part = "room"

MusicInit ==
    /\ Init /\ part \in Parts
    /\ location = IF InOneRoom THEN (ada :> lounge) @@ (bo :> None) ELSE (ada :> None) @@ (bo :> lounge)
    /\ InOneRoom \/ ~muted

\* In one room: three requests, or two in a room that is moderated, or two in a
\* room that is left and reentered.
OneAtATime ==
    \/ spent'.move = 0 /\ ~muted' /\ spent'.mute = 0
    \/ spent'.command < CommandBound /\ (spent'.move = 0 \/ (~muted' /\ spent'.mute = 0))
OwnerInOneRoom == Moderate \/ \E r \in {lounge, None} : Move(ada, r)

\* Between two rooms: one request less, a move and an eviction.
OwnerBetweenTwo == Evict \/ (spent.move = 0 /\ \E r \in Rooms \cup {None} : Move(bo, r))

MusicNext ==
    /\ UNCHANGED part
    /\ \/ (InOneRoom \/ spent.command < CommandBound - 1) /\ Command
       \/ InOneRoom /\ (ChainNext \/ OwnerInOneRoom)
       \/ ~InOneRoom /\ ((ChainNext /\ ~JoinTimesOut) \/ OwnerBetweenTwo)
       \/ PlayerFinishes \/ FetchFails \/ GraceFires \/ BotReceives \/ ServerReceives
    /\ InOneRoom => OneAtATime

MusicSpec ==
    /\ MusicInit /\ [][MusicNext]_<<vars, part>>
    /\ WF_vars(ChainNext) /\ WF_vars(BotReceives) /\ WF_vars(ServerReceives) /\ WF_vars(GraceFires)

\* Where every join is answered in time the bot is, at rest, in the room its Set
\* is in and nowhere else (MembershipFollowsTheSet), whatever Summons, moves,
\* refusals and evictions met.
AnsweredJoinsHold == ~InOneRoom => MembershipFollowsTheSet

=============================================================================
