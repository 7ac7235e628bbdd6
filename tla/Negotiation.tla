----------------------------- MODULE Negotiation -----------------------------
(* How two members of a room agree on what their connection carries: the      *)
(* offer and answer exchange of the web client (useVoiceMedia.ts) and of the   *)
(* Music bot (mesh.ts), and the shared rules that say who offers and who       *)
(* yields.  Users are numbers because the rules compare user ids.              *)
(*                                                                            *)
(* Every WebRTC call is asynchronous: a connection completes the calls made on  *)
(* it one after the other, and the code goes on when its own call is complete.  *)
(* Candidates and transport failures are left out; one camera stands for the    *)
(* media that comes and goes.                                                  *)
EXTENDS Naturals, Sequences, SequencesExt

CONSTANTS
    Bots,            \* who may be the Music bot: a subset of 0 .. 2, 0 for nobody
    MaxMediaChanges  \* bound: changes of local media, both members together

VARIABLES
    bot,             \* the member that is the Music bot, or 0
    signalling,      \* signalingState of each member's connection
    calls,           \* the WebRTC calls each member has made, oldest first
    making,          \* sendOffer is between its first call and its end
    superseded,      \* the offer being made belongs to an old offerGeneration
    pendingOffer,    \* another offer is owed when this exchange is over
    offered,         \* an offer or an answer has gone out
    camera,          \* the member shows its camera to the other
    section,         \* the connection has a transceiver for video
    seen,            \* the other member has been told of the camera
    signals,         \* signals on their way to each member, in order
    mediaChanges     \* bound: media changes so far

negotiationVars == <<bot, signalling, calls, making, superseded, pendingOffer, offered,
                     camera, section, seen, signals, mediaChanges>>
mediaVars == <<camera, section, mediaChanges>>

Pair == {1, 2}
Peer(p) == 3 - p

NegotiationInit ==
    /\ bot \in Bots
    /\ signalling = [p \in Pair |-> "stable"]
    /\ calls = [p \in Pair |-> <<>>]
    /\ signals = [p \in Pair |-> <<>>]
    /\ making = [p \in Pair |-> FALSE]
    /\ superseded = [p \in Pair |-> FALSE]
    /\ pendingOffer = [p \in Pair |-> FALSE]
    /\ offered = [p \in Pair |-> FALSE]
    /\ camera = [p \in Pair |-> FALSE]
    /\ section = [p \in Pair |-> FALSE]
    /\ seen = [p \in Pair |-> FALSE]
    /\ mediaChanges = 0

------------------------
(* The shared rules.                                                          *)

ShouldInitiate(p) == p < Peer(p)
Polite(p) == p > Peer(p)
Collides(p) == making[p] \/ signalling[p] # "stable"

ShouldIgnoreOffer(p) == Collides(p) /\ ~Polite(p)

------------------------
(* The connection's calls.                                                    *)

Call(op, video, shows) == [op |-> op, video |-> video, shows |-> shows]
CallIs(p, op) == calls[p] # <<>> /\ Head(calls[p]).op = op
ThisCall(p) == Head(calls[p])
Ends(p) == calls' = [calls EXCEPT ![p] = Tail(@)]
GoesOn(p, call) == calls' = [calls EXCEPT ![p] = Append(Tail(@), call)]
Becomes(p, state) == signalling' = [signalling EXCEPT ![p] = state]
Sends(p, type, video, shows) ==
    signals' = [signals EXCEPT ![Peer(p)] =
                    Append(@, [type |-> type, video |-> video, shows |-> shows])]

------------------------
(* Offering.                                                                  *)

(* sendOffer: one offer at a time, and only on a settled connection; `rest` is  *)
(* what the calls are once the one that led here has ended.                    *)
SendOffer(p, rest) ==
    IF Collides(p)
    THEN /\ pendingOffer' = [pendingOffer EXCEPT ![p] = TRUE]
         /\ calls' = [calls EXCEPT ![p] = rest]
         /\ UNCHANGED <<making, superseded>>
    ELSE /\ making' = [making EXCEPT ![p] = TRUE]
         /\ superseded' = [superseded EXCEPT ![p] = FALSE]
         /\ calls' = [calls EXCEPT ![p] = Append(rest, Call("createOffer", FALSE, FALSE))]
         /\ UNCHANGED pendingOffer

(* A snapshot or voice:joined names the other member: ensureInitialOffer.       *)
Meets(p) ==
    /\ ShouldInitiate(p) /\ ~offered[p] /\ ~making[p]
    /\ SendOffer(p, calls[p])
    /\ UNCHANGED <<bot, signalling, offered, seen, signals, mediaVars>>

(* renegotiatePeers, and a viewer's subscription: the tracks are put on the    *)
(* connection first.  The bot's one track never changes.                       *)
ChangesMedia(p) ==
    /\ p # bot /\ mediaChanges < MaxMediaChanges
    /\ mediaChanges' = mediaChanges + 1
    /\ \E shows \in BOOLEAN :
           /\ camera' = [camera EXCEPT ![p] = shows]
           /\ section' = [section EXCEPT ![p] = @ \/ shows]
    /\ SendOffer(p, calls[p])
    /\ UNCHANGED <<bot, signalling, offered, seen, signals>>

(* The finally of sendOffer.                                                  *)
Released(p) == making' = [making EXCEPT ![p] = FALSE]

(* createOffer resolved.  The client forgets an offer that was overtaken; the   *)
(* bot owes it.                                                               *)
OfferCreated(p) ==
    /\ CallIs(p, "createOffer")
    /\ IF signalling[p] # "stable" \/ (superseded[p] /\ p # bot)
       THEN /\ Ends(p) /\ Released(p)
            /\ pendingOffer' = [pendingOffer EXCEPT ![p] = @ \/ p = bot]
       ELSE /\ GoesOn(p, Call("setOffer", section[p], camera[p]))
            /\ UNCHANGED <<making, pendingOffer>>
    /\ UNCHANGED <<bot, signalling, superseded, offered, seen, signals, mediaVars>>

(* setLocalDescription(offer) resolved, or was refused because an offer of the  *)
(* other side came first.                                                     *)
OfferSet(p) ==
    /\ CallIs(p, "setOffer")
    /\ Ends(p) /\ Released(p)
    /\ signalling' = [signalling EXCEPT ![p] = IF @ = "stable" THEN "local" ELSE @]
    /\ IF signalling[p] # "stable" \/ (superseded[p] /\ p # bot)
       THEN UNCHANGED <<offered, signals>>
       ELSE /\ offered' = [offered EXCEPT ![p] = TRUE]
            /\ Sends(p, "offer", ThisCall(p).video, ThisCall(p).shows)
    /\ UNCHANGED <<bot, superseded, pendingOffer, seen, mediaVars>>

------------------------
(* Answering.                                                                 *)

Heard(p, type) == signals[p] # <<>> /\ Head(signals[p]).type = type
Took(p) == signals' = [signals EXCEPT ![p] = Tail(@)]

(* handleSignal, an offer.                                                    *)
HearsOffer(p) ==
    /\ Heard(p, "offer") /\ Took(p)
    /\ IF ShouldIgnoreOffer(p)
       THEN UNCHANGED <<calls, superseded>>
       ELSE /\ superseded' = [superseded EXCEPT ![p] = @ \/ Collides(p)]
            /\ calls' = [calls EXCEPT ![p] = Append(@,
                   Call(IF signalling[p] = "stable" THEN "setRemote" ELSE "rollback",
                        Head(signals[p]).video, Head(signals[p]).shows))]
    /\ UNCHANGED <<bot, signalling, making, pendingOffer, offered, seen, mediaVars>>

(* The rollback of an own offer.  On a connection that has settled meanwhile it *)
(* is refused, and the offer that asked for it is lost.                        *)
RolledBack(p) ==
    /\ CallIs(p, "rollback")
    /\ IF signalling[p] = "stable" THEN Ends(p)
       ELSE GoesOn(p, Call("setRemote", ThisCall(p).video, ThisCall(p).shows))
    /\ Becomes(p, "stable")
    /\ UNCHANGED <<bot, making, superseded, pendingOffer, offered, seen, signals, mediaVars>>

(* setRemoteDescription(offer) resolved, rolling an own offer back if need be.  *)
OfferApplied(p) ==
    /\ CallIs(p, "setRemote")
    /\ Becomes(p, "remote")
    /\ seen' = [seen EXCEPT ![Peer(p)] = ThisCall(p).shows]
    /\ section' = [section EXCEPT ![p] = @ \/ ThisCall(p).video]
    /\ GoesOn(p, Call("createAnswer", ThisCall(p).video, FALSE))
    /\ UNCHANGED <<bot, making, superseded, pendingOffer, offered, signals, camera, mediaChanges>>

(* createAnswer resolved: an answer fills only the sections the offer has.      *)
AnswerCreated(p) ==
    /\ CallIs(p, "createAnswer")
    /\ GoesOn(p, Call("setAnswer", ThisCall(p).video, ThisCall(p).video /\ camera[p]))
    /\ UNCHANGED <<bot, signalling, making, superseded, pendingOffer, offered, seen,
                   signals, mediaVars>>

(* A bug to notice: the pending offer is not taken up after an answer of one's own. *)
SettlesQuietly(p) ==
    /\ Becomes(p, "stable") /\ Ends(p) /\ UNCHANGED <<pendingOffer, making, superseded>>

(* The exchange is over: an offer owed is made now, if none is being made.      *)
Settles(p) ==
    /\ Becomes(p, "stable")
    /\ IF pendingOffer[p] /\ ~making[p]
       THEN /\ pendingOffer' = [pendingOffer EXCEPT ![p] = FALSE]
            /\ making' = [making EXCEPT ![p] = TRUE]
            /\ superseded' = [superseded EXCEPT ![p] = FALSE]
            /\ GoesOn(p, Call("createOffer", FALSE, FALSE))
       ELSE Ends(p) /\ UNCHANGED <<pendingOffer, making, superseded>>

(* setLocalDescription(answer) resolved.                                       *)
AnswerSet(p) ==
    /\ CallIs(p, "setAnswer")
    /\ IF signalling[p] = "remote"
       THEN /\ Settles(p)
            /\ offered' = [offered EXCEPT ![p] = TRUE]
            /\ Sends(p, "answer", ThisCall(p).video, ThisCall(p).shows)
       ELSE Ends(p) /\ UNCHANGED <<signalling, pendingOffer, making, superseded, offered, signals>>
    /\ UNCHANGED <<bot, seen, mediaVars>>

(* handleSignal, an answer, and its setRemoteDescription, which is refused when *)
(* no offer is out.                                                           *)
HearsAnswer(p) ==
    /\ Heard(p, "answer") /\ Took(p)
    /\ calls' = [calls EXCEPT ![p] =
                     Append(@, Call("accept", Head(signals[p]).video, Head(signals[p]).shows))]
    /\ UNCHANGED <<bot, signalling, making, superseded, pendingOffer, offered, seen, mediaVars>>

AnswerApplied(p) ==
    /\ CallIs(p, "accept")
    /\ IF signalling[p] = "local"
       THEN Settles(p) /\ seen' = [seen EXCEPT ![Peer(p)] = ThisCall(p).shows]
       ELSE Ends(p) /\ UNCHANGED <<signalling, pendingOffer, making, superseded, seen>>
    /\ UNCHANGED <<bot, offered, signals, mediaVars>>

NegotiationNext ==
    \E p \in Pair :
        \/ Meets(p) \/ ChangesMedia(p)
        \/ OfferCreated(p) \/ OfferSet(p)
        \/ HearsOffer(p) \/ RolledBack(p) \/ OfferApplied(p) \/ AnswerCreated(p) \/ AnswerSet(p)
        \/ HearsAnswer(p) \/ AnswerApplied(p)

NegotiationSpec == NegotiationInit /\ [][NegotiationNext]_negotiationVars

------------------------
(* Properties.                                                                *)

(* The two sides never answer each other's offers at once, which is how a       *)
(* collision would cancel both (index.ts, shouldIgnoreIncomingOffer).           *)
OneExchangeAtATime == \E p \in Pair : signalling[p] # "remote"

(* Nothing is under way any more.                                             *)
NegotiationAtRest == \A p \in Pair : signals[p] = <<>> /\ calls[p] = <<>>

(* "so the pair settles on a single exchange rather than cancelling each other  *)
(* out" (index.ts:342): when nothing is under way, nobody waits for an answer.  *)
PairSettles == NegotiationAtRest => \A p \in Pair : signalling[p] = "stable"

(* When all is quiet and a side is settled, no offer it owes has been left     *)
(* behind: pendingOfferPeersRef and pendingOffer are taken up again.           *)
OwedOffersAreMade ==
    NegotiationAtRest => \A p \in Pair : signalling[p] = "stable" => ~pendingOffer[p]

\* Collisions cancel no exchange, and no exchange leaves an offer behind.
ExchangesAreOrderly == OneExchangeAtATime /\ OwedOffersAreMade

=============================================================================
