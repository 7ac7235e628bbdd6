---------------------------- MODULE ScreenSharing ----------------------------
(* One member shares a screen in a call and another watches it: the captures    *)
(* the sharer's client asks for and holds, what the server keeps of both, what  *)
(* is added to the connection to the watcher, and the watcher's selection,      *)
(* whose requests also come from the repair of a picture that stopped.  The two *)
(* directions of each socket keep their order; both stay connected.            *)
EXTENDS Naturals, Sequences

CONSTANTS MaxCaptures, MaxWatches, MaxShareCalls

VARIABLES
    captured,  \* each capture ever asked for: "none", "asked", "live" or "over"
    sharer,   \* the sharer's client; empty: the button was lit for a capture no longer held; carried
              \* is what the connection to the watcher carries
    toServer, \* from the sharer
    toSharer,
    screens,  \* the server: whether the sharer is in, shares, and is watched
    watcher,  \* the watcher's client: its target, what it sees, its requests and their watchAnswers
    watchAsks,     \* from the watcher
    watchAnswers,
    hurried   \* a second capture met the first: it was granted while the first was held, or
              \* stopped by the refusal of the first

sharingVars == <<captured, sharer, toServer, toSharer, screens, watcher, watchAsks, watchAnswers, hurried>>

Captures == 1..MaxCaptures
OutOfCall == [inCall |-> FALSE, held |-> 0, shown |-> FALSE, empty |-> FALSE, watched |-> FALSE, carried |-> 0]

ScreenSharingInit ==
    /\ captured = [c \in Captures |-> "none"]
    /\ sharer = [OutOfCall EXCEPT !.inCall = TRUE]
    /\ toServer = <<>> /\ toSharer = <<>>
    /\ screens = [in |-> TRUE, sharing |-> FALSE, watched |-> FALSE, calls |-> 1]
    /\ watcher = [target |-> FALSE, sees |-> FALSE, request |-> 0, pending |-> 0,
                  waits |-> {}, unwatched |-> FALSE, deaf |-> FALSE, crossed |-> FALSE]
    /\ watchAsks = <<>> /\ watchAnswers = <<>> /\ hurried = FALSE

------------------------
(* The sharer.                                                               *)
Sharing == UNCHANGED <<screens, watcher, watchAsks, watchAnswers>>

\* stopStream: what is held ends, and so does its preview.
Stopped(cs) == [c \in Captures |-> IF c = sharer.held THEN "over" ELSE cs[c]]
NothingHeld == [sharer EXCEPT !.held = 0]
Unshown(s) == [s EXCEPT !.shown = FALSE, !.empty = FALSE]

\* syncLocalTracks: the connection carries what is held, if the watcher asked for it.
Synced(s) == [s EXCEPT !.carried = IF s.watched THEN s.held ELSE 0]

Media(on, c) == [kind |-> "media", on |-> on, capture |-> c]

PressShare ==
    /\ sharer.inCall /\ sharer.held = 0
    /\ \E c \in Captures : /\ captured[c] = "none" /\ \A b \in 1..(c - 1) : captured[b] # "none"
                           /\ captured' = [captured EXCEPT ![c] = "asked"]
    /\ UNCHANGED <<sharer, toServer, toSharer, hurried>> /\ Sharing

\* The chooser may outlive the call: without a room nothing is sent and the
\* capture ends at once.  One that was held already is not stopped.
Picked(c) ==
    /\ captured[c] = "asked"
    /\ IF sharer.inCall
       THEN /\ captured' = [captured EXCEPT ![c] = "live"] /\ sharer' = [sharer EXCEPT !.held = c]
            /\ toServer' = Append(toServer, Media(TRUE, c))
            /\ hurried' = (hurried \/ sharer.held # 0)
       ELSE captured' = [captured EXCEPT ![c] = "over"] /\ UNCHANGED <<sharer, toServer, hurried>>
    /\ UNCHANGED toSharer /\ Sharing
Declined(c) ==
    /\ captured[c] = "asked" /\ captured' = [captured EXCEPT ![c] = "over"]
    /\ UNCHANGED <<sharer, toServer, toSharer, hurried>> /\ Sharing

PressStop ==
    /\ sharer.held # 0
    /\ captured' = Stopped(captured) /\ sharer' = Unshown(NothingHeld)
    /\ toServer' = Append(toServer, Media(FALSE, sharer.held))
    /\ UNCHANGED <<toSharer, hurried>> /\ Sharing

\* The browser's own "stop sharing": whatever is held stops with it.
CaptureEnds(c) ==
    /\ captured[c] = "live"
    /\ captured' = [Stopped(captured) EXCEPT ![c] = "over"]
    /\ sharer' = Synced(Unshown(NothingHeld))
    /\ toServer' = IF sharer.inCall THEN Append(toServer, Media(FALSE, c)) ELSE toServer
    /\ UNCHANGED <<toSharer, hurried>> /\ Sharing

\* leave stops everything and forgets who watches.
LeaveCall ==
    /\ sharer.inCall
    /\ captured' = Stopped(captured) /\ sharer' = OutOfCall
    /\ toServer' = Append(toServer, [kind |-> "leave"])
    /\ UNCHANGED <<toSharer, hurried>> /\ Sharing
JoinCall ==
    /\ ~sharer.inCall /\ screens.calls < MaxShareCalls /\ [kind |-> "join"] \notin {toServer[i] : i \in DOMAIN toServer}
    /\ [kind |-> "joined"] \notin {toSharer[i] : i \in DOMAIN toSharer}
    /\ toServer' = Append(toServer, [kind |-> "join"])
    /\ UNCHANGED <<captured, sharer, toSharer, hurried>> /\ Sharing

\* The answer to a change of media: only a share that was accepted is shown, one
\* that was stopped, ended or left meanwhile too.
HearMedia(m) ==
    /\ m.kind = "media"
    /\ hurried' = (hurried \/ (m.on /\ ~m.ok /\ sharer.held \notin {0, m.capture}))
    /\ IF m.on /\ ~m.ok
       THEN captured' = Stopped(captured) /\ sharer' = NothingHeld
       ELSE /\ sharer' = Synced(IF m.on THEN [sharer EXCEPT !.shown = TRUE, !.empty = sharer.held # m.capture] ELSE sharer)
            /\ UNCHANGED captured
\* voice:visualSubscriberState, for the room one is in.
HearWatcher(m) ==
    /\ m.kind = "watched"
    /\ sharer' = IF sharer.inCall THEN Synced([sharer EXCEPT !.watched = m.on]) ELSE sharer
    /\ UNCHANGED <<captured, hurried>>
HearJoined(m) ==
    m.kind = "joined" /\ sharer' = [sharer EXCEPT !.inCall = TRUE] /\ UNCHANGED <<captured, hurried>>

SharerHears ==
    /\ toSharer # <<>> /\ toSharer' = Tail(toSharer)
    /\ LET m == Head(toSharer) IN HearMedia(m) \/ HearWatcher(m) \/ HearJoined(m)
    /\ UNCHANGED toServer /\ Sharing

------------------------
(* The server.                                                               *)
WatchedTold(on) == [kind |-> "watched", on |-> on]
RoomSnapshot(s) == [kind |-> "snapshot", sharing |-> s.sharing]
Acknowledged(m, ok) == [kind |-> "media", on |-> m.on, capture |-> m.capture, ok |-> ok]

\* Mutant: who watched a screen that was switched off stays its subscriber.
SwitchedKeepingWatchers(s, on) == [s EXCEPT !.sharing = on]
\* clearUnavailableVisualSubscriptions
SwitchedScreen(s, on) == [s EXCEPT !.sharing = on, !.watched = @ /\ on]

\* Refused beyond the limit of visual publishers, or to somebody who is not in.
ServeMedia(m) ==
    /\ m.kind = "media"
    /\ \/ /\ m.on \/ ~screens.in
          /\ toSharer' = Append(toSharer, Acknowledged(m, FALSE)) /\ UNCHANGED <<screens, watchAnswers>>
       \/ LET next == SwitchedScreen(screens, m.on) IN
          /\ screens.in /\ screens' = next
          /\ toSharer' = toSharer \o (IF screens.watched /\ ~next.watched THEN <<WatchedTold(FALSE)>> ELSE <<>>)
                                  \o <<Acknowledged(m, TRUE)>>
          /\ watchAnswers' = Append(watchAnswers, RoomSnapshot(next))
ServeLeave(m) ==
    /\ m.kind = "leave" /\ screens' = [screens EXCEPT !.in = FALSE, !.sharing = FALSE, !.watched = FALSE]
    /\ watchAnswers' = Append(watchAnswers, RoomSnapshot(screens')) /\ UNCHANGED toSharer
ServeJoin(m) ==
    /\ m.kind = "join" /\ screens' = [screens EXCEPT !.in = TRUE, !.calls = @ + 1]
    /\ toSharer' = Append(toSharer, [kind |-> "joined"]) /\ watchAnswers' = Append(watchAnswers, RoomSnapshot(screens'))

ServesSharer ==
    /\ toServer # <<>> /\ toServer' = Tail(toServer)
    /\ LET m == Head(toServer) IN ServeMedia(m) \/ ServeLeave(m) \/ ServeJoin(m)
    /\ UNCHANGED <<captured, sharer, watcher, watchAsks, hurried>>

\* setVisualSubscriptions: one that asks for a screen is told to its sharer even
\* if nothing changed, which is how a picture is asked for again.
ServesWatcher ==
    /\ watchAsks # <<>> /\ watchAsks' = Tail(watchAsks)
    /\ LET m == Head(watchAsks)
           ok == m.on => screens.sharing IN
       /\ watchAnswers' = Append(watchAnswers, [kind |-> "answer", number |-> m.number, on |-> m.on, ok |-> ok])
       /\ screens' = IF ok THEN [screens EXCEPT !.watched = m.on] ELSE screens
       /\ toSharer' = IF ok /\ (m.on \/ screens.watched) THEN Append(toSharer, WatchedTold(m.on)) ELSE toSharer
    /\ UNCHANGED <<captured, sharer, toServer, watcher, hurried>>

------------------------
(* The watcher.                                                              *)
Watching == UNCHANGED <<captured, sharer, toServer, toSharer, screens, hurried>>

\* setVisualSubscriptions, at the client
WatchRequests(on) ==
    /\ watcher.request < MaxWatches
    /\ watchAsks' = Append(watchAsks, [number |-> watcher.request + 1, on |-> on]) /\ UNCHANGED watchAnswers /\ Watching
WatchAsked(w) == [w EXCEPT !.request = @ + 1, !.waits = @ \cup {w.request + 1}]

\* One watch is pending at a time; an unwatch hides the screen at once.
PressWatch ==
    /\ watcher.sees /\ (~watcher.target \/ watcher.unwatched) /\ watcher.pending = 0 /\ WatchRequests(TRUE)
    /\ watcher' = [WatchAsked(watcher) EXCEPT !.pending = watcher.request + 1]
PressUnwatch ==
    /\ watcher.target /\ ~watcher.unwatched /\ WatchRequests(FALSE)
    /\ watcher' = [WatchAsked(watcher) EXCEPT !.pending = 0, !.unwatched = TRUE]
\* A repair asks again for what is watched.
AsksAgain ==
    /\ watcher.target /\ WatchRequests(TRUE)
    /\ watcher' = [WatchAsked(watcher) EXCEPT !.crossed = @ \/ watcher.waits # {}]

\* Only the answer to the last request is taken in; one that took five seconds is not.
WatchSettled(w, n) == [w EXCEPT !.waits = @ \ {n}, !.pending = IF @ = n THEN 0 ELSE @]
HearWatchAnswer(m) ==
    /\ m.kind = "answer"
    /\ LET inTime == m.ok /\ m.number \in watcher.waits IN
       watcher' = [WatchSettled(watcher, m.number) EXCEPT
                       !.target = IF inTime /\ m.number = watcher.request THEN m.on ELSE @,
                       !.unwatched = @ /\ ~(inTime /\ m.number = watcher.pending)]
\* A screen that is no longer shared is no longer a target.
HearSnapshotOf(m) ==
    /\ m.kind = "snapshot"
    /\ watcher' = [watcher EXCEPT !.sees = m.sharing, !.target = @ /\ m.sharing]
WatcherHears ==
    /\ watchAnswers # <<>> /\ watchAnswers' = Tail(watchAnswers)
    /\ LET m == Head(watchAnswers) IN HearWatchAnswer(m) \/ HearSnapshotOf(m)
    /\ UNCHANGED watchAsks /\ Watching
AnswerTooLate ==
    /\ \E n \in watcher.waits : watcher' = [WatchSettled(watcher, n) EXCEPT !.deaf = TRUE]
    /\ UNCHANGED <<watchAsks, watchAnswers>> /\ Watching

ScreenSharingNext ==
    \/ PressShare \/ PressStop \/ LeaveCall \/ JoinCall \/ SharerHears
    \/ \E c \in Captures : Picked(c) \/ Declined(c) \/ CaptureEnds(c)
    \/ ServesSharer \/ ServesWatcher
    \/ PressWatch \/ PressUnwatch \/ AsksAgain \/ WatcherHears \/ AnswerTooLate

------------------------
(* Once nothing is under way: what the client captures and what the server      *)
(* tells the room are one; the button says so too, but that it also is on when  *)
(* the capture was stopped, had ended or was left before the answer that        *)
(* accepted it came, which is a fault of the code; the watcher's target is what *)
(* the server keeps of it, unless an answer came too late; nothing the watcher  *)
(* gave up is still sent, unless a repair asked for it meanwhile; and the       *)
(* connection carries the screen exactly if it is watched.  Nothing is captured *)
(* outside of the call.  Excepted (hurried) is who had two choosers open and     *)
(* used both, after which the first capture stays live unheld, and who stopped  *)
(* and shared anew before the refusal of the first share came, which stops the  *)
(* second although the room is then told of it.                                 *)
SharingSettles ==
    /\ ~hurried /\ ~sharer.inCall => \A c \in Captures : captured[c] # "live"
    /\ toServer = <<>> /\ toSharer = <<>> /\ watchAsks = <<>> /\ watchAnswers = <<>> =>
          /\ ~hurried /\ sharer.inCall =>
                 /\ screens.sharing = (sharer.held # 0) /\ sharer.shown = (screens.sharing \/ sharer.empty)
                 /\ \A c \in Captures : captured[c] = "live" <=> c = sharer.held
                 /\ sharer.carried = IF screens.watched THEN sharer.held ELSE 0
          /\ ~watcher.deaf => /\ watcher.target = screens.watched
                              /\ watcher.unwatched /\ screens.watched => watcher.crossed
          /\ screens.watched => screens.sharing /\ watcher.sees

=============================================================================
