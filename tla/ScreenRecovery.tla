---------------------------- MODULE ScreenRecovery ---------------------------
(* The picture of a watched screen: the entry that ScreenRecoveryOwner keeps of *)
(* it, looked at every two seconds, against a picture that mutes, ends, freezes *)
(* or comes over another connection at any moment.  A tick is those two seconds *)
(* and the limits are in ticks.  The statistics of a receiver are answered      *)
(* within the tick.                                                          *)
EXTENDS Integers

CONSTANTS
    Startup,       \* 10 s until a picture that never came is a fault
    Unavailable,   \* 4 s until one that was interrupted is
    Presentation,  \* 5 s until the member is told of an interruption
    Cooldown,      \* 15 s between repairs
    GiveUp,        \* 10 minutes
    AnswerWithin   \* 5 s for the server's answer in a repair

\* screenRecovery.ts has them as positive numbers of milliseconds.
ASSUME LimitsAssumption ==
    Startup \in Nat /\ Unavailable \in Nat /\ Presentation \in Nat /\ Cooldown \in Nat /\ GiveUp \in Nat /\ AnswerWithin \in Nat

VARIABLES
    picture,   \* the receiver's track, and whether it was shown on this connection
    viewing,   \* whether the screen is a target, and the socket connected
    entry,     \* the owner's entry; stale once its connection was replaced
    sampling,  \* where sample awaits, whether its entry is still the one kept, for how long
    spell      \* for how long the picture is missed, is there, and nothing was repaired; a repair too early

pictureVars == <<picture, viewing, entry, sampling, spell>>

Never == -1
NoSample == [awaits |-> "nothing", current |-> FALSE, waited |-> 0]
Unwatched == [kept |-> FALSE, stale |-> FALSE, started |-> 0, ready |-> FALSE, played |-> FALSE, interrupted |-> Never,
              unavailable |-> Never, fault |-> Never, repaired |-> Never, status |-> "connecting"]

\* Over two connections a fault may be given up late: a repair may be awaited
\* when the picture is lost and again when its time is over, and the connection
\* replaced just then has its own startup.
Slack == AnswerWithin + 2
LongestFault == Startup + Unavailable + GiveUp + 2 * Slack
LongestUnrepaired == Startup + Cooldown + Slack
NoSpell == [missed |-> 0, there |-> 0, unrepaired |-> LongestUnrepaired + 1, early |-> FALSE]

ScreenRecoveryInit ==
    /\ picture = [track |-> "none", shown |-> FALSE] /\ viewing = [watched |-> TRUE, linked |-> TRUE]
    /\ entry = [Unwatched EXCEPT !.kept = TRUE] /\ sampling = NoSample
    /\ spell = NoSpell

------------------------
(* What is missed counts from a tick to the next: silence is only noticed of a  *)
(* picture that never came.                                                  *)
Missed == \/ picture.track \in {"none", "muted", "ended"}
          \/ picture.track = "silent" /\ (~entry.ready \/ entry.stale)

Older(age, bound) == IF age = Never \/ age >= bound THEN age ELSE age + 1
Counted(n, bound) == IF n < bound THEN n + 1 ELSE n
Aged(e) == [e EXCEPT !.started = Counted(@, Startup), !.interrupted = Older(@, Presentation), !.unavailable = Older(@, Unavailable),
                     !.fault = Older(@, GiveUp), !.repaired = Older(@, Cooldown)]
SpellAfter ==
    LET looked == viewing.linked /\ viewing.watched IN
    [missed |-> IF looked /\ Missed THEN Counted(spell.missed, LongestFault) ELSE 0,
     there |-> IF looked /\ picture.track = "playing" THEN Counted(spell.there, Slack) ELSE 0,
     unrepaired |-> Counted(spell.unrepaired, LongestUnrepaired + 1),
     early |-> spell.early]

------------------------
(* The owner's entry.                                                        *)
\* presentInterruption and its timer
Interrupted(e) ==
    LET since == IF e.interrupted = Never THEN 0 ELSE e.interrupted IN
    [e EXCEPT !.interrupted = since, !.status = IF since >= Presentation THEN "reconnecting" ELSE "ready"]
TimerRings(e) == IF e.status = "ready" /\ e.interrupted >= Presentation THEN [e EXCEPT !.status = "reconnecting"] ELSE e

RenewedEntry(e) ==
    LET fresh == [e EXCEPT !.kept = TRUE, !.stale = FALSE, !.ready = FALSE, !.unavailable = Never,
                           !.started = IF e.ready THEN 0 ELSE @] IN
    IF e.played /\ e.status # "failed" THEN Interrupted(fresh)
    ELSE IF e.played THEN [fresh EXCEPT !.interrupted = IF @ = Never THEN 0 ELSE @]
    ELSE fresh

\* Mutant: over another connection the fault counts from the start.
SyncForgetsTheFault(e) ==
    IF ~viewing.watched THEN Unwatched
    ELSE IF ~e.kept \/ e.stale THEN [RenewedEntry(e) EXCEPT !.fault = Never] ELSE e
\* sync: a watch that is over is forgotten, one over another connection goes on.
Sync(e) ==
    IF ~viewing.watched THEN Unwatched
    ELSE IF ~e.kept \/ e.stale THEN RenewedEntry(e) ELSE e

NotePlayback(e) ==
    IF e.status = "failed" \/ picture.track \notin {"playing", "silent"} THEN e
    ELSE [e EXCEPT !.ready = TRUE, !.played = TRUE, !.interrupted = Never, !.fault = Never, !.unavailable = Never,
                   !.status = "ready"]

Lost(e) == picture.track \in {"muted", "ended"} \/ e.stale
Looked(e) ==
    LET noticed == [e EXCEPT !.unavailable = IF ~Lost(e) THEN Never ELSE IF @ = Never THEN 0 ELSE @] IN
    IF noticed.played /\ (~noticed.ready \/ Lost(e)) THEN Interrupted(noticed) ELSE noticed
Faulty(e) == IF e.ready THEN e.unavailable >= Unavailable ELSE e.started >= Startup
Recovers(e) == IF e.ready /\ ~Lost(e) THEN [e EXCEPT !.fault = Never, !.interrupted = Never, !.status = "ready"] ELSE e
Faulted(e) == [e EXCEPT !.fault = IF @ = Never THEN 0 ELSE @]

\* The rest of a sample, from where nothing is awaited any more.
Sampled(e, after) ==
    LET looked == Looked(e)
        faulted == Faulted(looked) IN
    \/ ~Faulty(looked) /\ entry' = Recovers(looked) /\ sampling' = NoSample /\ spell' = after
    \/ /\ Faulty(looked) /\ faulted.fault >= GiveUp
       /\ entry' = [faulted EXCEPT !.status = "failed"] /\ sampling' = NoSample /\ spell' = after
    \/ /\ Faulty(looked) /\ faulted.fault < GiveUp /\ faulted.repaired \in 0..(Cooldown - 1)
       /\ entry' = faulted /\ sampling' = NoSample /\ spell' = after
    \/ /\ Faulty(looked) /\ faulted.fault < GiveUp /\ faulted.repaired \notin 0..(Cooldown - 1)
       /\ entry' = [faulted EXCEPT !.repaired = 0]
       /\ spell' = [after EXCEPT !.unrepaired = 0, !.early = after.unrepaired < Cooldown]
       /\ sampling' = [awaits |-> "repair", current |-> TRUE, waited |-> 0]

Rests(e) == ~e.kept \/ e.status = "failed"
AsksForStatistics(e) == ~e.ready /\ picture.track \in {"silent", "playing"}
Samples(e, after) ==
    \/ Rests(e) /\ entry' = e /\ sampling' = NoSample /\ spell' = after
    \/ /\ ~Rests(e) /\ AsksForStatistics(e) /\ entry' = e /\ spell' = after
       /\ sampling' = [awaits |-> "statistics", current |-> TRUE, waited |-> 0]
    \/ ~Rests(e) /\ ~AsksForStatistics(e) /\ Sampled(e, after)

\* Only one sample at a time.
Replaced == ~viewing.watched \/ ~entry.kept \/ entry.stale
SampleGoesOn(waited) == [sampling EXCEPT !.current = @ /\ ~Replaced, !.waited = waited]

------------------------
\* The interval of two seconds.  Before it the timer of the presentation may ring.
SampleTick ==
    /\ sampling.awaits # "statistics" /\ sampling.waited < AnswerWithin
    /\ LET e == Sync(TimerRings(Aged(entry))) IN
       \/ viewing.linked /\ sampling.awaits = "nothing" /\ Samples(e, SpellAfter)
       \/ /\ ~viewing.linked \/ sampling.awaits = "repair"
          /\ entry' = e /\ spell' = SpellAfter
          /\ sampling' = SampleGoesOn(IF sampling.awaits = "repair" THEN sampling.waited + 1 ELSE 0)
    /\ UNCHANGED <<picture, viewing>>

\* If the entry was replaced meanwhile, nothing comes of it.
StatisticsAnswered ==
    /\ sampling.awaits = "statistics"
    /\ IF ~sampling.current THEN sampling' = NoSample /\ UNCHANGED <<entry, spell>>
       ELSE IF picture.track = "playing" /\ ~entry.stale
       THEN Sampled(NotePlayback(entry), [spell EXCEPT !.missed = 0])
       ELSE Sampled(entry, spell)
    /\ UNCHANGED <<picture, viewing>>

RepairEnds ==
    /\ sampling.awaits = "repair" /\ entry' = Sync(entry) /\ sampling' = NoSample /\ UNCHANGED <<picture, viewing, spell>>

\* A decoded frame, or a sound one of before when the track is live again.
PictureNoted ==
    /\ viewing.watched /\ (picture.track = "playing" \/ (picture.track = "silent" /\ picture.shown))
    /\ entry' = NotePlayback(Sync(entry)) /\ picture' = [picture EXCEPT !.shown = TRUE]
    /\ sampling' = SampleGoesOn(sampling.waited)
    /\ spell' = [spell EXCEPT !.missed = 0] /\ UNCHANGED viewing

RetryPressed ==
    /\ entry.kept /\ viewing.watched
    /\ LET synced == Sync(entry)
           e == [synced EXCEPT !.started = Startup, !.ready = FALSE, !.fault = Never, !.repaired = Never,
                               !.interrupted = IF synced.played THEN Presentation ELSE Never,
                               !.status = IF synced.played THEN "reconnecting" ELSE "connecting"] IN
       \/ sampling.awaits = "nothing" /\ Samples(e, NoSpell)
       \/ sampling.awaits # "nothing" /\ entry' = e /\ spell' = NoSpell /\ sampling' = SampleGoesOn(sampling.waited)
    /\ UNCHANGED <<picture, viewing>>

PictureChanges ==
    /\ \E t \in {"silent", "playing", "muted", "ended"} :
          /\ picture.track \notin {"none", "ended", t} /\ picture' = [picture EXCEPT !.track = t]
    /\ spell' = [spell EXCEPT !.there = 0] /\ UNCHANGED <<viewing, entry, sampling>>
ConnectionReplaced ==
    /\ \E t \in {"none", "silent"} : picture' = [track |-> t, shown |-> FALSE]
    /\ entry' = [entry EXCEPT !.stale = @ \/ entry.kept]
    /\ spell' = [spell EXCEPT !.there = 0] /\ UNCHANGED <<viewing, sampling>>
WatchChanges ==
    /\ viewing' = [viewing EXCEPT !.watched = ~@]
    /\ entry' = [Unwatched EXCEPT !.kept = ~viewing.watched] /\ sampling' = [sampling EXCEPT !.current = FALSE]
    /\ spell' = NoSpell /\ UNCHANGED picture
LinkChanges ==
    /\ viewing' = [viewing EXCEPT !.linked = ~@] /\ spell' = [spell EXCEPT !.missed = 0, !.there = 0]
    /\ UNCHANGED <<picture, entry, sampling>>

ScreenRecoveryNext ==
    \/ SampleTick \/ StatisticsAnswered \/ RepairEnds \/ PictureNoted \/ RetryPressed
    \/ PictureChanges \/ ConnectionReplaced \/ WatchChanges \/ LinkChanges

ScreenRecoverySpec == ScreenRecoveryInit /\ [][ScreenRecoveryNext]_pictureVars

------------------------
(* While the socket is connected, the member is told soon of a picture that is  *)
(* missed and, for as long as it is missed, it is asked for again or given up,  *)
(* whatever connections the repairs replace; and a picture that is there is     *)
(* shown as such.  No two repairs come within the cooldown unless the member    *)
(* presses Retry.                                                            *)
PicturesRecover ==
    /\ spell.missed > Presentation + Slack => entry.status # "ready"
    /\ spell.missed > Startup + Unavailable + Slack => entry.status = "failed" \/ spell.unrepaired <= LongestUnrepaired
    /\ ~spell.early
    /\ spell.missed >= LongestFault => entry.status = "failed"
    /\ spell.there >= Slack => entry.status \in {"ready", "failed"}

=============================================================================
