------------------------------ MODULE Playback ------------------------------
(***************************************************************************)
(* The pure half of the Music bot: apps/bot/src/playback.ts.  One event      *)
(* against one state gives the next state and the effects somebody else      *)
(* must carry out.                                                          *)
(*                                                                         *)
(* An entry is its identity, the Set log its number of lines.  The effects   *)
(* of a step are a set: in every list the code returns, `load` comes before  *)
(* `play`, the Grace period's first, and `publish` -- of the new state --     *)
(* last, and no list holds both `play` and `stop`.                           *)
(***************************************************************************)
EXTENDS Naturals, Sequences

CONSTANTS
    QueueLimit,     \* musicQueueMaxEntries
    LogLimit        \* musicSetLogMaxLines

ASSUME PlaybackAssumption == QueueLimit \in Nat \ {0} /\ LogLimit \in Nat \ {0}

Effects == {"load", "unload", "play", "stop", "publish",
            "startGracePeriod", "cancelGracePeriod"}

PlaybackState == [entries: Seq(Nat), playing: BOOLEAN, log: 0..LogLimit,
                  awaitingReturn: BOOLEAN]

EmptyPlayback == [entries |-> <<>>, playing |-> FALSE, log |-> 0, awaitingReturn |-> FALSE]

Unchanged(st) == [state |-> st, effects |-> {}]

WithLine(log) == IF log < LogLimit THEN log + 1 ELSE log

AdditionRefused(st) == Len(st.entries) >= QueueLimit

\* Appending: the Track starts only if nothing was in front of it.
Added(st, e) ==
    IF AdditionRefused(st) THEN Unchanged(st)
    ELSE [state |-> [st EXCEPT !.entries = Append(@, e),
                               !.playing = @ \/ st.entries = <<>>,
                               !.log = WithLine(@)],
          effects |-> IF st.entries = <<>> THEN {"load", "play", "publish"}
                                           ELSE {"publish"}]

\* Past the head, if that is still the Track being named.
AdvancePast(st, e, playerStillSounding, log) ==
    IF st.entries = <<>> \/ Head(st.entries) # e THEN Unchanged(st)
    ELSE LET rest == Tail(st.entries)
         IN  IF rest = <<>>
             THEN [state |-> [st EXCEPT !.entries = rest, !.playing = FALSE, !.log = log],
                   effects |-> {"unload", "publish"}
                                   \cup (IF playerStillSounding THEN {"stop"} ELSE {})]
             ELSE [state |-> [st EXCEPT !.entries = rest, !.log = log],
                   effects |-> {"load", "publish"}
                                   \cup (IF st.playing THEN {"play"} ELSE {})]

Ended(st, e) == AdvancePast(st, e, FALSE, st.log)
Failed(st, e) == AdvancePast(st, e, st.playing, WithLine(st.log))
\* Mutant: a skip drops whatever is at the head by now.
SkippedWhatever(st, e) ==
    IF st.entries = <<>> THEN Unchanged(st)
    ELSE AdvancePast(st, Head(st.entries), st.playing, WithLine(st.log))

Skipped(st, e) == AdvancePast(st, e, st.playing, WithLine(st.log))

\* Removing the head is skipping it; anything else touches only the list.
Removed(st, e) ==
    LET index == CHOOSE i \in DOMAIN st.entries : st.entries[i] = e
    IN  IF \A i \in DOMAIN st.entries : st.entries[i] # e THEN Unchanged(st)
        ELSE IF index = 1 THEN Skipped(st, e)
        ELSE [state |-> [st EXCEPT !.entries = SubSeq(@, 1, index - 1) \o SubSeq(@, index + 1, Len(@)),
                                   !.log = WithLine(@)],
              effects |-> {"publish"}]

Paused(st) ==
    IF ~st.playing THEN Unchanged(st)
    ELSE [state |-> [st EXCEPT !.playing = FALSE, !.log = WithLine(@)],
          effects |-> {"stop", "publish"}]

Resumed(st) ==
    IF st.playing \/ st.entries = <<>> THEN Unchanged(st)
    ELSE [state |-> [st EXCEPT !.playing = TRUE, !.log = WithLine(@)],
          effects |-> {"play", "publish"}]

RoomEmptied(st) ==
    IF st.awaitingReturn THEN Unchanged(st)
    ELSE [state |-> [st EXCEPT !.awaitingReturn = TRUE], effects |-> {"startGracePeriod"}]

ListenerReturned(st) ==
    IF ~st.awaitingReturn THEN Unchanged(st)
    ELSE [state |-> [st EXCEPT !.awaitingReturn = FALSE], effects |-> {"cancelGracePeriod"}]

\* The Set is over.  A log alone is enough to tell the room so.
Cleared(st) ==
    [state |-> EmptyPlayback,
     effects |-> (IF st.awaitingReturn THEN {"cancelGracePeriod"} ELSE {})
                 \cup (IF st.entries = <<>> /\ ~st.playing /\ st.log = 0 THEN {}
                       ELSE {"stop", "unload", "publish"})]

=============================================================================
