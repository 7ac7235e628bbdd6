------------------------------ MODULE TrackAudio ------------------------------
(* The Track at the head of a Queue, from its fetch to its end: yt-dlp pipes    *)
(* into ffmpeg, the bot reads what ffmpeg wrote into a buffer, and the player   *)
(* sends the buffer while it fills.  What becomes of the two programs reaches   *)
(* the bot as events of their streams and exits, whose order only partly        *)
(* follows what happened, and goes on after the Queue has moved past the Track. *)
(* A frame of audio is a number; a program that nobody killed ends with a code. *)
EXTENDS Naturals, Sequences

CONSTANTS MaxFrames, PrebufferFrames, BufferMaxFrames

\* bufferMaxFrames: a buffer holds something.
ASSUME BufferAssumption == BufferMaxFrames \in Nat \ {0}

Programs == {"extractor", "encoder"}
Failures == {"failedBot", "failedSource"}

VARIABLES
    program,    \* what the system knows: "running", "ok", "bad", "killed" or "missing"
    piped,      \* frames yt-dlp wrote, frames ffmpeg wrote
    fetch,      \* the bot's fetch: what it heard and what it concluded
    player,     \* the frames sent, whether it plays, whether it reported the end
    reports,    \* in the chain of the Queue: what was reported of which Track
    passed      \* what moved the Queue past the Track, and what had become of it by then

trackAudioVars == <<program, piped, fetch, player, reports, passed>>

NewPrograms == [c \in Programs |-> "running"]
NewPiped == [extracted |-> 0, encoded |-> 0]
NewFetch == [read |-> 0, midPage |-> FALSE, gaveUp |-> FALSE,
             code |-> [c \in Programs |-> "none"], exits |-> {}, closes |-> {}, ended |-> FALSE,
             cancelled |-> FALSE, spawnFailed |-> FALSE, timedOut |-> FALSE, unreadable |-> FALSE,
             done |-> FALSE, reported |-> "none", hasty |-> FALSE]
NewPlayer == [sent |-> 0, playing |-> TRUE, ended |-> FALSE]
NotYet == [how |-> "none", heard |-> FALSE, broke |-> FALSE, refused |-> FALSE, reported |-> "none"]

TrackAudioInit ==
    /\ program = NewPrograms /\ piped = NewPiped /\ fetch = NewFetch /\ player = NewPlayer
    /\ reports = <<>> /\ passed = NotYet

------------------------
(* The programs.                                                             *)
Turns(c, state) == program[c] = "running" /\ program' = [program EXCEPT ![c] = state]
Programming == UNCHANGED <<fetch, player, reports, passed>>

ExtractorWrites ==
    /\ program["extractor"] = "running" /\ program["encoder"] = "running"
    /\ piped.extracted < MaxFrames /\ piped' = [piped EXCEPT !.extracted = @ + 1]
    /\ UNCHANGED program /\ Programming
\* All of it, or an ERROR on stderr and a code.
ExtractorEnds ==
    /\ \/ piped.extracted > 0 /\ Turns("extractor", "ok")
       \/ Turns("extractor", "bad")
    /\ UNCHANGED piped /\ Programming
EncoderWrites ==
    /\ program["encoder"] = "running" /\ piped.encoded < piped.extracted
    /\ piped' = [piped EXCEPT !.encoded = @ + 1]
    /\ UNCHANGED program /\ Programming
\* ffmpeg ends well once its input has, if there was any; or it crashes.
EncoderEnds ==
    /\ \/ /\ program["extractor"] \notin {"running", "missing"} /\ piped.encoded = piped.extracted
          /\ Turns("encoder", IF piped.encoded > 0 THEN "ok" ELSE "bad")
       \/ Turns("encoder", "bad")
    /\ UNCHANGED piped /\ Programming
NotFound ==
    /\ piped = NewPiped /\ fetch = NewFetch /\ \E c \in Programs : Turns(c, "missing")
    /\ UNCHANGED piped /\ Programming

------------------------
(* What a fetch concludes.                                                   *)
\* failedExit: a program that was killed, or whose exit is late, has no code.
FailedExit(code) == code = "bad"

\* Mutant: silence is not asked about.
ClassifyUnlessSilent(f) ==
    IF f.cancelled THEN "none"
    ELSE IF f.spawnFailed \/ f.timedOut THEN "failedBot"
    ELSE IF f.gaveUp \/ FailedExit(f.code["extractor"]) THEN "failedSource"
    ELSE IF FailedExit(f.code["encoder"]) \/ f.midPage THEN "failedBot"
    ELSE "none"
ClassifyFetchFailure(f) ==
    IF f.cancelled THEN "none"
    ELSE IF f.spawnFailed \/ f.timedOut THEN "failedBot"
    ELSE IF f.gaveUp \/ FailedExit(f.code["extractor"]) THEN "failedSource"
    ELSE IF FailedExit(f.code["encoder"]) \/ f.midPage \/ f.read = 0 THEN "failedBot"
    ELSE "none"

ReportFailure(f) ==
    LET failure == IF f.reported = "none" THEN ClassifyFetchFailure(f) ELSE "none" IN
    /\ fetch' = IF failure = "none" THEN f ELSE [f EXCEPT !.reported = failure]
    /\ reports' = IF failure = "none" THEN reports ELSE Append(reports, failure)

\* finish: the report comes first, then both programs are killed.
Finish(f) ==
    IF f.done THEN fetch' = f /\ UNCHANGED <<reports, program>>
    ELSE /\ ReportFailure([f EXCEPT !.done = TRUE])
         /\ program' = [c \in Programs |-> IF program[c] = "running" THEN "killed" ELSE program[c]]

------------------------
(* What the bot hears of the fetch.                                          *)
Hearing == UNCHANGED <<piped, player, passed>>
Gone(c) == program[c] \notin {"running", "missing"}

\* Bytes of ffmpeg: a page that is not whole, or a frame more, or something
\* that is no Ogg page at all.
EncoderData ==
    /\ Hearing
    /\ ~fetch.ended /\ fetch.read < piped.encoded /\ ~fetch.unreadable
    /\ \/ /\ fetch' = IF fetch.midPage THEN [fetch EXCEPT !.read = @ + 1, !.midPage = FALSE]
                      ELSE [fetch EXCEPT !.midPage = TRUE]
          /\ UNCHANGED <<reports, program>>
       \/ fetch.read = 0 /\ Finish([fetch EXCEPT !.unreadable = TRUE, !.midPage = TRUE])
Drained == fetch.unreadable \/ fetch.read = piped.encoded
EncoderEnd ==
    /\ Hearing /\ program["encoder"] # "running" /\ Drained
    /\ ~fetch.ended /\ Finish([fetch EXCEPT !.ended = TRUE])

ExtractorStderr ==
    /\ Hearing /\ program["extractor"] = "bad" /\ ~fetch.gaveUp
    /\ fetch' = [fetch EXCEPT !.gaveUp = TRUE] /\ UNCHANGED <<reports, program>>

\* Node reports an exit without waiting for the streams of the program.
Exit(c) ==
    LET f == [fetch EXCEPT !.exits = @ \cup {c}, !.code[c] = IF program[c] = "killed" THEN "none" ELSE program[c]] IN
    /\ Hearing /\ Gone(c) /\ c \notin fetch.exits
    /\ IF c = "encoder"
       THEN Finish([f EXCEPT !.hasty = @ \/ (~f.done /\ ~Drained)])
       ELSE fetch' = f /\ UNCHANGED <<reports, program>>
SpawnError(c) ==
    /\ Hearing /\ program[c] = "missing" /\ c \notin fetch.exits
    /\ Finish([fetch EXCEPT !.exits = @ \cup {c}, !.spawnFailed = TRUE])
\* close waits for the exit and for the streams.
Close(c) ==
    LET f == [fetch EXCEPT !.closes = @ \cup {c}] IN
    /\ Hearing /\ c \in fetch.exits \ fetch.closes
    /\ IF c = "encoder" THEN fetch.ended \/ program[c] = "missing" ELSE program[c] = "bad" => fetch.gaveUp
    /\ IF f.done THEN ReportFailure(f) ELSE fetch' = f /\ UNCHANGED reports
    /\ UNCHANGED program
FetchTimeout ==
    /\ Hearing /\ ~fetch.done /\ "running" \in {program[c] : c \in Programs}
    /\ Finish([fetch EXCEPT !.timedOut = TRUE])

------------------------
(* The player.                                                               *)
\* TrackBuffer: a full one takes no more, and is complete.
Complete == fetch.done \/ fetch.read > BufferMaxFrames
Buffered == IF fetch.read > BufferMaxFrames THEN BufferMaxFrames ELSE fetch.read
ReadyToStart == Complete \/ Buffered >= PrebufferFrames

\* A frame that is due; the end, if no more will come; otherwise it waits.
Flush ==
    /\ passed = NotYet /\ player.playing /\ ReadyToStart
    /\ \/ /\ player.sent < Buffered
          /\ player' = [player EXCEPT !.sent = @ + 1] /\ UNCHANGED reports
       \/ /\ player.sent = Buffered /\ Complete
          /\ player' = [player EXCEPT !.playing = FALSE, !.ended = TRUE]
          /\ reports' = Append(reports, "ended")
    /\ UNCHANGED <<program, piped, fetch, passed>>

\* A member stops and plays; a Track that ended is not played again.
PlayOrStop ==
    /\ passed = NotYet /\ ~player.ended
    /\ player' = [player EXCEPT !.playing = ~@]
    /\ UNCHANGED <<program, piped, fetch, reports, passed>>

------------------------
(* The Queue moves past the Track: what loads the next, or nothing, cancels   *)
(* the fetch first.  A report of a Track that was passed changes nothing.     *)
Broke ==
    \/ \E c \in Programs : program[c] \in {"bad", "missing"}
    \/ fetch.timedOut \/ fetch.unreadable \/ fetch.hasty

MovesPast(how) ==
    /\ passed' = [how |-> how, heard |-> player.sent > 0, broke |-> Broke,
                  refused |-> program["extractor"] = "bad", reported |-> fetch.reported]
    /\ Finish([fetch EXCEPT !.cancelled = TRUE])
    /\ UNCHANGED <<piped, player>>

Advance ==
    /\ reports # <<>>
    /\ passed = NotYet /\ MovesPast(Head(reports))
Skip == passed = NotYet /\ MovesPast("skipped")

TrackAudioNext ==
    \/ ExtractorWrites \/ ExtractorEnds \/ EncoderWrites \/ EncoderEnds \/ NotFound
    \/ EncoderData \/ EncoderEnd \/ ExtractorStderr \/ FetchTimeout
    \/ \E c \in Programs : Exit(c) \/ SpawnError(c) \/ Close(c)
    \/ Flush \/ PlayOrStop \/ Advance \/ Skip

TrackAudioSpec == TrackAudioInit /\ [][TrackAudioNext]_trackAudioVars

------------------------
(* The Queue is moved past a Track nobody heard anything of only as a failure; *)
(* a failure is only told of a Track whose fetch broke, and the source is only *)
(* blamed when it refused; a fetch that was cancelled tells nothing more; and  *)
(* one that broke has told of it once both its programs were heard out.        *)
(* (hasty: ffmpeg's exit was heard before its last audio.)                     *)
TracksAreExplained ==
    /\ passed.how = "ended" => passed.heard
    /\ passed.how \in Failures => passed.broke
    /\ passed.how = "failedSource" => passed.refused
    /\ passed # NotYet => fetch.reported = passed.reported
    /\ passed = NotYet /\ fetch.closes = Programs /\ Broke /\ ~fetch.hasty => fetch.reported # "none"

=============================================================================
