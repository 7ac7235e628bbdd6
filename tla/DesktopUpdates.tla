---------------------------- MODULE DesktopUpdates ----------------------------
(***************************************************************************)
(* How the desktop app updates itself: the state machine of updates.rs, the    *)
(* scheduled loop of runtime.rs, the launch card of launch.rs, the install      *)
(* card of update_card.rs and Home's updater in main.ts.                       *)
(*                                                                         *)
(* One check, download or install holds the lease at a time; Cancel passes it  *)
(* by.  Every change is published to Home, which also shows what its own       *)
(* commands answer: an answer may come in before or after the events.         *)
(***************************************************************************)
EXTENDS Naturals

CONSTANTS
    MaxRelease,         \* versions newer than the first one
    MaxRounds,          \* bound on scheduled rounds
    MaxRequests,        \* bound on what the member presses
    MaxStarts           \* bound on starts of the app

VARIABLES
    release,            \* the newest version the manifest offers, 0 when none
    updates,            \* Inner: what the native side knows
    operation,          \* the operation that holds the lease
    driver,             \* where the scheduled task stands
    process,            \* the app: whether it runs and how it was started
    installCard,        \* the staged card and the installer it runs
    updater,            \* Home's updater
    homeWire,           \* what is on its way to Home
    tally               \* history: what the bounds count

updateVars == <<release, updates, operation, driver, process, installCard, updater, homeWire, tally>>

NoVersion == 0
NoOperation == [kind |-> "none", for |-> "none", prior |-> "idle", failed |-> FALSE, bytes |-> NoVersion]
Lease(kind, for) == [NoOperation EXCEPT !.kind = kind, !.for = for]
NoAnswer == [phase |-> "none", version |-> NoVersion, stale |-> FALSE]
Refused == [NoAnswer EXCEPT !.phase = "refused"]
Commands == {"first", "command", "cancel", "read"}

FirstUpdates ==
    [phase |-> "idle", version |-> NoVersion, failed |-> FALSE, candidate |-> NoVersion,
     bytes |-> NoVersion, handle |-> "none", cancelled |-> NoVersion]
FirstHome == [phase |-> "disabled", version |-> NoVersion, working |-> FALSE, asking |-> FALSE]
NoWire == [news |-> FALSE, answers |-> [c \in Commands |-> NoAnswer], overtaken |-> FALSE]

Snapshot(u) == [NoAnswer EXCEPT !.phase = u.phase, !.version = u.version]
Answered(wire, c, answer) == [wire EXCEPT !.answers[c] = answer]
Scheduled(job) == job.for \in {"card", "loop"}

\* declined: the version the member cancelled last and has not asked for since.
Start(reopened, shows) ==
    [runs |-> TRUE, home |-> ~shows, reopened |-> reopened, tray |-> FALSE, declined |-> NoVersion,
     late |-> FALSE]
NotRunning == [Start(FALSE, TRUE) EXCEPT !.runs = FALSE]

\* A start with arguments, or whose card cannot open, opens Home at once.
Starts(reopened, shows) ==
    /\ process' = Start(reopened, shows)
    /\ updates' = FirstUpdates
    /\ operation' = NoOperation
    /\ driver' = IF shows THEN "card" ELSE "sleep"
    /\ updater' = FirstHome
    /\ homeWire' = IF shows THEN NoWire ELSE Answered(NoWire, "first", Snapshot(FirstUpdates))

DesktopUpdatesInit ==
    /\ release = [offered |-> NoVersion, installed |-> NoVersion]
    /\ process = Start(FALSE, TRUE)
    /\ updates = FirstUpdates
    /\ operation = NoOperation
    /\ driver = "card"
    /\ installCard = [at |-> "none", installs |-> NoVersion, unwatched |-> FALSE]
    /\ updater = FirstHome
    /\ homeWire = NoWire
    /\ tally = [rounds |-> 0, requests |-> 0, starts |-> 0]

------------------------
\* Mutant: Home learns of a change by the answers to its own commands alone.
AnswersOnly(wire) == wire

(* The native side.  What is published makes every answer under way an older  *)
(* one.                                                                      *)
Published(wire) ==
    [wire EXCEPT !.news = process.home,
                 !.answers = [c \in Commands |-> [wire.answers[c] EXCEPT !.stale = wire.answers[c] # NoAnswer]]]

AnswersHome(wire, answer) ==
    IF operation.for = "home" THEN Answered(wire, "command", answer) ELSE wire

\* check: a verified download is retained; otherwise the manifest is asked.
BeginCheck(for) ==
    /\ operation = NoOperation
    /\ updates.bytes = NoVersion
    /\ operation' = [Lease("check", for) EXCEPT !.prior = updates.phase, !.failed = updates.failed]
    /\ updates' = [updates EXCEPT !.phase = "checking", !.failed = FALSE]

\* settle_check: an unreachable service is silent on schedule.  The manifest names
\* the newest version there is by then.
CheckOutcome(result) ==
    LET newer == IF release'.offered > release.installed THEN release'.offered ELSE NoVersion IN
    IF result = "manifest"
    THEN [updates EXCEPT !.phase = IF newer = NoVersion THEN "current" ELSE "available",
                         !.version = newer, !.candidate = newer, !.failed = FALSE]
    ELSE IF result = "unavailable" /\ Scheduled(operation)
    THEN [updates EXCEPT !.phase = operation.prior, !.failed = operation.failed]
    ELSE [updates EXCEPT !.phase = "error", !.failed = TRUE]

BackgroundDownloadAllowed(u) ==
    u.phase = "available" /\ ~u.failed /\ u.cancelled # u.version

SettleCheck(result) ==
    /\ operation.kind = "check"
    /\ IF result = "manifest"
         THEN \E v \in release.offered..MaxRelease : release' = [release EXCEPT !.offered = v]
         ELSE UNCHANGED release
    /\ updates' = CheckOutcome(result)
    /\ operation' = NoOperation
    /\ homeWire' = AnswersHome(Published(homeWire), Snapshot(updates'))
    /\ driver' = CASE driver = "checking" -> IF result = "unavailable" THEN "sleep" ELSE "download"
                   [] driver = "card check" -> IF result # "unavailable" /\ BackgroundDownloadAllowed(updates')
                                              THEN "card download" ELSE "card ends"
                   [] OTHER -> driver
    /\ UNCHANGED <<process, installCard, updater, tally>>

\* download up to its first await.
BeginDownload(for) ==
    /\ operation = NoOperation
    /\ updates.bytes = NoVersion
    /\ updates.candidate # NoVersion
    /\ operation' = Lease("download", for)
    /\ updates' = [updates EXCEPT !.cancelled = NoVersion, !.handle = "armed",
                                  !.phase = "downloading", !.failed = FALSE]

\* settle_download.  Cancel reaches a fetch that is under way; the result of
\* one that had just ended stands all the same, and comes late.
SettleDownload(result) ==
    /\ operation.kind = "download"
    /\ result = "cancelled" => updates.handle = "fired"
    /\ updates' = IF result = "bytes"
                  THEN [updates EXCEPT !.handle = "none", !.bytes = updates.candidate, !.phase = "ready"]
                  ELSE [updates EXCEPT !.handle = "none", !.bytes = NoVersion, !.phase = "available",
                                       !.failed = @ \/ ~(result = "unavailable" /\ Scheduled(operation))]
    /\ process' = [process EXCEPT !.late = @ \/ (result = "bytes" /\ updates.handle = "fired")]
    /\ operation' = NoOperation
    /\ homeWire' = AnswersHome(Published(homeWire), Snapshot(updates'))
    /\ driver' = CASE driver = "downloading" -> "sleep"
                   [] driver = "card downloading" -> IF result = "bytes" THEN "card install" ELSE "card ends"
                   [] OTHER -> driver
    /\ UNCHANGED <<release, installCard, updater, tally>>

OperationSettles ==
    \/ \E result \in {"manifest", "unavailable", "invalid"} : SettleCheck(result)
    \/ \E result \in {"bytes", "unavailable", "invalid", "cancelled"} : SettleDownload(result)

------------------------
(* The scheduled task: the launch card first, then the loop.                  *)
CardTurns(at, next, Begins) ==
    /\ driver = at
    /\ Begins
    /\ driver' = next
    /\ UNCHANGED <<release, process, installCard, updater, homeWire, tally>>

LaunchCard ==
    \/ CardTurns("card", "card check", BeginCheck("card"))
    \/ CardTurns("card download", "card downloading", BeginDownload("card"))

\* check_requested: of the button and of the tray.
CheckNeeded == updates.phase \in {"idle", "current", "available", "error"}

\* Past its time the card closes and what it waited for goes on behind Home.
\* A tray request made before is taken up once Home's window exists.
OpenHome ==
    LET checks == process.tray /\ CheckNeeded /\ operation = NoOperation IN
    /\ driver \in {"card check", "card downloading", "card ends"}
    /\ process' = [process EXCEPT !.home = TRUE, !.tray = FALSE]
    /\ driver' = "sleep"
    /\ IF checks THEN BeginCheck("tray") ELSE UNCHANGED <<updates, operation>>
    /\ homeWire' = Answered([homeWire EXCEPT !.news = checks], "first", Snapshot(updates'))
    /\ UNCHANGED <<release, installCard, updater, tally>>

WakeUp ==
    /\ process.runs /\ driver = "sleep"
    /\ tally.rounds < MaxRounds
    /\ tally' = [tally EXCEPT !.rounds = @ + 1]
    /\ BeginCheck("loop")
    /\ driver' = "checking"
    /\ homeWire' = Published(homeWire)
    /\ UNCHANGED <<release, process, installCard, updater>>

\* The lease is given up between a check and the download that follows it.
DownloadInBackground ==
    /\ driver = "download"
    /\ \/ /\ BackgroundDownloadAllowed(updates)
          /\ BeginDownload("loop")
          /\ driver' = "downloading"
          /\ homeWire' = Published(homeWire)
       \/ /\ ~BackgroundDownloadAllowed(updates) \/ operation # NoOperation
          /\ driver' = "sleep"
          /\ UNCHANGED <<operation, updates, homeWire>>
    /\ UNCHANGED <<release, process, installCard, updater, tally>>

------------------------
(* Installing: installer() takes the bytes, the prompt is answered, and the   *)
(* app leaves the rest to the staged card.                                    *)
BeginInstall(for) ==
    /\ operation = NoOperation
    /\ updates.bytes # NoVersion
    /\ operation' = [Lease("install", for) EXCEPT !.bytes = updates.bytes]
    /\ updates' = [updates EXCEPT !.bytes = NoVersion, !.phase = "installing"]

InstallAtLaunch == CardTurns("card install", "card prompt", BeginInstall("card"))

\* reinstate.
Reinstated(u) == [u EXCEPT !.phase = "ready", !.bytes = operation.bytes, !.failed = FALSE]

\* The prompt was declined, or the installer could not be staged or started.
InstallRefused ==
    /\ operation.kind = "install"
    /\ operation' = NoOperation
    /\ IF operation.for = "card"
         THEN /\ updates' = Reinstated(updates)
              /\ driver' = "card ends"
              /\ UNCHANGED <<homeWire, updater>>
         ELSE /\ updates' = [updates EXCEPT !.phase = "available", !.failed = TRUE]
              /\ homeWire' = Answered(Published(homeWire), "read", Snapshot(updates'))
              /\ updater' = [updater EXCEPT !.asking = FALSE]
              /\ UNCHANGED driver
    /\ UNCHANGED <<release, process, installCard, tally>>

AppEnds ==
    /\ process' = NotRunning
    /\ updates' = FirstUpdates /\ operation' = NoOperation /\ driver' = "gone"
    /\ updater' = FirstHome /\ homeWire' = NoWire

\* Without a card the passive installer runs, and nobody watches it.
InstallAccepted ==
    /\ operation.kind = "install"
    /\ \E card \in BOOLEAN :
         installCard' = [at |-> IF card THEN "waiting" ELSE "none", installs |-> operation.bytes,
                         unwatched |-> ~card]
    /\ AppEnds
    /\ UNCHANGED <<release, tally>>

\* The installer succeeds and starts Voxly again (or fails to), or it fails and
\* the card reopens the version there is.
InstallerEnds ==
    /\ installCard.installs # NoVersion
    /\ tally.starts < MaxStarts
    /\ \E ok, reopens \in BOOLEAN :
         /\ release' = [release EXCEPT !.installed = IF ok THEN installCard.installs ELSE @]
         /\ installCard' = [installCard EXCEPT !.installs = NoVersion,
                               !.at = IF @ = "waiting" THEN (IF ok THEN "dismissing" ELSE "failed") ELSE @]
         /\ IF (ok /\ reopens) \/ (~ok /\ installCard.at = "waiting")
            THEN /\ Starts(~ok, ok)
                 /\ tally' = [tally EXCEPT !.starts = @ + 1]
            ELSE UNCHANGED <<process, updates, operation, driver, updater, homeWire, tally>>

\* Nobody came to close the card in twenty seconds: it reopens Voxly itself.
ReopenedByCard ==
    /\ installCard.at = "dismissing" /\ ~process.runs
    /\ tally.starts < MaxStarts
    /\ installCard' = [installCard EXCEPT !.at = "none"]
    /\ Starts(TRUE, FALSE)
    /\ tally' = [tally EXCEPT !.starts = @ + 1]
    /\ UNCHANGED release

\* The started app closes it, or its own timers: ten minutes with no answer of
\* the installer, four seconds of saying that it failed.
CardCloses ==
    /\ \/ installCard.at = "dismissing" /\ process.runs
       \/ installCard.at \in {"failed", "waiting"}
    /\ installCard' = [installCard EXCEPT !.at = "none", !.unwatched = @ \/ installCard.at = "waiting"]
    /\ UNCHANGED <<release, updates, operation, driver, process, updater, homeWire, tally>>

\* The member starts Voxly, by its icon or by a link, or quits it.
MemberStarts ==
    /\ ~process.runs /\ installCard.at = "none" /\ installCard.installs = NoVersion
    /\ tally.starts < MaxStarts
    /\ \E shows \in BOOLEAN : Starts(FALSE, shows)
    /\ tally' = [tally EXCEPT !.starts = @ + 1]
    /\ installCard' = [installCard EXCEPT !.unwatched = FALSE]
    /\ UNCHANGED release

Installs == InstallAtLaunch \/ InstallRefused \/ InstallAccepted \/ InstallerEnds
            \/ ReopenedByCard \/ CardCloses \/ MemberStarts

------------------------
(* Home.                                                                     *)
\* A member presses again only once Home was answered.
Requests == /\ process.runs /\ tally.requests < MaxRequests
            /\ \A c \in Commands \ {"command"} : homeWire.answers[c] = NoAnswer
            /\ tally' = [tally EXCEPT !.requests = @ + 1]
            /\ UNCHANGED <<release, driver, installCard>>

PressCheck ==
    /\ Requests /\ process.home
    /\ ~updater.asking /\ ~updater.working /\ updater.phase \notin {"disabled", "ready"}
    /\ updater' = [updater EXCEPT !.working = TRUE, !.phase = "checking"]
    /\ \/ CheckNeeded /\ BeginCheck("home") /\ homeWire' = Published(homeWire)
       \/ /\ ~CheckNeeded \/ operation # NoOperation
          /\ homeWire' = Answered(homeWire, "command", Snapshot(updates))
          /\ UNCHANGED <<operation, updates>>
    /\ UNCHANGED process

CheckFromTray ==
    /\ Requests
    /\ process' = [process EXCEPT !.tray = ~process.home]
    /\ \/ process.home /\ CheckNeeded /\ BeginCheck("tray") /\ homeWire' = Published(homeWire)
       \/ ~process.home /\ UNCHANGED <<operation, updates, homeWire>>
    /\ UNCHANGED updater

PressDownload ==
    /\ Requests
    /\ ~updater.asking /\ ~updater.working /\ updater.phase = "available"
    /\ updater' = [updater EXCEPT !.working = TRUE, !.phase = "downloading"]
    /\ \/ /\ BeginDownload("home")
          /\ homeWire' = Published(homeWire)
          /\ process' = [process EXCEPT !.declined = NoVersion]
       \/ /\ operation # NoOperation \/ updates.bytes # NoVersion \/ updates.candidate = NoVersion
          /\ homeWire' = Answered(homeWire, "command",
                             IF operation = NoOperation /\ updates.bytes # NoVersion THEN Snapshot(updates) ELSE Refused)
          /\ UNCHANGED <<operation, updates, process>>

\* cancel: a download under way is told, a finished one discarded.
Cancelled(u) ==
    IF u.handle = "armed"
    THEN [u EXCEPT !.cancelled = u.version, !.handle = "fired"]
    ELSE [u EXCEPT !.cancelled = u.version, !.bytes = NoVersion, !.failed = FALSE,
                   !.phase = IF u.candidate # NoVersion THEN "available" ELSE @]

PressCancel ==
    /\ Requests
    /\ ~updater.asking /\ updater.phase \in {"downloading", "ready"}
    /\ IF updates.phase \in {"installing", "checking"}
         THEN UNCHANGED <<updates, process, homeWire>>
         ELSE /\ updates' = Cancelled(updates)
              /\ process' = [process EXCEPT !.declined = updates.version]
              /\ homeWire' = Answered(Published(homeWire), "cancel", Snapshot(updates'))
    /\ UNCHANGED <<operation, updater>>

\* Install asks first; consent is given to what Home shows then.
PressInstall ==
    /\ Requests
    /\ ~updater.asking /\ ~updater.working /\ updater.phase = "ready"
    /\ updater' = [updater EXCEPT !.asking = TRUE]
    /\ UNCHANGED <<operation, updates, process, homeWire>>

AnswerPrompt ==
    /\ updater.asking /\ operation.kind # "install"
    /\ \/ /\ BeginInstall("home")
          /\ homeWire' = Published(homeWire)
          /\ UNCHANGED updater
       \/ /\ updater' = [updater EXCEPT !.asking = FALSE]
          /\ homeWire' = Answered(homeWire, "read", Snapshot(updates))
          /\ UNCHANGED <<operation, updates>>
    /\ UNCHANGED <<release, driver, process, installCard, tally>>

\* review_desktop_update: the Installation's page brings Home to the front.
Review ==
    /\ Requests /\ process.home
    /\ homeWire' = Answered(homeWire, "read", Snapshot(updates))
    /\ UNCHANGED <<operation, updates, process, updater>>

\* shell:updates.
HearNews ==
    /\ homeWire.news
    /\ updater' = [updater EXCEPT !.phase = updates.phase, !.version = updates.version]
    /\ homeWire' = [homeWire EXCEPT !.news = FALSE, !.overtaken = FALSE]
    /\ UNCHANGED <<release, updates, operation, driver, process, installCard, tally>>

\* The first read gives way to an event that came before it; the others do not.
HearAnswer(c) ==
    LET answer == homeWire.answers[c]
        shown == answer.phase # "refused" /\ (c = "first" => homeWire.news \/ ~answer.stale) IN
    /\ answer # NoAnswer
    /\ updater' = [updater EXCEPT !.phase = IF shown THEN answer.phase ELSE @,
                            !.version = IF shown THEN answer.version ELSE @,
                            !.working = @ /\ c # "command"]
    /\ homeWire' = [homeWire EXCEPT !.answers[c] = NoAnswer,
                       !.overtaken = IF shown THEN answer.stale /\ ~homeWire.news ELSE @]
    /\ UNCHANGED <<release, updates, operation, driver, process, installCard, tally>>

HomeNext ==
    \/ PressCheck \/ CheckFromTray \/ PressDownload \/ PressCancel \/ PressInstall \/ AnswerPrompt
    \/ Review \/ HearNews \/ (\E c \in Commands : HearAnswer(c))

DesktopUpdatesNext ==
    \/ OperationSettles \/ LaunchCard \/ OpenHome \/ WakeUp \/ DownloadInBackground
    \/ Installs \/ HomeNext

DesktopUpdatesSpec == DesktopUpdatesInit /\ [][DesktopUpdatesNext]_updateVars

------------------------
(* Once nothing is under way, Home shows the phase and the version the native *)
(* side is in, and Install is offered for a verified download and for nothing *)
(* else; an answer that a later event overtook is shown until the next one.    *)
HomeTellsTheUpdate ==
    operation = NoOperation /\ process.home =>
        /\ updates.phase \in {"idle", "current", "available", "ready", "error"}
        /\ (updates.phase = "ready") <=> (updates.bytes # NoVersion)
        /\ updates.phase = "available" => updates.candidate # NoVersion
        /\ \/ homeWire.news \/ homeWire.overtaken
           \/ \E c \in Commands : homeWire.answers[c] # NoAnswer
           \/ updater.phase = updates.phase /\ updater.version = updates.version /\ ~updater.working

(* Nothing is installed but the newest verified download, by the consent Home  *)
(* asked for while showing that version, or at a launch that does not follow a *)
(* failed install; what the member cancelled is neither downloaded on schedule *)
(* nor installed, but for a download that had ended when Cancel came.  And     *)
(* whatever becomes of an update, Voxly is open again afterwards.              *)
UpdatesAreConsented ==
    /\ operation.kind = "install" =>
          /\ operation.bytes = updates.candidate
          /\ operation.for = "card" => ~process.reopened
          /\ operation.for = "home" => updater.asking
    /\ operation.kind = "install" \/ (operation.kind = "download" /\ Scheduled(operation)) =>
          updates.candidate # process.declined \/ updates.handle = "fired" \/ process.late
    /\ installCard.at = "none" /\ installCard.installs = NoVersion /\ ~installCard.unwatched => process.runs

\* What Home shows and what is installed.
UpdatesHold == HomeTellsTheUpdate /\ UpdatesAreConsented

=============================================================================
