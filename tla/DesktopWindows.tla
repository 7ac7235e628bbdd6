---------------------------- MODULE DesktopWindows ----------------------------
(***************************************************************************)
(* The desktop app opening, replacing and leaving Installations: the window of  *)
(* an Installation and the commands of shell/installation.rs behind one lock,    *)
(* and Home's page in main.ts with its transition, its loading screen, links     *)
(* from a browser and the quit request.                                         *)
(*                                                                         *)
(* Links are told apart by when they came.                                   *)
(*                                                                         *)
(* Home learns of what happens by events, which come in order, and by the       *)
(* answers to its commands, which may come before or after them.                *)
(***************************************************************************)
EXTENDS Naturals, Sequences

CONSTANTS
    Places,             \* Installations
    NoPlace,
    MaxChoices,         \* bound on what the member does in the app's windows, and on links
    MaxCalls            \* bound on calls joined

ASSUME DesktopWindowsAssumption == NoPlace \notin Places

VARIABLES
    native,             \* Shell and Inner: the active Installation and its window's state
    remote,             \* the window of the Installation
    front,              \* the window the member sees: "home", "remote" or "hidden"
    flow,               \* what Home is busy with (run), as far as its command
    homePage,           \* Home's variables
    toHome,             \* the events on their way to Home
    replies,            \* cancel_connection and shell_state on their way back
    decided             \* history: the member's last word, and what the bounds count

windowVars == <<native, remote, front, flow, homePage, toHome, replies, decided>>

NoWindow == [place |-> NoPlace, call |-> FALSE]
\* Whether a command, and a window that loads, is still the latest stands for the
\* numbers launch_sequence and navigationRevision, which turn together.
NoFlow == [kind |-> "none", place |-> NoPlace, reload |-> FALSE, at |-> "none", confirmed |-> FALSE,
           latest |-> FALSE, link |-> NoPlace, shown |-> <<>>]
NoReply == <<>>
Waiting == <<"waiting">>
Opens == {"connect", "link"}

\* The app after a start, or with an Installation open and in front for a while.
WindowsInit ==
    \E place \in Places \cup {NoPlace} :
        /\ native = [active |-> place, loading |-> FALSE, latest |-> FALSE, ready |-> TRUE,
                     timer |-> FALSE, homeRequested |-> FALSE, link |-> NoPlace, runs |-> TRUE]
        /\ remote = [place |-> place, call |-> FALSE]
        /\ front = IF place = NoPlace THEN "home" ELSE "remote"
        /\ flow = NoFlow
        /\ homePage = [active |-> place, loading |-> FALSE, target |-> NoPlace, received |-> place,
                       failed |-> NoPlace, link |-> NoPlace, deferred |-> NoPlace,
                       offered |-> NoPlace, quits |-> FALSE,
                       stale |-> FALSE, misled |-> FALSE]
        /\ toHome = <<>>
        /\ replies = [c \in {"cancel", "read"} |-> NoReply]
        /\ decided = [wants |-> NoPlace, choices |-> 0, calls |-> 0, expired |-> FALSE]

------------------------
(* The native side.                                                          *)
\* connect_installation keeps the lock while it checks the address.
Unlocked == native.runs /\ flow.at # "health"

ShellSnapshot(n) == <<n.active, n.loading>>
Event(kind, place) == [kind |-> kind, place |-> place, snapshot |-> <<place, FALSE>>]

\* show_shell: Home comes to the front and stays there when the page is ready.
Shown(n) == [n EXCEPT !.homeRequested = TRUE]
TellsHome(events) == toHome' = toHome \o events
ShowHome == Event("show-home", NoPlace)

\* The window is destroyed, and its generation with it.
Left(n) == [n EXCEPT !.active = NoPlace, !.loading = FALSE, !.ready = FALSE, !.timer = FALSE]

\* What the member does, counted for the bound.
Acting == native.runs /\ decided.choices < MaxChoices
Acted == [decided EXCEPT !.choices = @ + 1]

\* query_call_state: an idle page answers so, and any page may fail to answer.
ReportsIdle == ~remote.call

\* Whoever asked first is served first. The attempt holds the lock from here; a
\* window that is there already is shown.
ConnectStarts ==
    LET restores == ~flow.reload /\ native.active = flow.place /\ ~(native.loading /\ flow.kind = "link") IN
    /\ flow.at = "sent" /\ native.runs
    /\ flow.latest => replies["cancel"] # Waiting
    /\ IF restores
       THEN /\ native' = [native EXCEPT !.latest = IF native.loading THEN flow.latest ELSE @]
            /\ front' = IF native.loading THEN front ELSE "remote"
            /\ flow' = [flow EXCEPT !.at = "done", !.shown = ShellSnapshot(native)]
       ELSE flow' = [flow EXCEPT !.at = "health"] /\ UNCHANGED <<native, front>>
    /\ UNCHANGED <<remote, homePage, toHome, replies, decided>>

\* The old window goes only when the new address is healthy and nobody minds; but the
\* new one may fail to be built then (open_installation), and the error is all that
\* is told: what was loading counts as loading still, without a window or a timer.
ConnectEnds ==
    LET opened == [Left(native) EXCEPT !.active = flow.place, !.loading = TRUE, !.timer = TRUE,
                                       !.latest = TRUE]
        Ends(result) == flow' = [flow EXCEPT !.at = result] /\ UNCHANGED <<native, remote, front, homePage, decided>>
    IN
    /\ flow.at = "health"
    /\ \/ Ends("failed")
       \/ ~flow.latest /\ Ends("cancelled")
       \/ /\ flow.latest
          /\ native.active # NoPlace /\ ~flow.confirmed
          /\ Ends("confirmation")
       \/ /\ flow.latest
          /\ native.active = NoPlace \/ flow.confirmed \/ ReportsIdle
          /\ front' = IF front = "remote" THEN "home" ELSE front
          /\ \/ /\ native' = opened
                /\ remote' = [NoWindow EXCEPT !.place = flow.place]
                /\ flow' = [flow EXCEPT !.at = "done", !.shown = ShellSnapshot(opened)]
                /\ decided' = [decided EXCEPT !.expired = FALSE] /\ UNCHANGED homePage
             \/ /\ native' = [Left(native) EXCEPT !.loading = native.loading, !.latest = FALSE]
                /\ remote' = NoWindow
                /\ flow' = [flow EXCEPT !.at = "failed"]
                /\ homePage' = [homePage EXCEPT !.stale = @ \/ native.active # NoPlace]
                /\ UNCHANGED decided
    /\ UNCHANGED <<toHome, replies>>

\* disconnect_installation and quit_app.
LeaveServed ==
    /\ flow.at = "native"
    /\ \/ /\ native.active # NoPlace /\ ~flow.confirmed
          /\ flow' = [flow EXCEPT !.at = "confirmation"]
          /\ UNCHANGED <<native, remote, front>>
       \/ /\ native.active = NoPlace \/ flow.confirmed \/ ReportsIdle
          /\ native' = [Left(native) EXCEPT !.runs = flow.kind = "disconnect"]
          /\ remote' = NoWindow
          /\ front' = IF front = "remote" THEN "home" ELSE front
          /\ flow' = [flow EXCEPT !.at = "done", !.shown = ShellSnapshot(native')]
    /\ UNCHANGED <<homePage, toHome, replies, decided>>

\* cancel_connection, and shell_state for whoever asked.
CancelServed ==
    /\ Unlocked /\ replies["cancel"] = Waiting
    /\ flow.at = "sent" => flow.latest
    /\ native' = Shown(IF native.loading THEN Left(native) ELSE native)
    /\ remote' = IF native.loading THEN NoWindow ELSE remote
    /\ front' = "home"
    /\ TellsHome(<<ShowHome>>)
    /\ replies' = [replies EXCEPT !["cancel"] = ShellSnapshot(native')]
    /\ UNCHANGED <<flow, homePage, decided>>

ReadServed ==
    /\ Unlocked /\ replies["read"] = Waiting
    /\ replies' = [replies EXCEPT !["read"] = ShellSnapshot(native)]
    /\ UNCHANGED <<native, remote, front, flow, homePage, toHome, decided>>

\* Twenty seconds after the window was opened; answers take less.
LoadingEnds ==
    LET fails == native.loading /\ ~native.ready IN
    /\ Unlocked /\ native.timer /\ flow.at # "done"
    /\ native' = IF fails THEN [Shown(native) EXCEPT !.timer = FALSE, !.loading = FALSE]
                          ELSE [native EXCEPT !.timer = FALSE]
    /\ front' = IF fails THEN "home" ELSE front
    /\ TellsHome(IF fails THEN <<ShowHome, Event("load-failed", native.active)>> ELSE <<>>)
    /\ decided' = [decided EXCEPT !.expired = @ \/ fails]
    /\ UNCHANGED <<remote, flow, homePage, replies>>

------------------------
(* The Installation's page.                                                  *)
\* Mutant: a page is taken in although another choice was made since.
ReadyWhenever(n) == TRUE

ReadyAccepted(n) == n.loading => n.latest

PageReady ==
    /\ Unlocked /\ remote.place # NoPlace /\ ~native.ready
    /\ ReadyAccepted(native)
    /\ native' = [native EXCEPT !.ready = TRUE, !.loading = FALSE]
    /\ front' = IF native.homeRequested THEN front ELSE "remote"
    /\ TellsHome(<<Event("ready", native.active)>>)
    /\ UNCHANGED <<remote, flow, homePage, replies, decided>>

CallTurns ==
    /\ native.runs /\ native.ready /\ remote.place # NoPlace
    /\ \/ remote.call
       \/ front = "remote" /\ decided.calls < MaxCalls
    /\ remote' = [remote EXCEPT !.call = ~@]
    /\ decided' = [decided EXCEPT !.calls = IF remote.call THEN @ ELSE @ + 1]
    /\ UNCHANGED <<native, front, flow, homePage, toHome, replies>>

\* The tray, the window's close button and links the system hands over.
Turns ==
    /\ Acting
    /\ UNCHANGED <<remote, flow, homePage, replies>>

TrayHome ==
    /\ Turns
    /\ native' = Shown(native) /\ front' = "home"
    /\ TellsHome(<<ShowHome>>)
    /\ decided' = [Acted EXCEPT !.wants = NoPlace]

ShowCurrent ==
    /\ Turns
    /\ native.ready => remote.place # NoPlace
    /\ front' = IF native.ready THEN "remote" ELSE "home"
    /\ decided' = Acted
    /\ UNCHANGED <<native, toHome>>

CloseRequested ==
    /\ Turns
    /\ decided' = Acted
    /\ \/ front' = "hidden" /\ UNCHANGED <<native, toHome>>
       \/ /\ native' = Shown(native) /\ front' = "home"
          /\ TellsHome(<<ShowHome, Event("quit", NoPlace)>>)

OfferDesktopLink(place) ==
    /\ Acting /\ homePage.offered = NoPlace
    /\ IF native.ready /\ native.active = place
       THEN front' = "remote" /\ decided' = Acted /\ UNCHANGED <<native, toHome>>
       ELSE /\ decided' = [Acted EXCEPT !.wants = NoPlace]
            /\ native' = [Shown(native) EXCEPT !.link = <<place, Acted.choices>>]
            /\ front' = "home"
            /\ TellsHome(<<ShowHome, Event("link", NoPlace)>>)
    /\ UNCHANGED <<remote, flow, homePage, replies>>

WindowNext ==
    \/ ConnectStarts \/ ConnectEnds \/ LeaveServed \/ CancelServed \/ ReadServed \/ LoadingEnds
    \/ PageReady \/ CallTurns \/ TrayHome \/ ShowCurrent \/ CloseRequested
    \/ \E place \in Places : OfferDesktopLink(place)

------------------------
(* Home.                                                                     *)
Asked == flow.at = "question"
Free == flow = NoFlow /\ ~homePage.quits /\ homePage.deferred = NoPlace

\* openConnection starts its command at once; the others wait for the lock.
SendsCommand(f, page, done) ==
    IF f.kind \in Opens
    THEN /\ flow' = [f EXCEPT !.at = "sent", !.latest = TRUE]
         /\ homePage' = [page EXCEPT !.target = f.place, !.received = NoPlace, !.misled = FALSE]
         /\ native' = [native EXCEPT !.latest = FALSE, !.homeRequested = FALSE]
         /\ decided' = [done EXCEPT !.wants = f.place]
    ELSE /\ flow' = [f EXCEPT !.at = "native"]
         /\ homePage' = page
         /\ decided' = done /\ UNCHANGED native

\* run, and transition but for a connection that changes nothing.
Begins(kind, place, reload, page, done) ==
    LET f == [NoFlow EXCEPT !.kind = kind, !.place = place, !.reload = reload,
                              !.link = IF kind = "link" THEN page.link ELSE NoPlace]
        asks == page.active # NoPlace /\ ~(kind = "connect" /\ place = page.active /\ ~reload)
    IN
    IF asks
    THEN flow' = [f EXCEPT !.at = "report"] /\ homePage' = page /\ decided' = done /\ UNCHANGED native
    ELSE SendsCommand(f, page, done)

Presses ==
    /\ Free /\ Acting /\ front = "home"
    /\ homePage.target = NoPlace /\ homePage.offered = NoPlace
    /\ UNCHANGED <<remote, front, toHome, replies>>

Chooses(kind, place, reload, page) ==
    /\ Presses
    /\ Begins(kind, place, reload, page, Acted)

PressConnect == \E place \in Places : Chooses("connect", place, FALSE, homePage)
PressReload == homePage.active # NoPlace /\ Chooses("connect", homePage.active, TRUE, homePage)
PressDisconnect == homePage.active # NoPlace /\ Chooses("disconnect", NoPlace, FALSE, homePage)
PressRetry ==
    /\ homePage.failed # NoPlace
    /\ LET again == IF homePage.link # NoPlace /\ homePage.link[1] = homePage.failed THEN "link" ELSE "connect"
       IN Chooses(again, homePage.failed, homePage.active = homePage.failed, homePage)

\* transition_state: no answer counts as somebody in a call.
ReportHeard ==
    /\ flow.at = "report" /\ native.runs
    /\ \/ /\ flow' = [flow EXCEPT !.at = "question"]
          /\ UNCHANGED <<homePage, native, decided>>
       \/ native.active # NoPlace /\ ReportsIdle /\ SendsCommand(flow, homePage, decided)
    /\ UNCHANGED <<remote, front, toHome, replies>>

Finished(page) == flow' = NoFlow /\ homePage' = page /\ UNCHANGED <<native, decided>>
Handled(page) == IF flow.kind = "link" /\ page.link = flow.link THEN [page EXCEPT !.link = NoPlace] ELSE page

AnswerQuestion ==
    /\ Asked
    /\ SendsCommand([flow EXCEPT !.confirmed = TRUE], homePage, decided) \/ Finished(Handled(homePage))
    /\ UNCHANGED <<remote, front, toHome, replies>>

\* What Home knows of an older state while nothing newer is on its way.
Applied(page, snapshot) ==
    [page EXCEPT !.active = snapshot[1], !.loading = snapshot[2], !.stale = snapshot # ShellSnapshot(native)]

\* Mutant: the answer counts although the page was ready before it came.
AsAnswered(page, f) == f.shown

\* openConnection: the page may have been ready before the answer came.
Latest(page, f) == IF page.received = f.shown[1] THEN <<f.shown[1], FALSE>> ELSE f.shown

FlowAnswered ==
    LET current == flow.kind \in Opens => flow.latest
        arrived == IF flow.kind \in Opens THEN Latest(homePage, flow) ELSE flow.shown
        page == IF flow.kind \in Opens /\ (flow.at # "done" \/ ~arrived[2])
                THEN [homePage EXCEPT !.target = NoPlace] ELSE homePage
    IN
    /\ flow.at \in {"done", "failed", "cancelled", "confirmation"} /\ native.runs
    /\ CASE ~current -> Finished(Handled(homePage))
         [] current /\ flow.at = "done" ->
                Finished(Handled([page EXCEPT !.active = arrived[1], !.loading = arrived[2],
                                              !.stale = page.misled,
                                              !.failed = IF flow.kind \in Opens THEN NoPlace ELSE @]))
         [] current /\ flow.at = "confirmation" ->
                /\ flow' = [flow EXCEPT !.at = "question"]
                /\ homePage' = page /\ UNCHANGED <<native, decided>>
         [] current /\ flow.at = "failed" -> Finished([page EXCEPT !.failed = flow.place])
         [] OTHER -> Finished(page)
    /\ UNCHANGED <<remote, front, toHome, replies>>

\* cancelLoading: the sequence moves on before the command waits for the lock.
Cancels(page) ==
    /\ replies["cancel"] = NoReply
    /\ homePage' = [page EXCEPT !.target = NoPlace, !.received = NoPlace]
    /\ native' = [native EXCEPT !.latest = FALSE]
    /\ flow' = [flow EXCEPT !.latest = FALSE]
    /\ replies' = [replies EXCEPT !["cancel"] = Waiting]
    /\ decided' = [decided EXCEPT !.wants = NoPlace]

PressCancelLoading ==
    /\ native.runs /\ front = "home" /\ ~Asked /\ homePage.target # NoPlace
    /\ Cancels(homePage)
    /\ UNCHANGED <<remote, front, toHome>>

\* quit: not over a question; after what Home is busy with, or is loading.
Quits(page) ==
    CASE Asked \/ flow.kind = "quit" -> homePage' = page /\ UNCHANGED <<native, flow, replies, decided>>
      [] ~Asked /\ flow.kind \notin {"none", "quit"} ->
            IF page.target # NoPlace /\ replies["cancel"] = NoReply THEN Cancels([page EXCEPT !.quits = TRUE])
            ELSE homePage' = [page EXCEPT !.quits = TRUE] /\ UNCHANGED <<native, flow, replies, decided>>
      [] flow.kind = "none" /\ page.loading -> Cancels([page EXCEPT !.quits = TRUE])
      [] OTHER -> Begins("quit", NoPlace, FALSE, [page EXCEPT !.quits = FALSE], decided) /\ UNCHANGED replies

\* What waited for run to end: a quit first, else a link unless another came.
TakeNext ==
    /\ flow = NoFlow /\ native.runs /\ replies["cancel"] = NoReply
    /\ \/ homePage.quits /\ Quits(homePage)
       \/ /\ ~homePage.quits /\ homePage.deferred # NoPlace
          /\ LET page == [homePage EXCEPT !.deferred = NoPlace] IN
             IF page.link = homePage.deferred THEN Begins("link", page.link[1], FALSE, page, decided)
             ELSE homePage' = page /\ UNCHANGED <<native, flow, decided>>
          /\ UNCHANGED replies
    /\ UNCHANGED <<remote, front, toHome>>

LinkAccepted(page) ==
    IF flow = NoFlow THEN Begins("link", page.link[1], FALSE, page, decided)
    ELSE homePage' = [page EXCEPT !.deferred = page.link] /\ UNCHANGED <<native, flow, decided>>

\* receiveDesktopLink: a saved Installation opens, another waits for the member.
HearLink ==
    LET page == [homePage EXCEPT !.link = native.link]
        Taken == native' = [native EXCEPT !.link = NoPlace]
    IN
    IF native.link = NoPlace THEN UNCHANGED <<native, flow, homePage, decided>>
    ELSE \/ /\ Taken
            /\ homePage' = [page EXCEPT !.offered = native.link]
            /\ UNCHANGED <<flow, decided>>
         \/ /\ flow # NoFlow /\ Taken
            /\ homePage' = [page EXCEPT !.deferred = native.link]
            /\ UNCHANGED <<flow, decided>>

AnswerLink ==
    /\ homePage.offered # NoPlace /\ native.runs
    /\ LET page == [homePage EXCEPT !.offered = NoPlace] IN
       \/ LinkAccepted(page)
       \/ /\ homePage' = [page EXCEPT !.link = NoPlace]
          /\ UNCHANGED <<native, flow, decided>>
    /\ UNCHANGED <<remote, front, toHome, replies>>

HearEvent ==
    LET event == Head(toHome) IN
    /\ toHome # <<>> /\ native.runs
    /\ toHome' = Tail(toHome)
    /\ UNCHANGED <<remote, front>>
    /\ CASE event.kind = "ready" ->
                /\ homePage' = [Applied(homePage, event.snapshot) EXCEPT
                       !.received = event.place, !.target = NoPlace,
                       !.misled = flow.at \in {"sent", "health"} \/ event.snapshot # ShellSnapshot(native)]
                /\ UNCHANGED <<native, flow, replies, decided>>
         [] event.kind = "show-home" ->
                /\ homePage' = [homePage EXCEPT !.target = NoPlace]
                /\ UNCHANGED <<native, flow, replies, decided>>
         [] event.kind = "load-failed" ->
                /\ homePage' = [homePage EXCEPT !.target = NoPlace, !.failed = event.place]
                /\ replies' = [replies EXCEPT !["read"] = Waiting]
                /\ UNCHANGED <<native, flow, decided>>
         [] event.kind = "link" -> HearLink /\ UNCHANGED replies
         [] event.kind = "quit" -> Quits(homePage)

HearReply(c) ==
    /\ replies[c] \notin {NoReply, Waiting} /\ native.runs
    /\ homePage' = Applied(homePage, replies[c])
    /\ replies' = [replies EXCEPT ![c] = NoReply]
    /\ UNCHANGED <<native, remote, front, flow, toHome, decided>>

HomePageNext ==
    \/ PressConnect \/ PressReload \/ PressDisconnect \/ PressRetry \/ PressCancelLoading
    \/ ReportHeard \/ AnswerQuestion \/ FlowAnswered \/ TakeNext \/ AnswerLink \/ HearEvent
    \/ \E c \in {"cancel", "read"} : HearReply(c)

DesktopWindowsNext == WindowNext \/ HomePageNext

DesktopWindowsSpec == WindowsInit /\ [][DesktopWindowsNext]_windowVars

------------------------
HomeAtRest ==
    /\ native.runs /\ flow = NoFlow /\ toHome = <<>>
    /\ \A c \in {"cancel", "read"} : replies[c] = NoReply
    /\ homePage.offered = NoPlace /\ homePage.deferred = NoPlace /\ ~homePage.quits

(* Home does not stay on its loading screen: whenever it shows one and nothing *)
(* is under way, a window is being loaded and the twenty seconds are running.   *)
(* It knows which Installation is open, but (stale) for an older answer that    *)
(* came after the newer event, and for one whose window was destroyed for       *)
(* another that could not be built, which Home goes on naming until it hears    *)
(* of the shell's state again.  No link is left lying.                          *)
HomeSettles ==
    /\ native.loading /\ native.active # NoPlace => native.timer
    /\ HomeAtRest =>
          /\ homePage.target # NoPlace => native.loading /\ native.active # NoPlace
          /\ homePage.stale \/ <<homePage.active, homePage.loading>> = ShellSnapshot(native)
          /\ native.link = NoPlace

(* A call ends by leaving an Installation only after the member said yes to     *)
(* that very transition, and a window that finishes loading comes to the front  *)
(* only if opening it was the member's last word; one that took longer than     *)
(* its twenty seconds may.                                                     *)
ChoicesHold ==
    [][ /\ remote.call /\ (~native'.ready \/ ~native'.runs) => flow.confirmed
        /\ ~native.ready /\ native'.ready /\ front' = "remote" /\ front # "remote" =>
              decided.wants = remote.place \/ decided.expired ]_windowVars

=============================================================================
