----------------------------- MODULE DesktopAlerts -----------------------------
(* The desktop alerts of one page of the app: what the page asks of Windows,    *)
(* or of the web view when Windows cannot, what a click does, and what is       *)
(* still on the screen after an account signed out, a newer alert of the kind   *)
(* came, or the two told each other the same thing at once.                    *)
EXTENDS Naturals, Sequences, FiniteSets

CONSTANTS Kinds, Accounts, NoAccount, MaxAlerts, MaxToasts

ASSUME DesktopAlertsAssumption == Accounts # {}

VARIABLES
    screen,     \* whether the window is in front, and whether Windows shows toasts
    alertPage,  \* the account, its alert of each kind, and the kinds sent this second
    alerts,     \* what the page holds of each alert it ever sent
    toasts,     \* the toasts of Windows that are up, and the kinds shown this second
    line,       \* what is on its way between the page and the shell
    went        \* where a click led: the account of the alert and of the page

alertVars == <<screen, alertPage, alerts, toasts, line, went>>

NoAlerts == [k \in Kinds |-> 0]
NewPage(a) == [account |-> a, current |-> NoAlerts, recent |-> {}]
NoRoute == [of |-> NoAccount, at |-> NoAccount]

DesktopAlertsInit ==
    /\ screen \in [focused : {FALSE}, shows : {TRUE}, native : BOOLEAN]
    /\ alertPage = NewPage(CHOOSE a \in Accounts : TRUE)
    /\ alerts = <<>> /\ toasts = [up |-> {}, recent |-> {}] /\ line = {} /\ went = NoRoute

------------------------
(* The page.  An alert is native when the bridge made it; asked, until the     *)
(* shell answered; closed, once the page has let go of the native one.        *)
Alert(k, byShell) ==
    [kind |-> k, account |-> alertPage.account, native |-> byShell, asked |-> byShell,
     closed |-> ~byShell, fallback |-> IF byShell THEN "none" ELSE "up"]

ShellCall(name, id) == [to |-> "shell", name |-> name, id |-> id]
PageTold(name, id) == [to |-> "page", name |-> name, id |-> id]

Current(p, as, id) == p.current[as[id].kind] = id /\ p.account = as[id].account

\* The native handle's close: Windows is told once it has answered the show.
LateClose(a, id) == IF a.closed THEN {ShellCall("close", id)} ELSE {}
CloseCall(a, id) == IF a.closed \/ a.asked THEN {} ELSE {ShellCall("close", id)}

\* retire: both the native alert and what fell back for it.
Retired(a) == [a EXCEPT !.closed = TRUE, !.fallback = IF @ = "up" THEN "gone" ELSE @]
RetireAll(as, ids) == [id \in DOMAIN as |-> IF id \in ids THEN Retired(as[id]) ELSE as[id]]
ClosesOf(as, ids) == UNION {CloseCall(as[id], id) : id \in ids}

Without(p, as, id) == IF p.current[as[id].kind] = id THEN [p EXCEPT !.current[as[id].kind] = 0] ELSE p

SendAlert(k) ==
    LET id == Len(alerts) + 1
        previous == {alertPage.current[k]} \ {0} IN
    /\ alertPage.account # NoAccount /\ ~screen.focused /\ k \notin alertPage.recent
    /\ id <= MaxAlerts
    /\ alerts' = Append(RetireAll(alerts, previous), Alert(k, screen.native))
    /\ alertPage' = [alertPage EXCEPT !.current[k] = id, !.recent = @ \cup {k}]
    /\ line' = line \cup ClosesOf(alerts, previous) \cup (IF screen.native THEN {ShellCall("show", id)} ELSE {})
    /\ UNCHANGED <<screen, toasts, went>>

\* dispose, when another account is signed in, or none.
AccountChanges(a) ==
    LET standing == {alertPage.current[k] : k \in Kinds} \ {0} IN
    /\ a # alertPage.account
    /\ alertPage' = NewPage(a)
    /\ alerts' = RetireAll(alerts, standing)
    /\ line' = line \cup ClosesOf(alerts, standing)
    /\ UNCHANGED <<screen, toasts, went>>

\* useFallback: the web view's own alert; a window in front swallows it.
FallsBack(id) ==
    alerts' = [alerts EXCEPT ![id].asked = FALSE, ![id].closed = TRUE,
                             ![id].fallback = IF screen.focused THEN "gone" ELSE "up"]

\* handle.onclick: the alert is let go before the window is asked for.
Follow(id, rest) ==
    IF Current(alertPage, alerts, id)
    THEN /\ alertPage' = Without(alertPage, alerts, id)
         /\ alerts' = RetireAll(alerts, {id})
         /\ line' = rest \cup CloseCall(alerts[id], id) \cup {ShellCall("activate", id)}
    ELSE UNCHANGED <<alertPage, alerts>> /\ line' = rest

\* handle.onclose.
LetGo(id, rest) ==
    /\ alertPage' = Without(alertPage, alerts, id)
    /\ alerts' = RetireAll(alerts, {id})
    /\ line' = rest \cup CloseCall(alerts[id], id)

\* The answer to a show.  A close that waited for it goes out after it.
HearDelivery(m) ==
    LET id == m.id
        answered == [alerts EXCEPT ![id].asked = FALSE]
        close == {ShellCall("close", id)} IN
    /\ m \in line /\ m.name \in {"shown", "blocked", "fallback"}
    /\ \/ alerts[id].closed /\ alerts' = answered /\ UNCHANGED alertPage
          /\ line' = (line \ {m}) \cup LateClose(alerts[id], id)
       \/ ~alerts[id].closed /\ m.name = "shown" /\ alerts' = answered /\ line' = line \ {m} /\ UNCHANGED alertPage
       \/ ~alerts[id].closed /\ m.name = "fallback" /\ FallsBack(id) /\ line' = (line \ {m}) \cup close
          /\ UNCHANGED alertPage
       \/ ~alerts[id].closed /\ m.name = "blocked" /\ line' = (line \ {m}) \cup close
          /\ alertPage' = Without(alertPage, alerts, id) /\ alerts' = RetireAll(answered, {id})
    /\ UNCHANGED <<screen, toasts, went>>

\* An event of a toast the page has let go of is nobody's.
HearToast(m) ==
    LET id == m.id IN
    /\ m \in line /\ m.name \in {"click", "gone", "failed"}
    /\ \/ alerts[id].closed /\ line' = line \ {m} /\ UNCHANGED <<alertPage, alerts>>
       \/ ~alerts[id].closed /\ m.name = "click" /\ Follow(id, line \ {m})
       \/ ~alerts[id].closed /\ m.name = "gone" /\ LetGo(id, line \ {m})
       \/ ~alerts[id].closed /\ m.name = "failed"
          /\ alerts' = [alerts EXCEPT ![id].closed = TRUE,
                                      ![id].fallback = IF screen.focused THEN "gone" ELSE "up"]
          /\ line' = (line \ {m}) \cup CloseCall(alerts[id], id) /\ UNCHANGED alertPage
    /\ UNCHANGED <<screen, toasts, went>>

FallbackClicked(id) ==
    /\ alerts[id].fallback = "up" /\ Follow(id, line) /\ UNCHANGED <<screen, toasts, went>>
FallbackClosed(id) ==
    /\ alerts[id].fallback = "up" /\ LetGo(id, line) /\ UNCHANGED <<screen, toasts, went>>

------------------------
(* The shell.                                                                *)
\* A show: nothing over a window in front, nothing where Windows shows nothing,
\* one of a kind a second; any stage may fail, and then the web view is used;
\* and the window may come to the front, or sixteen toasts be up, by its end.
ServeShow(id) ==
    LET says(name) == line' = (line \ {ShellCall("show", id)}) \cup {PageTold(name, id)}
        k == alerts[id].kind
        quiet == screen.focused \/ ~screen.shows \/ k \in toasts.recent IN
    /\ ShellCall("show", id) \in line
    /\ \/ quiet /\ says("blocked") /\ UNCHANGED toasts
       \/ ~quiet /\ says("fallback") /\ toasts' = [toasts EXCEPT !.recent = @ \cup {k}]
       \/ ~quiet /\ says("fallback") /\ UNCHANGED toasts
       \/ ~quiet /\ says("blocked") /\ toasts' = [toasts EXCEPT !.recent = @ \cup {k}]
       \/ ~quiet /\ Cardinality(toasts.up) < MaxToasts /\ says("shown")
          /\ toasts' = [up |-> toasts.up \cup {id}, recent |-> toasts.recent \cup {k}]
    /\ UNCHANGED <<screen, alertPage, alerts, went>>

ServeClose(id) ==
    /\ ShellCall("close", id) \in line /\ line' = line \ {ShellCall("close", id)}
    /\ toasts' = [toasts EXCEPT !.up = @ \ {id}]
    /\ UNCHANGED <<screen, alertPage, alerts, went>>

\* A toast is clicked, dismissed, or could not be delivered after all; behind a
\* window in front a failure is only the end of the alert.
ToastEvent(id, name) ==
    /\ id \in toasts.up /\ toasts' = [toasts EXCEPT !.up = @ \ {id}]
    /\ line' = line \cup {PageTold(IF name = "failed" /\ (screen.focused \/ ~screen.shows) THEN "gone" ELSE name, id)}
    /\ UNCHANGED <<screen, alertPage, alerts, went>>

\* activate_installation brings the window to the front, or is refused.
ServeActivate(id) ==
    /\ ShellCall("activate", id) \in line
    /\ \/ line' = (line \ {ShellCall("activate", id)}) \cup {PageTold("activated", id)}
          /\ screen' = [screen EXCEPT !.focused = TRUE]
       \/ line' = line \ {ShellCall("activate", id)} /\ UNCHANGED screen
    /\ UNCHANGED <<alertPage, alerts, toasts, went>>

\* Whether the account is still the alert's is asked again after the wait.
Arrive(id) ==
    /\ PageTold("activated", id) \in line /\ line' = line \ {PageTold("activated", id)}
    /\ went' = IF alertPage.account = alerts[id].account
               THEN [of |-> alerts[id].account, at |-> alertPage.account] ELSE went
    /\ UNCHANGED <<screen, alertPage, alerts, toasts>>

------------------------
(* The member and the clock.                                                 *)
Glance == screen' = [screen EXCEPT !.focused = ~@] /\ UNCHANGED <<alertPage, alerts, toasts, line, went>>
TurnsOff ==
    screen.shows /\ screen' = [screen EXCEPT !.shows = FALSE] /\ UNCHANGED <<alertPage, alerts, toasts, line, went>>
Second(k) ==
    /\ \/ k \in alertPage.recent /\ alertPage' = [alertPage EXCEPT !.recent = @ \ {k}] /\ UNCHANGED toasts
       \/ k \in toasts.recent /\ toasts' = [toasts EXCEPT !.recent = @ \ {k}] /\ UNCHANGED alertPage
    /\ UNCHANGED <<screen, alerts, line, went>>

DesktopAlertsNext ==
    \/ \E k \in Kinds : SendAlert(k) \/ Second(k)
    \/ \E a \in Accounts \cup {NoAccount} : AccountChanges(a)
    \/ \E m \in line : HearDelivery(m) \/ HearToast(m)
    \/ \E id \in DOMAIN alerts :
          \/ FallbackClicked(id) \/ FallbackClosed(id)
          \/ ServeShow(id) \/ ServeClose(id) \/ ServeActivate(id) \/ Arrive(id)
          \/ \E name \in {"click", "gone", "failed"} : ToastEvent(id, name)
    \/ Glance \/ TurnsOff

DesktopAlertsSpec == DesktopAlertsInit /\ [][DesktopAlertsNext]_alertVars

------------------------
(* Once everything was heard, what is on the screen is what the page holds: a   *)
(* toast is up exactly for the native alerts the page counts as current, and    *)
(* the web view's alert only for a current one that is not native any more.    *)
(* At any moment a click leads only to the account the alert was sent to.      *)
AlertsSettle ==
    /\ went.of = went.at
    /\ line = {} =>
          \A id \in DOMAIN alerts :
             /\ id \in toasts.up <=> alertPage.current[alerts[id].kind] = id /\ ~alerts[id].closed
             /\ alerts[id].fallback = "up" => alertPage.current[alerts[id].kind] = id

=============================================================================
