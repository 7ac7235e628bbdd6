------------------------------ MODULE Presence ------------------------------
(***************************************************************************)
(* The presence of one member: registerRealtime in apps/server/src/app.ts    *)
(* and the registry of apps/server/src/members.ts.  The Status a member      *)
(* picks is stored with its expiry and outranks what its connections         *)
(* measured; the server times the expiry; every change of what others see is *)
(* published once, by comparing the view before and after it.                *)
(*                                                                         *)
(* A Status with a duration first runs, then is over by the clock, and is    *)
(* reset when the timer fires some time after that.                          *)
(***************************************************************************)
EXTENDS Naturals

CONSTANTS
    Sockets         \* the connections the member may open

VARIABLES
    sockets,        \* of the member, in `online`; the entry exists while there is one
    idleSockets,    \* of these, the ones that measured no input
    choice,         \* entry.choice
    stored,         \* users.presence_choice and presence_choice_until
    armed,          \* choiceExpiries: the choice the timer set will end, or NoChoice
    shown,          \* what the others show of it
    picked,         \* what each connection has been told the Status is
    untold          \* history: the Status ran out, or another connection opened
                    \* beside idle ones, and the others still show what was before

presenceVars == <<sockets, idleSockets, choice, stored, armed, shown, picked, untold>>

Statuses == {"online", "idle", "dnd", "invisible"}

\* until: there is none, it is in the future, it is past.
StatusChoices == [status : Statuses, until : {"none", "ahead", "past"}]
Online == [status |-> "online", until |-> "none"]
NoChoice == [status |-> "none", until |-> "none"]

CurrentChoice(c) == IF c.until = "past" THEN Online ELSE c

\* presenceStatusOf and isVisiblyOnline: what others may see of it.
View(on, idle, c) ==
    LET status == CurrentChoice(c).status IN
    IF on = {} \/ status = "invisible" THEN "offline"
    ELSE IF status \in {"dnd", "idle"} THEN status
    ELSE IF idle = on THEN "idle" ELSE "online"

Seen == View(sockets, idleSockets, choice)

PresenceInit ==
    /\ sockets = {} /\ idleSockets = {}
    /\ choice = Online /\ stored = Online /\ armed = NoChoice
    /\ shown = "offline"
    /\ picked = [s \in Sockets |-> NoChoice]
    /\ untold = FALSE

\* publishPresenceChange: tells the others if the view moved.  They are told that
\* a member is there, is gone or, being there, has another status, which is lost
\* on those who do not show the member (applyPresenceStatus).
Publish(before, after) ==
    /\ shown' = IF before = after \/ ("offline" \notin {before, after} /\ shown = "offline") THEN shown ELSE after
    /\ untold' = (untold /\ shown' # after)

\* scheduleChoiceExpiry: the timer set before is cleared.
ChoiceTimer(c) == IF c.until = "none" THEN NoChoice ELSE c

PresenceConnect(s) ==
    /\ s \notin sockets
    /\ LET entry == IF sockets = {} THEN CurrentChoice(stored) ELSE choice IN
       /\ sockets' = sockets \cup {s}
       /\ choice' = entry
       /\ armed' = IF sockets = {} THEN ChoiceTimer(entry) ELSE armed
       /\ picked' = [picked EXCEPT ![s] = CurrentChoice(entry)]
       /\ LET after == View(sockets \cup {s}, idleSockets, entry) IN
          /\ shown' = IF sockets = {} /\ after # "offline" THEN after ELSE shown
          /\ untold' = ((untold \/ sockets # {}) /\ shown' # after)
    /\ UNCHANGED <<idleSockets, stored>>

SetStatus(s, idle) ==
    /\ s \in sockets
    /\ idleSockets' = IF idle THEN idleSockets \cup {s} ELSE idleSockets \ {s}
    /\ Publish(Seen, View(sockets, idleSockets', choice))
    /\ UNCHANGED <<sockets, choice, stored, armed, picked>>

SetChoice(s, c) ==
    /\ s \in sockets
    /\ c.until # "past" /\ (c.status = "online" => c = Online)
    /\ choice' = c
    /\ stored' = c
    /\ armed' = ChoiceTimer(c)
    /\ picked' = [t \in Sockets |-> IF t \in sockets THEN c ELSE picked[t]]
    /\ Publish(Seen, View(sockets, idleSockets, c))
    /\ UNCHANGED <<sockets, idleSockets>>

\* The clock passes `until`, of the entry and of the row; nothing runs yet.
Past(c) == IF c.until = "ahead" THEN [c EXCEPT !.until = "past"] ELSE c

UntilPasses ==
    /\ "ahead" \in {choice.until, stored.until, armed.until}
    /\ choice' = Past(choice)
    /\ stored' = Past(stored)
    /\ armed' = Past(armed)
    /\ untold' = (untold \/ shown # View(sockets, idleSockets, choice'))
    /\ UNCHANGED <<sockets, idleSockets, shown, picked>>

\* The timer: the view before is computed when the Status is already over.
ChoiceExpires ==
    /\ armed.until = "past"
    /\ armed' = NoChoice
    /\ IF sockets = {} THEN UNCHANGED <<choice, stored, picked, shown, untold>>
       ELSE /\ choice' = Online
            /\ stored' = Online
            /\ picked' = [t \in Sockets |-> IF t \in sockets THEN Online ELSE picked[t]]
            /\ Publish(Seen, View(sockets, idleSockets, Online))
    /\ UNCHANGED <<sockets, idleSockets>>

\* Mutant: the connections left are not looked at again.
PresenceDisconnectQuietly(s) ==
    /\ s \in sockets
    /\ sockets' = sockets \ {s}
    /\ idleSockets' = idleSockets \ {s}
    /\ armed' = IF sockets' = {} THEN NoChoice ELSE armed
    /\ IF sockets' = {} THEN Publish(Seen, "offline") ELSE UNCHANGED <<shown, untold>>
    /\ UNCHANGED <<choice, stored, picked>>

PresenceDisconnect(s) ==
    /\ s \in sockets
    /\ sockets' = sockets \ {s}
    /\ idleSockets' = idleSockets \ {s}
    /\ armed' = IF sockets' = {} THEN NoChoice ELSE armed
    /\ Publish(Seen, View(sockets', idleSockets', choice))
    /\ UNCHANGED <<choice, stored, picked>>

PresenceNext ==
    \/ UntilPasses
    \/ ChoiceExpires
    \/ \E s \in Sockets :
          \/ PresenceConnect(s) \/ PresenceDisconnect(s)
          \/ \E idle \in BOOLEAN : SetStatus(s, idle)
          \/ \E c \in StatusChoices : SetChoice(s, c)

PresenceSpec == PresenceInit /\ [][PresenceNext]_presenceVars

------------------------
\* Whatever order connections, measurements and Statuses come in, the others
\* show the Status as it is, but for two things the code does not announce: a
\* Status that ran out, and a connection that opens beside idle ones.  What the
\* others show then may stay wrong until a later change reaches them.
OthersSeeTheStatus == untold \/ shown = Seen

\* Even then: a member who is gone or hides is not shown as there, and a member
\* who is shown as there is.
NobodyGoneIsShown == Seen = "offline" => shown = "offline"

\* Every Device of the member shows the Status it picked on any of them.
DevicesAgree ==
    \A s \in sockets : choice.until # "past" => picked[s] = choice

\* A Status is ended by its own expiry, not by that of one it replaced.
OnlyItsExpiryEndsAStatus ==
    [][sockets # {} /\ sockets' # {} /\ armed.until = "past" /\ armed'.until # "past"
         => choice.until = "past"]_presenceVars

\* The Status a member chose reaches the others, unless it runs out, and every
\* Device of the member; only its own expiry ends it; nobody gone is shown.
StatusIsTold == [](OthersSeeTheStatus /\ NobodyGoneIsShown /\ DevicesAgree) /\ OnlyItsExpiryEndsAStatus

\* "The server times the expiry itself and announces the change when it comes"
\* (ADR-0035).  Violated: publishPresenceChange compares with a view computed
\* when the Status already reads as Online, and finds that nothing changed.
AnExpiryIsAnnounced == [][ChoiceExpires /\ sockets # {} => shown' = Seen']_presenceVars

=============================================================================
