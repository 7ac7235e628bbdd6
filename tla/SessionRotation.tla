-------------------------- MODULE SessionRotation --------------------------
(***************************************************************************)
(* One Session and the browser that holds it: apps/server/src/auth/         *)
(* sessions.ts.  The Session row stays, the credential in the cookie is      *)
(* replaced every tokenRotationMs.  A retired credential is remembered: it   *)
(* keeps working for a grace period, is recovered if its replacement was     *)
(* never seen again, and is refused once the replacement came back.          *)
(*                                                                         *)
(* Every authentication is one synchronous handler, so one action.  What     *)
(* interleaves is the network (requests in parallel, late or lost, responses *)
(* late or lost), the clock, and the browser: it writes its cookies to disk  *)
(* a while after it received them and may be killed before it did.           *)
(*                                                                         *)
(* A credential is the number of its issue; its cookie has a name of its     *)
(* own, so a jar is a set of credentials.                                   *)
(***************************************************************************)
EXTENDS Integers, FiniteSets

CONSTANTS
    Rotation,       \* tokenRotationMs, and the equal sessionTouchIntervalMs
    Grace,          \* tokenGraceMs
    Persistence,    \* tokenPersistenceMs
    Memory,         \* tokenMemoryMs
    Window,         \* sessionDays
    RenewFloor,     \* sessionRenewFloorMs
    WrittenWithin,  \* how long a browser takes to write its cookies to disk
    RequestDelay,   \* how long a request may be under way
    ResponseDelay,  \* how long a response may be
    LastTick,       \* bound on the clock
    FlightBound,    \* bound on requests and on responses under way
    KillBound,      \* bound on kills of the browser
    None

ASSUME RotationAssumption ==
    /\ {Rotation, Grace, Persistence, Memory, Window, RenewFloor, WrittenWithin,
        RequestDelay, ResponseDelay, LastTick, FlightBound, KillBound} \subseteq Nat
    /\ Grace < Rotation
    /\ Persistence <= Rotation
    /\ None \notin Nat

VARIABLES
    now,
    current,        \* sessions.token_hash
    issuedAt,       \* sessions.token_issued_at
    lastSeen,       \* sessions.last_seen_at
    expiresAt,      \* sessions.expires_at
    revoked,        \* sessions.revoked_at is set
    retired,        \* session_tokens: superseded_at and replacement_seen_at
    issued,         \* credentials issued so far
    jar,            \* the browser's cookies in memory
    disk,           \* and on disk
    unwritten,      \* since when the two differ, or None
    requests,       \* under way to the server
    responses,      \* under way to the browser
    kills

session == <<current, issuedAt, lastSeen, expiresAt, revoked, retired, issued>>
browser == <<jar, disk, unwritten, kills>>
network == <<requests, responses>>
vars == <<now, session, browser, network>>

------------------------
Known == {current} \cup DOMAIN retired
Pending(t) == t \in DOMAIN retired /\ retired[t].seenAt = None
Live == ~revoked /\ expiresAt > now

\* readSessionToken prefers the current credential, then one whose replacement
\* was not seen, then the latest retired.
Preferred(t, o) ==
    \/ t = current
    \/ o # current /\ Pending(t) /\ ~Pending(o)
    \/ o # current /\ (Pending(t) <=> Pending(o))
           /\ retired[t].supersededAt >= retired[o].supersededAt

Chosen(cookies) ==
    {t \in cookies \cap Known : \A o \in (cookies \cap Known) \ {t} : Preferred(t, o)}

\* Mutant: a pending credential is recovered without a grace period.
VerdictWithoutGrace(t) ==
    IF ~Live THEN "unauthorized"
    ELSE IF t = current THEN "authenticated"
    ELSE IF Pending(t) THEN "unconfirmed"
    ELSE "reused"

\* authenticate: what becomes of a known credential.
Verdict(t) ==
    IF ~Live THEN "unauthorized"
    ELSE IF t = current THEN "authenticated"
    ELSE LET clock == IF Pending(t) THEN retired[t].supersededAt ELSE retired[t].seenAt
         IN  IF now - clock <= Grace THEN "superseded"
             ELSE IF Pending(t) THEN "unconfirmed"
             ELSE "reused"

Admitted == {"authenticated", "superseded", "unconfirmed"}

\* The Device is let in on what it would present.
Accepts(cookies) ==
    Chosen(cookies) # {} /\ \A t \in Chosen(cookies) : Verdict(t) \in Admitted

\* Mutant: seeing the replacement at all is enough.
ConfirmedAtOnce ==
    [t \in DOMAIN retired |-> IF Pending(t) THEN [retired[t] EXCEPT !.seenAt = now]
                              ELSE retired[t]]

\* confirmReplacementDelivery: the current credential came back, late enough.
Confirmed ==
    [t \in DOMAIN retired |->
        IF Pending(t) /\ retired[t].supersededAt <= now - Persistence
        THEN [retired[t] EXCEPT !.seenAt = now]
        ELSE retired[t]]

\* touchSession and renewSession: once per interval, or close to expiry.
Touch ==
    LET touched == now - lastSeen >= Rotation
    IN  /\ lastSeen' = IF touched THEN now ELSE lastSeen
        /\ expiresAt' = IF touched \/ expiresAt - now < RenewFloor
                        THEN now + Window ELSE expiresAt

Renewed == expiresAt' # expiresAt

\* Mutant: a rotation makes every credential it retired before pending again.
RetireForgetful(table) ==
    [t \in DOMAIN table \cup {current} |-> [supersededAt |-> now, seenAt |-> None]]

\* rotateTokenIfNeeded on top of the confirmed table, with its clean-up.
Retire(table) ==
    LET all == [t \in DOMAIN table \cup {current} |->
                    IF t = current THEN [supersededAt |-> now, seenAt |-> None]
                                   ELSE table[t]]
    IN  [t \in {x \in DOMAIN all : all[x].seenAt = None \/ all[x].seenAt >= now - Memory}
            |-> all[t]]

\* Mutant: only the abandoned replacement gets a new clock.
RecoveredAlone ==
    [t \in DOMAIN retired \cup {current} |->
        IF t = current THEN [supersededAt |-> now, seenAt |-> None] ELSE retired[t]]

\* recoverUnconfirmedRotation: the abandoned replacement joins the pending
\* family, and the whole family's grace clock starts again.
Recovered ==
    [t \in DOMAIN retired \cup {current} |->
        IF t = current \/ Pending(t) THEN [supersededAt |-> now, seenAt |-> None]
        ELSE retired[t]]

\* A fresh credential takes the place of the current one.
Issue ==
    /\ current' = issued + 1
    /\ issued' = issued + 1
    /\ issuedAt' = now

Keep == UNCHANGED <<current, issued, issuedAt>>

\* The response to `q`, if its sender still runs: cookies to set and to clear.
Reply(q, written, cleared) ==
    /\ requests' = requests \ {q}
    /\ responses' = responses \cup
            (IF q.awaited THEN {[written |-> written, cleared |-> cleared, at |-> now]}
                          ELSE {})

------------------------
(* authenticateHttp.                                                        *)

ServeCurrent(q) ==
    /\ current \in q.cookies
    /\ Verdict(current) = "authenticated"
    /\ Touch
    /\ \/ /\ now - issuedAt >= Rotation
          /\ retired' = Retire(Confirmed)
          /\ Issue
          /\ Reply(q, {issued + 1}, q.cookies)
       \/ /\ now - issuedAt < Rotation
          /\ retired' = Confirmed
          /\ Keep
          /\ Reply(q, IF Renewed THEN {current} ELSE {}, q.cookies \ {current})
    /\ UNCHANGED revoked

\* On a retired credential within its grace nothing is rotated or cleared.
ServeSuperseded(q) ==
    /\ \E t \in Chosen(q.cookies) : Verdict(t) = "superseded"
    /\ Touch
    /\ Keep
    /\ Reply(q, {}, {})
    /\ UNCHANGED <<retired, revoked>>

ServeUnconfirmed(q) ==
    /\ \E t \in Chosen(q.cookies) : Verdict(t) = "unconfirmed"
    /\ Touch
    /\ retired' = Recovered
    /\ Issue
    /\ Reply(q, {issued + 1}, q.cookies)
    /\ UNCHANGED revoked

ServeRefused(q) ==
    /\ \/ Chosen(q.cookies) = {}
       \/ \E t \in Chosen(q.cookies) : Verdict(t) \notin Admitted
    /\ Reply(q, {}, {})
    /\ UNCHANGED session

\* authenticateSocket: the same identity, with no cookie to write.
ServeHandshake(q) ==
    /\ retired' = IF current \in q.cookies /\ Live THEN Confirmed ELSE retired
    /\ requests' = requests \ {q}
    /\ UNCHANGED <<current, issuedAt, lastSeen, expiresAt, revoked, issued, responses>>

\* logoutBrowserSessions, and the route's clearing of every cookie presented.
ServeLogout(q) ==
    /\ revoked' = (revoked \/ \E t \in q.cookies \cap Known : Verdict(t) \in Admitted)
    /\ Reply(q, {}, q.cookies)
    /\ UNCHANGED <<current, issuedAt, lastSeen, expiresAt, retired, issued>>

Serve ==
    /\ \E q \in requests :
        \/ q.kind = "http" /\ \/ ServeCurrent(q)
                              \/ ServeSuperseded(q)
                              \/ ServeUnconfirmed(q)
                              \/ ServeRefused(q)
        \/ q.kind = "socket" /\ ServeHandshake(q)
        \/ q.kind = "logout" /\ ServeLogout(q)
    /\ UNCHANGED <<now, browser>>

\* The owner, or the member on another Device, signs this Device out.
Revoke ==
    /\ ~revoked
    /\ revoked' = TRUE
    /\ UNCHANGED <<now, current, issuedAt, lastSeen, expiresAt, retired, issued,
                   browser, network>>

------------------------
(* The browser and the network.                                             *)

Send(kind) ==
    /\ Cardinality(requests) < FlightBound
    /\ jar # {}
    /\ requests' = requests \cup {[kind |-> kind, cookies |-> jar, at |-> now,
                                   awaited |-> TRUE]}
    /\ UNCHANGED <<now, session, browser, responses>>

\* The browser takes a response's cookies into memory.
Receive(p) ==
    LET kept == (jar \ p.cleared) \cup p.written
    IN  /\ jar' = kept
        /\ unwritten' = IF kept = disk THEN None
                        ELSE IF unwritten = None THEN now
                        ELSE unwritten
        /\ responses' = responses \ {p}
        /\ UNCHANGED <<now, session, disk, kills, requests>>

Lose ==
    /\ \/ \E q \in requests : requests' = requests \ {q} /\ UNCHANGED responses
       \/ \E p \in responses : responses' = responses \ {p} /\ UNCHANGED requests
    /\ UNCHANGED <<now, session, browser>>

Write ==
    /\ unwritten # None
    /\ disk' = jar
    /\ unwritten' = None
    /\ UNCHANGED <<now, session, jar, kills, network>>

\* The browser is killed and opens again with what was on disk.  What it asked
\* still arrives at the server, the answers go nowhere.
Kill ==
    /\ kills < KillBound
    /\ kills' = kills + 1
    /\ jar' = disk
    /\ unwritten' = None
    /\ requests' = {[q EXCEPT !.awaited = FALSE] : q \in requests}
    /\ responses' = {}
    /\ UNCHANGED <<now, session, disk>>

\* Time does not pass over a write that is due or a message that is too late.
Tick ==
    /\ now < LastTick
    /\ unwritten # None => now - unwritten < WrittenWithin
    /\ \A q \in requests : now - q.at < RequestDelay
    /\ \A p \in responses : now - p.at < ResponseDelay
    /\ now' = now + 1
    /\ UNCHANGED <<session, browser, network>>

------------------------
Init ==
    /\ now = 0
    /\ current = 1
    /\ issued = 1
    /\ issuedAt = 0
    /\ lastSeen = 0
    /\ expiresAt = Window
    /\ revoked = FALSE
    /\ retired = [t \in {} |-> None]
    /\ jar = {1}
    /\ disk = {1}
    /\ unwritten = None
    /\ requests = {}
    /\ responses = {}
    /\ kills = 0

Next ==
    \/ Serve \/ Revoke
    \/ \E kind \in {"http", "socket", "logout"} : Send(kind)
    \/ \E p \in responses : Receive(p)
    \/ Lose \/ Write \/ Kill \/ Tick

Spec == Init /\ [][Next]_vars

------------------------
Tokens == 1..issued
Times == 0..now

Retirement == [supersededAt: Times, seenAt: Times \cup {None}]

RowOK ==
    /\ now \in Nat
    /\ issued \in Nat \ {0}
    /\ current \in Tokens
    /\ issuedAt \in Times
    /\ lastSeen \in Times
    /\ expiresAt \in Nat
    /\ revoked \in BOOLEAN
    /\ DOMAIN retired \subseteq Tokens
    /\ \A t \in DOMAIN retired : retired[t] \in Retirement

\* The credentials whose replacement was never seen are one delivery attempt:
\* they share the clock of the current credential, so that "a burst of requests
\* carrying the same old cookie" issues one replacement (sessions.ts,
\* recoverUnconfirmedRotation).
OneDeliveryAttempt ==
    /\ current \notin DOMAIN retired
    /\ \A t \in DOMAIN retired : Pending(t) => retired[t].supersededAt = issuedAt

\* The Session's row and its credentials are well formed and of one delivery
\* attempt: the inductive invariant the other facts about rotation rest on.
CredentialInv == RowOK /\ OneDeliveryAttempt

\* However many requests arrive in parallel, a credential stays current for
\* longer than the grace period: replacements never chase each other.
Spaced == current' # current => now - issuedAt > Grace
ReplacementsAreSpaced == [][Spaced]_vars

\* A browser that lost responses, fired requests in parallel or was killed with
\* unwritten cookies is never taken for a stale one: what it holds, and what it
\* would hold after a kill, is accepted while the Session lives (ADR-0033).
BrowserKeepsItsSession ==
    Live => (jar # {} => Accepts(jar)) /\ (disk # {} => Accepts(disk))

\* A credential whose replacement came back stays retired: neither a recovery
\* nor a rotation, nor a late request, makes it pending or current again, so
\* after its grace period it is refused for good.
RetiredForGood ==
    \A t \in DOMAIN retired :
        ~Pending(t) => t # current' /\ (t \in DOMAIN retired' => ~Pending(t)')
NoOldCredentialRevives == [][RetiredForGood]_vars

=============================================================================
