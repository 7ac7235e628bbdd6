---------------------------- MODULE SessionProofs ---------------------------
(* Proofs about SessionRotation, for every choice of intervals that keeps *)
(* the grace period shorter, and the persistence time no longer, than the *)
(* rotation interval; and, after them, about DesktopUpdates, for every number *)
(* of versions, rounds, requests and starts, and about DesktopWindows, for any *)
(* Installations and any number of choices, links and calls. *)
EXTENDS SessionRotation, DesktopUpdates, DesktopWindows, SequenceTheorems, TLAPS

------------------------
(* The operators on the table of retired credentials. *)

\* Confirming changes nothing but when a replacement was seen; after the
\* persistence time nothing stays pending.
LEMMA ConfirmedKeeps ==
    ASSUME CredentialInv
    PROVE  /\ DOMAIN Confirmed = DOMAIN retired
           /\ \A t \in DOMAIN retired :
                /\ Confirmed[t] \in Retirement
                /\ Confirmed[t].seenAt = None =>
                        Pending(t) /\ Confirmed[t].supersededAt = issuedAt
                /\ now - issuedAt >= Persistence => Confirmed[t].seenAt # None
<1>1. DOMAIN Confirmed = DOMAIN retired
  BY DEF Confirmed
<1>2. ASSUME NEW t \in DOMAIN retired
      PROVE  /\ Confirmed[t] \in Retirement
             /\ Confirmed[t].seenAt = None =>
                        Pending(t) /\ Confirmed[t].supersededAt = issuedAt
             /\ now - issuedAt >= Persistence => Confirmed[t].seenAt # None
  BY <1>2, RotationAssumption DEF CredentialInv, RowOK, Times, Confirmed, Retirement, OneDeliveryAttempt, Pending
<1>3. QED
  BY <1>1, <1>2

\* A rotation leaves exactly the credential it replaced pending.
LEMMA RetireFacts ==
    ASSUME CredentialInv, now - issuedAt >= Rotation
    PROVE  /\ DOMAIN Retire(Confirmed) \subseteq DOMAIN retired \cup {current}
           /\ \A t \in DOMAIN Retire(Confirmed) :
                /\ Retire(Confirmed)[t] \in Retirement
                /\ Retire(Confirmed)[t].seenAt = None =>
                        t = current /\ Retire(Confirmed)[t].supersededAt = now
<1> DEFINE table == Confirmed
<1>1. now \in Times /\ now \in Nat /\ issuedAt \in Nat /\ now # None
  BY RotationAssumption DEF CredentialInv, RowOK, Times
<1>2. now - issuedAt >= Persistence
  BY <1>1, RotationAssumption
<1>3. DOMAIN table = DOMAIN retired
  BY ConfirmedKeeps
<1>4. DOMAIN Retire(table) \subseteq DOMAIN table \cup {current}
  BY DEF Retire
<1>5. ASSUME NEW t \in DOMAIN Retire(table)
      PROVE  /\ Retire(table)[t] \in Retirement
             /\ Retire(table)[t].seenAt = None =>
                        t = current /\ Retire(table)[t].supersededAt = now
  BY <1>5, <1>1, <1>2, <1>3, <1>4, ConfirmedKeeps DEF Retire, Retirement
<1>6. QED
  BY <1>3, <1>4, <1>5

\* A recovery makes the abandoned replacement pending and gives the whole
\* pending family the present as its clock; what was confirmed stays so.
LEMMA RecoveredFacts ==
    ASSUME CredentialInv
    PROVE  /\ DOMAIN Recovered = DOMAIN retired \cup {current}
           /\ \A t \in DOMAIN Recovered :
                /\ Recovered[t] \in Retirement
                /\ Recovered[t].seenAt = None =>
                        /\ Recovered[t].supersededAt = now
                        /\ t = current \/ Pending(t)
<1>1. now \in Times /\ now # None
  BY RotationAssumption DEF CredentialInv, RowOK, Times
<1>2. DOMAIN Recovered = DOMAIN retired \cup {current}
  BY DEF Recovered
<1>3. ASSUME NEW t \in DOMAIN Recovered
      PROVE  /\ Recovered[t] \in Retirement
             /\ Recovered[t].seenAt = None =>
                        /\ Recovered[t].supersededAt = now
                        /\ t = current \/ Pending(t)
  BY <1>2, <1>3, <1>1 DEF Recovered, Retirement, CredentialInv, RowOK, Pending
<1>4. QED
  BY <1>2, <1>3

------------------------
(* What one handler does to the row and its credentials. *)

StepInv == CredentialInv' /\ Spaced /\ RetiredForGood

\* Seeing the Session moves two clocks, each within its type.
LEMMA TouchKeepsTypes ==
    ASSUME RowOK, Touch, now' = now
    PROVE  lastSeen' \in Times' /\ expiresAt' \in Nat
BY RotationAssumption DEF RowOK, Times, Touch

\* A new credential over a table in which only the old current one is pending,
\* or in which every pending one carries the present as its clock.
LEMMA IssueStep ==
    ASSUME CredentialInv, Issue, now' = now, revoked' = revoked,
           lastSeen' \in Times', expiresAt' \in Nat,
           now - issuedAt > Grace,
           DOMAIN retired' \subseteq DOMAIN retired \cup {current},
           \A t \in DOMAIN retired' :
                /\ retired'[t] \in Retirement
                /\ retired'[t].seenAt = None =>
                        retired'[t].supersededAt = now /\ (t = current \/ Pending(t))
    PROVE  StepInv
<1>1. /\ now \in Nat /\ issued \in Nat \ {0} /\ current \in Tokens
      /\ DOMAIN retired \subseteq Tokens /\ revoked \in BOOLEAN
      /\ current \notin DOMAIN retired
  BY DEF CredentialInv, RowOK, OneDeliveryAttempt
<1>2. /\ current' = issued + 1 /\ issued' = issued + 1 /\ issuedAt' = now
      /\ Tokens' = 1..(issued + 1) /\ Times' = Times /\ now \in Times
      /\ Retirement' = Retirement
  BY <1>1 DEF Issue, Tokens, Times, Retirement
<1>3. Tokens \subseteq Tokens' /\ current' \in Tokens' /\ current' \notin Tokens
  BY <1>1, <1>2 DEF Tokens
<1>4. RowOK'
  <2>1. now' \in Nat /\ issued' \in Nat \ {0} /\ issuedAt' \in Times' /\ revoked' \in BOOLEAN
    BY <1>1, <1>2
  <2>2. DOMAIN retired' \subseteq Tokens'
    BY <1>1, <1>3
  <2>3. \A t \in DOMAIN retired' : retired'[t] \in Retirement'
    BY <1>2
  <2> QED
    BY <1>3, <2>1, <2>2, <2>3 DEF RowOK
<1>5. OneDeliveryAttempt'
  <2>1. current' \notin DOMAIN retired'
    BY <1>1, <1>3
  <2>2. \A t \in DOMAIN retired' : Pending(t)' => retired'[t].supersededAt = issuedAt'
    BY <1>2 DEF Pending
  <2>3. QED
    BY <2>1, <2>2 DEF OneDeliveryAttempt
<1>6. RetiredForGood
  <2>1. ASSUME NEW t \in DOMAIN retired, ~Pending(t)
        PROVE  t # current' /\ (t \in DOMAIN retired' => ~Pending(t)')
    BY <1>1, <1>3, <2>1 DEF Pending
  <2>2. QED
    BY <2>1 DEF RetiredForGood
<1>7. QED
  BY <1>4, <1>5, <1>6 DEF StepInv, CredentialInv, Spaced

\* No new credential, and the table confirmed or left as it was.
LEMMA KeepStep ==
    ASSUME CredentialInv, Keep, now' = now, revoked' \in BOOLEAN,
           lastSeen' \in Times', expiresAt' \in Nat,
           retired' = retired \/ retired' = Confirmed
    PROVE  StepInv
<1>1. /\ DOMAIN retired' = DOMAIN retired
      /\ \A t \in DOMAIN retired :
            /\ retired'[t] \in Retirement
            /\ retired'[t].seenAt = None =>
                    Pending(t) /\ retired'[t].supersededAt = issuedAt
  BY ConfirmedKeeps DEF CredentialInv, RowOK, OneDeliveryAttempt, Pending
<1>2. /\ current' = current /\ issued' = issued /\ issuedAt' = issuedAt
      /\ Tokens' = Tokens /\ Times' = Times /\ Retirement' = Retirement
  BY DEF Keep, Tokens, Times, Retirement
<1>3. RowOK'
  BY <1>1, <1>2 DEF CredentialInv, RowOK
<1>4. OneDeliveryAttempt'
  BY <1>1, <1>2 DEF CredentialInv, OneDeliveryAttempt, Pending
<1>5. RetiredForGood
  BY <1>1, <1>2 DEF RetiredForGood, CredentialInv, OneDeliveryAttempt, Pending
<1>6. QED
  BY <1>2, <1>3, <1>4, <1>5 DEF StepInv, CredentialInv, Spaced

\* Every way of serving a request.
LEMMA ServeStep ==
    ASSUME CredentialInv, Serve
    PROVE  StepInv
<1>1. now' = now /\ RowOK
  BY DEF Serve, CredentialInv
<1>2. PICK q \in requests :
        \/ ServeCurrent(q) \/ ServeSuperseded(q) \/ ServeUnconfirmed(q)
        \/ ServeRefused(q) \/ ServeHandshake(q) \/ ServeLogout(q)
  BY DEF Serve
<1>3. lastSeen \in Times /\ Times' = Times /\ expiresAt \in Nat /\ revoked \in BOOLEAN
  BY <1>1 DEF RowOK, Times
<1>4. CASE ServeCurrent(q)
  <2>1. /\ lastSeen' \in Times' /\ expiresAt' \in Nat /\ revoked' = revoked
    BY <1>1, <1>4, TouchKeepsTypes DEF ServeCurrent
  <2>2. CASE now - issuedAt >= Rotation
    BY <1>1, <1>4, <2>2, RotationAssumption, RetireFacts, <2>1, IssueStep DEF ServeCurrent, RowOK, Times
  <2>3. CASE ~(now - issuedAt >= Rotation)
    BY <1>4, <2>3, <1>1, <1>3, <2>1, KeepStep DEF ServeCurrent
  <2>4. QED
    BY <2>2, <2>3
<1>5. CASE ServeSuperseded(q)
  BY <1>1, <1>5, TouchKeepsTypes, <1>3, KeepStep DEF ServeSuperseded
<1>6. CASE ServeUnconfirmed(q)
  BY <1>1, <1>6, TouchKeepsTypes, RotationAssumption, RecoveredFacts, IssueStep DEF ServeUnconfirmed, Verdict,
     CredentialInv, OneDeliveryAttempt, Pending, RowOK, Times
<1>7. CASE ServeRefused(q)
  BY <1>7, <1>1, <1>3, KeepStep DEF ServeRefused, session, Keep
<1>8. CASE ServeHandshake(q)
  BY <1>8, <1>1, <1>3, KeepStep DEF ServeHandshake, Keep
<1>9. CASE ServeLogout(q)
  BY <1>3, <1>9, <1>1, KeepStep DEF ServeLogout, Keep
<1>10. QED
  BY <1>2, <1>4, <1>5, <1>6, <1>7, <1>8, <1>9

------------------------
(* Every step. *)

\* Time passes: the types of the clocks grow with it.
LEMMA TickStep ==
    ASSUME CredentialInv, Tick
    PROVE  StepInv
<1>1. now \in Nat /\ now' = now + 1 /\ UNCHANGED session
  BY DEF Tick, CredentialInv, RowOK
<1>2. Times \subseteq Times' /\ Tokens' = Tokens
  BY <1>1 DEF Times, Tokens, session
<1>3. Retirement \subseteq Retirement'
  BY <1>2 DEF Retirement
<1>4. RowOK'
  BY <1>1, <1>2, <1>3 DEF CredentialInv, RowOK, session
<1>5. QED
  BY <1>1, <1>4 DEF StepInv, CredentialInv, OneDeliveryAttempt, Spaced, RetiredForGood,
                    Pending, session

LEMMA CredentialStep ==
    ASSUME CredentialInv, [Next]_vars
    PROVE  StepInv
<1>1. CASE Serve
  BY <1>1, ServeStep
<1>2. CASE Tick
  BY <1>2, TickStep
<1>3. CASE Revoke
  BY <1>3, KeepStep DEF Revoke, Keep, CredentialInv, RowOK, Times
<1>4. CASE UNCHANGED <<now, session>>
  BY <1>4, KeepStep DEF session, Keep, CredentialInv, RowOK, Times
<1>5. ASSUME \/ \E kind \in {"http", "socket", "logout"} : Send(kind)
             \/ \E p \in responses : Receive(p)
             \/ Lose \/ Write \/ Kill \/ UNCHANGED vars
      PROVE  UNCHANGED <<now, session>>
  BY <1>5 DEF Send, Receive, Lose, Write, Kill, vars
<1>6. QED
  BY <1>1, <1>2, <1>3, <1>4, <1>5 DEF Next

LEMMA CredentialInit == Init => CredentialInv
<1> SUFFICES ASSUME Init PROVE CredentialInv
  OBVIOUS
<1>1. Window \in Nat
  BY RotationAssumption
<1>2. DOMAIN retired = {}
  <2>1. retired = [t \in {} |-> None]
    BY DEF Init
  <2>2. QED
    BY <2>1, Zenon
<1>3. 1 \in Tokens /\ 0 \in Times
  BY DEF Init, Tokens, Times
<1>4. RowOK
  <2>1. /\ now = 0 /\ current = 1 /\ issued = 1 /\ issuedAt = 0 /\ lastSeen = 0
        /\ expiresAt = Window /\ revoked = FALSE
    BY DEF Init
  <2>2. now \in Nat /\ issued \in Nat \ {0} /\ expiresAt \in Nat
    BY <1>1, <2>1
  <2>3. current \in Tokens /\ issuedAt \in Times /\ lastSeen \in Times
    BY <1>3, <2>1
  <2>4. revoked \in BOOLEAN
    BY <2>1
  <2>5. DOMAIN retired \subseteq Tokens /\ \A t \in DOMAIN retired : retired[t] \in Retirement
    BY <1>2
  <2>6. QED
    BY <2>2, <2>3, <2>4, <2>5 DEF RowOK
<1>5. QED
  BY <1>2, <1>4 DEF CredentialInv, OneDeliveryAttempt

\* The row and its credentials are well formed, and the pending credentials are
\* one delivery attempt.
THEOREM CredentialsCorrect == Spec => []CredentialInv
<1>1. CredentialInv /\ [Next]_vars => CredentialInv'
  BY CredentialStep DEF StepInv
<1>2. QED
  BY <1>1, CredentialInit, PTL DEF Spec

\* However requests, losses and kills interleave, the credentials that were not
\* seen to be replaced share one clock, that of the current credential
\* (recoverUnconfirmedRotation).
THEOREM OneAttempt == Spec => []OneDeliveryAttempt
<1>1. CredentialInv => OneDeliveryAttempt
  BY DEF CredentialInv
<1>2. QED
  BY <1>1, CredentialsCorrect, PTL

\* A credential is current for longer than the grace period before the server
\* issues another, by rotation or by recovery (rotateTokenIfNeeded,
\* recoverUnconfirmedRotation).
THEOREM SpacedReplacements == Spec => ReplacementsAreSpaced
<1>1. CredentialInv /\ [Next]_vars => [Spaced]_vars
  BY CredentialStep DEF StepInv
<1>2. QED
  BY <1>1, CredentialsCorrect, PTL DEF Spec, ReplacementsAreSpaced

\* A credential whose replacement came back never becomes current or pending
\* again (confirmReplacementDelivery, authenticate).
THEOREM OldStaysOld == Spec => NoOldCredentialRevives
<1>1. CredentialInv /\ [Next]_vars => [RetiredForGood]_vars
  BY CredentialStep DEF StepInv
<1>2. QED
  BY <1>1, CredentialsCorrect, PTL DEF Spec, NoOldCredentialRevives

------------------------
(* The browser.  What it holds, and what it would hold after a kill, contains *)
(* a credential that is still good. *)

\* A request that carries a cookie from memory has reached the server by the
\* time its replacements are confirmed only if the cookie is on disk: the
\* response, the browser's write and the request together take less than the
\* persistence time.
QuickEnough == ResponseDelay + WrittenWithin + RequestDelay < Persistence

\* A credential that is neither current nor awaiting its replacement.
Old(t) == t # current /\ ~Pending(t)

Request == [kind: {"http", "socket", "logout"}, cookies: SUBSET Tokens, at: Times,
            awaited: BOOLEAN]
Response == [written: SUBSET Tokens, cleared: SUBSET Tokens, at: Times]

BrowserOK ==
    /\ current = issued
    /\ jar \subseteq Tokens
    /\ disk \subseteq Tokens
    /\ unwritten = None <=> jar = disk
    /\ unwritten # None => unwritten \in Times /\ now - unwritten <= WrittenWithin

NetworkOK ==
    /\ requests \subseteq Request
    /\ responses \subseteq Response
    /\ \A q \in requests : now - q.at <= RequestDelay
    /\ \A p \in responses : now - p.at <= ResponseDelay

\* Credentials age in the order they were issued in.
OldestFirst == \A t, u \in Tokens : t < u /\ Old(u) => Old(t)

HoldsOne == (\E t \in jar : ~Old(t)) /\ (\E t \in disk : ~Old(t))

\* The current credential is never on disk alone, and on its way there in time.
DiskFollows ==
    /\ current \in disk => current \in jar
    /\ current \in jar /\ current \notin disk =>
            unwritten # None /\ unwritten <= issuedAt + ResponseDelay

\* A request that carries the current credential found it on disk, or left early.
SentInTime ==
    \A q \in requests : current \in q.cookies =>
        current \in disk \/ q.at <= issuedAt + ResponseDelay + WrittenWithin

\* The current credential travels to the browser at its issue, or for nothing.
ToldAtOnce ==
    \A p \in responses : current \in p.written => p.at = issuedAt \/ current \in jar

\* The sender of a request still holds a cookie at least as new as those it sent.
StillHeld ==
    \A q \in requests : q.awaited =>
        \A t \in q.cookies : Old(t) \/ \E k \in jar : k >= t

\* A response clears old cookies only, or leaves the browser a newer one.
ClearsBehind ==
    \A p \in responses :
        \/ \A t \in p.cleared : Old(t)
        \/ \E k \in jar \cup p.written : \A t \in p.cleared : k > t

LiveInv == /\ OldestFirst /\ HoldsOne /\ DiskFollows /\ SentInTime
           /\ ToldAtOnce /\ StillHeld /\ ClearsBehind

BrowserInv == CredentialInv /\ BrowserOK /\ NetworkOK /\ (Live => LiveInv)

\* A jar with a credential that is not old is accepted: the current one if it is
\* there, else the pending ones, which share one clock.
LEMMA NotOldIsAccepted ==
    ASSUME CredentialInv, Live, NEW S, NEW held \in S, held \in Tokens, ~Old(held)
    PROVE  Accepts(S)
<1>1. CASE current \in S
  BY <1>1 DEF Chosen, Known, Preferred, Verdict, Admitted, Accepts
<1>2. CASE current \notin S
  <2>1. Pending(held) /\ held \in Known
    BY <1>2 DEF Old, Known, Pending
  <2>2. ASSUME NEW o \in (S \cap Known) \ {held}
        PROVE  Preferred(held, o)
    BY <1>2, <2>1 DEF CredentialInv, OneDeliveryAttempt, Pending, RowOK, Times, Preferred
  <2>3. held \in Chosen(S)
    BY <2>1, <2>2 DEF Chosen
  <2>4. ASSUME NEW t \in Chosen(S)
        PROVE  Verdict(t) \in Admitted
    BY <1>2, <2>1, <2>4 DEF Chosen, Preferred, Verdict, Admitted
  <2>5. QED
    BY <2>3, <2>4 DEF Accepts
<1>3. QED
  BY <1>1, <1>2

LEMMA InvKeepsSession == BrowserInv => BrowserKeepsItsSession
<1> SUFFICES ASSUME BrowserInv, Live
             PROVE  Accepts(jar) /\ Accepts(disk)
  BY DEF BrowserKeepsItsSession
<1>1. CredentialInv /\ HoldsOne /\ jar \subseteq Tokens /\ disk \subseteq Tokens
  BY DEF BrowserInv, LiveInv, BrowserOK
<1>2. PICK t \in jar : ~Old(t)
  BY <1>1 DEF HoldsOne
<1>3. PICK u \in disk : ~Old(u)
  BY <1>1 DEF HoldsOne
<1>4. Accepts(jar)
  BY <1>1, <1>2, NotOldIsAccepted
<1>5. Accepts(disk)
  BY <1>1, <1>3, NotOldIsAccepted
<1>6. QED
  BY <1>4, <1>5

------------------------
(* What the server's steps leave of it. *)

\* Credentials only become old; those that are pending become so together, and
\* only when the current one has come back after the persistence time.
Confirms(q) == retired' = retired \/ (retired' = Confirmed /\ current \in q.cookies)

\* When the current credential comes back after the persistence time, it is on
\* disk.
LEMMA BackMeansWritten ==
    ASSUME BrowserInv, Live, QuickEnough, NEW q \in requests, current \in q.cookies,
           now - issuedAt >= Persistence
    PROVE  current \in disk /\ current \in jar
<1>1. /\ now \in Nat /\ issuedAt \in Nat /\ q.at \in Nat /\ now - q.at <= RequestDelay
      /\ {ResponseDelay, WrittenWithin, RequestDelay, Persistence} \subseteq Nat
  BY RotationAssumption DEF BrowserInv, CredentialInv, RowOK, Times, NetworkOK, Request
<1>2. current \in disk \/ q.at <= issuedAt + ResponseDelay + WrittenWithin
  BY DEF BrowserInv, LiveInv, SentInTime
<1>3. current \in disk
  BY <1>1, <1>2 DEF QuickEnough
<1>4. QED
  BY <1>3 DEF BrowserInv, LiveInv, DiskFollows

\* Confirming makes all that is pending old, or nothing.
LEMMA ConfirmedTogether ==
    ASSUME CredentialInv, retired' = Confirmed, current' = current, now' = now
    PROVE  \/ /\ now - issuedAt >= Persistence
              /\ \A t : Old(t)' <=> t # current
           \/ \A t : Old(t)' <=> Old(t)
BY RotationAssumption, ConfirmedKeeps DEF CredentialInv, RowOK, Times, Confirmed, OneDeliveryAttempt, Old, Pending

\* An answer under the same current credential, once it is known what became
\* old: it brings the current credential to who has it, and clears behind.
LEMMA AnswerKeepsLiveInv ==
    ASSUME BrowserInv, LiveInv,
           current' = current, issued' = issued, issuedAt' = issuedAt, UNCHANGED browser,
           \A t \in Tokens : Old(t) => Old(t)',
           OldestFirst', HoldsOne',
           requests' \subseteq requests,
           \A p \in responses' \ responses :
                /\ p \in Response
                /\ current \in p.written => current \in jar
                /\ \/ \A t \in p.cleared : Old(t)
                   \/ \E k \in jar : \A t \in p.cleared : k > t
    PROVE  LiveInv'
<1>1. jar' = jar /\ disk' = disk /\ unwritten' = unwritten
  BY DEF browser
<1>2. DiskFollows'
  BY <1>1 DEF LiveInv, DiskFollows
<1>3. SentInTime'
  BY <1>1 DEF LiveInv, SentInTime
<1>4. ToldAtOnce'
  BY <1>1 DEF LiveInv, ToldAtOnce
<1>5. StillHeld'
  BY <1>1 DEF BrowserInv, NetworkOK, Request, LiveInv, StillHeld
<1>6. ClearsBehind'
  BY <1>1 DEF BrowserInv, NetworkOK, Response, LiveInv, ClearsBehind
<1>7. QED
  BY <1>2, <1>3, <1>4, <1>5, <1>6 DEF LiveInv

\* An answer that brings a fresh credential, and clears what was presented.
LEMMA FreshKeepsLiveInv ==
    ASSUME BrowserInv, LiveInv, NEW q \in requests, Issue, now' = now, UNCHANGED browser,
           \A t \in Tokens : Old(t) => Old(t)',
           OldestFirst', HoldsOne',
           Reply(q, {issued + 1}, q.cookies)
    PROVE  LiveInv'
<1> DEFINE p == [written |-> {issued + 1}, cleared |-> q.cookies, at |-> now]
<1>1. jar' = jar /\ disk' = disk /\ unwritten' = unwritten
  BY DEF browser
<1>2. /\ issued \in Nat /\ current = issued /\ current' = issued + 1 /\ issuedAt' = now
      /\ jar \subseteq Tokens /\ disk \subseteq Tokens
  BY DEF BrowserInv, CredentialInv, RowOK, BrowserOK, Issue
<1>3. current' \notin Tokens /\ \A t \in Tokens : issued + 1 > t
  BY <1>2 DEF Tokens
<1>4. requests' = requests \ {q} /\ responses' \subseteq responses \cup {p}
  BY DEF Reply
<1>5. \A r \in requests : r.cookies \subseteq Tokens
  BY DEF BrowserInv, NetworkOK, Request
<1>6. \A r \in responses : r.cleared \subseteq Tokens /\ r.written \subseteq Tokens
  BY DEF BrowserInv, NetworkOK, Response
<1>7. DiskFollows'
  BY <1>1, <1>2, <1>3 DEF DiskFollows
<1>8. SentInTime'
  BY <1>3, <1>4, <1>5 DEF SentInTime
<1>9. ToldAtOnce'
  BY <1>2, <1>3, <1>4, <1>6 DEF ToldAtOnce
<1>10. StillHeld'
  BY <1>4, <1>5, <1>1 DEF LiveInv, StillHeld
<1>11. ClearsBehind'
  <2>1. ASSUME NEW r \in responses'
        PROVE  \/ \A t \in r.cleared : Old(t)'
               \/ \E k \in jar' \cup r.written : \A t \in r.cleared : k > t
    BY <1>3, <1>5, <1>6, <1>1, <1>4, <2>1 DEF LiveInv, ClearsBehind
  <2>2. QED
    BY <2>1 DEF ClearsBehind
<1>12. QED
  BY <1>7, <1>8, <1>9, <1>10, <1>11 DEF LiveInv

\* Confirming, when the current credential came back, spares what is held.
LEMMA ConfirmingSpares ==
    ASSUME BrowserInv, Live, QuickEnough, NEW q \in requests, Confirms(q),
           current' = current, issued' = issued, now' = now, UNCHANGED browser
    PROVE  /\ \A t \in Tokens : Old(t) => Old(t)'
           /\ OldestFirst' /\ HoldsOne'
<1>1. jar' = jar /\ disk' = disk /\ Tokens' = Tokens
  BY DEF browser, Tokens
<1>2. issued \in Nat /\ current = issued /\ OldestFirst /\ HoldsOne /\ CredentialInv
  BY DEF BrowserInv, CredentialInv, RowOK, BrowserOK, LiveInv
<1>3. CASE \A t : Old(t)' <=> Old(t)
  BY <1>1, <1>2, <1>3 DEF OldestFirst, HoldsOne
<1>4. CASE /\ retired' = Confirmed /\ current \in q.cookies /\ now - issuedAt >= Persistence
           /\ \A t : Old(t)' <=> t # current
  BY <1>2, <1>1, <1>4, BackMeansWritten DEF Tokens, OldestFirst, HoldsOne, Old
<1>5. CASE retired' = retired
  BY <1>5, <1>3 DEF Old, Pending
<1>6. QED
  BY <1>2, <1>3, <1>4, <1>5, ConfirmedTogether DEF Confirms

\* An issue ages nobody it does not find old: what was pending, and the current
\* credential, stay pending or are confirmed while the current one is on disk.
LEMMA RotationSpares ==
    ASSUME BrowserInv, Live, QuickEnough, NEW q \in requests, current \in q.cookies,
           now - issuedAt >= Rotation, retired' = Retire(Confirmed), Issue, now' = now,
           UNCHANGED browser
    PROVE  /\ \A t \in Tokens : Old(t) => Old(t)'
           /\ OldestFirst' /\ HoldsOne'
<1>1. jar' = jar /\ disk' = disk
  BY DEF browser
<1>2. /\ issued \in Nat /\ current = issued /\ current' = issued + 1
      /\ issued' = issued + 1 /\ CredentialInv /\ now \in Nat /\ issuedAt \in Nat
  BY DEF BrowserInv, CredentialInv, RowOK, BrowserOK, Issue, Times
<1>3. Tokens' = Tokens \cup {issued + 1} /\ issued + 1 \notin Tokens
  BY <1>2 DEF Tokens
<1>4. current \in disk /\ current \in jar
  BY <1>2, RotationAssumption, BackMeansWritten
<1>5. \A t : Pending(t)' <=> t = current
  BY <1>2, RetireFacts DEF Pending, Retire
<1>6. \A t : Old(t)' <=> t # issued + 1 /\ t # issued
  BY <1>2, <1>5 DEF Old
<1>7. \A t \in Tokens : Old(t) => Old(t)'
  BY <1>2, <1>3, <1>6 DEF Old
<1>8. OldestFirst'
  BY <1>2, <1>3, <1>6 DEF Tokens, OldestFirst
<1>9. HoldsOne'
  BY <1>1, <1>2, <1>4, <1>6 DEF HoldsOne
<1>10. QED
  BY <1>7, <1>8, <1>9

LEMMA RecoverySpares ==
    ASSUME BrowserInv, Live, retired' = Recovered, Issue, now' = now, UNCHANGED browser
    PROVE  /\ \A t \in Tokens : Old(t) => Old(t)'
           /\ OldestFirst' /\ HoldsOne'
<1>1. jar' = jar /\ disk' = disk
  BY DEF browser
<1>2. /\ issued \in Nat /\ current = issued /\ current' = issued + 1
      /\ issued' = issued + 1 /\ CredentialInv /\ jar \subseteq Tokens /\ disk \subseteq Tokens
      /\ OldestFirst /\ HoldsOne
  BY DEF BrowserInv, CredentialInv, RowOK, BrowserOK, Issue, LiveInv
<1>3. Tokens' = Tokens \cup {issued + 1} /\ issued + 1 \notin Tokens
      /\ \A t \in Tokens : t < issued + 1 /\ ~(issued + 1 < t)
  BY <1>2 DEF Tokens
<1>4. \A t : Pending(t)' <=> t = current \/ Pending(t)
  BY <1>2, RecoveredFacts DEF Pending, Recovered
<1>5. \A t \in Tokens : Old(t)' <=> Old(t)
  BY <1>2, <1>3, <1>4 DEF Old
<1>6. \A t : t = issued + 1 => ~Old(t)'
  BY <1>2 DEF Old
<1>7. OldestFirst'
  BY <1>3, <1>5, <1>6, <1>2 DEF OldestFirst
<1>8. HoldsOne'
  BY <1>1, <1>2, <1>5 DEF HoldsOne
<1>9. QED
  BY <1>5, <1>7, <1>8

\* A logout that does not end the Session was sent by a stale jar.
LEMMA LogoutClearsOld ==
    ASSUME Live, NEW q, ServeLogout(q), ~revoked'
    PROVE  \A t \in q.cookies : Old(t)
BY DEF ServeLogout, Old, Known, Pending, Verdict, Admitted

LEMMA ServeKeepsLiveInv ==
    ASSUME BrowserInv, QuickEnough, Serve, Live, Live'
    PROVE  LiveInv'
<1>1. now' = now /\ UNCHANGED browser
  BY DEF Serve
<1>2. LiveInv
  BY DEF BrowserInv
<1>3. PICK q \in requests :
        \/ ServeCurrent(q) \/ ServeSuperseded(q) \/ ServeUnconfirmed(q)
        \/ ServeRefused(q) \/ ServeHandshake(q) \/ ServeLogout(q)
  BY DEF Serve
<1>4. current = issued /\ issued \in Nat /\ now \in Times /\ issuedAt \in Nat
      /\ q.cookies \subseteq Tokens /\ jar \subseteq Tokens
  BY DEF BrowserInv, CredentialInv, RowOK, BrowserOK, NetworkOK, Request, Times
<1>5. ASSUME current \in q.cookies, q.awaited PROVE current \in jar
  BY <1>2, <1>5, <1>4 DEF LiveInv, StillHeld, Old, Tokens
<1>6. CASE ServeCurrent(q)
  <2>1. current \in q.cookies
    BY <1>6 DEF ServeCurrent
  <2>2. CASE now - issuedAt >= Rotation
    <3>1. /\ retired' = Retire(Confirmed) /\ Issue
          /\ Reply(q, {issued + 1}, q.cookies)
      BY <1>4, <1>6, <2>2, RotationAssumption DEF ServeCurrent, Times
    <3>2. QED
      BY <1>1, <1>2, <2>1, <2>2, <3>1, RotationSpares, FreshKeepsLiveInv
  <2>3. CASE ~(now - issuedAt >= Rotation)
    <3>1. /\ retired' = Confirmed /\ Keep
          /\ Reply(q, IF Renewed THEN {current} ELSE {}, q.cookies \ {current})
      BY <1>6, <2>3 DEF ServeCurrent
    <3>2. current' = current /\ issued' = issued /\ issuedAt' = issuedAt /\ Confirms(q)
      BY <2>1, <3>1 DEF Keep, Confirms
    <3>3. /\ \A t \in Tokens : Old(t) => Old(t)'
          /\ OldestFirst' /\ HoldsOne'
      BY <1>1, <3>2, ConfirmingSpares
    <3>4. requests' \subseteq requests
      BY <3>1 DEF Reply
    <3>5. ASSUME NEW p \in responses' \ responses
          PROVE  /\ p \in Response
                 /\ current \in jar
                 /\ \A t \in p.cleared : current > t
      BY <3>1, <3>5, <1>4, <1>5, <2>1 DEF Reply, Tokens, BrowserInv, CredentialInv, RowOK, Response
    <3>6. QED
      BY <1>1, <1>2, <3>2, <3>3, <3>4, <3>5, AnswerKeepsLiveInv
  <2>4. QED
    BY <2>2, <2>3
<1>7. ASSUME retired' = retired, Keep, requests' \subseteq requests,
             \A p \in responses' \ responses :
                p \in Response /\ p.written = {} /\ \A t \in p.cleared : Old(t)
      PROVE  LiveInv'
  BY <1>1, <1>7, <1>2, AnswerKeepsLiveInv DEF Keep, browser, Tokens, Old, Pending, LiveInv, OldestFirst, HoldsOne
<1>8. ASSUME NEW c \in SUBSET Tokens, Reply(q, {}, c), NEW p \in responses' \ responses
      PROVE  p \in Response /\ p.written = {} /\ p.cleared = c
  BY <1>8, <1>4 DEF Reply, Response
<1>9. CASE ServeSuperseded(q) \/ ServeRefused(q)
  <2>1. retired' = retired /\ Keep /\ Reply(q, {}, {})
    BY <1>9 DEF ServeSuperseded, ServeRefused, Keep, session
  <2>2. requests' \subseteq requests
    BY <2>1 DEF Reply
  <2>3. QED
    BY <1>7, <1>8, <2>1, <2>2
<1>10. CASE ServeUnconfirmed(q)
  <2>1. retired' = Recovered /\ Issue /\ Reply(q, {issued + 1}, q.cookies)
    BY <1>10 DEF ServeUnconfirmed
  <2>2. QED
    BY <1>1, <1>2, <2>1, RecoverySpares, FreshKeepsLiveInv
<1>11. CASE ServeHandshake(q)
  <2>1. /\ current' = current /\ issued' = issued /\ issuedAt' = issuedAt /\ Confirms(q)
        /\ requests' \subseteq requests /\ responses' = responses
    BY <1>11 DEF ServeHandshake, Confirms
  <2>2. /\ \A t \in Tokens : Old(t) => Old(t)'
        /\ OldestFirst' /\ HoldsOne'
    BY <1>1, <2>1, ConfirmingSpares
  <2>3. QED
    BY <1>1, <1>2, <2>1, <2>2, AnswerKeepsLiveInv
<1>12. CASE ServeLogout(q)
  <2>1. retired' = retired /\ Keep /\ Reply(q, {}, q.cookies) /\ ~revoked'
    BY <1>12 DEF ServeLogout, Keep, Live
  <2>2. requests' \subseteq requests
    BY <2>1 DEF Reply
  <2>3. QED
    BY <1>4, <1>7, <1>8, <1>12, <2>1, <2>2, LogoutClearsOld
<1>13. QED
  BY <1>3, <1>6, <1>9, <1>10, <1>11, <1>12

------------------------
(* Every step, and the theorem. *)

\* No step brings a Session back.
LEMMA LiveBefore ==
    ASSUME CredentialInv, [Next]_vars, Live'
    PROVE  Live
<1>1. now \in Nat /\ expiresAt \in Nat
  BY DEF CredentialInv, RowOK
<1>2. CASE Serve
  <2>1. PICK q \in requests :
          \/ ServeCurrent(q) \/ ServeSuperseded(q) \/ ServeUnconfirmed(q)
          \/ ServeRefused(q) \/ ServeHandshake(q) \/ ServeLogout(q)
    BY <1>2 DEF Serve
  <2>2. ASSUME NEW t, Verdict(t) \in {"authenticated", "superseded", "unconfirmed"} PROVE Live
    BY <2>2 DEF Verdict
  <2>3. CASE ServeCurrent(q) \/ ServeSuperseded(q) \/ ServeUnconfirmed(q)
    BY <2>2, <2>3 DEF ServeCurrent, ServeSuperseded, ServeUnconfirmed
  <2>4. CASE ServeRefused(q) \/ ServeHandshake(q) \/ ServeLogout(q)
    <3>1. now' = now
      BY <1>2 DEF Serve
    <3>2. expiresAt' = expiresAt
      BY <2>4 DEF ServeRefused, ServeHandshake, ServeLogout, session
    <3>3. ~revoked' => ~revoked
      BY <2>4 DEF ServeRefused, ServeHandshake, ServeLogout, session
    <3>4. QED
      BY <3>1, <3>2, <3>3 DEF Live
  <2>5. QED
    BY <2>1, <2>3, <2>4
<1>3. CASE Tick
  BY <1>1, <1>3 DEF Tick, Live, session
<1>4. CASE Revoke
  BY <1>4 DEF Revoke, Live
<1>5. ASSUME \/ \E kind \in {"http", "socket", "logout"} : Send(kind)
             \/ \E p \in responses : Receive(p)
             \/ Lose \/ Write \/ Kill \/ UNCHANGED vars
      PROVE  UNCHANGED <<now, session>>
  BY <1>5 DEF Send, Receive, Lose, Write, Kill, vars
<1>6. CASE UNCHANGED <<now, session>>
  BY <1>6 DEF session, Live
<1>7. QED
  BY <1>2, <1>3, <1>4, <1>5, <1>6 DEF Next

\* Serving keeps the cookies under way those of issued credentials.
LEMMA ServeKeepsTypes ==
    ASSUME CredentialInv, BrowserOK, NetworkOK, Serve
    PROVE  BrowserOK' /\ NetworkOK'
<1>1. now' = now /\ UNCHANGED browser
  BY DEF Serve
<1>2. PICK q \in requests :
        \/ ServeCurrent(q) \/ ServeSuperseded(q) \/ ServeUnconfirmed(q)
        \/ ServeRefused(q) \/ ServeHandshake(q) \/ ServeLogout(q)
  BY DEF Serve
<1>3. /\ now \in Nat /\ issued \in Nat /\ current = issued /\ current \in Tokens
      /\ q.cookies \subseteq Tokens
  BY DEF CredentialInv, RowOK, BrowserOK, NetworkOK, Request
<1>4. Keep \/ Issue
  BY <1>2 DEF ServeCurrent, ServeSuperseded, ServeUnconfirmed, ServeRefused, ServeHandshake,
              ServeLogout, Keep, session
<1>5. /\ Tokens \subseteq Tokens' /\ current' = issued' /\ Times' = Times
      /\ Issue => issued + 1 \in Tokens'
  BY <1>1, <1>3, <1>4 DEF Keep, Issue, Tokens, Times
<1>6. BrowserOK'
  BY <1>1, <1>5 DEF BrowserOK, browser
<1>7. ASSUME NEW w, NEW c, w \subseteq Tokens', c \subseteq Tokens', Reply(q, w, c)
      PROVE  NetworkOK'
  <2>1. Request \subseteq Request' /\ Response \subseteq Response'
    BY <1>5 DEF Request, Response
  <2>2. requests' \subseteq requests
    BY <1>7 DEF Reply
  <2>3. ASSUME NEW p \in responses' PROVE p \in Response' /\ now - p.at <= ResponseDelay
    <3>1. CASE p \in responses
      BY <2>1, <3>1 DEF NetworkOK
    <3>2. CASE p = [written |-> w, cleared |-> c, at |-> now]
      BY <1>1, <1>3, <1>5, RotationAssumption, <1>7, <3>2 DEF Times, Response
    <3>3. QED
      BY <1>7, <2>3, <3>1, <3>2 DEF Reply
  <2>4. QED
    BY <1>1, <2>1, <2>2, <2>3 DEF NetworkOK
<1>8. CASE ServeCurrent(q)
  <2>1. \/ Issue /\ Reply(q, {issued + 1}, q.cookies)
        \/ Reply(q, IF Renewed THEN {current} ELSE {}, q.cookies \ {current})
    BY <1>8 DEF ServeCurrent
  <2>2. CASE Issue /\ Reply(q, {issued + 1}, q.cookies)
    BY <1>3, <1>5, <1>6, <1>7, <2>2
  <2>3. CASE Reply(q, IF Renewed THEN {current} ELSE {}, q.cookies \ {current})
    <3>1. (IF Renewed THEN {current} ELSE {}) \subseteq Tokens' /\ q.cookies \ {current} \subseteq Tokens'
      BY <1>3, <1>5
    <3>2. QED
      BY <1>6, <1>7, <2>3, <3>1
  <2>4. QED
    BY <2>1, <2>2, <2>3
<1>9. CASE ServeSuperseded(q) \/ ServeRefused(q) \/ ServeLogout(q)
  <2>1. {} \subseteq Tokens' /\ q.cookies \subseteq Tokens'
    BY <1>3, <1>5
  <2>2. Reply(q, {}, {}) \/ Reply(q, {}, q.cookies)
    BY <1>9 DEF ServeSuperseded, ServeRefused, ServeLogout
  <2>3. QED
    BY <1>6, <1>7, <2>1, <2>2
<1>10. CASE ServeUnconfirmed(q)
  BY <1>3, <1>5, <1>6, <1>7, <1>10 DEF ServeUnconfirmed
<1>11. CASE ServeHandshake(q)
  <2>1. Request \subseteq Request' /\ Response \subseteq Response'
    BY <1>5 DEF Request, Response
  <2>2. requests' \subseteq requests /\ responses' = responses
    BY <1>11 DEF ServeHandshake
  <2>3. QED
    BY <1>1, <1>6, <2>1, <2>2 DEF NetworkOK
<1>12. QED
  BY <1>2, <1>6, <1>8, <1>9, <1>10, <1>11

\* Steps of the browser and the network, the Session staying as it is.
LEMMA SameSession ==
    ASSUME UNCHANGED <<now, session>>
    PROVE  /\ Tokens' = Tokens /\ Times' = Times /\ Request' = Request /\ Response' = Response
           /\ now' = now /\ current' = current /\ issued' = issued /\ issuedAt' = issuedAt
           /\ Live' = Live
           /\ \A t : Old(t)' <=> Old(t)
           /\ OldestFirst' = OldestFirst
  BY DEF session, Tokens, Times, Request, Response, Live, Old, Pending, OldestFirst

LEMMA ReceiveKeeps ==
    ASSUME BrowserInv, NEW p \in responses, Receive(p)
    PROVE  BrowserOK' /\ NetworkOK' /\ (Live => LiveInv')
<1>1. UNCHANGED <<now, session>> /\ disk' = disk /\ requests' = requests
      /\ responses' = responses \ {p} /\ jar' = (jar \ p.cleared) \cup p.written
  BY DEF Receive
<1>2. /\ p.written \subseteq Tokens /\ p.cleared \subseteq Tokens /\ p.at \in Times
      /\ now - p.at <= ResponseDelay /\ now \in Nat /\ issuedAt \in Nat /\ p.at \in Nat
      /\ ResponseDelay \in Nat /\ WrittenWithin \in Nat /\ None \notin Nat
      /\ current = issued /\ issued \in Nat /\ jar \subseteq Tokens /\ disk \subseteq Tokens
  BY RotationAssumption
  DEF BrowserInv, NetworkOK, Response, CredentialInv, RowOK, BrowserOK, Times
<1>3. unwritten' = IF jar' = disk THEN None ELSE IF unwritten = None THEN now ELSE unwritten
  BY <1>1 DEF Receive
<1>4. BrowserOK'
  BY <1>1, <1>2, <1>3, SameSession DEF BrowserInv, BrowserOK, Times
<1>5. NetworkOK'
  BY <1>1, SameSession DEF BrowserInv, NetworkOK
<1>6. ASSUME Live PROVE LiveInv'
  <2>1. OldestFirst /\ HoldsOne /\ DiskFollows /\ SentInTime /\ ToldAtOnce /\ StillHeld /\ ClearsBehind
    BY <1>6 DEF BrowserInv, LiveInv
  <2>2. ASSUME NEW t \in jar, t \notin jar'
        PROVE  Old(t) \/ \E k \in jar' : k > t
    BY <1>1, <2>2, <1>2, <2>1 DEF Tokens, ClearsBehind
  <2>3. current \in jar => current \in jar'
    BY <1>2, <1>1, <2>2 DEF Tokens, Old
  <2>4. HoldsOne'
    BY <2>1, <1>1, SameSession, <2>2, <1>2 DEF HoldsOne, OldestFirst, Tokens
  <2>5. DiskFollows'
    <3>1. ASSUME current \in jar', current \notin disk
          PROVE  unwritten' # None /\ unwritten' <= issuedAt + ResponseDelay
      BY <1>3, <3>1, <2>1, <1>1, <1>2 DEF DiskFollows, ToldAtOnce, BrowserInv, BrowserOK, Times
    <3>2. QED
      BY <1>1, <2>1, <2>3, <3>1, SameSession DEF DiskFollows
  <2>6. SentInTime'
    BY <1>1, <2>1, SameSession DEF SentInTime
  <2>7. ToldAtOnce'
    BY <1>1, <2>1, <2>3, SameSession DEF ToldAtOnce
  <2>8. StillHeld'
    <3>1. ASSUME NEW q \in requests, q.awaited, NEW t \in q.cookies
          PROVE  Old(t) \/ \E k \in jar' : k >= t
      <4>1. t \in Tokens
        BY <3>1 DEF BrowserInv, NetworkOK, Request
      <4>2. Old(t) \/ \E k \in jar : k >= t
        BY <2>1, <3>1 DEF StillHeld
      <4>3. CASE \E k \in jar : k >= t
        <5>1. PICK k \in jar : k >= t
          BY <4>3
        <5>2. k \in Tokens
          BY <1>2
        <5>3. CASE k \in jar'
          BY <5>1, <5>3
        <5>4. CASE k \notin jar'
          <6>1. CASE Old(k)
            BY <2>1, <4>1, <5>1, <5>2, <6>1 DEF OldestFirst, Tokens
          <6>2. CASE \E h \in jar' : h > k
            <7>1. PICK h \in jar' : h > k
              BY <6>2
            <7>2. h \in Tokens
              BY <1>1, <1>2
            <7>3. h >= t
              BY <4>1, <5>1, <5>2, <7>1, <7>2 DEF Tokens
            <7>4. QED
              BY <7>3
          <6>3. QED
            BY <2>2, <5>4, <6>1, <6>2
        <5>5. QED
          BY <5>3, <5>4
      <4>4. QED
        BY <4>2, <4>3
    <3>2. QED
      BY <1>1, <3>1, SameSession DEF StillHeld
  <2>9. ClearsBehind'
    <3>1. ASSUME NEW r \in responses
          PROVE  \/ \A t \in r.cleared : Old(t)
                 \/ \E k \in jar' \cup r.written : \A t \in r.cleared : k > t
      <4>1. r.cleared \subseteq Tokens
        BY <3>1 DEF BrowserInv, NetworkOK, Response
      <4>2. CASE \E k \in jar \cup r.written : \A t \in r.cleared : k > t
        <5>1. PICK k \in jar \cup r.written : \A t \in r.cleared : k > t
          BY <4>2
        <5>2. CASE k \in jar' \cup r.written
          BY <5>1, <5>2
        <5>3. CASE k \in jar /\ k \notin jar'
          BY <1>2, <5>3, <2>1, <4>1, <5>1, <1>1, <2>2 DEF OldestFirst, Tokens
        <5>4. QED
          BY <5>2, <5>3
      <4>3. QED
        BY <2>1, <4>2 DEF ClearsBehind
    <3>2. QED
      BY <1>1, <3>1, SameSession DEF ClearsBehind
  <2>10. QED
    BY <2>1, <2>4, <2>5, <2>6, <2>7, <2>8, <2>9, <1>1, SameSession DEF LiveInv
<1>7. QED
  BY <1>4, <1>5, <1>6

LEMMA SendKeeps ==
    ASSUME BrowserInv, NEW kind \in {"http", "socket", "logout"}, Send(kind)
    PROVE  BrowserOK' /\ NetworkOK' /\ (Live => LiveInv')
<1> DEFINE sent == [kind |-> kind, cookies |-> jar, at |-> now, awaited |-> TRUE]
<1>1. /\ UNCHANGED <<now, session>> /\ jar' = jar /\ disk' = disk /\ unwritten' = unwritten
      /\ responses' = responses /\ requests' = requests \cup {sent}
  BY DEF Send, browser
<1>2. /\ now \in Nat /\ now \in Times /\ jar \subseteq Tokens /\ RequestDelay \in Nat
      /\ current = issued /\ current \in Tokens
  BY RotationAssumption DEF BrowserInv, CredentialInv, RowOK, BrowserOK, Times
<1>3. BrowserOK'
  BY <1>1, SameSession DEF BrowserInv, BrowserOK
<1>4. NetworkOK'
  <2>1. sent \in Request /\ now - sent.at <= RequestDelay
    BY <1>2 DEF Request
  <2>2. QED
    BY <1>1, <2>1, SameSession DEF BrowserInv, NetworkOK
<1>5. ASSUME Live PROVE LiveInv'
  <2>1. OldestFirst /\ HoldsOne /\ DiskFollows /\ SentInTime /\ ToldAtOnce /\ StillHeld /\ ClearsBehind
    BY <1>5 DEF BrowserInv, LiveInv
  <2>2. HoldsOne' /\ DiskFollows' /\ ToldAtOnce' /\ ClearsBehind'
    <3>1. HoldsOne'
      BY <1>1, <2>1, SameSession DEF HoldsOne
    <3>2. DiskFollows'
      BY <1>1, <2>1, SameSession DEF DiskFollows
    <3>3. ToldAtOnce'
      BY <1>1, <2>1, SameSession DEF ToldAtOnce
    <3>4. ClearsBehind'
      BY <1>1, <2>1, SameSession DEF ClearsBehind
    <3>5. QED
      BY <3>1, <3>2, <3>3, <3>4
  <2>3. SentInTime'
    <3>1. current \in jar => current \in disk \/ now <= issuedAt + ResponseDelay + WrittenWithin
      BY <2>1, <1>2, RotationAssumption DEF DiskFollows, BrowserInv, BrowserOK, Times, CredentialInv, RowOK
    <3>2. QED
      BY <1>1, <2>1, <3>1, SameSession DEF SentInTime
  <2>4. StillHeld'
    <3>1. \A t \in jar : t >= t
      BY <1>2 DEF Tokens
    <3>2. ASSUME NEW q \in requests', q.awaited, NEW t \in q.cookies
          PROVE  Old(t) \/ \E k \in jar : k >= t
      BY <2>1, <3>2, <3>1, <1>1 DEF StillHeld
    <3>3. QED
      BY <1>1, <3>2, SameSession DEF StillHeld
  <2>5. QED
    BY <1>1, <2>1, <2>2, <2>3, <2>4, SameSession DEF LiveInv
<1>6. QED
  BY <1>3, <1>4, <1>5

LEMMA KillKeeps ==
    ASSUME BrowserInv, Kill
    PROVE  BrowserOK' /\ NetworkOK' /\ (Live => LiveInv')
<1>1. /\ UNCHANGED <<now, session>> /\ jar' = disk /\ disk' = disk /\ unwritten' = None
      /\ responses' = {} /\ requests' = {[q EXCEPT !.awaited = FALSE] : q \in requests}
  BY DEF Kill
<1>2. ASSUME NEW r \in requests'
      PROVE  r \in Request /\ ~r.awaited
                /\ \E q \in requests : r.cookies = q.cookies /\ r.at = q.at
  BY <1>1, <1>2 DEF BrowserInv, NetworkOK, Request
<1>3. BrowserOK'
  BY <1>1, SameSession DEF BrowserInv, BrowserOK
<1>4. NetworkOK'
  BY <1>2, <1>1, SameSession DEF BrowserInv, NetworkOK
<1>5. ASSUME Live PROVE LiveInv'
  BY <1>5, <1>1, SameSession, <1>2 DEF BrowserInv, LiveInv, HoldsOne, DiskFollows, SentInTime, ToldAtOnce,
     ClearsBehind, StillHeld
<1>6. QED
  BY <1>3, <1>4, <1>5

LEMMA WriteKeeps ==
    ASSUME BrowserInv, Write
    PROVE  BrowserOK' /\ NetworkOK' /\ (Live => LiveInv')
<1>1. /\ UNCHANGED <<now, session>> /\ jar' = jar /\ disk' = jar /\ unwritten' = None
      /\ responses' = responses /\ requests' = requests
  BY DEF Write, network
<1>2. BrowserOK' /\ NetworkOK'
  BY <1>1, SameSession DEF BrowserInv, BrowserOK, NetworkOK
<1>3. ASSUME Live PROVE LiveInv'
  BY <1>3, <1>1, SameSession DEF BrowserInv, LiveInv, HoldsOne, DiskFollows, SentInTime, ToldAtOnce, StillHeld,
     ClearsBehind
<1>4. QED
  BY <1>2, <1>3

\* A lost message, or nothing at all.
LEMMA LoseKeeps ==
    ASSUME BrowserInv, Lose \/ UNCHANGED vars
    PROVE  BrowserOK' /\ NetworkOK' /\ (Live => LiveInv')
BY SameSession, AnswerKeepsLiveInv DEF Lose, vars, browser, network, BrowserInv, BrowserOK, NetworkOK, LiveInv,
   HoldsOne

LEMMA TickKeeps ==
    ASSUME BrowserInv, Tick
    PROVE  BrowserOK' /\ NetworkOK' /\ (Live => LiveInv')
<1>1. /\ now \in Nat /\ now' = now + 1 /\ UNCHANGED <<session, browser, network>>
      /\ {WrittenWithin, RequestDelay, ResponseDelay} \subseteq Nat
  BY RotationAssumption DEF Tick, BrowserInv, CredentialInv, RowOK
<1>2. /\ Tokens' = Tokens /\ Times \subseteq Times' /\ jar' = jar /\ disk' = disk
      /\ unwritten' = unwritten /\ requests' = requests /\ responses' = responses
      /\ current' = current /\ issued' = issued /\ issuedAt' = issuedAt /\ retired' = retired
  BY <1>1 DEF Tokens, Times, session, browser, network
<1>3. BrowserOK'
  BY <1>1, <1>2 DEF Tick, BrowserInv, BrowserOK, Times
<1>4. NetworkOK'
  BY <1>2, <1>1 DEF Request, Response, Tick, BrowserInv, NetworkOK, Times
<1>5. ASSUME Live PROVE LiveInv'
  BY <1>2, <1>5, <1>1, AnswerKeepsLiveInv DEF Old, Pending, BrowserInv, LiveInv, OldestFirst, HoldsOne
<1>6. QED
  BY <1>3, <1>4, <1>5

LEMMA BrowserStep ==
    ASSUME BrowserInv, QuickEnough, [Next]_vars
    PROVE  BrowserInv'
<1>1. CredentialInv /\ CredentialInv'
  BY CredentialStep DEF BrowserInv, StepInv
<1>2. Live' => Live
  BY <1>1, LiveBefore
<1>3. BrowserOK' /\ NetworkOK' /\ (Live /\ Live' => LiveInv')
  <2>1. CASE Serve
    BY <1>1, <2>1, ServeKeepsTypes, ServeKeepsLiveInv DEF BrowserInv
  <2>2. CASE Revoke
    <3>1. /\ now' = now /\ current' = current /\ issued' = issued /\ revoked'
          /\ jar' = jar /\ disk' = disk /\ unwritten' = unwritten
          /\ requests' = requests /\ responses' = responses
      BY <2>2 DEF Revoke, browser, network
    <3>2. Tokens' = Tokens /\ Times' = Times /\ Request' = Request /\ Response' = Response
      BY <3>1 DEF Tokens, Times, Request, Response
    <3>3. BrowserOK' /\ NetworkOK'
      BY <3>1, <3>2 DEF BrowserInv, BrowserOK, NetworkOK
    <3>4. ~Live'
      BY <3>1 DEF Live
    <3>5. QED
      BY <3>3, <3>4
  <2>3. CASE \E kind \in {"http", "socket", "logout"} : Send(kind)
    BY <2>3, SendKeeps
  <2>4. CASE \E p \in responses : Receive(p)
    BY <2>4, ReceiveKeeps
  <2>5. CASE Lose \/ UNCHANGED vars
    BY <2>5, LoseKeeps
  <2>6. CASE Write
    BY <2>6, WriteKeeps
  <2>7. CASE Kill
    BY <2>7, KillKeeps
  <2>8. CASE Tick
    BY <2>8, TickKeeps
  <2>9. QED
    BY <2>1, <2>2, <2>3, <2>4, <2>5, <2>6, <2>7, <2>8 DEF Next
<1>4. QED
  BY <1>1, <1>2, <1>3 DEF BrowserInv

LEMMA BrowserInit == Init => BrowserInv
<1> SUFFICES ASSUME Init PROVE BrowserInv
  OBVIOUS
<1>1. /\ current = 1 /\ issued = 1 /\ jar = {1} /\ disk = {1} /\ unwritten = None
      /\ requests = {} /\ responses = {}
  BY DEF Init
<1>2. Tokens = {1}
  BY <1>1 DEF Tokens
<1>3. BrowserOK
  BY <1>1, <1>2 DEF BrowserOK
<1>4. NetworkOK
  BY <1>1 DEF NetworkOK
<1>5. OldestFirst
  BY <1>2 DEF OldestFirst
<1>6. HoldsOne
  BY <1>1 DEF HoldsOne, Old
<1>7. DiskFollows
  BY <1>1 DEF DiskFollows
<1>8. SentInTime /\ ToldAtOnce /\ StillHeld /\ ClearsBehind
  BY <1>1 DEF SentInTime, ToldAtOnce, StillHeld, ClearsBehind
<1>9. QED
  BY <1>3, <1>4, <1>5, <1>6, <1>7, <1>8, CredentialInit DEF BrowserInv, LiveInv

\* Whatever is sent in parallel, lost, late or killed, the browser and its disk
\* keep a credential the server accepts, if a response, the write to disk and a
\* request together take less than the persistence time (authenticate,
\* recoverUnconfirmedRotation, confirmReplacementDelivery).
THEOREM SessionIsKept == ASSUME QuickEnough PROVE Spec => []BrowserKeepsItsSession
<1>1. BrowserInv /\ [Next]_vars => BrowserInv'
  BY BrowserStep
<1>2. QED
  BY <1>1, BrowserInit, InvKeepsSession, PTL DEF Spec

------------------------
(* The desktop app's updates.  What the native side holds goes with the *)
(* operation under way, a version grows newer only, and what the member *)
(* declined last stays cancelled while it is the newest; an answer that is not *)
(* stale tells what the native side is in. *)
Phases == {"idle", "checking", "current", "available", "downloading", "ready", "installing", "error"}
SettledPhases == {"idle", "current", "available", "ready", "error"}
NativeUpdates ==
    [phase : Phases, version : Nat, failed : BOOLEAN, candidate : Nat, bytes : Nat,
     handle : {"none", "armed", "fired"}, cancelled : Nat]
Operations ==
    [kind : {"none", "check", "download", "install"}, for : {"none", "card", "loop", "home", "tray"},
     prior : SettledPhases, failed : BOOLEAN, bytes : Nat]
CardPlaces ==
    {"card", "card check", "card download", "card downloading", "card install", "card prompt", "card ends"}
DriverPlaces == CardPlaces \cup {"gone", "sleep", "checking", "download", "downloading"}
Processes ==
    [runs : BOOLEAN, home : BOOLEAN, reopened : BOOLEAN, tray : BOOLEAN, declined : Nat, late : BOOLEAN]
InstallCards == [at : {"none", "waiting", "dismissing", "failed"}, installs : Nat, unwatched : BOOLEAN]
Updaters == [phase : Phases \cup {"disabled"}, version : Nat, working : BOOLEAN, asking : BOOLEAN]
Answers == [phase : Phases \cup {"none", "refused"}, version : Nat, stale : BOOLEAN]
HomeWires == [news : BOOLEAN, answers : [Commands -> Answers], overtaken : BOOLEAN]

UpdateTypes ==
    /\ release \in [offered : Nat, installed : Nat] /\ updates \in NativeUpdates
    /\ operation \in Operations /\ driver \in DriverPlaces /\ process \in Processes
    /\ installCard \in InstallCards /\ updater \in Updaters /\ homeWire \in HomeWires
    /\ tally \in [rounds : Nat, requests : Nat, starts : Nat]

\* What the native side holds, by the operation under way.
UpdateIs(u, op) ==
    /\ u.version = u.candidate
    /\ u.bytes # NoVersion => u.bytes = u.candidate
    /\ op.kind = "none" =>
           /\ op = NoOperation
           /\ u.phase \in SettledPhases /\ (u.phase = "ready" <=> u.bytes # NoVersion)
           /\ u.phase = "available" => u.candidate # NoVersion
    /\ op.kind # "none" => u.bytes = NoVersion /\ op.for # "none"
    /\ op.kind = "download" <=> u.handle # "none"
    /\ op.kind = "check" =>
           /\ u.phase = "checking" /\ op.prior # "ready"
           /\ op.prior = "available" => u.candidate # NoVersion
    /\ op.kind = "download" => u.phase \in {"downloading", "available"} /\ u.candidate # NoVersion
    /\ op.kind = "install" =>
           u.phase = "installing" /\ op.for \in {"card", "home"} /\ op.bytes = u.candidate /\ op.bytes # NoVersion

\* What the member declined, and how that stays known.
DeclinedIs(u, op, p) ==
    /\ ~p.home => p.declined = NoVersion
    /\ p.declined # NoVersion =>
           p.declined <= u.candidate /\ (p.declined = u.candidate => u.cancelled = u.candidate)
    /\ op.kind = "download" => u.candidate # p.declined \/ u.handle = "fired"
    /\ op.kind = "install" \/ u.bytes # NoVersion => u.candidate # p.declined \/ p.late

DateIs(u, r) == u.candidate # NoVersion => r.installed < u.candidate /\ u.candidate <= r.offered

\* Where the scheduled task stands, and what it holds the lease for.
TurnIs(d, op, p, u) ==
    /\ d \in CardPlaces => p.runs /\ ~p.home /\ ~p.reopened
    /\ p.runs /\ ~p.home => d \in CardPlaces
    /\ ~p.runs => d = "gone" /\ ~p.home /\ op = NoOperation /\ u = FirstUpdates
    /\ ~p.home => op.for \in {"none", "card"}
    /\ op.for = "card" => ~p.reopened
    /\ op.for = "loop" => (op.kind = "check" /\ d = "checking") \/ (op.kind = "download" /\ d = "downloading")
    /\ d = "card check" => op.kind = "check" /\ op.for = "card"
    /\ d = "card downloading" => op.kind = "download" /\ op.for = "card"
    /\ d = "card prompt" <=> op.kind = "install" /\ op.for = "card"
    /\ d \in {"card", "card download", "card install", "card ends"} => op = NoOperation

CardIs(card, p) ==
    /\ card.installs # NoVersion => ~p.runs
    /\ card.at \in {"dismissing", "failed"} => card.installs = NoVersion
    /\ card.at = "failed" => p.runs
    /\ card.at = "none" /\ ~card.unwatched => p.runs /\ card.installs = NoVersion
    /\ card.at = "waiting" => card.installs # NoVersion

\* Home works on what it asked for until it is answered.
HomeAsks(op) == op.for = "home" /\ op.kind \in {"check", "download"}
HomeWorks(h, op, answers) ==
    /\ h.working => answers["command"] # NoAnswer \/ HomeAsks(op)
    /\ HomeAsks(op) \/ answers["command"] # NoAnswer => h.working
    /\ HomeAsks(op) => answers["command"] = NoAnswer
    /\ op.kind = "install" /\ op.for = "home" => h.asking

Tells(answers, c) == answers[c].phase \notin {"none", "refused"} /\ (c = "first" => ~answers[c].stale)

AnswersAre(answers, u) ==
    /\ \A c \in Commands : answers[c].phase = "none" => answers[c] = NoAnswer
    /\ \A c \in Commands : answers[c].phase = "refused" => c = "command"
    /\ \A c \in Commands : answers[c].phase \notin {"none", "refused"} /\ ~answers[c].stale =>
           answers[c].phase = u.phase /\ answers[c].version = u.version

HomeIs(h, wire, op, u, p) ==
    /\ ~p.home => ~wire.news /\ h = FirstHome /\ \A c \in Commands : wire.answers[c] = NoAnswer
    /\ p.home /\ op.kind = "none" =>
           \/ wire.news \/ wire.overtaken \/ \E c \in Commands : Tells(wire.answers, c)
           \/ h.phase = u.phase /\ h.version = u.version

UpdatesInv ==
    /\ UpdateTypes
    /\ UpdateIs(updates, operation) /\ DeclinedIs(updates, operation, process) /\ DateIs(updates, release)
    /\ TurnIs(driver, operation, process, updates) /\ CardIs(installCard, process)
    /\ HomeWorks(updater, operation, homeWire.answers) /\ AnswersAre(homeWire.answers, updates)
    /\ HomeIs(updater, homeWire, operation, updates, process)

LEMMA UpdateConstants ==
    /\ NoOperation \in Operations /\ NoOperation.kind = "none" /\ NoOperation.for = "none"
    /\ FirstUpdates \in NativeUpdates /\ FirstUpdates.phase = "idle" /\ FirstUpdates.version = 0
    /\ FirstUpdates.candidate = 0 /\ FirstUpdates.bytes = 0 /\ FirstUpdates.handle = "none"
    /\ FirstHome \in Updaters /\ FirstHome.phase = "disabled" /\ ~FirstHome.working /\ ~FirstHome.asking
    /\ NoAnswer \in Answers /\ NoAnswer.phase = "none" /\ ~NoAnswer.stale
    /\ Refused \in Answers /\ Refused.phase = "refused"
    /\ NoWire \in HomeWires /\ ~NoWire.news /\ \A c \in Commands : NoWire.answers[c] = NoAnswer
    /\ NoVersion = 0
<1>1. NoAnswer \in Answers /\ NoAnswer.phase = "none" /\ ~NoAnswer.stale /\ NoVersion = 0
  BY DEF NoAnswer, Answers, NoVersion
<1>2. Refused \in Answers /\ Refused.phase = "refused"
  BY <1>1 DEF Answers, Refused
<1>3. NoWire \in HomeWires /\ ~NoWire.news /\ \A c \in Commands : NoWire.answers[c] = NoAnswer
  BY <1>1 DEF NoWire, HomeWires
<1>4. /\ NoOperation \in Operations /\ NoOperation.kind = "none" /\ NoOperation.for = "none"
      /\ FirstUpdates \in NativeUpdates /\ FirstUpdates.phase = "idle" /\ FirstUpdates.version = 0
      /\ FirstUpdates.candidate = 0 /\ FirstUpdates.bytes = 0 /\ FirstUpdates.handle = "none"
  BY DEF NoOperation, Operations, FirstUpdates, NativeUpdates, SettledPhases, Phases, NoVersion
<1>5. FirstHome \in Updaters /\ FirstHome.phase = "disabled" /\ ~FirstHome.working /\ ~FirstHome.asking
  BY DEF FirstHome, Updaters, NoVersion
<1> QED
  BY <1>1, <1>2, <1>3, <1>4, <1>5

LEMMA LeaseIs ==
    ASSUME NEW kind \in {"check", "download", "install"}, NEW for \in {"card", "loop", "home", "tray"}
    PROVE  Lease(kind, for) \in Operations /\ Lease(kind, for).kind = kind /\ Lease(kind, for).for = for
BY UpdateConstants DEF Operations, Lease

LEMMA StartedIs ==
    ASSUME NEW reopened \in BOOLEAN, NEW shows \in BOOLEAN
    PROVE  LET p == Start(reopened, shows) IN
           /\ p \in Processes /\ p.runs /\ (p.home <=> ~shows) /\ (p.reopened <=> reopened) /\ p.declined = 0
           /\ NotRunning \in Processes /\ ~NotRunning.runs /\ ~NotRunning.home /\ NotRunning.declined = 0
<1>1. TRUE \in BOOLEAN /\ FALSE \in BOOLEAN /\ (~shows) \in BOOLEAN
  OBVIOUS
<1>2. Start(reopened, shows) \in Processes /\ Start(reopened, shows).declined = 0
  BY <1>1 DEF Start, Processes, NoVersion
<1>3. Start(reopened, shows).runs /\ (Start(reopened, shows).home <=> ~shows) /\ (Start(reopened, shows).reopened <=> reopened)
  BY DEF Start
<1>4. Start(FALSE, TRUE) \in Processes /\ ~Start(FALSE, TRUE).home /\ Start(FALSE, TRUE).declined = 0
  BY <1>1 DEF Start, Processes, NoVersion
<1>5. \A p \in Processes : \A x \in BOOLEAN :
          /\ [p EXCEPT !.runs = x] \in Processes /\ ([p EXCEPT !.runs = x].runs <=> x)
          /\ ([p EXCEPT !.runs = x].home <=> p.home) /\ [p EXCEPT !.runs = x].declined = p.declined
  BY DEF Processes
<1>6. NotRunning \in Processes /\ ~NotRunning.runs /\ ~NotRunning.home /\ NotRunning.declined = 0
  BY <1>1, <1>4, <1>5 DEF NotRunning
<1> QED
  BY <1>2, <1>3, <1>6

LEMMA SnapshotTells ==
    ASSUME NEW u \in NativeUpdates
    PROVE  /\ Snapshot(u) \in Answers /\ Snapshot(u).phase = u.phase /\ Snapshot(u).version = u.version
           /\ ~Snapshot(u).stale /\ Snapshot(u) # NoAnswer /\ u.phase \notin {"none", "refused"}
<1>1. u.phase \in Phases /\ u.version \in Nat /\ u.phase \notin {"none", "refused"}
  BY DEF NativeUpdates, Phases
<1>3. PICK a \in Answers : a = NoAnswer /\ ~a.stale /\ a.phase = "none"
  BY UpdateConstants
<1>4. Snapshot(u) = [a EXCEPT !.phase = u.phase, !.version = u.version]
  BY <1>3 DEF Snapshot
<1> DEFINE s == [a EXCEPT !.phase = u.phase, !.version = u.version]
<1>5. s \in Answers /\ s.phase = u.phase /\ s.version = u.version /\ (s.stale <=> a.stale)
  BY <1>1 DEF Answers
<1> HIDE DEF s
<1>6. s = Snapshot(u)
  BY <1>4 DEF s
<1> QED
  BY <1>1, <1>3, <1>5, <1>6

\* An answer on its way.
LEMMA AnsweredIs ==
    ASSUME NEW wire \in HomeWires, NEW c \in Commands, NEW answer \in Answers
    PROVE  LET w == Answered(wire, c, answer) IN
           /\ w \in HomeWires /\ (w.news <=> wire.news) /\ (w.overtaken <=> wire.overtaken)
           /\ w.answers[c] = answer
           /\ \A d \in Commands : d # c => w.answers[d] = wire.answers[d]
<1> DEFINE answers == [wire.answers EXCEPT ![c] = answer]
           w == [wire EXCEPT !.answers = answers]
<1>1. answers \in [Commands -> Answers] /\ answers[c] = answer
      /\ \A d \in Commands : d # c => answers[d] = wire.answers[d]
  BY DEF HomeWires
<1>2. Answered(wire, c, answer) = w
  BY DEF Answered, HomeWires
<1> HIDE DEF answers
<1>3. w \in HomeWires /\ w.answers = answers /\ (w.news <=> wire.news) /\ (w.overtaken <=> wire.overtaken)
  BY <1>1 DEF HomeWires
<1> QED
  BY <1>1, <1>2, <1>3

\* What is published makes every answer under way an older one.
LEMMA PublishedIs ==
    ASSUME NEW wire \in HomeWires, process.home \in BOOLEAN
    PROVE  LET w == Published(wire) IN
           /\ w \in HomeWires /\ (w.news <=> process.home) /\ (w.overtaken <=> wire.overtaken)
           /\ \A c \in Commands :
                  /\ w.answers[c].phase = wire.answers[c].phase
                  /\ wire.answers[c] = NoAnswer => w.answers[c] = NoAnswer
                  /\ wire.answers[c] # NoAnswer => w.answers[c].stale
<1> DEFINE Older(c) == [wire.answers[c] EXCEPT !.stale = wire.answers[c] # NoAnswer]
           answers == [c \in Commands |-> Older(c)]
           w == [wire EXCEPT !.news = process.home, !.answers = answers]
<1>1. ASSUME NEW c \in Commands
      PROVE  /\ Older(c) \in Answers /\ Older(c).phase = wire.answers[c].phase
             /\ wire.answers[c] = NoAnswer => Older(c) = NoAnswer
             /\ wire.answers[c] # NoAnswer => Older(c).stale
  <2>1. PICK a \in Answers : a = wire.answers[c]
    BY DEF HomeWires
  <2>2. PICK stale \in BOOLEAN : stale = (a # NoAnswer)
    OBVIOUS
  <2>3. Older(c) = [a EXCEPT !.stale = stale]
    BY <2>1, <2>2
  <2>4. [a EXCEPT !.stale = stale] \in Answers /\ [a EXCEPT !.stale = stale].phase = a.phase
        /\ ([a EXCEPT !.stale = stale].stale <=> stale)
    BY DEF Answers
  <2>5. a = NoAnswer => [a EXCEPT !.stale = stale] = NoAnswer
    BY <2>2, UpdateConstants DEF Answers
  <2> HIDE DEF Older
  <2> QED
    BY <2>1, <2>2, <2>3, <2>4, <2>5
<1> HIDE DEF Older
<1>2. answers \in [Commands -> Answers] /\ \A c \in Commands : answers[c] = Older(c)
  BY <1>1
<1>3. Published(wire) = w
  BY DEF Published, Older
<1> HIDE DEF answers
<1>4. w \in HomeWires /\ w.answers = answers /\ (w.news <=> process.home) /\ (w.overtaken <=> wire.overtaken)
  BY <1>2 DEF HomeWires
<1> QED
  BY <1>1, <1>2, <1>3, <1>4

\* The state after a step, in one place.
LEMMA UpdatesStep ==
    ASSUME NEW r, NEW u, NEW op, NEW d, NEW p, NEW card, NEW h, NEW w,
           r \in [offered : Nat, installed : Nat], u \in NativeUpdates, op \in Operations, d \in DriverPlaces,
           p \in Processes, card \in InstallCards, h \in Updaters, w \in HomeWires,
           tally' \in [rounds : Nat, requests : Nat, starts : Nat],
           release' = r, updates' = u, operation' = op, driver' = d, process' = p, installCard' = card,
           updater' = h, homeWire' = w,
           UpdateIs(u, op), DeclinedIs(u, op, p), DateIs(u, r), TurnIs(d, op, p, u), CardIs(card, p),
           HomeWorks(h, op, w.answers), AnswersAre(w.answers, u), HomeIs(h, w, op, u, p)
    PROVE  UpdatesInv'
<1>1. UpdateTypes'
  BY DEF UpdateTypes
<1>2. UpdateIs(updates, operation)' /\ DeclinedIs(updates, operation, process)' /\ DateIs(updates, release)'
  BY DEF UpdateIs, DeclinedIs, DateIs
<1>3. TurnIs(driver, operation, process, updates)' /\ CardIs(installCard, process)'
  BY DEF TurnIs, CardIs
<1>4. HomeWorks(updater, operation, homeWire.answers)' /\ AnswersAre(homeWire.answers, updates)'
  BY DEF HomeWorks, AnswersAre, HomeAsks
<1>5. HomeIs(updater, homeWire, operation, updates, process)'
  BY DEF HomeIs, Tells
<1> QED
  BY <1>1, <1>2, <1>3, <1>4, <1>5 DEF UpdatesInv

\* A home that is told the state anew, by what is published or by an answer.
LEMMA NewsTell ==
    ASSUME NEW wire \in HomeWires, NEW u, AnswersAre(wire.answers, u), process.home \in BOOLEAN, NEW v
    PROVE  LET w == Published(wire) IN
           /\ AnswersAre(w.answers, v) /\ (process.home => w.news)
           /\ w.answers["command"] = NoAnswer <=> wire.answers["command"] = NoAnswer
<1> DEFINE w == Published(wire)
<1>1. /\ w \in HomeWires /\ (w.news <=> process.home)
      /\ \A c \in Commands :
             /\ w.answers[c].phase = wire.answers[c].phase
             /\ wire.answers[c] = NoAnswer => w.answers[c] = NoAnswer
             /\ wire.answers[c] # NoAnswer => w.answers[c].stale
  BY PublishedIs
<1> HIDE DEF w
<1>2. \A c \in Commands : w.answers[c] = NoAnswer <=> wire.answers[c] = NoAnswer
  BY <1>1, UpdateConstants DEF AnswersAre
<1>3. AnswersAre(w.answers, v)
  BY <1>1, <1>2, UpdateConstants DEF AnswersAre
<1>4. "command" \in Commands
  BY DEF Commands
<1> QED
  BY <1>1, <1>2, <1>3, <1>4 DEF w

LEMMA AnswersTell ==
    ASSUME NEW wire \in HomeWires, NEW u \in NativeUpdates, AnswersAre(wire.answers, u), NEW c \in Commands
    PROVE  LET w == Answered(wire, c, Snapshot(u)) IN
           /\ AnswersAre(w.answers, u) /\ Tells(w.answers, c) /\ w.answers[c] # NoAnswer
           /\ \A d \in Commands : d # c => w.answers[d] = wire.answers[d]
<1> DEFINE w == Answered(wire, c, Snapshot(u))
<1>1. /\ Snapshot(u) \in Answers /\ Snapshot(u).phase = u.phase /\ Snapshot(u).version = u.version
      /\ ~Snapshot(u).stale /\ Snapshot(u) # NoAnswer /\ u.phase \notin {"none", "refused"}
  BY SnapshotTells
<1>2. w.answers[c] = Snapshot(u) /\ \A d \in Commands : d # c => w.answers[d] = wire.answers[d]
  BY <1>1, AnsweredIs
<1> HIDE DEF w
<1>3. AnswersAre(w.answers, u)
  BY <1>1, <1>2 DEF AnswersAre
<1>4. Tells(w.answers, c)
  BY <1>1, <1>2 DEF Tells
<1> QED
  BY <1>1, <1>2, <1>3, <1>4 DEF w

LEMMA UpdatesAreTyped ==
    ASSUME UpdatesInv
    PROVE  /\ release \in [offered : Nat, installed : Nat] /\ updates \in NativeUpdates
           /\ operation \in Operations /\ driver \in DriverPlaces /\ process \in Processes
           /\ installCard \in InstallCards /\ updater \in Updaters /\ homeWire \in HomeWires
           /\ tally \in [rounds : Nat, requests : Nat, starts : Nat]
           /\ process.home \in BOOLEAN /\ homeWire.answers \in [Commands -> Answers]
           /\ UpdateIs(updates, operation) /\ DeclinedIs(updates, operation, process) /\ DateIs(updates, release)
           /\ TurnIs(driver, operation, process, updates) /\ CardIs(installCard, process)
           /\ HomeWorks(updater, operation, homeWire.answers) /\ AnswersAre(homeWire.answers, updates)
           /\ HomeIs(updater, homeWire, operation, updates, process)
           /\ TRUE \in BOOLEAN /\ FALSE \in BOOLEAN
           /\ "command" \in Commands /\ "first" \in Commands /\ "cancel" \in Commands /\ "read" \in Commands
BY DEF UpdatesInv, UpdateTypes, Processes, HomeWires, Commands

\* A check begins.
LEMMA CheckBegins ==
    ASSUME UpdatesInv, NEW for \in {"card", "loop", "home", "tray"}, BeginCheck(for)
    PROVE  \E u \in NativeUpdates, op \in Operations :
               /\ updates' = u /\ operation' = op
               /\ op.kind = "check" /\ op.for = for /\ u.phase = "checking"
               /\ UpdateIs(u, op) /\ DeclinedIs(u, op, process) /\ DateIs(u, release)
<1>1. /\ updates \in NativeUpdates /\ operation \in Operations /\ UpdateIs(updates, operation)
      /\ DeclinedIs(updates, operation, process) /\ DateIs(updates, release) /\ FALSE \in BOOLEAN
  BY UpdatesAreTyped
<1>2. operation = NoOperation /\ operation.kind = "none" /\ updates.bytes = NoVersion /\ updates.phase \in SettledPhases
  BY <1>1, UpdateConstants DEF BeginCheck, UpdateIs
<1> DEFINE u == [updates EXCEPT !.phase = "checking", !.failed = FALSE]
           lease == Lease("check", for)
           op == [lease EXCEPT !.prior = updates.phase, !.failed = updates.failed]
<1>3. /\ u \in NativeUpdates /\ u.phase = "checking" /\ u.version = updates.version /\ u.bytes = updates.bytes
      /\ u.candidate = updates.candidate /\ u.handle = updates.handle /\ u.cancelled = updates.cancelled
  BY <1>1 DEF NativeUpdates, Phases
<1>4. lease \in Operations /\ lease.kind = "check" /\ lease.for = for
  BY LeaseIs
<1>5. updates' = u /\ operation' = op
  BY DEF BeginCheck
<1> HIDE DEF u, lease
<1>6. op \in Operations /\ op.kind = "check" /\ op.for = for /\ op.prior = updates.phase
  BY <1>1, <1>2, <1>4 DEF NativeUpdates, Operations
<1> HIDE DEF op
<1>7. UpdateIs(u, op)
  BY <1>1, <1>2, <1>3, <1>6 DEF UpdateIs
<1>8. DeclinedIs(u, op, process) /\ DateIs(u, release)
  BY <1>1, <1>2, <1>3, <1>6 DEF DeclinedIs, DateIs
<1> QED
  BY <1>3, <1>5, <1>6, <1>7, <1>8

\* A download begins: of what the member has not declined, or asks for now.
LEMMA DownloadBegins ==
    ASSUME UpdatesInv, NEW for \in {"card", "loop", "home"}, BeginDownload(for),
           NEW p \in Processes, ~p.home => p.declined = 0, p.late = process.late,
           p.declined = 0 \/ (p.declined = process.declined /\ process.declined # updates.candidate)
    PROVE  \E u \in NativeUpdates, op \in Operations :
               /\ updates' = u /\ operation' = op
               /\ op.kind = "download" /\ op.for = for /\ u.phase = "downloading"
               /\ UpdateIs(u, op) /\ DeclinedIs(u, op, p) /\ DateIs(u, release)
<1>1. /\ updates \in NativeUpdates /\ operation \in Operations /\ UpdateIs(updates, operation)
      /\ DeclinedIs(updates, operation, process) /\ DateIs(updates, release) /\ FALSE \in BOOLEAN
      /\ NoVersion = 0
  BY UpdatesAreTyped, UpdateConstants
<1>2. operation = NoOperation /\ operation.kind = "none" /\ updates.bytes = NoVersion /\ updates.candidate # NoVersion
  BY <1>1, UpdateConstants DEF BeginDownload
<1> DEFINE u == [updates EXCEPT !.cancelled = NoVersion, !.handle = "armed", !.phase = "downloading", !.failed = FALSE]
           op == Lease("download", for)
<1>3. /\ u \in NativeUpdates /\ u.phase = "downloading" /\ u.version = updates.version /\ u.bytes = updates.bytes
      /\ u.candidate = updates.candidate /\ u.handle = "armed"
  BY <1>1 DEF NativeUpdates, Phases
<1>4. op \in Operations /\ op.kind = "download" /\ op.for = for
  BY LeaseIs
<1>5. updates' = u /\ operation' = op
  BY DEF BeginDownload
<1> HIDE DEF u, op
<1>7. UpdateIs(u, op)
  BY <1>1, <1>2, <1>3, <1>4 DEF UpdateIs
<1>8. DateIs(u, release)
  BY <1>1, <1>3 DEF DateIs
<1>9. DeclinedIs(u, op, p)
  BY <1>1, <1>2, <1>3, <1>4 DEF DeclinedIs
<1> QED
  BY <1>3, <1>4, <1>5, <1>7, <1>8, <1>9

\* An install takes the verified bytes.
LEMMA InstallBegins ==
    ASSUME UpdatesInv, NEW for \in {"card", "home"}, BeginInstall(for)
    PROVE  \E u \in NativeUpdates, op \in Operations :
               /\ updates' = u /\ operation' = op
               /\ op.kind = "install" /\ op.for = for /\ u.phase = "installing"
               /\ UpdateIs(u, op) /\ DeclinedIs(u, op, process) /\ DateIs(u, release)
<1>1. /\ updates \in NativeUpdates /\ operation \in Operations /\ UpdateIs(updates, operation)
      /\ DeclinedIs(updates, operation, process) /\ DateIs(updates, release) /\ NoVersion = 0 /\ NoVersion \in Nat
  BY UpdatesAreTyped, UpdateConstants
<1>2. operation = NoOperation /\ operation.kind = "none" /\ updates.bytes # NoVersion /\ updates.bytes = updates.candidate
      /\ updates.handle = "none" /\ updates.bytes \in Nat
  BY <1>1, UpdateConstants DEF BeginInstall, UpdateIs, NativeUpdates
<1> DEFINE u == [updates EXCEPT !.bytes = NoVersion, !.phase = "installing"]
           lease == Lease("install", for)
           op == [lease EXCEPT !.bytes = updates.bytes]
<1>3. /\ u \in NativeUpdates /\ u.phase = "installing" /\ u.version = updates.version /\ u.bytes = NoVersion
      /\ u.candidate = updates.candidate /\ u.handle = updates.handle /\ u.cancelled = updates.cancelled
  BY <1>1 DEF NativeUpdates, Phases
<1>4. lease \in Operations /\ lease.kind = "install" /\ lease.for = for
  BY LeaseIs
<1>5. updates' = u /\ operation' = op
  BY DEF BeginInstall
<1> HIDE DEF u, lease
<1>6. op \in Operations /\ op.kind = "install" /\ op.for = for /\ op.bytes = updates.bytes
  BY <1>2, <1>4 DEF Operations
<1> HIDE DEF op
<1>7. UpdateIs(u, op)
  BY <1>1, <1>2, <1>3, <1>6 DEF UpdateIs
<1>8. DeclinedIs(u, op, process) /\ DateIs(u, release)
  BY <1>1, <1>2, <1>3, <1>6 DEF DeclinedIs, DateIs
<1> QED
  BY <1>3, <1>5, <1>6, <1>7, <1>8

\* Before Home is there nothing is told, and nobody waits.
LEMMA QuietHome ==
    ASSUME UpdatesInv, ~process.home, NEW u, NEW op, op.for \in {"none", "card"}, NEW p, ~p.home
    PROVE  /\ HomeWorks(updater, op, homeWire.answers) /\ AnswersAre(homeWire.answers, u)
           /\ HomeIs(updater, homeWire, op, u, p)
BY UpdatesAreTyped, UpdateConstants DEF HomeIs, HomeWorks, HomeAsks, AnswersAre

LEMMA CardLaunches == ASSUME UpdatesInv, LaunchCard \/ InstallAtLaunch PROVE UpdatesInv'
<1>c. PICK r, u, op, d, p, card, h, w :
          /\ r = release' /\ u = updates' /\ op = operation' /\ d = driver' /\ p = process' /\ card = installCard'
          /\ h = updater' /\ w = homeWire'
  OBVIOUS
<1>1. /\ UNCHANGED <<release, process, installCard, updater, homeWire, tally>>
      /\ driver \in CardPlaces
      /\ \/ driver = "card" /\ driver' = "card check" /\ BeginCheck("card")
         \/ driver = "card download" /\ driver' = "card downloading" /\ BeginDownload("card")
         \/ driver = "card install" /\ driver' = "card prompt" /\ BeginInstall("card")
  BY DEF LaunchCard, InstallAtLaunch, CardTurns, CardPlaces
<1>2. r = release /\ p = process /\ card = installCard /\ h = updater /\ w = homeWire
  BY <1>1, <1>c
<1>3. /\ r \in [offered : Nat, installed : Nat] /\ p \in Processes /\ card \in InstallCards /\ h \in Updaters
      /\ w \in HomeWires /\ tally' \in [rounds : Nat, requests : Nat, starts : Nat] /\ CardIs(card, p)
      /\ d \in DriverPlaces
  BY <1>1, <1>2, <1>c, UpdatesAreTyped DEF DriverPlaces, CardPlaces
<1>4. process.runs /\ ~process.home /\ ~process.reopened /\ TurnIs(driver, operation, process, updates)
  BY <1>1, UpdatesAreTyped DEF TurnIs
<1>5. /\ u \in NativeUpdates /\ op \in Operations /\ UpdateIs(u, op) /\ DeclinedIs(u, op, p) /\ DateIs(u, r)
      /\ op.for = "card"
      /\ \/ driver = "card" /\ d = "card check" /\ op.kind = "check"
         \/ driver = "card download" /\ d = "card downloading" /\ op.kind = "download"
         \/ driver = "card install" /\ d = "card prompt" /\ op.kind = "install"
  <2>1. CASE driver = "card" /\ driver' = "card check" /\ BeginCheck("card")
    BY <2>1, <1>2, <1>c, CheckBegins
  <2>2. CASE driver = "card download" /\ driver' = "card downloading" /\ BeginDownload("card")
    <3>1. process \in Processes /\ (~process.home => process.declined = 0) /\ process.declined = 0
      BY <1>4, UpdatesAreTyped, UpdateConstants DEF DeclinedIs
    <3>2. \E v \in NativeUpdates, o \in Operations :
               /\ updates' = v /\ operation' = o
               /\ o.kind = "download" /\ o.for = "card" /\ v.phase = "downloading"
               /\ UpdateIs(v, o) /\ DeclinedIs(v, o, p) /\ DateIs(v, release)
      BY <2>2, <3>1, <1>2, DownloadBegins
    <3> QED
      BY <2>2, <3>2, <1>2, <1>c
  <2>3. CASE driver = "card install" /\ driver' = "card prompt" /\ BeginInstall("card")
    BY <2>3, <1>2, <1>c, InstallBegins
  <2> QED
    BY <1>1, <2>1, <2>2, <2>3
<1>6. TurnIs(d, op, p, u)
  BY <1>2, <1>4, <1>5 DEF TurnIs, CardPlaces
<1>7. HomeWorks(h, op, w.answers) /\ AnswersAre(w.answers, u) /\ HomeIs(h, w, op, u, p)
  <2>1. ~process.home /\ op.for \in {"none", "card"} /\ ~p.home
    BY <1>2, <1>4, <1>5
  <2> QED
    BY <1>2, <2>1, QuietHome
<1> QED
  BY <1>c, <1>3, <1>5, <1>6, <1>7, UpdatesStep

LEMMA TaskWakesUp == ASSUME UpdatesInv, WakeUp PROVE UpdatesInv'
<1>c. PICK r, u, op, d, p, card, h, w :
          /\ r = release' /\ u = updates' /\ op = operation' /\ d = driver' /\ p = process' /\ card = installCard'
          /\ h = updater' /\ w = homeWire'
  OBVIOUS
<1>1. /\ r = release /\ p = process /\ card = installCard /\ h = updater /\ w = Published(homeWire)
      /\ d = "checking" /\ driver = "sleep" /\ BeginCheck("loop") /\ process.runs
  BY <1>c DEF WakeUp
<1>2. tally' \in [rounds : Nat, requests : Nat, starts : Nat]
  BY UpdatesAreTyped DEF WakeUp
<1>3. /\ u \in NativeUpdates /\ op \in Operations /\ op.kind = "check" /\ op.for = "loop"
      /\ UpdateIs(u, op) /\ DeclinedIs(u, op, p) /\ DateIs(u, r)
  BY <1>1, <1>c, CheckBegins
<1>4. /\ homeWire \in HomeWires /\ AnswersAre(homeWire.answers, updates) /\ process.home \in BOOLEAN
      /\ TurnIs(driver, operation, process, updates) /\ HomeWorks(updater, operation, homeWire.answers)
      /\ HomeIs(updater, homeWire, operation, updates, process)
      /\ operation = NoOperation
  BY UpdatesAreTyped, <1>1 DEF BeginCheck
<1>5. process.home
  BY <1>1, <1>4 DEF TurnIs, CardPlaces
<1>6. w \in HomeWires /\ AnswersAre(w.answers, u) /\ w.news
      /\ (w.answers["command"] = NoAnswer <=> homeWire.answers["command"] = NoAnswer)
  BY <1>1, <1>4, <1>5, PublishedIs, NewsTell
<1>7. HomeWorks(h, op, w.answers)
  BY <1>1, <1>3, <1>4, <1>6, UpdateConstants DEF HomeWorks, HomeAsks
<1>8. HomeIs(h, w, op, u, p)
  BY <1>1, <1>5, <1>6 DEF HomeIs
<1>9. TurnIs(d, op, p, u)
  BY <1>1, <1>3, <1>5 DEF TurnIs, CardPlaces
<1>10. /\ r \in [offered : Nat, installed : Nat] /\ p \in Processes /\ card \in InstallCards /\ h \in Updaters
       /\ CardIs(card, p) /\ d \in DriverPlaces
  BY <1>1, UpdatesAreTyped DEF DriverPlaces
<1> QED
  BY <1>c, <1>2, <1>3, <1>6, <1>7, <1>8, <1>9, <1>10, UpdatesStep

\* Neither what the member declined is downloaded in the background, nor what is there.
LEMMA TaskDownloads == ASSUME UpdatesInv, DownloadInBackground PROVE UpdatesInv'
<1>c. PICK r, u, op, d, p, card, h, w :
          /\ r = release' /\ u = updates' /\ op = operation' /\ d = driver' /\ p = process' /\ card = installCard'
          /\ h = updater' /\ w = homeWire'
  OBVIOUS
<1>1. /\ r = release /\ p = process /\ card = installCard /\ h = updater /\ driver = "download" /\ tally' = tally
      /\ \/ /\ BackgroundDownloadAllowed(updates) /\ BeginDownload("loop")
            /\ d = "downloading" /\ w = Published(homeWire)
         \/ d = "sleep" /\ op = operation /\ u = updates /\ w = homeWire
  BY <1>c DEF DownloadInBackground
<1>4. /\ homeWire \in HomeWires /\ AnswersAre(homeWire.answers, updates) /\ process.home \in BOOLEAN
      /\ TurnIs(driver, operation, process, updates) /\ HomeWorks(updater, operation, homeWire.answers)
      /\ HomeIs(updater, homeWire, operation, updates, process) /\ UpdateIs(updates, operation)
      /\ DeclinedIs(updates, operation, process)
  BY UpdatesAreTyped
<1>5. process.home /\ process.runs
  BY <1>1, <1>4 DEF TurnIs, CardPlaces
<1>6. /\ r \in [offered : Nat, installed : Nat] /\ p \in Processes /\ card \in InstallCards /\ h \in Updaters
      /\ CardIs(card, p) /\ d \in DriverPlaces /\ tally' \in [rounds : Nat, requests : Nat, starts : Nat]
  BY <1>1, UpdatesAreTyped DEF DriverPlaces
<1>7. CASE BackgroundDownloadAllowed(updates) /\ BeginDownload("loop") /\ d = "downloading" /\ w = Published(homeWire)
  <2>1. process.declined # updates.candidate
    BY <1>7, <1>4 DEF BeginDownload, BackgroundDownloadAllowed, UpdateIs, DeclinedIs
  <2>2. process \in Processes /\ (~process.home => process.declined = 0)
    BY <1>5, UpdatesAreTyped
  <2>3. \E v \in NativeUpdates, o \in Operations :
               /\ updates' = v /\ operation' = o
               /\ o.kind = "download" /\ o.for = "loop" /\ v.phase = "downloading"
               /\ UpdateIs(v, o) /\ DeclinedIs(v, o, process) /\ DateIs(v, release)
    BY <1>7, <2>1, <2>2, DownloadBegins
  <2>4. /\ u \in NativeUpdates /\ op \in Operations /\ op.kind = "download" /\ op.for = "loop"
        /\ UpdateIs(u, op) /\ DeclinedIs(u, op, p) /\ DateIs(u, r) /\ operation = NoOperation
    BY <2>3, <1>1, <1>7, <1>c DEF BeginDownload
  <2>5. w \in HomeWires /\ AnswersAre(w.answers, u) /\ w.news
        /\ (w.answers["command"] = NoAnswer <=> homeWire.answers["command"] = NoAnswer)
    BY <1>4, <1>5, <1>7, PublishedIs, NewsTell
  <2>6. HomeWorks(h, op, w.answers)
    BY <1>1, <1>4, <2>4, <2>5, UpdateConstants DEF HomeWorks, HomeAsks
  <2>7. HomeIs(h, w, op, u, p)
    BY <1>1, <1>5, <2>5 DEF HomeIs
  <2>8. TurnIs(d, op, p, u)
    BY <1>1, <1>5, <1>7, <2>4 DEF TurnIs, CardPlaces
  <2> QED
    BY <1>c, <1>6, <2>4, <2>5, <2>6, <2>7, <2>8, UpdatesStep
<1>8. CASE d = "sleep" /\ op = operation /\ u = updates /\ w = homeWire
  <2>1. /\ u \in NativeUpdates /\ op \in Operations /\ UpdateIs(u, op) /\ DeclinedIs(u, op, p) /\ DateIs(u, r)
        /\ w \in HomeWires /\ AnswersAre(w.answers, u) /\ HomeWorks(h, op, w.answers) /\ HomeIs(h, w, op, u, p)
    BY <1>1, <1>8, UpdatesAreTyped
  <2>2. TurnIs(d, op, p, u)
    BY <1>1, <1>4, <1>5, <1>8 DEF TurnIs, CardPlaces
  <2> QED
    BY <1>c, <1>6, <2>1, <2>2, UpdatesStep
<1> QED
  BY <1>1, <1>7, <1>8

LEMMA HomeOpens == ASSUME UpdatesInv, OpenHome PROVE UpdatesInv'
<1>c. PICK r, u, op, d, p, card, h, w :
          /\ r = release' /\ u = updates' /\ op = operation' /\ d = driver' /\ p = process' /\ card = installCard'
          /\ h = updater' /\ w = homeWire'
  OBVIOUS
<1> DEFINE checks == process.tray /\ CheckNeeded /\ operation = NoOperation
           wire == [homeWire EXCEPT !.news = checks]
<1>1. /\ r = release /\ card = installCard /\ h = updater /\ d = "sleep" /\ tally' = tally
      /\ driver \in {"card check", "card downloading", "card ends"} /\ driver \in CardPlaces
      /\ p = [process EXCEPT !.home = TRUE, !.tray = FALSE]
      /\ IF checks THEN BeginCheck("tray") ELSE u = updates /\ op = operation
      /\ w = Answered(wire, "first", Snapshot(u))
  BY <1>c DEF OpenHome, CardPlaces
<1> HIDE DEF checks
<1>2. /\ homeWire \in HomeWires /\ process \in Processes
      /\ TurnIs(driver, operation, process, updates) /\ HomeWorks(updater, operation, homeWire.answers)
      /\ HomeIs(updater, homeWire, operation, updates, process) /\ UpdateIs(updates, operation)
      /\ DeclinedIs(updates, operation, process) /\ DateIs(updates, release) /\ TRUE \in BOOLEAN /\ FALSE \in BOOLEAN
      /\ CardIs(installCard, process)
      /\ "command" \in Commands /\ "first" \in Commands /\ "command" # "first" /\ updater \in Updaters
  BY UpdatesAreTyped
<1>3. process.runs /\ ~process.home /\ ~process.reopened /\ operation.for \in {"none", "card"}
      /\ ~(operation.kind = "install" /\ operation.for = "card")
  BY <1>1, <1>2 DEF TurnIs
<1>4. /\ p \in Processes /\ p.runs /\ p.home /\ ~p.reopened /\ p.declined = process.declined /\ p.late = process.late
  BY <1>1, <1>2, <1>3 DEF Processes
<1>5. /\ u \in NativeUpdates /\ op \in Operations /\ UpdateIs(u, op) /\ DeclinedIs(u, op, process) /\ DateIs(u, r)
      /\ (op = operation /\ u = updates) \/ (op.kind = "check" /\ op.for = "tray" /\ u.phase = "checking")
  BY <1>1, CheckBegins, <1>c, UpdatesAreTyped
<1>6. DeclinedIs(u, op, p)
  BY <1>3, <1>4, <1>5 DEF DeclinedIs
<1>7. TurnIs(d, op, p, u)
  BY <1>1, <1>2, <1>3, <1>4, <1>5 DEF TurnIs, CardPlaces
<1>8. /\ \A c \in Commands : homeWire.answers[c] = NoAnswer
      /\ updater = FirstHome
  BY <1>2, <1>3 DEF HomeIs
<1>9. wire \in HomeWires /\ wire.answers = homeWire.answers
  BY <1>2 DEF checks, Processes, HomeWires
<1> HIDE DEF wire
<1>10. AnswersAre(wire.answers, u)
  BY <1>8, <1>9, UpdateConstants DEF AnswersAre
<1>11. /\ AnswersAre(w.answers, u) /\ Tells(w.answers, "first") /\ w.answers["command"] = NoAnswer
  <2>1. /\ wire \in HomeWires /\ u \in NativeUpdates /\ AnswersAre(wire.answers, u) /\ "first" \in Commands
    BY <1>2, <1>5, <1>9, <1>10
  <2>2. /\ AnswersAre(w.answers, u) /\ Tells(w.answers, "first")
        /\ \A e \in Commands : e # "first" => w.answers[e] = wire.answers[e]
    BY <1>1, <2>1, AnswersTell
  <2> QED
    BY <1>2, <1>8, <1>9, <2>2
<1>12. w \in HomeWires
  <2>1. Snapshot(u) \in Answers
    BY <1>5, SnapshotTells
  <2> QED
    BY <1>1, <1>2, <1>9, <2>1, AnsweredIs
<1>13. HomeWorks(h, op, w.answers)
  BY <1>1, <1>2, <1>3, <1>5, <1>8, <1>11, UpdateConstants DEF HomeWorks, HomeAsks
<1>14. HomeIs(h, w, op, u, p)
  BY <1>2, <1>4, <1>11 DEF HomeIs
<1>15. /\ r \in [offered : Nat, installed : Nat] /\ card \in InstallCards /\ h \in Updaters
       /\ CardIs(card, p) /\ d \in DriverPlaces /\ tally' \in [rounds : Nat, requests : Nat, starts : Nat]
  BY <1>1, <1>2, <1>3, <1>4, UpdatesAreTyped DEF CardIs, DriverPlaces
<1> QED
  BY <1>c, <1>4, <1>5, <1>6, <1>7, <1>11, <1>12, <1>13, <1>14, <1>15, UpdatesStep

\* What Home is told once the operation it may have asked for is over.
LEMMA SettlingTells ==
    ASSUME UpdatesInv, operation.kind # "install", NEW u \in NativeUpdates,
           NEW w, w = AnswersHome(Published(homeWire), Snapshot(u)),
           NEW p, p.home = process.home
    PROVE  /\ w \in HomeWires /\ AnswersAre(w.answers, u) /\ HomeWorks(updater, NoOperation, w.answers)
           /\ HomeIs(updater, w, NoOperation, u, p)
<1> DEFINE wire == Published(homeWire)
<1>1. /\ homeWire \in HomeWires /\ AnswersAre(homeWire.answers, updates) /\ process.home \in BOOLEAN
      /\ TurnIs(driver, operation, process, updates) /\ HomeWorks(updater, operation, homeWire.answers)
      /\ HomeIs(updater, homeWire, operation, updates, process) /\ "command" \in Commands
      /\ UpdateIs(updates, operation) /\ operation \in Operations
  BY UpdatesAreTyped
<1>2. /\ wire \in HomeWires /\ (wire.news <=> process.home)
      /\ \A c \in Commands : homeWire.answers[c] = NoAnswer => wire.answers[c] = NoAnswer
  BY <1>1, PublishedIs
<1>3. /\ AnswersAre(wire.answers, u)
      /\ (wire.answers["command"] = NoAnswer <=> homeWire.answers["command"] = NoAnswer)
  BY <1>1, NewsTell
<1>4. NoOperation.kind = "none" /\ NoOperation.for = "none"
  BY UpdateConstants
<1> HIDE DEF wire
<1>5. CASE operation.for = "home"
  <2>1. w = Answered(wire, "command", Snapshot(u))
    BY <1>5 DEF AnswersHome, wire
  <2>2. AnswersAre(w.answers, u) /\ w.answers["command"] # NoAnswer
    BY <1>1, <1>2, <1>3, <2>1, AnswersTell
  <2>3. w \in HomeWires /\ (w.news <=> wire.news)
    BY <1>1, <1>2, <2>1, SnapshotTells, AnsweredIs
  <2>4. updater.working /\ process.home
    BY <1>1, <1>5, UpdateConstants DEF UpdateIs, Operations, TurnIs, HomeWorks, HomeAsks
  <2>5. HomeWorks(updater, NoOperation, w.answers)
    BY <1>4, <2>2, <2>4 DEF HomeWorks, HomeAsks
  <2>6. HomeIs(updater, w, NoOperation, u, p)
    BY <1>2, <2>3, <2>4 DEF HomeIs
  <2> QED
    BY <2>2, <2>3, <2>5, <2>6
<1>6. CASE operation.for # "home"
  BY <1>6, <1>1, <1>3, <1>4, <1>2 DEF AnswersHome, wire, HomeWorks, HomeAsks, HomeIs
<1> QED
  BY <1>5, <1>6

LEMMA CheckSettles ==
    ASSUME UpdatesInv, NEW result \in {"manifest", "unavailable", "invalid"}, SettleCheck(result)
    PROVE  UpdatesInv'
<1>c. PICK r, u, op, d, p, card, h, w :
          /\ r = release' /\ u = updates' /\ op = operation' /\ d = driver' /\ p = process' /\ card = installCard'
          /\ h = updater' /\ w = homeWire'
  OBVIOUS
<1>1. /\ p = process /\ card = installCard /\ h = updater /\ op = NoOperation /\ tally' = tally
      /\ operation.kind = "check" /\ w = AnswersHome(Published(homeWire), Snapshot(u))
      /\ u = CheckOutcome(result)
  BY <1>c DEF SettleCheck
<1>d. /\ driver = "checking" => d \in {"sleep", "download"}
      /\ driver = "card check" => d \in {"card download", "card ends"}
      /\ driver \notin {"checking", "card check"} => d = driver
  <2>1. d = CASE driver = "checking" -> IF result = "unavailable" THEN "sleep" ELSE "download"
              [] driver = "card check" -> IF result # "unavailable" /\ BackgroundDownloadAllowed(updates')
                                         THEN "card download" ELSE "card ends"
              [] OTHER -> driver
    BY <1>c DEF SettleCheck
  <2> HIDE DEF BackgroundDownloadAllowed
  <2> QED
    BY <2>1
<1>2. /\ updates \in NativeUpdates /\ operation \in Operations /\ release \in [offered : Nat, installed : Nat]
      /\ UpdateIs(updates, operation) /\ DeclinedIs(updates, operation, process) /\ DateIs(updates, release)
      /\ TurnIs(driver, operation, process, updates) /\ TRUE \in BOOLEAN /\ FALSE \in BOOLEAN /\ NoVersion = 0
      /\ 0 \in Nat /\ driver \in DriverPlaces
  BY UpdatesAreTyped, UpdateConstants
<1>3. /\ r \in [offered : Nat, installed : Nat] /\ r.installed = release.installed /\ release.offered <= r.offered
      /\ result # "manifest" => r = release
  <2>1. CASE result = "manifest"
    <3>1. PICK v \in release.offered..MaxRelease : r = [release EXCEPT !.offered = v]
      BY <1>c, <2>1 DEF SettleCheck
    <3>2. v \in Nat /\ release.offered <= v
      BY <1>2, <3>1
    <3> QED
      BY <1>2, <2>1, <3>1, <3>2
  <2>2. CASE result # "manifest"
    <3>1. UNCHANGED release
      BY <2>2 DEF SettleCheck
    <3>2. r = release
      BY <3>1, <1>c
    <3> QED
      BY <1>2, <3>2
  <2> QED
    BY <2>1, <2>2
<1> DEFINE newer == IF r.offered > r.installed THEN r.offered ELSE NoVersion
<1>4. /\ u \in NativeUpdates /\ u.bytes = updates.bytes /\ u.handle = updates.handle /\ u.cancelled = updates.cancelled
      /\ result = "manifest" =>
             /\ u.phase = (IF newer = NoVersion THEN "current" ELSE "available")
             /\ u.version = newer /\ u.candidate = newer
      /\ result # "manifest" =>
             /\ u.version = updates.version /\ u.candidate = updates.candidate
             /\ u.phase \in {operation.prior, "error"}
  <2>1. CASE result = "manifest"
    <3>1. newer \in Nat
      BY <1>2, <1>3
    <3>2. newer = IF release'.offered > release.installed THEN release'.offered ELSE NoVersion
      BY <1>3, <1>c
    <3> HIDE DEF newer
    <3>3. PICK phase \in {"current", "available"} : phase = IF newer = NoVersion THEN "current" ELSE "available"
      OBVIOUS
    <3>4. u = [updates EXCEPT !.phase = phase, !.version = newer, !.candidate = newer, !.failed = FALSE]
      BY <1>1, <2>1, <3>2, <3>3 DEF CheckOutcome
    <3>5. phase \in Phases
      BY DEF Phases
    <3>6. /\ u \in NativeUpdates /\ u.bytes = updates.bytes /\ u.handle = updates.handle
          /\ u.cancelled = updates.cancelled /\ u.phase = phase /\ u.version = newer /\ u.candidate = newer
      BY <1>2, <3>1, <3>4, <3>5 DEF NativeUpdates
    <3> QED
      BY <2>1, <3>3, <3>6
  <2>2. CASE result = "unavailable" /\ Scheduled(operation)
    BY <1>1, <2>2, <1>2 DEF CheckOutcome, Operations, SettledPhases, Phases, NativeUpdates
  <2>3. CASE result # "manifest" /\ ~(result = "unavailable" /\ Scheduled(operation))
    BY <1>1, <2>3, <1>2 DEF CheckOutcome, NativeUpdates, Phases
  <2> QED
    BY <2>1, <2>2, <2>3
<1>5. newer \in Nat /\ (newer # 0 => r.installed < newer /\ newer <= r.offered)
      /\ (updates.candidate # 0 => newer >= updates.candidate)
  BY <1>2, <1>3 DEF DateIs, NativeUpdates
<1> HIDE DEF newer
<1>6. UpdateIs(u, op)
  BY <1>1, <1>2, UpdateConstants, <1>4 DEF UpdateIs, Operations, NativeUpdates, SettledPhases
<1>7. DeclinedIs(u, op, p)
  BY <1>1, <1>2, UpdatesAreTyped, <1>4, UpdateConstants, <1>5 DEF UpdateIs, NativeUpdates, Processes, DeclinedIs
<1>8. DateIs(u, r)
  BY <1>2, <1>3, <1>4, <1>5 DEF DateIs
<1>9. TurnIs(d, op, p, u)
  BY <1>1, <1>2, UpdateConstants, <1>d DEF TurnIs, CardPlaces
<1>10. /\ w \in HomeWires /\ AnswersAre(w.answers, u) /\ HomeWorks(h, op, w.answers)
       /\ HomeIs(h, w, op, u, p)
  BY <1>1, <1>4, SettlingTells
<1>11. /\ p \in Processes /\ card \in InstallCards /\ h \in Updaters /\ op \in Operations
       /\ CardIs(card, p) /\ d \in DriverPlaces /\ tally' \in [rounds : Nat, requests : Nat, starts : Nat]
  BY <1>1, <1>2, <1>d, UpdatesAreTyped, UpdateConstants DEF DriverPlaces, CardPlaces
<1> QED
  BY <1>c, <1>3, <1>4, <1>6, <1>7, <1>8, <1>9, <1>10, <1>11, UpdatesStep

\* A download ends: with the bytes of what is offered, or with nothing held.
LEMMA DownloadSettles ==
    ASSUME UpdatesInv, NEW result \in {"bytes", "unavailable", "invalid", "cancelled"}, SettleDownload(result)
    PROVE  UpdatesInv'
<1>c. PICK r, u, op, d, p, card, h, w :
          /\ r = release' /\ u = updates' /\ op = operation' /\ d = driver' /\ p = process' /\ card = installCard'
          /\ h = updater' /\ w = homeWire'
  OBVIOUS
<1>1. /\ r = release /\ card = installCard /\ h = updater /\ op = NoOperation /\ tally' = tally
      /\ operation.kind = "download" /\ w = AnswersHome(Published(homeWire), Snapshot(u))
  BY <1>c DEF SettleDownload
<1>d. /\ driver = "downloading" => d = "sleep"
      /\ driver = "card downloading" => d \in {"card install", "card ends"}
      /\ driver \notin {"downloading", "card downloading"} => d = driver
  BY <1>c DEF SettleDownload
<1>2. /\ updates \in NativeUpdates /\ operation \in Operations /\ process \in Processes
      /\ UpdateIs(updates, operation) /\ DeclinedIs(updates, operation, process) /\ DateIs(updates, release)
      /\ TurnIs(driver, operation, process, updates) /\ TRUE \in BOOLEAN /\ FALSE \in BOOLEAN /\ NoVersion = 0
      /\ 0 \in Nat /\ driver \in DriverPlaces
  BY UpdatesAreTyped, UpdateConstants
<1>3. /\ updates.candidate # 0 /\ updates.version = updates.candidate /\ updates.candidate \in Nat
      /\ (updates.candidate # process.declined \/ updates.handle = "fired")
  BY <1>1, <1>2 DEF UpdateIs, DeclinedIs, NativeUpdates
<1>4. /\ u \in NativeUpdates /\ u.handle = "none" /\ u.cancelled = updates.cancelled /\ u.version = updates.version
      /\ u.candidate = updates.candidate
      /\ result = "bytes" => u.bytes = updates.candidate /\ u.phase = "ready"
      /\ result # "bytes" => u.bytes = NoVersion /\ u.phase = "available"
  BY <1>c, <1>2, <1>3 DEF SettleDownload, NativeUpdates, Phases
<1>5. /\ p \in Processes /\ p.runs = process.runs /\ p.home = process.home /\ p.reopened = process.reopened
      /\ p.declined = process.declined
      /\ result = "bytes" /\ updates.handle = "fired" => p.late
  BY <1>c, <1>2 DEF SettleDownload, Processes
<1>6. UpdateIs(u, op)
  BY <1>1, <1>2, <1>3, <1>4, UpdateConstants DEF UpdateIs, SettledPhases
<1>7. DeclinedIs(u, op, p)
  BY <1>1, UpdateConstants, <1>2, <1>3, <1>4, <1>5 DEF DeclinedIs
<1>8. DateIs(u, r)
  BY <1>1, <1>2, <1>4 DEF DateIs
<1>9. TurnIs(d, op, p, u)
  BY <1>1, <1>2, UpdateConstants, <1>5, <1>d DEF TurnIs, CardPlaces
<1>10. /\ w \in HomeWires /\ AnswersAre(w.answers, u) /\ HomeWorks(h, op, w.answers)
       /\ HomeIs(h, w, op, u, p)
  BY <1>1, <1>5, <1>4, SettlingTells
<1>11. /\ card \in InstallCards /\ h \in Updaters /\ op \in Operations
       /\ CardIs(card, p) /\ d \in DriverPlaces /\ tally' \in [rounds : Nat, requests : Nat, starts : Nat]
       /\ r \in [offered : Nat, installed : Nat]
  BY <1>5, UpdatesAreTyped, <1>1, <1>2, <1>d, UpdateConstants DEF CardIs, DriverPlaces, CardPlaces
<1> QED
  BY <1>c, <1>4, <1>5, <1>6, <1>7, <1>8, <1>9, <1>10, <1>11, UpdatesStep

\* What Home is told after an operation that it asked for by no command.
LEMMA InstallIsRefused == ASSUME UpdatesInv, InstallRefused PROVE UpdatesInv'
<1>c. PICK r, u, op, d, p, card, h, w :
          /\ r = release' /\ u = updates' /\ op = operation' /\ d = driver' /\ p = process' /\ card = installCard'
          /\ h = updater' /\ w = homeWire'
  OBVIOUS
<1>1. /\ r = release /\ p = process /\ card = installCard /\ op = NoOperation /\ tally' = tally
      /\ operation.kind = "install"
      /\ IF operation.for = "card"
         THEN u = Reinstated(updates) /\ d = "card ends" /\ w = homeWire /\ h = updater
         ELSE /\ u = [updates EXCEPT !.phase = "available", !.failed = TRUE]
              /\ w = Answered(Published(homeWire), "read", Snapshot(u))
              /\ h = [updater EXCEPT !.asking = FALSE] /\ d = driver
  BY <1>c DEF InstallRefused
<1>2. /\ updates \in NativeUpdates /\ operation \in Operations /\ process \in Processes /\ updater \in Updaters
      /\ UpdateIs(updates, operation) /\ DeclinedIs(updates, operation, process) /\ DateIs(updates, release)
      /\ TurnIs(driver, operation, process, updates) /\ TRUE \in BOOLEAN /\ FALSE \in BOOLEAN /\ NoVersion = 0
      /\ 0 \in Nat /\ driver \in DriverPlaces /\ homeWire \in HomeWires /\ AnswersAre(homeWire.answers, updates)
      /\ HomeIs(updater, homeWire, operation, updates, process) /\ process.home \in BOOLEAN
      /\ HomeWorks(updater, operation, homeWire.answers)
      /\ "read" \in Commands /\ "command" \in Commands /\ "read" # "command"
  BY UpdatesAreTyped, UpdateConstants
<1>3. /\ operation.bytes = updates.candidate /\ updates.candidate # 0 /\ updates.version = updates.candidate
      /\ updates.candidate \in Nat /\ updates.handle = "none" /\ updates.bytes = NoVersion
      /\ operation.for \in {"card", "home"} /\ (updates.candidate # process.declined \/ process.late)
  BY <1>1, <1>2 DEF UpdateIs, DeclinedIs, NativeUpdates
<1>4. op.kind = "none" /\ op.for = "none" /\ op \in Operations
  BY <1>1, UpdateConstants
<1>5. /\ u \in NativeUpdates /\ u.handle = "none" /\ u.cancelled = updates.cancelled /\ u.version = updates.version
      /\ u.candidate = updates.candidate
      /\ (u.phase = "ready" /\ u.bytes = updates.candidate) \/ (u.phase = "available" /\ u.bytes = NoVersion)
  <2>1. CASE operation.for = "card"
    BY <1>1, <2>1, <1>2, <1>3 DEF Reinstated, NativeUpdates, Phases
  <2>2. CASE operation.for # "card"
    BY <1>1, <2>2, <1>2, <1>3 DEF NativeUpdates, Phases
  <2> QED
    BY <2>1, <2>2
<1>6. UpdateIs(u, op)
  BY <1>1, <1>2, <1>3, <1>4, <1>5 DEF UpdateIs, SettledPhases
<1>7. DeclinedIs(u, op, p)
  BY <1>1, <1>2, <1>3, <1>4, <1>5 DEF DeclinedIs
<1>8. DateIs(u, r)
  BY <1>1, <1>2, <1>5 DEF DateIs
<1>9. /\ p \in Processes /\ card \in InstallCards /\ r \in [offered : Nat, installed : Nat]
      /\ CardIs(card, p) /\ tally' \in [rounds : Nat, requests : Nat, starts : Nat]
  BY <1>1, UpdatesAreTyped
<1>10. CASE operation.for = "card"
  <2>1. d = "card ends" /\ w = homeWire /\ h = updater /\ driver = "card prompt" /\ d \in DriverPlaces
    BY <1>1, <1>2, <1>10 DEF TurnIs, DriverPlaces, CardPlaces
  <2>2. process.runs /\ ~process.home /\ ~process.reopened
    BY <1>2, <2>1 DEF TurnIs, CardPlaces
  <2>3. TurnIs(d, op, p, u)
    BY <1>1, <1>4, <2>1, <2>2 DEF TurnIs, CardPlaces
  <2>4. HomeWorks(h, op, w.answers) /\ AnswersAre(w.answers, u) /\ HomeIs(h, w, op, u, p)
    <3>1. op.for \in {"none", "card"} /\ ~p.home /\ ~process.home
      BY <1>1, <1>4, <2>2
    <3>2. /\ HomeWorks(updater, op, homeWire.answers) /\ AnswersAre(homeWire.answers, u)
          /\ HomeIs(updater, homeWire, op, u, p)
      BY <3>1, QuietHome
    <3>3. w = homeWire /\ h = updater
      BY <2>1
    <3> QED
      BY <3>2, <3>3
  <2>5. h \in Updaters /\ w \in HomeWires
    BY <1>2, <2>1
  <2> QED
    BY <1>c, <1>4, <1>5, <1>6, <1>7, <1>8, <1>9, <2>1, <2>3, <2>4, <2>5, UpdatesStep
<1>11. CASE operation.for = "home"
  <2> DEFINE wire == Published(homeWire)
  <2>1. w = Answered(wire, "read", Snapshot(u)) /\ h = [updater EXCEPT !.asking = FALSE] /\ d = driver
    BY <1>1, <1>11
  <2>2. process.runs /\ process.home
    BY <1>1, <1>2, <1>11, UpdateConstants DEF TurnIs
  <2>3. /\ h \in Updaters /\ h.working = updater.working
    BY <1>2, <2>1 DEF Updaters
  <2>4. /\ wire \in HomeWires /\ (wire.news <=> process.home)
    BY <1>2, PublishedIs
  <2>5. /\ AnswersAre(wire.answers, u)
        /\ (wire.answers["command"] = NoAnswer <=> homeWire.answers["command"] = NoAnswer)
    BY <1>2, NewsTell
  <2> HIDE DEF wire
  <2>6. /\ AnswersAre(w.answers, u) /\ w.answers["command"] = wire.answers["command"]
    BY <1>2, <1>5, <2>1, <2>4, <2>5, AnswersTell
  <2>7. w \in HomeWires /\ (w.news <=> wire.news)
    BY <1>5, SnapshotTells, <1>2, <2>1, <2>4, AnsweredIs
  <2>8. HomeWorks(h, op, w.answers)
    BY <1>1, <1>2, <1>4, <2>3, <2>5, <2>6 DEF HomeWorks, HomeAsks
  <2>9. HomeIs(h, w, op, u, p)
    BY <1>1, <2>2, <2>4, <2>7 DEF HomeIs
  <2>10. TurnIs(d, op, p, u)
    BY <1>1, <1>2, <1>4, <1>11, <2>1, <2>2 DEF TurnIs, CardPlaces
  <2>11. d \in DriverPlaces
    BY <1>2, <2>1
  <2> QED
    BY <1>c, <1>4, <1>5, <1>6, <1>7, <1>8, <1>9, <2>3, <2>6, <2>7, <2>8, <2>9, <2>10, <2>11, UpdatesStep
<1> QED
  BY <1>3, <1>10, <1>11

\* The app that ended, and the one that is started.
LEMMA NothingRuns ==
    ASSUME UpdatesInv, NEW p, NEW u, NEW op, NEW d, NEW h, NEW w,
           p = NotRunning, u = FirstUpdates, op = NoOperation, d = "gone", h = FirstHome, w = NoWire
    PROVE  /\ u \in NativeUpdates /\ op \in Operations /\ d \in DriverPlaces /\ p \in Processes /\ h \in Updaters
           /\ w \in HomeWires /\ UpdateIs(u, op) /\ DeclinedIs(u, op, p) /\ TurnIs(d, op, p, u)
           /\ HomeWorks(h, op, w.answers) /\ AnswersAre(w.answers, u) /\ HomeIs(h, w, op, u, p)
           /\ \A r : DateIs(u, r)
<1>1. p \in Processes /\ ~p.runs /\ ~p.home /\ p.declined = 0 /\ NoVersion = 0
  BY StartedIs, UpdateConstants
<1>2. /\ u \in NativeUpdates /\ u.phase = "idle" /\ u.version = 0 /\ u.candidate = 0 /\ u.bytes = 0
      /\ u.handle = "none" /\ op \in Operations /\ op.kind = "none" /\ op.for = "none"
  BY UpdateConstants
<1>3. UpdateIs(u, op)
  BY <1>1, <1>2 DEF UpdateIs, SettledPhases
<1>4. DeclinedIs(u, op, p)
  BY <1>1, <1>2 DEF DeclinedIs
<1>5. TurnIs(d, op, p, u)
  BY <1>1, <1>2 DEF TurnIs, CardPlaces
<1>6. /\ w \in HomeWires /\ ~w.news /\ (\A c \in Commands : w.answers[c] = NoAnswer) /\ "command" \in Commands
      /\ NoAnswer.phase = "none"
  BY UpdateConstants DEF Commands
<1>7. HomeWorks(h, op, w.answers)
  BY <1>2, <1>6, UpdateConstants DEF HomeWorks, HomeAsks
<1>8. AnswersAre(w.answers, u)
  BY <1>6 DEF AnswersAre
<1>9. HomeIs(h, w, op, u, p)
  BY <1>1, <1>6 DEF HomeIs
<1>10. d \in DriverPlaces /\ h \in Updaters
  BY UpdateConstants DEF DriverPlaces
<1>11. \A r : DateIs(u, r)
  BY <1>1, <1>2 DEF DateIs
<1> QED
  BY <1>1, <1>2, <1>3, <1>4, <1>5, <1>6, <1>7, <1>8, <1>9, <1>10, <1>11

LEMMA AppStarts ==
    ASSUME NEW reopened \in BOOLEAN, NEW shows \in BOOLEAN, Starts(reopened, shows), ~(reopened /\ shows)
    PROVE  \E u \in NativeUpdates, op \in Operations, d \in DriverPlaces, p \in Processes, h \in Updaters,
              w \in HomeWires :
               /\ updates' = u /\ operation' = op /\ driver' = d /\ process' = p /\ updater' = h /\ homeWire' = w
               /\ p.runs /\ UpdateIs(u, op) /\ DeclinedIs(u, op, p) /\ TurnIs(d, op, p, u)
               /\ HomeWorks(h, op, w.answers) /\ AnswersAre(w.answers, u) /\ HomeIs(h, w, op, u, p)
               /\ \A r : DateIs(u, r)
<1> DEFINE p == Start(reopened, shows)
           d == IF shows THEN "card" ELSE "sleep"
           w == IF shows THEN NoWire ELSE Answered(NoWire, "first", Snapshot(FirstUpdates))
<1>1. /\ p \in Processes /\ p.runs /\ (p.home <=> ~shows) /\ (p.reopened <=> reopened) /\ p.declined = 0
  BY StartedIs
<1>2. /\ FirstUpdates \in NativeUpdates /\ FirstUpdates.phase = "idle" /\ FirstUpdates.version = 0
      /\ FirstUpdates.candidate = 0 /\ FirstUpdates.bytes = 0 /\ FirstUpdates.handle = "none"
      /\ NoOperation \in Operations /\ NoOperation.kind = "none" /\ NoOperation.for = "none"
      /\ FirstHome \in Updaters /\ FirstHome.phase = "disabled" /\ ~FirstHome.working /\ ~FirstHome.asking
      /\ NoVersion = 0 /\ NoAnswer.phase = "none"
  BY UpdateConstants
<1>3. process' = p /\ updates' = FirstUpdates /\ operation' = NoOperation /\ driver' = d /\ updater' = FirstHome
      /\ homeWire' = w
  BY DEF Starts
<1>4. d \in DriverPlaces /\ (shows => d = "card") /\ (~shows => d = "sleep")
  BY DEF DriverPlaces, CardPlaces
<1>5. /\ NoWire \in HomeWires /\ ~NoWire.news /\ (\A c \in Commands : NoWire.answers[c] = NoAnswer)
      /\ AnswersAre(NoWire.answers, FirstUpdates)
      /\ "first" \in Commands /\ "command" \in Commands /\ "command" # "first"
  BY UpdateConstants, <1>2 DEF AnswersAre, Commands
<1>6. /\ w \in HomeWires /\ AnswersAre(w.answers, FirstUpdates) /\ w.answers["command"] = NoAnswer
      /\ shows => ~w.news /\ \A c \in Commands : w.answers[c] = NoAnswer
      /\ ~shows => Tells(w.answers, "first")
  <2>1. CASE shows
    BY <1>5, <2>1
  <2>2. CASE ~shows
    <3> DEFINE x == Answered(NoWire, "first", Snapshot(FirstUpdates))
    <3>1. /\ AnswersAre(x.answers, FirstUpdates) /\ Tells(x.answers, "first")
          /\ \A c \in Commands : c # "first" => x.answers[c] = NoWire.answers[c]
      BY <1>2, <1>5, AnswersTell
    <3>2. Snapshot(FirstUpdates) \in Answers
      BY <1>2, SnapshotTells
    <3>3. x \in HomeWires
      BY <1>5, <3>2, AnsweredIs
    <3>4. w = x
      BY <2>2
    <3> HIDE DEF x, w
    <3> QED
      BY <1>5, <2>2, <3>1, <3>3, <3>4
  <2> QED
    BY <2>1, <2>2
<1> HIDE DEF p, d, w
<1>7. UpdateIs(FirstUpdates, NoOperation)
  BY <1>2 DEF UpdateIs, SettledPhases
<1>8. DeclinedIs(FirstUpdates, NoOperation, p) /\ \A r : DateIs(FirstUpdates, r)
  BY <1>1, <1>2 DEF DeclinedIs, DateIs
<1>9. TurnIs(d, NoOperation, p, FirstUpdates)
  BY <1>1, <1>2, <1>4 DEF TurnIs, CardPlaces
<1>10. HomeWorks(FirstHome, NoOperation, w.answers)
  BY <1>2, <1>6 DEF HomeWorks, HomeAsks
<1>11. HomeIs(FirstHome, w, NoOperation, FirstUpdates, p)
  BY <1>1, <1>2, <1>5, <1>6 DEF HomeIs
<1> QED
  BY <1>1, <1>2, <1>3, <1>4, <1>6, <1>7, <1>8, <1>9, <1>10, <1>11

LEMMA InstallIsAccepted == ASSUME UpdatesInv, InstallAccepted PROVE UpdatesInv'
<1>c. PICK r, u, op, d, p, card, h, w :
          /\ r = release' /\ u = updates' /\ op = operation' /\ d = driver' /\ p = process' /\ card = installCard'
          /\ h = updater' /\ w = homeWire'
  OBVIOUS
<1>1. PICK shown \in BOOLEAN :
          card = [at |-> IF shown THEN "waiting" ELSE "none", installs |-> operation.bytes, unwatched |-> ~shown]
  BY <1>c DEF InstallAccepted
<1>2. /\ operation.kind = "install" /\ r = release /\ tally' = tally
      /\ p = NotRunning /\ u = FirstUpdates /\ op = NoOperation /\ d = "gone" /\ h = FirstHome /\ w = NoWire
  BY <1>c DEF InstallAccepted, AppEnds
<1>3. operation.bytes \in Nat /\ operation.bytes # NoVersion
  BY <1>2, UpdatesAreTyped DEF UpdateIs, Operations
<1>4. /\ card.at \in {"waiting", "none"} /\ card.installs = operation.bytes /\ (card.unwatched <=> ~shown)
      /\ (card.at = "waiting" <=> shown) /\ card \in InstallCards
  BY <1>1, <1>3 DEF InstallCards
<1>5. ~p.runs
  BY <1>2, StartedIs
<1>6. CardIs(card, p)
  BY <1>3, <1>4, <1>5 DEF CardIs
<1>7. /\ u \in NativeUpdates /\ op \in Operations /\ d \in DriverPlaces /\ p \in Processes /\ h \in Updaters
      /\ w \in HomeWires /\ UpdateIs(u, op) /\ DeclinedIs(u, op, p) /\ TurnIs(d, op, p, u)
      /\ HomeWorks(h, op, w.answers) /\ AnswersAre(w.answers, u) /\ HomeIs(h, w, op, u, p)
      /\ DateIs(u, r)
  BY <1>2, NothingRuns
<1>8. r \in [offered : Nat, installed : Nat] /\ tally' \in [rounds : Nat, requests : Nat, starts : Nat]
  BY <1>2, UpdatesAreTyped
<1> QED
  BY <1>c, <1>4, <1>6, <1>7, <1>8, UpdatesStep

\* Every start leaves the card as its place and its installer say.
LEMMA StartHolds ==
    ASSUME UpdatesInv, NEW reopened \in BOOLEAN, NEW shows \in BOOLEAN, Starts(reopened, shows), ~(reopened /\ shows),
           tally' = [tally EXCEPT !.starts = @ + 1],
           release' \in [offered : Nat, installed : Nat], installCard' \in InstallCards,
           installCard'.installs = NoVersion, installCard'.at # "waiting"
    PROVE  UpdatesInv'
<1>1. PICK u \in NativeUpdates, op \in Operations, d \in DriverPlaces, p \in Processes, h \in Updaters,
           w \in HomeWires :
          /\ updates' = u /\ operation' = op /\ driver' = d /\ process' = p /\ updater' = h /\ homeWire' = w
          /\ p.runs /\ UpdateIs(u, op) /\ DeclinedIs(u, op, p) /\ TurnIs(d, op, p, u)
          /\ HomeWorks(h, op, w.answers) /\ AnswersAre(w.answers, u) /\ HomeIs(h, w, op, u, p)
          /\ \A r : DateIs(u, r)
  BY AppStarts
<1>2. PICK r, card : r = release' /\ card = installCard'
  OBVIOUS
<1>3. r \in [offered : Nat, installed : Nat] /\ card \in InstallCards /\ card.installs = NoVersion /\ card.at # "waiting"
  BY <1>2
<1>4. CardIs(card, p)
  BY <1>1, <1>3 DEF CardIs
<1>5. tally' \in [rounds : Nat, requests : Nat, starts : Nat]
  BY UpdatesAreTyped
<1> QED
  BY <1>1, <1>2, <1>3, <1>4, <1>5, UpdatesStep

\* Only the card, the version there is and what the bounds count change.
LEMMA CardHolds ==
    ASSUME UpdatesInv, UNCHANGED <<updates, operation, driver, process, updater, homeWire, tally>>,
           NEW r, r = release', r \in [offered : Nat, installed : Nat], DateIs(updates, r),
           NEW card, card = installCard', card \in InstallCards, CardIs(card, process)
    PROVE  UpdatesInv'
BY UpdatesAreTyped, UpdatesStep

LEMMA InstallerIsOver == ASSUME UpdatesInv, InstallerEnds PROVE UpdatesInv'
<1>c. PICK r, card : r = release' /\ card = installCard'
  OBVIOUS
<1>1. /\ installCard \in InstallCards /\ release \in [offered : Nat, installed : Nat] /\ CardIs(installCard, process)
      /\ TurnIs(driver, operation, process, updates) /\ installCard.installs # NoVersion
      /\ NoVersion = 0 /\ FirstUpdates.candidate = 0 /\ TRUE \in BOOLEAN /\ FALSE \in BOOLEAN
  BY UpdatesAreTyped, UpdateConstants DEF InstallerEnds
<1>2. PICK ok \in BOOLEAN, reopens \in BOOLEAN :
          /\ r = [release EXCEPT !.installed = IF ok THEN installCard.installs ELSE @]
          /\ card = [installCard EXCEPT !.installs = NoVersion,
                        !.at = IF @ = "waiting" THEN (IF ok THEN "dismissing" ELSE "failed") ELSE @]
          /\ IF (ok /\ reopens) \/ (~ok /\ installCard.at = "waiting")
             THEN /\ Starts(~ok, ok)
                  /\ tally' = [tally EXCEPT !.starts = @ + 1]
             ELSE UNCHANGED <<process, updates, operation, driver, updater, homeWire, tally>>
  BY <1>c DEF InstallerEnds
<1>3. r \in [offered : Nat, installed : Nat]
  BY <1>1, <1>2 DEF InstallCards
<1>4. /\ ~process.runs /\ updates = FirstUpdates
      /\ installCard.at \in {"waiting", "none"} /\ (installCard.at = "none" => installCard.unwatched)
  BY <1>1 DEF CardIs, TurnIs, InstallCards
<1>5. /\ card \in InstallCards /\ card.installs = NoVersion /\ (card.unwatched <=> installCard.unwatched)
      /\ installCard.at = "none" => card.at = "none"
      /\ installCard.at = "waiting" => card.at = (IF ok THEN "dismissing" ELSE "failed")
  BY <1>4, <1>2, <1>1 DEF InstallCards
<1>6. CASE (ok /\ reopens) \/ (~ok /\ installCard.at = "waiting")
  BY <1>2, <1>6, <1>c, <1>3, <1>4, <1>5, StartHolds
<1>7. CASE ~((ok /\ reopens) \/ (~ok /\ installCard.at = "waiting"))
  <2>1. UNCHANGED <<process, updates, operation, driver, updater, homeWire, tally>>
    BY <1>2, <1>7
  <2>2. DateIs(updates, r)
    BY <1>1, <1>4 DEF DateIs
  <2>3. CardIs(card, process)
    BY <1>4, <1>5, <1>7 DEF CardIs
  <2> QED
    BY <1>c, <1>3, <1>5, <2>1, <2>2, <2>3, CardHolds
<1> QED
  BY <1>6, <1>7

LEMMA CardReopens == ASSUME UpdatesInv, ReopenedByCard PROVE UpdatesInv'
BY UpdatesAreTyped, StartHolds DEF ReopenedByCard, InstallCards, CardIs

LEMMA MemberStartsApp == ASSUME UpdatesInv, MemberStarts PROVE UpdatesInv'
BY UpdatesAreTyped, StartHolds DEF MemberStarts, InstallCards

LEMMA CardIsClosed == ASSUME UpdatesInv, CardCloses PROVE UpdatesInv'
<1>c. PICK r, card : r = release' /\ card = installCard'
  OBVIOUS
<1>1. /\ UNCHANGED <<updates, operation, driver, process, updater, homeWire, tally>> /\ r = release
      /\ (installCard.at = "dismissing" /\ process.runs) \/ installCard.at \in {"failed", "waiting"}
      /\ card = [installCard EXCEPT !.at = "none", !.unwatched = @ \/ installCard.at = "waiting"]
  BY <1>c DEF CardCloses
<1>2. installCard \in InstallCards /\ CardIs(installCard, process) /\ DateIs(updates, release)
      /\ release \in [offered : Nat, installed : Nat]
  BY UpdatesAreTyped
<1>3. PICK unwatched \in BOOLEAN : unwatched = (installCard.unwatched \/ installCard.at = "waiting")
  OBVIOUS
<1>4. card = [installCard EXCEPT !.at = "none", !.unwatched = unwatched]
  BY <1>1, <1>2, <1>3 DEF InstallCards
<1>5. installCard.at = "waiting" => unwatched
  BY <1>3
<1>6. card \in InstallCards /\ card.at = "none" /\ card.installs = installCard.installs /\ (card.unwatched <=> unwatched)
  BY <1>2, <1>4 DEF InstallCards
<1>7. CardIs(card, process)
  BY <1>1, <1>2, <1>5, <1>6 DEF CardIs
<1> QED
  BY <1>c, <1>1, <1>2, <1>6, <1>7, CardHolds

\* A step of Home's.
LEMMA HomeStep ==
    ASSUME UpdatesInv, UNCHANGED <<release, driver, installCard>>,
           tally' \in [rounds : Nat, requests : Nat, starts : Nat],
           NEW u \in NativeUpdates, NEW op \in Operations, NEW p \in Processes, NEW h \in Updaters, NEW w \in HomeWires,
           u = updates', op = operation', p = process', h = updater', w = homeWire',
           p.runs = process.runs, UpdateIs(u, op), DeclinedIs(u, op, p), DateIs(u, release), TurnIs(driver, op, p, u),
           HomeWorks(h, op, w.answers), AnswersAre(w.answers, u), HomeIs(h, w, op, u, p)
    PROVE  UpdatesInv'
BY UpdatesAreTyped, UpdatesStep DEF CardIs

\* One that leaves the native side alone.
LEMMA HomeOnly ==
    ASSUME UpdatesInv, UNCHANGED <<release, driver, installCard, updates, operation, process>>,
           tally' \in [rounds : Nat, requests : Nat, starts : Nat],
           NEW h \in Updaters, NEW w \in HomeWires, h = updater', w = homeWire',
           HomeWorks(h, operation, w.answers), AnswersAre(w.answers, updates),
           HomeIs(h, w, operation, updates, process)
    PROVE  UpdatesInv'
BY UpdatesAreTyped, HomeStep

LEMMA RequestCounts ==
    ASSUME UpdatesInv, Requests
    PROVE  /\ tally' \in [rounds : Nat, requests : Nat, starts : Nat] /\ UNCHANGED <<release, driver, installCard>>
           /\ process.runs
BY UpdatesAreTyped DEF Requests

\* What an operation that begins while Home is there is told of, and where it stands.
LEMMA BegunTells ==
    ASSUME UpdatesInv, process.home, operation = NoOperation,
           NEW u, NEW op, op.kind \in {"check", "download", "install"}, op.for \in {"home", "tray"},
           NEW h, h.working <=> updater.working \/ HomeAsks(op),
           ~HomeAsks(op) \/ ~updater.working,
           op.kind = "install" => h.asking,
           NEW p, p.home, p.runs, NEW w, w = Published(homeWire)
    PROVE  /\ w \in HomeWires /\ AnswersAre(w.answers, u) /\ HomeWorks(h, op, w.answers)
           /\ HomeIs(h, w, op, u, p) /\ TurnIs(driver, op, p, u)
<1>1. /\ homeWire \in HomeWires /\ AnswersAre(homeWire.answers, updates) /\ process.home \in BOOLEAN
      /\ TurnIs(driver, operation, process, updates) /\ HomeWorks(updater, operation, homeWire.answers)
  BY UpdatesAreTyped
<1>2. w \in HomeWires /\ (w.news <=> process.home)
  BY <1>1, PublishedIs
<1>3. AnswersAre(w.answers, u) /\ (w.answers["command"] = NoAnswer <=> homeWire.answers["command"] = NoAnswer)
  BY <1>1, NewsTell
<1>4. ~HomeAsks(operation)
  BY UpdateConstants DEF HomeAsks
<1>5. HomeWorks(h, op, w.answers)
  BY <1>1, <1>3, <1>4 DEF HomeWorks
<1>6. HomeIs(h, w, op, u, p)
  BY <1>2 DEF HomeIs
<1>7. TurnIs(driver, op, p, u)
  BY <1>1 DEF TurnIs, CardPlaces
<1> QED
  BY <1>2, <1>3, <1>5, <1>6, <1>7

\* Home is answered with what the native side is in.
LEMMA AnsweredTells ==
    ASSUME UpdatesInv, process.home, NEW c \in Commands, NEW h,
           NEW w, w = Answered(homeWire, c, Snapshot(updates)),
           h.working <=> updater.working \/ c = "command",
           c = "command" => ~HomeAsks(operation),
           operation.kind = "install" /\ operation.for = "home" => h.asking
    PROVE  /\ w \in HomeWires /\ AnswersAre(w.answers, updates) /\ HomeWorks(h, operation, w.answers)
           /\ HomeIs(h, w, operation, updates, process)
<1>1. /\ homeWire \in HomeWires /\ updates \in NativeUpdates /\ AnswersAre(homeWire.answers, updates)
      /\ HomeWorks(updater, operation, homeWire.answers) /\ "command" \in Commands
  BY UpdatesAreTyped
<1>2. /\ AnswersAre(w.answers, updates) /\ Tells(w.answers, c) /\ w.answers[c] # NoAnswer
      /\ \A d \in Commands : d # c => w.answers[d] = homeWire.answers[d]
  BY <1>1, AnswersTell
<1>3. Snapshot(updates) \in Answers
  BY <1>1, SnapshotTells
<1>4. w \in HomeWires
  BY <1>1, <1>3, AnsweredIs
<1>5. HomeWorks(h, operation, w.answers)
  BY <1>1, <1>2 DEF HomeWorks
<1>6. HomeIs(h, w, operation, updates, process)
  BY <1>2 DEF HomeIs
<1> QED
  BY <1>2, <1>4, <1>5, <1>6

LEMMA HomeIsThere ==
    ASSUME UpdatesInv, updater.phase # "disabled" \/ updater.asking \/ homeWire.news
                       \/ \E c \in Commands : homeWire.answers[c] # NoAnswer
    PROVE  process.home
BY UpdatesAreTyped, UpdateConstants DEF HomeIs

LEMMA CheckIsPressed == ASSUME UpdatesInv, PressCheck PROVE UpdatesInv'
<1>c. PICK u, op, p, h, w :
          /\ u = updates' /\ op = operation' /\ p = process' /\ h = updater' /\ w = homeWire'
  OBVIOUS
<1>1. /\ Requests /\ process.home /\ ~updater.working /\ p = process
      /\ h = [updater EXCEPT !.working = TRUE, !.phase = "checking"]
      /\ \/ BeginCheck("home") /\ w = Published(homeWire)
         \/ w = Answered(homeWire, "command", Snapshot(updates)) /\ UNCHANGED <<operation, updates>>
  BY <1>c DEF PressCheck
<1>2. /\ updater \in Updaters /\ process \in Processes /\ HomeWorks(updater, operation, homeWire.answers)
      /\ TRUE \in BOOLEAN /\ "command" \in Commands
  BY UpdatesAreTyped
<1>3. h \in Updaters /\ h.working /\ (h.asking <=> updater.asking)
  BY <1>1, <1>2 DEF Updaters, Phases
<1>4. /\ tally' \in [rounds : Nat, requests : Nat, starts : Nat] /\ UNCHANGED <<release, driver, installCard>>
      /\ process.runs
  BY <1>1, RequestCounts
<1>5. CASE BeginCheck("home") /\ w = Published(homeWire)
  <2>1. "home" \in {"card", "loop", "home", "tray"}
    OBVIOUS
  <2>2. PICK v \in NativeUpdates, o \in Operations :
            /\ updates' = v /\ operation' = o /\ o.kind = "check" /\ o.for = "home"
            /\ UpdateIs(v, o) /\ DeclinedIs(v, o, process) /\ DateIs(v, release)
    BY <1>5, <2>1, CheckBegins
  <2>3. u = v /\ op = o /\ operation = NoOperation
    BY <1>5, <1>c, <2>2 DEF BeginCheck
  <2>4. /\ u \in NativeUpdates /\ op \in Operations /\ op.kind = "check" /\ op.for = "home"
        /\ UpdateIs(u, op) /\ DeclinedIs(u, op, p) /\ DateIs(u, release)
    BY <1>1, <2>2, <2>3
  <2>5. /\ op.kind \in {"check", "download", "install"} /\ op.for \in {"home", "tray"} /\ HomeAsks(op)
        /\ (h.working <=> updater.working \/ HomeAsks(op)) /\ (~HomeAsks(op) \/ ~updater.working)
        /\ (op.kind = "install" => h.asking) /\ p.home /\ p.runs /\ w = Published(homeWire)
    BY <1>1, <1>3, <1>4, <1>5, <2>4 DEF HomeAsks
  <2>8. process.home /\ operation = NoOperation
    BY <1>1, <2>3
  <2>6. /\ w \in HomeWires /\ AnswersAre(w.answers, u) /\ HomeWorks(h, op, w.answers)
        /\ HomeIs(h, w, op, u, p) /\ TurnIs(driver, op, p, u)
    BY <2>5, <2>8, BegunTells
  <2>7. p \in Processes /\ p.runs = process.runs
    BY <1>1, <1>2
  <2> QED
    BY <1>c, <1>3, <1>4, <2>4, <2>6, <2>7, HomeStep
<1>6. CASE w = Answered(homeWire, "command", Snapshot(updates)) /\ UNCHANGED <<operation, updates>>
  <2>1. /\ (h.working <=> updater.working \/ "command" = "command") /\ ~HomeAsks(operation)
        /\ (operation.kind = "install" /\ operation.for = "home" => h.asking)
    BY <1>1, <1>2, <1>3 DEF HomeWorks
  <2>2. /\ w \in HomeWires /\ AnswersAre(w.answers, updates) /\ HomeWorks(h, operation, w.answers)
        /\ HomeIs(h, w, operation, updates, process)
    BY <1>1, <1>2, <1>6, <2>1, AnsweredTells
  <2>3. UNCHANGED <<release, driver, installCard, updates, operation, process>>
    BY <1>1, <1>4, <1>6, <1>c
  <2> QED
    BY <1>c, <1>3, <1>4, <2>2, <2>3, HomeOnly
<1> QED
  BY <1>1, <1>5, <1>6

LEMMA TrayIsPressed == ASSUME UpdatesInv, CheckFromTray PROVE UpdatesInv'
<1>c. PICK u, op, p, h, w :
          /\ u = updates' /\ op = operation' /\ p = process' /\ h = updater' /\ w = homeWire'
  OBVIOUS
<1>1. /\ Requests /\ p = [process EXCEPT !.tray = ~process.home] /\ h = updater
      /\ \/ process.home /\ BeginCheck("tray") /\ w = Published(homeWire)
         \/ u = updates /\ op = operation /\ w = homeWire
  BY <1>c DEF CheckFromTray
<1>2. /\ updater \in Updaters /\ process \in Processes /\ HomeWorks(updater, operation, homeWire.answers)
      /\ process.home \in BOOLEAN
  BY UpdatesAreTyped
<1>3. /\ p \in Processes /\ p.runs = process.runs /\ p.home = process.home /\ p.reopened = process.reopened
      /\ p.declined = process.declined /\ p.late = process.late
  BY <1>1, <1>2 DEF Processes
<1>4. /\ tally' \in [rounds : Nat, requests : Nat, starts : Nat] /\ UNCHANGED <<release, driver, installCard>>
      /\ process.runs
  BY <1>1, RequestCounts
<1>5. CASE process.home /\ BeginCheck("tray") /\ w = Published(homeWire)
  <2>1. "tray" \in {"card", "loop", "home", "tray"}
    OBVIOUS
  <2>2. PICK v \in NativeUpdates, o \in Operations :
            /\ updates' = v /\ operation' = o /\ o.kind = "check" /\ o.for = "tray"
            /\ UpdateIs(v, o) /\ DeclinedIs(v, o, process) /\ DateIs(v, release)
    BY <1>5, <2>1, CheckBegins
  <2>3. u = v /\ op = o /\ operation = NoOperation
    BY <1>5, <1>c, <2>2 DEF BeginCheck
  <2>4. /\ u \in NativeUpdates /\ op \in Operations /\ op.kind = "check" /\ op.for = "tray"
        /\ UpdateIs(u, op) /\ DeclinedIs(u, op, p) /\ DateIs(u, release)
    BY <1>3, <2>2, <2>3 DEF DeclinedIs
  <2>5. /\ op.kind \in {"check", "download", "install"} /\ op.for \in {"home", "tray"} /\ ~HomeAsks(op)
        /\ (h.working <=> updater.working \/ HomeAsks(op)) /\ (~HomeAsks(op) \/ ~updater.working)
        /\ (op.kind = "install" => h.asking) /\ p.home /\ p.runs /\ w = Published(homeWire)
    BY <1>1, <1>3, <1>4, <1>5, <2>4 DEF HomeAsks
  <2>6. /\ w \in HomeWires /\ AnswersAre(w.answers, u) /\ HomeWorks(h, op, w.answers)
        /\ HomeIs(h, w, op, u, p) /\ TurnIs(driver, op, p, u)
    BY <1>5, <2>3, <2>5, BegunTells
  <2>7. h \in Updaters
    BY <1>1, <1>2
  <2> QED
    BY <1>c, <1>3, <1>4, <2>4, <2>6, <2>7, HomeStep
<1>6. CASE u = updates /\ op = operation /\ w = homeWire
  <2>1. /\ u \in NativeUpdates /\ op \in Operations /\ h \in Updaters /\ w \in HomeWires
        /\ UpdateIs(u, op) /\ DateIs(u, release) /\ HomeWorks(h, op, w.answers) /\ AnswersAre(w.answers, u)
    BY <1>1, <1>6, UpdatesAreTyped
  <2>2. DeclinedIs(u, op, p)
    BY <1>3, <1>6, UpdatesAreTyped DEF DeclinedIs
  <2>3. TurnIs(driver, op, p, u)
    BY <1>3, <1>6, UpdatesAreTyped DEF TurnIs
  <2>4. HomeIs(h, w, op, u, p)
    BY <1>1, <1>3, <1>6, UpdatesAreTyped DEF HomeIs
  <2> QED
    BY <1>c, <1>3, <1>4, <2>1, <2>2, <2>3, <2>4, HomeStep
<1> QED
  BY <1>1, <1>5, <1>6

LEMMA DownloadIsPressed == ASSUME UpdatesInv, PressDownload PROVE UpdatesInv'
<1>c. PICK u, op, p, h, w :
          /\ u = updates' /\ op = operation' /\ p = process' /\ h = updater' /\ w = homeWire'
  OBVIOUS
<1> DEFINE answer == IF operation = NoOperation /\ updates.bytes # NoVersion THEN Snapshot(updates) ELSE Refused
<1>1. /\ Requests /\ ~updater.working /\ updater.phase = "available"
      /\ h = [updater EXCEPT !.working = TRUE, !.phase = "downloading"]
      /\ \/ BeginDownload("home") /\ w = Published(homeWire) /\ p = [process EXCEPT !.declined = NoVersion]
         \/ /\ operation # NoOperation \/ updates.bytes # NoVersion \/ updates.candidate = NoVersion
            /\ w = Answered(homeWire, "command", answer)
            /\ UNCHANGED <<operation, updates, process>>
  BY <1>c DEF PressDownload
<1>2. /\ updater \in Updaters /\ process \in Processes /\ HomeWorks(updater, operation, homeWire.answers)
      /\ TRUE \in BOOLEAN /\ "command" \in Commands /\ updates \in NativeUpdates /\ homeWire \in HomeWires
      /\ AnswersAre(homeWire.answers, updates) /\ HomeIs(updater, homeWire, operation, updates, process)
      /\ UpdateIs(updates, operation) /\ NoVersion = 0 /\ 0 \in Nat
  BY UpdatesAreTyped, UpdateConstants
<1>3. h \in Updaters /\ h.working /\ (h.asking <=> updater.asking) /\ h.phase = "downloading"
  BY <1>1, <1>2 DEF Updaters, Phases
<1>4. /\ tally' \in [rounds : Nat, requests : Nat, starts : Nat] /\ UNCHANGED <<release, driver, installCard>>
      /\ process.runs /\ process.home
  BY <1>1, RequestCounts, HomeIsThere
<1>5. CASE BeginDownload("home") /\ w = Published(homeWire) /\ p = [process EXCEPT !.declined = NoVersion]
  <2>1. p \in Processes /\ p.declined = 0 /\ p.late = process.late /\ p.home = process.home /\ p.runs = process.runs
    BY <1>2, <1>5 DEF Processes
  <2>2. PICK v \in NativeUpdates, o \in Operations :
            /\ updates' = v /\ operation' = o /\ o.kind = "download" /\ o.for = "home"
            /\ UpdateIs(v, o) /\ DeclinedIs(v, o, p) /\ DateIs(v, release)
    BY <1>5, <2>1, DownloadBegins
  <2>3. u = v /\ op = o /\ operation = NoOperation
    BY <1>5, <1>c, <2>2 DEF BeginDownload
  <2>4. /\ u \in NativeUpdates /\ op \in Operations /\ op.kind = "download" /\ op.for = "home"
        /\ UpdateIs(u, op) /\ DeclinedIs(u, op, p) /\ DateIs(u, release)
    BY <2>2, <2>3
  <2>5. /\ op.kind \in {"check", "download", "install"} /\ op.for \in {"home", "tray"} /\ HomeAsks(op)
        /\ (h.working <=> updater.working \/ HomeAsks(op)) /\ (~HomeAsks(op) \/ ~updater.working)
        /\ (op.kind = "install" => h.asking) /\ p.home /\ p.runs /\ w = Published(homeWire)
    BY <1>1, <1>3, <1>4, <1>5, <2>1, <2>4 DEF HomeAsks
  <2>6. /\ w \in HomeWires /\ AnswersAre(w.answers, u) /\ HomeWorks(h, op, w.answers)
        /\ HomeIs(h, w, op, u, p) /\ TurnIs(driver, op, p, u)
    BY <1>4, <2>3, <2>5, BegunTells
  <2> QED
    BY <1>c, <1>3, <1>4, <2>1, <2>4, <2>6, HomeStep
<1>6. CASE /\ operation # NoOperation \/ updates.bytes # NoVersion \/ updates.candidate = NoVersion
           /\ w = Answered(homeWire, "command", answer)
           /\ UNCHANGED <<operation, updates, process>>
  <2>1. UNCHANGED <<release, driver, installCard, updates, operation, process>>
    BY <1>4, <1>6
  <2>2. ~HomeAsks(operation) /\ homeWire.answers["command"] = NoAnswer
    BY <1>1, <1>2 DEF HomeWorks
  <2>3. CASE operation = NoOperation /\ updates.bytes # NoVersion
    <3>1. w = Answered(homeWire, "command", Snapshot(updates))
      BY <1>6, <2>3
    <3>2. /\ (h.working <=> updater.working \/ "command" = "command")
          /\ ("command" = "command" => ~HomeAsks(operation))
          /\ (operation.kind = "install" /\ operation.for = "home" => h.asking)
      BY <1>2, <1>3, <2>2 DEF HomeWorks
    <3>3. /\ w \in HomeWires /\ AnswersAre(w.answers, updates) /\ HomeWorks(h, operation, w.answers)
          /\ HomeIs(h, w, operation, updates, process)
      BY <1>2, <1>4, <3>1, <3>2, AnsweredTells
    <3> QED
      BY <1>c, <1>3, <1>4, <2>1, <3>3, HomeOnly
  <2>4. CASE ~(operation = NoOperation /\ updates.bytes # NoVersion)
    <3>1. w = Answered(homeWire, "command", Refused)
      BY <1>6, <2>4
    <3>2. Refused \in Answers /\ Refused.phase = "refused" /\ Refused # NoAnswer
      BY UpdateConstants
    <3>3. /\ w \in HomeWires /\ (w.news <=> homeWire.news) /\ (w.overtaken <=> homeWire.overtaken)
          /\ w.answers["command"] = Refused
          /\ \A c \in Commands : c # "command" => w.answers[c] = homeWire.answers[c]
      BY <1>2, <3>1, <3>2, AnsweredIs
    <3>4. AnswersAre(w.answers, updates)
      BY <1>2, <3>2, <3>3 DEF AnswersAre
    <3>5. HomeWorks(h, operation, w.answers)
      BY <1>2, <1>3, <2>2, <3>2, <3>3 DEF HomeWorks
    <3>6. HomeIs(h, w, operation, updates, process)
      <4>1. CASE operation.kind = "none"
        <5>1. updates.phase # "available"
          BY <1>2, <1>6, <2>4, <4>1 DEF UpdateIs
        <5>2. homeWire.news \/ homeWire.overtaken \/ \E c \in Commands : Tells(homeWire.answers, c)
          BY <1>1, <1>2, <1>4, <4>1, <5>1 DEF HomeIs
        <5>3. ~Tells(homeWire.answers, "command")
          BY <2>2, UpdateConstants DEF Tells
        <5>4. w.news \/ w.overtaken \/ \E c \in Commands : Tells(w.answers, c)
          BY <3>3, <5>2, <5>3 DEF Tells
        <5> QED
          BY <1>4, <5>4 DEF HomeIs
      <4>2. CASE operation.kind # "none"
        BY <1>4, <4>2 DEF HomeIs
      <4> QED
        BY <4>1, <4>2
    <3> QED
      BY <1>c, <1>3, <1>4, <2>1, <3>3, <3>4, <3>5, <3>6, HomeOnly
  <2> QED
    BY <2>3, <2>4
<1> QED
  BY <1>1, <1>5, <1>6

LEMMA CancelledIs ==
    ASSUME UpdatesInv, updates.phase \notin {"installing", "checking"}, NEW u, u = Cancelled(updates)
    PROVE  /\ u \in NativeUpdates /\ u.candidate = updates.candidate /\ u.cancelled = updates.candidate
           /\ UpdateIs(u, operation)
           /\ operation.kind \in {"none", "download"} /\ u.bytes = NoVersion
           /\ operation.kind = "download" => u.handle = "fired"
<1>1. /\ updates \in NativeUpdates /\ operation \in Operations /\ UpdateIs(updates, operation) /\ NoVersion = 0
      /\ FALSE \in BOOLEAN /\ 0 \in Nat
  BY UpdatesAreTyped, UpdateConstants
<1>2. operation.kind \in {"none", "download"} /\ updates.version = updates.candidate /\ updates.version \in Nat
  BY <1>1 DEF UpdateIs, Operations, NativeUpdates
<1>3. CASE updates.handle = "armed"
  BY <1>3, <1>1, <1>2 DEF Cancelled, NativeUpdates, UpdateIs
<1>4. CASE updates.handle # "armed"
  <2>1. PICK phase : phase = IF updates.candidate # NoVersion THEN "available" ELSE updates.phase
    OBVIOUS
  <2>2. u = [updates EXCEPT !.cancelled = updates.version, !.bytes = NoVersion, !.failed = FALSE, !.phase = phase]
    BY <1>1, <1>4, <2>1 DEF Cancelled, NativeUpdates
  <2>3. phase \in Phases
    BY <1>1, <2>1 DEF NativeUpdates, Phases
  <2>4. /\ u \in NativeUpdates /\ u.candidate = updates.candidate /\ u.cancelled = updates.version
        /\ u.handle = updates.handle /\ u.version = updates.version /\ u.bytes = NoVersion /\ u.phase = phase
    BY <1>1, <1>2, <2>2, <2>3 DEF NativeUpdates
  <2>5. UpdateIs(u, operation)
    BY <1>1, <2>1, <1>2, <2>4 DEF UpdateIs, SettledPhases
  <2>6. operation.kind = "download" => u.handle = "fired"
    BY <1>1, <1>4, <2>4 DEF UpdateIs, NativeUpdates
  <2> QED
    BY <1>2, <2>4, <2>5, <2>6
<1> QED
  BY <1>3, <1>4

LEMMA CancelIsPressed == ASSUME UpdatesInv, PressCancel PROVE UpdatesInv'
<1>c. PICK u, op, p, h, w :
          /\ u = updates' /\ op = operation' /\ p = process' /\ h = updater' /\ w = homeWire'
  OBVIOUS
<1>1. /\ Requests /\ updater.phase \in {"downloading", "ready"} /\ h = updater /\ op = operation
      /\ IF updates.phase \in {"installing", "checking"}
         THEN UNCHANGED <<updates, process, homeWire>>
         ELSE /\ u = Cancelled(updates) /\ p = [process EXCEPT !.declined = updates.version]
              /\ w = Answered(Published(homeWire), "cancel", Snapshot(u))
  BY <1>c DEF PressCancel
<1>2. /\ updater \in Updaters /\ process \in Processes /\ HomeWorks(updater, operation, homeWire.answers)
      /\ "command" \in Commands /\ "cancel" \in Commands /\ "command" # "cancel"
      /\ updates \in NativeUpdates /\ homeWire \in HomeWires /\ operation \in Operations
      /\ AnswersAre(homeWire.answers, updates) /\ HomeIs(updater, homeWire, operation, updates, process)
      /\ UpdateIs(updates, operation) /\ NoVersion = 0 /\ 0 \in Nat /\ DateIs(updates, release)
      /\ TurnIs(driver, operation, process, updates) /\ process.home \in BOOLEAN
  BY UpdatesAreTyped, UpdateConstants
<1>3. /\ tally' \in [rounds : Nat, requests : Nat, starts : Nat] /\ UNCHANGED <<release, driver, installCard>>
      /\ process.runs /\ process.home
  BY <1>1, RequestCounts, HomeIsThere
<1>4. CASE updates.phase \in {"installing", "checking"}
  BY <1>1, <1>3, <1>4, <1>c, <1>2, HomeOnly
<1>5. CASE updates.phase \notin {"installing", "checking"}
  <2> DEFINE wire == Published(homeWire)
  <2>1. u = Cancelled(updates) /\ p = [process EXCEPT !.declined = updates.version]
        /\ w = Answered(wire, "cancel", Snapshot(u))
    BY <1>1, <1>5
  <2>2. /\ u \in NativeUpdates /\ u.candidate = updates.candidate /\ u.cancelled = updates.candidate
        /\ UpdateIs(u, operation)
        /\ operation.kind \in {"none", "download"} /\ u.bytes = NoVersion
        /\ (operation.kind = "download" => u.handle = "fired")
    BY <1>5, <2>1, CancelledIs
  <2>3. updates.version = updates.candidate /\ updates.version \in Nat
    BY <1>2 DEF UpdateIs, NativeUpdates
  <2>4. /\ p \in Processes /\ p.runs = process.runs /\ p.home = process.home /\ p.reopened = process.reopened
        /\ p.declined = updates.candidate
    BY <1>2, <2>1, <2>3 DEF Processes
  <2>5. DeclinedIs(u, operation, p)
    BY <1>2, <1>3, <2>2, <2>3, <2>4 DEF DeclinedIs
  <2>6. DateIs(u, release)
    BY <1>2, <2>2 DEF DateIs
  <2>7. TurnIs(driver, operation, p, u)
    BY <1>2, <1>3, <2>4 DEF TurnIs
  <2>8. wire \in HomeWires /\ (wire.news <=> process.home) /\ AnswersAre(wire.answers, u)
        /\ (wire.answers["command"] = NoAnswer <=> homeWire.answers["command"] = NoAnswer)
    BY <1>2, PublishedIs, NewsTell
  <2> HIDE DEF wire
  <2>9. /\ AnswersAre(w.answers, u) /\ w.answers["command"] = wire.answers["command"]
    BY <1>2, <2>1, <2>2, <2>8, AnswersTell
  <2>10. w \in HomeWires /\ (w.news <=> wire.news)
    BY <2>2, SnapshotTells, <1>2, <2>1, <2>8, AnsweredIs
  <2>11. HomeWorks(h, op, w.answers)
    BY <1>1, <1>2, <2>8, <2>9 DEF HomeWorks
  <2>12. HomeIs(h, w, op, u, p)
    BY <1>3, <2>4, <2>8, <2>10 DEF HomeIs
  <2>13. h \in Updaters /\ op \in Operations /\ op = operation
    BY <1>1, <1>2
  <2> QED
    BY <1>c, <1>3, <2>2, <2>4, <2>5, <2>6, <2>7, <2>9, <2>10, <2>11, <2>12, <2>13, HomeStep
<1> QED
  BY <1>4, <1>5

LEMMA InstallIsPressed == ASSUME UpdatesInv, PressInstall PROVE UpdatesInv'
<1>c. PICK h, w : h = updater' /\ w = homeWire'
  OBVIOUS
<1>1. /\ Requests /\ updater.phase = "ready" /\ h = [updater EXCEPT !.asking = TRUE] /\ w = homeWire
      /\ UNCHANGED <<operation, updates, process>>
  BY <1>c DEF PressInstall
<1>2. /\ updater \in Updaters /\ TRUE \in BOOLEAN /\ homeWire \in HomeWires /\ AnswersAre(homeWire.answers, updates)
      /\ HomeWorks(updater, operation, homeWire.answers) /\ HomeIs(updater, homeWire, operation, updates, process)
  BY UpdatesAreTyped
<1>3. /\ tally' \in [rounds : Nat, requests : Nat, starts : Nat] /\ UNCHANGED <<release, driver, installCard>>
      /\ process.home
  BY <1>1, RequestCounts, HomeIsThere
<1>4. h \in Updaters /\ h.asking /\ (h.working <=> updater.working) /\ h.phase = updater.phase /\ h.version = updater.version
  BY <1>1, <1>2 DEF Updaters
<1>5. HomeWorks(h, operation, w.answers) /\ w \in HomeWires /\ AnswersAre(w.answers, updates)
  BY <1>1, <1>2, <1>4 DEF HomeWorks
<1>6. HomeIs(h, w, operation, updates, process)
  BY <1>1, <1>2, <1>3, <1>4 DEF HomeIs
<1>7. UNCHANGED <<release, driver, installCard, updates, operation, process>>
  BY <1>1, <1>3
<1> QED
  BY <1>c, <1>3, <1>4, <1>5, <1>6, <1>7, HomeOnly

LEMMA PromptIsAnswered == ASSUME UpdatesInv, AnswerPrompt PROVE UpdatesInv'
<1>c. PICK u, op, p, h, w :
          /\ u = updates' /\ op = operation' /\ p = process' /\ h = updater' /\ w = homeWire'
  OBVIOUS
<1>1. /\ updater.asking /\ operation.kind # "install" /\ p = process
      /\ UNCHANGED <<release, driver, process, installCard>> /\ tally' = tally
      /\ \/ BeginInstall("home") /\ w = Published(homeWire) /\ h = updater
         \/ /\ h = [updater EXCEPT !.asking = FALSE] /\ w = Answered(homeWire, "read", Snapshot(updates))
            /\ UNCHANGED <<operation, updates>>
  BY <1>c DEF AnswerPrompt
<1>2. /\ updater \in Updaters /\ process \in Processes /\ HomeWorks(updater, operation, homeWire.answers)
      /\ FALSE \in BOOLEAN /\ "read" \in Commands /\ TurnIs(driver, operation, process, updates)
      /\ tally' \in [rounds : Nat, requests : Nat, starts : Nat]
  BY <1>1, UpdatesAreTyped
<1>3. process.home
  BY <1>1, HomeIsThere
<1>4. process.runs
  BY <1>2, <1>3 DEF TurnIs
<1>5. CASE BeginInstall("home") /\ w = Published(homeWire) /\ h = updater
  <2>1. "home" \in {"card", "home"}
    OBVIOUS
  <2>2. PICK v \in NativeUpdates, o \in Operations :
            /\ updates' = v /\ operation' = o /\ o.kind = "install" /\ o.for = "home"
            /\ UpdateIs(v, o) /\ DeclinedIs(v, o, process) /\ DateIs(v, release)
    BY <1>5, <2>1, InstallBegins
  <2>3. u = v /\ op = o /\ operation = NoOperation
    BY <1>5, <1>c, <2>2 DEF BeginInstall
  <2>4. /\ u \in NativeUpdates /\ op \in Operations /\ op.kind = "install" /\ op.for = "home"
        /\ UpdateIs(u, op) /\ DeclinedIs(u, op, p) /\ DateIs(u, release)
    BY <1>1, <2>2, <2>3
  <2>5. /\ op.kind \in {"check", "download", "install"} /\ op.for \in {"home", "tray"} /\ ~HomeAsks(op)
        /\ (h.working <=> updater.working \/ HomeAsks(op)) /\ (~HomeAsks(op) \/ ~updater.working)
        /\ (op.kind = "install" => h.asking) /\ p.home /\ p.runs /\ w = Published(homeWire)
    BY <1>1, <1>3, <1>4, <1>5, <2>4 DEF HomeAsks
  <2>6. /\ w \in HomeWires /\ AnswersAre(w.answers, u) /\ HomeWorks(h, op, w.answers)
        /\ HomeIs(h, w, op, u, p) /\ TurnIs(driver, op, p, u)
    BY <1>3, <2>3, <2>5, BegunTells
  <2>7. p \in Processes /\ p.runs = process.runs /\ h \in Updaters /\ UNCHANGED <<release, driver, installCard>>
    BY <1>1, <1>2, <1>5
  <2> QED
    BY <1>c, <1>2, <2>4, <2>6, <2>7, HomeStep
<1>6. CASE /\ h = [updater EXCEPT !.asking = FALSE] /\ w = Answered(homeWire, "read", Snapshot(updates))
           /\ UNCHANGED <<operation, updates>>
  <2>1. h \in Updaters /\ (h.working <=> updater.working)
    BY <1>2, <1>6 DEF Updaters
  <2>2. /\ (h.working <=> updater.working \/ "read" = "command") /\ ("read" = "command" => ~HomeAsks(operation))
        /\ (operation.kind = "install" /\ operation.for = "home" => h.asking)
    BY <1>1, <2>1
  <2>3. /\ w \in HomeWires /\ AnswersAre(w.answers, updates) /\ HomeWorks(h, operation, w.answers)
        /\ HomeIs(h, w, operation, updates, process)
    BY <1>2, <1>3, <1>6, <2>2, AnsweredTells
  <2>4. UNCHANGED <<release, driver, installCard, updates, operation, process>>
    BY <1>1, <1>6
  <2> QED
    BY <1>c, <1>2, <2>1, <2>3, <2>4, HomeOnly
<1> QED
  BY <1>1, <1>5, <1>6

LEMMA ReviewIsAsked == ASSUME UpdatesInv, Review PROVE UpdatesInv'
<1>c. PICK h, w : h = updater' /\ w = homeWire'
  OBVIOUS
<1>1. /\ Requests /\ process.home /\ w = Answered(homeWire, "read", Snapshot(updates)) /\ h = updater
      /\ UNCHANGED <<operation, updates, process>>
  BY <1>c DEF Review
<1>2. updater \in Updaters /\ HomeWorks(updater, operation, homeWire.answers) /\ "read" \in Commands
  BY UpdatesAreTyped
<1>3. tally' \in [rounds : Nat, requests : Nat, starts : Nat] /\ UNCHANGED <<release, driver, installCard>>
  BY <1>1, RequestCounts
<1>4. /\ (h.working <=> updater.working \/ "read" = "command") /\ ("read" = "command" => ~HomeAsks(operation))
      /\ (operation.kind = "install" /\ operation.for = "home" => h.asking)
  BY <1>1, <1>2 DEF HomeWorks
<1>5. /\ w \in HomeWires /\ AnswersAre(w.answers, updates) /\ HomeWorks(h, operation, w.answers)
      /\ HomeIs(h, w, operation, updates, process)
  BY <1>1, <1>2, <1>4, AnsweredTells
<1>6. UNCHANGED <<release, driver, installCard, updates, operation, process>> /\ h \in Updaters
  BY <1>1, <1>2, <1>3
<1> QED
  BY <1>c, <1>3, <1>5, <1>6, HomeOnly

LEMMA NewsIsHeard == ASSUME UpdatesInv, HearNews PROVE UpdatesInv'
<1>c. PICK h, w : h = updater' /\ w = homeWire'
  OBVIOUS
<1>1. /\ homeWire.news /\ h = [updater EXCEPT !.phase = updates.phase, !.version = updates.version]
      /\ w = [homeWire EXCEPT !.news = FALSE, !.overtaken = FALSE]
      /\ UNCHANGED <<release, driver, installCard, updates, operation, process>> /\ tally' = tally
  BY <1>c DEF HearNews
<1>2. /\ updater \in Updaters /\ FALSE \in BOOLEAN /\ homeWire \in HomeWires /\ AnswersAre(homeWire.answers, updates)
      /\ HomeWorks(updater, operation, homeWire.answers) /\ updates \in NativeUpdates
      /\ tally' \in [rounds : Nat, requests : Nat, starts : Nat]
  BY <1>1, UpdatesAreTyped
<1>3. process.home
  BY <1>1, HomeIsThere
<1>4. /\ h \in Updaters /\ (h.asking <=> updater.asking) /\ (h.working <=> updater.working)
      /\ h.phase = updates.phase /\ h.version = updates.version
  BY <1>1, <1>2 DEF Updaters, NativeUpdates
<1>5. w \in HomeWires /\ w.answers = homeWire.answers
  BY <1>1, <1>2 DEF HomeWires
<1>6. HomeWorks(h, operation, w.answers) /\ AnswersAre(w.answers, updates)
  BY <1>2, <1>4, <1>5 DEF HomeWorks
<1>7. HomeIs(h, w, operation, updates, process)
  BY <1>3, <1>4 DEF HomeIs
<1> QED
  BY <1>c, <1>1, <1>2, <1>4, <1>5, <1>6, <1>7, HomeOnly

LEMMA AnswerIsHeard == ASSUME UpdatesInv, NEW c \in Commands, HearAnswer(c) PROVE UpdatesInv'
<1>c. PICK h, w : h = updater' /\ w = homeWire'
  OBVIOUS
<1>a. PICK answer : answer = homeWire.answers[c]
  OBVIOUS
<1>b. PICK shown \in BOOLEAN : shown <=> answer.phase # "refused" /\ (c = "first" => homeWire.news \/ ~answer.stale)
  OBVIOUS
<1>2. /\ updater \in Updaters /\ TRUE \in BOOLEAN /\ homeWire \in HomeWires /\ AnswersAre(homeWire.answers, updates)
      /\ HomeWorks(updater, operation, homeWire.answers) /\ updates \in NativeUpdates /\ "command" \in Commands
      /\ HomeIs(updater, homeWire, operation, updates, process) /\ NoAnswer.phase = "none"
      /\ NoAnswer \in Answers
  BY UpdatesAreTyped, UpdateConstants
<1>3. answer \in Answers
  BY <1>2, <1>a DEF HomeWires
<1>1. /\ answer # NoAnswer
      /\ UNCHANGED <<release, driver, installCard, updates, operation, process>> /\ tally' = tally
      /\ h = [updater EXCEPT !.phase = IF shown THEN answer.phase ELSE updater.phase,
                             !.version = IF shown THEN answer.version ELSE updater.version,
                             !.working = updater.working /\ c # "command"]
      /\ w = [homeWire EXCEPT !.answers[c] = NoAnswer,
                              !.overtaken = IF shown THEN answer.stale /\ ~homeWire.news ELSE homeWire.overtaken]
  BY <1>a, <1>b, <1>c, <1>2 DEF HearAnswer, Updaters, HomeWires
<1>4. process.home
  BY <1>1, <1>a, HomeIsThere
<1>5. answer.phase # "none"
  BY <1>1, <1>2, <1>a DEF AnswersAre
<1>6. /\ h \in Updaters /\ (h.asking <=> updater.asking) /\ (h.working <=> updater.working /\ c # "command")
      /\ shown => h.phase = answer.phase /\ h.version = answer.version
      /\ ~shown => h.phase = updater.phase /\ h.version = updater.version
  <2>a. PICK phase : phase = IF shown THEN answer.phase ELSE updater.phase
    OBVIOUS
  <2>b. PICK version : version = IF shown THEN answer.version ELSE updater.version
    OBVIOUS
  <2>d. PICK working \in BOOLEAN : working = (updater.working /\ c # "command")
    OBVIOUS
  <2>1. /\ phase = IF shown THEN answer.phase ELSE updater.phase
        /\ version = IF shown THEN answer.version ELSE updater.version
        /\ working = (updater.working /\ c # "command")
    BY <2>a, <2>b, <2>d
  <2>2. phase \in Phases \cup {"disabled"}
    BY <1>3, <1>5, <1>b, <2>1, <1>2 DEF Answers, Updaters
  <2>3. version \in Nat
    BY <1>2, <1>3, <2>1 DEF Answers, Updaters
  <2>4. h = [updater EXCEPT !.phase = phase, !.version = version, !.working = working]
    BY <1>1, <2>1
  <2>5. h \in Updaters /\ h.asking = updater.asking /\ h.working = working /\ h.phase = phase /\ h.version = version
    BY <1>2, <2>2, <2>3, <2>4 DEF Updaters
  <2> QED
    BY <2>1, <2>5
<1>7. /\ w \in HomeWires /\ (w.news <=> homeWire.news) /\ w.answers[c] = NoAnswer
      /\ \A e \in Commands : e # c => w.answers[e] = homeWire.answers[e]
      /\ shown => (w.overtaken <=> answer.stale /\ ~homeWire.news)
      /\ ~shown => (w.overtaken <=> homeWire.overtaken)
  <2> DEFINE answers == [homeWire.answers EXCEPT ![c] = NoAnswer]
  <2>1. PICK overtaken \in BOOLEAN :
            overtaken = IF shown THEN answer.stale /\ ~homeWire.news ELSE homeWire.overtaken
    BY <1>2, <1>3 DEF HomeWires, Answers
  <2>2. w = [homeWire EXCEPT !.answers = answers, !.overtaken = overtaken]
    BY <1>1, <1>2, <2>1 DEF HomeWires
  <2>3. answers \in [Commands -> Answers] /\ answers[c] = NoAnswer
        /\ \A e \in Commands : e # c => answers[e] = homeWire.answers[e]
    BY <1>2 DEF HomeWires
  <2> HIDE DEF answers
  <2>4. w \in HomeWires /\ w.answers = answers /\ w.overtaken = overtaken /\ w.news = homeWire.news
    BY <1>2, <2>2, <2>3 DEF HomeWires
  <2> QED
    BY <2>1, <2>3, <2>4
<1>8. HomeWorks(h, operation, w.answers)
  BY <1>1, <1>2, <1>6, <1>7, <1>a DEF HomeWorks
<1>9. AnswersAre(w.answers, updates)
  BY <1>2, <1>7 DEF AnswersAre
<1>10. HomeIs(h, w, operation, updates, process)
  BY <1>4, <1>7, <1>2, <1>5, <1>a, <1>b, <1>6 DEF HomeIs, AnswersAre, Tells
<1>11. tally' \in [rounds : Nat, requests : Nat, starts : Nat]
  BY <1>1, UpdatesAreTyped
<1> QED
  BY <1>c, <1>1, <1>6, <1>7, <1>8, <1>9, <1>10, <1>11, HomeOnly

LEMMA UpdatesStart == DesktopUpdatesInit => UpdatesInv
<1> SUFFICES ASSUME DesktopUpdatesInit PROVE UpdatesInv
  OBVIOUS
<1>1. /\ release = [offered |-> NoVersion, installed |-> NoVersion] /\ process = Start(FALSE, TRUE)
      /\ updates = FirstUpdates /\ operation = NoOperation /\ driver = "card"
      /\ installCard = [at |-> "none", installs |-> NoVersion, unwatched |-> FALSE]
      /\ updater = FirstHome /\ homeWire = NoWire /\ tally = [rounds |-> 0, requests |-> 0, starts |-> 0]
  BY DEF DesktopUpdatesInit
<1>2. /\ FirstUpdates \in NativeUpdates /\ FirstUpdates.phase = "idle" /\ FirstUpdates.version = 0
      /\ FirstUpdates.candidate = 0 /\ FirstUpdates.bytes = 0 /\ FirstUpdates.handle = "none"
      /\ NoOperation \in Operations /\ NoOperation.kind = "none" /\ NoOperation.for = "none"
      /\ FirstHome \in Updaters /\ ~FirstHome.working /\ ~FirstHome.asking
      /\ NoVersion = 0 /\ NoAnswer.phase = "none" /\ FALSE \in BOOLEAN /\ TRUE \in BOOLEAN
      /\ NoWire \in HomeWires /\ ~NoWire.news /\ (\A c \in Commands : NoWire.answers[c] = NoAnswer)
      /\ "command" \in Commands
  BY UpdateConstants DEF Commands
<1>3. process \in Processes /\ process.runs /\ ~process.home /\ ~process.reopened /\ process.declined = 0
  BY <1>1, <1>2, StartedIs
<1>4. /\ release \in [offered : Nat, installed : Nat] /\ driver \in DriverPlaces
      /\ tally \in [rounds : Nat, requests : Nat, starts : Nat]
  BY <1>1, <1>2 DEF DriverPlaces, CardPlaces
<1>5. installCard \in InstallCards /\ CardIs(installCard, process)
  BY <1>1, <1>2, <1>3 DEF InstallCards, CardIs
<1>6. UpdateTypes
  BY <1>1, <1>2, <1>3, <1>4, <1>5 DEF UpdateTypes
<1>7. UpdateIs(updates, operation) /\ DateIs(updates, release)
  BY <1>1, <1>2 DEF UpdateIs, DateIs, SettledPhases
<1>8. DeclinedIs(updates, operation, process)
  BY <1>1, <1>2, <1>3 DEF DeclinedIs
<1>9. TurnIs(driver, operation, process, updates)
  BY <1>1, <1>2, <1>3 DEF TurnIs, CardPlaces
<1>10. HomeWorks(updater, operation, homeWire.answers)
  BY <1>1, <1>2 DEF HomeWorks, HomeAsks
<1>11. AnswersAre(homeWire.answers, updates)
  BY <1>1, <1>2 DEF AnswersAre
<1>12. HomeIs(updater, homeWire, operation, updates, process)
  BY <1>1, <1>2, <1>3 DEF HomeIs
<1> QED
  BY <1>5, <1>6, <1>7, <1>8, <1>9, <1>10, <1>11, <1>12 DEF UpdatesInv

LEMMA UpdatesStay == UpdatesInv /\ [DesktopUpdatesNext]_updateVars => UpdatesInv'
<1> SUFFICES ASSUME UpdatesInv, [DesktopUpdatesNext]_updateVars PROVE UpdatesInv'
  OBVIOUS
<1>1. CASE OperationSettles
  BY <1>1, CheckSettles, DownloadSettles DEF OperationSettles
<1>2. CASE LaunchCard \/ InstallAtLaunch
  BY <1>2, CardLaunches
<1>3. CASE OpenHome
  BY <1>3, HomeOpens
<1>4. CASE WakeUp
  BY <1>4, TaskWakesUp
<1>5. CASE DownloadInBackground
  BY <1>5, TaskDownloads
<1>6. CASE InstallRefused \/ InstallAccepted \/ InstallerEnds \/ ReopenedByCard \/ CardCloses \/ MemberStarts
  BY <1>6, InstallIsRefused, InstallIsAccepted, InstallerIsOver, CardReopens, CardIsClosed, MemberStartsApp
<1>7. CASE HomeNext
  BY <1>7, CheckIsPressed, TrayIsPressed, DownloadIsPressed, CancelIsPressed, InstallIsPressed,
     PromptIsAnswered, ReviewIsAsked, NewsIsHeard, AnswerIsHeard DEF HomeNext
<1>8. CASE UNCHANGED updateVars
  BY <1>8, UpdatesAreTyped, HomeOnly DEF updateVars
<1> QED
  BY <1>1, <1>2, <1>3, <1>4, <1>5, <1>6, <1>7, <1>8 DEF DesktopUpdatesNext, Installs

\* What Home shows once nothing is under way, and what is installed.
LEMMA UpdatesKeep == UpdatesInv => UpdatesHold
<1> SUFFICES ASSUME UpdatesInv PROVE UpdatesHold
  OBVIOUS
<1>1. /\ updates \in NativeUpdates /\ operation \in Operations
      /\ UpdateIs(updates, operation) /\ DeclinedIs(updates, operation, process)
      /\ TurnIs(driver, operation, process, updates) /\ CardIs(installCard, process)
      /\ HomeWorks(updater, operation, homeWire.answers) /\ AnswersAre(homeWire.answers, updates)
      /\ HomeIs(updater, homeWire, operation, updates, process) /\ "command" \in Commands
      /\ NoOperation.kind = "none" /\ NoAnswer.phase = "none"
  BY UpdatesAreTyped, UpdateConstants
<1>2. HomeTellsTheUpdate
  <2> SUFFICES ASSUME operation = NoOperation, process.home
               PROVE  /\ updates.phase \in {"idle", "current", "available", "ready", "error"}
                      /\ (updates.phase = "ready") <=> (updates.bytes # NoVersion)
                      /\ updates.phase = "available" => updates.candidate # NoVersion
                      /\ \/ homeWire.news \/ homeWire.overtaken
                         \/ \E c \in Commands : homeWire.answers[c] # NoAnswer
                         \/ updater.phase = updates.phase /\ updater.version = updates.version /\ ~updater.working
    BY DEF HomeTellsTheUpdate
  <2>1. /\ updates.phase \in {"idle", "current", "available", "ready", "error"}
        /\ (updates.phase = "ready") <=> (updates.bytes # NoVersion)
        /\ updates.phase = "available" => updates.candidate # NoVersion
    BY <1>1 DEF UpdateIs, SettledPhases
  <2>2. updater.working => homeWire.answers["command"] # NoAnswer
    BY <1>1 DEF HomeWorks, HomeAsks
  <2>3. \A c \in Commands : Tells(homeWire.answers, c) => homeWire.answers[c] # NoAnswer
    BY <1>1 DEF Tells
  <2>4. \/ homeWire.news \/ homeWire.overtaken
        \/ \E c \in Commands : homeWire.answers[c] # NoAnswer
        \/ updater.phase = updates.phase /\ updater.version = updates.version /\ ~updater.working
    BY <1>1, <2>2, <2>3 DEF HomeIs
  <2> QED
    BY <2>1, <2>4
<1>3. UpdatesAreConsented
  BY <1>1 DEF UpdateIs, TurnIs, HomeWorks, DeclinedIs, CardIs, UpdatesAreConsented
<1> QED
  BY <1>2, <1>3 DEF UpdatesHold

(* Whatever is pressed, fetched, cancelled, published and answered in whatever *)
(* order: what Home shows of an update once nothing is under way is what there *)
(* is or is overtaken by what is on its way, Install is offered for a verified *)
(* download alone, what is installed is what the member consented to, and what *)
(* was declined is not (updates.rs, runtime.rs, launch.rs, main.ts). *)
THEOREM UpdatesHoldAlways == DesktopUpdatesSpec => []UpdatesHold
<1>1. DesktopUpdatesInit => UpdatesInv
  BY UpdatesStart
<1>2. UpdatesInv /\ [DesktopUpdatesNext]_updateVars => UpdatesInv'
  BY UpdatesStay
<1>3. UpdatesInv => UpdatesHold
  BY UpdatesKeep
<1> QED
  BY <1>1, <1>2, <1>3, PTL DEF DesktopUpdatesSpec

------------------------
(* The desktop app's windows.  What Home shows is what there is unless it is *)
(* under way: an event, an answer or the end of its command; a window that is *)
(* taken in is the one that the member asked for last. *)
Sites == Places \cup {NoPlace}
Links == (Places \X Nat) \cup {NoPlace}
Shots == Sites \X BOOLEAN
Natives ==
    [active : Sites, loading : BOOLEAN, latest : BOOLEAN, ready : BOOLEAN, timer : BOOLEAN,
     homeRequested : BOOLEAN, link : Links, runs : BOOLEAN]
Windows == [place : Sites, call : BOOLEAN]
Answering == {"done", "failed", "cancelled", "confirmation"}
FlowPlaces == {"none", "report", "question", "sent", "health", "native"} \cup Answering
Flows ==
    [kind : {"none", "connect", "link", "disconnect", "quit"}, place : Sites, reload : BOOLEAN, at : FlowPlaces,
     confirmed : BOOLEAN, latest : BOOLEAN, link : Links, shown : Shots \cup {<<>>}]
HomePages ==
    [active : Sites, loading : BOOLEAN, target : Sites, received : Sites, failed : Sites, link : Links,
     deferred : Links, offered : Links, quits : BOOLEAN, stale : BOOLEAN, misled : BOOLEAN]
EventKinds == {"show-home", "ready", "load-failed", "link", "quit"}
HomeEvents == [kind : EventKinds, place : Sites, snapshot : Shots]
Questions == {"cancel", "read"}
Deciding == [wants : Sites, choices : Nat, calls : Nat, expired : BOOLEAN]

\* The window there is.
NativeIs(n, r) ==
    /\ n.loading => ~n.ready /\ (n.timer \/ n.active = NoPlace)
    /\ r.place = n.active /\ (r.call => n.ready /\ n.runs /\ r.place # NoPlace)

Opening(f) == f.kind \in Opens
FlowIs(f) ==
    /\ f.kind = "none" <=> f = NoFlow
    /\ f.at = "none" => f = NoFlow
    /\ Opening(f) => f.at # "native" /\ f.place # NoPlace
    /\ f.kind \in {"disconnect", "quit"} => f.at \in {"report", "question", "native", "done", "confirmation"}
    /\ f.at = "done" => f.shown \in Shots
    /\ f.at = "done" /\ ~Opening(f) => f.shown = <<NoPlace, FALSE>>

Coming(events, kinds) == \E i \in 1..Len(events) : events[i].kind \in kinds
Clearing == {"show-home", "ready", "load-failed"}
Telling == {"ready", "load-failed"}

\* A link is taken up once, by the event it came with.
Aged(link, n) == link # NoPlace => link[2] <= n
LinkIs(n, f, h, events, count) ==
    /\ Aged(n.link, count) /\ Aged(f.link, count) /\ Aged(h.link, count) /\ Aged(h.deferred, count)
    /\ n.link # NoPlace => Coming(events, {"link"}) /\ n.link # h.link /\ n.link # h.deferred /\ n.link # f.link
    /\ h.offered # NoPlace =>
           h.link = h.offered /\ n.link = NoPlace /\ h.deferred # h.offered /\ (f.kind = "link" => f.link # h.offered)

\* What the loading screen waits for.
OnItsWay(f, h) ==
    \/ f.at \in {"sent", "health"}
    \/ f.at \in Answering /\ f.latest /\ (f.at = "done" => ~f.shown[2] \/ h.received = f.shown[1])
TargetIs(n, f, h, events) ==
    /\ n.runs /\ h.target # NoPlace =>
           (n.loading /\ n.active # NoPlace) \/ Coming(events, Clearing) \/ (Opening(f) /\ OnItsWay(f, h))
    /\ f.kind = "disconnect" => h.target = NoPlace
    /\ Opening(f) /\ f.at \in {"sent", "health"} \cup Answering /\ ~f.latest => h.target = NoPlace

\* What Home knows of the Installation that is open.
Underway(events, answers) == Coming(events, Telling) \/ \E c \in Questions : answers[c] # NoReply
Current(f) == Opening(f) => f.latest
SaysReady(e) == e.kind = "ready" => e.snapshot = <<e.place, FALSE>>
ReadySays(events) == \A i \in 1..Len(events) : SaysReady(events[i])
Arrived(f, h) == IF Opening(f) THEN Latest(h, f) ELSE f.shown
KnownIs(n, f, h, events, answers) ==
    /\ n.runs => \/ <<h.active, h.loading>> = ShellSnapshot(n) \/ h.stale \/ Underway(events, answers)
                 \/ f.at = "done" /\ Current(f)
    /\ n.runs /\ f.at = "done" /\ Current(f) =>
           /\ h.misled \/ Coming(events, {"ready"}) \/ Arrived(f, h) = ShellSnapshot(n)
           /\ n.active = f.shown[1]
    /\ Opening(f) /\ f.at \in {"sent", "health"} /\ h.received # NoPlace => h.misled
    /\ Opening(f) /\ f.latest /\ f.at \in {"health"} \cup Answering => answers["cancel"] # Waiting
    /\ ReadySays(events)

\* Whose word a window follows.
WordIs(n, r, f, d) ==
    /\ Opening(f) /\ f.latest /\ f.at \in {"sent", "health"} => d.wants = f.place \/ n.homeRequested
    /\ n.loading /\ n.latest => d.wants = n.active \/ n.homeRequested
    /\ ~n.ready /\ ~n.loading /\ r.place # NoPlace => d.expired

WindowsAre(n, r, fr, f, h, ev, rep, d) ==
    /\ n \in Natives /\ r \in Windows /\ fr \in {"home", "remote", "hidden"} /\ f \in Flows
    /\ h \in HomePages /\ ev \in Seq(HomeEvents)
    /\ rep \in [Questions -> Shots \cup {NoReply, Waiting}] /\ d \in Deciding
    /\ NativeIs(n, r) /\ FlowIs(f) /\ LinkIs(n, f, h, ev, d.choices) /\ TargetIs(n, f, h, ev)
    /\ KnownIs(n, f, h, ev, rep) /\ WordIs(n, r, f, d)

WindowsInv == WindowsAre(native, remote, front, flow, homePage, toHome, replies, decided)

LEMMA WindowConstants ==
    /\ NoFlow \in Flows /\ NoFlow.kind = "none" /\ NoFlow.at = "none" /\ NoFlow.link = NoPlace /\ ~NoFlow.latest
    /\ ~NoFlow.confirmed /\ NoFlow.place = NoPlace
    /\ NoWindow \in Windows /\ NoWindow.place = NoPlace /\ ~NoWindow.call
    /\ NoReply # Waiting /\ NoReply \notin Shots /\ Waiting \notin Shots
    /\ NoPlace \in Sites /\ NoPlace \in Links /\ NoPlace \notin Places
    /\ TRUE \in BOOLEAN /\ FALSE \in BOOLEAN /\ "cancel" \in Questions /\ "read" \in Questions
    /\ ~Opening(NoFlow)
<1>1. NoPlace \in Sites /\ NoPlace \in Links /\ NoPlace \notin Places
  BY DesktopWindowsAssumption DEF Sites, Links
<1>2. <<>> \in Shots \cup {<<>>} /\ FALSE \in BOOLEAN /\ TRUE \in BOOLEAN
  OBVIOUS
<1>3. /\ NoFlow \in Flows /\ NoFlow.kind = "none" /\ NoFlow.at = "none" /\ NoFlow.link = NoPlace /\ ~NoFlow.latest
      /\ ~NoFlow.confirmed /\ NoFlow.place = NoPlace
  BY <1>1, <1>2 DEF NoFlow, Flows, FlowPlaces
<1>4. NoWindow \in Windows /\ NoWindow.place = NoPlace /\ ~NoWindow.call
  BY <1>1 DEF NoWindow, Windows
<1>5. NoReply # Waiting /\ NoReply \notin Shots /\ Waiting \notin Shots
  BY DEF Shots, NoReply, Waiting
<1>6. ~Opening(NoFlow)
  BY <1>3 DEF Opening, Opens
<1> QED
  BY <1>1, <1>2, <1>3, <1>4, <1>5, <1>6 DEF Questions

\* Snapshots.
LEMMA SnapshotIs ==
    ASSUME NEW n \in Natives
    PROVE  /\ ShellSnapshot(n) \in Shots /\ ShellSnapshot(n)[1] = n.active /\ ShellSnapshot(n)[2] = n.loading
           /\ ShellSnapshot(n) # NoReply /\ ShellSnapshot(n) # Waiting
BY WindowConstants DEF Natives, ShellSnapshot, Shots

LEMMA EventIs ==
    ASSUME NEW kind \in EventKinds, NEW place \in Sites
    PROVE  LET e == Event(kind, place) IN
           /\ e \in HomeEvents /\ e.kind = kind /\ e.place = place /\ e.snapshot = <<place, FALSE>>
           /\ SaysReady(e)
<1>1. <<place, FALSE>> \in Shots
  BY DEF Shots
<1>2. PICK shot \in Shots : shot = <<place, FALSE>>
  BY <1>1
<1>3. Event(kind, place) = [kind |-> kind, place |-> place, snapshot |-> shot]
  BY <1>2 DEF Event
<1> DEFINE e == [kind |-> kind, place |-> place, snapshot |-> shot]
<1>4. e \in HomeEvents /\ e.kind = kind /\ e.place = place /\ e.snapshot = shot
  BY DEF HomeEvents
<1> HIDE DEF e
<1>5. SaysReady(e) /\ Event(kind, place) = e
  BY <1>2, <1>3, <1>4 DEF SaysReady, e
<1> QED
  BY <1>2, <1>4, <1>5

\* Events are appended, and heard from the front.
LEMMA EventsGrow ==
    ASSUME NEW ev \in Seq(HomeEvents), NEW e \in HomeEvents,
           ReadySays(ev), SaysReady(e)
    PROVE  /\ ev \o <<e>> \in Seq(HomeEvents) /\ ReadySays(ev \o <<e>>)
           /\ \A kinds : Coming(ev, kinds) => Coming(ev \o <<e>>, kinds)
           /\ \A kinds : e.kind \in kinds => Coming(ev \o <<e>>, kinds)
<1> DEFINE w == ev \o <<e>>
<1>1. /\ w \in Seq(HomeEvents) /\ Len(w) = Len(ev) + 1 /\ Len(ev) \in Nat
      /\ \A i \in 1..Len(ev) : w[i] = ev[i]
      /\ w[Len(ev) + 1] = e
  <2>1. w = Append(ev, e)
    BY AppendIsConcat
  <2> HIDE DEF w
  <2>2. Len(ev) \in Nat
    BY LenProperties
  <2> QED
    BY <2>1, <2>2, AppendProperties
<1> HIDE DEF w
<1>2. ReadySays(w)
  BY <1>1 DEF ReadySays
<1>3. ASSUME NEW kinds, Coming(ev, kinds) PROVE Coming(w, kinds)
  BY <1>1, <1>3 DEF Coming
<1>4. ASSUME NEW kinds, e.kind \in kinds PROVE Coming(w, kinds)
  BY <1>1, <1>4 DEF Coming
<1> QED
  BY <1>1, <1>2, <1>3, <1>4 DEF w

LEMMA EventsShrink ==
    ASSUME NEW ev \in Seq(HomeEvents), ev # <<>>, ReadySays(ev)
    PROVE  /\ Tail(ev) \in Seq(HomeEvents) /\ ReadySays(Tail(ev)) /\ Head(ev) \in HomeEvents
           /\ SaysReady(Head(ev))
           /\ \A kinds : Coming(ev, kinds) => Head(ev).kind \in kinds \/ Coming(Tail(ev), kinds)
<1> DEFINE w == Tail(ev)
<1>1. /\ w \in Seq(HomeEvents) /\ Len(ev) \in Nat /\ Len(ev) > 0 /\ Len(w) = Len(ev) - 1
      /\ \A i \in 1..Len(w) : w[i] = ev[i + 1]
      /\ Head(ev) = ev[1] /\ ev[1] \in HomeEvents
  BY LenProperties, EmptySeq, HeadTailProperties
<1> HIDE DEF w
<1>2. ReadySays(w) /\ SaysReady(Head(ev))
  BY <1>1 DEF ReadySays
<1>3. ASSUME NEW kinds, Coming(ev, kinds) PROVE Head(ev).kind \in kinds \/ Coming(w, kinds)
  <2>1. PICK i \in 1..Len(ev) : ev[i].kind \in kinds
    BY <1>3 DEF Coming
  <2>2. CASE i = 1
    BY <1>1, <2>1, <2>2
  <2>3. CASE i # 1
    <3>1. i - 1 \in 1..Len(w) /\ w[i - 1] = ev[i]
      BY <1>1, <2>1, <2>3
    <3> QED
      BY <2>1, <3>1 DEF Coming
  <2> QED
    BY <2>2, <2>3
<1> QED
  BY <1>1, <1>2, <1>3 DEF w

LEMMA WindowsStep ==
    ASSUME NEW n, NEW r, NEW fr, NEW f, NEW h, NEW ev, NEW rep, NEW d,
           n = native', r = remote', fr = front', f = flow', h = homePage', ev = toHome', rep = replies', d = decided',
           WindowsAre(n, r, fr, f, h, ev, rep, d)
    PROVE  WindowsInv'
BY DEF WindowsInv

\* Leaving an Installation; what is served of that is the same whoever asked.
LEMMA LeftIs ==
    ASSUME NEW n \in Natives
    PROVE  /\ Left(n) \in Natives /\ Left(n).active = NoPlace /\ ~Left(n).loading /\ ~Left(n).ready /\ ~Left(n).timer
           /\ Left(n).link = n.link /\ (Left(n).runs <=> n.runs) /\ (Left(n).latest <=> n.latest)
           /\ (Left(n).homeRequested <=> n.homeRequested)
BY WindowConstants DEF Left, Natives

\* The member's choices are counted.
LEMMA ActedIs ==
    ASSUME NEW d \in Deciding, NEW acted, acted = [d EXCEPT !.choices = @ + 1]
    PROVE  /\ acted \in Deciding /\ acted.choices = d.choices + 1 /\ acted.wants = d.wants
           /\ (acted.expired <=> d.expired) /\ d.choices \in Nat
BY DEF Deciding

LEMMA LinksStayAged ==
    ASSUME NEW link \in Links, NEW count \in Nat, Aged(link, count)
    PROVE  Aged(link, count + 1)
BY DEF Aged, Links

LEMMA ActedKeeps ==
    ASSUME NEW n, NEW r, NEW fr, NEW f, NEW h, NEW ev, NEW rep, NEW d, WindowsAre(n, r, fr, f, h, ev, rep, d),
           NEW acted, acted = [d EXCEPT !.choices = @ + 1]
    PROVE  WindowsAre(n, r, fr, f, h, ev, rep, acted)
BY ActedIs, LinksStayAged DEF WindowsAre, Natives, Flows, HomePages, LinkIs, WordIs

LEMMA WindowsAreTyped ==
    ASSUME WindowsInv
    PROVE  /\ native \in Natives /\ remote \in Windows /\ front \in {"home", "remote", "hidden"} /\ flow \in Flows
           /\ homePage \in HomePages /\ toHome \in Seq(HomeEvents)
           /\ replies \in [Questions -> Shots \cup {NoReply, Waiting}] /\ decided \in Deciding
           /\ NativeIs(native, remote) /\ FlowIs(flow)
           /\ LinkIs(native, flow, homePage, toHome, decided.choices)
           /\ TargetIs(native, flow, homePage, toHome)
           /\ KnownIs(native, flow, homePage, toHome, replies) /\ WordIs(native, remote, flow, decided)
           /\ ReadySays(toHome)
           /\ native.active \in Sites /\ native.loading \in BOOLEAN /\ flow.latest \in BOOLEAN
BY DEF WindowsInv, WindowsAre, KnownIs, Natives, Flows

\* The attempt is answered at once, or goes on to the address.
LEMMA AttemptStarts == ASSUME WindowsInv, ConnectStarts PROVE WindowsInv'
<1>c. PICK n, r, fr, f, h, ev, rep, d :
          /\ n = native' /\ r = remote' /\ fr = front' /\ f = flow' /\ h = homePage' /\ ev = toHome'
          /\ rep = replies' /\ d = decided'
  OBVIOUS
<1>t. /\ native \in Natives /\ remote \in Windows /\ front \in {"home", "remote", "hidden"} /\ flow \in Flows
      /\ homePage \in HomePages /\ toHome \in Seq(HomeEvents)
      /\ replies \in [Questions -> Shots \cup {NoReply, Waiting}] /\ decided \in Deciding
      /\ NativeIs(native, remote) /\ FlowIs(flow)
      /\ LinkIs(native, flow, homePage, toHome, decided.choices)
      /\ TargetIs(native, flow, homePage, toHome)
      /\ KnownIs(native, flow, homePage, toHome, replies) /\ WordIs(native, remote, flow, decided)
      /\ native.active \in Sites /\ native.loading \in BOOLEAN /\ flow.latest \in BOOLEAN
  BY WindowsAreTyped
<1>1. /\ r = remote /\ h = homePage /\ ev = toHome /\ rep = replies /\ d = decided
      /\ flow.at = "sent" /\ native.runs /\ (flow.latest => replies["cancel"] # Waiting)
      /\ \/ /\ native.active = flow.place
            /\ n = [native EXCEPT !.latest = IF native.loading THEN flow.latest ELSE native.latest]
            /\ fr = (IF native.loading THEN front ELSE "remote")
            /\ f = [flow EXCEPT !.at = "done", !.shown = ShellSnapshot(native)]
         \/ f = [flow EXCEPT !.at = "health"] /\ n = native /\ fr = front
  BY <1>c, <1>t DEF ConnectStarts, Natives
<1>2. Opening(flow) /\ flow.place # NoPlace
  BY <1>1, <1>t, WindowConstants DEF FlowIs, Opening, Opens, Flows
<1>3. CASE /\ native.active = flow.place
           /\ n = [native EXCEPT !.latest = IF native.loading THEN flow.latest ELSE native.latest]
           /\ fr = (IF native.loading THEN front ELSE "remote")
           /\ f = [flow EXCEPT !.at = "done", !.shown = ShellSnapshot(native)]
  <2>s. /\ ShellSnapshot(native) \in Shots /\ ShellSnapshot(native)[1] = native.active
        /\ ShellSnapshot(native)[2] = native.loading
    BY <1>t, SnapshotIs
  <2>1. /\ n \in Natives /\ n.active = native.active /\ n.loading = native.loading /\ n.ready = native.ready
        /\ n.timer = native.timer /\ n.homeRequested = native.homeRequested /\ n.link = native.link
        /\ n.runs = native.runs /\ (native.loading => n.latest = flow.latest)
    BY <1>t, <1>3 DEF Natives
  <2>2. /\ f \in Flows /\ f.kind = flow.kind /\ f.place = flow.place /\ f.at = "done" /\ f.latest = flow.latest
        /\ f.link = flow.link /\ f.shown = ShellSnapshot(native) /\ f.confirmed = flow.confirmed
    BY <1>3, <1>t, <2>s DEF Flows, FlowPlaces, Answering
  <2>3. ShellSnapshot(n) = ShellSnapshot(native)
    BY <2>1 DEF ShellSnapshot
  <2>4. Opening(f) /\ fr \in {"home", "remote", "hidden"}
    BY <1>2, <1>3, <1>t, <2>2 DEF Opening
  <2>5. NativeIs(n, r)
    BY <1>1, <1>t, <2>1 DEF NativeIs
  <2>6. FlowIs(f)
    BY <1>2, <2>2, <2>4, <2>s, WindowConstants DEF FlowIs, Opening, Opens
  <2>7. LinkIs(n, f, h, ev, d.choices)
    BY <1>1, <1>t, <2>1, <2>2 DEF LinkIs
  <2>8. TargetIs(n, f, h, ev)
    BY <1>1, <1>2, <1>3, <1>t, <2>2, <2>1, <2>s, <2>4 DEF TargetIs, OnItsWay, Answering, Opening, Opens
  <2>9. KnownIs(n, f, h, ev, rep)
    <3>1. f.latest => h.misled \/ h.received = NoPlace
      BY <1>1, <1>2, <1>t DEF KnownIs
    <3>2. h.received = NoPlace => Arrived(f, h) = ShellSnapshot(n)
      BY <1>2, <1>3, <2>2, <2>3, <2>4, <2>s DEF Arrived, Latest
    <3>3. f.shown[1] = n.active
      BY <2>1, <2>2, <2>s
    <3>4. Current(f) => f.latest
      BY <2>4 DEF Current
    <3>5. ~Current(f) => \/ <<h.active, h.loading>> = ShellSnapshot(n) \/ h.stale \/ Underway(ev, rep)
      BY <1>1, <1>t, <2>3 DEF KnownIs
    <3>6. ReadySays(ev) /\ (f.latest => rep["cancel"] # Waiting)
      BY <1>1, <1>t, <2>2 DEF KnownIs
    <3> QED
      BY <2>2, <3>1, <3>2, <3>3, <3>4, <3>5, <3>6 DEF KnownIs
  <2>10. WordIs(n, r, f, d)
    BY <1>1, <1>2, <1>t, <1>3, <2>1, <2>2 DEF WordIs
  <2> QED
    BY <1>c, <1>1, <1>t, <2>1, <2>2, <2>4, <2>5, <2>6, <2>7, <2>8, <2>9, <2>10, WindowsStep DEF WindowsAre
<1>4. CASE f = [flow EXCEPT !.at = "health"] /\ n = native /\ fr = front
  <2>2. /\ f \in Flows /\ f.kind = flow.kind /\ f.place = flow.place /\ f.at = "health" /\ f.latest = flow.latest
        /\ f.link = flow.link /\ f.shown = flow.shown /\ f.confirmed = flow.confirmed
    BY <1>4, <1>t DEF Flows, FlowPlaces
  <2>4. Opening(f)
    BY <1>2, <2>2 DEF Opening
  <2>6. FlowIs(f)
    BY <1>2, <2>2, <2>4, WindowConstants DEF FlowIs, Opening, Opens
  <2>7. LinkIs(n, f, h, ev, d.choices)
    BY <1>1, <1>4, <1>t, <2>2 DEF LinkIs
  <2>8. TargetIs(n, f, h, ev)
    BY <1>1, <1>2, <1>4, <1>t, <2>2, <2>4 DEF TargetIs, OnItsWay, Opening, Opens
  <2>9. KnownIs(n, f, h, ev, rep)
    BY <1>1, <1>2, <1>4, <1>t, <2>2, <2>4 DEF KnownIs, Answering
  <2>10. WordIs(n, r, f, d)
    BY <1>1, <1>2, <1>4, <1>t, <2>2 DEF WordIs, Opening
  <2> QED
    BY <1>c, <1>1, <1>4, <1>t, <2>2, <2>6, <2>7, <2>8, <2>9, <2>10, WindowsStep DEF WindowsAre
<1> QED
  BY <1>1, <1>3, <1>4

\* The attempt ends: with the new window, or with what there was.
LEMMA AttemptEnds == ASSUME WindowsInv, ConnectEnds PROVE WindowsInv'
<1>c. PICK n, r, fr, f, h, ev, rep, d :
          /\ n = native' /\ r = remote' /\ fr = front' /\ f = flow' /\ h = homePage' /\ ev = toHome'
          /\ rep = replies' /\ d = decided'
  OBVIOUS
<1>t. /\ native \in Natives /\ remote \in Windows /\ front \in {"home", "remote", "hidden"} /\ flow \in Flows
      /\ homePage \in HomePages /\ toHome \in Seq(HomeEvents)
      /\ replies \in [Questions -> Shots \cup {NoReply, Waiting}] /\ decided \in Deciding
      /\ NativeIs(native, remote) /\ FlowIs(flow)
      /\ LinkIs(native, flow, homePage, toHome, decided.choices)
      /\ TargetIs(native, flow, homePage, toHome)
      /\ KnownIs(native, flow, homePage, toHome, replies) /\ WordIs(native, remote, flow, decided)
      /\ ReadySays(toHome) /\ native.active \in Sites /\ native.loading \in BOOLEAN /\ flow.latest \in BOOLEAN
  BY WindowsAreTyped
<1> DEFINE left == Left(native)
           opened == [left EXCEPT !.active = flow.place, !.loading = TRUE, !.timer = TRUE, !.latest = TRUE]
           lost == [left EXCEPT !.loading = native.loading, !.latest = FALSE]
<1>1. /\ flow.at = "health" /\ ev = toHome /\ rep = replies
      /\ \/ \E result \in {"failed", "cancelled", "confirmation"} :
               /\ f = [flow EXCEPT !.at = result] /\ n = native /\ r = remote /\ fr = front /\ d = decided
               /\ h = homePage
         \/ /\ flow.latest /\ n = opened /\ r = [NoWindow EXCEPT !.place = flow.place]
            /\ fr = (IF front = "remote" THEN "home" ELSE front)
            /\ f = [flow EXCEPT !.at = "done", !.shown = ShellSnapshot(opened)]
            /\ d = [decided EXCEPT !.expired = FALSE] /\ h = homePage
         \/ /\ flow.latest /\ n = lost /\ r = NoWindow
            /\ fr = (IF front = "remote" THEN "home" ELSE front)
            /\ f = [flow EXCEPT !.at = "failed"] /\ d = decided
            /\ h = [homePage EXCEPT !.stale = homePage.stale \/ native.active # NoPlace]
  BY <1>c DEF ConnectEnds
<1>2. Opening(flow) /\ flow.place # NoPlace /\ flow.place \in Sites
  BY <1>1, <1>t, WindowConstants DEF FlowIs, Opening, Opens, Flows
<1>3. ASSUME NEW result \in {"failed", "cancelled", "confirmation"},
             f = [flow EXCEPT !.at = result], n = native, r = remote, fr = front, d = decided, h = homePage
      PROVE  WindowsInv'
  <2>2. /\ f \in Flows /\ f.kind = flow.kind /\ f.place = flow.place /\ f.at = result /\ f.latest = flow.latest
        /\ f.link = flow.link /\ f.shown = flow.shown /\ f.confirmed = flow.confirmed
    BY <1>3, <1>t DEF Flows, FlowPlaces, Answering
  <2>4. Opening(f)
    BY <1>2, <2>2 DEF Opening
  <2>6. FlowIs(f)
    BY <1>2, <2>2, <2>4, WindowConstants DEF FlowIs, Opening, Opens
  <2>7. LinkIs(n, f, h, ev, d.choices)
    BY <1>1, <1>3, <1>t, <2>2 DEF LinkIs
  <2>8. TargetIs(n, f, h, ev)
    BY <1>1, <1>2, <1>3, <1>t, <2>2, <2>4 DEF TargetIs, OnItsWay, Opening, Opens, Answering
  <2>9. KnownIs(n, f, h, ev, rep)
    BY <1>1, <1>2, <1>3, <1>t, <2>2, <2>4 DEF KnownIs, Answering
  <2>10. WordIs(n, r, f, d)
    BY <1>1, <1>2, <1>3, <1>t, <2>2 DEF WordIs, Opening
  <2> QED
    BY <1>c, <1>1, <1>3, <1>t, <2>2, <2>6, <2>7, <2>8, <2>9, <2>10, WindowsStep DEF WindowsAre
<1>4. CASE /\ flow.latest /\ n = opened /\ r = [NoWindow EXCEPT !.place = flow.place]
           /\ fr = (IF front = "remote" THEN "home" ELSE front)
           /\ f = [flow EXCEPT !.at = "done", !.shown = ShellSnapshot(opened)]
           /\ d = [decided EXCEPT !.expired = FALSE] /\ h = homePage
  <2>l. /\ left \in Natives /\ left.link = native.link /\ (left.runs <=> native.runs) /\ ~left.ready
        /\ (left.homeRequested <=> native.homeRequested)
    BY <1>t, LeftIs
  <2> HIDE DEF left
  <2>1. /\ n \in Natives /\ n.active = flow.place /\ n.loading /\ ~n.ready /\ n.timer
        /\ (n.homeRequested <=> native.homeRequested) /\ n.link = native.link
        /\ (n.runs <=> native.runs) /\ n.latest /\ opened \in Natives /\ n = opened
    BY <1>2, <1>4, <2>l, WindowConstants DEF Natives
  <2> HIDE DEF opened
  <2>s. /\ ShellSnapshot(n) \in Shots /\ ShellSnapshot(n)[1] = flow.place /\ ShellSnapshot(n)[2] = n.loading
    BY <2>1, SnapshotIs
  <2>2. /\ f \in Flows /\ f.kind = flow.kind /\ f.place = flow.place /\ f.at = "done" /\ f.latest = flow.latest
        /\ f.link = flow.link /\ f.shown = ShellSnapshot(n) /\ f.confirmed = flow.confirmed
    BY <1>4, <1>t, <2>1, <2>s DEF Flows, FlowPlaces, Answering
  <2>3. r \in Windows /\ r.place = flow.place /\ ~r.call
    BY <1>2, <1>4, WindowConstants DEF Windows
  <2>d. d \in Deciding /\ d.wants = decided.wants /\ d.choices = decided.choices
    BY <1>4, <1>t, WindowConstants DEF Deciding
  <2>4. Opening(f) /\ fr \in {"home", "remote", "hidden"}
    BY <1>2, <1>4, <1>t, <2>2 DEF Opening
  <2>5. NativeIs(n, r)
    BY <2>1, <2>3 DEF NativeIs
  <2>6. FlowIs(f)
    BY <1>2, <2>2, <2>4, <2>s, WindowConstants DEF FlowIs, Opening, Opens
  <2>h. h = homePage
    BY <1>4
  <2>7. LinkIs(n, f, h, ev, d.choices)
    BY <1>1, <1>4, <1>t, <2>1, <2>2, <2>d DEF LinkIs
  <2>8. TargetIs(n, f, h, ev)
    BY <1>2, <1>4, <2>1, <2>2, <2>4 DEF TargetIs, Opening, Opens
  <2>9. KnownIs(n, f, h, ev, rep)
    <3>1. h.misled \/ h.received = NoPlace
      BY <1>1, <1>2, <1>4, <1>t DEF KnownIs
    <3>2. h.received = NoPlace => Arrived(f, h) = ShellSnapshot(n)
      BY <1>2, <2>2, <2>4, <2>s DEF Arrived, Latest
    <3>3. f.shown[1] = n.active /\ Current(f)
      BY <1>4, <2>1, <2>2, <2>s DEF Current
    <3>6. ReadySays(ev) /\ rep["cancel"] # Waiting
      BY <1>1, <1>2, <1>4, <1>t DEF KnownIs
    <3> QED
      BY <2>2, <3>1, <3>2, <3>3, <3>6 DEF KnownIs
  <2>10. WordIs(n, r, f, d)
    BY <1>1, <1>2, <1>4, <1>t, <2>d, <2>1, <2>2 DEF WordIs
  <2> QED
    BY <1>c, <1>1, <2>h, <1>t, <2>1, <2>2, <2>3, <2>4, <2>5, <2>6, <2>7, <2>8, <2>9, <2>10, <2>d, WindowsStep DEF WindowsAre
<1>5. CASE /\ flow.latest /\ n = lost /\ r = NoWindow /\ fr = (IF front = "remote" THEN "home" ELSE front)
           /\ f = [flow EXCEPT !.at = "failed"] /\ d = decided
           /\ h = [homePage EXCEPT !.stale = homePage.stale \/ native.active # NoPlace]
  <2>l. /\ left \in Natives /\ left.link = native.link /\ (left.runs <=> native.runs) /\ ~left.ready
        /\ (left.homeRequested <=> native.homeRequested) /\ left.active = NoPlace
    BY <1>t, LeftIs
  <2> HIDE DEF left
  <2>1. /\ n \in Natives /\ n.active = NoPlace /\ n.loading = native.loading /\ ~n.ready
        /\ (n.homeRequested <=> native.homeRequested) /\ n.link = native.link
        /\ (n.runs <=> native.runs) /\ ~n.latest
    BY <1>5, <1>t, <2>l DEF Natives
  <2>2. /\ f \in Flows /\ f.kind = flow.kind /\ f.place = flow.place /\ f.at = "failed" /\ f.latest = flow.latest
        /\ f.link = flow.link /\ f.shown = flow.shown
    BY <1>5, <1>t DEF Flows, FlowPlaces, Answering
  <2>h. PICK b \in BOOLEAN : b = (homePage.stale \/ native.active # NoPlace)
    OBVIOUS
  <2>3. /\ h \in HomePages /\ h.active = homePage.active /\ h.loading = homePage.loading
        /\ h.target = homePage.target /\ h.received = homePage.received /\ h.link = homePage.link
        /\ h.deferred = homePage.deferred /\ h.offered = homePage.offered /\ h.misled = homePage.misled
        /\ (h.stale <=> homePage.stale \/ native.active # NoPlace)
    BY <1>5, <1>t, <2>h DEF HomePages
  <2>4. Opening(f) /\ fr \in {"home", "remote", "hidden"} /\ r \in Windows /\ r.place = NoPlace /\ ~r.call
    BY <1>2, <1>5, <1>t, <2>2, WindowConstants DEF Opening
  <2>5. NativeIs(n, r)
    BY <1>t, <2>1, <2>4 DEF NativeIs
  <2>6. FlowIs(f)
    BY <1>2, <2>2, <2>4, WindowConstants DEF FlowIs, Opening, Opens
  <2>7. LinkIs(n, f, h, ev, d.choices)
    BY <1>1, <1>5, <1>t, <2>1, <2>2, <2>3 DEF LinkIs
  <2>8. TargetIs(n, f, h, ev)
    BY <1>5, <2>2, <2>4 DEF TargetIs, OnItsWay, Opening, Opens, Answering
  <2>9. KnownIs(n, f, h, ev, rep)
    <3>1. native.active = NoPlace => ShellSnapshot(n) = ShellSnapshot(native)
      BY <2>1 DEF ShellSnapshot
    <3> QED
      BY <1>1, <1>2, <1>5, <1>t, <2>1, <2>2, <2>3, <2>4, <3>1 DEF KnownIs, Answering
  <2>10. WordIs(n, r, f, d)
    BY <1>5, <1>t, <2>1, <2>2, <2>4 DEF WordIs, Opening
  <2> QED
    BY <1>c, <1>1, <1>5, <1>t, <2>1, <2>2, <2>3, <2>4, <2>5, <2>6, <2>7, <2>8, <2>9, <2>10, WindowsStep DEF WindowsAre
<1> QED
  BY <1>1, <1>3, <1>4, <1>5

\* The Installation is left, or the app.
LEMMA LeavingIsServed == ASSUME WindowsInv, LeaveServed PROVE WindowsInv'
<1>c. PICK n, r, fr, f, h, ev, rep, d :
          /\ n = native' /\ r = remote' /\ fr = front' /\ f = flow' /\ h = homePage' /\ ev = toHome'
          /\ rep = replies' /\ d = decided'
  OBVIOUS
<1>t. /\ native \in Natives /\ remote \in Windows /\ front \in {"home", "remote", "hidden"} /\ flow \in Flows
      /\ homePage \in HomePages /\ toHome \in Seq(HomeEvents)
      /\ replies \in [Questions -> Shots \cup {NoReply, Waiting}] /\ decided \in Deciding
      /\ NativeIs(native, remote) /\ FlowIs(flow)
      /\ LinkIs(native, flow, homePage, toHome, decided.choices)
      /\ TargetIs(native, flow, homePage, toHome)
      /\ KnownIs(native, flow, homePage, toHome, replies) /\ WordIs(native, remote, flow, decided)
      /\ ReadySays(toHome) /\ native.active \in Sites /\ native.loading \in BOOLEAN /\ flow.latest \in BOOLEAN
  BY WindowsAreTyped
<1> DEFINE left == Left(native)
<1>1. /\ flow.at = "native" /\ h = homePage /\ ev = toHome /\ rep = replies /\ d = decided
      /\ \/ f = [flow EXCEPT !.at = "confirmation"] /\ n = native /\ r = remote /\ fr = front
         \/ /\ n = [left EXCEPT !.runs = flow.kind = "disconnect"] /\ r = NoWindow
            /\ fr = (IF front = "remote" THEN "home" ELSE front)
            /\ f = [flow EXCEPT !.at = "done", !.shown = ShellSnapshot(n)]
  BY <1>c DEF LeaveServed
<1>2. ~Opening(flow) /\ flow.kind \in {"disconnect", "quit"}
  BY <1>1, <1>t, WindowConstants DEF FlowIs, Opening, Opens, Flows
<1>3. CASE f = [flow EXCEPT !.at = "confirmation"] /\ n = native /\ r = remote /\ fr = front
  <2>2. /\ f \in Flows /\ f.kind = flow.kind /\ f.place = flow.place /\ f.at = "confirmation" /\ f.latest = flow.latest
        /\ f.link = flow.link /\ f.shown = flow.shown /\ f.confirmed = flow.confirmed
    BY <1>3, <1>t DEF Flows, FlowPlaces, Answering
  <2>4. ~Opening(f)
    BY <1>2, <2>2 DEF Opening
  <2>6. FlowIs(f)
    BY <1>2, <2>2, <2>4, WindowConstants DEF FlowIs
  <2>7. LinkIs(n, f, h, ev, d.choices)
    BY <1>1, <1>3, <1>t, <2>2 DEF LinkIs
  <2>8. TargetIs(n, f, h, ev)
    BY <1>1, <1>2, <1>3, <1>t, <2>2, <2>4 DEF TargetIs
  <2>9. KnownIs(n, f, h, ev, rep)
    BY <1>1, <1>2, <1>3, <1>t, <2>2, <2>4 DEF KnownIs
  <2>10. WordIs(n, r, f, d)
    BY <1>1, <1>2, <1>3, <1>t, <2>2, <2>4 DEF WordIs
  <2> QED
    BY <1>c, <1>1, <1>3, <1>t, <2>2, <2>6, <2>7, <2>8, <2>9, <2>10, WindowsStep DEF WindowsAre
<1>4. CASE /\ n = [left EXCEPT !.runs = flow.kind = "disconnect"] /\ r = NoWindow
           /\ fr = (IF front = "remote" THEN "home" ELSE front)
           /\ f = [flow EXCEPT !.at = "done", !.shown = ShellSnapshot(n)]
  <2>l. /\ left \in Natives /\ left.link = native.link /\ ~left.ready /\ ~left.loading /\ left.active = NoPlace
        /\ (left.homeRequested <=> native.homeRequested)
    BY <1>t, LeftIs
  <2> HIDE DEF left
  <2>1. /\ n \in Natives /\ n.active = NoPlace /\ ~n.loading /\ n.link = native.link
        /\ (n.runs <=> flow.kind = "disconnect")
    BY <1>4, <2>l DEF Natives
  <2>s. ShellSnapshot(n) \in Shots /\ ShellSnapshot(n)[1] = NoPlace /\ ShellSnapshot(n) = <<NoPlace, FALSE>>
    BY <2>1, SnapshotIs DEF Natives, ShellSnapshot
  <2>2. /\ f \in Flows /\ f.kind = flow.kind /\ f.place = flow.place /\ f.at = "done" /\ f.latest = flow.latest
        /\ f.link = flow.link /\ f.shown = ShellSnapshot(n) /\ f.confirmed = flow.confirmed
    BY <1>4, <1>t, <2>s DEF Flows, FlowPlaces, Answering
  <2>4. ~Opening(f) /\ fr \in {"home", "remote", "hidden"}
    BY <1>2, <1>4, <1>t, <2>2 DEF Opening
  <2>5. NativeIs(n, r) /\ r \in Windows
    BY <1>4, <2>1, WindowConstants DEF NativeIs
  <2>6. FlowIs(f)
    BY <1>2, <2>2, <2>4, <2>s, WindowConstants DEF FlowIs
  <2>7. LinkIs(n, f, h, ev, d.choices)
    BY <1>1, <1>t, <2>1, <2>2 DEF LinkIs
  <2>8. TargetIs(n, f, h, ev)
    BY <1>1, <1>t, <2>1, <2>2, <2>4 DEF TargetIs
  <2>9. KnownIs(n, f, h, ev, rep)
    BY <2>1, <2>2, <2>4, <2>s, <1>1, <1>t DEF Arrived, Current, KnownIs
  <2>10. WordIs(n, r, f, d)
    BY <1>4, <2>1, <2>4, WindowConstants DEF WordIs
  <2> QED
    BY <1>c, <1>1, <1>t, <2>1, <2>2, <2>4, <2>5, <2>6, <2>7, <2>8, <2>9, <2>10, WindowsStep DEF WindowsAre
<1> QED
  BY <1>1, <1>3, <1>4

LEMMA TwoEvents ==
    ASSUME NEW ev \in Seq(HomeEvents), NEW a \in HomeEvents, NEW b \in HomeEvents,
           ReadySays(ev), SaysReady(a), SaysReady(b)
    PROVE  /\ ev \o <<a, b>> \in Seq(HomeEvents) /\ ReadySays(ev \o <<a, b>>)
           /\ \A kinds : Coming(ev, kinds) => Coming(ev \o <<a, b>>, kinds)
           /\ \A kinds : a.kind \in kinds \/ b.kind \in kinds => Coming(ev \o <<a, b>>, kinds)
<1> DEFINE new == <<a, b>>
           w == ev \o new
<1>1. new \in Seq(HomeEvents) /\ Len(new) = 2 /\ new[1] = a /\ new[2] = b
  OBVIOUS
<1> HIDE DEF new
<1>2. /\ w \in Seq(HomeEvents) /\ Len(w) = Len(ev) + 2 /\ Len(ev) \in Nat
      /\ \A i \in 1..(Len(ev) + 2) : w[i] = IF i <= Len(ev) THEN ev[i] ELSE new[i - Len(ev)]
  <2>1. Len(ev) \in Nat
    BY LenProperties
  <2>2. /\ w \in Seq(HomeEvents) /\ Len(w) = Len(ev) + Len(new)
        /\ \A i \in 1..(Len(ev) + Len(new)) : w[i] = IF i <= Len(ev) THEN ev[i] ELSE new[i - Len(ev)]
    BY <1>1, ConcatProperties
  <2> HIDE DEF w
  <2> QED
    BY <1>1, <2>1, <2>2
<1> HIDE DEF w
<1>3. /\ \A i \in 1..Len(ev) : w[i] = ev[i]
      /\ w[Len(ev) + 1] = a /\ w[Len(ev) + 2] = b
  BY LenProperties, <1>2, <1>1
<1>4. ReadySays(w)
  BY <1>2, <1>3 DEF ReadySays
<1>5. ASSUME NEW kinds, Coming(ev, kinds) PROVE Coming(w, kinds)
  BY <1>2, <1>3, <1>5 DEF Coming
<1>6. ASSUME NEW kinds, a.kind \in kinds \/ b.kind \in kinds PROVE Coming(w, kinds)
  BY <1>2, <1>3, <1>6 DEF Coming
<1> QED
  BY <1>2, <1>4, <1>5, <1>6 DEF w, new

\* The links are as they were: nothing was taken up, and none came.
LEMMA LinksKeep ==
    ASSUME NEW n, NEW m, NEW f, NEW h, NEW ev, NEW w, NEW count \in Nat, NEW later \in {count, count + 1},
           LinkIs(n, f, h, ev, count), n \in Natives, f \in Flows, h \in HomePages, m.link = n.link,
           \A kinds : Coming(ev, kinds) => Coming(w, kinds)
    PROVE  LinkIs(m, f, h, w, later)
BY LinksStayAged DEF Natives, Flows, HomePages, LinkIs

\* Home is called to the front, or its own window is: what is open stays as it was.
LEMMA FrontMoves ==
    ASSUME WindowsInv, NEW n \in Natives, NEW r \in Windows, NEW fr \in {"home", "remote", "hidden"},
           NEW ev \in Seq(HomeEvents), NEW d \in Deciding,
           n = native', r = remote', fr = front', ev = toHome', d = decided',
           UNCHANGED <<flow, homePage, replies>>,
           ReadySays(ev), \A kinds : Coming(toHome, kinds) => Coming(ev, kinds),
           NativeIs(n, r), LinkIs(n, flow, homePage, ev, d.choices), ShellSnapshot(n) = ShellSnapshot(native),
           n.active = native.active, n.loading <=> native.loading, n.ready <=> native.ready, n.runs <=> native.runs,
           n.latest <=> native.latest, native.homeRequested => n.homeRequested, r.place = remote.place,
           d.wants = decided.wants \/ n.homeRequested, d.expired <=> decided.expired
    PROVE  WindowsInv'
<1>t. /\ flow \in Flows /\ homePage \in HomePages
      /\ replies \in [Questions -> Shots \cup {NoReply, Waiting}] /\ FlowIs(flow)
      /\ TargetIs(native, flow, homePage, toHome)
      /\ KnownIs(native, flow, homePage, toHome, replies) /\ WordIs(native, remote, flow, decided)
  BY WindowsAreTyped
<1>1. TargetIs(n, flow, homePage, ev)
  BY <1>t DEF TargetIs
<1>2. KnownIs(n, flow, homePage, ev, replies)
  BY <1>t DEF Underway, KnownIs
<1>3. WordIs(n, r, flow, d)
  BY <1>t DEF WordIs
<1>4. WindowsAre(n, r, fr, flow, homePage, ev, replies, d)
  BY <1>t, <1>1, <1>2, <1>3 DEF WindowsAre
<1>5. PICK f, h, rep : f = flow' /\ h = homePage' /\ rep = replies'
  OBVIOUS
<1>6. f = flow /\ h = homePage /\ rep = replies
  BY <1>5
<1> QED
  BY <1>4, <1>5, <1>6, WindowsStep

LEMMA ShownIs ==
    ASSUME NEW n \in Natives
    PROVE  /\ Shown(n) \in Natives /\ Shown(n).homeRequested /\ Shown(n).active = n.active /\ Shown(n).link = n.link
           /\ (Shown(n).loading <=> n.loading) /\ (Shown(n).ready <=> n.ready) /\ (Shown(n).runs <=> n.runs)
           /\ (Shown(n).latest <=> n.latest) /\ (Shown(n).timer <=> n.timer)
           /\ ShellSnapshot(Shown(n)) = ShellSnapshot(n)
BY WindowConstants DEF Shown, Natives, ShellSnapshot

LEMMA EventsAre ==
    /\ ShowHome \in HomeEvents /\ ShowHome.kind = "show-home" /\ SaysReady(ShowHome)
    /\ \A p \in Sites : \A kind \in EventKinds :
          LET e == Event(kind, p) IN e \in HomeEvents /\ e.kind = kind /\ e.place = p /\ SaysReady(e)
<1>1. \A p \in Sites : \A kind \in EventKinds :
          LET e == Event(kind, p) IN e \in HomeEvents /\ e.kind = kind /\ e.place = p /\ SaysReady(e)
  BY EventIs
<1>2. "show-home" \in EventKinds
  BY DEF EventKinds
<1> QED
  BY <1>1, <1>2, WindowConstants DEF ShowHome

\* The tray, Home's window and its close button.
LEMMA TrayTurns ==
    ASSUME WindowsInv, TrayHome \/ ShowCurrent \/ CloseRequested
    PROVE  WindowsInv'
<1>c. PICK n, r, fr, f, h, ev, rep, d :
          /\ n = native' /\ r = remote' /\ fr = front' /\ f = flow' /\ h = homePage' /\ ev = toHome'
          /\ rep = replies' /\ d = decided'
  OBVIOUS
<1>t. /\ native \in Natives /\ remote \in Windows /\ front \in {"home", "remote", "hidden"} /\ flow \in Flows
      /\ homePage \in HomePages /\ toHome \in Seq(HomeEvents)
      /\ replies \in [Questions -> Shots \cup {NoReply, Waiting}] /\ decided \in Deciding
      /\ NativeIs(native, remote) /\ FlowIs(flow)
      /\ LinkIs(native, flow, homePage, toHome, decided.choices)
      /\ TargetIs(native, flow, homePage, toHome)
      /\ KnownIs(native, flow, homePage, toHome, replies) /\ WordIs(native, remote, flow, decided)
      /\ ReadySays(toHome) /\ native.active \in Sites /\ native.loading \in BOOLEAN /\ flow.latest \in BOOLEAN
  BY WindowsAreTyped
<1>1. /\ f = flow /\ h = homePage /\ rep = replies /\ r = remote
  BY <1>c DEF TrayHome, ShowCurrent, CloseRequested, Turns
<1>2. Acted \in Deciding /\ Acted.choices = decided.choices + 1 /\ Acted.wants = decided.wants
      /\ (Acted.expired <=> decided.expired) /\ decided.choices \in Nat
  BY <1>t, ActedIs DEF Acted
<1>3. fr \in {"home", "remote", "hidden"}
  BY <1>c DEF TrayHome, ShowCurrent, CloseRequested
<1>s. /\ Shown(native) \in Natives /\ Shown(native).homeRequested /\ Shown(native).active = native.active
      /\ Shown(native).link = native.link
      /\ (Shown(native).loading <=> native.loading) /\ (Shown(native).ready <=> native.ready)
      /\ (Shown(native).runs <=> native.runs)
      /\ (Shown(native).latest <=> native.latest) /\ (Shown(native).timer <=> native.timer)
      /\ ShellSnapshot(Shown(native)) = ShellSnapshot(native)
  BY <1>t, ShownIs
<1>4. CASE n = native /\ ev = toHome /\ d = Acted
  <2>1. LinkIs(n, flow, homePage, ev, d.choices)
    BY <1>t, <1>2, <1>4, LinksKeep
  <2> QED
    BY <1>c, <1>t, <1>1, <1>2, <1>3, <1>4, <2>1, FrontMoves
<1>5. CASE n = Shown(native) /\ ev = toHome \o <<ShowHome>> /\ d = [Acted EXCEPT !.wants = NoPlace]
  <2>1. /\ ev \in Seq(HomeEvents) /\ ReadySays(ev)
        /\ \A kinds : Coming(toHome, kinds) => Coming(ev, kinds)
    BY <1>t, <1>5, EventsAre, EventsGrow
  <2>2. d \in Deciding /\ d.choices = decided.choices + 1 /\ (d.expired <=> decided.expired)
    BY <1>2, <1>5, WindowConstants DEF Deciding
  <2>3. LinkIs(n, flow, homePage, ev, d.choices)
    BY <1>t, <1>s, <1>2, <1>5, <2>1, <2>2, LinksKeep
  <2>4. NativeIs(n, r)
    BY <1>t, <1>s, <1>1, <1>5 DEF NativeIs
  <2> QED
    BY <1>c, <1>t, <1>s, <1>1, <1>3, <1>5, <2>1, <2>2, <2>3, <2>4, FrontMoves
<1>6. CASE n = Shown(native) /\ ev = toHome \o <<ShowHome, Event("quit", NoPlace)>> /\ d = Acted
  <2>0. LET e == Event("quit", NoPlace) IN e \in HomeEvents /\ SaysReady(e)
    BY EventsAre, WindowConstants DEF EventKinds
  <2>1. /\ ev \in Seq(HomeEvents) /\ ReadySays(ev)
        /\ \A kinds : Coming(toHome, kinds) => Coming(ev, kinds)
    BY <1>6, <2>0, EventsAre, <1>t, TwoEvents
  <2>2. d.choices \in {decided.choices, decided.choices + 1} /\ n.link = native.link
    BY <1>2, <1>6, <1>s
  <2>3. LinkIs(n, flow, homePage, ev, d.choices)
    BY <1>t, <1>2, <2>1, <2>2, LinksKeep
  <2>4. NativeIs(n, r)
    BY <1>t, <1>s, <1>1, <1>6 DEF NativeIs
  <2> QED
    BY <1>c, <1>t, <1>s, <1>1, <1>2, <1>3, <1>6, <2>1, <2>3, <2>4, FrontMoves
<1> QED
  BY <1>c, <1>4, <1>5, <1>6 DEF TrayHome, ShowCurrent, CloseRequested, TellsHome

\* A link from the system brings its window to the front, or Home.
LEMMA LinkIsOffered == ASSUME WindowsInv, NEW place \in Places, OfferDesktopLink(place) PROVE WindowsInv'
<1>c. PICK n, r, fr, f, h, ev, rep, d :
          /\ n = native' /\ r = remote' /\ fr = front' /\ f = flow' /\ h = homePage' /\ ev = toHome'
          /\ rep = replies' /\ d = decided'
  OBVIOUS
<1>t. /\ native \in Natives /\ remote \in Windows /\ front \in {"home", "remote", "hidden"} /\ flow \in Flows
      /\ homePage \in HomePages /\ toHome \in Seq(HomeEvents)
      /\ replies \in [Questions -> Shots \cup {NoReply, Waiting}] /\ decided \in Deciding
      /\ NativeIs(native, remote) /\ FlowIs(flow)
      /\ LinkIs(native, flow, homePage, toHome, decided.choices)
      /\ TargetIs(native, flow, homePage, toHome)
      /\ KnownIs(native, flow, homePage, toHome, replies) /\ WordIs(native, remote, flow, decided)
      /\ ReadySays(toHome) /\ native.active \in Sites /\ native.loading \in BOOLEAN /\ flow.latest \in BOOLEAN
  BY WindowsAreTyped
<1>1. /\ f = flow /\ h = homePage /\ rep = replies /\ r = remote /\ homePage.offered = NoPlace
      /\ \/ fr = "remote" /\ d = Acted /\ n = native /\ ev = toHome
         \/ /\ d = [Acted EXCEPT !.wants = NoPlace] /\ fr = "home"
            /\ n = [Shown(native) EXCEPT !.link = <<place, Acted.choices>>]
            /\ ev = toHome \o <<ShowHome, Event("link", NoPlace)>>
  BY <1>c DEF OfferDesktopLink, TellsHome
<1>2. Acted \in Deciding /\ Acted.choices = decided.choices + 1 /\ Acted.wants = decided.wants
      /\ (Acted.expired <=> decided.expired) /\ decided.choices \in Nat
  BY <1>t, ActedIs DEF Acted
<1>4. CASE fr = "remote" /\ n = native /\ ev = toHome /\ d = Acted
  BY <1>t, <1>2, <1>4, LinksKeep, <1>c, <1>1, FrontMoves
<1>5. CASE /\ d = [Acted EXCEPT !.wants = NoPlace] /\ fr = "home"
           /\ n = [Shown(native) EXCEPT !.link = <<place, Acted.choices>>]
           /\ ev = toHome \o <<ShowHome, Event("link", NoPlace)>>
  <2> DEFINE m == Shown(native)
  <2>s. /\ m \in Natives /\ m.homeRequested /\ m.active = native.active
        /\ m.loading = native.loading /\ (m.ready <=> native.ready) /\ (m.runs <=> native.runs)
        /\ (m.latest <=> native.latest) /\ (m.timer <=> native.timer)
    BY <1>t, WindowConstants DEF Shown, Natives
  <2> HIDE DEF m
  <2>0. <<place, decided.choices + 1>> \in Links /\ "link" \in EventKinds
    BY <1>2 DEF Links, EventKinds
  <2>1. PICK link \in Links : link = <<place, decided.choices + 1>>
    BY <2>0
  <2>2. n = [m EXCEPT !.link = link]
    BY <1>2, <1>5, <2>1 DEF m
  <2>3. /\ n \in Natives /\ n.homeRequested /\ n.active = native.active
        /\ n.loading = native.loading /\ (n.ready <=> native.ready) /\ (n.runs <=> native.runs)
        /\ (n.latest <=> native.latest) /\ (n.timer <=> native.timer) /\ n.link = link
    BY <2>s, <2>2 DEF Natives
  <2>4. /\ ev \in Seq(HomeEvents) /\ ReadySays(ev)
        /\ \A kinds : Coming(toHome, kinds) => Coming(ev, kinds)
        /\ Coming(ev, {"link"})
    <3>1. Event("link", NoPlace) \in HomeEvents /\ Event("link", NoPlace).kind = "link" /\ SaysReady(Event("link", NoPlace))
      BY <2>0, EventsAre, WindowConstants
    <3>2. "link" \in {"link"}
      OBVIOUS
    <3> QED
      BY <1>t, <1>5, <3>1, <3>2, EventsAre, TwoEvents
  <2>5. d \in Deciding /\ d.choices = decided.choices + 1 /\ (d.expired <=> decided.expired)
    BY <1>2, <1>5, WindowConstants DEF Deciding
  <2>6. LinkIs(n, flow, homePage, ev, d.choices)
    <3>1. /\ Aged(flow.link, decided.choices) /\ Aged(homePage.link, decided.choices)
          /\ Aged(homePage.deferred, decided.choices)
      BY <1>t DEF LinkIs
    <3>2. flow.link \in Links /\ homePage.link \in Links /\ homePage.deferred \in Links
      BY <1>t DEF Flows, HomePages
    <3>3. Aged(flow.link, d.choices) /\ Aged(homePage.link, d.choices) /\ Aged(homePage.deferred, d.choices)
      BY <1>2, <2>5, <3>1, <3>2, LinksStayAged
    <3>4. link[2] = decided.choices + 1
      BY <2>1
    <3>5. Aged(n.link, d.choices)
      BY <1>2, <2>3, <2>5, <3>4 DEF Aged
    <3>6. \A other \in Links : Aged(other, decided.choices) /\ link # NoPlace => link # other
      BY <1>2, <3>4 DEF Aged
    <3>7. n.link # NoPlace => n.link # homePage.link /\ n.link # homePage.deferred /\ n.link # flow.link
      BY <2>3, <3>1, <3>2, <3>6
    <3> QED
      BY <1>1, <2>3, <2>4, <3>3, <3>5, <3>7 DEF LinkIs
  <2>7. NativeIs(n, r) /\ ShellSnapshot(n) = ShellSnapshot(native)
    BY <1>t, <1>1, <2>3 DEF NativeIs, ShellSnapshot
  <2> QED
    BY <1>c, <1>t, <1>1, <1>5, <2>3, <2>4, <2>5, <2>6, <2>7, FrontMoves
<1> QED
  BY <1>1, <1>4, <1>5

\* A call is joined or left in the page.
LEMMA CallsTurn == ASSUME WindowsInv, CallTurns PROVE WindowsInv'
<1>c. PICK n, r, fr, f, h, ev, rep, d :
          /\ n = native' /\ r = remote' /\ fr = front' /\ f = flow' /\ h = homePage' /\ ev = toHome'
          /\ rep = replies' /\ d = decided'
  OBVIOUS
<1>t. /\ native \in Natives /\ remote \in Windows /\ front \in {"home", "remote", "hidden"} /\ flow \in Flows
      /\ homePage \in HomePages /\ toHome \in Seq(HomeEvents)
      /\ replies \in [Questions -> Shots \cup {NoReply, Waiting}] /\ decided \in Deciding
      /\ NativeIs(native, remote) /\ FlowIs(flow)
      /\ LinkIs(native, flow, homePage, toHome, decided.choices)
      /\ TargetIs(native, flow, homePage, toHome)
      /\ KnownIs(native, flow, homePage, toHome, replies) /\ WordIs(native, remote, flow, decided)
      /\ ReadySays(toHome) /\ native.active \in Sites /\ native.loading \in BOOLEAN /\ flow.latest \in BOOLEAN
  BY WindowsAreTyped
<1>1. /\ f = flow /\ h = homePage /\ rep = replies /\ n = native /\ ev = toHome /\ fr = front
      /\ native.runs /\ native.ready /\ remote.place # NoPlace
      /\ r = [remote EXCEPT !.call = ~remote.call]
      /\ d = [decided EXCEPT !.calls = IF remote.call THEN decided.calls ELSE decided.calls + 1]
  BY <1>c DEF CallTurns
<1>2. PICK call \in BOOLEAN : call = ~remote.call
  OBVIOUS
<1>3. r \in Windows /\ r.place = remote.place
  BY <1>t, <1>1, <1>2 DEF Windows
<1>4. PICK calls \in Nat : calls = IF remote.call THEN decided.calls ELSE decided.calls + 1
  BY <1>t DEF Deciding
<1>5. d \in Deciding /\ d.choices = decided.choices /\ d.wants = decided.wants /\ d.expired = decided.expired
  BY <1>t, <1>1, <1>4 DEF Deciding
<1>6. NativeIs(n, r)
  BY <1>t, <1>1, <1>3 DEF NativeIs
<1>7. n \in Natives /\ fr \in {"home", "remote", "hidden"} /\ ev \in Seq(HomeEvents) /\ ReadySays(ev)
  BY <1>t, <1>1
<1>8. /\ n \in Natives /\ fr \in {"home", "remote", "hidden"} /\ ev \in Seq(HomeEvents)
      /\ r \in Windows /\ d \in Deciding /\ UNCHANGED <<flow, homePage, replies>> /\ ReadySays(ev)
      /\ \A kinds : Coming(toHome, kinds) => Coming(ev, kinds)
  BY <1>c, <1>1, <1>3, <1>5, <1>7
<1>9. NativeIs(n, r) /\ LinkIs(n, flow, homePage, ev, d.choices)
  BY <1>t, <1>1, <1>5, <1>6
<1>10. /\ ShellSnapshot(n) = ShellSnapshot(native) /\ n.active = native.active /\ (n.loading <=> native.loading)
       /\ (n.ready <=> native.ready) /\ (n.runs <=> native.runs) /\ (n.latest <=> native.latest)
       /\ (native.homeRequested => n.homeRequested) /\ r.place = remote.place
       /\ (d.wants = decided.wants \/ n.homeRequested) /\ (d.expired <=> decided.expired)
  BY <1>1, <1>3, <1>5
<1> QED
  BY <1>c, <1>8, <1>9, <1>10, FrontMoves

\* Home asks what there is.
LEMMA ReadIsServed == ASSUME WindowsInv, ReadServed PROVE WindowsInv'
<1>c. PICK n, r, fr, f, h, ev, rep, d :
          /\ n = native' /\ r = remote' /\ fr = front' /\ f = flow' /\ h = homePage' /\ ev = toHome'
          /\ rep = replies' /\ d = decided'
  OBVIOUS
<1>t. /\ native \in Natives /\ remote \in Windows /\ front \in {"home", "remote", "hidden"} /\ flow \in Flows
      /\ homePage \in HomePages /\ toHome \in Seq(HomeEvents)
      /\ replies \in [Questions -> Shots \cup {NoReply, Waiting}] /\ decided \in Deciding
      /\ NativeIs(native, remote) /\ FlowIs(flow)
      /\ LinkIs(native, flow, homePage, toHome, decided.choices)
      /\ TargetIs(native, flow, homePage, toHome)
      /\ KnownIs(native, flow, homePage, toHome, replies) /\ WordIs(native, remote, flow, decided)
      /\ ReadySays(toHome) /\ native.active \in Sites /\ native.loading \in BOOLEAN /\ flow.latest \in BOOLEAN
  BY WindowsAreTyped
<1>1. /\ f = flow /\ h = homePage /\ n = native /\ ev = toHome /\ fr = front /\ r = remote /\ d = decided
      /\ replies["read"] = Waiting /\ rep = [replies EXCEPT !["read"] = ShellSnapshot(native)]
  BY <1>c DEF ReadServed
<1>2. /\ rep \in [Questions -> Shots \cup {NoReply, Waiting}] /\ rep["read"] # NoReply
      /\ rep["cancel"] = replies["cancel"]
  BY <1>t, <1>1, SnapshotIs, WindowConstants DEF Questions
<1>3. Underway(ev, rep)
  BY <1>2, WindowConstants DEF Underway
<1>4. KnownIs(n, f, h, ev, rep)
  BY <1>t, <1>1, <1>2, <1>3 DEF KnownIs
<1>5. WindowsAre(n, r, fr, f, h, ev, rep, d)
  BY <1>t, <1>1, <1>2, <1>4 DEF WindowsAre
<1> QED
  BY <1>c, <1>5, WindowsStep

\* Cancelling: the window that loads is left, and Home comes to the front.
LEMMA CancelIsServed == ASSUME WindowsInv, CancelServed PROVE WindowsInv'
<1>c. PICK n, r, fr, f, h, ev, rep, d :
          /\ n = native' /\ r = remote' /\ fr = front' /\ f = flow' /\ h = homePage' /\ ev = toHome'
          /\ rep = replies' /\ d = decided'
  OBVIOUS
<1>t. /\ native \in Natives /\ remote \in Windows /\ front \in {"home", "remote", "hidden"} /\ flow \in Flows
      /\ homePage \in HomePages /\ toHome \in Seq(HomeEvents)
      /\ replies \in [Questions -> Shots \cup {NoReply, Waiting}] /\ decided \in Deciding
      /\ NativeIs(native, remote) /\ FlowIs(flow)
      /\ LinkIs(native, flow, homePage, toHome, decided.choices)
      /\ TargetIs(native, flow, homePage, toHome)
      /\ KnownIs(native, flow, homePage, toHome, replies) /\ WordIs(native, remote, flow, decided)
      /\ ReadySays(toHome) /\ native.active \in Sites /\ native.loading \in BOOLEAN /\ flow.latest \in BOOLEAN
  BY WindowsAreTyped
<1> DEFINE left == IF native.loading THEN Left(native) ELSE native
<1>1. /\ f = flow /\ h = homePage /\ d = decided /\ native.runs
      /\ n = Shown(left) /\ r = (IF native.loading THEN NoWindow ELSE remote) /\ fr = "home"
      /\ ev = toHome \o <<ShowHome>> /\ replies["cancel"] = Waiting
      /\ rep = [replies EXCEPT !["cancel"] = ShellSnapshot(n)]
  BY <1>c DEF CancelServed, Unlocked, TellsHome
<1>l. /\ left \in Natives /\ ~left.loading /\ left.link = native.link /\ left.runs
      /\ native.loading => left.active = NoPlace
      /\ ~native.loading => left = native
  BY <1>t, <1>1, LeftIs
<1> HIDE DEF left
<1>2. /\ n \in Natives /\ ~n.loading /\ n.link = native.link /\ n.runs /\ n.homeRequested /\ n.active = left.active
      /\ (n.ready <=> left.ready)
  BY <1>1, <1>l, ShownIs
<1>3. r \in Windows /\ NativeIs(n, r) /\ n.active \in Sites
  BY <1>1, <1>2, <1>l, WindowConstants, <1>t DEF NativeIs, Natives
<1>4. /\ ev \in Seq(HomeEvents) /\ ReadySays(ev)
      /\ \A kinds : Coming(toHome, kinds) => Coming(ev, kinds)
      /\ Coming(ev, Clearing)
  BY <1>1, <1>t, EventsAre, EventsGrow DEF Clearing
<1>5. /\ rep \in [Questions -> Shots \cup {NoReply, Waiting}] /\ rep["cancel"] # NoReply
      /\ rep["cancel"] # Waiting /\ ShellSnapshot(n) \in Shots
  BY <1>t, <1>1, <1>2, SnapshotIs, WindowConstants DEF Questions
<1>6. LinkIs(n, f, h, ev, d.choices)
  BY <1>1, <1>t, <1>2, <1>4, LinksKeep DEF Deciding
<1>7. TargetIs(n, f, h, ev)
  BY <1>1, <1>4, <1>t DEF TargetIs
<1>8. KnownIs(n, f, h, ev, rep)
  <2>1. Underway(ev, rep)
    BY <1>5, WindowConstants DEF Underway
  <2>2. ASSUME f.at = "done", Current(f) PROVE Arrived(f, h) = ShellSnapshot(n) /\ n.active = f.shown[1]
    <3>1. ~Opening(f)
      BY <1>1, <1>t, <2>2 DEF KnownIs, Current, Answering
    <3>2. f.shown = <<NoPlace, FALSE>> /\ native.active = f.shown[1]
      BY <1>1, <1>t, <2>2, <3>1 DEF KnownIs, FlowIs
    <3>3. n.active = NoPlace /\ n.loading = FALSE
      BY <1>2, <1>l, <3>2 DEF Natives
    <3> QED
      <4>1. ShellSnapshot(n) = <<NoPlace, FALSE>>
        BY <3>3 DEF ShellSnapshot
      <4>2. Arrived(f, h) = f.shown
        BY <3>1 DEF Arrived
      <4>3. f.shown[1] = NoPlace
        BY <3>2
      <4> QED
        BY <3>2, <3>3, <4>1, <4>2, <4>3
  <2> QED
    BY <1>1, <1>4, <1>5, <1>t, <2>1, <2>2 DEF KnownIs
<1>9. WordIs(n, r, f, d)
  BY <1>1, <1>2, <1>l, <1>t, WindowConstants DEF WordIs
<1>10. WindowsAre(n, r, fr, f, h, ev, rep, d)
  BY <1>1, <1>2, <1>3, <1>4, <1>5, <1>6, <1>7, <1>8, <1>9, <1>t DEF WindowsAre
<1> QED
  BY <1>c, <1>10, WindowsStep

\* The twenty seconds are over.
LEMMA LoadingIsOver == ASSUME WindowsInv, LoadingEnds PROVE WindowsInv'
<1>c. PICK n, r, fr, f, h, ev, rep, d :
          /\ n = native' /\ r = remote' /\ fr = front' /\ f = flow' /\ h = homePage' /\ ev = toHome'
          /\ rep = replies' /\ d = decided'
  OBVIOUS
<1>t. /\ native \in Natives /\ remote \in Windows /\ front \in {"home", "remote", "hidden"} /\ flow \in Flows
      /\ homePage \in HomePages /\ toHome \in Seq(HomeEvents)
      /\ replies \in [Questions -> Shots \cup {NoReply, Waiting}] /\ decided \in Deciding
      /\ NativeIs(native, remote) /\ FlowIs(flow)
      /\ LinkIs(native, flow, homePage, toHome, decided.choices)
      /\ TargetIs(native, flow, homePage, toHome)
      /\ KnownIs(native, flow, homePage, toHome, replies) /\ WordIs(native, remote, flow, decided)
      /\ ReadySays(toHome) /\ native.active \in Sites /\ native.loading \in BOOLEAN /\ flow.latest \in BOOLEAN
  BY WindowsAreTyped
<1>1. /\ f = flow /\ h = homePage /\ r = remote /\ rep = replies /\ native.runs /\ flow.at \notin {"health", "done"}
      /\ \/ /\ native.loading /\ ~native.ready /\ fr = "home"
            /\ n = [Shown(native) EXCEPT !.timer = FALSE, !.loading = FALSE]
            /\ ev = toHome \o <<ShowHome, Event("load-failed", native.active)>>
            /\ d = [decided EXCEPT !.expired = decided.expired \/ TRUE]
         \/ /\ ~(native.loading /\ ~native.ready) /\ fr = front
            /\ n = [native EXCEPT !.timer = FALSE] /\ ev = toHome \o <<>>
            /\ d = [decided EXCEPT !.expired = decided.expired \/ FALSE]
  BY <1>c DEF LoadingEnds, Unlocked, TellsHome
<1>2. CASE /\ native.loading /\ ~native.ready /\ fr = "home"
           /\ n = [Shown(native) EXCEPT !.timer = FALSE, !.loading = FALSE]
           /\ ev = toHome \o <<ShowHome, Event("load-failed", native.active)>>
           /\ d = [decided EXCEPT !.expired = decided.expired \/ TRUE]
  <2> DEFINE m == Shown(native)
  <2>s. m \in Natives /\ m.homeRequested /\ m.active = native.active /\ m.link = native.link /\ (m.runs <=> native.runs)
    BY <1>t, ShownIs
  <2> HIDE DEF m
  <2>1. /\ n \in Natives /\ ~n.loading /\ n.link = native.link /\ n.runs /\ n.homeRequested /\ n.active = native.active
    BY <1>1, <1>2, <2>s, WindowConstants DEF Natives, m
  <2>2. PICK told : told = Event("load-failed", native.active)
    OBVIOUS
  <2>3. told \in HomeEvents /\ told.kind = "load-failed" /\ SaysReady(told)
    BY <1>t, <2>2, EventsAre DEF EventKinds
  <2>4. /\ ev \in Seq(HomeEvents) /\ ReadySays(ev)
        /\ \A kinds : Coming(toHome, kinds) => Coming(ev, kinds)
        /\ Coming(ev, Clearing) /\ Coming(ev, Telling)
    BY <1>2, <2>2, <1>t, <2>3, EventsAre, TwoEvents DEF Clearing, Telling
  <2>5. d \in Deciding /\ d.choices = decided.choices /\ d.wants = decided.wants /\ d.expired
    BY <1>2, <1>t, WindowConstants DEF Deciding
  <2>6. LinkIs(n, f, h, ev, d.choices)
    <3>1. decided.choices \in Nat /\ d.choices \in {decided.choices, decided.choices + 1}
      BY <1>t, <2>5 DEF Deciding
    <3> QED
      <4>1. /\ LinkIs(native, f, h, toHome, decided.choices) /\ f \in Flows /\ h \in HomePages
            /\ \A kinds : Coming(toHome, kinds) => Coming(ev, kinds)
        BY <1>1, <1>t, <2>4
      <4> QED
        BY <1>t, <2>1, <3>1, <4>1, LinksKeep
  <2>7. TargetIs(n, f, h, ev)
    BY <1>1, <1>t, <2>4 DEF TargetIs
  <2>8. KnownIs(n, f, h, ev, rep)
    BY <1>1, <1>t, <2>4 DEF KnownIs, Underway
  <2>9. WordIs(n, r, f, d)
    BY <1>1, <1>t, <2>1, <2>5 DEF WordIs
  <2>10. NativeIs(n, r)
    BY <1>1, <1>2, <1>t, <2>1 DEF NativeIs
  <2>11. WindowsAre(n, r, fr, f, h, ev, rep, d)
    BY <1>1, <1>2, <1>t, <2>1, <2>4, <2>5, <2>6, <2>7, <2>8, <2>9, <2>10 DEF WindowsAre
  <2> QED
    BY <1>c, <2>11, WindowsStep
<1>3. CASE /\ ~(native.loading /\ ~native.ready) /\ fr = front
           /\ n = [native EXCEPT !.timer = FALSE] /\ ev = toHome \o <<>>
           /\ d = [decided EXCEPT !.expired = decided.expired \/ FALSE]
  <2>1. /\ n \in Natives /\ n.loading = native.loading /\ n.link = native.link /\ (n.runs <=> native.runs)
        /\ (n.homeRequested <=> native.homeRequested) /\ n.active = native.active /\ (n.ready <=> native.ready)
        /\ (n.latest <=> native.latest)
    BY <1>3, <1>t, WindowConstants DEF Natives
  <2>2. ShellSnapshot(n) = ShellSnapshot(native) /\ NativeIs(n, r)
    BY <1>1, <1>3, <1>t, <2>1 DEF NativeIs, ShellSnapshot
  <2>3. ev = toHome
    BY <1>3, <1>t, ConcatEmptySeq
  <2>4. d \in Deciding /\ d.choices = decided.choices /\ d.wants = decided.wants /\ (d.expired <=> decided.expired)
    BY <1>3, <1>t DEF Deciding
  <2>5. LinkIs(n, flow, homePage, ev, d.choices)
    BY <1>t, <2>4, <2>1, <2>3, LinksKeep DEF Deciding
  <2> QED
    BY <1>c, <1>t, <1>1, <1>3, <2>1, <2>2, <2>3, <2>4, <2>5, FrontMoves
<1> QED
  BY <1>1, <1>2, <1>3

\* The page is there.
LEMMA PageIsReady == ASSUME WindowsInv, PageReady PROVE WindowsInv'
<1>c. PICK n, r, fr, f, h, ev, rep, d :
          /\ n = native' /\ r = remote' /\ fr = front' /\ f = flow' /\ h = homePage' /\ ev = toHome'
          /\ rep = replies' /\ d = decided'
  OBVIOUS
<1>t. /\ native \in Natives /\ remote \in Windows /\ front \in {"home", "remote", "hidden"} /\ flow \in Flows
      /\ homePage \in HomePages /\ toHome \in Seq(HomeEvents)
      /\ replies \in [Questions -> Shots \cup {NoReply, Waiting}] /\ decided \in Deciding
      /\ NativeIs(native, remote) /\ FlowIs(flow)
      /\ LinkIs(native, flow, homePage, toHome, decided.choices)
      /\ TargetIs(native, flow, homePage, toHome)
      /\ KnownIs(native, flow, homePage, toHome, replies) /\ WordIs(native, remote, flow, decided)
      /\ ReadySays(toHome) /\ native.active \in Sites /\ native.loading \in BOOLEAN /\ flow.latest \in BOOLEAN
  BY WindowsAreTyped
<1>1. /\ f = flow /\ h = homePage /\ r = remote /\ rep = replies /\ d = decided /\ flow.at # "health" /\ native.runs
      /\ remote.place # NoPlace
      /\ n = [native EXCEPT !.ready = TRUE, !.loading = FALSE]
      /\ ev = toHome \o <<Event("ready", native.active)>> /\ fr \in {"home", "remote", "hidden"}
  BY <1>c, <1>t DEF PageReady, Unlocked, TellsHome
<1>2. /\ n \in Natives /\ ~n.loading /\ n.ready /\ n.link = native.link /\ n.active = native.active
      /\ (n.homeRequested <=> native.homeRequested) /\ (n.runs <=> native.runs)
  BY <1>1, <1>t, WindowConstants DEF Natives
<1>3. PICK told : told = Event("ready", native.active)
  OBVIOUS
<1>4. told \in HomeEvents /\ told.kind = "ready" /\ SaysReady(told)
  BY <1>t, <1>3, EventsAre DEF EventKinds
<1>5. /\ ev \in Seq(HomeEvents) /\ ReadySays(ev)
      /\ \A kinds : Coming(toHome, kinds) => Coming(ev, kinds)
      /\ Coming(ev, Clearing) /\ Coming(ev, Telling) /\ Coming(ev, {"ready"})
  BY <1>1, <1>3, <1>t, <1>4, EventsGrow DEF Clearing, Telling
<1>6. LinkIs(n, f, h, ev, d.choices)
  <2>1. decided.choices \in Nat /\ d.choices \in {decided.choices, decided.choices + 1}
    BY <1>1, <1>t DEF Deciding
  <2> QED
    <3>1. /\ LinkIs(native, f, h, toHome, decided.choices) /\ f \in Flows /\ h \in HomePages
          /\ \A kinds : Coming(toHome, kinds) => Coming(ev, kinds)
      BY <1>1, <1>t, <1>5
    <3> QED
      BY <1>t, <1>2, <2>1, <3>1, LinksKeep
<1>7. TargetIs(n, f, h, ev)
  BY <1>1, <1>t, <1>5 DEF TargetIs
<1>8. KnownIs(n, f, h, ev, rep)
  BY <1>1, <1>2, <1>t, <1>5 DEF KnownIs, Underway
<1>9. WordIs(n, r, f, d)
  BY <1>1, <1>t, <1>2 DEF WordIs
<1>10. NativeIs(n, r)
  BY <1>1, <1>t, <1>2 DEF NativeIs
<1>11. WindowsAre(n, r, fr, f, h, ev, rep, d)
  BY <1>1, <1>t, <1>2, <1>5, <1>6, <1>7, <1>8, <1>9, <1>10 DEF WindowsAre
<1> QED
  BY <1>c, <1>11, WindowsStep

\* What was recorded of links, an offer and the quit request changes nothing else.
LEMMA PageKeeps ==
    ASSUME NEW n, NEW r, NEW fr, NEW f, NEW h, NEW ev, NEW rep, NEW d, WindowsAre(n, r, fr, f, h, ev, rep, d),
           NEW page \in HomePages, LinkIs(n, f, page, ev, d.choices),
           page.active = h.active, page.loading = h.loading, page.target = h.target, page.received = h.received,
           page.stale <=> h.stale, page.misled <=> h.misled
    PROVE  WindowsAre(n, r, fr, f, page, ev, rep, d)
BY DEF WindowsAre, TargetIs, OnItsWay, Arrived, Latest, KnownIs

\* Home asks, or waits for a report, with nothing sent.
LEMMA AskKeeps ==
    ASSUME NEW n, NEW r, NEW fr, NEW f0, NEW h, NEW ev, NEW rep, NEW d, WindowsAre(n, r, fr, f0, h, ev, rep, d),
           f0.at \in {"none", "report", "question"},
           NEW f \in Flows, f.at \in {"report", "question"}, f.kind # "none", Opening(f) => f.place # NoPlace,
           f.kind = "disconnect" => h.target = NoPlace, LinkIs(n, f, h, ev, d.choices)
    PROVE  WindowsAre(n, r, fr, f, h, ev, rep, d)
BY WindowConstants DEF FlowIs, WindowsAre, TargetIs, OnItsWay, Answering, KnownIs, WordIs

\* A command is sent: a window opens by it, or it waits for the lock.
LEMMA CommandKeeps ==
    ASSUME NEW n, NEW r, NEW fr, NEW f0, NEW h, NEW ev, NEW rep, NEW d, WindowsAre(n, r, fr, f0, h, ev, rep, d),
           f0.at \in {"none", "report", "question"},
           NEW f \in Flows, f.kind # "none", Opening(f) => f.place # NoPlace,
           f.kind = "disconnect" => h.target = NoPlace, LinkIs(n, f, h, ev, d.choices),
           NEW n1, NEW f1, NEW h1, NEW d1,
           \/ /\ f.kind \in Opens
              /\ f1 = [f EXCEPT !.at = "sent", !.latest = TRUE]
              /\ h1 = [h EXCEPT !.target = f.place, !.received = NoPlace, !.misled = FALSE]
              /\ n1 = [n EXCEPT !.latest = FALSE, !.homeRequested = FALSE]
              /\ d1 = [d EXCEPT !.wants = f.place]
           \/ /\ f.kind \notin Opens
              /\ f1 = [f EXCEPT !.at = "native"] /\ h1 = h /\ d1 = d /\ n1 = n
    PROVE  WindowsAre(n1, r, fr, f1, h1, ev, rep, d1)
<1>t. /\ n \in Natives /\ r \in Windows /\ h \in HomePages /\ d \in Deciding /\ NativeIs(n, r) /\ FlowIs(f0)
      /\ TargetIs(n, f0, h, ev) /\ KnownIs(n, f0, h, ev, rep) /\ WordIs(n, r, f0, d)
  BY DEF WindowsAre
<1>1. CASE /\ f.kind \in Opens
           /\ f1 = [f EXCEPT !.at = "sent", !.latest = TRUE]
           /\ h1 = [h EXCEPT !.target = f.place, !.received = NoPlace, !.misled = FALSE]
           /\ n1 = [n EXCEPT !.latest = FALSE, !.homeRequested = FALSE]
           /\ d1 = [d EXCEPT !.wants = f.place]
  <2>1. /\ f1 \in Flows /\ f1.kind = f.kind /\ f1.place = f.place /\ f1.at = "sent" /\ f1.latest /\ f1.link = f.link
        /\ f1.place # NoPlace /\ f.place \in Sites
    BY <1>1, WindowConstants DEF Flows, FlowPlaces, Opening
  <2>2. /\ h1 \in HomePages /\ h1.target = f.place /\ h1.received = NoPlace /\ ~h1.misled /\ h1.active = h.active
        /\ h1.loading = h.loading /\ (h1.stale <=> h.stale) /\ h1.link = h.link /\ h1.deferred = h.deferred
        /\ h1.offered = h.offered
    BY <1>1, <1>t, <2>1, WindowConstants DEF HomePages
  <2>3. /\ n1 \in Natives /\ ~n1.latest /\ n1.active = n.active /\ n1.loading = n.loading /\ (n1.ready <=> n.ready)
        /\ (n1.timer <=> n.timer) /\ n1.link = n.link /\ (n1.runs <=> n.runs)
    BY <1>1, <1>t, WindowConstants DEF Natives
  <2>4. d1 \in Deciding /\ d1.wants = f.place /\ d1.choices = d.choices /\ (d1.expired <=> d.expired)
    BY <1>1, <1>t, <2>1 DEF Deciding
  <2>5. Opening(f1) /\ ShellSnapshot(n1) = ShellSnapshot(n)
    BY <1>1, <2>1, <2>3 DEF Opening, ShellSnapshot
  <2>6. NativeIs(n1, r)
    BY <1>t, <2>3 DEF NativeIs
  <2>7. FlowIs(f1)
    BY <1>1, <2>1, <2>5, WindowConstants DEF FlowIs, Opening, Opens
  <2>8. LinkIs(n1, f1, h1, ev, d1.choices)
    BY <2>1, <2>2, <2>3, <2>4 DEF LinkIs
  <2>9. TargetIs(n1, f1, h1, ev)
    BY <2>1, <2>5 DEF TargetIs, OnItsWay, Opening, Opens
  <2>10. KnownIs(n1, f1, h1, ev, rep)
    BY <1>t, <2>1, <2>2, <2>3, <2>5 DEF KnownIs, Answering
  <2>11. WordIs(n1, r, f1, d1)
    BY <1>t, <2>1, <2>3, <2>4 DEF WordIs
  <2> QED
    BY <2>1, <2>2, <2>3, <2>4, <2>6, <2>7, <2>8, <2>9, <2>10, <2>11 DEF WindowsAre
<1>2. CASE /\ f.kind \notin Opens
           /\ f1 = [f EXCEPT !.at = "native"] /\ h1 = h /\ d1 = d /\ n1 = n
  <2>1. f1 \in Flows /\ f1.kind = f.kind /\ f1.at = "native" /\ f1.link = f.link
    BY <1>2 DEF Flows, FlowPlaces
  <2>2. ~Opening(f1)
    BY <1>2, <2>1 DEF Opening
  <2>3. FlowIs(f1)
    BY <2>1, <2>2, WindowConstants DEF FlowIs
  <2>4. LinkIs(n1, f1, h1, ev, d1.choices)
    BY <1>2, <2>1 DEF LinkIs
  <2>5. TargetIs(n1, f1, h1, ev)
    BY <1>2, <1>t, <2>1, <2>2 DEF TargetIs, OnItsWay, Answering
  <2>6. KnownIs(n1, f1, h1, ev, rep)
    BY <1>2, <1>t, <2>1, <2>2 DEF KnownIs
  <2>7. WordIs(n1, r, f1, d1)
    BY <1>2, <1>t, <2>1, <2>2 DEF WordIs
  <2> QED
    BY <1>2, <2>1, <2>3, <2>4, <2>5, <2>6, <2>7 DEF WindowsAre
<1> QED
  BY <1>1, <1>2

\* SendsCommand, whatever the page and the history are by then.
LEMMA CommandIsSent ==
    ASSUME NEW f0, NEW page, NEW events, NEW done,
           WindowsAre(native, remote, front, f0, page, events, replies, done), f0.at \in {"none", "report", "question"},
           NEW f \in Flows, f.kind # "none", Opening(f) => f.place # NoPlace,
           f.kind = "disconnect" => page.target = NoPlace, LinkIs(native, f, page, events, done.choices),
           SendsCommand(f, page, done), toHome' = events, UNCHANGED <<remote, front, replies>>
    PROVE  WindowsInv'
<1>c. PICK n, r, fr, g, h, ev, rep, d :
          /\ n = native' /\ r = remote' /\ fr = front' /\ g = flow' /\ h = homePage' /\ ev = toHome'
          /\ rep = replies' /\ d = decided'
  OBVIOUS
<1>1. r = remote /\ fr = front /\ ev = events /\ rep = replies
  BY <1>c
<1>2. \/ /\ f.kind \in Opens
         /\ g = [f EXCEPT !.at = "sent", !.latest = TRUE]
         /\ h = [page EXCEPT !.target = f.place, !.received = NoPlace, !.misled = FALSE]
         /\ n = [native EXCEPT !.latest = FALSE, !.homeRequested = FALSE]
         /\ d = [done EXCEPT !.wants = f.place]
      \/ /\ f.kind \notin Opens
         /\ g = [f EXCEPT !.at = "native"] /\ h = page /\ d = done /\ n = native
  BY <1>c DEF SendsCommand
<1>3. WindowsAre(n, remote, front, g, h, events, replies, d)
  BY <1>2, CommandKeeps
<1>4. WindowsAre(n, r, fr, g, h, ev, rep, d)
  BY <1>1, <1>3
<1> QED
  BY <1>c, <1>4, WindowsStep

\* Home begins something: it sends the command at once, or asks first.
LEMMA BeginsKeeps ==
    ASSUME NEW page, NEW events, NEW done,
           WindowsAre(native, remote, front, NoFlow, page, events, replies, done),
           NEW kind \in {"connect", "link", "disconnect", "quit"}, NEW place \in Sites, NEW reload \in BOOLEAN,
           kind \in Opens => place # NoPlace, kind = "disconnect" => page.target = NoPlace,
           kind = "link" => page.offered = NoPlace,
           Begins(kind, place, reload, page, done), toHome' = events, UNCHANGED <<remote, front, replies>>
    PROVE  WindowsInv'
<1> DEFINE f == [NoFlow EXCEPT !.kind = kind, !.place = place, !.reload = reload,
                               !.link = IF kind = "link" THEN page.link ELSE NoPlace]
           asked == [f EXCEPT !.at = "report"]
<1>1. page \in HomePages /\ LinkIs(native, NoFlow, page, events, done.choices)
  BY DEF WindowsAre
<1>2. PICK link \in Links : link = IF kind = "link" THEN page.link ELSE NoPlace
  BY <1>1, WindowConstants DEF HomePages
<1>3. /\ f \in Flows /\ f.kind = kind /\ f.place = place /\ f.link = link /\ f.at = "none"
  BY <1>2, WindowConstants DEF Flows
<1> HIDE DEF f
<1>4. /\ asked \in Flows /\ asked.kind = kind /\ asked.place = place /\ asked.link = link /\ asked.at = "report"
  BY <1>3 DEF Flows, FlowPlaces
<1>5. /\ LinkIs(native, f, page, events, done.choices)
      /\ LinkIs(native, asked, page, events, done.choices)
  BY <1>1, <1>2, <1>3, <1>4 DEF Aged, LinkIs
<1>6. NoFlow.at \in {"none", "report", "question"}
  BY WindowConstants
<1>7. /\ kind # "none" /\ (Opening(f) => f.place # NoPlace) /\ (Opening(asked) => asked.place # NoPlace)
  BY <1>3, <1>4 DEF Opening
<1>8. \/ flow' = asked /\ homePage' = page /\ decided' = done /\ UNCHANGED native
      \/ SendsCommand(f, page, done)
  BY DEF Begins, f
<1>9. CASE SendsCommand(f, page, done)
  BY <1>3, <1>7, <1>5, <1>6, <1>9, CommandIsSent
<1>10. CASE flow' = asked /\ homePage' = page /\ decided' = done /\ UNCHANGED native
  <2>1. asked.kind # "none" /\ (asked.kind = "disconnect" => page.target = NoPlace) /\ asked.at \in {"report", "question"}
    BY <1>4, <1>7
  <2>2. WindowsAre(native, remote, front, asked, page, events, replies, done)
    BY <1>4, <1>5, <1>6, <1>7, <2>1, AskKeeps
  <2>c. PICK n, r, fr, g, h, ev, rep, d :
            /\ n = native' /\ r = remote' /\ fr = front' /\ g = flow' /\ h = homePage' /\ ev = toHome'
            /\ rep = replies' /\ d = decided'
    OBVIOUS
  <2>3. /\ n = native /\ r = remote /\ fr = front /\ g = asked /\ h = page /\ ev = events /\ rep = replies /\ d = done
    BY <1>10, <2>c
  <2>4. WindowsAre(n, r, fr, g, h, ev, rep, d)
    BY <2>2, <2>3
  <2> QED
    BY <2>c, <2>4, WindowsStep
<1> QED
  BY <1>8, <1>9, <1>10

LEMMA FlowKinds ==
    ASSUME WindowsInv
    PROVE  /\ flow.at # "none" => flow.kind # "none"
           /\ Opening(flow) => flow.place # NoPlace
           /\ flow.kind = "none" => flow = NoFlow
           /\ flow.kind = "disconnect" => homePage.target = NoPlace
BY WindowsAreTyped, WindowConstants DEF FlowIs, TargetIs

\* The member picks an Installation, reloads, retries or leaves.
LEMMA MemberChooses ==
    ASSUME WindowsInv, NEW kind \in {"connect", "link", "disconnect"}, NEW place \in Sites, NEW reload \in BOOLEAN,
           kind \in Opens => place # NoPlace, Chooses(kind, place, reload, homePage)
    PROVE  WindowsInv'
BY ActedKeeps, BeginsKeeps DEF Chooses, Presses, Free, WindowsInv, Acted

LEMMA MemberPresses ==
    ASSUME WindowsInv, PressConnect \/ PressReload \/ PressDisconnect \/ PressRetry
    PROVE  WindowsInv'
BY WindowsAreTyped, DesktopWindowsAssumption, MemberChooses, WindowConstants DEF HomePages, PressConnect, Sites,
   PressReload, PressDisconnect, Opens, PressRetry

\* The page's word on the call is heard, or none came.
LEMMA ReportIsHeard == ASSUME WindowsInv, ReportHeard PROVE WindowsInv'
<1>c. PICK n, r, fr, f, h, ev, rep, d :
          /\ n = native' /\ r = remote' /\ fr = front' /\ f = flow' /\ h = homePage' /\ ev = toHome'
          /\ rep = replies' /\ d = decided'
  OBVIOUS
<1>t. /\ native \in Natives /\ remote \in Windows /\ front \in {"home", "remote", "hidden"} /\ flow \in Flows
      /\ homePage \in HomePages /\ toHome \in Seq(HomeEvents)
      /\ replies \in [Questions -> Shots \cup {NoReply, Waiting}] /\ decided \in Deciding
      /\ NativeIs(native, remote) /\ FlowIs(flow)
      /\ LinkIs(native, flow, homePage, toHome, decided.choices)
      /\ TargetIs(native, flow, homePage, toHome)
      /\ KnownIs(native, flow, homePage, toHome, replies) /\ WordIs(native, remote, flow, decided)
      /\ ReadySays(toHome) /\ native.active \in Sites /\ native.loading \in BOOLEAN /\ flow.latest \in BOOLEAN
  BY WindowsAreTyped
<1>1. /\ flow.at = "report" /\ UNCHANGED <<remote, front, toHome, replies>>
      /\ \/ flow' = [flow EXCEPT !.at = "question"] /\ UNCHANGED <<homePage, native, decided>>
         \/ SendsCommand(flow, homePage, decided)
  BY DEF ReportHeard
<1>2. WindowsAre(native, remote, front, flow, homePage, toHome, replies, decided)
  BY DEF WindowsInv
<1>3. flow.kind # "none" /\ (Opening(flow) => flow.place # NoPlace) /\ (flow.kind = "disconnect" => homePage.target = NoPlace)
  BY <1>1, FlowKinds
<1>4. CASE flow' = [flow EXCEPT !.at = "question"] /\ UNCHANGED <<homePage, native, decided>>
  <2>1. /\ n = native /\ r = remote /\ fr = front /\ h = homePage /\ ev = toHome /\ rep = replies /\ d = decided
        /\ f = [flow EXCEPT !.at = "question"]
    BY <1>c, <1>1, <1>4
  <2>2. f \in Flows /\ f.kind = flow.kind /\ f.place = flow.place /\ f.at = "question" /\ f.link = flow.link
    BY <1>t, <2>1 DEF Flows, FlowPlaces
  <2>3. LinkIs(native, f, homePage, toHome, decided.choices) /\ (Opening(f) => f.place # NoPlace)
    BY <1>t, <1>3, <2>2 DEF LinkIs, Opening
  <2>4. WindowsAre(native, remote, front, f, homePage, toHome, replies, decided)
    BY <1>1, <1>2, <1>3, <2>2, <2>3, AskKeeps
  <2>5. WindowsAre(n, r, fr, f, h, ev, rep, d)
    BY <2>1, <2>4
  <2> QED
    BY <1>c, <2>5, WindowsStep
<1>5. CASE SendsCommand(flow, homePage, decided)
  BY <1>1, <1>t, <1>2, <1>3, <1>5, CommandIsSent
<1> QED
  BY <1>1, <1>4, <1>5

\* What Home was busy with has ended.
LEMMA HandledIs ==
    ASSUME WindowsInv, NEW page \in HomePages, page.link = homePage.link, page.deferred = homePage.deferred,
           page.offered = homePage.offered
    PROVE  /\ Handled(page) \in HomePages /\ Handled(page).active = page.active /\ Handled(page).loading = page.loading
           /\ Handled(page).target = page.target /\ Handled(page).received = page.received
           /\ (Handled(page).stale <=> page.stale) /\ (Handled(page).misled <=> page.misled)
           /\ LinkIs(native, NoFlow, Handled(page), toHome, decided.choices)
           /\ LinkIs(native, NoFlow, page, toHome, decided.choices)
BY WindowsAreTyped, WindowConstants DEF Aged, LinkIs, Handled, HomePages

LEMMA FlowFinishes ==
    ASSUME WindowsInv, NEW page \in HomePages, Finished(page), UNCHANGED <<remote, front, toHome, replies>>,
           LinkIs(native, NoFlow, page, toHome, decided.choices),
           native.runs /\ page.target # NoPlace => (native.loading /\ native.active # NoPlace) \/ Coming(toHome, Clearing),
           native.runs =>
               <<page.active, page.loading>> = ShellSnapshot(native) \/ page.stale \/ Underway(toHome, replies)
    PROVE  WindowsInv'
<1>c. PICK n, r, fr, f, h, ev, rep, d :
          /\ n = native' /\ r = remote' /\ fr = front' /\ f = flow' /\ h = homePage' /\ ev = toHome'
          /\ rep = replies' /\ d = decided'
  OBVIOUS
<1>t. /\ native \in Natives /\ remote \in Windows /\ front \in {"home", "remote", "hidden"} /\ flow \in Flows
      /\ homePage \in HomePages /\ toHome \in Seq(HomeEvents)
      /\ replies \in [Questions -> Shots \cup {NoReply, Waiting}] /\ decided \in Deciding
      /\ NativeIs(native, remote) /\ FlowIs(flow)
      /\ LinkIs(native, flow, homePage, toHome, decided.choices)
      /\ TargetIs(native, flow, homePage, toHome)
      /\ KnownIs(native, flow, homePage, toHome, replies) /\ WordIs(native, remote, flow, decided)
      /\ ReadySays(toHome) /\ native.active \in Sites /\ native.loading \in BOOLEAN /\ flow.latest \in BOOLEAN
  BY WindowsAreTyped
<1>1. /\ n = native /\ r = remote /\ fr = front /\ h = page /\ ev = toHome /\ rep = replies /\ d = decided /\ f = NoFlow
  BY <1>c DEF Finished
<1>2. FlowIs(NoFlow)
  BY WindowConstants DEF FlowIs
<1>3. TargetIs(native, NoFlow, page, toHome)
  BY WindowConstants DEF TargetIs
<1>4. KnownIs(native, NoFlow, page, toHome, replies)
  BY <1>t, WindowConstants DEF KnownIs
<1>5. WordIs(native, remote, NoFlow, decided)
  BY <1>t, WindowConstants DEF WordIs
<1>6. WindowsAre(native, remote, front, NoFlow, page, toHome, replies, decided)
  BY <1>t, <1>2, <1>3, <1>4, <1>5, WindowConstants DEF WindowsAre
<1>7. WindowsAre(n, r, fr, f, h, ev, rep, d)
  BY <1>1, <1>6
<1> QED
  BY <1>c, <1>7, WindowsStep

LEMMA QuestionIsAnswered == ASSUME WindowsInv, AnswerQuestion PROVE WindowsInv'
<1>t. /\ flow \in Flows /\ homePage \in HomePages /\ LinkIs(native, flow, homePage, toHome, decided.choices)
      /\ TargetIs(native, flow, homePage, toHome) /\ KnownIs(native, flow, homePage, toHome, replies)
  BY WindowsAreTyped
<1>1. /\ flow.at = "question" /\ UNCHANGED <<remote, front, toHome, replies>>
      /\ SendsCommand([flow EXCEPT !.confirmed = TRUE], homePage, decided) \/ Finished(Handled(homePage))
  BY DEF AnswerQuestion, Asked
<1>2. WindowsAre(native, remote, front, flow, homePage, toHome, replies, decided)
  BY DEF WindowsInv
<1>3. CASE SendsCommand([flow EXCEPT !.confirmed = TRUE], homePage, decided)
  <2> DEFINE f == [flow EXCEPT !.confirmed = TRUE]
  <2>1. f \in Flows /\ f.kind = flow.kind /\ f.place = flow.place /\ f.link = flow.link
    BY <1>t, WindowConstants DEF Flows
  <2>2. SendsCommand(f, homePage, decided)
    BY <1>3
  <2> HIDE DEF f
  <2>3. /\ f.kind # "none" /\ (Opening(f) => f.place # NoPlace) /\ (f.kind = "disconnect" => homePage.target = NoPlace)
        /\ flow.at \in {"none", "report", "question"}
    BY <1>1, <2>1, FlowKinds DEF Opening
  <2>4. LinkIs(native, f, homePage, toHome, decided.choices)
    BY <1>t, <2>1 DEF LinkIs
  <2> QED
    BY <1>1, <1>2, <2>1, <2>2, <2>3, <2>4, CommandIsSent
<1>4. CASE Finished(Handled(homePage))
  <2> DEFINE page == Handled(homePage)
  <2>1. /\ page \in HomePages /\ page.active = homePage.active /\ page.loading = homePage.loading
        /\ page.target = homePage.target /\ (page.stale <=> homePage.stale)
        /\ LinkIs(native, NoFlow, page, toHome, decided.choices)
    BY <1>t, HandledIs
  <2> HIDE DEF page
  <2>2. native.runs /\ page.target # NoPlace => (native.loading /\ native.active # NoPlace) \/ Coming(toHome, Clearing)
    BY <1>1, <1>t, <2>1 DEF TargetIs, OnItsWay, Answering
  <2>3. native.runs => <<page.active, page.loading>> = ShellSnapshot(native) \/ page.stale \/ Underway(toHome, replies)
    BY <1>1, <1>t, <2>1 DEF KnownIs
  <2>4. Finished(page)
    BY <1>4 DEF page
  <2> QED
    BY <1>1, <2>1, <2>2, <2>3, <2>4, FlowFinishes
<1> QED
  BY <1>1, <1>3, <1>4

\* An answer to a command.
LEMMA FlowIsAnswered == ASSUME WindowsInv, FlowAnswered PROVE WindowsInv'
<1>c. PICK n, r, fr, f, h, ev, rep, d :
          /\ n = native' /\ r = remote' /\ fr = front' /\ f = flow' /\ h = homePage' /\ ev = toHome'
          /\ rep = replies' /\ d = decided'
  OBVIOUS
<1>t. /\ native \in Natives /\ remote \in Windows /\ front \in {"home", "remote", "hidden"} /\ flow \in Flows
      /\ homePage \in HomePages /\ toHome \in Seq(HomeEvents)
      /\ replies \in [Questions -> Shots \cup {NoReply, Waiting}] /\ decided \in Deciding
      /\ NativeIs(native, remote) /\ FlowIs(flow)
      /\ LinkIs(native, flow, homePage, toHome, decided.choices)
      /\ TargetIs(native, flow, homePage, toHome)
      /\ KnownIs(native, flow, homePage, toHome, replies) /\ WordIs(native, remote, flow, decided)
      /\ ReadySays(toHome) /\ native.active \in Sites /\ native.loading \in BOOLEAN /\ flow.latest \in BOOLEAN
  BY WindowsAreTyped
<1> DEFINE upToDate == flow.kind \in Opens => flow.latest
           arrived == IF flow.kind \in Opens THEN Latest(homePage, flow) ELSE flow.shown
           page == IF flow.kind \in Opens /\ (flow.at # "done" \/ ~arrived[2])
                   THEN [homePage EXCEPT !.target = NoPlace] ELSE homePage
           read == [page EXCEPT !.active = arrived[1], !.loading = arrived[2], !.stale = page.misled,
                                !.failed = IF flow.kind \in Opens THEN NoPlace ELSE page.failed]
<1>1. /\ flow.at \in Answering /\ native.runs /\ UNCHANGED <<remote, front, toHome, replies>>
      /\ \/ ~upToDate /\ Finished(Handled(homePage))
         \/ upToDate /\ flow.at = "done" /\ Finished(Handled(read))
         \/ /\ upToDate /\ flow.at = "confirmation" /\ flow' = [flow EXCEPT !.at = "question"]
            /\ homePage' = page /\ UNCHANGED <<native, decided>>
         \/ upToDate /\ flow.at = "failed" /\ Finished([page EXCEPT !.failed = flow.place])
         \/ upToDate /\ flow.at = "cancelled" /\ Finished(page)
  BY DEF FlowAnswered, Answering
<1>2. /\ upToDate <=> Current(flow)
      /\ flow.kind \in Opens <=> Opening(flow)
      /\ arrived = Arrived(flow, homePage)
  BY DEF Current, Opening, Arrived
<1>3. /\ page \in HomePages /\ page.active = homePage.active /\ page.loading = homePage.loading
      /\ page.received = homePage.received /\ page.link = homePage.link /\ page.deferred = homePage.deferred
      /\ page.offered = homePage.offered /\ page.stale = homePage.stale /\ page.misled = homePage.misled
      /\ page.target = IF Opening(flow) /\ (flow.at # "done" \/ ~arrived[2]) THEN NoPlace ELSE homePage.target
      /\ page.failed = homePage.failed
  BY <1>2, <1>t, WindowConstants DEF HomePages
<1> HIDE DEF page, arrived, upToDate
<1>4. CASE ~upToDate /\ Finished(Handled(homePage))
  <2> DEFINE ended == Handled(homePage)
  <2>1. /\ ended \in HomePages /\ ended.active = homePage.active /\ ended.loading = homePage.loading
        /\ ended.target = homePage.target /\ (ended.stale <=> homePage.stale)
        /\ LinkIs(native, NoFlow, ended, toHome, decided.choices)
    BY <1>t, HandledIs
  <2>2. Finished(ended)
    BY <1>4
  <2> HIDE DEF ended
  <2>3. ended.target = NoPlace
    BY <1>1, <1>2, <1>4, <1>t, <2>1 DEF TargetIs, Current
  <2>4. native.runs => <<ended.active, ended.loading>> = ShellSnapshot(native) \/ ended.stale \/ Underway(toHome, replies)
    BY <1>2, <1>4, <1>t, <2>1 DEF KnownIs
  <2> QED
    BY <1>1, <2>1, <2>2, <2>3, <2>4, FlowFinishes
<1>5. CASE upToDate /\ flow.at = "done" /\ Finished(Handled(read))
  <2>1. arrived \in Shots /\ arrived[1] \in Sites /\ arrived[2] \in BOOLEAN /\ arrived = <<arrived[1], arrived[2]>>
    <3>1. flow.shown \in Shots
      BY <1>5, <1>t DEF FlowIs
    <3>2. flow.shown[1] \in Sites /\ FALSE \in BOOLEAN
      BY <3>1 DEF Shots
    <3>3. PICK shot : shot = Latest(homePage, flow)
      OBVIOUS
    <3>4. shot \in Shots
      BY <3>1, <3>2, <3>3 DEF Latest, Shots
    <3>5. arrived \in Shots
      BY <3>1, <3>3, <3>4 DEF arrived
    <3> QED
      BY <3>5 DEF Shots
  <2>2. PICK at \in Sites, loads \in BOOLEAN, failed \in Sites :
           /\ at = arrived[1] /\ loads = arrived[2]
           /\ failed = IF flow.kind \in Opens THEN NoPlace ELSE page.failed
    BY <1>3, <2>1, WindowConstants DEF HomePages
  <2>3. read = [page EXCEPT !.active = at, !.loading = loads, !.stale = page.misled, !.failed = failed]
    BY <2>2
  <2>4. /\ read \in HomePages /\ read.active = at /\ read.loading = loads /\ (read.stale <=> page.misled)
        /\ read.target = page.target /\ read.link = page.link /\ read.deferred = page.deferred
        /\ read.offered = page.offered
    BY <1>3, <2>3 DEF HomePages
  <2> HIDE DEF read
  <2> DEFINE ended == Handled(read)
  <2>5. /\ ended \in HomePages /\ ended.active = at /\ ended.loading = loads
        /\ ended.target = page.target /\ (ended.stale <=> page.misled)
        /\ LinkIs(native, NoFlow, ended, toHome, decided.choices)
    BY <1>3, <2>4, HandledIs
  <2>6. Finished(ended)
    BY <1>5
  <2> HIDE DEF ended
  <2>7. native.runs /\ ended.target # NoPlace => (native.loading /\ native.active # NoPlace) \/ Coming(toHome, Clearing)
    <3>1. Opening(flow) /\ arrived[2] => ~OnItsWay(flow, homePage)
      BY <1>2, <1>5 DEF Arrived, Latest, OnItsWay
    <3> QED
      BY <1>3, <1>5, <1>t, <2>5, <3>1 DEF TargetIs
  <2>8. native.runs => <<ended.active, ended.loading>> = ShellSnapshot(native) \/ ended.stale \/ Underway(toHome, replies)
    BY <2>1, <2>2, <2>5, <1>2, <1>5, <1>t, <1>3 DEF KnownIs, Coming, Underway, Telling
  <2> QED
    BY <1>1, <2>5, <2>6, <2>7, <2>8, FlowFinishes
<1>6. CASE /\ upToDate /\ flow.at = "confirmation" /\ flow' = [flow EXCEPT !.at = "question"]
           /\ homePage' = page /\ UNCHANGED <<native, decided>>
  <2>1. /\ n = native /\ r = remote /\ fr = front /\ h = page /\ ev = toHome /\ rep = replies /\ d = decided
        /\ f = [flow EXCEPT !.at = "question"]
    BY <1>c, <1>1, <1>6
  <2>2. f \in Flows /\ f.kind = flow.kind /\ f.place = flow.place /\ f.at = "question" /\ f.link = flow.link
    BY <1>t, <2>1 DEF Flows, FlowPlaces
  <2>3. LinkIs(native, f, page, toHome, decided.choices)
    BY <1>t, <1>3, <2>2 DEF LinkIs
  <2>4. FlowIs(f)
    BY <1>6, <1>t, <2>2, FlowKinds, WindowConstants DEF FlowIs, Opening
  <2>5. TargetIs(native, f, page, toHome)
    BY <1>3, <1>6, <1>t, <2>2 DEF TargetIs, OnItsWay, Answering, Opening
  <2>6. KnownIs(native, f, page, toHome, replies)
    BY <1>3, <1>6, <1>t, <2>2 DEF KnownIs, Answering
  <2>7. WordIs(native, remote, f, decided)
    BY <1>t, <2>2 DEF WordIs
  <2>8. WindowsAre(n, r, fr, f, h, ev, rep, d)
    BY <1>3, <1>t, <2>1, <2>2, <2>3, <2>4, <2>5, <2>6, <2>7 DEF WindowsAre
  <2> QED
    BY <1>c, <2>8, WindowsStep
<1>7. ASSUME upToDate, flow.at \in {"failed", "cancelled"}, NEW ended,
             ended = page \/ ended = [page EXCEPT !.failed = flow.place], Finished(ended)
      PROVE  WindowsInv'
  <2>1. Opening(flow) /\ flow.place \in Sites
    BY <1>7, <1>t, WindowConstants DEF FlowIs, Opening, Opens, Flows
  <2>2. /\ ended \in HomePages /\ ended.active = page.active /\ ended.loading = page.loading
        /\ ended.target = page.target /\ (ended.stale <=> page.stale) /\ ended.link = page.link
        /\ ended.deferred = page.deferred /\ ended.offered = page.offered
    BY <1>3, <1>7, <2>1 DEF HomePages
  <2>3. LinkIs(native, NoFlow, ended, toHome, decided.choices)
    BY <1>3, <2>2, HandledIs
  <2>4. ended.target = NoPlace
    BY <1>3, <1>7, <2>1, <2>2
  <2>5. native.runs => <<ended.active, ended.loading>> = ShellSnapshot(native) \/ ended.stale \/ Underway(toHome, replies)
    BY <1>3, <1>7, <1>t, <2>2 DEF KnownIs
  <2> QED
    BY <1>1, <1>7, <2>2, <2>3, <2>4, <2>5, FlowFinishes
<1> QED
  BY <1>1, <1>4, <1>5, <1>6, <1>7

\* An answer to cancel_connection or shell_state.
LEMMA ReplyIsHeard == ASSUME WindowsInv, NEW c \in Questions, HearReply(c) PROVE WindowsInv'
<1>c. PICK n, r, fr, f, h, ev, rep, d :
          /\ n = native' /\ r = remote' /\ fr = front' /\ f = flow' /\ h = homePage' /\ ev = toHome'
          /\ rep = replies' /\ d = decided'
  OBVIOUS
<1>t. /\ native \in Natives /\ remote \in Windows /\ front \in {"home", "remote", "hidden"} /\ flow \in Flows
      /\ homePage \in HomePages /\ toHome \in Seq(HomeEvents)
      /\ replies \in [Questions -> Shots \cup {NoReply, Waiting}] /\ decided \in Deciding
      /\ NativeIs(native, remote) /\ FlowIs(flow)
      /\ LinkIs(native, flow, homePage, toHome, decided.choices)
      /\ TargetIs(native, flow, homePage, toHome)
      /\ KnownIs(native, flow, homePage, toHome, replies) /\ WordIs(native, remote, flow, decided)
      /\ ReadySays(toHome) /\ native.active \in Sites /\ native.loading \in BOOLEAN /\ flow.latest \in BOOLEAN
  BY WindowsAreTyped
<1>1. /\ n = native /\ r = remote /\ fr = front /\ f = flow /\ ev = toHome /\ d = decided
      /\ replies[c] \notin {NoReply, Waiting} /\ h = Applied(homePage, replies[c])
      /\ rep = [replies EXCEPT ![c] = NoReply]
  BY <1>c DEF HearReply
<1>2. replies[c] \in Shots
  BY <1>1, <1>t
<1>3. PICK at \in Sites, loads \in BOOLEAN, stale \in BOOLEAN :
         /\ at = replies[c][1] /\ loads = replies[c][2] /\ stale = (replies[c] # ShellSnapshot(native))
  BY <1>2 DEF Shots
<1>4. h = [homePage EXCEPT !.active = at, !.loading = loads, !.stale = stale]
  BY <1>1, <1>3 DEF Applied
<1>5. /\ h \in HomePages /\ h.active = at /\ h.loading = loads /\ h.stale = stale /\ h.target = homePage.target
      /\ h.received = homePage.received /\ (h.misled <=> homePage.misled) /\ h.link = homePage.link
      /\ h.deferred = homePage.deferred /\ h.offered = homePage.offered
  BY <1>t, <1>4 DEF HomePages
<1>6. /\ rep \in [Questions -> Shots \cup {NoReply, Waiting}]
      /\ rep["cancel"] = replies["cancel"] \/ rep["cancel"] = NoReply
  BY <1>1, <1>t, WindowConstants
<1>7. LinkIs(n, f, h, ev, d.choices)
  BY <1>1, <1>5, <1>t DEF LinkIs
<1>8. TargetIs(n, f, h, ev)
  BY <1>1, <1>5, <1>t DEF TargetIs, OnItsWay
<1>9. KnownIs(n, f, h, ev, rep)
  <2>1. <<h.active, h.loading>> = replies[c]
    BY <1>2, <1>3, <1>5 DEF Shots
  <2>2. <<h.active, h.loading>> = ShellSnapshot(native) \/ h.stale
    BY <1>3, <1>5, <2>1
  <2>3. Arrived(f, h) = Arrived(flow, homePage)
    BY <1>1, <1>5 DEF Arrived, Latest
  <2> QED
    BY <1>1, <1>5, <1>6, <1>t, <2>2, <2>3, WindowConstants DEF KnownIs
<1>10. WindowsAre(n, r, fr, f, h, ev, rep, d)
  BY <1>1, <1>5, <1>6, <1>7, <1>8, <1>9, <1>t DEF WindowsAre
<1> QED
  BY <1>c, <1>10, WindowsStep

\* cancelLoading, for the page as it is by then.
LEMMA CancelsKeep ==
    ASSUME NEW page, NEW events, WindowsAre(native, remote, front, flow, page, events, replies, decided),
           Cancels(page), toHome' = events, UNCHANGED <<remote, front>>
    PROVE  WindowsInv'
<1>c. PICK n, r, fr, f, h, ev, rep, d :
          /\ n = native' /\ r = remote' /\ fr = front' /\ f = flow' /\ h = homePage' /\ ev = toHome'
          /\ rep = replies' /\ d = decided'
  OBVIOUS
<1>t. /\ native \in Natives /\ remote \in Windows /\ front \in {"home", "remote", "hidden"} /\ flow \in Flows
      /\ page \in HomePages /\ events \in Seq(HomeEvents)
      /\ replies \in [Questions -> Shots \cup {NoReply, Waiting}] /\ decided \in Deciding
      /\ NativeIs(native, remote) /\ FlowIs(flow)
      /\ LinkIs(native, flow, page, events, decided.choices)
      /\ TargetIs(native, flow, page, events)
      /\ KnownIs(native, flow, page, events, replies) /\ WordIs(native, remote, flow, decided)
  BY DEF WindowsAre
<1>1. /\ r = remote /\ fr = front /\ ev = events
      /\ h = [page EXCEPT !.target = NoPlace, !.received = NoPlace]
      /\ n = [native EXCEPT !.latest = FALSE]
      /\ f = [flow EXCEPT !.latest = FALSE]
      /\ rep = [replies EXCEPT !["cancel"] = Waiting]
      /\ d = [decided EXCEPT !.wants = NoPlace]
  BY <1>c DEF Cancels
<1>2. /\ h \in HomePages /\ h.target = NoPlace /\ h.received = NoPlace /\ h.active = page.active
      /\ h.loading = page.loading /\ (h.stale <=> page.stale) /\ (h.misled <=> page.misled) /\ h.link = page.link
      /\ h.deferred = page.deferred /\ h.offered = page.offered
  BY <1>1, <1>t, WindowConstants DEF HomePages
<1>3. /\ n \in Natives /\ ~n.latest /\ n.active = native.active /\ n.loading = native.loading
      /\ (n.ready <=> native.ready) /\ (n.timer <=> native.timer) /\ n.link = native.link /\ (n.runs <=> native.runs)
  BY <1>1, <1>t, WindowConstants DEF Natives
<1>4. /\ f \in Flows /\ f.kind = flow.kind /\ f.place = flow.place /\ f.at = flow.at /\ ~f.latest
      /\ f.link = flow.link /\ f.shown = flow.shown
  BY <1>1, <1>t, WindowConstants DEF Flows
<1>5. /\ rep \in [Questions -> Shots \cup {NoReply, Waiting}] /\ rep["cancel"] = Waiting
  BY <1>1, <1>t, WindowConstants
<1>6. d \in Deciding /\ d.choices = decided.choices /\ (d.expired <=> decided.expired)
  BY <1>1, <1>t, WindowConstants DEF Deciding
<1>7. FlowIs(f)
  <2>1. flow = NoFlow => f = NoFlow
    <3>1. \A x, y \in Flows :
             /\ x.kind = y.kind /\ x.place = y.place /\ x.reload = y.reload /\ x.at = y.at
             /\ x.confirmed = y.confirmed /\ x.latest = y.latest /\ x.link = y.link /\ x.shown = y.shown
             => x = y
      BY DEF Flows
    <3>2. NoFlow \in Flows /\ NoFlow.latest = FALSE
      BY WindowConstants DEF Flows
    <3>3. ASSUME flow = NoFlow PROVE f = NoFlow
      <4> DEFINE e == [NoFlow EXCEPT !.latest = FALSE]
      <4>1. /\ e \in Flows /\ e.kind = NoFlow.kind /\ e.place = NoFlow.place /\ e.reload = NoFlow.reload
            /\ e.at = NoFlow.at /\ e.confirmed = NoFlow.confirmed /\ e.latest = FALSE /\ e.link = NoFlow.link
            /\ e.shown = NoFlow.shown
        BY <3>2, WindowConstants DEF Flows
      <4>2. f = e
        BY <1>1, <3>3
      <4> HIDE DEF e
      <4> QED
        BY <3>1, <3>2, <4>1, <4>2
    <3> QED
      BY <3>3
  <2> QED
    BY <1>t, <1>4, <2>1, WindowConstants DEF FlowIs, Opening
<1>8. NativeIs(n, r)
  BY <1>1, <1>3, <1>t DEF NativeIs
<1>9. LinkIs(n, f, h, ev, d.choices)
  BY <1>1, <1>2, <1>3, <1>4, <1>6, <1>t DEF LinkIs
<1>10. TargetIs(n, f, h, ev)
  BY <1>2 DEF TargetIs
<1>11. KnownIs(n, f, h, ev, rep)
  BY <1>5, WindowConstants, <1>3, <1>4, <1>1, <1>2, <1>t DEF Underway, ShellSnapshot, Current, Opening, Arrived,
     KnownIs
<1>12. WordIs(n, r, f, d)
  BY <1>1, <1>3, <1>4, <1>6, <1>t DEF WordIs
<1>13. WindowsAre(n, r, fr, f, h, ev, rep, d)
  BY <1>1, <1>2, <1>3, <1>4, <1>5, <1>6, <1>7, <1>8, <1>9, <1>10, <1>11, <1>12, <1>t DEF WindowsAre
<1> QED
  BY <1>c, <1>13, WindowsStep

\* Only the page's own notes change.
LEMMA NotesKeep ==
    ASSUME NEW page, NEW events, WindowsAre(native, remote, front, flow, page, events, replies, decided),
           homePage' = page, toHome' = events, UNCHANGED <<native, remote, front, flow, replies, decided>>
    PROVE  WindowsInv'
BY WindowsStep

\* The quit request, noted, refused or begun.
LEMMA QuitsKeep ==
    ASSUME NEW page, NEW events, WindowsAre(native, remote, front, flow, page, events, replies, decided),
           Quits(page), toHome' = events, UNCHANGED <<remote, front>>
    PROVE  WindowsInv'
<1> DEFINE noted == [page EXCEPT !.quits = TRUE]
           begun == [page EXCEPT !.quits = FALSE]
<1>t. page \in HomePages /\ LinkIs(native, flow, page, events, decided.choices) /\ FlowIs(flow) /\ flow \in Flows
  BY DEF WindowsAre
<1>1. /\ noted \in HomePages /\ begun \in HomePages
      /\ noted.active = page.active /\ noted.loading = page.loading /\ noted.target = page.target
      /\ noted.received = page.received /\ noted.stale = page.stale /\ noted.misled = page.misled
      /\ noted.link = page.link /\ noted.deferred = page.deferred /\ noted.offered = page.offered
      /\ begun.active = page.active /\ begun.loading = page.loading /\ begun.target = page.target
      /\ begun.received = page.received /\ begun.stale = page.stale /\ begun.misled = page.misled
      /\ begun.link = page.link /\ begun.deferred = page.deferred /\ begun.offered = page.offered
  BY <1>t, WindowConstants DEF HomePages
<1>2. \/ homePage' = page /\ UNCHANGED <<native, flow, replies, decided>>
      \/ homePage' = noted /\ UNCHANGED <<native, flow, replies, decided>>
      \/ Cancels(noted)
      \/ flow.kind = "none" /\ Begins("quit", NoPlace, FALSE, begun, decided) /\ UNCHANGED replies
  BY <1>t, WindowConstants DEF FlowIs, Asked, Quits
<1> HIDE DEF noted, begun
<1>3. /\ LinkIs(native, flow, noted, events, decided.choices)
      /\ LinkIs(native, flow, begun, events, decided.choices)
  BY <1>t, <1>1 DEF LinkIs
<1>4. /\ WindowsAre(native, remote, front, flow, noted, events, replies, decided)
      /\ WindowsAre(native, remote, front, flow, begun, events, replies, decided)
  BY <1>1, <1>3, PageKeeps
<1>5. CASE homePage' = page /\ UNCHANGED <<native, flow, replies, decided>>
  BY <1>5, NotesKeep
<1>6. CASE homePage' = noted /\ UNCHANGED <<native, flow, replies, decided>>
  BY <1>4, <1>6, NotesKeep
<1>7. CASE Cancels(noted)
  BY <1>4, <1>7, CancelsKeep
<1>8. CASE flow.kind = "none" /\ Begins("quit", NoPlace, FALSE, begun, decided) /\ UNCHANGED replies
  BY <1>8, <1>t, <1>4, WindowConstants, BeginsKeeps DEF FlowIs, Opens
<1> QED
  BY <1>2, <1>5, <1>6, <1>7, <1>8

\* What a link carries.
LEMMA LinkHas == ASSUME NEW link \in Links, link # NoPlace PROVE link[1] \in Sites /\ link[1] # NoPlace
BY WindowConstants DEF Links, Sites

LEMMA LinkBegins ==
    ASSUME NEW page, WindowsAre(native, remote, front, NoFlow, page, toHome, replies, decided),
           page.link # NoPlace, page.offered = NoPlace, Begins("link", page.link[1], FALSE, page, decided),
           UNCHANGED <<remote, front, toHome, replies>>
    PROVE  WindowsInv'
BY LinkHas, BeginsKeeps DEF WindowsAre, HomePages

\* What waited is taken up.
LEMMA NextIsTaken == ASSUME WindowsInv, TakeNext PROVE WindowsInv'
<1>t. /\ homePage \in HomePages /\ LinkIs(native, flow, homePage, toHome, decided.choices)
  BY WindowsAreTyped
<1>w. WindowsAre(native, remote, front, flow, homePage, toHome, replies, decided)
  BY DEF WindowsInv
<1> DEFINE page == [homePage EXCEPT !.deferred = NoPlace]
<1>1. /\ flow = NoFlow /\ UNCHANGED <<remote, front, toHome>>
      /\ \/ Quits(homePage)
         \/ /\ homePage.deferred # NoPlace /\ UNCHANGED replies
            /\ \/ page.link = homePage.deferred /\ Begins("link", page.link[1], FALSE, page, decided)
               \/ homePage' = page /\ UNCHANGED <<native, flow, decided>>
  BY DEF TakeNext
<1>2. /\ page \in HomePages /\ page.active = homePage.active /\ page.loading = homePage.loading
      /\ page.target = homePage.target /\ page.received = homePage.received /\ page.stale = homePage.stale
      /\ page.misled = homePage.misled /\ page.link = homePage.link /\ page.deferred = NoPlace
      /\ page.offered = homePage.offered
  BY <1>t, WindowConstants DEF HomePages
<1> HIDE DEF page
<1>3. LinkIs(native, flow, page, toHome, decided.choices)
  BY <1>t, <1>2 DEF LinkIs, Aged
<1>4. WindowsAre(native, remote, front, flow, page, toHome, replies, decided)
  BY <1>w, <1>2, <1>3, PageKeeps
<1>5. CASE Quits(homePage)
  BY <1>1, <1>5, <1>w, QuitsKeep
<1>6. CASE homePage' = page /\ UNCHANGED <<native, flow, decided, replies>>
  BY <1>1, <1>4, <1>6, NotesKeep
<1>7. CASE /\ homePage.deferred # NoPlace /\ page.link = homePage.deferred /\ UNCHANGED replies
           /\ Begins("link", page.link[1], FALSE, page, decided)
  BY <1>2, <1>7, <1>t, <1>1, <1>4, LinkBegins DEF LinkIs
<1> QED
  BY <1>1, <1>5, <1>6, <1>7

\* The member answers for an unknown Installation.
LEMMA LinkIsAnswered == ASSUME WindowsInv, AnswerLink PROVE WindowsInv'
<1>t. homePage \in HomePages /\ LinkIs(native, flow, homePage, toHome, decided.choices)
  BY WindowsAreTyped
<1>w. WindowsAre(native, remote, front, flow, homePage, toHome, replies, decided)
  BY DEF WindowsInv
<1> DEFINE page == [homePage EXCEPT !.offered = NoPlace]
           kept == [page EXCEPT !.deferred = page.link]
           dropped == [homePage EXCEPT !.offered = NoPlace, !.link = NoPlace]
<1>1. /\ homePage.offered # NoPlace /\ UNCHANGED <<remote, front, toHome, replies>>
      /\ \/ LinkAccepted(page)
         \/ homePage' = [page EXCEPT !.link = NoPlace] /\ UNCHANGED <<native, flow, decided>>
  BY DEF AnswerLink
<1>2. /\ page \in HomePages /\ page.active = homePage.active /\ page.loading = homePage.loading
      /\ page.target = homePage.target /\ page.received = homePage.received /\ page.stale = homePage.stale
      /\ page.misled = homePage.misled /\ page.link = homePage.link /\ page.deferred = homePage.deferred
      /\ page.offered = NoPlace
  BY <1>t, WindowConstants DEF HomePages
<1> HIDE DEF page
<1>3. native.link = NoPlace /\ homePage.link = homePage.offered
  BY <1>1, <1>t DEF LinkIs
<1>4. LinkIs(native, flow, page, toHome, decided.choices)
  BY <1>t, <1>2, <1>3 DEF LinkIs
<1>5. WindowsAre(native, remote, front, flow, page, toHome, replies, decided)
  BY <1>w, <1>2, <1>4, PageKeeps
<1>6. ASSUME NEW other \in HomePages, other.active = page.active, other.loading = page.loading,
             other.target = page.target, other.received = page.received, other.stale = page.stale,
             other.misled = page.misled, other.offered = NoPlace, other.link \in {page.link, NoPlace},
             other.deferred \in {page.deferred, page.link},
             homePage' = other, UNCHANGED <<native, flow, decided>>
      PROVE  WindowsInv'
  BY <1>3, <1>4, <1>6, <1>5, PageKeeps, <1>1, NotesKeep DEF Aged, LinkIs
<1>7. CASE homePage' = [page EXCEPT !.link = NoPlace] /\ UNCHANGED <<native, flow, decided>>
  BY <1>2, WindowConstants, <1>6, <1>7 DEF HomePages
<1>8. CASE flow = NoFlow /\ Begins("link", page.link[1], FALSE, page, decided)
  BY <1>5, <1>8, <1>1, <1>2, <1>3, LinkBegins
<1>9. CASE homePage' = [page EXCEPT !.deferred = page.link] /\ UNCHANGED <<native, flow, decided>>
  BY <1>2, <1>6, <1>9 DEF HomePages
<1> QED
  BY <1>1, <1>7, <1>8, <1>9 DEF LinkAccepted

\* An event is heard, and the rest are still to come.
LEMMA EventIsHeard == ASSUME WindowsInv, HearEvent PROVE WindowsInv'
<1>c. PICK n, r, fr, f, h, ev, rep, d :
          /\ n = native' /\ r = remote' /\ fr = front' /\ f = flow' /\ h = homePage' /\ ev = toHome'
          /\ rep = replies' /\ d = decided'
  OBVIOUS
<1>t. /\ native \in Natives /\ remote \in Windows /\ front \in {"home", "remote", "hidden"} /\ flow \in Flows
      /\ homePage \in HomePages /\ toHome \in Seq(HomeEvents)
      /\ replies \in [Questions -> Shots \cup {NoReply, Waiting}] /\ decided \in Deciding
      /\ NativeIs(native, remote) /\ FlowIs(flow)
      /\ LinkIs(native, flow, homePage, toHome, decided.choices)
      /\ TargetIs(native, flow, homePage, toHome)
      /\ KnownIs(native, flow, homePage, toHome, replies) /\ WordIs(native, remote, flow, decided)
      /\ ReadySays(toHome) /\ native.active \in Sites /\ native.loading \in BOOLEAN /\ flow.latest \in BOOLEAN
  BY WindowsAreTyped
<1>1. PICK event, rest : event = Head(toHome) /\ rest = Tail(toHome)
  OBVIOUS
<1>2. /\ toHome # <<>> /\ native.runs /\ r = remote /\ fr = front /\ ev = rest /\ UNCHANGED <<remote, front>>
      /\ toHome' = rest
  BY <1>c, <1>1 DEF HearEvent
<1>3. /\ rest \in Seq(HomeEvents) /\ ReadySays(rest) /\ event \in HomeEvents /\ SaysReady(event)
      /\ \A kinds : Coming(toHome, kinds) => event.kind \in kinds \/ Coming(rest, kinds)
  BY <1>1, <1>2, <1>t, EventsShrink
<1>4. event.kind \in EventKinds /\ event.place \in Sites
  BY <1>3 DEF HomeEvents
<1>5. CASE event.kind = "ready"
  <2> DEFINE applied == Applied(homePage, event.snapshot)
  <2>1. /\ n = native /\ f = flow /\ rep = replies /\ d = decided
        /\ h = [applied EXCEPT !.received = event.place, !.target = NoPlace,
                               !.misled = flow.at \in {"sent", "health"} \/ event.snapshot # ShellSnapshot(native)]
    BY <1>c, <1>1, <1>5 DEF HearEvent
  <2>2. PICK stale \in BOOLEAN, misled \in BOOLEAN :
           /\ stale = (event.snapshot # ShellSnapshot(native))
           /\ misled = (flow.at \in {"sent", "health"} \/ event.snapshot # ShellSnapshot(native))
    OBVIOUS
  <2>3. event.snapshot = <<event.place, FALSE>>
    BY <1>3, <1>5 DEF SaysReady
  <2>4. event.snapshot[1] = event.place /\ event.snapshot[2] = FALSE
    BY <2>3
  <2>5. applied = [homePage EXCEPT !.active = event.place, !.loading = FALSE, !.stale = stale]
    BY <2>2, <2>4 DEF Applied
  <2>6. /\ applied \in HomePages /\ applied.active = event.place /\ applied.loading = FALSE /\ applied.stale = stale
        /\ applied.link = homePage.link /\ applied.deferred = homePage.deferred /\ applied.offered = homePage.offered
    BY <1>4, <1>t, <2>5, WindowConstants DEF HomePages
  <2> HIDE DEF applied
  <2>7. h = [applied EXCEPT !.received = event.place, !.target = NoPlace, !.misled = misled]
    BY <2>1, <2>2
  <2>8. /\ h \in HomePages /\ h.active = event.place /\ h.loading = FALSE /\ h.stale = stale
        /\ h.received = event.place /\ h.target = NoPlace /\ h.misled = misled
        /\ h.link = homePage.link /\ h.deferred = homePage.deferred /\ h.offered = homePage.offered
    BY <1>4, <2>6, <2>7, WindowConstants DEF HomePages
  <2>9. LinkIs(n, f, h, ev, d.choices)
    BY <1>2, <1>3, <1>5, <1>t, <2>1, <2>8 DEF LinkIs
  <2>10. TargetIs(n, f, h, ev)
    BY <2>8 DEF TargetIs
  <2>11. <<h.active, h.loading>> = event.snapshot
    BY <2>3, <2>8
  <2>12. ASSUME f.at = "done", Current(f), ~misled PROVE Arrived(f, h) = ShellSnapshot(n)
    <3>1. event.snapshot = ShellSnapshot(native) /\ f.shown[1] = native.active
      BY <1>2, <1>t, <2>1, <2>2, <2>12 DEF KnownIs
    <3>2. ShellSnapshot(native)[1] = native.active
      BY <1>t, SnapshotIs
    <3>3. f.shown[1] = event.place
      BY <2>4, <3>1, <3>2
    <3>4. CASE Opening(f)
      BY <2>8, <3>3, <3>4, <2>1, <2>3, <3>1 DEF Arrived, Latest
    <3>5. CASE ~Opening(f)
      <4>1. f.shown = <<NoPlace, FALSE>> /\ Arrived(f, h) = f.shown
        BY <1>t, <2>1, <2>12, <3>5 DEF FlowIs, Arrived
      <4>2. event.place = NoPlace
        BY <3>3, <4>1
      <4> QED
        BY <2>1, <2>3, <3>1, <4>1, <4>2
    <3> QED
      BY <3>4, <3>5
  <2>13. KnownIs(n, f, h, ev, rep)
    <3>1. <<h.active, h.loading>> = ShellSnapshot(n) \/ h.stale
      BY <2>1, <2>2, <2>8, <2>11
    <3>2. n.runs /\ f.at = "done" /\ Current(f) => n.active = f.shown[1]
      BY <1>t, <2>1 DEF KnownIs
    <3>3. f.at \in {"sent", "health"} => h.misled
      BY <2>1, <2>2, <2>8
    <3>4. Opening(f) /\ f.latest /\ f.at \in {"health"} \cup Answering => rep["cancel"] # Waiting
      BY <1>t, <2>1 DEF KnownIs
    <3> QED
      BY <1>2, <1>3, <2>8, <2>12, <3>1, <3>2, <3>3, <3>4 DEF KnownIs
  <2>14. WindowsAre(n, r, fr, f, h, ev, rep, d)
    BY <1>2, <1>3, <1>t, <2>1, <2>8, <2>9, <2>10, <2>13 DEF WindowsAre
  <2> QED
    BY <1>c, <2>14, WindowsStep
<1>6. CASE event.kind \in {"show-home", "load-failed"}
  <2>1. /\ n = native /\ f = flow /\ d = decided
        /\ \/ event.kind = "show-home" /\ rep = replies /\ h = [homePage EXCEPT !.target = NoPlace]
           \/ /\ rep = [replies EXCEPT !["read"] = Waiting]
              /\ h = [homePage EXCEPT !.target = NoPlace, !.failed = event.place]
    BY <1>c, <1>1, <1>6 DEF HearEvent
  <2>0. NoPlace \in Sites /\ "read" \in Questions /\ "cancel" \in Questions /\ event.place \in Sites
    BY <1>4, WindowConstants DEF Questions, HomeEvents
  <2>2. /\ h \in HomePages /\ h.active = homePage.active /\ h.loading = homePage.loading
        /\ (h.stale <=> homePage.stale) /\ h.received = homePage.received /\ h.target = NoPlace
        /\ (h.misled <=> homePage.misled)
        /\ h.link = homePage.link /\ h.deferred = homePage.deferred /\ h.offered = homePage.offered
    <3>1. CASE h = [homePage EXCEPT !.target = NoPlace]
      BY <1>t, <2>0, <3>1 DEF HomePages
    <3>2. CASE h = [homePage EXCEPT !.target = NoPlace, !.failed = event.place]
      BY <1>t, <2>0, <3>2 DEF HomePages
    <3> QED
      BY <2>1, <3>1, <3>2
  <2>3. /\ rep \in [Questions -> Shots \cup {NoReply, Waiting}] /\ rep["cancel"] = replies["cancel"]
        /\ (rep = replies /\ event.kind = "show-home") \/ rep["read"] = Waiting
    BY <1>t, <2>0, <2>1
  <2>4. LinkIs(n, f, h, ev, d.choices)
    BY <1>2, <1>3, <1>6, <1>t, <2>1, <2>2 DEF LinkIs
  <2>5. TargetIs(n, f, h, ev)
    BY <2>2 DEF TargetIs
  <2>6. KnownIs(n, f, h, ev, rep)
    <3>1. Underway(toHome, replies) => Underway(ev, rep)
      BY <1>2, <1>3, <2>3, WindowConstants DEF Underway, Telling
    <3>2. Coming(toHome, {"ready"}) => Coming(ev, {"ready"})
      BY <1>2, <1>3, <1>6
    <3>3. Arrived(f, h) = Arrived(flow, homePage)
      BY <2>1, <2>2 DEF Arrived, Latest
    <3> QED
      BY <1>2, <1>3, <1>t, <2>1, <2>2, <2>3, <3>1, <3>2, <3>3 DEF KnownIs
  <2>7. WindowsAre(n, r, fr, f, h, ev, rep, d)
    BY <1>2, <1>3, <1>t, <2>1, <2>2, <2>3, <2>4, <2>5, <2>6 DEF WindowsAre
  <2> QED
    BY <1>c, <2>7, WindowsStep
<1>7. \/ event.kind = "quit"
      \/ event.kind = "link"
      => /\ TargetIs(native, flow, homePage, rest) /\ KnownIs(native, flow, homePage, rest, replies)
         /\ event.kind = "quit" \/ native.link = NoPlace => LinkIs(native, flow, homePage, rest, decided.choices)
  BY <1>3, <1>t DEF Clearing, TargetIs, Telling, KnownIs, Underway, LinkIs
<1>8. CASE event.kind = "quit"
  BY <1>1, <1>8, <1>3, <1>7, <1>t, <1>2, QuitsKeep DEF HearEvent, WindowsAre
<1>9. CASE event.kind = "link"
  <2>1. HearLink /\ UNCHANGED replies
    BY <1>1, <1>9 DEF HearEvent
  <2>2. CASE native.link = NoPlace
    <3>1. WindowsAre(native, remote, front, flow, homePage, rest, replies, decided)
      BY <1>3, <1>7, <1>9, <1>t, <2>2 DEF WindowsAre
    <3>2. UNCHANGED <<native, flow, homePage, decided>>
      BY <2>1, <2>2 DEF HearLink
    <3> QED
      BY <1>2, <2>1, <3>1, <3>2, NotesKeep
  <2>3. CASE native.link # NoPlace
    <3> DEFINE page == [homePage EXCEPT !.link = native.link]
    <3>1. /\ f = flow /\ d = decided /\ rep = replies /\ n = [native EXCEPT !.link = NoPlace]
          /\ h = [page EXCEPT !.offered = native.link] \/ h = [page EXCEPT !.deferred = native.link]
      BY <1>c, <2>1, <2>3 DEF HearLink
    <3>2. /\ page \in HomePages /\ page.link = native.link /\ page.active = homePage.active
          /\ page.loading = homePage.loading /\ page.stale = homePage.stale /\ page.misled = homePage.misled
          /\ page.target = homePage.target /\ page.received = homePage.received
          /\ page.deferred = homePage.deferred /\ page.offered = homePage.offered /\ native.link \in Links
      BY <1>t DEF HomePages, Natives
    <3> HIDE DEF page
    <3>3. /\ h \in HomePages /\ h.link = native.link /\ h.active = homePage.active
          /\ h.loading = homePage.loading /\ h.stale = homePage.stale /\ h.misled = homePage.misled
          /\ h.target = homePage.target /\ h.received = homePage.received
          /\ \/ h.deferred = homePage.deferred /\ h.offered = native.link
             \/ h.deferred = native.link /\ h.offered = homePage.offered
      BY <3>1, <3>2 DEF HomePages
    <3>4. /\ n \in Natives /\ n.link = NoPlace /\ n.active = native.active /\ n.loading = native.loading
          /\ (n.ready <=> native.ready) /\ (n.timer <=> native.timer) /\ (n.runs <=> native.runs)
          /\ (n.latest <=> native.latest) /\ (n.homeRequested <=> native.homeRequested)
      BY <1>t, <3>1, WindowConstants DEF Natives
    <3>5. ShellSnapshot(n) = ShellSnapshot(native) /\ NativeIs(n, r)
      BY <1>2, <1>t, <3>4 DEF ShellSnapshot, NativeIs
    <3>6. LinkIs(n, f, h, ev, d.choices)
      BY <1>t, <2>3, <3>1, <3>3, <3>4 DEF Aged, LinkIs
    <3>7. TargetIs(n, f, h, ev)
      BY <1>2, <1>7, <1>9, <3>1, <3>3, <3>4 DEF TargetIs, OnItsWay
    <3>8. KnownIs(n, f, h, ev, rep)
      BY <3>1, <3>3, <1>2, <1>7, <1>9, <3>4, <3>5 DEF Arrived, Latest, KnownIs
    <3>9. WordIs(n, r, f, d)
      BY <1>2, <1>t, <3>1, <3>4 DEF WordIs
    <3>10. WindowsAre(n, r, fr, f, h, ev, rep, d)
      BY <1>2, <1>3, <1>t, <3>1, <3>3, <3>4, <3>5, <3>6, <3>7, <3>8, <3>9 DEF WindowsAre
    <3> QED
      BY <1>c, <3>10, WindowsStep
  <2> QED
    BY <2>2, <2>3
<1> QED
  BY <1>4, <1>5, <1>6, <1>8, <1>9 DEF EventKinds

LEMMA WindowsStart == WindowsInit => WindowsInv
<1> SUFFICES ASSUME WindowsInit PROVE WindowsInv
  OBVIOUS
<1>1. PICK place \in Sites :
        /\ native = [active |-> place, loading |-> FALSE, latest |-> FALSE, ready |-> TRUE,
                     timer |-> FALSE, homeRequested |-> FALSE, link |-> NoPlace, runs |-> TRUE]
        /\ remote = [place |-> place, call |-> FALSE]
        /\ front = (IF place = NoPlace THEN "home" ELSE "remote")
        /\ flow = NoFlow
        /\ homePage = [active |-> place, loading |-> FALSE, target |-> NoPlace, received |-> place,
                       failed |-> NoPlace, link |-> NoPlace, deferred |-> NoPlace,
                       offered |-> NoPlace, quits |-> FALSE, stale |-> FALSE, misled |-> FALSE]
        /\ toHome = <<>>
        /\ replies = [c \in {"cancel", "read"} |-> NoReply]
        /\ decided = [wants |-> NoPlace, choices |-> 0, calls |-> 0, expired |-> FALSE]
  BY DEF WindowsInit, Sites
<1>2. /\ native \in Natives /\ native.active = place /\ native.loading = FALSE /\ native.ready /\ native.link = NoPlace
      /\ native.runs
  BY <1>1, WindowConstants DEF Natives
<1>3. remote \in Windows /\ remote.place = place /\ ~remote.call
  BY <1>1, WindowConstants DEF Windows
<1>4. /\ homePage \in HomePages /\ homePage.active = place /\ homePage.loading = FALSE /\ homePage.target = NoPlace
      /\ homePage.link = NoPlace /\ homePage.deferred = NoPlace /\ homePage.offered = NoPlace
  BY <1>1, WindowConstants DEF HomePages
<1>5. toHome \in Seq(HomeEvents) /\ ReadySays(toHome)
  BY <1>1 DEF ReadySays
<1>6. replies \in [Questions -> Shots \cup {NoReply, Waiting}] /\ replies["cancel"] = NoReply
  BY <1>1 DEF Questions
<1>7. decided \in Deciding /\ decided.choices = 0
  BY <1>1, WindowConstants DEF Deciding
<1>8. flow \in Flows /\ FlowIs(flow) /\ ~Opening(flow) /\ flow.at = "none" /\ flow.kind = "none" /\ flow.link = NoPlace
  BY <1>1, WindowConstants DEF FlowIs
<1>9. NativeIs(native, remote)
  BY <1>2, <1>3 DEF NativeIs
<1>10. LinkIs(native, flow, homePage, toHome, decided.choices)
  BY <1>2, <1>4, <1>8 DEF LinkIs, Aged
<1>11. TargetIs(native, flow, homePage, toHome)
  BY <1>4 DEF TargetIs
<1>12. KnownIs(native, flow, homePage, toHome, replies)
  BY <1>2, <1>4, <1>5, <1>8 DEF KnownIs, ShellSnapshot
<1>13. WordIs(native, remote, flow, decided)
  BY <1>2, <1>8 DEF WordIs
<1>14. front \in {"home", "remote", "hidden"}
  BY <1>1
<1> QED
  BY <1>2, <1>3, <1>4, <1>5, <1>6, <1>7, <1>8, <1>9, <1>10, <1>11, <1>12, <1>13, <1>14 DEF WindowsInv, WindowsAre

LEMMA WindowsStutter == ASSUME WindowsInv, UNCHANGED windowVars PROVE WindowsInv'
BY NotesKeep DEF WindowsInv, windowVars

\* cancelLoading, pressed.
LEMMA LoadingIsCancelled == ASSUME WindowsInv, PressCancelLoading PROVE WindowsInv'
BY CancelsKeep DEF WindowsInv, PressCancelLoading

LEMMA WindowsInduct == WindowsInv /\ [DesktopWindowsNext]_windowVars => WindowsInv'
<1> SUFFICES ASSUME WindowsInv, [DesktopWindowsNext]_windowVars PROVE WindowsInv'
  OBVIOUS
<1>1. CASE UNCHANGED windowVars
  BY <1>1, WindowsStutter
<1>2. CASE ConnectStarts \/ ConnectEnds \/ LeaveServed \/ CancelServed \/ ReadServed \/ LoadingEnds
  BY <1>2, AttemptStarts, AttemptEnds, LeavingIsServed, CancelIsServed, ReadIsServed, LoadingIsOver
<1>3. CASE \/ PageReady \/ CallTurns \/ TrayHome \/ ShowCurrent \/ CloseRequested
           \/ \E place \in Places : OfferDesktopLink(place)
  BY <1>3, PageIsReady, CallsTurn, TrayTurns, LinkIsOffered
<1>4. CASE PressConnect \/ PressReload \/ PressDisconnect \/ PressRetry \/ PressCancelLoading
  BY <1>4, MemberPresses, LoadingIsCancelled
<1>5. CASE ReportHeard \/ AnswerQuestion \/ FlowAnswered \/ TakeNext \/ AnswerLink \/ HearEvent
  BY <1>5, ReportIsHeard, QuestionIsAnswered, FlowIsAnswered, NextIsTaken, LinkIsAnswered, EventIsHeard
<1>6. CASE \E c \in {"cancel", "read"} : HearReply(c)
  BY <1>6, ReplyIsHeard DEF Questions
<1> QED
  BY <1>1, <1>2, <1>3, <1>4, <1>5, <1>6 DEF DesktopWindowsNext, WindowNext, HomePageNext

\* At rest nothing is under way, so that what Home shows is what there is.
LEMMA HomeIsSettled == WindowsInv => HomeSettles
<1> SUFFICES ASSUME WindowsInv PROVE HomeSettles
  OBVIOUS
<1>t. /\ NativeIs(native, remote) /\ LinkIs(native, flow, homePage, toHome, decided.choices)
      /\ TargetIs(native, flow, homePage, toHome) /\ KnownIs(native, flow, homePage, toHome, replies)
  BY WindowsAreTyped
<1>1. ASSUME HomeAtRest
      PROVE  /\ homePage.target # NoPlace => native.loading /\ native.active # NoPlace
             /\ homePage.stale \/ <<homePage.active, homePage.loading>> = ShellSnapshot(native)
             /\ native.link = NoPlace
  BY <1>1, WindowConstants, <1>t DEF HomeAtRest, Questions, Coming, TargetIs, KnownIs, Underway, LinkIs
<1> QED
  BY <1>t, <1>1 DEF HomeSettles, NativeIs

\* Whatever is pressed, opened, cancelled and heard in whatever order: Home is on its
\* loading screen only while a window loads with its timer running, and knows what is
\* open, but for an older answer (installation.rs, main.ts).
THEOREM HomeAlwaysSettles == DesktopWindowsSpec => []HomeSettles
BY WindowsStart, WindowsInduct, HomeIsSettled, PTL DEF DesktopWindowsSpec

\* Sending a command, Home leaves the page and the app as they are.
LEMMA CommandsLeave ==
    ASSUME native \in Natives, NEW f, NEW page, NEW done, SendsCommand(f, page, done)
    PROVE  (native'.ready <=> native.ready) /\ (native'.runs <=> native.runs)
BY DEF SendsCommand, Natives

LEMMA HomeLeaves ==
    ASSUME WindowsInv, HomePageNext
    PROVE  (native'.ready <=> native.ready) /\ (native'.runs <=> native.runs)
<1>t. native \in Natives
  BY WindowsAreTyped
<1>1. \A kind, place, reload, page, done : Begins(kind, place, reload, page, done) =>
          (native'.ready <=> native.ready) /\ (native'.runs <=> native.runs)
  BY <1>t, CommandsLeave DEF Begins
<1>2. \A page : Cancels(page) => (native'.ready <=> native.ready) /\ (native'.runs <=> native.runs)
  BY <1>t DEF Cancels, Natives
<1>3. \A page : Quits(page) => (native'.ready <=> native.ready) /\ (native'.runs <=> native.runs)
  BY WindowsAreTyped, WindowConstants, <1>2, <1>1 DEF FlowIs, Asked, Quits
<1>4. CASE PressConnect \/ PressReload \/ PressDisconnect \/ PressRetry
  BY <1>1, <1>4 DEF PressConnect, PressReload, PressDisconnect, PressRetry, Chooses
<1>5. CASE PressCancelLoading
  BY <1>2, <1>5 DEF PressCancelLoading
<1>6. CASE ReportHeard
  BY <1>t, <1>6, CommandsLeave DEF ReportHeard
<1>7. CASE AnswerQuestion
  BY <1>t, <1>7, CommandsLeave DEF AnswerQuestion, Finished
<1>8. CASE FlowAnswered
  BY <1>8 DEF FlowAnswered, Finished
<1>9. CASE TakeNext
  BY <1>1, <1>3, <1>9 DEF TakeNext
<1>10. CASE AnswerLink
  BY <1>1, <1>10 DEF AnswerLink, LinkAccepted
<1>11. CASE HearEvent
  <2>1. HearLink => (native'.ready <=> native.ready) /\ (native'.runs <=> native.runs)
    BY <1>t DEF HearLink, Natives
  <2>2. native' = native \/ HearLink \/ Quits(homePage)
    BY <1>11, WindowsAreTyped, EventsShrink DEF HearEvent, HomeEvents, EventKinds
  <2> QED
    BY <1>3, <2>1, <2>2
<1>12. CASE \E c \in {"cancel", "read"} : HearReply(c)
  BY <1>12 DEF HearReply
<1> QED
  BY <1>4, <1>5, <1>6, <1>7, <1>8, <1>9, <1>10, <1>11, <1>12 DEF HomePageNext

\* Where a window is left, and where one is taken in.
ChoiceHolds ==
    /\ remote.call /\ (~native'.ready \/ ~native'.runs) => flow.confirmed
    /\ ~native.ready /\ native'.ready /\ front' = "remote" /\ front # "remote" =>
          decided.wants = remote.place \/ decided.expired

LEMMA ChoicesStep == WindowsInv /\ [DesktopWindowsNext]_windowVars => ChoiceHolds
<1> SUFFICES ASSUME WindowsInv, [DesktopWindowsNext]_windowVars PROVE ChoiceHolds
  OBVIOUS
<1>t. /\ native \in Natives /\ NativeIs(native, remote) /\ WordIs(native, remote, flow, decided)
  BY WindowsAreTyped
<1>0. remote.call => native.ready /\ native.runs /\ native.active # NoPlace
  BY <1>t DEF NativeIs
<1> DEFINE Stays == (native'.ready <=> native.ready) /\ (native'.runs <=> native.runs)
<1>1. CASE Stays
  BY <1>0, <1>1 DEF ChoiceHolds
<1>2. CASE ConnectStarts
  BY <1>2, <1>1, <1>t DEF ConnectStarts, Natives
<1>3. CASE ConnectEnds
  <2>1. native' = native \/ ((flow.confirmed \/ ~remote.call) /\ ~native'.ready)
    <3>1. Left(native) \in Natives /\ ~Left(native).ready
      BY <1>t, LeftIs
    <3>2. PICK left : left = Left(native)
      OBVIOUS
    <3>3. PICK opened : opened = [left EXCEPT !.active = flow.place, !.loading = TRUE, !.timer = TRUE, !.latest = TRUE]
      OBVIOUS
    <3>l. PICK lost : lost = [left EXCEPT !.loading = native.loading, !.latest = FALSE]
      OBVIOUS
    <3>4. ~opened.ready /\ ~lost.ready
      BY <3>1, <3>2, <3>3, <3>l DEF Natives
    <3>5. \/ native' = native
          \/ (native.active = NoPlace \/ flow.confirmed \/ ReportsIdle) /\ native' \in {opened, lost}
      BY <1>3, <3>2, <3>3, <3>l DEF ConnectEnds
    <3> QED
      BY <1>0, <3>4, <3>5 DEF ReportsIdle
  <2> QED
    BY <1>1, <2>1 DEF ChoiceHolds
<1>4. CASE LeaveServed
  <2>1. native' = native \/ ((flow.confirmed \/ ~remote.call) /\ ~native'.ready)
    <3>1. Left(native) \in Natives /\ ~Left(native).ready
      BY <1>t, LeftIs
    <3>2. PICK left : left = Left(native)
      OBVIOUS
    <3>3. PICK runs \in BOOLEAN : runs = (flow.kind = "disconnect")
      OBVIOUS
    <3>4. PICK closed : closed = [left EXCEPT !.runs = runs]
      OBVIOUS
    <3>5. ~closed.ready
      BY <3>1, <3>2, <3>3, <3>4 DEF Natives
    <3>6. \/ native' = native
          \/ (native.active = NoPlace \/ flow.confirmed \/ ReportsIdle) /\ native' = closed
      BY <1>4, <3>2, <3>3, <3>4 DEF LeaveServed
    <3> QED
      BY <1>0, <3>5, <3>6 DEF ReportsIdle
  <2> QED
    BY <1>1, <2>1 DEF ChoiceHolds
<1>5. CASE CancelServed
  BY <1>5, <1>t, LeftIs, ShownIs, <1>0, <1>1 DEF CancelServed, NativeIs, ChoiceHolds
<1>6. CASE ReadServed \/ CallTurns
  BY <1>1, <1>6 DEF ReadServed, CallTurns
<1>7. CASE LoadingEnds
  BY <1>7, <1>1, <1>t, WindowConstants DEF LoadingEnds, Natives, Shown
<1>8. CASE PageReady
  BY <1>8, <1>0, <1>t DEF PageReady, ReadyAccepted, NativeIs, WordIs, ChoiceHolds
<1>9. CASE TrayHome \/ ShowCurrent \/ CloseRequested
  BY <1>9, <1>1, <1>t, ShownIs DEF TrayHome, ShowCurrent, CloseRequested
<1>10. CASE \E place \in Places : OfferDesktopLink(place)
  BY <1>10, <1>t, ShownIs, <1>1 DEF OfferDesktopLink, Natives
<1>11. CASE HomePageNext
  BY <1>1, <1>11, HomeLeaves
<1>12. CASE UNCHANGED windowVars
  BY <1>1, <1>12 DEF windowVars
<1> QED
  BY <1>2, <1>3, <1>4, <1>5, <1>6, <1>7, <1>8, <1>9, <1>10, <1>11, <1>12 DEF DesktopWindowsNext, WindowNext

\* A call is not ended by leaving an Installation without a yes to that transition,
\* and a page that becomes ready comes to the front only as the member's last word,
\* but for one that took longer than its twenty seconds.
THEOREM ChoicesAlwaysHold == DesktopWindowsSpec => ChoicesHold
<1>1. ChoiceHolds =>
        [ /\ remote.call /\ (~native'.ready \/ ~native'.runs) => flow.confirmed
          /\ ~native.ready /\ native'.ready /\ front' = "remote" /\ front # "remote" =>
                decided.wants = remote.place \/ decided.expired ]_windowVars
  BY DEF ChoiceHolds
<1> QED
  BY <1>1, WindowsStart, WindowsInduct, ChoicesStep, PTL DEF DesktopWindowsSpec, ChoicesHold

=============================================================================
