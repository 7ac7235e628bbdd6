------------------------- MODULE InstallationProofs -------------------------
(* Theorems about parts of an installation that share no state with each other. *)
EXTENDS Presence, MusicRelay, TrackAudio, BotPresence, FiniteSetTheorems, SequenceTheorems, TLAPS

------------------------
(* Presence: the timer that is set is that of the Status as it is. *)
PresenceTypes ==
    /\ sockets \subseteq Sockets
    /\ choice \in StatusChoices /\ stored \in StatusChoices
    /\ picked \in [Sockets -> StatusChoices \cup {NoChoice}]
    /\ untold \in BOOLEAN

PresenceInv ==
    /\ PresenceTypes
    /\ sockets # {} => armed = ChoiceTimer(choice)
    /\ OthersSeeTheStatus /\ NobodyGoneIsShown
    /\ DevicesAgree

LEMMA ChoicesCurrent ==
    ASSUME NEW c \in StatusChoices
    PROVE  /\ CurrentChoice(c) \in StatusChoices /\ Online \in StatusChoices
           /\ Past(c) \in StatusChoices /\ Past(c).until # "ahead" /\ ChoiceTimer(Online) = NoChoice
           /\ c.until # "past" => CurrentChoice(c) = c
           /\ CurrentChoice(c).until # "past"
           /\ Past(c).until # "past" => Past(c) = c /\ c.until = "none"
           /\ Past(ChoiceTimer(c)) = ChoiceTimer(Past(c))
  BY DEF StatusChoices, Statuses, CurrentChoice, Online, Past, ChoiceTimer, NoChoice

(* What is told by publishPresenceChange, or was to be told already. *)
LEMMA PublishTells ==
    ASSUME OthersSeeTheStatus, NobodyGoneIsShown, untold \in BOOLEAN, NEW after, Publish(Seen, after)
    PROVE  untold' \in BOOLEAN /\ (untold' \/ shown' = after) /\ (after = "offline" => shown' = "offline")
  BY DEF OthersSeeTheStatus, NobodyGoneIsShown, Publish

(* Who is seen as gone is not connected or hides, whatever was measured. *)
LEMMA SeenAsGone ==
    ASSUME NEW on, NEW idle, NEW c \in StatusChoices
    PROVE  View(on, idle, c) = "offline" <=> on = {} \/ CurrentChoice(c).status = "invisible"
  BY DEF View, StatusChoices, Statuses, CurrentChoice, Online

LEMMA PresenceStarts == PresenceInit => PresenceInv
<1> SUFFICES ASSUME PresenceInit PROVE PresenceInv
  OBVIOUS
<1>1. PresenceTypes
  BY DEF PresenceInit, PresenceTypes, StatusChoices, Statuses, Online
<1>2. Seen = "offline"
  BY DEF PresenceInit, Seen, View
<1>3. QED
  BY <1>1, <1>2 DEF PresenceInit, PresenceInv, OthersSeeTheStatus, NobodyGoneIsShown, DevicesAgree

LEMMA ConnectStep == ASSUME PresenceInv, NEW s \in Sockets, PresenceConnect(s) PROVE PresenceInv'
<1> DEFINE entry == IF sockets = {} THEN CurrentChoice(stored) ELSE choice
           after == View(sockets \cup {s}, idleSockets, entry)
<1>1. PresenceTypes /\ OthersSeeTheStatus /\ NobodyGoneIsShown /\ DevicesAgree
  BY DEF PresenceInv
<1>2. entry \in StatusChoices
  BY <1>1, ChoicesCurrent DEF PresenceTypes
<1>3. /\ sockets' = sockets \cup {s} /\ choice' = entry /\ UNCHANGED <<idleSockets, stored>>
      /\ armed' = IF sockets = {} THEN ChoiceTimer(entry) ELSE armed
      /\ picked' = [picked EXCEPT ![s] = CurrentChoice(entry)]
      /\ shown' = IF sockets = {} /\ after # "offline" THEN after ELSE shown
      /\ untold' = ((untold \/ sockets # {}) /\ shown' # after)
  BY DEF PresenceConnect
<1>4. CurrentChoice(entry) \in StatusChoices /\ (entry.until # "past" => CurrentChoice(entry) = entry)
  BY <1>2, ChoicesCurrent
<1>5. PresenceTypes'
  BY <1>1, <1>2, <1>3, <1>4 DEF PresenceTypes
<1>6. armed' = ChoiceTimer(choice')
  BY <1>3 DEF PresenceInv
<1>7. OthersSeeTheStatus'
  BY <1>3, <1>1 DEF Seen, View, OthersSeeTheStatus
<1>8. DevicesAgree'
  <2>1. ASSUME NEW t \in sockets', choice'.until # "past" PROVE picked'[t] = choice'
    BY <1>1, <1>3, <1>4, <2>1 DEF PresenceTypes, DevicesAgree
  <2>2. QED
    BY <2>1 DEF DevicesAgree
<1>9. NobodyGoneIsShown'
  <2>1. Seen' = "offline" => after = "offline" /\ (sockets # {} => Seen = "offline")
    BY <1>1, <1>2, <1>3, SeenAsGone DEF Seen, PresenceTypes
  <2>2. sockets = {} => Seen = "offline"
    BY <1>1, SeenAsGone DEF Seen, PresenceTypes
  <2> QED
    BY <1>1, <1>3, <2>1, <2>2 DEF NobodyGoneIsShown
<1>10. QED
  BY <1>5, <1>6, <1>7, <1>8, <1>9 DEF PresenceInv

LEMMA DisconnectStep == ASSUME PresenceInv, NEW s \in Sockets, PresenceDisconnect(s) PROVE PresenceInv'
<1>1. PresenceTypes /\ OthersSeeTheStatus /\ NobodyGoneIsShown /\ DevicesAgree /\ untold \in BOOLEAN
  BY DEF PresenceInv, PresenceTypes
<1>2. sockets' = sockets \ {s} /\ UNCHANGED <<choice, stored, picked>>
      /\ Publish(Seen, View(sockets', idleSockets', choice))
      /\ armed' = IF sockets' = {} THEN NoChoice ELSE armed
  BY DEF PresenceDisconnect
<1>3. /\ untold' \in BOOLEAN /\ (untold' \/ shown' = View(sockets', idleSockets', choice))
      /\ View(sockets', idleSockets', choice) = "offline" => shown' = "offline"
  BY <1>1, <1>2, PublishTells
<1>4. OthersSeeTheStatus' /\ NobodyGoneIsShown'
  BY <1>2, <1>3 DEF OthersSeeTheStatus, NobodyGoneIsShown, Seen
<1>5. PresenceTypes'
  BY <1>1, <1>2, <1>3 DEF PresenceTypes
<1>6. DevicesAgree'
  BY <1>1, <1>2 DEF DevicesAgree
<1>7. sockets' # {} => armed' = ChoiceTimer(choice')
  BY <1>2 DEF PresenceInv
<1>8. QED
  BY <1>4, <1>5, <1>6, <1>7 DEF PresenceInv

LEMMA StatusSteps ==
    ASSUME PresenceInv, NEW s \in Sockets,
           (\E idle \in BOOLEAN : SetStatus(s, idle)) \/ (\E c \in StatusChoices : SetChoice(s, c))
    PROVE  PresenceInv'
BY PublishTells DEF PresenceInv, PresenceTypes, SetStatus, OthersSeeTheStatus, NobodyGoneIsShown, Seen, DevicesAgree,
   SetChoice

LEMMA ExpirySteps == ASSUME PresenceInv, UntilPasses \/ ChoiceExpires PROVE PresenceInv'
<1>1. PresenceTypes /\ OthersSeeTheStatus /\ NobodyGoneIsShown /\ DevicesAgree /\ untold \in BOOLEAN
      /\ choice \in StatusChoices /\ stored \in StatusChoices
  BY DEF PresenceInv, PresenceTypes
<1>2. CASE UntilPasses
  <2>1. /\ choice' = Past(choice) /\ stored' = Past(stored) /\ armed' = Past(armed)
        /\ untold' = (untold \/ shown # View(sockets, idleSockets, choice'))
        /\ UNCHANGED <<sockets, idleSockets, shown, picked>>
    BY <1>2 DEF UntilPasses
  <2>2. PresenceTypes'
    BY <1>1, <2>1, ChoicesCurrent DEF PresenceTypes
  <2>3. OthersSeeTheStatus'
    BY <1>1, <2>1 DEF OthersSeeTheStatus, Seen
  <2>4. choice'.until # "past" => choice' = choice /\ choice.until # "past"
    BY <1>1, <2>1, ChoicesCurrent
  <2>5. DevicesAgree'
    BY <1>1, <2>1, <2>4 DEF DevicesAgree
  <2>6. sockets' # {} => armed' = ChoiceTimer(choice')
    BY <1>1, <2>1, ChoicesCurrent DEF PresenceInv
  <2>7. NobodyGoneIsShown'
    <3>1. Seen' = "offline" => Seen = "offline"
      <4>1. Past(choice) \in StatusChoices
            /\ (CurrentChoice(Past(choice)).status = "invisible" => CurrentChoice(choice).status = "invisible")
        BY <1>1, ChoicesCurrent DEF CurrentChoice, Past, Online, StatusChoices
      <4> QED
        BY <1>1, <2>1, <4>1, SeenAsGone DEF Seen
    <3> QED
      BY <1>1, <2>1, <3>1 DEF NobodyGoneIsShown
  <2>8. QED
    BY <2>2, <2>3, <2>5, <2>6, <2>7 DEF PresenceInv
<1>3. CASE ChoiceExpires /\ sockets = {}
  BY <1>1, <1>3 DEF ChoiceExpires, PresenceInv, PresenceTypes, OthersSeeTheStatus, NobodyGoneIsShown, DevicesAgree, Seen
<1>4. CASE ChoiceExpires /\ sockets # {}
  BY <1>4, <1>1, ChoicesCurrent, PublishTells DEF ChoiceExpires, OthersSeeTheStatus, NobodyGoneIsShown, Seen,
     PresenceTypes, DevicesAgree, PresenceInv
<1>5. QED
  BY <1>2, <1>3, <1>4

LEMMA PresenceGoesOn == PresenceInv /\ [PresenceNext]_presenceVars => PresenceInv'
BY ConnectStep, DisconnectStep, StatusSteps, ExpirySteps DEF presenceVars, PresenceInv, PresenceTypes,
   OthersSeeTheStatus, NobodyGoneIsShown, DevicesAgree, Seen, PresenceNext

(* The timer of a Status can only be the one that runs out with it. *)
LEMMA TimerIsOfTheStatus ==
    PresenceInv => (sockets # {} /\ armed.until = "past" => choice.until = "past")
  BY DEF PresenceInv, ChoiceTimer, NoChoice

(* For any number of connections: the Status a member chose is what all its *)
(* Devices show and, unless it ran out or a connection opened beside idle ones *)
(* and nothing reached the others since, what the others show; whatever ran out, *)
(* nobody who is gone or hides is shown (members.ts, registerRealtime). *)
THEOREM StatusIsToldAlways == PresenceSpec => StatusIsTold
<1>1. PresenceSpec => []PresenceInv
  BY PresenceStarts, PresenceGoesOn, PTL DEF PresenceSpec
<1>2. PresenceInv => OthersSeeTheStatus /\ NobodyGoneIsShown /\ DevicesAgree
  BY DEF PresenceInv
<1> DEFINE Ended == sockets # {} /\ sockets' # {} /\ armed.until = "past" /\ armed'.until # "past"
                      => choice.until = "past"
<1>3. PresenceInv /\ [PresenceNext]_presenceVars => [Ended]_presenceVars
  BY TimerIsOfTheStatus
<1>4. QED
  BY <1>1, <1>2, <1>3, PTL DEF PresenceSpec, StatusIsTold, OnlyItsExpiryEndsAStatus

------------------------
(* The music panel: what is on its way. *)

Messages ==
    [kind : {"snapshot"}, bot : BOOLEAN] \cup [kind : {"queue"}, queue : Seq(Nat)]
      \cup [kind : {"joined", "forceLeave"}]
      \cup [kind : {"answer"}, id : Nat, ok : BOOLEAN, results : BOOLEAN]
Pages == [Devices -> Seq(Messages)]

Requested == [id : Nat \ {0}, for : Devices, kind : {"add", "search", "leave", "skip"}, entry : Nat]

Panel == [inRoom : BOOLEAN, sees : BOOLEAN, queue : Seq(Nat), pending : Nat,
          cut : BOOLEAN, offered : BOOLEAN, refused : BOOLEAN]

RelayTypes ==
    /\ linked \subseteq Devices /\ botIn \in BOOLEAN
    /\ music \in [on : BOOLEAN, roster : {"unread", "with", "without"}, queue : Seq(Nat)]
    /\ minted \in Nat /\ rosters \in Seq({"with", "without"})
    /\ chained \in Seq(Requested) /\ searches \in Seq(Requested)
    /\ asked \subseteq [id : Nat, for : Devices]
    /\ toPage \in Pages
    /\ toServer \in [Devices -> Requested \cup {NoRequest}]
    /\ page \in [Devices -> Panel]
    /\ used \in [presses : Nat, moves : Nat]

(* Messages are only added to what is on its way to a Device. *)
Grown(old, new) ==
    /\ new \in Pages
    /\ \A d \in Devices : /\ Len(old[d]) <= Len(new[d])
                          /\ \A i \in 1..Len(old[d]) : new[d][i] = old[d][i]

LEMMA AppendedGrows ==
    ASSUME NEW pages \in Pages, NEW d \in Devices, NEW m \in Messages
    PROVE  /\ Grown(pages, [pages EXCEPT ![d] = Append(@, m)])
           /\ [pages EXCEPT ![d] = Append(@, m)][d][Len(pages[d]) + 1] = m
           /\ Len([pages EXCEPT ![d] = Append(@, m)][d]) = Len(pages[d]) + 1
<1> DEFINE new == [pages EXCEPT ![d] = Append(@, m)]
<1>1. \A e \in Devices : pages[e] \in Seq(Messages)
  BY DEF Pages
<1>2. new \in Pages
  BY <1>1 DEF Pages
<1>3. new[d] = Append(pages[d], m)
  BY DEF Pages
<1>4. \A e \in Devices \ {d} : new[e] = pages[e]
  BY DEF Pages
<1>5. Len(new[d]) = Len(pages[d]) + 1 /\ (\A i \in 1..Len(pages[d]) : new[d][i] = pages[d][i])
      /\ new[d][Len(pages[d]) + 1] = m
  BY <1>1, <1>3
<1>6. \A e \in Devices : Len(pages[e]) \in Nat
  BY DEF Pages
<1>7. \A e \in Devices : Len(pages[e]) <= Len(new[e]) /\ (\A i \in 1..Len(pages[e]) : new[e][i] = pages[e][i])
  <2> TAKE e \in Devices
  <2>1. CASE e = d
    BY <1>5, <1>6, <2>1
  <2>2. CASE e # d
    BY <1>4, <1>6, <2>2
  <2>3. QED
    BY <2>1, <2>2
<1>8. QED
  BY <1>2, <1>5, <1>7 DEF Grown

LEMMA GrownTwice ==
    ASSUME NEW a \in Pages, NEW b, NEW c, Grown(a, b), Grown(b, c)
    PROVE  Grown(a, c)
BY DEF Grown, Pages

LEMMA GrownNot ==
    ASSUME NEW a \in Pages
    PROVE  Grown(a, a)
BY DEF Pages, Grown

(* What is sent to several Devices at once. *)
LEMMA SpreadGrows ==
    ASSUME NEW pages \in Pages, NEW heard, NEW m \in Messages
    PROVE  Grown(pages, [d \in Devices |-> IF d \in heard THEN Append(pages[d], m) ELSE pages[d]])
<1> DEFINE new == [d \in Devices |-> IF d \in heard THEN Append(pages[d], m) ELSE pages[d]]
<1>1. \A e \in Devices : pages[e] \in Seq(Messages) /\ Len(pages[e]) \in Nat
  BY DEF Pages
<1>2. new \in Pages
  BY <1>1 DEF Pages
<1>3. ASSUME NEW e \in Devices
      PROVE  Len(pages[e]) <= Len(new[e]) /\ (\A i \in 1..Len(pages[e]) : new[e][i] = pages[e][i])
  BY <1>1
<1>4. QED
  BY <1>2, <1>3 DEF Grown

LEMMA SnapshotGrows ==
    ASSUME NEW pages \in Pages, NEW present \in BOOLEAN, NEW heard
    PROVE  Grown(pages, SnapshotTo(pages, present, heard))
BY SpreadGrows DEF Messages, SnapshotTo

LEMMA PublishedGrows ==
    ASSUME NEW pages \in Pages, NEW queue \in Seq(Nat)
    PROVE  Grown(pages, Published(pages, queue))
BY SpreadGrows DEF Messages, Published

------------------------
(* A press is answered by one of these. *)
Settles(m, id) == m.kind = "forceLeave" \/ (m.kind = "answer" /\ m.id = id)
AnswerComes(pages, d, id) == \E i \in 1..Len(pages[d]) : Settles(pages[d][i], id)

LEMMA GrownComes ==
    ASSUME NEW old \in Pages, NEW new, Grown(old, new), NEW d \in Devices, NEW id, AnswerComes(old, d, id)
    PROVE  AnswerComes(new, d, id)
BY DEF AnswerComes, Grown, Pages

(* The answer to a request the server still waits for is on its way at once. *)
LEMMA AppendedComes ==
    ASSUME NEW pages \in Pages, NEW d \in Devices, NEW id \in Nat, NEW ok \in BOOLEAN, NEW results \in BOOLEAN
    PROVE  LET new == [pages EXCEPT ![d] = Append(@, AnswerTo(id, ok, results))]
           IN Grown(pages, new) /\ AnswerComes(new, d, id)
<1> DEFINE m == AnswerTo(id, ok, results)
           new == [pages EXCEPT ![d] = Append(@, m)]
<1>1. m \in Messages /\ Settles(m, id)
  BY DEF Messages, AnswerTo, Settles
<1>2. Grown(pages, new) /\ new[d][Len(pages[d]) + 1] = m /\ Len(new[d]) = Len(pages[d]) + 1
  BY <1>1, AppendedGrows
<1>3. Len(pages[d]) \in Nat
  BY DEF Pages
<1>4. Len(pages[d]) + 1 \in 1..Len(new[d])
  BY <1>2, <1>3
<1>5. AnswerComes(new, d, id)
  BY <1>1, <1>2, <1>4 DEF AnswerComes
<1>6. QED
  BY <1>2, <1>5

(* No request is forgotten without its answer being on its way. *)
Cared(before, after, pages) ==
    \A request \in before : request \in after \/ AnswerComes(pages, request.for, request.id)

LEMMA RelayedCares ==
    ASSUME RelayTypes, NEW r \in Requested, NEW pages, Grown(toPage, pages),
           NEW ok \in BOOLEAN, NEW results \in BOOLEAN, Relayed(r, pages, ok, results)
    PROVE  Grown(toPage, toPage') /\ asked' \subseteq asked /\ Cared(asked, asked', toPage')
<1> DEFINE request == [id |-> r.id, for |-> r.for]
<1>1. asked' = asked \ {request}
  BY DEF Relayed
<1>2. toPage' = IF request \in asked THEN [pages EXCEPT ![r.for] = Append(@, AnswerTo(r.id, ok, results))] ELSE pages
  BY DEF Relayed
<1>3. pages \in Pages /\ toPage \in Pages /\ r.for \in Devices /\ r.id \in Nat
  BY DEF Grown, RelayTypes, Requested
<1>4. CASE request \in asked
  <2>1. Grown(pages, toPage') /\ AnswerComes(toPage', r.for, r.id)
    BY <1>2, <1>3, <1>4, AppendedComes
  <2>2. Grown(toPage, toPage')
    BY <1>3, <2>1, GrownTwice
  <2>3. request.for = r.for /\ request.id = r.id
    OBVIOUS
  <2>4. QED
    BY <1>1, <2>1, <2>2, <2>3 DEF Cared
<1>5. CASE request \notin asked
  BY <1>1, <1>2, <1>5 DEF Cared
<1>6. QED
  BY <1>4, <1>5

------------------------
(* Only a Device that is connected has a request under way. *)
OnlyLinkedAsk ==
    /\ \A d \in Devices : toServer[d] # NoRequest => d \in linked /\ toServer[d].for = d
    /\ \A request \in asked : request.for \in linked

(* What a page waits for, by the number of its press: the request, or the *)
(* server's wait for the bot, or its answer, or the order to leave. *)
Owed(d) ==
    page[d].pending # 0 /\ ~page[d].cut =>
        \/ toServer[d] # NoRequest /\ toServer[d].id = page[d].pending
        \/ AnswerComes(toPage, d, page[d].pending)
        \/ [id |-> page[d].pending, for |-> d] \in asked

RelayInv == RelayTypes /\ OnlyLinkedAsk /\ \A d \in Devices : Owed(d)

LEMMA OwedKept ==
    ASSUME RelayTypes, Grown(toPage, toPage'), Cared(asked, asked', toPage'),
           NEW d \in Devices, Owed(d),
           page'[d].pending = page[d].pending, page'[d].cut = page[d].cut, toServer'[d] = toServer[d]
    PROVE  Owed(d)'
<1>1. toPage \in Pages
  BY DEF RelayTypes
<1> SUFFICES ASSUME page[d].pending # 0, ~page[d].cut
             PROVE  \/ toServer[d] # NoRequest /\ toServer[d].id = page[d].pending
                    \/ AnswerComes(toPage', d, page[d].pending)
                    \/ [id |-> page[d].pending, for |-> d] \in asked'
  BY DEF Owed, AnswerComes
<1>2. CASE toServer[d] # NoRequest /\ toServer[d].id = page[d].pending
  BY <1>2
<1>3. CASE AnswerComes(toPage, d, page[d].pending)
  BY <1>1, <1>3, GrownComes
<1>4. CASE [id |-> page[d].pending, for |-> d] \in asked
  BY <1>4 DEF Cared
<1>5. QED
  BY <1>2, <1>3, <1>4 DEF Owed

(* The steps that only add messages. *)
LEMMA RoomSteps ==
    ASSUME RelayInv, Grown(toPage, toPage'), Cared(asked, asked', toPage'),
           asked' \subseteq asked, linked \subseteq linked', UNCHANGED <<page, toServer>>
    PROVE  OnlyLinkedAsk' /\ \A d \in Devices : Owed(d)'
BY OwedKept DEF RelayInv, OnlyLinkedAsk

LEMMA NothingAsked == ASSUME NEW a, NEW p PROVE Cared(a, a, p)
  BY DEF Cared

LEMMA SentGrows ==
    ASSUME RelayTypes, NEW d \in linked, NEW id \in Nat, NEW ok \in BOOLEAN, NEW results \in BOOLEAN
    PROVE  LET new == Sent(d, <<AnswerTo(id, ok, results)>>)
           IN Grown(toPage, new) /\ AnswerComes(new, d, id)
<1> DEFINE m == AnswerTo(id, ok, results)
<1>1. toPage \in Pages /\ d \in Devices
  BY DEF RelayTypes
<1>2. toPage[d] \in Seq(Messages)
  BY <1>1 DEF Pages
<1>3. m \in Messages
  BY DEF Messages, AnswerTo
<1>4. Append(toPage[d], m) = toPage[d] \o <<m>>
  BY <1>2, <1>3, AppendIsConcat
<1>5. Sent(d, <<m>>) = [toPage EXCEPT ![d] = Append(@, m)]
  BY <1>4 DEF Sent
<1>6. PICK new : new = [toPage EXCEPT ![d] = Append(@, m)]
  OBVIOUS
<1>7. Grown(toPage, new) /\ AnswerComes(new, d, id)
  BY <1>1, <1>6, AppendedComes
<1>8. QED
  BY <1>5, <1>6, <1>7

LEMMA PlaceGrows ==
    ASSUME RelayTypes, NEW d \in Devices, NEW reached \in SUBSET Devices, TakesPlace(d, reached)
    PROVE  Grown(toPage, toPage') /\ rosters' \in Seq({"with", "without"})
<1> DEFINE pages == IF holds \in reached \ {d} THEN [toPage EXCEPT ![holds] = Append(@, [kind |-> "forceLeave"])] ELSE toPage
           joined == [pages EXCEPT ![d] = Append(@, [kind |-> "joined"])]
<1>1. toPage \in Pages /\ botIn \in BOOLEAN /\ rosters \in Seq({"with", "without"})
  BY DEF RelayTypes
<1>2. [kind |-> "forceLeave"] \in Messages /\ [kind |-> "joined"] \in Messages
  BY DEF Messages
<1>3. Grown(toPage, pages)
  BY <1>1, <1>2, AppendedGrows, GrownNot
<1>4. pages \in Pages
  BY <1>3 DEF Grown
<1>5. Grown(pages, joined)
  BY <1>2, <1>4, AppendedGrows
<1>6. joined \in Pages
  BY <1>5 DEF Grown
<1>7. toPage' = SnapshotTo(joined, botIn, reached)
  BY DEF TakesPlace
<1>8. Grown(joined, toPage')
  BY <1>1, <1>6, <1>7, SnapshotGrows
<1>9. Grown(toPage, joined)
  BY <1>1, <1>3, <1>5, GrownTwice
<1>10. Grown(toPage, toPage')
  BY <1>1, <1>8, <1>9, GrownTwice
<1>11. rosters' \in Seq({"with", "without"})
  BY <1>1 DEF TakesPlace, Told, Roster
<1>12. QED
  BY <1>10, <1>11

------------------------
(* The steps of the bot and the server. *)
LEMMA SearchedStep == RelayInv /\ Searched => RelayInv'
<1> SUFFICES ASSUME RelayInv, Searched PROVE RelayInv'
  OBVIOUS
<1>1. RelayTypes /\ searches \in Seq(Requested) /\ searches # <<>> /\ toPage \in Pages
  BY DEF RelayInv, RelayTypes, Searched
<1>2. Head(searches) \in Requested /\ Tail(searches) \in Seq(Requested)
  BY <1>1
<1>3. PICK found \in BOOLEAN : Relayed(Head(searches), toPage, found, found)
  BY DEF Searched
<1>4. Grown(toPage, toPage') /\ asked' \subseteq asked /\ Cared(asked, asked', toPage')
  BY <1>1, <1>2, <1>3, GrownNot, RelayedCares
<1>5. OnlyLinkedAsk' /\ \A d \in Devices : Owed(d)'
  BY <1>4, RoomSteps DEF Searched
<1>6. RelayTypes'
  BY <1>1, <1>2, <1>4 DEF RelayTypes, Searched, Grown
<1>7. QED
  BY <1>5, <1>6 DEF RelayInv

LEMMA ReadSnapshotStep == RelayInv /\ ReadSnapshot => RelayInv'
<1> SUFFICES ASSUME RelayInv, ReadSnapshot PROVE RelayInv'
  OBVIOUS
<1>1. RelayTypes /\ toPage \in Pages /\ music.queue \in Seq(Nat) /\ rosters # <<>>
      /\ rosters \in Seq({"with", "without"})
  BY DEF RelayInv, RelayTypes, ReadSnapshot
<1>2. Grown(toPage, toPage')
  BY <1>1, GrownNot, PublishedGrows DEF ReadSnapshot
<1>3. asked' = asked /\ UNCHANGED <<linked, page, toServer>>
  BY DEF ReadSnapshot, serverVars
<1>4. OnlyLinkedAsk' /\ \A d \in Devices : Owed(d)'
  BY <1>2, <1>3, RoomSteps, NothingAsked
<1>5. Head(rosters) \in {"with", "without"} /\ Tail(rosters) \in Seq({"with", "without"})
  BY <1>1
<1>6. RelayTypes'
  BY <1>1, <1>2, <1>5 DEF RelayTypes, ReadSnapshot, serverVars, Grown
<1>7. QED
  BY <1>4, <1>6 DEF RelayInv

LEMMA AddStep ==
    ASSUME RelayTypes, NEW r \in Requested, AddTrack(r)
    PROVE  /\ Grown(toPage, toPage') /\ asked' \subseteq asked /\ Cared(asked, asked', toPage')
           /\ botIn' \in BOOLEAN /\ minted' \in Nat /\ rosters' \in Seq({"with", "without"})
           /\ music' \in [on : BOOLEAN, roster : {"unread", "with", "without"}, queue : Seq(Nat)]
<1>1. toPage \in Pages /\ botIn \in BOOLEAN /\ minted \in Nat /\ rosters \in Seq({"with", "without"})
      /\ music \in [on : BOOLEAN, roster : {"unread", "with", "without"}, queue : Seq(Nat)]
  BY DEF RelayTypes
<1>2. CASE Relayed(r, toPage, FALSE, FALSE) /\ UNCHANGED <<botIn, music, minted, rosters>>
  BY <1>1, <1>2, GrownNot, RelayedCares
<1>3. CASE ~UNCHANGED minted
  <2> DEFINE seen == IF music.on THEN toPage ELSE SnapshotTo(toPage, TRUE, linked)
  <2>1. minted' = minted + 1 /\ botIn' = TRUE
        /\ music' = [music EXCEPT !.on = TRUE, !.queue = Append(@, minted + 1)]
        /\ Relayed(r, Published(seen, music'.queue), TRUE, FALSE)
        /\ rosters' = IF music.on THEN rosters ELSE Append(rosters, Roster(holds # NoDevice))
    BY <1>3 DEF AddTrack
  <2>2. minted + 1 \in Nat /\ Append(music.queue, minted + 1) \in Seq(Nat)
    BY <1>1
  <2>3. music' \in [on : BOOLEAN, roster : {"unread", "with", "without"}, queue : Seq(Nat)]
    BY <1>1, <2>1, <2>2
  <2>4. Grown(toPage, seen) /\ seen \in Pages
    <3>1. Grown(toPage, SnapshotTo(toPage, TRUE, linked))
      BY <1>1, SnapshotGrows
    <3>2. Grown(toPage, seen)
      BY <1>1, <3>1, GrownNot
    <3>3. QED
      BY <3>2 DEF Grown
  <2>5. Grown(seen, Published(seen, music'.queue))
    BY <2>3, <2>4, PublishedGrows
  <2>6. Grown(toPage, Published(seen, music'.queue))
    BY <1>1, <2>4, <2>5, GrownTwice
  <2>7. Grown(toPage, toPage') /\ asked' \subseteq asked /\ Cared(asked, asked', toPage')
    BY <2>1, <2>6, RelayedCares
  <2>8. rosters' \in Seq({"with", "without"})
    BY <1>1, <2>1 DEF Roster
  <2>9. QED
    BY <2>1, <2>2, <2>3, <2>7, <2>8
<1>4. QED
  <2>1. minted' = minted + 1 => ~UNCHANGED minted
    BY <1>1
  <2>2. QED
    BY <1>2, <1>3, <2>1 DEF AddTrack

LEMMA SkipStep ==
    ASSUME RelayTypes, NEW r \in Requested, SkipTrack(r)
    PROVE  /\ Grown(toPage, toPage') /\ asked' \subseteq asked /\ Cared(asked, asked', toPage')
           /\ botIn' \in BOOLEAN /\ minted' \in Nat /\ rosters' \in Seq({"with", "without"})
           /\ music' \in [on : BOOLEAN, roster : {"unread", "with", "without"}, queue : Seq(Nat)]
<1> DEFINE skips == music.on /\ music.queue # NoQueue /\ music.queue[1] = r.entry
           pages == IF skips THEN Published(toPage, Tail(music.queue)) ELSE toPage
<1>1. toPage \in Pages /\ botIn \in BOOLEAN /\ minted \in Nat /\ rosters \in Seq({"with", "without"})
      /\ music \in [on : BOOLEAN, roster : {"unread", "with", "without"}, queue : Seq(Nat)]
  BY DEF RelayTypes
<1>2. skips => Tail(music.queue) \in Seq(Nat)
  BY <1>1 DEF NoQueue
<1>3. Grown(toPage, pages)
  BY <1>1, <1>2, GrownNot, PublishedGrows
<1>4. Relayed(r, pages, TRUE, FALSE) /\ UNCHANGED <<botIn, minted, rosters>>
      /\ music' = IF skips THEN [music EXCEPT !.queue = Tail(@)] ELSE music
  BY DEF SkipTrack
<1>5. Grown(toPage, toPage') /\ asked' \subseteq asked /\ Cared(asked, asked', toPage')
  BY <1>3, <1>4, RelayedCares
<1>6. QED
  BY <1>1, <1>2, <1>4, <1>5

LEMMA EndMusicStep ==
    ASSUME RelayTypes, NEW r \in Requested, EndMusic(r)
    PROVE  /\ Grown(toPage, toPage') /\ asked' \subseteq asked /\ Cared(asked, asked', toPage')
           /\ botIn' \in BOOLEAN /\ minted' \in Nat /\ rosters' \in Seq({"with", "without"})
           /\ music' \in [on : BOOLEAN, roster : {"unread", "with", "without"}, queue : Seq(Nat)]
<1> DEFINE told == Published(toPage, NoQueue)
           pages == IF music.on THEN SnapshotTo(told, FALSE, linked) ELSE toPage
<1>1. toPage \in Pages /\ botIn \in BOOLEAN /\ minted \in Nat /\ rosters \in Seq({"with", "without"})
  BY DEF RelayTypes
<1>2. NoQueue \in Seq(Nat)
  BY DEF NoQueue
<1>3. Grown(toPage, told) /\ told \in Pages
  BY <1>1, <1>2, PublishedGrows DEF Grown
<1>4. Grown(told, SnapshotTo(told, FALSE, linked))
  BY <1>3, SnapshotGrows
<1>5. Grown(toPage, SnapshotTo(told, FALSE, linked))
  BY <1>1, <1>3, <1>4, GrownTwice
<1>6. Grown(toPage, pages)
  BY <1>1, <1>5, GrownNot
<1>7. Relayed(r, pages, TRUE, FALSE) /\ UNCHANGED <<minted, rosters>> /\ music' = NoSet
      /\ botIn' = (botIn /\ ~music.on)
  BY DEF EndMusic
<1>8. Grown(toPage, toPage') /\ asked' \subseteq asked /\ Cared(asked, asked', toPage')
  BY <1>6, <1>7, RelayedCares
<1>9. NoSet \in [on : BOOLEAN, roster : {"unread", "with", "without"}, queue : Seq(Nat)]
  BY <1>2 DEF NoSet
<1>10. QED
  BY <1>1, <1>7, <1>8, <1>9

LEMMA BotServesStep == RelayInv /\ BotServes => RelayInv'
<1> SUFFICES ASSUME RelayInv, BotServes PROVE RelayInv'
  OBVIOUS
<1>1. RelayTypes /\ chained \in Seq(Requested) /\ chained # <<>>
  BY DEF RelayInv, RelayTypes, BotServes
<1>2. Head(chained) \in Requested /\ Tail(chained) \in Seq(Requested)
  BY <1>1
<1>3. AddTrack(Head(chained)) \/ SkipTrack(Head(chained)) \/ EndMusic(Head(chained))
  BY DEF BotServes
<1>4. /\ Grown(toPage, toPage') /\ asked' \subseteq asked /\ Cared(asked, asked', toPage')
      /\ botIn' \in BOOLEAN /\ minted' \in Nat /\ rosters' \in Seq({"with", "without"})
      /\ music' \in [on : BOOLEAN, roster : {"unread", "with", "without"}, queue : Seq(Nat)]
  BY <1>1, <1>2, <1>3, AddStep, SkipStep, EndMusicStep
<1>5. OnlyLinkedAsk' /\ \A d \in Devices : Owed(d)'
  BY <1>4, RoomSteps DEF BotServes
<1>6. RelayTypes'
  BY <1>1, <1>2, <1>4 DEF RelayTypes, BotServes, Grown
<1>7. QED
  BY <1>5, <1>6 DEF RelayInv

LEMMA QuietBotSteps ==
    ASSUME RelayInv, TrackEnds \/ BotLost \/ BotBack \/ BotLapses
    PROVE  RelayInv'
<1>1. RelayTypes /\ toPage \in Pages /\ botIn \in BOOLEAN
      /\ music \in [on : BOOLEAN, roster : {"unread", "with", "without"}, queue : Seq(Nat)]
  BY DEF RelayInv, RelayTypes
<1>2. Grown(toPage, toPage')
  <2>1. CASE TrackEnds
    <3>1. Tail(music.queue) \in Seq(Nat)
      BY <1>1, <2>1 DEF TrackEnds, NoQueue
    <3>2. QED
      BY <1>1, <2>1, <3>1, PublishedGrows DEF TrackEnds
  <2>2. CASE BotLapses
    BY <1>1, <2>2, SnapshotGrows DEF BotLapses
  <2>3. CASE BotLost \/ BotBack
    BY <1>1, <2>3, GrownNot DEF BotLost, BotBack
  <2>4. QED
    BY <2>1, <2>2, <2>3
<1>3. asked' = asked /\ UNCHANGED <<linked, page, toServer>>
  BY DEF TrackEnds, BotLost, BotBack, BotLapses, serverVars
<1>4. OnlyLinkedAsk' /\ \A d \in Devices : Owed(d)'
  BY <1>2, <1>3, RoomSteps, NothingAsked
<1>5. CASE TrackEnds
  <2>1. Tail(music.queue) \in Seq(Nat)
    BY <1>1, <1>5 DEF TrackEnds, NoQueue
  <2>2. RelayTypes'
    BY <1>1, <1>2, <1>5, <2>1 DEF RelayTypes, TrackEnds, serverVars, Grown
  <2>3. QED
    BY <1>4, <2>2 DEF RelayInv
<1>6. CASE BotLost
  <2>1. NoSet \in [on : BOOLEAN, roster : {"unread", "with", "without"}, queue : Seq(Nat)]
    BY DEF NoSet, NoQueue
  <2>2. used' \in [presses : Nat, moves : Nat]
    <3>1. used \in [presses : Nat, moves : Nat]
      BY <1>1 DEF RelayTypes
    <3>2. used' = [used EXCEPT !.moves = used.moves + 1]
      BY <1>6 DEF BotLost, Moves
    <3>3. QED
      BY <3>1, <3>2
  <2>3. RelayTypes'
    BY <1>1, <1>2, <1>6, <2>1, <2>2 DEF RelayTypes, BotLost, serverVars, Grown
  <2>4. QED
    BY <1>4, <2>3 DEF RelayInv
<1>7. CASE BotBack \/ BotLapses
  <2>1. RelayTypes'
    BY <1>1, <1>2, <1>7 DEF RelayTypes, BotBack, BotLapses, serverVars, responderVars, Grown
  <2>2. QED
    BY <1>4, <2>1 DEF RelayInv
<1>8. QED
  BY <1>5, <1>6, <1>7

LEMMA TimeoutStep == RelayInv /\ Timeout => RelayInv'
<1> SUFFICES ASSUME RelayInv, Timeout PROVE RelayInv'
  OBVIOUS
<1>1. RelayTypes /\ toPage \in Pages /\ asked \subseteq [id : Nat, for : Devices]
  BY DEF RelayInv, RelayTypes
<1>2. PICK request \in asked : asked' = asked \ {request} /\ toPage' = TimedOut(request)
  BY DEF Timeout
<1>3. request.for \in linked /\ request.for \in Devices /\ request.id \in Nat
  BY <1>1 DEF RelayInv, OnlyLinkedAsk
<1>5. Grown(toPage, toPage') /\ AnswerComes(toPage', request.for, request.id)
  BY <1>1, <1>2, <1>3, SentGrows DEF TimedOut
<1>6. asked' \subseteq asked /\ Cared(asked, asked', toPage')
  BY <1>2, <1>5 DEF Cared
<1>7. OnlyLinkedAsk' /\ \A d \in Devices : Owed(d)'
  BY <1>5, <1>6, RoomSteps DEF Timeout
<1>8. RelayTypes'
  BY <1>1, <1>5, <1>6 DEF RelayTypes, Timeout, responderVars, Grown
<1>9. QED
  BY <1>7, <1>8 DEF RelayInv

------------------------
(* The steps of the Devices. *)
LEMMA UnmountedFits ==
    ASSUME NEW p \in Panel
    PROVE  Unmounted(p) \in Panel /\ Unmounted(p).pending = 0
  BY DEF Panel, Unmounted

LEMMA AnsweredFits ==
    ASSUME NEW p \in Panel, NEW offered \in BOOLEAN
    PROVE  LET done == [p EXCEPT !.pending = 0, !.refused = FALSE, !.offered = offered]
               failed == [p EXCEPT !.pending = 0, !.refused = TRUE]
           IN done \in Panel /\ done.pending = 0 /\ failed \in Panel /\ failed.pending = 0
  BY DEF Panel

LEMMA PressStep == ASSUME RelayInv, NEW d \in Devices, Press(d) PROVE RelayInv'
<1>1. RelayTypes /\ page \in [Devices -> Panel] /\ used \in [presses : Nat, moves : Nat]
      /\ toPage \in Pages /\ toServer \in [Devices -> Requested \cup {NoRequest}]
  BY DEF RelayInv, RelayTypes
<1>2. d \in linked /\ used' = [used EXCEPT !.presses = @ + 1]
  BY DEF Press
<1>3. used' \in [presses : Nat, moves : Nat] /\ used'.presses \in Nat \ {0}
  BY <1>1, <1>2
<1>4. PICK r \in Requests(d) :
          toServer' = [toServer EXCEPT ![d] = [id |-> used'.presses, for |-> d, kind |-> r.kind, entry |-> r.entry]]
  BY DEF Press
<1>5. r.kind \in {"add", "search", "leave", "skip"} /\ r.entry \in Nat
  BY <1>1, <1>4 DEF QueueShown, Panel, NoQueue, Requests
<1> DEFINE request == [id |-> used'.presses, for |-> d, kind |-> r.kind, entry |-> r.entry]
<1>6. request \in Requested /\ request # NoRequest
  BY <1>3, <1>5 DEF Requested, NoRequest
<1>7. toServer'[d] = request /\ \A e \in Devices \ {d} : toServer'[e] = toServer[e]
  BY <1>1, <1>4
<1>8. page' = [page EXCEPT ![d].pending = used'.presses, ![d].cut = FALSE, ![d].refused = FALSE]
  BY DEF Press
<1>9. page' \in [Devices -> Panel] /\ page'[d].pending = used'.presses
      /\ \A e \in Devices \ {d} : page'[e] = page[e]
  <2> DEFINE p == [page[d] EXCEPT !.pending = used'.presses, !.cut = FALSE, !.refused = FALSE]
  <2>1. p \in Panel /\ p.pending = used'.presses
    BY <1>1, <1>3 DEF Panel
  <2>2. page' = [page EXCEPT ![d] = p]
    BY <1>1, <1>8
  <2>3. QED
    BY <1>1, <2>1, <2>2
<1>10. RelayTypes'
  BY <1>1, <1>4, <1>6, <1>3, <1>9 DEF RelayTypes, Press, serverVars, responderVars
<1>11. OnlyLinkedAsk'
  BY <1>2, <1>6, <1>7 DEF RelayInv, OnlyLinkedAsk, Press, serverVars
<1>12. ASSUME NEW e \in Devices PROVE Owed(e)'
  BY <1>6, <1>7, <1>9, <1>1, GrownNot, NothingAsked, OwedKept DEF Owed, Press, serverVars, RelayInv
<1>13. QED
  BY <1>10, <1>11, <1>12 DEF RelayInv

(* The head of what is on its way to the Device is not what it waits for, or it *)
(* no longer waits. *)
LEMMA HearsStep == ASSUME RelayInv, NEW d \in Devices, Hears(d) PROVE RelayInv'
<1> DEFINE m == Head(toPage[d])
           p == page[d]
<1>1. RelayTypes /\ page \in [Devices -> Panel] /\ toPage \in Pages /\ toPage[d] \in Seq(Messages)
      /\ toPage[d] # <<>>
  BY DEF RelayInv, RelayTypes, Pages, Hears
<1>2. m \in Messages /\ Tail(toPage[d]) \in Seq(Messages) /\ p \in Panel
  BY <1>1
<1>3. toPage' = [toPage EXCEPT ![d] = Tail(@)]
  BY DEF Hears
<1>4. toPage' \in Pages /\ toPage'[d] = Tail(toPage[d]) /\ \A e \in Devices \ {d} : toPage'[e] = toPage[e]
  BY <1>1, <1>2, <1>3 DEF Pages
<1> DEFINE new == Heard(p, m)
<1>5. page' = [page EXCEPT ![d] = new]
  BY DEF Hears
<1>6. m.kind \in {"snapshot", "queue", "joined", "forceLeave", "answer"}
  BY <1>2 DEF Messages
<1>7. /\ new \in Panel
      /\ \/ new.pending = 0
         \/ new.pending = p.pending /\ new.cut = p.cut /\ ~Settles(m, p.pending)
  <2>1. CASE m.kind = "snapshot"
    BY <1>2, <2>1 DEF Messages, Heard, Panel, Settles
  <2>2. CASE m.kind = "queue"
    BY <1>2, <2>2 DEF Messages, Heard, Panel, Settles
  <2>3. CASE m.kind = "joined"
    BY <2>3, <1>2 DEF Heard, Panel, Settles
  <2>4. CASE m.kind = "forceLeave"
    BY <2>4, <1>2, UnmountedFits DEF Heard
  <2>5. CASE m.kind = "answer" /\ m.id # p.pending
    BY <2>5, <1>2 DEF Heard, Settles
  <2>6. CASE m.kind = "answer" /\ m.id = p.pending
    <3>1. m.ok \in BOOLEAN /\ m.results \in BOOLEAN
      BY <1>2, <2>6 DEF Messages
    <3>2. p.offered \in BOOLEAN
      BY <1>2 DEF Panel
    <3>3. CASE m.ok
      BY <2>6, <3>3, <1>2, <3>1, AnsweredFits DEF Heard
    <3>4. CASE ~m.ok
      BY <2>6, <3>4, <1>2, <3>2, AnsweredFits DEF Heard
    <3>5. QED
      BY <3>3, <3>4
  <2>7. QED
    BY <1>6, <2>1, <2>2, <2>3, <2>4, <2>5, <2>6
<1> HIDE DEF new
<1>8. page' \in [Devices -> Panel] /\ page'[d] = new /\ \A e \in Devices \ {d} : page'[e] = page[e]
  BY <1>1, <1>5, <1>7
<1>9. UNCHANGED <<asked, toServer, linked>>
  BY DEF Hears, serverVars
<1>10. RelayTypes'
  BY <1>1, <1>4, <1>8, <1>9 DEF RelayTypes, Hears, serverVars, responderVars
<1>11. OnlyLinkedAsk'
  BY <1>9 DEF RelayInv, OnlyLinkedAsk
<1>12. ASSUME NEW e \in Devices PROVE Owed(e)'
  <2>1. Owed(e)
    BY DEF RelayInv
  <2>2. CASE e # d
    BY <1>4, <1>8, <1>9, <2>1, <2>2 DEF Owed, AnswerComes
  <2>3. CASE e = d /\ new.pending = 0
    BY <1>8, <2>3 DEF Owed
  <2>4. CASE e = d /\ new.pending # 0
    <3>1. new.pending = p.pending /\ new.cut = p.cut /\ ~Settles(m, p.pending)
      BY <1>7, <2>4
    <3>2. AnswerComes(toPage, d, p.pending) => AnswerComes(toPage', d, p.pending)
      <4>1. SUFFICES ASSUME NEW i \in 1..Len(toPage[d]), Settles(toPage[d][i], p.pending)
                     PROVE  AnswerComes(toPage', d, p.pending)
        BY DEF AnswerComes
      <4>2. toPage[d][1] = m /\ Len(Tail(toPage[d])) = Len(toPage[d]) - 1 /\ Len(toPage[d]) \in Nat
            /\ \A j \in 1..Len(toPage[d]) - 1 : Tail(toPage[d])[j] = toPage[d][j + 1]
        BY <1>1
      <4>3. i # 1
        BY <3>1, <4>1, <4>2
      <4>4. i - 1 \in 1..Len(toPage'[d]) /\ toPage'[d][i - 1] = toPage[d][i]
        BY <1>4, <4>2, <4>3
      <4>5. QED
        BY <4>1, <4>4 DEF AnswerComes
    <3>3. QED
      BY <1>8, <1>9, <2>1, <2>4, <3>1, <3>2 DEF Owed
  <2>5. QED
    BY <2>2, <2>3, <2>4
<1>13. QED
  BY <1>10, <1>11, <1>12 DEF RelayInv

LEMMA ForwardStep == ASSUME RelayInv, NEW d \in Devices, Forward(d) PROVE RelayInv'
<1> DEFINE r == toServer[d]
           request == [id |-> r.id, for |-> d]
<1>1. RelayTypes /\ toPage \in Pages /\ toServer \in [Devices -> Requested \cup {NoRequest}]
      /\ asked \subseteq [id : Nat, for : Devices] /\ chained \in Seq(Requested) /\ searches \in Seq(Requested)
  BY DEF RelayInv, RelayTypes
<1>2. r # NoRequest /\ r \in Requested /\ d \in linked
  BY <1>1 DEF Forward, RelayInv, OnlyLinkedAsk
<1>3. r.id \in Nat
  BY <1>2 DEF Requested
<1>4. toServer' = [toServer EXCEPT ![d] = NoRequest] /\ UNCHANGED <<page, linked>>
  BY DEF Forward
<1>5. toServer' \in [Devices -> Requested \cup {NoRequest}] /\ toServer'[d] = NoRequest
      /\ \A e \in Devices \ {d} : toServer'[e] = toServer[e]
  BY <1>1, <1>4
<1>6. /\ Grown(toPage, toPage')
      /\ \/ AnswerComes(toPage', d, r.id) /\ asked' = asked
         \/ asked' = asked \cup {request}
      /\ chained' \in Seq(Requested) /\ searches' \in Seq(Requested)
  <2>1. CASE holds # d \/ ~botOnline
    BY <2>1, <1>1, <1>2, <1>3, SentGrows DEF Forward
  <2>2. CASE ~(holds # d \/ ~botOnline)
    <3>1. toPage' = toPage /\ asked' = asked \cup {request}
      BY <2>2 DEF Forward
    <3>2. chained' \in {chained, Append(chained, r)} /\ searches' \in {searches, Append(searches, r)}
      BY <2>2 DEF Forward
    <3>3. Append(chained, r) \in Seq(Requested) /\ Append(searches, r) \in Seq(Requested)
      BY <1>1, <1>2, AppendProperties
    <3>4. Grown(toPage, toPage')
      BY <1>1, <3>1, GrownNot
    <3>5. QED
      BY <1>1, <3>1, <3>2, <3>3, <3>4
  <2>3. QED
    BY <2>1, <2>2
<1>7. asked' \subseteq asked \cup {request} /\ asked \subseteq asked'
  BY <1>6
<1>8. RelayTypes'
  <2>1. asked' \subseteq [id : Nat, for : Devices]
    BY <1>1, <1>3, <1>7
  <2>2. QED
    BY <1>1, <1>5, <1>6, <2>1 DEF RelayTypes, Forward, Grown
<1>9. OnlyLinkedAsk'
  BY <1>2, <1>4, <1>5, <1>7 DEF RelayInv, OnlyLinkedAsk
<1>10. Cared(asked, asked', toPage')
  BY <1>7 DEF Cared
<1>11. ASSUME NEW e \in Devices PROVE Owed(e)'
  <2>1. Owed(e)
    BY DEF RelayInv
  <2>2. CASE e # d
    BY <1>1, <1>4, <1>5, <1>6, <1>10, <2>1, <2>2, OwedKept
  <2>3. CASE e = d
    BY <1>1, <1>6, GrownComes, <1>4, <1>7, <2>1, <2>3 DEF Owed
  <2>4. QED
    BY <2>2, <2>3
<1>12. QED
  BY <1>8, <1>9, <1>11 DEF RelayInv

LEMMA PlaceSteps == ASSUME RelayInv, NEW d \in Devices, EntersRoom(d) \/ Back(d) PROVE RelayInv'
<1>1. RelayTypes /\ linked \subseteq Devices /\ toPage \in Pages /\ used \in [presses : Nat, moves : Nat]
      /\ rosters \in Seq({"with", "without"})
  BY DEF RelayInv, RelayTypes
<1>2. Grown(toPage, toPage') /\ rosters' \in Seq({"with", "without"})
  BY <1>1, PlaceGrows, GrownNot DEF EntersRoom, Back
<1>3. linked \subseteq linked' /\ linked' \subseteq Devices /\ UNCHANGED <<page, toServer, asked>>
  BY <1>1 DEF EntersRoom, Back
<1>4. OnlyLinkedAsk' /\ \A e \in Devices : Owed(e)'
  BY <1>2, <1>3, RoomSteps, NothingAsked
<1>5. used' \in [presses : Nat, moves : Nat]
  BY <1>1 DEF EntersRoom, Back, Moves
<1>6. RelayTypes'
  BY <1>1, <1>2, <1>3, <1>5 DEF RelayTypes, EntersRoom, Back, Grown
<1>7. QED
  BY <1>4, <1>6 DEF RelayInv

(* A page that no longer shows the room waits for nothing. *)
LEMMA UnmountedSteps == ASSUME RelayInv, NEW d \in Devices, LeaveRoom(d) \/ GivesUp(d) PROVE RelayInv'
<1>1. RelayTypes /\ page \in [Devices -> Panel] /\ toPage \in Pages /\ used \in [presses : Nat, moves : Nat]
      /\ rosters \in Seq({"with", "without"}) /\ botIn \in BOOLEAN
  BY DEF RelayInv, RelayTypes
<1>2. page' = [page EXCEPT ![d] = Unmounted(@)]
  BY DEF LeaveRoom, GivesUp
<1>3. page' \in [Devices -> Panel] /\ page'[d].pending = 0 /\ \A e \in Devices \ {d} : page'[e] = page[e]
  BY <1>1, <1>2 DEF Panel, Unmounted
<1>4. UNCHANGED <<toServer, asked, linked>>
  BY DEF LeaveRoom, GivesUp, serverVars
<1>5. Grown(toPage, toPage') /\ rosters' \in Seq({"with", "without"})
  <2>1. CASE LeaveRoom(d) /\ holds = d
    BY <1>1, <2>1, SnapshotGrows DEF LeaveRoom, Told, Roster
  <2>2. CASE LeaveRoom(d) /\ holds # d
    BY <1>1, <2>2, GrownNot DEF LeaveRoom
  <2>3. CASE GivesUp(d)
    BY <1>1, <2>3, GrownNot DEF GivesUp, responderVars
  <2>4. QED
    BY <2>1, <2>2, <2>3
<1>6. used' \in [presses : Nat, moves : Nat]
  <2>1. used' = used \/ used' = [used EXCEPT !.moves = @ + 1]
    BY DEF LeaveRoom, GivesUp, Moves
  <2>2. QED
    BY <1>1, <2>1
<1>7. RelayTypes'
  <2>1. UNCHANGED <<botIn, music, minted, chained, searches>>
    BY DEF LeaveRoom, GivesUp, serverVars, responderVars
  <2>2. QED
    BY <1>1, <1>3, <1>4, <1>5, <1>6, <2>1 DEF RelayTypes, Grown
<1>8. OnlyLinkedAsk'
  BY <1>4 DEF RelayInv, OnlyLinkedAsk
<1>9. ASSUME NEW e \in Devices PROVE Owed(e)'
  <2>1. CASE e = d
    BY <1>3, <2>1 DEF Owed
  <2>2. CASE e # d
    BY <1>1, <1>3, <1>4, <1>5, <2>2, OwedKept, NothingAsked DEF RelayInv
  <2>3. QED
    BY <2>1, <2>2
<1>10. QED
  BY <1>7, <1>8, <1>9 DEF RelayInv

LEMMA CutStep == ASSUME RelayInv, NEW d \in Devices, Cut(d) PROVE RelayInv'
<1>1. RelayTypes /\ page \in [Devices -> Panel] /\ toPage \in Pages /\ used \in [presses : Nat, moves : Nat]
      /\ toServer \in [Devices -> Requested \cup {NoRequest}]
  BY DEF RelayInv, RelayTypes
<1>2. /\ linked' = linked \ {d} /\ asked' = {request \in asked : request.for # d}
      /\ page' = [page EXCEPT ![d].cut = (page[d].pending # 0)]
      /\ toPage' = [toPage EXCEPT ![d] = <<>>] /\ toServer' = [toServer EXCEPT ![d] = NoRequest]
  BY DEF Cut
<1>3. page' \in [Devices -> Panel] /\ page'[d].pending = page[d].pending
      /\ page'[d].cut = (page[d].pending # 0) /\ \A e \in Devices \ {d} : page'[e] = page[e]
  BY <1>1, <1>2 DEF Panel
<1>4. toPage' \in Pages /\ \A e \in Devices \ {d} : toPage'[e] = toPage[e]
  BY <1>1, <1>2 DEF Pages
<1>5. toServer' \in [Devices -> Requested \cup {NoRequest}] /\ toServer'[d] = NoRequest
      /\ \A e \in Devices \ {d} : toServer'[e] = toServer[e]
  BY <1>1, <1>2
<1>6. RelayTypes'
  <2>1. used' \in [presses : Nat, moves : Nat]
    BY <1>1 DEF Cut, Moves
  <2>2. QED
    BY <1>1, <1>2, <1>3, <1>4, <1>5, <2>1 DEF RelayTypes, Cut, responderVars
<1>7. OnlyLinkedAsk'
  BY <1>2, <1>5 DEF RelayInv, OnlyLinkedAsk
<1>8. ASSUME NEW e \in Devices PROVE Owed(e)'
  <2>1. CASE e = d
    BY <1>3, <2>1 DEF Owed
  <2>2. CASE e # d
    <3>1. Owed(e)
      BY DEF RelayInv
    <3>2. [id |-> page[e].pending, for |-> e] \in asked => [id |-> page[e].pending, for |-> e] \in asked'
      BY <1>2, <2>2
    <3>3. QED
      BY <1>3, <1>4, <1>5, <2>2, <3>1, <3>2 DEF Owed, AnswerComes
  <2>3. QED
    BY <2>1, <2>2
<1>9. QED
  BY <1>6, <1>7, <1>8 DEF RelayInv

LEMMA LapseStep == RelayInv /\ Lapse => RelayInv'
<1> SUFFICES ASSUME RelayInv, Lapse PROVE RelayInv'
  OBVIOUS
<1>1. RelayTypes /\ toPage \in Pages /\ botIn \in BOOLEAN /\ rosters \in Seq({"with", "without"})
  BY DEF RelayInv, RelayTypes
<1>2. Grown(toPage, toPage')
  BY <1>1, SnapshotGrows DEF Lapse
<1>3. OnlyLinkedAsk' /\ \A d \in Devices : Owed(d)'
  BY <1>2, RoomSteps, NothingAsked DEF Lapse
<1>4. rosters' \in Seq({"with", "without"})
  BY <1>1 DEF Lapse, Told, Roster
<1>5. RelayTypes'
  BY <1>1, <1>2, <1>4 DEF RelayTypes, Lapse, Grown
<1>6. QED
  BY <1>3, <1>5 DEF RelayInv

LEMMA RelayStarts == RelayInit => RelayInv
<1> SUFFICES ASSUME RelayInit PROVE RelayInv
  OBVIOUS
<1>1. RelayTypes
  <2>1. <<>> \in Seq(Nat) /\ <<>> \in Seq(Messages) /\ <<>> \in Seq(Requested) /\ <<>> \in Seq({"with", "without"})
    OBVIOUS
  <2>2. FreshPage \in Panel
    BY <2>1 DEF FreshPage, Panel, NoQueue
  <2>3. page \in [Devices -> Panel] /\ toPage \in Pages /\ toServer \in [Devices -> Requested \cup {NoRequest}]
    BY <2>1, <2>2 DEF RelayInit, Pages
  <2>4. NoSet \in [on : BOOLEAN, roster : {"unread", "with", "without"}, queue : Seq(Nat)]
    BY <2>1 DEF NoSet, NoQueue
  <2>5. QED
    BY <2>1, <2>3, <2>4 DEF RelayInit, RelayTypes
<1>2. \A d \in Devices : page[d].pending = 0 /\ toServer[d] = NoRequest
  BY DEF RelayInit, FreshPage
<1>3. QED
  BY <1>1, <1>2 DEF RelayInit, RelayInv, OnlyLinkedAsk, Owed

LEMMA RelayGoesOn == RelayInv /\ [RelayNext]_relayVars => RelayInv'
<1> SUFFICES ASSUME RelayInv, [RelayNext]_relayVars PROVE RelayInv'
  OBVIOUS
<1>1. CASE UNCHANGED relayVars
  BY <1>1 DEF relayVars, serverVars, responderVars, RelayInv, RelayTypes, OnlyLinkedAsk, Owed, AnswerComes
<1>2. CASE RelayNext
  BY <1>2, PressStep, HearsStep, ForwardStep, PlaceSteps, UnmountedSteps, CutStep, LapseStep,
     TimeoutStep, SearchedStep, ReadSnapshotStep, BotServesStep, QuietBotSteps DEF RelayNext
<1>3. QED
  BY <1>1, <1>2

(* A member who pressed a button of the music panel waits for an answer only *)
(* while one is being made or on its way: the search of musicCommands.ts and the *)
(* requests in the bot's chain, for any number of Devices and presses. *)
THEOREM PressesGetAnswers == RelaySpec => []PressesAreAnswered
<1>1. RelayInv => PressesAreAnswered
  <2> SUFFICES ASSUME RelayInv, NEW d \in Devices, page[d].pending # 0 /\ ~page[d].cut
               PROVE  \/ toServer[d] # NoRequest
                      \/ \E i \in DOMAIN toPage[d] : toPage[d][i].kind \in {"answer", "forceLeave"}
                      \/ \E request \in asked : request.for = d
    BY DEF PressesAreAnswered
  <2>1. DOMAIN toPage[d] = 1..Len(toPage[d])
    BY DEF RelayInv, RelayTypes, Pages
  <2>2. QED
    BY <2>1 DEF RelayInv, Owed, AnswerComes, Settles
<1>2. QED
  BY <1>1, RelayStarts, RelayGoesOn, PTL DEF RelaySpec

------------------------
(* The Track at the head of a Queue: what its fetch heard, and what became of it. *)

BrokeOf(f, progs) ==
    \/ \E c \in Programs : progs[c] \in {"bad", "missing"}
    \/ f.timedOut \/ f.unreadable \/ f.hasty

Fetches ==
    [read : Nat, midPage : BOOLEAN, gaveUp : BOOLEAN, code : [Programs -> {"none", "ok", "bad"}],
     exits : SUBSET Programs, closes : SUBSET Programs, ended : BOOLEAN, cancelled : BOOLEAN,
     spawnFailed : BOOLEAN, timedOut : BOOLEAN, unreadable : BOOLEAN, done : BOOLEAN,
     reported : Failures \cup {"none"}, hasty : BOOLEAN]

AudioTypes ==
    /\ program \in [Programs -> {"running", "ok", "bad", "killed", "missing"}]
    /\ piped \in [extracted : Nat, encoded : Nat]
    /\ fetch \in Fetches
    /\ player \in [sent : Nat, playing : BOOLEAN, ended : BOOLEAN]
    /\ reports \in Seq(Failures \cup {"ended"})

(* What was heard is what happened. *)
HeardRight(f, progs, pi) ==
    /\ f.read <= pi.encoded
    /\ f.midPage /\ ~f.unreadable => f.read < pi.encoded
    /\ f.unreadable => f.midPage
    /\ f.gaveUp => progs["extractor"] = "bad"
    /\ f.closes \subseteq f.exits
    /\ \A c \in Programs :
          /\ f.code[c] = "bad" => progs[c] = "bad"
          /\ c \in f.exits => /\ progs[c] # "running"
                              /\ progs[c] = "bad" => f.code[c] = "bad"
                              /\ progs[c] = "missing" => f.spawnFailed
    /\ f.spawnFailed => \E c \in Programs : progs[c] = "missing"
    /\ "encoder" \in f.closes => f.ended \/ progs["encoder"] = "missing"
    /\ "extractor" \in f.closes /\ progs["extractor"] = "bad" => f.gaveUp

(* A fetch that is over either broke or brought all of the audio. *)
AllHeard(f, progs, pi) == f.read = pi.encoded /\ f.read > 0 /\ progs["encoder"] # "running"

OverRight(f, progs, pi) ==
    /\ f.ended \/ "encoder" \in f.exits => f.done
    /\ \A c \in Programs : progs[c] = "killed" => f.done
    /\ f.done /\ ~f.cancelled => BrokeOf(f, progs) \/ AllHeard(f, progs, pi)
    /\ f.done /\ ~f.cancelled /\ f.read = 0 => f.reported # "none"
    /\ f.closes = Programs /\ ~f.cancelled => f.reported # "none" \/ ClassifyFetchFailure(f) = "none"

PipesRight(progs, pi) ==
    /\ progs["encoder"] = "ok" => pi.encoded > 0
    /\ progs["encoder"] = "missing" => pi.encoded = 0

ReportsRight ==
    /\ fetch.reported # "none" => reports # <<>>
    /\ \A i \in 1..Len(reports) : /\ reports[i] \in Failures => BrokeOf(fetch, program)
                                  /\ reports[i] = "failedSource" => program["extractor"] = "bad"
    /\ reports # <<>> /\ reports[1] = "ended" /\ passed = NotYet => player.sent > 0

PassedRight ==
    /\ passed = NotYet <=> ~fetch.cancelled
    /\ passed.how = "ended" => passed.heard
    /\ passed.how \in Failures => passed.broke
    /\ passed.how = "failedSource" => passed.refused
    /\ passed # NotYet => fetch.reported = passed.reported

AudioInv ==
    /\ AudioTypes /\ HeardRight(fetch, program, piped) /\ OverRight(fetch, program, piped)
    /\ PipesRight(program, piped)
    /\ ReportsRight /\ PassedRight

LEMMA FetchKeys ==
    ASSUME NEW f \in Fetches
    PROVE  /\ f.read \in Nat /\ f.midPage \in BOOLEAN /\ f.gaveUp \in BOOLEAN
           /\ f.code \in [Programs -> {"none", "ok", "bad"}]
           /\ f.exits \subseteq Programs /\ f.closes \subseteq Programs
           /\ f.ended \in BOOLEAN /\ f.cancelled \in BOOLEAN /\ f.spawnFailed \in BOOLEAN
           /\ f.timedOut \in BOOLEAN /\ f.unreadable \in BOOLEAN /\ f.done \in BOOLEAN
           /\ f.reported \in Failures \cup {"none"} /\ f.hasty \in BOOLEAN
  BY DEF Fetches

(* What a failure says: that something broke, and that the source refused. *)
LEMMA FailuresExplain ==
    ASSUME AudioTypes, NEW f \in Fetches, HeardRight(f, program, piped),
           f.cancelled \/ BrokeOf(f, program) \/ AllHeard(f, program, piped)
    PROVE  /\ ClassifyFetchFailure(f) \in Failures \cup {"none"}
           /\ ClassifyFetchFailure(f) \in Failures => BrokeOf(f, program)
           /\ ClassifyFetchFailure(f) = "failedSource" => program["extractor"] = "bad"
           /\ f.read = 0 /\ ~f.cancelled => ClassifyFetchFailure(f) # "none"
           /\ f.cancelled => ClassifyFetchFailure(f) = "none"
<1>1. "extractor" \in Programs /\ "encoder" \in Programs
  BY DEF Programs
<1>2. ClassifyFetchFailure(f) \in Failures \cup {"none"}
  BY DEF ClassifyFetchFailure, Failures
<1>3. f.cancelled => ClassifyFetchFailure(f) = "none"
  BY DEF ClassifyFetchFailure
<1>4. f.read = 0 /\ ~f.cancelled => ClassifyFetchFailure(f) # "none"
  BY DEF ClassifyFetchFailure
<1>5. ClassifyFetchFailure(f) = "failedSource" => program["extractor"] = "bad"
  BY <1>1 DEF ClassifyFetchFailure, FailedExit, HeardRight
<1>6. ClassifyFetchFailure(f) \in Failures => BrokeOf(f, program)
  BY <1>3, <1>1, FetchKeys DEF Failures, BrokeOf, HeardRight, AllHeard, ClassifyFetchFailure, FailedExit
<1>7. QED
  BY <1>2, <1>3, <1>4, <1>5, <1>6

(* The programs a fetch that is over leaves behind: the ones that ran are killed. *)
Leaves(progs, after) ==
    /\ after \in [Programs -> {"running", "ok", "bad", "killed", "missing"}]
    /\ \A c \in Programs : after[c] = progs[c] \/ (progs[c] = "running" /\ after[c] = "killed")

LEMMA ReportKeeps ==
    ASSUME AudioInv, NEW f \in Fetches, HeardRight(f, program, piped), f.done, f.reported = fetch.reported,
           BrokeOf(fetch, program) => BrokeOf(f, program),
           f.cancelled \/ BrokeOf(f, program) \/ AllHeard(f, program, piped),
           ReportFailure(f), Leaves(program, program'), UNCHANGED <<piped, player>>,
           passed' = passed \/ passed' # NotYet
    PROVE  /\ fetch' \in Fetches /\ fetch'.cancelled = f.cancelled
           /\ f.cancelled => fetch'.reported = fetch.reported
           /\ AudioTypes' /\ HeardRight(fetch', program', piped') /\ OverRight(fetch', program', piped')
           /\ PipesRight(program', piped') /\ ReportsRight'
<1> DEFINE failure == IF f.reported = "none" THEN ClassifyFetchFailure(f) ELSE "none"
<1>1. "extractor" \in Programs /\ "encoder" \in Programs
  BY DEF Programs
<1>2. AudioTypes /\ HeardRight(fetch, program, piped) /\ OverRight(fetch, program, piped) /\ PipesRight(program, piped) /\ ReportsRight
  BY DEF AudioInv
<1>3. /\ fetch' = IF failure = "none" THEN f ELSE [f EXCEPT !.reported = failure]
      /\ reports' = IF failure = "none" THEN reports ELSE Append(reports, failure)
  BY DEF ReportFailure
<1>4. failure \in Failures \cup {"none"} /\ (failure \in Failures => BrokeOf(f, program))
      /\ (failure = "failedSource" => program["extractor"] = "bad")
      /\ (f.cancelled => failure = "none")
  BY <1>2, FailuresExplain
<1> HIDE DEF failure
<1>5. /\ fetch' \in Fetches
      /\ fetch'.reported = IF failure = "none" THEN f.reported ELSE failure
      /\ fetch'.read = f.read /\ fetch'.midPage = f.midPage /\ fetch'.gaveUp = f.gaveUp
      /\ fetch'.code = f.code /\ fetch'.exits = f.exits /\ fetch'.closes = f.closes
      /\ fetch'.ended = f.ended /\ fetch'.cancelled = f.cancelled /\ fetch'.spawnFailed = f.spawnFailed
      /\ fetch'.timedOut = f.timedOut /\ fetch'.unreadable = f.unreadable /\ fetch'.done = f.done
      /\ fetch'.hasty = f.hasty
  BY <1>3, <1>4 DEF Fetches
<1>6. reports' \in Seq(Failures \cup {"ended"})
  BY <1>2, <1>3, <1>4 DEF AudioTypes
<1>7. AudioTypes'
  BY <1>2, <1>5, <1>6 DEF AudioTypes, Leaves
<1>8. ClassifyFetchFailure(fetch') = ClassifyFetchFailure(f)
  BY <1>5 DEF ClassifyFetchFailure
<1>9. BrokeOf(f, program) => BrokeOf(fetch', program')
  BY <1>5 DEF BrokeOf, Leaves
<1>10. HeardRight(fetch', program', piped')
  BY <1>1, <1>5 DEF Leaves, HeardRight
<1>11. OverRight(fetch', program', piped')
  BY <1>1, <1>5, <1>9, <1>2, FailuresExplain, <1>8 DEF AllHeard, Leaves, failure, OverRight, BrokeOf,
     ClassifyFetchFailure
<1>12. PipesRight(program', piped')
  BY <1>1, <1>2 DEF PipesRight, Leaves
<1>13. ReportsRight'
  <2>1. CASE failure = "none"
    BY <1>3, <1>5, <2>1, <1>1, <1>2, <1>9 DEF ReportsRight, Leaves
  <2>2. CASE failure # "none"
    <3>1. reports' = Append(reports, failure) /\ reports \in Seq(Failures \cup {"ended"}) /\ failure \in Failures
      BY <1>2, <1>3, <1>4, <2>2 DEF AudioTypes
    <3>2. /\ Len(reports') = Len(reports) + 1 /\ Len(reports) \in Nat /\ reports' # <<>>
          /\ \A i \in 1..Len(reports) : reports'[i] = reports[i]
          /\ reports'[Len(reports) + 1] = failure
      BY <3>1
    <3>3. ASSUME NEW i \in 1..Len(reports')
          PROVE  /\ reports'[i] \in Failures => BrokeOf(fetch', program')
                 /\ reports'[i] = "failedSource" => program'["extractor"] = "bad"
      BY <1>1, <1>4, <1>9, <3>1, <3>2, <1>2 DEF Leaves, ReportsRight
    <3>4. reports'[1] = "ended" /\ passed' = NotYet => player'.sent > 0
      BY <3>1, <3>2, <1>2 DEF Failures, ReportsRight
    <3>5. QED
      BY <3>2, <3>3, <3>4 DEF ReportsRight, BrokeOf
  <2>3. QED
    BY <2>1, <2>2
<1>14. QED
  BY <1>4, <1>5, <1>7, <1>10, <1>11, <1>12, <1>13

(* finish: of a fetch that is over already, nothing more becomes. *)
LEMMA FinishKeeps ==
    ASSUME AudioInv, NEW f \in Fetches, HeardRight(f, program, piped), f.reported = fetch.reported,
           BrokeOf(fetch, program) => BrokeOf(f, program),
           f.done => OverRight(f, program, piped),
           ~f.done => f.cancelled \/ BrokeOf(f, program) \/ AllHeard(f, program, piped),
           Finish(f), UNCHANGED <<piped, player>>, passed' = passed \/ passed' # NotYet
    PROVE  /\ fetch' \in Fetches /\ fetch'.cancelled = f.cancelled
           /\ f.cancelled => fetch'.reported = fetch.reported
           /\ AudioTypes' /\ HeardRight(fetch', program', piped') /\ OverRight(fetch', program', piped')
           /\ PipesRight(program', piped') /\ ReportsRight'
<1>1. AudioTypes /\ PipesRight(program, piped) /\ ReportsRight
  BY DEF AudioInv
<1>2. CASE f.done
  BY <1>2, <1>1 DEF Finish, AudioTypes, ReportsRight
<1>3. CASE ~f.done
  <2> DEFINE g == [f EXCEPT !.done = TRUE]
  <2>1. /\ ReportFailure(g)
        /\ program' = [c \in Programs |-> IF program[c] = "running" THEN "killed" ELSE program[c]]
    BY <1>3 DEF Finish
  <2>2. /\ g \in Fetches /\ g.done
        /\ g.read = f.read /\ g.midPage = f.midPage /\ g.gaveUp = f.gaveUp
        /\ g.code = f.code /\ g.exits = f.exits /\ g.closes = f.closes
        /\ g.ended = f.ended /\ g.cancelled = f.cancelled /\ g.spawnFailed = f.spawnFailed
        /\ g.timedOut = f.timedOut /\ g.unreadable = f.unreadable /\ g.reported = f.reported
        /\ g.hasty = f.hasty
    BY DEF Fetches
  <2> HIDE DEF g
  <2>3. HeardRight(g, program, piped)
    BY <2>2 DEF HeardRight
  <2>4. (BrokeOf(f, program) => BrokeOf(g, program)) /\ (AllHeard(f, program, piped) => AllHeard(g, program, piped))
    BY <2>2 DEF BrokeOf, AllHeard
  <2>5. Leaves(program, program')
    BY <1>1, <2>1 DEF AudioTypes, Leaves
  <2>6. QED
    BY <1>3, <2>1, <2>2, <2>3, <2>4, <2>5, ReportKeeps
<1>4. QED
  BY <1>2, <1>3

(* Nothing is said of the fetch of a Track that was passed. *)
LEMMA PassedStays ==
    ASSUME PassedRight, fetch'.cancelled = fetch.cancelled, UNCHANGED passed,
           fetch.cancelled => fetch'.reported = fetch.reported
    PROVE  PassedRight'
  BY DEF PassedRight

LEMMA FinishSteps ==
    ASSUME AudioInv, NEW f \in Fetches, HeardRight(f, program, piped), f.reported = fetch.reported,
           f.cancelled = fetch.cancelled,
           BrokeOf(fetch, program) => BrokeOf(f, program),
           f.done => OverRight(f, program, piped),
           ~f.done => BrokeOf(f, program) \/ AllHeard(f, program, piped),
           Finish(f), Hearing
    PROVE  AudioInv'
BY FinishKeeps, PassedStays DEF Hearing, AudioInv

(* A step that only hears. *)
LEMMA QuietSteps ==
    ASSUME AudioInv, NEW f \in Fetches, HeardRight(f, program, piped), f.reported = fetch.reported,
           f.cancelled = fetch.cancelled,
           BrokeOf(fetch, program) => BrokeOf(f, program), OverRight(f, program, piped),
           fetch' = f, UNCHANGED <<reports, program>>, Hearing
    PROVE  AudioInv'
BY PassedStays DEF Hearing, AudioInv, AudioTypes, ReportsRight

------------------------
(* The programs. *)
LEMMA PipeSteps == AudioInv /\ (ExtractorWrites \/ EncoderWrites) => AudioInv'
<1> SUFFICES ASSUME AudioInv, ExtractorWrites \/ EncoderWrites PROVE AudioInv'
  OBVIOUS
<1>1. /\ AudioTypes /\ HeardRight(fetch, program, piped) /\ OverRight(fetch, program, piped)
      /\ PipesRight(program, piped) /\ ReportsRight /\ PassedRight
  BY DEF AudioInv
<1>2. UNCHANGED <<program, fetch, player, reports, passed>> /\ program["encoder"] = "running"
  BY DEF ExtractorWrites, EncoderWrites, Programming
<1>3. piped' \in [extracted : Nat, encoded : Nat] /\ piped.encoded \in Nat /\ piped'.encoded \in {piped.encoded, piped.encoded + 1}
  BY <1>1 DEF ExtractorWrites, EncoderWrites, AudioTypes
<1>4. fetch.read \in Nat
  BY <1>1, FetchKeys DEF AudioTypes
<1>5. AudioTypes' /\ ReportsRight' /\ PassedRight'
  BY <1>1, <1>2, <1>3 DEF AudioTypes, ReportsRight, PassedRight
<1>6. HeardRight(fetch', program', piped')
  BY <1>1, <1>2, <1>3, <1>4 DEF HeardRight
<1>7. OverRight(fetch', program', piped') /\ PipesRight(program', piped')
  BY <1>1, <1>2 DEF OverRight, AllHeard, PipesRight
<1>8. QED
  BY <1>5, <1>6, <1>7 DEF AudioInv

(* A program ends, or was never there. *)
LEMMA TurnSteps ==
    ASSUME AudioInv, NEW c \in Programs, NEW state \in {"ok", "bad", "missing"}, Turns(c, state),
           UNCHANGED piped, Programming,
           state = "missing" => piped = NewPiped /\ fetch = NewFetch,
           c = "encoder" /\ state = "ok" => piped.encoded > 0
    PROVE  AudioInv'
<1>1. /\ AudioTypes /\ HeardRight(fetch, program, piped) /\ OverRight(fetch, program, piped)
      /\ PipesRight(program, piped) /\ ReportsRight /\ PassedRight
  BY DEF AudioInv
<1>2. UNCHANGED <<piped, fetch, player, reports, passed>> /\ program[c] = "running"
  BY DEF Programming, Turns
<1>3. /\ program' \in [Programs -> {"running", "ok", "bad", "killed", "missing"}]
      /\ program'[c] = state /\ \A d \in Programs : d # c => program'[d] = program[d]
  BY <1>1 DEF Turns, AudioTypes
<1>4. "extractor" \in Programs /\ "encoder" \in Programs
  BY DEF Programs
<1>5. \A d \in Programs : program[d] # "running" => program'[d] = program[d]
  BY <1>2, <1>3
<1>6. BrokeOf(fetch, program) => BrokeOf(fetch', program')
  BY <1>2, <1>5 DEF BrokeOf
<1>7. c \notin fetch.exits /\ c \notin fetch.closes /\ fetch.closes # Programs
  BY <1>1, <1>2 DEF HeardRight
<1>8. HeardRight(fetch', program', piped')
  <2>1. \A d \in Programs :
          /\ fetch.code[d] = "bad" => program'[d] = "bad"
          /\ d \in fetch.exits => /\ program'[d] # "running"
                                  /\ program'[d] = "bad" => fetch.code[d] = "bad"
                                  /\ program'[d] = "missing" => fetch.spawnFailed
    BY <1>1, <1>3, <1>5, <1>7 DEF HeardRight
  <2>2. fetch.spawnFailed => \E d \in Programs : program'[d] = "missing"
    BY <1>1, <1>5 DEF HeardRight
  <2>3. fetch.gaveUp => program'["extractor"] = "bad"
    BY <1>1, <1>4, <1>5 DEF HeardRight
  <2>4. "encoder" \in fetch.closes => fetch.ended \/ program'["encoder"] = "missing"
    BY <1>1, <1>4, <1>5 DEF HeardRight
  <2>5. "extractor" \in fetch.closes /\ program'["extractor"] = "bad" => fetch.gaveUp
    BY <1>1, <1>3, <1>4, <1>7 DEF HeardRight
  <2>6. QED
    BY <1>1, <1>2, <2>1, <2>2, <2>3, <2>4, <2>5 DEF HeardRight
<1>9. AllHeard(fetch, program, piped) => AllHeard(fetch', program', piped')
  BY <1>2, <1>4, <1>5 DEF AllHeard
<1>10. OverRight(fetch', program', piped')
  BY <1>2, <1>3, <1>1, <1>6, <1>7, <1>9 DEF OverRight
<1>11. PipesRight(program', piped')
  BY <1>1, <1>2, <1>3, <1>4 DEF PipesRight, NewPiped
<1>12. ReportsRight'
  BY <1>1, <1>2, <1>4, <1>5, <1>6 DEF ReportsRight
<1>13. AudioTypes' /\ PassedRight'
  BY <1>1, <1>2, <1>3 DEF AudioTypes, PassedRight
<1>14. QED
  BY <1>8, <1>10, <1>11, <1>12, <1>13 DEF AudioInv

LEMMA EndingSteps == AudioInv /\ (ExtractorEnds \/ EncoderEnds \/ NotFound) => AudioInv'
BY TurnSteps DEF Programs, ExtractorEnds, EncoderEnds, NotFound

------------------------
(* What the bot hears. *)
LEMMA EncoderDataStep == AudioInv /\ EncoderData => AudioInv'
<1> SUFFICES ASSUME AudioInv, EncoderData PROVE AudioInv'
  OBVIOUS
<1>1. /\ AudioTypes /\ HeardRight(fetch, program, piped) /\ OverRight(fetch, program, piped)
      /\ PipesRight(program, piped)
  BY DEF AudioInv
<1>2. fetch \in Fetches /\ piped.encoded \in Nat /\ fetch.read \in Nat /\ "encoder" \in Programs
  BY <1>1, FetchKeys DEF AudioTypes, Programs
<1>3. Hearing /\ ~fetch.ended /\ fetch.read < piped.encoded
  BY DEF EncoderData
<1>4. fetch.closes # Programs
  BY <1>1, <1>2, <1>3 DEF HeardRight, PipesRight
<1>5. fetch.done /\ ~fetch.cancelled => BrokeOf(fetch, program)
  BY <1>1, <1>2, <1>3 DEF OverRight, AllHeard
<1>6. ASSUME NEW f \in Fetches, f = [fetch EXCEPT !.read = @ + 1, !.midPage = FALSE] \/ f = [fetch EXCEPT !.midPage = TRUE],
             ~fetch.unreadable, fetch' = f, UNCHANGED <<reports, program>>
      PROVE  AudioInv'
  <2>1. /\ f.gaveUp = fetch.gaveUp /\ f.code = fetch.code /\ f.exits = fetch.exits /\ f.closes = fetch.closes
        /\ f.ended = fetch.ended /\ f.cancelled = fetch.cancelled /\ f.spawnFailed = fetch.spawnFailed
        /\ f.timedOut = fetch.timedOut /\ f.unreadable = fetch.unreadable /\ f.reported = fetch.reported
        /\ f.hasty = fetch.hasty /\ f.done = fetch.done
        /\ (f.read = fetch.read + 1 /\ ~f.midPage) \/ (f.read = fetch.read /\ f.midPage)
    BY <1>2, <1>6 DEF Fetches
  <2>2. HeardRight(f, program, piped)
    BY <1>1, <1>2, <1>3, <1>6, <2>1 DEF HeardRight
  <2>3. BrokeOf(fetch, program) <=> BrokeOf(f, program)
    BY <2>1 DEF BrokeOf
  <2>4. f.read = 0 => fetch.read = 0
    BY <1>2, <2>1
  <2>5. OverRight(f, program, piped)
    BY <1>1, <1>4, <1>5, <2>1, <2>3, <2>4 DEF OverRight
  <2>6. QED
    BY <1>3, <1>6, <2>1, <2>2, <2>3, <2>5, QuietSteps
<1>7. CASE /\ fetch' = IF fetch.midPage THEN [fetch EXCEPT !.read = @ + 1, !.midPage = FALSE]
                      ELSE [fetch EXCEPT !.midPage = TRUE]
           /\ UNCHANGED <<reports, program>>
  <2>1. fetch.read + 1 \in Nat
    BY <1>2
  <2>2. ~fetch.unreadable
    BY DEF EncoderData
  <2>3. [fetch EXCEPT !.read = @ + 1, !.midPage = FALSE] \in Fetches
    BY <1>2, <2>1 DEF Fetches
  <2>4. [fetch EXCEPT !.midPage = TRUE] \in Fetches
    BY <1>2 DEF Fetches
  <2>5. QED
    BY <1>6, <1>7, <2>2, <2>3, <2>4
<1>8. CASE fetch.read = 0 /\ Finish([fetch EXCEPT !.unreadable = TRUE, !.midPage = TRUE])
  <2> DEFINE f == [fetch EXCEPT !.unreadable = TRUE, !.midPage = TRUE]
  <2>1. /\ f \in Fetches
        /\ f.gaveUp = fetch.gaveUp /\ f.code = fetch.code /\ f.exits = fetch.exits /\ f.closes = fetch.closes
        /\ f.ended = fetch.ended /\ f.cancelled = fetch.cancelled /\ f.spawnFailed = fetch.spawnFailed
        /\ f.timedOut = fetch.timedOut /\ f.unreadable /\ f.reported = fetch.reported /\ f.midPage
        /\ f.hasty = fetch.hasty /\ f.done = fetch.done /\ f.read = fetch.read
    BY <1>2 DEF Fetches
  <2>2. Finish(f)
    BY <1>8
  <2> HIDE DEF f
  <2>3. HeardRight(f, program, piped)
    BY <1>1, <2>1 DEF HeardRight
  <2>4. BrokeOf(f, program)
    BY <2>1 DEF BrokeOf
  <2>5. f.done => OverRight(f, program, piped)
    BY <1>1, <1>4, <2>1, <2>4 DEF OverRight
  <2>6. QED
    BY <1>3, <2>1, <2>2, <2>3, <2>4, <2>5, FinishSteps
<1>9. QED
  BY <1>7, <1>8 DEF EncoderData

(* The audio that was read is all there is, or something broke. *)
LEMMA DrainedOrBroke ==
    ASSUME AudioInv, program["encoder"] # "running", ~fetch.done, Drained
    PROVE  BrokeOf(fetch, program) \/ AllHeard(fetch, program, piped)
BY DEF AudioInv, Programs, AudioTypes, BrokeOf, Drained, AllHeard, PipesRight, OverRight

LEMMA EncoderEndStep == AudioInv /\ EncoderEnd => AudioInv'
<1> SUFFICES ASSUME AudioInv, EncoderEnd PROVE AudioInv'
  OBVIOUS
<1>1. /\ AudioTypes /\ HeardRight(fetch, program, piped) /\ OverRight(fetch, program, piped)
  BY DEF AudioInv
<1>2. fetch \in Fetches
  BY <1>1 DEF AudioTypes
<1> DEFINE f == [fetch EXCEPT !.ended = TRUE]
<1>3. /\ f \in Fetches /\ f.midPage = fetch.midPage
      /\ f.gaveUp = fetch.gaveUp /\ f.code = fetch.code /\ f.exits = fetch.exits /\ f.closes = fetch.closes
      /\ f.ended /\ f.cancelled = fetch.cancelled /\ f.spawnFailed = fetch.spawnFailed
      /\ f.timedOut = fetch.timedOut /\ f.unreadable = fetch.unreadable /\ f.reported = fetch.reported
      /\ f.hasty = fetch.hasty /\ f.done = fetch.done /\ f.read = fetch.read
  BY <1>2 DEF Fetches
<1>4. Hearing /\ program["encoder"] # "running" /\ Drained /\ Finish(f)
  BY DEF EncoderEnd
<1> HIDE DEF f
<1>5. HeardRight(f, program, piped)
  BY <1>1, <1>3 DEF HeardRight
<1>6. (BrokeOf(fetch, program) <=> BrokeOf(f, program)) /\ (AllHeard(fetch, program, piped) <=> AllHeard(f, program, piped))
  BY <1>3 DEF BrokeOf, AllHeard
<1>7. ClassifyFetchFailure(f) = ClassifyFetchFailure(fetch)
  BY <1>3 DEF ClassifyFetchFailure
<1>8. f.done => OverRight(f, program, piped)
  BY <1>1, <1>3, <1>6, <1>7 DEF OverRight
<1>9. ~f.done => BrokeOf(f, program) \/ AllHeard(f, program, piped)
  BY <1>3, <1>4, <1>6, DrainedOrBroke
<1>10. QED
  BY <1>3, <1>4, <1>5, <1>6, <1>8, <1>9, FinishSteps

LEMMA StderrStep == AudioInv /\ ExtractorStderr => AudioInv'
<1> SUFFICES ASSUME AudioInv, ExtractorStderr PROVE AudioInv'
  OBVIOUS
<1>1. /\ AudioTypes /\ HeardRight(fetch, program, piped) /\ OverRight(fetch, program, piped)
  BY DEF AudioInv
<1>2. fetch \in Fetches /\ "extractor" \in Programs
  BY <1>1 DEF AudioTypes, Programs
<1> DEFINE f == [fetch EXCEPT !.gaveUp = TRUE]
<1>3. /\ f \in Fetches /\ f.midPage = fetch.midPage
      /\ f.gaveUp /\ f.code = fetch.code /\ f.exits = fetch.exits /\ f.closes = fetch.closes
      /\ f.ended = fetch.ended /\ f.cancelled = fetch.cancelled /\ f.spawnFailed = fetch.spawnFailed
      /\ f.timedOut = fetch.timedOut /\ f.unreadable = fetch.unreadable /\ f.reported = fetch.reported
      /\ f.hasty = fetch.hasty /\ f.done = fetch.done /\ f.read = fetch.read
  BY <1>2 DEF Fetches
<1>4. /\ Hearing /\ program["extractor"] = "bad" /\ ~fetch.gaveUp
      /\ fetch' = f /\ UNCHANGED <<reports, program>>
  BY DEF ExtractorStderr
<1> HIDE DEF f
<1>5. HeardRight(f, program, piped)
  BY <1>1, <1>3, <1>4 DEF HeardRight
<1>6. (BrokeOf(fetch, program) <=> BrokeOf(f, program)) /\ (AllHeard(fetch, program, piped) <=> AllHeard(f, program, piped))
  BY <1>3 DEF BrokeOf, AllHeard
<1>7. f.closes # Programs
  BY <1>1, <1>2, <1>3, <1>4 DEF HeardRight
<1>8. OverRight(f, program, piped)
  BY <1>1, <1>3, <1>6, <1>7 DEF OverRight
<1>9. QED
  BY <1>3, <1>4, <1>5, <1>6, <1>8, QuietSteps

LEMMA FetchTimeoutStep == AudioInv /\ FetchTimeout => AudioInv'
<1> SUFFICES ASSUME AudioInv, FetchTimeout PROVE AudioInv'
  OBVIOUS
<1>1. AudioTypes /\ HeardRight(fetch, program, piped)
  BY DEF AudioInv
<1>2. fetch \in Fetches
  BY <1>1 DEF AudioTypes
<1> DEFINE f == [fetch EXCEPT !.timedOut = TRUE]
<1>3. /\ f \in Fetches /\ f.midPage = fetch.midPage
      /\ f.gaveUp = fetch.gaveUp /\ f.code = fetch.code /\ f.exits = fetch.exits /\ f.closes = fetch.closes
      /\ f.ended = fetch.ended /\ f.cancelled = fetch.cancelled /\ f.spawnFailed = fetch.spawnFailed
      /\ f.timedOut /\ f.unreadable = fetch.unreadable /\ f.reported = fetch.reported
      /\ f.hasty = fetch.hasty /\ f.done = fetch.done /\ f.read = fetch.read
  BY <1>2 DEF Fetches
<1>4. Hearing /\ ~fetch.done /\ Finish(f)
  BY DEF FetchTimeout
<1> HIDE DEF f
<1>5. HeardRight(f, program, piped) /\ BrokeOf(f, program)
  BY <1>1, <1>3 DEF HeardRight, BrokeOf
<1>6. QED
  BY <1>3, <1>4, <1>5, FinishSteps

LEMMA ExitStep == ASSUME AudioInv, NEW c \in Programs, Exit(c) PROVE AudioInv'
<1>1. /\ AudioTypes /\ HeardRight(fetch, program, piped) /\ OverRight(fetch, program, piped)
  BY DEF AudioInv
<1>2. fetch \in Fetches /\ c \notin fetch.exits /\ program[c] \in {"ok", "bad", "killed"} /\ Hearing
  BY <1>1 DEF AudioTypes, Exit, Gone
<1> DEFINE late == fetch.hasty \/ (~fetch.done /\ ~Drained)
           code == IF program[c] = "killed" THEN "none" ELSE program[c]
           f == [fetch EXCEPT !.exits = @ \cup {c}, !.code[c] = code]
           g == [f EXCEPT !.hasty = @ \/ (~f.done /\ ~Drained)]
<1>3. /\ f \in Fetches /\ f.midPage = fetch.midPage
      /\ f.gaveUp = fetch.gaveUp /\ f.code = [fetch.code EXCEPT ![c] = code]
      /\ f.exits = fetch.exits \cup {c} /\ f.closes = fetch.closes
      /\ f.ended = fetch.ended /\ f.cancelled = fetch.cancelled /\ f.spawnFailed = fetch.spawnFailed
      /\ f.timedOut = fetch.timedOut /\ f.unreadable = fetch.unreadable /\ f.reported = fetch.reported
      /\ f.hasty = fetch.hasty /\ f.done = fetch.done /\ f.read = fetch.read
  BY <1>2 DEF Fetches
<1>4. IF c = "encoder" THEN Finish(g) ELSE fetch' = f /\ UNCHANGED <<reports, program>>
  BY DEF Exit
<1>5. /\ f.code[c] = code /\ \A d \in Programs : d # c => f.code[d] = fetch.code[d]
  BY <1>2, <1>3, FetchKeys
<1>6. (code = "bad" <=> program[c] = "bad") /\ program[c] # "missing" /\ program[c] # "running"
  BY <1>2
<1>7. f.closes # Programs /\ c \notin f.closes
  BY <1>1, <1>2, <1>3 DEF HeardRight
<1> HIDE DEF code, f
<1>8. HeardRight(f, program, piped)
  BY <1>1, <1>3, <1>5, <1>6 DEF HeardRight
<1>9. (BrokeOf(fetch, program) <=> BrokeOf(f, program)) /\ (AllHeard(fetch, program, piped) <=> AllHeard(f, program, piped))
  BY <1>3 DEF BrokeOf, AllHeard
<1>10. CASE c # "encoder"
  <2>1. OverRight(f, program, piped)
    BY <1>1, <1>3, <1>7, <1>9, <1>10 DEF OverRight
  <2>2. QED
    BY <1>2, <1>3, <1>4, <1>8, <1>9, <1>10, <2>1, QuietSteps
<1>11. CASE c = "encoder"
  <2>1. g = [f EXCEPT !.hasty = late] /\ late \in BOOLEAN /\ fetch.hasty \in BOOLEAN /\ (fetch.hasty => late)
    BY <1>2, <1>3, FetchKeys
  <2>2. late \/ fetch.done \/ Drained
    OBVIOUS
  <2>3. Finish(g)
    BY <1>4, <1>11
  <2>4. late => fetch.hasty \/ ~fetch.done
    OBVIOUS
  <2> HIDE DEF late, g
  <2>5. /\ g \in Fetches /\ g.midPage = f.midPage
        /\ g.gaveUp = f.gaveUp /\ g.code = f.code /\ g.exits = f.exits /\ g.closes = f.closes
        /\ g.ended = f.ended /\ g.cancelled = f.cancelled /\ g.spawnFailed = f.spawnFailed
        /\ g.timedOut = f.timedOut /\ g.unreadable = f.unreadable /\ g.reported = f.reported
        /\ g.hasty = late /\ g.done = f.done /\ g.read = f.read
    BY <1>3, <2>1 DEF Fetches
  <2>6. HeardRight(g, program, piped)
    BY <1>8, <2>5 DEF HeardRight
  <2>7. (BrokeOf(fetch, program) => BrokeOf(g, program)) /\ (AllHeard(fetch, program, piped) <=> AllHeard(g, program, piped))
    BY <1>3, <2>1, <2>5 DEF BrokeOf, AllHeard
  <2>8. g.done => OverRight(g, program, piped)
    BY <1>1, <1>3, <1>7, <2>5, <2>7 DEF OverRight
  <2>9. ~g.done => BrokeOf(g, program) \/ AllHeard(g, program, piped)
    BY <2>5, <1>6, <1>11, <2>2, <2>7, DrainedOrBroke, <1>3 DEF BrokeOf
  <2>10. QED
    BY <1>2, <1>3, <2>3, <2>5, <2>6, <2>7, <2>8, <2>9, FinishSteps
<1>12. QED
  BY <1>10, <1>11

LEMMA SpawnErrorStep == ASSUME AudioInv, NEW c \in Programs, SpawnError(c) PROVE AudioInv'
<1>1. /\ AudioTypes /\ HeardRight(fetch, program, piped) /\ OverRight(fetch, program, piped)
  BY DEF AudioInv
<1>2. fetch \in Fetches /\ c \notin fetch.exits /\ program[c] = "missing" /\ Hearing
  BY <1>1 DEF AudioTypes, SpawnError
<1> DEFINE f == [fetch EXCEPT !.exits = @ \cup {c}, !.spawnFailed = TRUE]
<1>3. /\ f \in Fetches /\ f.midPage = fetch.midPage
      /\ f.gaveUp = fetch.gaveUp /\ f.code = fetch.code
      /\ f.exits = fetch.exits \cup {c} /\ f.closes = fetch.closes
      /\ f.ended = fetch.ended /\ f.cancelled = fetch.cancelled /\ f.spawnFailed
      /\ f.timedOut = fetch.timedOut /\ f.unreadable = fetch.unreadable /\ f.reported = fetch.reported
      /\ f.hasty = fetch.hasty /\ f.done = fetch.done /\ f.read = fetch.read
  BY <1>2 DEF Fetches
<1>4. Finish(f)
  BY DEF SpawnError
<1> HIDE DEF f
<1>5. f.closes # Programs
  BY <1>1, <1>2, <1>3 DEF HeardRight
<1>6. HeardRight(f, program, piped)
  BY <1>1, <1>2, <1>3 DEF HeardRight
<1>7. BrokeOf(f, program)
  BY <1>2 DEF BrokeOf
<1>8. f.done => OverRight(f, program, piped)
  BY <1>1, <1>3, <1>5, <1>7 DEF OverRight
<1>9. QED
  BY <1>2, <1>3, <1>4, <1>6, <1>7, <1>8, FinishSteps

LEMMA CloseStep == ASSUME AudioInv, NEW c \in Programs, Close(c) PROVE AudioInv'
<1>1. /\ AudioTypes /\ HeardRight(fetch, program, piped) /\ OverRight(fetch, program, piped) /\ PassedRight
  BY DEF AudioInv
<1>2. fetch \in Fetches /\ c \in fetch.exits /\ c \notin fetch.closes /\ Hearing /\ UNCHANGED program
  BY <1>1 DEF AudioTypes, Close
<1> DEFINE f == [fetch EXCEPT !.closes = @ \cup {c}]
<1>3. /\ f \in Fetches /\ f.midPage = fetch.midPage
      /\ f.gaveUp = fetch.gaveUp /\ f.code = fetch.code
      /\ f.exits = fetch.exits /\ f.closes = fetch.closes \cup {c}
      /\ f.ended = fetch.ended /\ f.cancelled = fetch.cancelled /\ f.spawnFailed = fetch.spawnFailed
      /\ f.timedOut = fetch.timedOut /\ f.unreadable = fetch.unreadable /\ f.reported = fetch.reported
      /\ f.hasty = fetch.hasty /\ f.done = fetch.done /\ f.read = fetch.read
  BY <1>2 DEF Fetches
<1>4. /\ IF c = "encoder" THEN fetch.ended \/ program[c] = "missing" ELSE program[c] = "bad" => fetch.gaveUp
      /\ IF f.done THEN ReportFailure(f) ELSE fetch' = f /\ UNCHANGED reports
  BY DEF Close
<1> HIDE DEF f
<1>5. HeardRight(f, program, piped)
  BY <1>1, <1>2, <1>3, <1>4 DEF HeardRight
<1>6. (BrokeOf(fetch, program) <=> BrokeOf(f, program)) /\ (AllHeard(fetch, program, piped) <=> AllHeard(f, program, piped))
  BY <1>3 DEF BrokeOf, AllHeard
<1>7. CASE f.done
  <2>1. f.cancelled \/ BrokeOf(f, program) \/ AllHeard(f, program, piped)
    BY <1>1, <1>3, <1>6, <1>7 DEF OverRight
  <2>2. UNCHANGED <<piped, player>> /\ passed' = passed
    BY <1>2 DEF Hearing
  <2>3. Leaves(program, program')
    BY <1>1, <1>2 DEF Leaves, AudioTypes
  <2>4. ReportFailure(f)
    BY <1>4, <1>7
  <2>5. /\ fetch' \in Fetches /\ fetch'.cancelled = f.cancelled
        /\ f.cancelled => fetch'.reported = fetch.reported
        /\ AudioTypes' /\ HeardRight(fetch', program', piped') /\ OverRight(fetch', program', piped')
        /\ PipesRight(program', piped') /\ ReportsRight'
    BY <1>3, <1>5, <1>6, <1>7, <2>1, <2>2, <2>3, <2>4, ReportKeeps
  <2>6. PassedRight'
    BY <1>1, <1>3, <2>2, <2>5, PassedStays
  <2>7. QED
    BY <2>5, <2>6 DEF AudioInv
<1>8. CASE ~f.done
  <2>1. f.closes # Programs
    BY <1>1, <1>2, <1>3, <1>8 DEF Programs, HeardRight, OverRight
  <2>2. OverRight(f, program, piped)
    BY <1>1, <1>3, <1>6, <1>8, <2>1 DEF OverRight
  <2>3. fetch' = f /\ UNCHANGED <<reports, program>>
    BY <1>2, <1>4, <1>8
  <2>4. QED
    BY <1>2, <1>3, <1>5, <1>6, <2>2, <2>3, QuietSteps
<1>9. QED
  BY <1>7, <1>8

------------------------
(* The player: it ends a Track it sent nothing of only when the fetch is over, *)
(* and has then already told why. *)
LEMMA FlushStep == AudioInv /\ Flush => AudioInv'
<1> SUFFICES ASSUME AudioInv, Flush PROVE AudioInv'
  OBVIOUS
<1>1. /\ AudioTypes /\ OverRight(fetch, program, piped) /\ ReportsRight /\ PassedRight
  BY DEF AudioInv
<1>2. UNCHANGED <<program, piped, fetch, passed>> /\ passed = NotYet
  BY DEF Flush
<1>3. player.sent \in Nat /\ fetch.read \in Nat /\ reports \in Seq(Failures \cup {"ended"})
  BY <1>1, FetchKeys DEF AudioTypes
<1>4. PassedRight' /\ HeardRight(fetch', program', piped') /\ OverRight(fetch', program', piped') /\ PipesRight(program', piped')
  BY <1>2 DEF AudioInv, PassedRight
<1>5. CASE player' = [player EXCEPT !.sent = @ + 1] /\ UNCHANGED reports
  <2>1. player' \in [sent : Nat, playing : BOOLEAN, ended : BOOLEAN] /\ player'.sent = player.sent + 1
    BY <1>1, <1>3, <1>5 DEF AudioTypes
  <2>2. AudioTypes'
    BY <1>1, <1>2, <1>5, <2>1 DEF AudioTypes
  <2>3. ReportsRight'
    BY <1>1, <1>2, <1>3, <1>5, <2>1 DEF ReportsRight
  <2>4. QED
    BY <1>4, <2>2, <2>3 DEF AudioInv
<1>6. CASE /\ player.sent = Buffered /\ Complete
           /\ player' = [player EXCEPT !.playing = FALSE, !.ended = TRUE]
           /\ reports' = Append(reports, "ended")
  <2>1. player' \in [sent : Nat, playing : BOOLEAN, ended : BOOLEAN] /\ player'.sent = player.sent
    BY <1>1, <1>6 DEF AudioTypes
  <2>2. player.sent = 0 => reports # <<>>
    <3>1. player.sent = 0 => fetch.read = 0 /\ fetch.done
      BY <1>3, <1>6, BufferAssumption DEF Buffered, Complete
    <3>2. ~fetch.cancelled
      BY <1>1, <1>2 DEF PassedRight
    <3>3. QED
      BY <1>1, <3>1, <3>2 DEF OverRight, ReportsRight
  <2>3. /\ reports' \in Seq(Failures \cup {"ended"})
        /\ Len(reports') = Len(reports) + 1 /\ Len(reports) \in Nat /\ reports' # <<>>
        /\ \A i \in 1..Len(reports) : reports'[i] = reports[i]
        /\ reports'[Len(reports) + 1] = "ended"
    BY <1>3, <1>6
  <2>4. AudioTypes'
    BY <1>1, <1>2, <2>1, <2>3 DEF AudioTypes
  <2>5. ASSUME NEW i \in 1..Len(reports')
        PROVE  /\ reports'[i] \in Failures => BrokeOf(fetch, program)
               /\ reports'[i] = "failedSource" => program["extractor"] = "bad"
    BY <2>3, <1>1 DEF Failures, ReportsRight
  <2>6. reports'[1] = "ended" => player'.sent > 0
    BY <1>3, <2>1, <2>2, <2>3, <1>1, <1>2 DEF ReportsRight
  <2>7. ReportsRight'
    BY <1>1, <1>2, <2>3, <2>5, <2>6 DEF ReportsRight
  <2>8. QED
    BY <1>4, <2>4, <2>7 DEF AudioInv
<1>7. QED
  BY <1>5, <1>6 DEF Flush

LEMMA PlayOrStopStep == AudioInv /\ PlayOrStop => AudioInv'
BY DEF PlayOrStop, AudioInv, AudioTypes, ReportsRight, PassedRight

(* The Queue moves past the Track. *)
LEMMA PassStep == AudioInv /\ (Advance \/ Skip) => AudioInv'
<1> SUFFICES ASSUME AudioInv, NEW how, passed = NotYet, MovesPast(how),
                    how = "skipped" \/ (reports # <<>> /\ how = Head(reports))
             PROVE  AudioInv'
  BY DEF Advance, Skip
<1>1. /\ AudioTypes /\ HeardRight(fetch, program, piped) /\ OverRight(fetch, program, piped)
      /\ ReportsRight /\ PassedRight
  BY DEF AudioInv
<1>2. fetch \in Fetches
  BY <1>1 DEF AudioTypes
<1> DEFINE f == [fetch EXCEPT !.cancelled = TRUE]
<1>3. /\ f \in Fetches /\ f.midPage = fetch.midPage
      /\ f.gaveUp = fetch.gaveUp /\ f.code = fetch.code
      /\ f.exits = fetch.exits /\ f.closes = fetch.closes
      /\ f.ended = fetch.ended /\ f.cancelled /\ f.spawnFailed = fetch.spawnFailed
      /\ f.timedOut = fetch.timedOut /\ f.unreadable = fetch.unreadable /\ f.reported = fetch.reported
      /\ f.hasty = fetch.hasty /\ f.done = fetch.done /\ f.read = fetch.read
  BY <1>2 DEF Fetches
<1>4. /\ passed' = [how |-> how, heard |-> player.sent > 0, broke |-> Broke,
                    refused |-> program["extractor"] = "bad", reported |-> fetch.reported]
      /\ Finish(f) /\ UNCHANGED <<piped, player>>
  BY DEF MovesPast
<1> HIDE DEF f
<1>5. HeardRight(f, program, piped)
  BY <1>1, <1>3 DEF HeardRight
<1>6. BrokeOf(fetch, program) => BrokeOf(f, program)
  BY <1>3 DEF BrokeOf
<1>7. f.done => OverRight(f, program, piped)
  BY <1>1, <1>3 DEF OverRight
<1>8. /\ passed'.how = how /\ passed'.heard = (player.sent > 0) /\ passed'.broke = Broke
      /\ passed'.refused = (program["extractor"] = "bad") /\ passed'.reported = fetch.reported
  BY <1>4
<1>9. how # "none"
  BY <1>1 DEF AudioTypes, Failures
<1>10. passed' # NotYet
  BY <1>8, <1>9 DEF NotYet
<1>11. /\ fetch'.cancelled = f.cancelled
       /\ f.cancelled => fetch'.reported = fetch.reported
       /\ AudioTypes' /\ HeardRight(fetch', program', piped') /\ OverRight(fetch', program', piped')
       /\ PipesRight(program', piped') /\ ReportsRight'
  BY <1>3, <1>4, <1>5, <1>6, <1>7, <1>10, FinishKeeps
<1>12. Broke <=> BrokeOf(fetch, program)
  BY DEF Broke, BrokeOf
<1>13. how # "skipped" => 1 \in 1..Len(reports) /\ how = reports[1]
  BY <1>1 DEF AudioTypes
<1>14. PassedRight'
  BY <1>13, <1>1, <1>12, <1>3, <1>8, <1>10, <1>11 DEF AudioInv, ReportsRight, Failures, PassedRight
<1>15. QED
  BY <1>11, <1>14 DEF AudioInv

LEMMA AudioStarts == TrackAudioInit => AudioInv
<1> SUFFICES ASSUME TrackAudioInit PROVE AudioInv
  OBVIOUS
<1> USE DEF TrackAudioInit, NewPrograms, NewPiped, NewFetch, NewPlayer, NotYet, Programs, Failures
<1>1. AudioTypes
  BY DEF AudioTypes, Fetches
<1>2. HeardRight(fetch, program, piped)
  BY DEF HeardRight
<1>3. OverRight(fetch, program, piped) /\ PipesRight(program, piped)
  BY DEF OverRight, PipesRight
<1>4. ReportsRight /\ PassedRight
  BY DEF ReportsRight, PassedRight
<1>5. QED
  BY <1>1, <1>2, <1>3, <1>4 DEF AudioInv

LEMMA AudioExplains == AudioInv => TracksAreExplained
BY DEF AudioInv, PassedRight, OverRight, ClassifyFetchFailure, FailedExit, HeardRight, Programs, Broke,
   TracksAreExplained

(* Of every Track the Queue moved past it is known what became of it, whatever *)
(* the order in which ffmpeg, yt-dlp and the player were heard.  (audio.ts) *)
THEOREM EveryTrackIsExplained == TrackAudioSpec => []TracksAreExplained
<1>1. AudioInv /\ [TrackAudioNext]_trackAudioVars => AudioInv'
  <2> SUFFICES ASSUME AudioInv, [TrackAudioNext]_trackAudioVars PROVE AudioInv'
    OBVIOUS
  <2>1. CASE ExtractorWrites \/ EncoderWrites
    BY <2>1, PipeSteps
  <2>2. CASE ExtractorEnds \/ EncoderEnds \/ NotFound
    BY <2>2, EndingSteps
  <2>3. CASE EncoderData \/ EncoderEnd \/ ExtractorStderr \/ FetchTimeout
    BY <2>3, EncoderDataStep, EncoderEndStep, StderrStep, FetchTimeoutStep
  <2>4. CASE \E c \in Programs : Exit(c) \/ SpawnError(c) \/ Close(c)
    BY <2>4, ExitStep, SpawnErrorStep, CloseStep
  <2>5. CASE Flush \/ PlayOrStop
    BY <2>5, FlushStep, PlayOrStopStep
  <2>6. CASE Advance \/ Skip
    BY <2>6, PassStep
  <2>7. CASE UNCHANGED trackAudioVars
    BY <2>7 DEF trackAudioVars, AudioInv, AudioTypes, ReportsRight, PassedRight
  <2>8. QED
    BY <2>1, <2>2, <2>3, <2>4, <2>5, <2>6, <2>7 DEF TrackAudioNext
<1>2. QED
  BY <1>1, AudioStarts, AudioExplains, PTL DEF TrackAudioSpec


------------------------
(* The bot's connections.  A socket that a map or a closing names was connected; *)
(* what closes it knows the detacher of the one responder attached to it, or *)
(* there is no work of it; and a socket of a sync is heard as soon as it is open. *)
Wires == [guild : Guilds, session : Nat, by : Cycles \cup {Sync},
          at : {"opening", "accepted", "refused", "open", "lost", "dead", "unheard", "closed"},
          heard : BOOLEAN, attached : Nat, work : Nat]
Closings == [socket : Nat, detach : Nat]
Stands == {"idle", "closing", "wait", "exchange", "remove", "next", "opening"}
TaskStates == [at : Stands, todo : Seq(Guilds), session : Nat, socket : Nat, closing : Seq(Closings),
               then : {"idle", "wait", "remove"}]

BotTypes ==
    /\ botAccounts \subseteq Guilds /\ exchange \in Nat
    /\ wires \in Seq(Wires)
    /\ tasks \in [Cycles \cup {Sync} -> TaskStates]
    /\ DOMAIN botSockets \subseteq Guilds /\ DOMAIN detachers \subseteq Guilds

Raised(w) == wires[w].at \notin {"opening", "accepted", "refused"}
Finished(w) == wires[w].work = 0 \/ wires[w].attached > 1

WireFits(w) ==
    /\ wires[w].work <= wires[w].attached
    /\ ~Raised(w) => wires[w].work = 0
    /\ wires[w].by = Sync => /\ wires[w].at \in {"open", "lost"} => wires[w].heard
                             /\ wires[w].at # "unheard"

ServerFits(g) ==
    /\ botSockets[g] \in DOMAIN wires /\ Raised(botSockets[g]) /\ wires[botSockets[g]].guild = g
    /\ Finished(botSockets[g]) \/ (g \in DOMAIN detachers /\ detachers[g] = botSockets[g])

ClosingFits(c) ==
    /\ c.socket \in DOMAIN wires /\ c.detach \in DOMAIN wires \cup {0} /\ Raised(c.socket)
    /\ \A g \in DOMAIN botSockets : botSockets[g] # c.socket
    /\ c.detach = c.socket \/ Finished(c.socket)

ClosesFit(t) == \A i \in 1..Len(tasks[t].closing) : ClosingFits(tasks[t].closing[i])
OpeningFits(t) == At(t, "opening") => tasks[t].socket \in DOMAIN wires /\ wires[tasks[t].socket].by = t

Runners == Cycles \cup {Sync}

BotInv ==
    /\ BotTypes
    /\ \A w \in DOMAIN wires : WireFits(w)
    /\ \A g \in DOMAIN botSockets : ServerFits(g)
    /\ \A g \in DOMAIN detachers : detachers[g] \in DOMAIN wires
    /\ \A t \in Runners : OpeningFits(t) /\ ClosesFit(t)

LEMMA SequenceOfSet == ASSUME NEW S, IsFiniteSet(S) PROVE SetToSeq(S) \in Seq(S)
<1> DEFINE n == Cardinality(S)
<1>1. n \in Nat /\ ExistsBijection(1..n, S)
  BY FS_CardinalityType
<1>2. PICK f \in [1..n -> S] : IsInjective(f)
  BY <1>1 DEF ExistsBijection, Bijection, Injection
<1>3. SetToSeq(S) \in [1..n -> S]
  BY <1>2 DEF SetToSeq
<1> QED
  BY <1>1, <1>3, SeqDef

\* What every step leaves of the wires there were.
WiresKeep ==
    /\ DOMAIN wires \subseteq DOMAIN wires'
    /\ \A w \in DOMAIN wires : /\ wires'[w].guild = wires[w].guild /\ wires'[w].by = wires[w].by
                               /\ Raised(w) => Raised(w)'

LEMMA WireIs ==
    ASSUME wires \in Seq(Wires), NEW w \in DOMAIN wires
    PROVE  /\ wires[w] \in Wires /\ w \in Nat /\ w # 0 /\ Len(wires) \in Nat /\ DOMAIN wires = 1..Len(wires)
BY LenProperties, ElementOfSeq

LEMMA TaskIs ==
    ASSUME BotTypes, NEW t \in Runners
    PROVE  tasks[t] \in TaskStates
BY DEF BotTypes, Runners

\* A step that leaves the sockets' work as it is, but for what is finished.
LEMMA BotKeeps ==
    ASSUME BotInv, BotTypes', WiresKeep, \A w \in DOMAIN wires' : WireFits(w)',
           \A w \in DOMAIN wires : Finished(w) => Finished(w)',
           UNCHANGED <<botSockets, detachers>>,
           \A t \in Runners : /\ OpeningFits(t)'
                              /\ \A i \in 1..Len(tasks'[t].closing) :
                                    \/ ClosingFits(tasks[t].closing[i])'
                                    \/ \E j \in 1..Len(tasks[t].closing) : tasks'[t].closing[i] = tasks[t].closing[j]
    PROVE  BotInv'
<1>1. \A g \in DOMAIN botSockets' : ServerFits(g)'
  BY DEF BotInv, ServerFits, WiresKeep
<1>2. \A g \in DOMAIN detachers' : detachers'[g] \in DOMAIN wires'
  BY DEF BotInv, WiresKeep
<1>3. \A c : ClosingFits(c) => ClosingFits(c)'
  BY DEF ClosingFits, WiresKeep
<1>4. \A t \in Runners : ClosesFit(t)'
  BY <1>3 DEF BotInv, ClosesFit
<1> QED
  BY <1>1, <1>2, <1>4 DEF BotInv

\* The tasks go on, the connections stay as they are.
LEMMA BotTurns ==
    ASSUME BotInv, BotTypes', UNCHANGED <<wires, botSockets, detachers>>,
           NEW t \in Runners, NEW new \in TaskStates, tasks' = [tasks EXCEPT ![t] = new],
           new.at = "opening" => tasks[t].at = "opening" /\ new.socket = tasks[t].socket,
           new.closing = << >> \/ new.closing = tasks[t].closing
    PROVE  BotInv'
<1>1. WiresKeep /\ \A w \in DOMAIN wires : (Finished(w) => Finished(w)') /\ WireFits(w)'
  BY DEF BotInv, WiresKeep, Raised, Finished, WireFits
<1>2. \A r \in Runners : tasks'[r] = IF r = t THEN new ELSE tasks[r]
  BY DEF BotInv, BotTypes, Runners
<1>3. ASSUME NEW r \in Runners
      PROVE  /\ OpeningFits(r)'
             /\ \A i \in 1..Len(tasks'[r].closing) :
                   \E j \in 1..Len(tasks[r].closing) : tasks'[r].closing[i] = tasks[r].closing[j]
  BY <1>2 DEF BotInv, OpeningFits, At
<1> QED
  BY <1>1, <1>3, BotKeeps

\* Only the wires change.
LEMMA BotRewired ==
    ASSUME BotInv, NEW w \in DOMAIN wires, NEW new \in Wires, wires' = [wires EXCEPT ![w] = new],
           new.guild = wires[w].guild, new.by = wires[w].by,
           wires[w].at \notin {"opening", "accepted", "refused"} => new.at \notin {"opening", "accepted", "refused"},
           new.work <= wires[w].work, new.attached = wires[w].attached,
           new.by = Sync => (new.at \in {"open", "lost"} => new.heard) /\ new.at # "unheard"
    PROVE  /\ wires' \in Seq(Wires) /\ DOMAIN wires' = DOMAIN wires /\ WiresKeep
           /\ \A v \in DOMAIN wires' : WireFits(v)' /\ (Finished(v) => Finished(v)')
<1>t. wires \in Seq(Wires) /\ wires[w] \in Wires
  BY WireIs DEF BotInv, BotTypes
<1>1. wires' \in Seq(Wires) /\ DOMAIN wires' = DOMAIN wires
      /\ \A v \in DOMAIN wires : wires'[v] = IF v = w THEN new ELSE wires[v]
  BY <1>t
<1>2. WiresKeep
  BY <1>1 DEF WiresKeep, Raised
<1>3. ASSUME NEW v \in DOMAIN wires' PROVE WireFits(v)' /\ (Finished(v) => Finished(v)')
  <2>1. WireFits(v)
    BY <1>1 DEF BotInv
  <2>2. CASE v = w
    BY <1>t, <1>1, <2>1, <2>2 DEF Wires, WireFits, Raised, Finished
  <2>3. CASE v # w
    BY <1>1, <2>1, <2>3 DEF WireFits, Raised, Finished
  <2> QED
    BY <2>2, <2>3
<1> QED
  BY <1>1, <1>2, <1>3

LEMMA BotStart == BotPresenceInit => BotInv
<1> SUFFICES ASSUME BotPresenceInit PROVE BotInv
  OBVIOUS
<1>1. wires = << >> /\ DOMAIN botSockets = {} /\ DOMAIN detachers = {} /\ DOMAIN wires = {}
  BY DEF BotPresenceInit
<1> DEFINE first == CHOOSE c \in Cycles : TRUE
<1>2. Idle \in TaskStates /\ [Idle EXCEPT !.at = "exchange"] \in TaskStates
      /\ Idle.at = "idle" /\ [Idle EXCEPT !.at = "exchange"].at = "exchange"
      /\ Idle.closing = << >> /\ [Idle EXCEPT !.at = "exchange"].closing = << >>
  <2>1. << >> \in Seq(Guilds) /\ << >> \in Seq(Closings)
    OBVIOUS
  <2> QED
    BY <2>1 DEF Idle, TaskStates, Stands
<1>3. tasks = [t \in Runners |-> IF t = first THEN [Idle EXCEPT !.at = "exchange"] ELSE Idle]
  BY DEF BotPresenceInit, Runners
<1>4. tasks \in [Runners -> TaskStates]
      /\ \A t \in Runners : tasks[t].closing = << >> /\ tasks[t].at # "opening"
  <2> HIDE DEF first
  <2> QED
    BY <1>2, <1>3
<1>5. BotTypes
  BY <1>1, <1>4, BotPresenceAssumption DEF BotPresenceInit, BotTypes, Runners
<1> QED
  BY <1>1, <1>4, <1>5 DEF BotInv, OpeningFits, ClosesFit, At

\* The tasks that wait, exchange, pass over an account or end.
LEMMA BotWaits ==
    ASSUME BotInv, NEW t \in Runners,
           \/ Wait(t) \/ Exchange(t) \/ (ExchangeFails(t) /\ t = Sync) \/ (Refused(t) /\ t = Sync)
           \/ (OpenNext(t) /\ UNCHANGED wires) \/ (CloseNext(t) /\ tasks[t].closing = << >>)
           \/ TriggerSync \/ SyncDone \/ (RemoveNext /\ DOMAIN botSockets \subseteq ToSet(tasks[Sync].todo))
    PROVE  BotInv'
<1>t. tasks[t] \in TaskStates /\ Sync \in Runners /\ BotTypes /\ tasks[Sync] \in TaskStates
  BY TaskIs DEF BotInv, Runners
<1>e. << >> \in Seq(Closings) /\ << >> \in Seq(Guilds) /\ Idle \in TaskStates
      /\ Idle.at = "idle" /\ Idle.closing = << >>
  BY DEF Idle, TaskStates, Stands
<1>u. ASSUME UNCHANGED <<wires, botSockets, detachers, botAccounts>>, exchange' \in Nat,
             NEW r \in Runners, NEW new \in TaskStates, tasks' = [tasks EXCEPT ![r] = new],
             new.at # "opening", new.closing = << >> \/ new.closing = tasks[r].closing
      PROVE  BotInv'
  BY <1>u, <1>t, BotTurns DEF BotTypes, Runners
<1>1. ASSUME UNCHANGED <<wires, botSockets, detachers, botAccounts, exchange>>, NEW r \in Runners, NEW at \in Stands,
             at # "opening", tasks' = [tasks EXCEPT ![r].at = at]
      PROVE  BotInv'
  <2> DEFINE new == [tasks[r] EXCEPT !.at = at]
  <2>1. tasks[r] \in TaskStates
    BY TaskIs, <1>t
  <2>2. new \in TaskStates /\ new.at = at /\ new.closing = tasks[r].closing
    BY <2>1 DEF TaskStates
  <2>3. tasks' = [tasks EXCEPT ![r] = new] /\ exchange' \in Nat
    BY <1>1, <1>t DEF BotTypes
  <2> HIDE DEF new
  <2> QED
    BY <1>1, <2>2, <2>3, <1>u
<1>2. ASSUME UNCHANGED <<wires, botSockets, detachers, botAccounts, exchange>>, NEW r \in Runners,
             tasks' = [tasks EXCEPT ![r].at = "next", ![r].todo = Tail(@)], tasks[r].todo # << >>
      PROVE  BotInv'
  <2> DEFINE new == [tasks[r] EXCEPT !.at = "next", !.todo = Tail(tasks[r].todo)]
  <2>1. tasks[r] \in TaskStates
    BY TaskIs, <1>t
  <2>a. Tail(tasks[r].todo) \in Seq(Guilds)
    BY <2>1, <1>2, HeadTailProperties DEF TaskStates
  <2>2. new \in TaskStates /\ new.at = "next" /\ new.closing = tasks[r].closing
    BY <2>1, <2>a DEF TaskStates, Stands
  <2>3. tasks' = [tasks EXCEPT ![r] = new] /\ exchange' \in Nat
    BY <1>2, <1>t DEF BotTypes
  <2> HIDE DEF new
  <2> QED
    BY <1>2, <2>2, <2>3, <1>u
<1>3. CASE Wait(t)
  BY <1>3, <1>1 DEF Wait, Stands
<1>4. CASE Exchange(t)
  <2> DEFINE new == [Idle EXCEPT !.session = exchange + 1, !.todo = SetToSeq(botAccounts),
                                 !.at = IF t = Sync THEN "remove" ELSE "next"]
  <2>1. SetToSeq(botAccounts) \in Seq(Guilds)
    BY <1>t, BotPresenceAssumption, FS_Subset, SequenceOfSet, SeqMonotonic DEF BotTypes
  <2>2. new \in TaskStates /\ new.at # "opening" /\ new.closing = << >>
    <3> DEFINE todo == SetToSeq(botAccounts)
               at == IF t = Sync THEN "remove" ELSE "next"
               number == exchange + 1
    <3>1. todo \in Seq(Guilds) /\ at \in Stands /\ at # "opening" /\ number \in Nat
      BY <2>1, <1>t DEF Stands, BotTypes
    <3>2. new = [Idle EXCEPT !.session = number, !.todo = todo, !.at = at]
      OBVIOUS
    <3> HIDE DEF todo, at, number, new
    <3> QED
      BY <3>1, <3>2, <1>e DEF TaskStates
  <2>3. tasks' = [tasks EXCEPT ![t] = new] /\ exchange' \in Nat /\ UNCHANGED <<wires, botSockets, detachers, botAccounts>>
    BY <1>4, <1>t DEF Exchange, BotTypes
  <2> HIDE DEF new
  <2> QED
    BY <2>2, <2>3, <1>u
<1>5. CASE (ExchangeFails(t) /\ t = Sync) \/ SyncDone
  BY <1>5, <1>t, <1>e, <1>u DEF ExchangeFails, SyncDone, BotTypes
<1>6. CASE Refused(t) /\ t = Sync
  <2>1. tasks' = [tasks EXCEPT ![t].at = "next", ![t].todo = Tail(@)]
        /\ UNCHANGED <<wires, botSockets, detachers, botAccounts, exchange>>
    BY <1>6 DEF Refused
  <2>2. CASE tasks[t].todo # << >>
    BY <2>1, <2>2, <1>2
  <2>3. CASE tasks[t].todo = << >>
    <3> DEFINE new == [tasks[t] EXCEPT !.at = "next", !.todo = << >>]
    <3>1. new \in TaskStates /\ new.at = "next" /\ new.closing = tasks[t].closing
      BY <1>t, <1>e DEF TaskStates, Stands
    <3>2. Tail(tasks[t].todo) = << >>
      BY <2>3
    <3>3. tasks' = [tasks EXCEPT ![t] = new] /\ exchange' \in Nat
      BY <2>1, <3>2, <1>t DEF BotTypes
    <3> HIDE DEF new
    <3> QED
      BY <2>1, <3>1, <3>3, <1>u
  <2> QED
    BY <2>2, <2>3
<1>7. CASE OpenNext(t) /\ UNCHANGED wires
  <2>1. wires # Append(wires, Wire(Head(tasks[t].todo), tasks[t].session, t)) /\ tasks[t].todo # << >>
    <3>1. wires \in Seq(Wires)
      BY <1>t DEF BotTypes
    <3> DEFINE new == Wire(Head(tasks[t].todo), tasks[t].session, t)
    <3>2. Len(Append(wires, new)) = Len(wires) + 1 /\ Len(wires) \in Nat
      BY <3>1
    <3> QED
      BY <3>2, <1>7 DEF OpenNext, Todo
  <2>2. tasks' = [tasks EXCEPT ![t].todo = Tail(@)] /\ tasks[t].at = "next"
        /\ UNCHANGED <<wires, botSockets, detachers, botAccounts, exchange>>
    BY <2>1, <1>7 DEF OpenNext, Todo, At
  <2>3. tasks' = [tasks EXCEPT ![t].at = "next", ![t].todo = Tail(@)]
    BY <2>2, <1>t DEF BotTypes, TaskStates, Runners
  <2> QED
    BY <2>1, <2>2, <2>3, <1>2
<1>8. CASE CloseNext(t) /\ tasks[t].closing = << >>
  BY <1>8, <1>t, <1>1 DEF CloseNext, At, TaskStates, Stands
<1>9. CASE TriggerSync
  BY <1>9, <1>1, <1>t DEF TriggerSync, Stands
<1>10. CASE RemoveNext /\ DOMAIN botSockets \subseteq ToSet(tasks[Sync].todo)
  BY <1>10, <1>1, <1>t DEF RemoveNext, Stands
<1> QED
  BY <1>3, <1>4, <1>5, <1>6, <1>7, <1>8, <1>9, <1>10

LEMMA ClosingIs ==
    ASSUME BotInv, NEW g \in DOMAIN botSockets
    PROVE  Closing(g) \in Closings /\ Closing(g).socket = botSockets[g]
           /\ Closing(g).detach = IF g \in DOMAIN detachers THEN detachers[g] ELSE 0
BY WireIs DEF BotInv, BotTypes, ServerFits, Closing, Closings

\* The maps are emptied: what they held is closed, and is in no map any more.
LEMMA BotDrops ==
    ASSUME BotInv, NEW t \in Runners, Drop(t, "wait"), UNCHANGED <<botAccounts, exchange>>,
           wires' \in Seq(Wires), WiresKeep,
           \A w \in DOMAIN wires' : WireFits(w)', \A w \in DOMAIN wires : Finished(w) => Finished(w)',
           DOMAIN wires' = DOMAIN wires
    PROVE  BotInv'
<1> DEFINE all == {Closing(g) : g \in DOMAIN botSockets}
           new == [Idle EXCEPT !.at = "closing", !.then = "wait", !.closing = SetToSeq(all)]
<1>t. BotTypes
  BY DEF BotInv
<1>1. IsFiniteSet(all)
  <2>1. IsFiniteSet(DOMAIN botSockets)
    BY <1>t, BotPresenceAssumption, FS_Subset DEF BotTypes
  <2> DEFINE f == [g \in DOMAIN botSockets |-> Closing(g)]
  <2>2. f \in Surjection(DOMAIN botSockets, all)
    BY DEF Surjection
  <2> QED
    BY <2>1, <2>2, FS_Surjection
<1>2. SetToSeq(all) \in Seq(all) /\ all \subseteq Closings
  BY <1>1, SequenceOfSet, ClosingIs
<1>3. SetToSeq(all) \in Seq(Closings) /\ \A i \in 1..Len(SetToSeq(all)) : SetToSeq(all)[i] \in all
  <2> DEFINE s == SetToSeq(all)
  <2> HIDE DEF s
  <2>1. s \in Seq(all) /\ all \subseteq Closings
    BY <1>2 DEF s
  <2>2. s \in Seq(Closings) /\ \A i \in 1..Len(s) : s[i] \in all
    <3> HIDE DEF all
    <3> QED
      BY <2>1, SeqMonotonic, ElementOfSeq, LenProperties
  <2> QED
    BY <2>2 DEF s
<1>4. new \in TaskStates /\ new.at = "closing" /\ new.closing = SetToSeq(all)
  <2> DEFINE s == SetToSeq(all)
  <2>1. s \in Seq(Closings) /\ new = [Idle EXCEPT !.at = "closing", !.then = "wait", !.closing = s]
    BY <1>3
  <2>2. Idle \in TaskStates
    BY DEF Idle, TaskStates, Stands
  <2> HIDE DEF s, new
  <2>3. new \in TaskStates /\ new.at = "closing" /\ new.closing = s
    BY <2>1, <2>2 DEF TaskStates, Stands
  <2> QED
    BY <2>3 DEF s
<1>5. tasks' = [tasks EXCEPT ![t] = new] /\ botSockets' = << >> /\ detachers' = << >>
  BY DEF Drop
<1>6. DOMAIN botSockets' = {} /\ DOMAIN detachers' = {}
  BY <1>5
<1>7. \A r \in Runners : tasks'[r] = IF r = t THEN new ELSE tasks[r]
  BY <1>5, <1>t DEF BotTypes, Runners
<1>8. BotTypes'
  <2> HIDE DEF new
  <2> QED
    BY <1>4, <1>5, <1>6, <1>t DEF BotTypes, Runners
<1>9. \A c : ClosingFits(c) => ClosingFits(c)'
  BY <1>6 DEF ClosingFits, WiresKeep
<1>10. \A e : e \in all => ClosingFits(e)'
  BY ClosingIs, <1>6 DEF BotInv, ServerFits, ClosingFits, WiresKeep
<1>11. ASSUME NEW r \in Runners PROVE OpeningFits(r)' /\ ClosesFit(r)'
  <2>1. OpeningFits(r)'
    <3>1. OpeningFits(r) /\ (r = t => tasks'[r].at = "closing") /\ (r # t => tasks'[r] = tasks[r])
      BY <1>4, <1>7 DEF BotInv
    <3> QED
      BY <3>1 DEF OpeningFits, At, WiresKeep
  <2>2. CASE r = t
    <3>1. tasks'[r].closing = SetToSeq(all)
      BY <1>4, <1>7, <2>2
    <3>2. \A i \in 1..Len(tasks'[r].closing) : tasks'[r].closing[i] \in all
      BY <1>3, <3>1
    <3> HIDE DEF all
    <3> QED
      BY <2>1, <3>2, <1>10 DEF ClosesFit
  <2>3. CASE r # t
    BY <1>7, <2>3, <2>1, <1>9 DEF BotInv, ClosesFit
  <2> QED
    BY <2>2, <2>3
<1> QED
  BY <1>6, <1>8, <1>11 DEF BotInv

LEMMA WiresStay ==
    ASSUME BotInv, UNCHANGED wires
    PROVE  /\ WiresKeep /\ wires' \in Seq(Wires)
           /\ \A w \in DOMAIN wires' : WireFits(w)' /\ (Finished(w) => Finished(w)')
BY DEF BotInv, BotTypes, WiresKeep, WireFits, Raised, Finished

LEMMA BotGivesUp ==
    ASSUME BotInv, NEW t \in Runners, (ExchangeFails(t) \/ Refused(t)) /\ t # Sync
    PROVE  BotInv'
BY WiresStay, BotDrops DEF ExchangeFails, Refused

\* A step of the transport or of the server.
LEMMA BotHears ==
    ASSUME BotInv, NEW w \in DOMAIN wires, Handshake(w) \/ Lost(w) \/ LossSeen(w)
    PROVE  BotInv'
<1>t. BotTypes /\ wires[w] \in Wires /\ WireFits(w)
  BY WireIs DEF BotInv, BotTypes
<1>1. PICK at \in {"accepted", "refused", "lost", "dead", "unheard"} :
          /\ wires' = [wires EXCEPT ![w].at = at]
          /\ at \in {"accepted", "refused"} <=> ~Raised(w)
          /\ at = "lost" => wires[w].at = "open"
          /\ at = "unheard" => wires[w].at = "lost" /\ ~wires[w].heard
  BY DEF Handshake, Lost, LossSeen, Raised
<1> DEFINE new == [wires[w] EXCEPT !.at = at]
<1>2. new \in Wires /\ new.at = at /\ new.guild = wires[w].guild /\ new.by = wires[w].by
      /\ new.work = wires[w].work /\ new.attached = wires[w].attached /\ new.heard = wires[w].heard
  BY <1>t DEF Wires
<1>3. wires' = [wires EXCEPT ![w] = new] /\ wires[w].work \in Nat
  BY <1>1, <1>t DEF Wires
<1>4. /\ wires[w].at \notin {"opening", "accepted", "refused"} => new.at \notin {"opening", "accepted", "refused"}
      /\ new.by = Sync => (new.at \in {"open", "lost"} => new.heard) /\ new.at # "unheard"
      /\ new.work <= wires[w].work
  BY <1>1, <1>2, <1>3, <1>t DEF Raised, WireFits
<1>k. UNCHANGED <<botAccounts, exchange>>
  BY DEF Handshake, Lost, LossSeen
<1> HIDE DEF new
<1>5. CASE UNCHANGED <<botSockets, detachers, tasks>>
  <2>1. /\ wires' \in Seq(Wires) /\ DOMAIN wires' = DOMAIN wires /\ WiresKeep
        /\ \A v \in DOMAIN wires' : WireFits(v)' /\ (Finished(v) => Finished(v)')
    BY <1>2, <1>3, <1>4, <1>5, <1>k, BotRewired
  <2>2. BotTypes'
    BY <2>1, <1>5, <1>k, <1>t DEF BotTypes
  <2>3. \A t \in Runners : OpeningFits(t)'
    BY <2>1, <1>5 DEF BotInv, OpeningFits, At, WiresKeep
  <2>4. \A t \in Runners : \A i \in 1..Len(tasks'[t].closing) :
           \E j \in 1..Len(tasks[t].closing) : tasks'[t].closing[i] = tasks[t].closing[j]
    BY <1>5
  <2> QED
    BY <2>1, <2>2, <2>3, <2>4, <1>5, BotKeeps
<1>6. CASE LossSeen(w) /\ ~UNCHANGED <<botSockets, detachers, tasks>>
  BY <1>6, <1>2, <1>3, <1>4, <1>k, BotRewired, BotDrops DEF LossSeen, Runners
<1> QED
  BY <1>5, <1>6 DEF Handshake, Lost

\* A new handshake.
LEMMA BotOpens ==
    ASSUME BotInv, NEW t \in Runners, OpenNext(t), ~UNCHANGED wires
    PROVE  BotInv'
<1>t. BotTypes /\ tasks[t] \in TaskStates /\ wires \in Seq(Wires)
  BY TaskIs DEF BotInv, BotTypes
<1> DEFINE g == Head(tasks[t].todo)
           one == Wire(g, tasks[t].session, t)
<1>1. /\ wires' = Append(wires, one) /\ tasks[t].todo # << >>
      /\ tasks' = [tasks EXCEPT ![t].at = "opening", ![t].socket = Len(wires) + 1]
      /\ UNCHANGED <<botAccounts, exchange, botSockets, detachers>>
  BY DEF OpenNext, Todo
<1>2. one \in Wires /\ one.at = "opening" /\ one.work = 0 /\ one.attached = 0 /\ one.by = t
  BY <1>1, <1>t, HeadTailProperties DEF TaskStates, Wire, Wires, Runners
<1> HIDE DEF one
<1>3. /\ wires' \in Seq(Wires) /\ Len(wires) \in Nat /\ DOMAIN wires = 1..Len(wires)
      /\ DOMAIN wires' = DOMAIN wires \cup {Len(wires) + 1}
      /\ \A w \in DOMAIN wires : wires'[w] = wires[w]
      /\ wires'[Len(wires) + 1] = one
  BY <1>1, <1>2, <1>t, AppendProperties
<1>4. WiresKeep /\ \A w \in DOMAIN wires : (Finished(w) => Finished(w)') /\ WireFits(w)'
  BY <1>3 DEF BotInv, WiresKeep, Raised, Finished, WireFits
<1>5. \A w \in DOMAIN wires' : WireFits(w)'
  BY <1>2, <1>3, <1>4 DEF WireFits, Raised
<1> DEFINE new == [tasks[t] EXCEPT !.at = "opening", !.socket = Len(wires) + 1]
<1>6. new \in TaskStates /\ new.at = "opening" /\ new.socket = Len(wires) + 1 /\ new.closing = tasks[t].closing
  <2> DEFINE number == Len(wires) + 1
  <2>1. number \in Nat /\ new = [tasks[t] EXCEPT !.at = "opening", !.socket = number]
    BY <1>3
  <2> HIDE DEF number, new
  <2>2. new \in TaskStates /\ new.at = "opening" /\ new.socket = number /\ new.closing = tasks[t].closing
    BY <1>t, <2>1 DEF TaskStates, Stands
  <2> QED
    BY <2>2 DEF number
<1>7. tasks' = [tasks EXCEPT ![t] = new]
  BY <1>1, <1>t DEF BotTypes, TaskStates
<1> HIDE DEF new
<1>8. \A r \in Runners : tasks'[r] = IF r = t THEN new ELSE tasks[r]
  BY <1>7, <1>t DEF BotTypes, Runners
<1>9. BotTypes'
  BY <1>1, <1>3, <1>6, <1>7, <1>t DEF BotTypes, Runners
<1>10. ASSUME NEW r \in Runners
       PROVE  /\ OpeningFits(r)'
              /\ \A i \in 1..Len(tasks'[r].closing) :
                    \E j \in 1..Len(tasks[r].closing) : tasks'[r].closing[i] = tasks[r].closing[j]
  BY <1>2, <1>3, <1>6, <1>8, <1>4 DEF OpeningFits, BotInv, At, WiresKeep
<1> QED
  BY <1>1, <1>4, <1>5, <1>9, <1>10, BotKeeps

\* It is up: the map holds it; a sync attaches to it at once.
LEMMA BotOpened ==
    ASSUME BotInv, NEW t \in Runners, Opened(t)
    PROVE  BotInv'
<1> DEFINE w == tasks[t].socket
           g == wires[w].guild
<1>t. BotTypes /\ tasks[t] \in TaskStates /\ wires \in Seq(Wires)
  BY TaskIs DEF BotInv, BotTypes
<1>1. w \in DOMAIN wires /\ wires[w].by = t /\ wires[w].at = "accepted" /\ wires[w].work = 0 /\ ~Raised(w)
  BY DEF Opened, BotInv, OpeningFits, WireFits, Raised
<1>2. wires[w] \in Wires /\ g \in Guilds
  BY <1>1, <1>t, WireIs DEF Wires
<1>3. PICK new \in Wires :
          /\ wires' = [wires EXCEPT ![w] = new] /\ new.at = "open" /\ new.guild = g /\ new.by = t
          /\ \/ t = Sync /\ new.heard = TRUE /\ new.attached = wires[w].attached + 1 /\ new.work = 1
                /\ detachers' = With(detachers, g, w)
             \/ t # Sync /\ new.work = 0 /\ new.attached = wires[w].attached /\ UNCHANGED detachers
  <2>1. CASE t = Sync
    <3> DEFINE new == [wires[w] EXCEPT !.at = "open", !.heard = TRUE, !.work = wires[w].work + 1,
                                       !.attached = wires[w].attached + 1]
    <3>1. wires[w].work + 1 \in Nat /\ wires[w].attached + 1 \in Nat
      BY <1>2 DEF Wires
    <3>2. new \in Wires
      <4> DEFINE a == wires[w].work + 1
                 b == wires[w].attached + 1
      <4> HIDE DEF a, b
      <4>1. a \in Nat /\ b \in Nat /\ new = [wires[w] EXCEPT !.at = "open", !.heard = TRUE, !.work = a, !.attached = b]
        BY <3>1 DEF a, b
      <4> QED
        BY <4>1, <1>2 DEF Wires
    <3>3. new.at = "open" /\ new.guild = g /\ new.by = t /\ new.heard = TRUE
          /\ new.attached = wires[w].attached + 1 /\ new.work = 1
      BY <1>1, <1>2 DEF Wires
    <3>4. wires' = [wires EXCEPT ![w] = new] /\ detachers' = With(detachers, g, w)
      BY <2>1, <1>1, <1>t DEF Opened, Attached
    <3> QED
      BY <2>1, <3>2, <3>3, <3>4
  <2>2. CASE t # Sync
    <3> DEFINE new == [wires[w] EXCEPT !.at = "open"]
    <3>1. new \in Wires /\ new.at = "open" /\ new.guild = g /\ new.by = t /\ new.work = 0
          /\ new.attached = wires[w].attached
      BY <1>1, <1>2 DEF Wires
    <3>2. wires' = [wires EXCEPT ![w] = new] /\ UNCHANGED detachers
      BY <2>2, <1>1, <1>t DEF Opened
    <3> QED
      BY <2>2, <3>1, <3>2
  <2> QED
    BY <2>1, <2>2
<1>4. /\ wires' \in Seq(Wires) /\ DOMAIN wires' = DOMAIN wires
      /\ \A v \in DOMAIN wires : wires'[v] = IF v = w THEN new ELSE wires[v]
  BY <1>1, <1>3, <1>t
<1>n. new.attached \in Nat /\ wires[w].attached \in Nat /\ new.work \in Nat /\ w \in Nat /\ w # 0
  BY <1>1, <1>2, <1>t, WireIs DEF Wires
<1>5. WiresKeep
  BY <1>1, <1>3, <1>4 DEF WiresKeep, Raised
<1>6. \A v \in DOMAIN wires' : WireFits(v)'
  BY <1>3, <1>4, <1>n DEF WireFits, Raised, BotInv
<1>7. \A v \in DOMAIN wires : v # w => (Raised(v) <=> Raised(v)') /\ (Finished(v) <=> Finished(v)')
  BY <1>4 DEF Raised, Finished
<1>8. botSockets' = With(botSockets, g, w) /\ UNCHANGED <<botAccounts, exchange>>
  BY DEF Opened
<1> HIDE DEF g
<1>9. /\ DOMAIN botSockets' = DOMAIN botSockets \cup {g}
      /\ \A h \in DOMAIN botSockets' : botSockets'[h] = IF h = g THEN w ELSE botSockets[h]
  BY <1>8 DEF With
<1>10. \/ t = Sync /\ DOMAIN detachers' = DOMAIN detachers \cup {g}
          /\ \A h \in DOMAIN detachers' : detachers'[h] = IF h = g THEN w ELSE detachers[h]
       \/ t # Sync /\ UNCHANGED detachers
  BY <1>3 DEF With
<1> HIDE DEF w
<1>11. \A h \in DOMAIN detachers' : detachers'[h] \in DOMAIN wires'
  BY <1>1, <1>4, <1>10 DEF BotInv
<1>12. \A h \in DOMAIN botSockets' : ServerFits(h)'
  BY <1>1, <1>3, <1>4, <1>9, <1>10, <1>7 DEF ServerFits, Raised, Finished, BotInv
<1>13. \A c : ClosingFits(c) => ClosingFits(c)'
  BY <1>1, <1>9, <1>4, <1>7 DEF ClosingFits, Finished, Raised
<1> DEFINE next == [tasks[t] EXCEPT !.at = "next", !.todo = Tail(tasks[t].todo)]
<1>14. tasks' = [tasks EXCEPT ![t] = next]
  BY <1>t DEF Opened, BotTypes, TaskStates
<1>15. next.at = "next" /\ next.closing = tasks[t].closing /\ next \in TaskStates
  <2>1. Tail(tasks[t].todo) \in Seq(Guilds)
    <3>1. CASE tasks[t].todo = << >>
      <4>1. Tail(tasks[t].todo) = << >>
        BY <3>1
      <4>2. << >> \in Seq(Guilds)
        OBVIOUS
      <4> QED
        BY <4>1, <4>2, Zenon
    <3>2. CASE tasks[t].todo # << >>
      BY <3>2, <1>t, HeadTailProperties DEF TaskStates
    <3> QED
      BY <3>1, <3>2
  <2> QED
    BY <2>1, <1>t DEF TaskStates, Stands
<1> HIDE DEF next
<1>16. BotTypes'
  BY <1>2, <1>4, <1>8, <1>9, <1>10, <1>14, <1>15, <1>t DEF BotTypes, Runners, g
<1>17. ASSUME NEW r \in Runners PROVE OpeningFits(r)' /\ ClosesFit(r)'
  BY <1>14, <1>15, <1>t, <1>5, <1>13 DEF BotInv, BotTypes, Runners, OpeningFits, ClosesFit, At, WiresKeep
<1> QED
  BY <1>6, <1>11, <1>12, <1>16, <1>17 DEF BotInv

\* One socket of a closing: its detacher is awaited, then it is closed.
LEMMA BotCloses ==
    ASSUME BotInv, NEW t \in Runners, CloseNext(t), tasks[t].closing # << >>
    PROVE  BotInv' /\ (\A w \in DOMAIN wires : wires'[w].at = "closed" /\ wires[w].at = "open" => Finished(w))
<1>p. PICK c : c = Head(tasks[t].closing)
  OBVIOUS
<1>t. BotTypes /\ tasks[t] \in TaskStates /\ wires \in Seq(Wires) /\ tasks[t].closing \in Seq(Closings)
  BY TaskIs DEF BotInv, BotTypes, TaskStates
<1>s. /\ c \in Closings /\ c = tasks[t].closing[1] /\ Len(tasks[t].closing) \in Nat /\ 1 \in 1..Len(tasks[t].closing)
      /\ Tail(tasks[t].closing) \in Seq(Closings) /\ Len(Tail(tasks[t].closing)) = Len(tasks[t].closing) - 1
      /\ \A i \in 1..Len(Tail(tasks[t].closing)) : Tail(tasks[t].closing)[i] = tasks[t].closing[i + 1]
  BY <1>p, <1>t, HeadTailProperties, LenProperties, EmptySeq
<1>c. ClosingFits(c)
  BY <1>s DEF BotInv, ClosesFit
<1>k. UNCHANGED <<botAccounts, exchange, botSockets, detachers>> /\ tasks[t].at = "closing"
  BY DEF CloseNext, At
<1>1. CASE c.detach # 0 /\ wires[c.detach].work > 0
  <2> DEFINE w == c.detach
             new == [wires[w] EXCEPT !.work = wires[w].work - 1]
             rest == [tasks[t].closing EXCEPT ![1] = [c EXCEPT !.detach = 0]]
             next == [tasks[t] EXCEPT !.closing = rest]
  <2>1. w \in DOMAIN wires /\ wires[w] \in Wires /\ wires[w].work \in Nat /\ wires[w].attached \in Nat
        /\ wires[w].work > 0 /\ WireFits(w)
    BY <1>1, <1>c, <1>t, WireIs DEF ClosingFits, Wires, BotInv
  <2>2. new \in Wires /\ new.work = wires[w].work - 1 /\ new.guild = wires[w].guild /\ new.by = wires[w].by
        /\ new.at = wires[w].at /\ new.attached = wires[w].attached /\ new.heard = wires[w].heard
    <3> DEFINE less == wires[w].work - 1
    <3>1. less \in Nat
      BY <2>1
    <3> HIDE DEF less
    <3>2. new = [wires[w] EXCEPT !.work = less]
      BY DEF less
    <3> HIDE DEF new
    <3>3. new \in Wires /\ new.work = less /\ new.guild = wires[w].guild /\ new.by = wires[w].by
          /\ new.at = wires[w].at /\ new.attached = wires[w].attached /\ new.heard = wires[w].heard
      BY <2>1, <3>1, <3>2 DEF Wires
    <3> QED
      BY <3>3 DEF less
  <2>3. /\ wires' = [wires EXCEPT ![w] = new]
        /\ tasks' = [tasks EXCEPT ![t].closing[1].detach = 0]
    BY <1>1, <1>p DEF CloseNext
  <2>4. /\ wires[w].at \notin {"opening", "accepted", "refused"} => new.at \notin {"opening", "accepted", "refused"}
        /\ new.work <= wires[w].work
        /\ new.by = Sync => (new.at \in {"open", "lost"} => new.heard) /\ new.at # "unheard"
    BY <2>1, <2>2 DEF WireFits
  <2> HIDE DEF new
  <2>5. /\ wires' \in Seq(Wires) /\ DOMAIN wires' = DOMAIN wires /\ WiresKeep
        /\ \A v \in DOMAIN wires' : WireFits(v)' /\ (Finished(v) => Finished(v)')
    BY <2>1, <2>2, <2>3, <2>4, BotRewired
  <2>6. /\ rest \in Seq(Closings) /\ Len(rest) = Len(tasks[t].closing)
        /\ \A i \in 1..Len(rest) : rest[i] = IF i = 1 THEN [c EXCEPT !.detach = 0] ELSE tasks[t].closing[i]
    <3>1. [c EXCEPT !.detach = 0] \in Closings
      BY <1>s DEF Closings
    <3> QED
      BY <3>1, <1>s, <1>t
  <2>7. tasks' = [tasks EXCEPT ![t] = next]
    BY <2>3, <1>s, <1>t DEF BotTypes, TaskStates, Closings
  <2> HIDE DEF rest
  <2>8. next \in TaskStates /\ next.closing = rest /\ next.at = tasks[t].at /\ next.socket = tasks[t].socket
    BY <2>6, <1>t DEF TaskStates
  <2> HIDE DEF next
  <2>9. BotTypes'
    BY <2>5, <2>7, <2>8, <1>k, <1>t DEF BotTypes, Runners
  <2>10. \A e : e = [c EXCEPT !.detach = 0] => ClosingFits(e)'
    <3> SUFFICES ASSUME NEW e, e = [c EXCEPT !.detach = 0] PROVE ClosingFits(e)'
      OBVIOUS
    <3>1. e.socket = c.socket /\ e.detach = 0 /\ e.detach # c.socket
      BY <1>s, <1>c, <1>t, WireIs DEF Closings, ClosingFits
    <3>2. Finished(c.socket)'
      BY <1>c, <2>5, <2>1, <2>2, <2>3, <1>t DEF ClosingFits, WireFits, Finished
    <3> QED
      BY <3>1, <3>2, <1>c, <1>k, <2>5 DEF ClosingFits, WiresKeep
  <2>11. \A r \in Runners : tasks'[r] = IF r = t THEN next ELSE tasks[r]
    BY <2>7, <1>t DEF BotTypes, Runners
  <2>12. \A r \in Runners : OpeningFits(r)'
    BY <2>5, <2>8, <2>11 DEF BotInv, OpeningFits, At, WiresKeep
  <2>13. ASSUME NEW r \in Runners
         PROVE  \A i \in 1..Len(tasks'[r].closing) :
                    \/ ClosingFits(tasks[r].closing[i])'
                    \/ \E j \in 1..Len(tasks[r].closing) : tasks'[r].closing[i] = tasks[r].closing[j]
    BY <2>11, <2>6, <2>8, <2>10
  <2>14. BotInv'
    BY <1>k, <2>5, <2>9, <2>12, <2>13, BotKeeps
  <2> QED
    BY <2>1, <2>2, <2>3, <2>14, <1>t
<1>2. CASE ~(c.detach # 0 /\ wires[c.detach].work > 0)
  <2> DEFINE w == c.socket
             new == [wires[w] EXCEPT !.at = "closed", !.heard = FALSE]
             next == [tasks[t] EXCEPT !.closing = Tail(tasks[t].closing)]
  <2>1. w \in DOMAIN wires /\ wires[w] \in Wires /\ wires[w].work \in Nat /\ Finished(w) /\ w # 0
    BY <1>c, <1>t, WireIs, <1>2 DEF ClosingFits, Wires, Finished
  <2>2. new \in Wires /\ new.work = wires[w].work /\ new.guild = wires[w].guild /\ new.by = wires[w].by
        /\ new.at = "closed" /\ new.attached = wires[w].attached
    BY <2>1 DEF Wires
  <2>3. wires' = [wires EXCEPT ![w] = new] /\ tasks' = [tasks EXCEPT ![t].closing = Tail(@)]
    BY <1>2, <1>p, <1>t, <2>1 DEF CloseNext
  <2>4. tasks' = [tasks EXCEPT ![t] = next]
    BY <2>3, <1>t DEF BotTypes, TaskStates
  <2> HIDE DEF new
  <2>5. /\ wires' \in Seq(Wires) /\ DOMAIN wires' = DOMAIN wires /\ WiresKeep
        /\ \A v \in DOMAIN wires' : WireFits(v)' /\ (Finished(v) => Finished(v)')
    <3>1. /\ wires[w].at \notin {"opening", "accepted", "refused"} => new.at \notin {"opening", "accepted", "refused"}
          /\ new.work <= wires[w].work
          /\ new.by = Sync => (new.at \in {"open", "lost"} => new.heard) /\ new.at # "unheard"
      BY <2>1, <2>2
    <3> QED
      BY <2>1, <2>2, <2>3, <3>1, BotRewired
  <2>6. next \in TaskStates /\ next.closing = Tail(tasks[t].closing) /\ next.at = "closing"
    BY <1>k, <1>s, <1>t DEF TaskStates
  <2> HIDE DEF next
  <2>7. \A r \in Runners : tasks'[r] = IF r = t THEN next ELSE tasks[r]
    BY <2>4, <1>t DEF BotTypes, Runners
  <2>8. BotTypes'
    BY <2>4, <2>5, <2>6, <1>k, <1>t DEF BotTypes, Runners
  <2>9. \A r \in Runners : OpeningFits(r)'
    BY <2>5, <2>6, <2>7 DEF BotInv, OpeningFits, At, WiresKeep
  <2>10. ASSUME NEW r \in Runners
         PROVE  \A i \in 1..Len(tasks'[r].closing) :
                    \E j \in 1..Len(tasks[r].closing) : tasks'[r].closing[i] = tasks[r].closing[j]
    <3>1. CASE r # t
      BY <3>1, <2>7
    <3>2. CASE r = t
      <4>1. tasks'[r].closing = Tail(tasks[r].closing)
        BY <3>2, <2>6, <2>7
      <4>2. tasks[r].closing \in Seq(Closings) /\ tasks[r].closing # << >>
        BY <3>2, <1>s
      <4>3. /\ Len(Tail(tasks[r].closing)) = Len(tasks[r].closing) - 1 /\ Len(tasks[r].closing) \in Nat
            /\ \A i \in 1..Len(Tail(tasks[r].closing)) : Tail(tasks[r].closing)[i] = tasks[r].closing[i + 1]
        BY <4>2, HeadTailProperties, LenProperties
      <4>4. \A i \in 1..Len(tasks'[r].closing) :
               i + 1 \in 1..Len(tasks[r].closing) /\ tasks'[r].closing[i] = tasks[r].closing[i + 1]
        BY <4>1, <4>3
      <4> QED
        BY <4>4
    <3> QED
      BY <3>1, <3>2
  <2>11. BotInv'
    BY <1>k, <2>5, <2>8, <2>9, <2>10, BotKeeps
  <2> QED
    BY <2>1, <2>3, <2>11, <1>t
<1> QED
  BY <1>1, <1>2

\* All sockets of a cycle are up: what the map holds by now is listened to.
LEMMA BotAllUp ==
    ASSUME BotInv, NEW t \in Runners, AllUp(t)
    PROVE  BotInv'
<1> DEFINE held == {w \in DOMAIN wires : \E g \in DOMAIN botSockets : botSockets[g] = w}
<1>t. BotTypes /\ wires \in Seq(Wires) /\ Idle \in TaskStates /\ Idle.at = "idle" /\ Idle.closing = << >>
  BY DEF Idle, TaskStates, Stands, BotInv, BotTypes
<1>1. /\ wires' = [w \in DOMAIN wires |->
                     IF w \in held THEN [wires[w] EXCEPT !.heard = TRUE, !.work = @ + 1, !.attached = @ + 1] ELSE wires[w]]
      /\ tasks' = [tasks EXCEPT ![t] = Idle]
      /\ detachers' = [g \in DOMAIN botSockets |-> botSockets[g]]
      /\ UNCHANGED <<botAccounts, exchange, botSockets>>
  BY DEF AllUp
<1>2. \A w \in DOMAIN wires :
         /\ wires'[w] \in Wires /\ wires'[w].guild = wires[w].guild /\ wires'[w].by = wires[w].by
         /\ wires'[w].at = wires[w].at
         /\ w \notin held => wires'[w] = wires[w]
         /\ w \in held => wires'[w].work = wires[w].work + 1 /\ wires'[w].attached = wires[w].attached + 1
                          /\ wires'[w].heard = TRUE
  <2> SUFFICES ASSUME NEW w \in DOMAIN wires
               PROVE  /\ wires'[w] \in Wires /\ wires'[w].guild = wires[w].guild /\ wires'[w].by = wires[w].by
                      /\ wires'[w].at = wires[w].at
                      /\ w \notin held => wires'[w] = wires[w]
                      /\ w \in held => wires'[w].work = wires[w].work + 1
                                       /\ wires'[w].attached = wires[w].attached + 1 /\ wires'[w].heard = TRUE
    OBVIOUS
  <2>1. wires[w] \in Wires
    BY <1>t, WireIs
  <2>2. CASE w \notin held
    <3> HIDE DEF held
    <3>1. wires'[w] = wires[w]
      BY <1>1, <2>2
    <3> QED
      BY <2>1, <2>2, <3>1
  <2>3. CASE w \in held
    <3> DEFINE work == wires[w].work + 1
               attached == wires[w].attached + 1
    <3>1. work \in Nat /\ attached \in Nat /\ TRUE \in BOOLEAN
      BY <2>1 DEF Wires
    <3>2. wires'[w] = [wires[w] EXCEPT !.heard = TRUE, !.work = work, !.attached = attached]
      <4> HIDE DEF held
      <4> QED
        BY <1>1, <2>3
    <3> HIDE DEF work, attached, held
    <3>3. /\ wires'[w] \in Wires /\ wires'[w].guild = wires[w].guild /\ wires'[w].by = wires[w].by
          /\ wires'[w].at = wires[w].at /\ wires'[w].work = work /\ wires'[w].attached = attached
          /\ wires'[w].heard = TRUE
      BY <2>1, <3>1, <3>2 DEF Wires
    <3> QED
      BY <2>3, <3>3 DEF work, attached
  <2> QED
    BY <2>2, <2>3
<1>3. wires' \in Seq(Wires) /\ DOMAIN wires' = DOMAIN wires
  <2>1. DOMAIN wires = 1..Len(wires) /\ Len(wires) \in Nat
    BY <1>t, LenProperties
  <2>2. wires' = [w \in 1..Len(wires) |-> wires'[w]]
    <3> HIDE DEF held
    <3> QED
      BY <1>1, <2>1
  <2>3. wires' \in [1..Len(wires) -> Wires]
    BY <1>2, <2>1, <2>2
  <2> QED
    BY <2>1, <2>3, SeqDef
<1>4. WiresKeep
  BY <1>2, <1>3 DEF WiresKeep, Raised
<1>5. \A w \in DOMAIN wires' : WireFits(w)'
  <2> SUFFICES ASSUME NEW w \in DOMAIN wires PROVE WireFits(w)'
    BY <1>3
  <2>1. WireFits(w) /\ wires[w].work \in Nat /\ wires[w].attached \in Nat /\ (w \in held => Raised(w))
    BY <1>t, WireIs DEF BotInv, ServerFits, Wires
  <2> HIDE DEF held
  <2> QED
    BY <2>1, <1>2 DEF WireFits, Raised
<1>6. \A g \in DOMAIN botSockets' : ServerFits(g)'
  <2> SUFFICES ASSUME NEW g \in DOMAIN botSockets PROVE ServerFits(g)'
    BY <1>1
  <2>1. ServerFits(g) /\ DOMAIN detachers' = DOMAIN botSockets /\ detachers'[g] = botSockets[g] /\ UNCHANGED botSockets
    BY <1>1 DEF BotInv
  <2> QED
    BY <2>1, <1>3, <1>4 DEF ServerFits, WiresKeep
<1>7. \A g \in DOMAIN detachers' : detachers'[g] \in DOMAIN wires'
  BY <1>1, <1>3 DEF BotInv, ServerFits
<1>8. \A c : ClosingFits(c) => ClosingFits(c)'
  <2> SUFFICES ASSUME NEW c, ClosingFits(c) PROVE ClosingFits(c)'
    OBVIOUS
  <2>1. c.socket \notin held /\ c.socket \in DOMAIN wires
    BY DEF ClosingFits
  <2> HIDE DEF held
  <2>2. wires'[c.socket] = wires[c.socket]
    BY <2>1, <1>2
  <2> QED
    BY <2>1, <2>2, <1>1, <1>3 DEF ClosingFits, Finished, Raised
<1>9. \A r \in Runners : OpeningFits(r)' /\ ClosesFit(r)'
  <2> SUFFICES ASSUME NEW r \in Runners PROVE OpeningFits(r)' /\ ClosesFit(r)'
    OBVIOUS
  <2>1. tasks'[r] = IF r = t THEN Idle ELSE tasks[r]
    BY <1>1, <1>t DEF BotTypes, Runners
  <2>2. OpeningFits(r) /\ ClosesFit(r)
    BY DEF BotInv
  <2>3. CASE r = t
    BY <2>1, <2>3, <1>t DEF OpeningFits, ClosesFit, At
  <2>4. CASE r # t
    BY <2>1, <2>4, <2>2, <1>4, <1>8 DEF OpeningFits, ClosesFit, At, WiresKeep
  <2> QED
    BY <2>3, <2>4
<1>10. BotTypes'
  BY <1>1, <1>3, <1>t DEF BotTypes, Runners
<1> QED
  BY <1>5, <1>6, <1>7, <1>9, <1>10 DEF BotInv

\* A server that is gone: its socket leaves the map before it is closed.
LEMMA BotRemoves ==
    ASSUME BotInv, RemoveNext, ~(DOMAIN botSockets \subseteq ToSet(tasks[Sync].todo))
    PROVE  BotInv'
<1>t. BotTypes /\ Sync \in Runners /\ tasks[Sync] \in TaskStates
  BY TaskIs DEF BotInv, Runners
<1>1. PICK g \in DOMAIN botSockets :
          /\ tasks' = [tasks EXCEPT ![Sync].at = "closing", ![Sync].then = "remove",
                                    ![Sync].closing = <<Closing(g)>>]
          /\ botSockets' = Without(botSockets, g)
          /\ detachers' = Without(detachers, g)
          /\ UNCHANGED <<botAccounts, exchange, wires>>
  BY DEF RemoveNext
<1>p. PICK c : c = Closing(g)
  OBVIOUS
<1> DEFINE new == [tasks[Sync] EXCEPT !.at = "closing", !.then = "remove", !.closing = <<c>>]
<1>2. /\ c \in Closings /\ c.socket = botSockets[g] /\ ServerFits(g)
      /\ c.detach = IF g \in DOMAIN detachers THEN detachers[g] ELSE 0
      /\ \A h \in DOMAIN detachers : detachers[h] \in DOMAIN wires
  BY <1>p, ClosingIs DEF BotInv
<1>3. new \in TaskStates /\ new.at = "closing" /\ new.closing = <<c>>
  <2>1. <<c>> \in Seq(Closings)
    BY <1>2
  <2> QED
    BY <2>1, <1>t DEF TaskStates, Stands
<1>4. tasks' = [tasks EXCEPT ![Sync] = new]
  BY <1>1, <1>p, <1>t DEF BotTypes, TaskStates
<1> HIDE DEF new
<1>5. /\ DOMAIN botSockets' = DOMAIN botSockets \ {g} /\ DOMAIN detachers' = DOMAIN detachers \ {g}
      /\ \A h \in DOMAIN botSockets' : botSockets'[h] = botSockets[h]
      /\ \A h \in DOMAIN detachers' : detachers'[h] = detachers[h]
  BY <1>1 DEF Without
<1>6. WiresKeep /\ wires' \in Seq(Wires) /\ DOMAIN wires' = DOMAIN wires
      /\ \A w \in DOMAIN wires' : WireFits(w)' /\ (Finished(w) => Finished(w)')
  BY <1>1, WiresStay
<1>7. \A h \in DOMAIN botSockets' : ServerFits(h)'
  BY <1>1, <1>5 DEF BotInv, ServerFits, Raised, Finished
<1>8. \A e : ClosingFits(e) => ClosingFits(e)'
  BY <1>1, <1>5 DEF ClosingFits, Raised, Finished
<1>9. ClosingFits(c)'
  BY <1>2, <1>5, <1>1 DEF BotInv, ServerFits, ClosingFits, Raised, Finished
<1>10. \A r \in Runners : OpeningFits(r)' /\ ClosesFit(r)'
  BY <1>4, <1>t, <1>3, <1>9, <1>6, <1>8 DEF BotTypes, Runners, BotInv, OpeningFits, ClosesFit, At, WiresKeep
<1>11. BotTypes'
  BY <1>3, <1>4, <1>t, <1>5, <1>1, <1>6 DEF BotTypes
<1>12. \A h \in DOMAIN detachers' : detachers'[h] \in DOMAIN wires'
  BY <1>2, <1>5, <1>6
<1> QED
  BY <1>6, <1>7, <1>10, <1>11, <1>12 DEF BotInv

LEMMA BotGains == ASSUME BotInv, NEW g \in Guilds, GuildCreated(g) PROVE BotInv'
<1>1. UNCHANGED <<exchange, botSockets, detachers, wires, tasks>> /\ botAccounts' \subseteq Guilds
  BY DEF GuildCreated, BotInv, BotTypes
<1>2. BotTypes'
  BY <1>1 DEF BotInv, BotTypes
<1>3. \A w : (Raised(w) <=> Raised(w)') /\ (Finished(w) <=> Finished(w)') /\ (WireFits(w) <=> WireFits(w)')
  BY <1>1 DEF Raised, Finished, WireFits
<1>4. \A c : ClosingFits(c) <=> ClosingFits(c)'
  BY <1>1, <1>3 DEF ClosingFits
<1>5. \A h : ServerFits(h) <=> ServerFits(h)'
  BY <1>1, <1>3 DEF ServerFits
<1>6. \A t : (OpeningFits(t) <=> OpeningFits(t)') /\ (ClosesFit(t) <=> ClosesFit(t)')
  BY <1>1, <1>4 DEF OpeningFits, ClosesFit, At
<1> QED
  BY <1>1, <1>2, <1>3, <1>5, <1>6 DEF BotInv

\* A socket is closed only by the closing of a task.
LEMMA BotStep ==
    ASSUME BotInv, BotPresenceNext
    PROVE  BotInv' /\ \A w \in DOMAIN wires : wires'[w].at = "closed" /\ wires[w].at = "open" => Finished(w)
<1>t. BotTypes /\ wires \in Seq(Wires)
  BY DEF BotInv, BotTypes
<1>1. ASSUME NEW t \in Runners, CloseNext(t), tasks[t].closing # << >>
      PROVE  BotInv' /\ \A w \in DOMAIN wires : wires'[w].at = "closed" /\ wires[w].at = "open" => Finished(w)
  BY <1>1, BotCloses
<1>2. CASE \E t \in Runners : \/ Wait(t) \/ Exchange(t) \/ ExchangeFails(t) \/ Refused(t)
                              \/ (OpenNext(t) /\ UNCHANGED wires) \/ (CloseNext(t) /\ tasks[t].closing = << >>)
                              \/ TriggerSync \/ SyncDone \/ RemoveNext
  <2>1. UNCHANGED wires
    BY <1>2 DEF Wait, Exchange, ExchangeFails, Refused, CloseNext, TriggerSync, SyncDone, RemoveNext
  <2>2. BotInv'
    BY <1>2, BotWaits, BotGivesUp, BotRemoves
  <2> QED
    BY <2>1, <2>2
<1>3. ASSUME NEW t \in Runners, OpenNext(t), ~UNCHANGED wires
      PROVE  BotInv' /\ \A w \in DOMAIN wires : wires'[w] = wires[w]
  <2>1. BotInv'
    BY <1>3, BotOpens
  <2>2. PICK one : wires' = Append(wires, one)
    BY <1>3 DEF OpenNext
  <2> QED
    BY <2>1, <2>2, <1>t
<1>4. ASSUME NEW t \in Runners, Opened(t)
      PROVE  BotInv' /\ \A w \in DOMAIN wires : wires'[w].at = "closed" => wires[w].at # "open"
  <2>1. BotInv'
    BY <1>4, BotOpened
  <2>2. \A w \in DOMAIN wires : wires'[w] = wires[w] \/ wires'[w].at = "open"
    <3> DEFINE v == tasks[t].socket
    <3>1. v \in DOMAIN wires /\ wires[v] \in Wires
      BY <1>4, <1>t, WireIs DEF Opened, BotInv, OpeningFits
    <3>2. wires' = Attached(v) \/ wires' = [wires EXCEPT ![v].at = "open"]
      BY <1>4 DEF Opened
    <3> HIDE DEF v
    <3>3. CASE wires' = Attached(v)
      BY <3>1, <3>3 DEF Attached, Wires
    <3>4. CASE wires' = [wires EXCEPT ![v].at = "open"]
      BY <3>1, <3>4 DEF Wires
    <3> QED
      BY <3>2, <3>3, <3>4
  <2> QED
    BY <2>1, <2>2
<1>5. ASSUME NEW t \in Runners, AllUp(t)
      PROVE  BotInv' /\ \A w \in DOMAIN wires : wires'[w].at = wires[w].at
  BY <1>5, BotAllUp, <1>t, WireIs DEF AllUp, Wires
<1>6. ASSUME NEW v \in DOMAIN wires, Handshake(v) \/ Lost(v) \/ LossSeen(v)
      PROVE  BotInv' /\ \A w \in DOMAIN wires : wires'[w].at = "closed" => wires[w].at = "closed"
  <2>1. BotInv'
    BY <1>6, BotHears
  <2>2. wires[v] \in Wires
    BY <1>t, WireIs
  <2> QED
    BY <2>1, <2>2, <1>6, <1>t DEF Handshake, Lost, LossSeen, Wires
<1>7. ASSUME NEW g \in Guilds, GuildCreated(g)
      PROVE  BotInv' /\ UNCHANGED wires
  BY <1>7, BotGains DEF GuildCreated
<1> QED
  BY <1>1, <1>2, <1>3, <1>4, <1>5, <1>6, <1>7 DEF BotPresenceNext, Runners

\* Whatever order the cycles and the sync take their steps in, the bot hears of every
\* socket that a sync opened, and finishes on a socket before it closes it.
THEOREM ConnectionsAlwaysEndInOrder == BotPresenceSpec => ConnectionsEndInOrder
<1> DEFINE SyncHears == \A w \in DOMAIN wires : wires[w].at = "unheard" => wires[w].by # Sync
           Closed == \A w \in DOMAIN wires :
                        wires'[w].at = "closed" /\ wires[w].at = "open"
                            => wires[w].work = 0 \/ wires[w].attached > 1
<1>1. BotInv /\ [BotPresenceNext]_botPresenceVars => BotInv' /\ [Closed]_botPresenceVars
  <2> SUFFICES ASSUME BotInv, [BotPresenceNext]_botPresenceVars PROVE BotInv' /\ [Closed]_botPresenceVars
    OBVIOUS
  <2>1. CASE BotPresenceNext
    BY <2>1, BotStep DEF Finished
  <2>2. CASE UNCHANGED botPresenceVars
    <3>1. UNCHANGED <<botAccounts, exchange, botSockets, detachers, wires, tasks>>
      BY <2>2 DEF botPresenceVars
    <3>2. BotTypes'
      BY <3>1 DEF BotInv, BotTypes
    <3>3. \A w : (Raised(w) <=> Raised(w)') /\ (Finished(w) <=> Finished(w)') /\ (WireFits(w) <=> WireFits(w)')
      BY <3>1 DEF Raised, Finished, WireFits
    <3>4. \A c : ClosingFits(c) <=> ClosingFits(c)'
      BY <3>1, <3>3 DEF ClosingFits
    <3>5. \A h : ServerFits(h) <=> ServerFits(h)'
      BY <3>1, <3>3 DEF ServerFits
    <3>6. \A t : (OpeningFits(t) <=> OpeningFits(t)') /\ (ClosesFit(t) <=> ClosesFit(t)')
      BY <3>1, <3>4 DEF OpeningFits, ClosesFit, At
    <3> QED
      BY <2>2, <3>1, <3>2, <3>3, <3>5, <3>6 DEF BotInv
  <2> QED
    BY <2>1, <2>2
<1>2. BotInv => SyncHears
  BY DEF BotInv, WireFits
<1> QED
  BY <1>1, <1>2, BotStart, PTL DEF BotPresenceSpec, ConnectionsEndInOrder, DetachedBeforeClosed

=============================================================================
