----------------------------- MODULE BotPresence -----------------------------
(***************************************************************************)
(* Keeping the Music bot online: apps/bot/src/presence.ts with credentials.ts *)
(* and, on the server, the exchange of bots.ts.  One exchange mints a Session  *)
(* for every bot account and retires the ones before it; a socket proves its  *)
(* Session at the handshake and outlives it.                                *)
(*                                                                         *)
(* Two kinds of task run at once: `cycles`, which drop every socket and       *)
(* connect again, and a single `sync` with the servers there are now.  They   *)
(* share the maps `botSockets` and `detachers` and interleave at every await:    *)
(* the exchange, a handshake, a detacher, a backoff.                         *)
(***************************************************************************)
EXTENDS Naturals, Sequences, FiniteSets, SequencesExt

CONSTANTS
    Guilds,             \* servers that may have a bot account
    FirstGuilds,        \* those that have one when the bot starts
    Cycles,             \* reconnections that may be under way together
    MaxConnections,     \* bound on botSockets opened
    MaxExchanges        \* bound on exchanges

ASSUME BotPresenceAssumption == IsFiniteSet(Guilds) /\ FirstGuilds \subseteq Guilds

VARIABLES
    botAccounts,       \* server: the Guilds with an active bot account
    exchange,       \* server: number of the last exchange
    botSockets,        \* Guild -> socket
    detachers,      \* Guild -> the socket whose work it tears down
    wires,          \* every socket ever opened
    tasks,          \* the cycles and the sync
    polling         \* the one-minute timer runs

botPresenceVars == <<botAccounts, exchange, botSockets, detachers, wires, tasks, polling>>

Sync == "sync"
Idle == [at |-> "idle", todo |-> << >>, session |-> 0, socket |-> 0, closing |-> << >>,
         then |-> "idle"]
At(t, at) == tasks[t].at = at
Without(map, key) == [k \in DOMAIN map \ {key} |-> map[k]]
With(map, key, value) == [k \in DOMAIN map \cup {key} |-> IF k = key THEN value ELSE map[k]]

\* at: opening, accepted, refused, open; then lost (the transport is gone),
\* dead (onConnectionLost was told), unheard (nobody was) or closed by the bot.
\* attached: how many responders were attached to it, work: and still run.
Wire(g, session, by) ==
    [guild |-> g, session |-> session, by |-> by, at |-> "opening", heard |-> FALSE,
     attached |-> 0, work |-> 0]

BotPresenceInit ==
    /\ botAccounts = FirstGuilds
    /\ exchange = 0
    /\ botSockets = << >> /\ detachers = << >> /\ wires = << >>
    /\ tasks = [t \in Cycles \cup {Sync} |->
                  IF t = CHOOSE c \in Cycles : TRUE THEN [Idle EXCEPT !.at = "exchange"] ELSE Idle]
    /\ polling = FALSE

------------------------
\* What the closing of a socket tears down first, if anything.
Closing(g) == [socket |-> botSockets[g],
               detach |-> IF g \in DOMAIN detachers THEN detachers[g] ELSE 0]

\* dropSockets up to its first await: the maps are emptied.
Drop(t, then) ==
    /\ tasks' = [tasks EXCEPT ![t] = [Idle EXCEPT !.at = "closing", !.then = then,
                     !.closing = SetToSeq({Closing(g) : g \in DOMAIN botSockets})]]
    /\ botSockets' = << >>
    /\ detachers' = << >>

\* One socket of it: the detacher is awaited, then the socket is closed.
CloseNext(t) ==
    /\ At(t, "closing")
    /\ IF tasks[t].closing = << >>
         THEN /\ tasks' = [tasks EXCEPT ![t].at = tasks[t].then]
              /\ UNCHANGED wires
         ELSE LET c == Head(tasks[t].closing) IN
              IF c.detach # 0 /\ wires[c.detach].work > 0
              THEN /\ wires' = [wires EXCEPT ![c.detach].work = @ - 1]
                   /\ tasks' = [tasks EXCEPT ![t].closing[1].detach = 0]
              ELSE /\ wires' = [wires EXCEPT ![c.socket].at = "closed", ![c.socket].heard = FALSE]
                   /\ tasks' = [tasks EXCEPT ![t].closing = Tail(@)]
    /\ UNCHANGED <<botAccounts, exchange, botSockets, detachers, polling>>

\* reconnect's and connectAll's backoff.
Wait(t) ==
    /\ At(t, "wait")
    /\ tasks' = [tasks EXCEPT ![t].at = "exchange"]
    /\ UNCHANGED <<botAccounts, exchange, botSockets, detachers, wires, polling>>

\* POST /api/bot/sessions: the Sessions handed out before are retired.
Exchange(t) ==
    /\ At(t, "exchange")
    /\ exchange < MaxExchanges
    /\ exchange' = exchange + 1
    /\ tasks' = [tasks EXCEPT ![t] = [Idle EXCEPT !.session = exchange + 1,
                     !.todo = SetToSeq(botAccounts),
                     !.at = IF t = Sync THEN "remove" ELSE "next"]]
    /\ UNCHANGED <<botAccounts, botSockets, detachers, wires, polling>>

ExchangeFails(t) ==
    /\ At(t, "exchange")
    /\ IF t = Sync
         THEN /\ tasks' = [tasks EXCEPT ![t] = Idle]
              /\ UNCHANGED <<botSockets, detachers>>
         ELSE Drop(t, "wait")
    /\ UNCHANGED <<botAccounts, exchange, wires, polling>>

------------------------
Todo(t) == IF tasks[t].todo = << >> THEN {} ELSE {Head(tasks[t].todo)}

\* The next account of the exchange; a sync passes over those with a socket.
OpenNext(t) ==
    /\ At(t, "next")
    /\ \E g \in Todo(t) :
         IF t = Sync /\ g \in DOMAIN botSockets
         THEN /\ tasks' = [tasks EXCEPT ![t].todo = Tail(@)]
              /\ UNCHANGED wires
         ELSE /\ Len(wires) < MaxConnections
              /\ wires' = Append(wires, Wire(g, tasks[t].session, t))
              /\ tasks' = [tasks EXCEPT ![t].at = "opening", ![t].socket = Len(wires) + 1]
    /\ UNCHANGED <<botAccounts, exchange, botSockets, detachers, polling>>

\* Server: the handshake is judged by the Session alone.
Handshake(w) ==
    /\ wires[w].at = "opening"
    /\ wires' = [wires EXCEPT ![w].at =
                   IF wires[w].session = exchange /\ wires[w].guild \in botAccounts
                   THEN "accepted" ELSE "refused"]
    /\ UNCHANGED <<botAccounts, exchange, botSockets, detachers, tasks, polling>>

\* Mutant: a sync does not listen to the socket it opened.
AttachedUnheard(w) == [wires EXCEPT ![w].at = "open", ![w].work = @ + 1, ![w].attached = @ + 1]

Attached(w) == [wires EXCEPT ![w].at = "open", ![w].heard = TRUE, ![w].work = @ + 1, ![w].attached = @ + 1]

\* A cycle hears its botSockets once all are up, a sync each one at once.
Opened(t) ==
    /\ At(t, "opening")
    /\ LET w == tasks[t].socket
           g == wires[w].guild IN
       /\ wires[w].at = "accepted"
       /\ botSockets' = With(botSockets, g, w)
       /\ IF t = Sync
            THEN wires' = Attached(w) /\ detachers' = With(detachers, g, w)
            ELSE wires' = [wires EXCEPT ![w].at = "open"] /\ UNCHANGED detachers
    /\ tasks' = [tasks EXCEPT ![t].at = "next", ![t].todo = Tail(@)]
    /\ UNCHANGED <<botAccounts, exchange, polling>>

Refused(t) ==
    /\ At(t, "opening")
    /\ wires[tasks[t].socket].at = "refused"
    /\ IF t = Sync
         THEN /\ tasks' = [tasks EXCEPT ![t].at = "next", ![t].todo = Tail(@)]
              /\ UNCHANGED <<botSockets, detachers>>
         ELSE Drop(t, "wait")
    /\ UNCHANGED <<botAccounts, exchange, wires, polling>>

\* The end of connectOnce: whatever the map holds by now is listened to.
AllUp(t) ==
    /\ t # Sync /\ At(t, "next") /\ Todo(t) = {}
    /\ wires' = [w \in DOMAIN wires |->
                   IF \E g \in DOMAIN botSockets : botSockets[g] = w
                   THEN [wires[w] EXCEPT !.heard = TRUE, !.work = @ + 1, !.attached = @ + 1] ELSE wires[w]]
    /\ detachers' = [g \in DOMAIN botSockets |-> botSockets[g]]
    /\ tasks' = [tasks EXCEPT ![t] = Idle]
    /\ polling' = TRUE
    /\ UNCHANGED <<botAccounts, exchange, botSockets>>

------------------------
\* triggerSync, by the timer or by bot:resync: one at a time.
TriggerSync ==
    /\ polling /\ At(Sync, "idle")
    /\ tasks' = [tasks EXCEPT ![Sync].at = "exchange"]
    /\ UNCHANGED <<botAccounts, exchange, botSockets, detachers, wires, polling>>

\* Sockets of servers that are gone, one at a time.
RemoveNext ==
    /\ At(Sync, "remove")
    /\ LET gone == DOMAIN botSockets \ ToSet(tasks[Sync].todo) IN
       IF gone = {}
       THEN /\ tasks' = [tasks EXCEPT ![Sync].at = "next"]
            /\ UNCHANGED <<botSockets, detachers>>
       ELSE \E g \in gone :
            /\ tasks' = [tasks EXCEPT ![Sync].at = "closing", ![Sync].then = "remove",
                                      ![Sync].closing = <<Closing(g)>>]
            /\ botSockets' = Without(botSockets, g)
            /\ detachers' = Without(detachers, g)
    /\ UNCHANGED <<botAccounts, exchange, wires, polling>>

SyncDone ==
    /\ At(Sync, "next") /\ Todo(Sync) = {}
    /\ tasks' = [tasks EXCEPT ![Sync] = Idle]
    /\ UNCHANGED <<botAccounts, exchange, botSockets, detachers, wires, polling>>

\* The transport fails, or the server closes the socket; the client sees it
\* some time later, and onConnectionLost starts a cycle.
Lost(w) ==
    /\ wires[w].at = "open"
    /\ wires' = [wires EXCEPT ![w].at = "lost"]
    /\ UNCHANGED <<botAccounts, exchange, botSockets, detachers, tasks, polling>>

LossSeen(w) ==
    /\ wires[w].at = "lost"
    /\ wires' = [wires EXCEPT ![w].at = IF wires[w].heard THEN "dead" ELSE "unheard"]
    /\ IF wires[w].heard /\ wires[w].guild \in DOMAIN botSockets
         THEN \E t \in Cycles : At(t, "idle") /\ Drop(t, "wait")
         ELSE UNCHANGED <<botSockets, detachers, tasks>>
    /\ UNCHANGED <<botAccounts, exchange, polling>>

GuildCreated(g) ==
    /\ g \notin botAccounts
    /\ botAccounts' = botAccounts \cup {g}
    /\ UNCHANGED <<exchange, botSockets, detachers, wires, tasks, polling>>

BotPresenceNext ==
    \/ \E t \in Cycles \cup {Sync} :
          \/ CloseNext(t) \/ Wait(t) \/ Exchange(t) \/ ExchangeFails(t)
          \/ OpenNext(t) \/ Opened(t) \/ Refused(t) \/ AllUp(t)
    \/ \E w \in DOMAIN wires : Handshake(w) \/ Lost(w) \/ LossSeen(w)
    \/ TriggerSync \/ RemoveNext \/ SyncDone
    \/ \E g \in Guilds : GuildCreated(g)

BotPresenceSpec == BotPresenceInit /\ [][BotPresenceNext]_botPresenceVars

------------------------
\* What is attached to a socket has finished, a Set has said it is leaving,
\* before the bot closes the socket under it; unless a sync and a cycle both
\* attached to it, and only the second is known.
DetachedBeforeClosed ==
    [][\A w \in DOMAIN wires :
          wires'[w].at = "closed" /\ wires[w].at = "open"
              => wires[w].work = 0 \/ wires[w].attached > 1]_botPresenceVars

\* Connections end in order: the bot hears of every one it loses, but for one that
\* falls while its cycle is still opening the others, and finishes on a socket
\* it closes (bot/presence.ts, syncServers, connectOnce and dropSockets).
ConnectionsEndInOrder ==
    /\ [](\A w \in DOMAIN wires : wires[w].at = "unheard" => wires[w].by # Sync)
    /\ DetachedBeforeClosed

=============================================================================
