------------------------------ MODULE KeptState ------------------------------
(* What the desktop app keeps on disk: its preferences (the saved              *)
(* Installations, the one to open, closing to the tray), changed by commands   *)
(* of Home and of the page shown, one at a time under the shell's lock; and    *)
(* where its windows were left, written half a second after they last moved    *)
(* and whenever one is closed, by tasks that share one temporary file.  The    *)
(* app may be killed between any two steps, and starts from what it finds.     *)
EXTENDS Naturals, FiniteSets

CONSTANTS Entries, NoEntry, EntryLimit, MaxPleas, MaxMoves, MaxKills, MaxFaults

ASSUME KeptStateAssumption ==
    /\ NoEntry \notin Entries
    /\ EntryLimit \in Nat \ {0}

VARIABLES inMemory,  \* Inner.preferences
          filed,     \* installations.json
          keeping,   \* the command that holds the lock, between the steps of its save
          pleas,     \* the commands that wait for the lock
          shownPage, \* the Installation's window: its entry, its generation, how it was chosen
          homeSees,  \* Home: what it was last told, and whether an event tells it to read again
          appUp,     \* the app: "up", "down", "starting", or "refused" when load refuses its file
          used,      \* how often anything happened that is bounded
          meant,     \* the entries the member saved or typed, signed in to, picked as default
          places     \* the windows' placements: memory, the two files, the writers, the timer

keptVars == <<inMemory, filed, keeping, pleas, shownPage, homeSees, appUp, used, meant, places>>

FreshPrefs == [entries |-> {}, named |-> {}, opening |-> NoEntry, onStart |-> FALSE, quits |-> FALSE]

(* What load accepts. *)
Loadable(prefs) ==
    /\ Cardinality(prefs.entries) <= EntryLimit
    /\ prefs.opening \in prefs.entries \cup {NoEntry}

NoPage == [entry |-> NoEntry, number |-> 0, chosen |-> FALSE]
Unheld == [step |-> "free"]
Whole(at) == [at |-> at, torn |-> FALSE]
Torn == [at |-> 0, torn |-> TRUE]
Absent == [at |-> 0, torn |-> FALSE]

NewPlaces == [where |-> 0, timer |-> FALSE, sheet |-> Absent, placed |-> Absent, there |-> FALSE,
              timed |-> Unheld, closing |-> Unheld, unsaved |-> FALSE]

KeptStateInit ==
    /\ inMemory = FreshPrefs
    /\ filed = FreshPrefs
    /\ keeping = Unheld
    /\ pleas = {}
    /\ shownPage = NoPage
    /\ homeSees = [shown |-> FreshPrefs, again |-> FALSE, busy |-> FALSE, renames |-> FALSE]
    /\ appUp = "up"
    /\ used = [pleas |-> 0, moves |-> 0, kills |-> 0, faults |-> 0, pages |-> 0]
    /\ meant = [local |-> {}, signed |-> {}, picked |-> {NoEntry}]
    /\ places = NewPlaces

Count(what) == used' = [used EXCEPT ![what] = @ + 1]

------------------------
(* The commands. *)

Plea(kind, from) == [kind |-> kind, from |-> from, entry |-> NoEntry, enabled |-> FALSE]

Asks(plea) ==
    /\ appUp = "up"
    /\ used.pleas < MaxPleas
    /\ pleas' = pleas \cup {plea}
    /\ Count("pleas")

(* Home's own commands, one at a time. *)
HomeAsks(plea) ==
    /\ ~homeSees.busy
    /\ Asks(plea)
    /\ homeSees' = [homeSees EXCEPT !.busy = TRUE]
    /\ UNCHANGED <<inMemory, filed, keeping, shownPage, appUp, places>>

PressSave ==
    \E e \in Entries : /\ HomeAsks([Plea("save", 0) EXCEPT !.entry = e])
                       /\ meant' = [meant EXCEPT !.local = @ \cup {e}]

PressForget ==
    \E e \in homeSees.shown.entries : HomeAsks([Plea("forget", 0) EXCEPT !.entry = e]) /\ UNCHANGED meant

(* "Make default" and "Remove default" of a row, and the switch above them. *)
PressDefault ==
    \E e \in homeSees.shown.entries, ticks \in BOOLEAN :
        LET isDefault == e = homeSees.shown.opening
            picked == IF isDefault /\ ~ticks THEN NoEntry ELSE e
        IN /\ ticks => isDefault
           /\ HomeAsks([Plea("default", 0) EXCEPT !.entry = picked,
                                                   !.enabled = (ticks # homeSees.shown.onStart) /\ picked # NoEntry])
           /\ meant' = [meant EXCEPT !.picked = @ \cup {picked}]

(* A rename waits for nothing else Home does. *)
PressRename ==
    /\ ~homeSees.renames
    /\ \E e \in homeSees.shown.entries, name \in BOOLEAN :
           Asks([Plea("rename", 0) EXCEPT !.entry = e, !.enabled = name])
    /\ homeSees' = [homeSees EXCEPT !.renames = TRUE]
    /\ UNCHANGED <<inMemory, filed, keeping, shownPage, appUp, meant, places>>

(* The page: its switch, and a sign-in the browser approved. *)
PageAsks ==
    /\ shownPage.entry # NoEntry
    /\ \/ /\ \E enabled \in BOOLEAN : Asks([Plea("quits", shownPage.number) EXCEPT !.enabled = enabled])
          /\ UNCHANGED meant
       \/ /\ Asks(Plea("signedIn", shownPage.number))
          /\ meant' = IF shownPage.chosen THEN [meant EXCEPT !.signed = @ \cup {shownPage.entry}] ELSE meant
    /\ UNCHANGED <<inMemory, filed, keeping, shownPage, homeSees, appUp, places>>

(* Home opens an Installation the member typed or picked, or a link's; leaves it. *)
OpensPage ==
    /\ appUp = "up"
    /\ keeping = Unheld
    /\ used.pages < MaxPleas
    /\ \E e \in Entries, typed \in BOOLEAN :
          /\ e # shownPage.entry
          /\ shownPage' = [entry |-> e, number |-> used.pages + 1, chosen |-> typed \/ e \in inMemory.entries]
          /\ meant' = IF typed THEN [meant EXCEPT !.local = @ \cup {e}] ELSE meant
    /\ Count("pages")
    /\ UNCHANGED <<inMemory, filed, keeping, pleas, homeSees, appUp, places>>

Leaves ==
    /\ appUp = "up"
    /\ keeping = Unheld
    /\ shownPage.entry # NoEntry
    /\ shownPage' = NoPage
    /\ UNCHANGED <<inMemory, filed, keeping, pleas, homeSees, appUp, used, meant, places>>

------------------------
(* Under the lock. *)

Remembers(prefs, e) == [prefs EXCEPT !.entries = @ \cup {e}, !.opening = e, !.onStart = TRUE]

Forgets(prefs, e) ==
    [prefs EXCEPT !.entries = @ \ {e}, !.named = @ \ {e},
                  !.opening = IF @ = e THEN NoEntry ELSE @,
                  !.onStart = @ /\ prefs.opening # e]

Selects(prefs, e, enabled) == [prefs EXCEPT !.opening = e, !.onStart = enabled /\ e # NoEntry]

Fits(prefs, e) == e \in prefs.entries \/ Cardinality(prefs.entries) < EntryLimit

FromAnyPage(plea) == plea.from = 0 \/ shownPage.entry # NoEntry

(* A command of a page that was replaced meanwhile is refused. *)
FromCurrent(plea) == plea.from = 0 \/ (shownPage.entry # NoEntry /\ plea.from = shownPage.number)

PleaAllowed(plea) ==
    /\ FromCurrent(plea)
    /\ CASE plea.kind = "save"     -> Fits(inMemory, plea.entry)
         [] plea.kind = "forget"   -> shownPage.entry # plea.entry
         [] plea.kind = "default"  -> plea.entry \in inMemory.entries \cup {NoEntry}
         [] plea.kind = "rename"   -> plea.entry \in inMemory.entries
         [] plea.kind = "signedIn" -> shownPage.chosen /\ Fits(inMemory, shownPage.entry)
         [] OTHER                  -> TRUE

Wanted(plea) ==
    CASE plea.kind = "save"     -> [inMemory EXCEPT !.entries = @ \cup {plea.entry}]
      [] plea.kind = "forget"   -> Forgets(inMemory, plea.entry)
      [] plea.kind = "default"  -> Selects(inMemory, plea.entry, plea.enabled)
      [] plea.kind = "rename"   -> [inMemory EXCEPT !.named = IF plea.enabled THEN @ \cup {plea.entry} ELSE @ \ {plea.entry}]
      [] plea.kind = "signedIn" -> Remembers(inMemory, shownPage.entry)
      [] OTHER                  -> [inMemory EXCEPT !.quits = plea.enabled]

(* Home is answered with the preferences, or with an error it only shows. *)
PleaAnswered(plea, heard, prefs) ==
    LET over == [homeSees EXCEPT !.busy = IF plea.kind = "rename" THEN @ ELSE FALSE,
                                 !.renames = IF plea.kind = "rename" THEN FALSE ELSE @]
    IN IF plea.from = 0 THEN [over EXCEPT !.shown = IF heard THEN prefs ELSE @] ELSE homeSees

Serves(plea) ==
    /\ keeping = Unheld
    /\ pleas' = pleas \ {plea}
    /\ IF PleaAllowed(plea) /\ ~(plea.kind = "save" /\ plea.entry \in inMemory.entries)
         THEN /\ keeping' = [step |-> "write", plea |-> plea, next |-> Wanted(plea)]
              /\ UNCHANGED homeSees
         ELSE /\ homeSees' = PleaAnswered(plea, PleaAllowed(plea), inMemory)
              /\ UNCHANGED keeping
    /\ UNCHANGED <<inMemory, filed, shownPage, appUp, used, meant, places>>

(* save writes the temporary file, then renames it over the old one. *)
Written ==
    /\ keeping.step = "write"
    /\ keeping' = [keeping EXCEPT !.step = "rename"]
    /\ UNCHANGED <<inMemory, filed, pleas, shownPage, homeSees, appUp, used, meant, places>>

Renamed ==
    /\ keeping.step = "rename"
    /\ filed' = keeping.next
    /\ keeping' = [keeping EXCEPT !.step = "remember"]
    /\ UNCHANGED <<inMemory, pleas, shownPage, homeSees, appUp, used, meant, places>>

SaveFails ==
    /\ keeping.step \in {"write", "rename"}
    /\ used.faults < MaxFaults
    /\ homeSees' = PleaAnswered(keeping.plea, FALSE, inMemory)
    /\ keeping' = Unheld
    /\ Count("faults")
    /\ UNCHANGED <<inMemory, filed, pleas, shownPage, appUp, meant, places>>

(* The answer goes out with the lock; Home hears of a settings change too. *)
Remembered ==
    /\ keeping.step = "remember"
    /\ inMemory' = keeping.next
    /\ homeSees' = [PleaAnswered(keeping.plea, TRUE, keeping.next)
                      EXCEPT !.again = @ \/ keeping.plea.kind \notin {"save", "forget"}]
    /\ keeping' = Unheld
    /\ UNCHANGED <<filed, pleas, shownPage, appUp, used, meant, places>>

HomeReads ==
    /\ appUp = "up"
    /\ homeSees.again
    /\ keeping = Unheld
    /\ homeSees' = [homeSees EXCEPT !.again = FALSE, !.shown = inMemory]
    /\ UNCHANGED <<inMemory, filed, keeping, pleas, shownPage, appUp, used, meant, places>>

------------------------
(* Where the windows were left. *)

Moves ==
    /\ appUp = "up"
    /\ used.moves < MaxMoves
    /\ Count("moves")
    /\ places' = [places EXCEPT !.where = @ + 1, !.timer = TRUE]
    /\ UNCHANGED <<inMemory, filed, keeping, pleas, shownPage, homeSees, appUp, meant>>

Scribes == {"timed", "closing"}
Scribe(at) == [step |-> "begun", at |-> at, to |-> "nowhere"]

(* The half second after the last move: a write takes less than that. *)
TimerFires ==
    /\ places.timer
    /\ places.timed = Unheld
    /\ (places.closing # Unheld => places.closing.at = places.where)
    /\ places' = [places EXCEPT !.timer = FALSE, !.timed = Scribe(places.where), !.unsaved = FALSE]
    /\ UNCHANGED <<inMemory, filed, keeping, pleas, shownPage, homeSees, appUp, used, meant>>

WindowCloses ==
    /\ appUp = "up"
    /\ places.closing = Unheld
    /\ used.moves > 0
    /\ places' = [places EXCEPT !.closing = Scribe(places.where), !.unsaved = @ /\ places.timed # Unheld]
    /\ UNCHANGED <<inMemory, filed, keeping, pleas, shownPage, homeSees, appUp, used, meant>>

(* fs::write truncates the temporary file it opens, then fills it. *)
Truncates(s) ==
    /\ places[s].step = "begun"
    /\ places' = [places EXCEPT ![s].step = "opened", ![s].to = "sheet", !.sheet = Torn, !.there = TRUE]
    /\ UNCHANGED <<inMemory, filed, keeping, pleas, shownPage, homeSees, appUp, used, meant>>

Fills(s) ==
    /\ places[s].step = "opened"
    /\ places' = [places EXCEPT ![s].step = "filled",
                                !.sheet = IF places[s].to = "sheet" THEN Whole(places[s].at) ELSE @,
                                !.placed = IF places[s].to = "placed" THEN Whole(places[s].at) ELSE @]
    /\ UNCHANGED <<inMemory, filed, keeping, pleas, shownPage, homeSees, appUp, used, meant>>

(* The other writer's open file moves with its name; without the name a rename fails. *)
Rides(scribe) ==
    IF scribe = Unheld THEN Unheld
    ELSE [scribe EXCEPT !.to = IF @ = "sheet" THEN "placed" ELSE IF @ = "placed" THEN "nowhere" ELSE @]

Renames(s) ==
    LET other == CHOOSE o \in Scribes : o # s IN
    /\ places[s].step = "filled"
    /\ places' = IF places.there
                   THEN [places EXCEPT ![s] = Unheld, ![other] = Rides(@), !.placed = places.sheet,
                                       !.sheet = Absent, !.there = FALSE]
                   ELSE [places EXCEPT ![s] = Unheld]
    /\ UNCHANGED <<inMemory, filed, keeping, pleas, shownPage, homeSees, appUp, used, meant>>

(* A write that fails may leave the temporary file cut short; nobody is told,  *)
(* and another that was under way may rename what it left.  unsaved: one has   *)
(* failed since the timer last fired, or since a write began on its own.       *)
PlacementFails(s) ==
    /\ places[s].step \in {"begun", "filled"}
    /\ used.faults < MaxFaults
    /\ Count("faults")
    /\ places' = [places EXCEPT ![s] = Unheld, !.unsaved = TRUE]
    /\ UNCHANGED <<inMemory, filed, keeping, pleas, shownPage, homeSees, appUp, meant>>

------------------------
(* The app ends at any moment, and starts again. *)

Killed ==
    /\ appUp = "up"
    /\ used.kills < MaxKills
    /\ appUp' = "down"
    /\ keeping' = Unheld
    /\ pleas' = {}
    /\ shownPage' = NoPage
    /\ homeSees' = [homeSees EXCEPT !.again = FALSE, !.busy = FALSE, !.renames = FALSE]
    /\ places' = [places EXCEPT !.timed = Unheld, !.closing = Unheld, !.timer = FALSE]
    /\ Count("kills")
    /\ UNCHANGED <<inMemory, filed, meant>>

(* A file of placements that cannot be read is as good as none. *)
AppStarts ==
    /\ appUp = "down"
    /\ IF Loadable(filed)
         THEN /\ appUp' = "up"
              /\ inMemory' = filed
              /\ homeSees' = [homeSees EXCEPT !.shown = filed]
              /\ shownPage' = IF filed.onStart /\ filed.opening # NoEntry
                           THEN [entry |-> filed.opening, number |-> used.pages + 1, chosen |-> TRUE]
                           ELSE NoPage
              /\ used' = [used EXCEPT !.pages = @ + 1]
         ELSE /\ appUp' = "refused"
              /\ UNCHANGED <<inMemory, homeSees, shownPage, used>>
    /\ places' = [places EXCEPT !.where = IF places.placed.torn THEN 0 ELSE places.placed.at,
                                !.unsaved = places.placed.torn]
    /\ UNCHANGED <<filed, keeping, pleas, meant>>

PreferencesNext ==
    \/ PressSave \/ PressForget \/ PressDefault \/ PressRename \/ PageAsks \/ OpensPage \/ Leaves
    \/ \E plea \in pleas : Serves(plea)
    \/ Written \/ Renamed \/ SaveFails \/ Remembered \/ HomeReads
    \/ Killed \/ AppStarts

PlacementsNext ==
    \/ Moves \/ TimerFires \/ WindowCloses
    \/ \E s \in Scribes : Truncates(s) \/ Fills(s) \/ Renames(s) \/ PlacementFails(s)
    \/ Killed \/ AppStarts

(* The two halves share only the life of the app. *)
KeptStateNext == PreferencesNext \/ PlacementsNext

KeptStateSpec == KeptStateInit /\ [][KeptStateNext]_keptVars

------------------------
(* Whatever moment the app is killed at, it starts again, from the preferences *)
(* as they were before the command it was at or after it, and never opens at   *)
(* its start an Installation that is not in its list.  What it opens the member *)
(* picked in Home, or signed in to after opening it themselves: not the page   *)
(* that replaced the one they signed in on.  When nothing is under way Home    *)
(* shows what is kept.                                                         *)
PreferencesSurvive ==
    /\ appUp # "refused" /\ Loadable(filed)
    /\ appUp = "up" => filed = inMemory \/ (keeping.step = "remember" /\ filed = keeping.next)
    /\ inMemory.opening \in meant.signed \cup meant.picked
    /\ inMemory.onStart => inMemory.opening \in inMemory.entries
    /\ inMemory.entries \subseteq meant.local \cup meant.signed
    /\ appUp = "up" /\ ~homeSees.busy /\ ~homeSees.renames /\ ~homeSees.again /\ keeping = Unheld =>
           homeSees.shown = inMemory

(* When no window moves, no write is under way and none has failed since the   *)
(* last that began, the file says where the windows are, though two tasks      *)
(* write it through one temporary file and either may rename what the other    *)
(* has only begun.                                                             *)
PlacementsSettle ==
    appUp = "up" /\ ~places.timer /\ places.timed = Unheld /\ places.closing = Unheld /\ ~places.unsaved =>
        places.placed = Whole(places.where)

KeptStateHolds == PreferencesSurvive /\ PlacementsSettle

=============================================================================
