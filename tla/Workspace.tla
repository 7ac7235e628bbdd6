----------------------------- MODULE Workspace -----------------------------
(* Where a member is in the web client: its servers, the route, and the rooms  *)
(* that are loaded for it (useWorkspaceController.ts, App.tsx), while servers    *)
(* are created, joined and deleted. Every answer comes when it comes; those of   *)
(* the effects are dropped when what they were for has changed, those of the     *)
(* actions are not. Every request may fail.                                      *)
EXTENDS Integers, FiniteSets, SequencesExt, FiniteSetsExt

CONSTANTS
    ServerIds,      \* the servers there may be, in the order they are created
    MaxNews,        \* bound on what happens to servers
    MaxFlows        \* bound on the actions under way

ASSUME WorkspaceAssumption == ServerIds \subseteq Nat \ {0} /\ 1 \in ServerIds

VARIABLES
    belongs,        \* the servers of the member
    born, removed,     \* the servers ever created, and deleted
    happened,       \* counts what happened to servers
    news,           \* server:deleted on their way
    serverList,     \* servers of the controller
    listState,      \* serverListReady, or "error" for serverListError
    listAt,         \* what had happened when the list was read
    serverRoute,    \* the server of the route, or one of the two below
    heldRooms,      \* the server whose rooms are in rooms, or 0
    loaded,         \* roomsLoad
    roomsEffect,    \* the server whose rooms the effect fetches, or 0
    fallback,       \* the server the fallback effect fetches, or 0
    flows,          \* the actions under way, each at its next answer
    overlaid,       \* an answer came that was no longer for what is shown
    unlisted,       \* what had happened when a list of servers failed to come, until one does
    failed          \* a request of an effect failed

workspaceVars == <<belongs, born, removed, happened, news, serverList, listState, listAt, serverRoute,
                   heldRooms, loaded, roomsEffect, fallback, flows, overlaid, unlisted, failed>>
truthVars == <<belongs, born, removed, happened, news>>
uiVars == <<serverList, listState, listAt, serverRoute, heldRooms, loaded, roomsEffect, fallback>>
faultVars == <<overlaid, unlisted, failed>>

Landing == -1
InviteRoute == -2
DefaultServer == 1

(* activeServerId, and what the effect that loads rooms depends on.          *)
Active(r, list) ==
    IF r > 0 THEN r ELSE IF list = {} THEN DefaultServer ELSE Min(list)
Loads(r, list, state) == state = "ready" /\ Active(r, list) \in list
Wanted(r, list, state) == <<Active(r, list), Loads(r, list, state)>>

(* Where the effects of a render send the member.                            *)
SendsTo(r, list, state, at) ==
    CASE r > 0 /\ state = "ready" /\ list = {} -> InviteRoute
      [] r = Landing /\ state = "ready" /\ at = [server |-> Active(r, list), state |-> "ready"]
            -> Active(r, list)
      [] OTHER -> r

(* A change of the state and the effects that follow it.                        *)
Fetches(next, list, state) ==
    Wanted(next, list, state) # Wanted(serverRoute, serverList, listState)
Show(r, list, state, rooms, at, pending) ==
    LET next == SendsTo(r, list, state, at)
    IN  /\ serverRoute' = next /\ serverList' = list /\ listState' = state /\ heldRooms' = rooms
        /\ IF ~Fetches(next, list, state) THEN roomsEffect' = pending /\ loaded' = at
           ELSE IF ~Loads(next, list, state) THEN roomsEffect' = 0 /\ loaded' = at
           ELSE /\ roomsEffect' = Active(next, list)
                /\ loaded' = [server |-> Active(next, list), state |-> "loading"]
        /\ fallback' = IF next > 0 /\ state = "ready" /\ list # {} /\ next \notin list
                        THEN Min(list) ELSE 0

Goes(r) == Show(r, serverList, listState, heldRooms, loaded, roomsEffect)

NoList == {0}
Flow(kind, s) == [kind |-> kind, server |-> s, list |-> NoList, at |-> 0]
Finishes(f) == flows' = flows \ {f}

------------------------
WorkspaceInit ==
    /\ belongs \in {{}, {1}, {1, 2} \cap ServerIds}
    /\ born = {1, 2} \cap ServerIds /\ removed = {}
    /\ happened = 0 /\ news = <<>>
    /\ serverList = {} /\ listState = "loading" /\ listAt = 0
    /\ serverRoute \in {Landing, InviteRoute, 1, 2}
    /\ heldRooms = 0
    /\ loaded = [server |-> 0, state |-> "loading"]
    /\ roomsEffect = 0 /\ fallback = 0
    /\ flows = {Flow("list", 0)}
    /\ overlaid = FALSE /\ unlisted = 0 /\ failed = FALSE

(* What happens to servers. A new server and an accepted invite are the        *)
(* member's own doing; a deletion may be another owner's.                       *)
Deleted(s) ==
    /\ s \in belongs /\ happened < MaxNews
    /\ belongs' = belongs \ {s} /\ removed' = removed \cup {s}
    /\ happened' = happened + 1
    /\ news' = Append(news, s)
    /\ UNCHANGED born
ServerDeleted(s) ==
    /\ Deleted(s)
    /\ UNCHANGED <<uiVars, flows, faultVars>>

Joined(s) ==
    /\ happened < MaxNews
    /\ belongs' = belongs \cup {s} /\ born' = born \cup {s}
    /\ happened' = happened + 1
    /\ UNCHANGED <<removed, news>>

(* The member's actions.                                                     *)
Busy == Cardinality(flows) >= MaxFlows
Starts(f) == flows' = flows \cup {f} /\ UNCHANGED faultVars
InShell ==
    /\ listState = "ready" /\ serverRoute \in serverList
    /\ loaded = [server |-> serverRoute, state |-> "ready"]

SelectServer(s) ==
    /\ InShell /\ ~Busy /\ s \in serverList \ {serverRoute}
    /\ Starts(Flow("select", s))
    /\ UNCHANGED <<truthVars, uiVars>>
CreateServer(s) ==
    /\ InShell /\ ~Busy /\ s \in ServerIds \ born
    /\ Joined(s) /\ Starts([Flow("create", s) EXCEPT !.at = happened'])
    /\ UNCHANGED uiVars
DeleteServer(s) ==
    /\ InShell /\ ~Busy /\ s = serverRoute /\ belongs # {s}
    /\ Deleted(s) /\ Starts(Flow("deleted", s))
    /\ UNCHANGED uiVars
AcceptInvite(s) ==
    /\ serverRoute = InviteRoute /\ ~Busy /\ s \in born \ (belongs \cup removed)
    /\ Joined(s) /\ Starts(Flow("accepted", s))
    /\ UNCHANGED uiVars
SaveLayout ==
    /\ InShell /\ ~Busy
    /\ Starts(Flow("save", serverRoute))
    /\ UNCHANGED <<truthVars, uiVars>>
Navigate(r) ==
    /\ InShell /\ r \in {Landing, InviteRoute}
    /\ Goes(r)
    /\ UNCHANGED <<truthVars, listAt, flows, faultVars>>

HearDeleted ==
    /\ news # <<>>
    /\ news' = Tail(news)
    /\ Starts(Flow("deleted", Head(news)))
    /\ UNCHANGED <<belongs, born, removed, happened, uiVars>>

------------------------
(* The answers. The list of servers is read, and comes back later.           *)
ReadsList(f) ==
    /\ f.kind \in {"list", "deleted", "accepted"} /\ f.list = NoList
    /\ flows' = (flows \ {f}) \cup {[f EXCEPT !.list = belongs, !.at = happened]}
    /\ UNCHANGED <<truthVars, uiVars, faultVars>>

TakeList(f) ==
    /\ f.kind = "list"
    /\ Finishes(f)
    /\ Show(IF f.list = {} THEN InviteRoute ELSE serverRoute, f.list, "ready",
            heldRooms, loaded, roomsEffect)

TakeAccepted(f) ==
    /\ f.kind = "accepted" /\ f.server \in belongs
    /\ Finishes(f)
    /\ Show(f.server, f.list, listState, f.server, loaded, roomsEffect)

TakeAfterDeletion(f) ==
    /\ f.kind = "deleted"
    /\ IF serverRoute # f.server
       THEN Finishes(f) /\ Show(serverRoute, f.list, listState, heldRooms, loaded, roomsEffect)
       ELSE IF f.list = {}
       THEN Finishes(f) /\ Show(InviteRoute, {}, listState, 0, loaded, roomsEffect)
       ELSE /\ flows' = (flows \ {f}) \cup {Flow("moveOn", Min(f.list))}
            /\ Show(serverRoute, f.list, listState, heldRooms, loaded, roomsEffect)

ListAnswer(f) ==
    /\ f.list # NoList
    /\ TakeList(f) \/ TakeAccepted(f) \/ TakeAfterDeletion(f)
    /\ listAt' = f.at
    /\ overlaid' = (overlaid \/ f.at < listAt)
    /\ unlisted' = IF f.at < unlisted THEN unlisted ELSE 0
    /\ UNCHANGED <<truthVars, failed>>

(* The list at the start shows the failure; that of an accepted invite sends to *)
(* the landing, as do its rooms when refused; that after a deletion, and an      *)
(* action's own request, are dropped.                                          *)
RequestFails(f) ==
    /\ Finishes(f)
    /\ CASE f.kind = "list" -> Show(serverRoute, {}, "error", heldRooms, loaded, roomsEffect)
         [] f.kind = "accepted" -> Goes(Landing)
         [] OTHER -> UNCHANGED <<serverList, listState, serverRoute, heldRooms, loaded, roomsEffect, fallback>>
    /\ unlisted' = IF f.kind \in {"list", "deleted", "create"} \/ (f.kind = "accepted" /\ f.server \in belongs)
                   THEN happened ELSE unlisted
    /\ failed' = (failed \/ f.kind = "list")
    /\ UNCHANGED <<truthVars, listAt, overlaid>>

(* Rooms do not come where the request for them fails, or is refused (403) for  *)
(* a server the member is no longer in.                                        *)
RoomsAnswer(f) ==
    /\ f.kind \in {"select", "create", "moveOn", "save"}
    /\ Finishes(f)
    /\ \E there \in {f.server \in belongs, FALSE} :
       LET list == IF f.kind = "create" THEN serverList \cup {f.server} ELSE serverList
       IN  /\ Show(IF there /\ f.kind # "save" THEN f.server ELSE serverRoute, list, listState,
                   IF there /\ f.kind \in {"moveOn", "save"} THEN f.server ELSE heldRooms,
                   loaded, roomsEffect)
           /\ overlaid' = (overlaid
                         \/ (f.kind = "create" /\ f.server \notin belongs)
                         \/ (f.kind = "save" /\ there /\ f.server # Active(serverRoute, serverList)))
    /\ listAt' = Max({listAt, f.at})
    /\ UNCHANGED <<truthVars, unlisted, failed>>

RoomsLoaded ==
    /\ roomsEffect \in belongs
    /\ Show(serverRoute, serverList, listState, roomsEffect,
            [server |-> roomsEffect, state |-> "ready"], 0)
    /\ UNCHANGED <<truthVars, listAt, flows, faultVars>>

RoomsFail ==
    /\ roomsEffect # 0
    /\ Show(serverRoute, serverList, listState, 0,
            [server |-> roomsEffect, state |-> "error"], 0)
    /\ failed' = (failed \/ roomsEffect \in belongs)
    /\ UNCHANGED <<truthVars, listAt, flows, overlaid, unlisted>>

TakeFallback ==
    /\ fallback # 0
    /\ \E r \in ({fallback} \cap belongs) \cup {InviteRoute} : Goes(r)
    /\ UNCHANGED <<truthVars, listAt, flows, faultVars>>

WorkspaceNext ==
    \/ \E s \in ServerIds :
          \/ ServerDeleted(s) \/ SelectServer(s) \/ CreateServer(s)
          \/ DeleteServer(s) \/ AcceptInvite(s)
    \/ SaveLayout \/ HearDeleted \/ RoomsLoaded \/ RoomsFail \/ TakeFallback
    \/ \E r \in {Landing, InviteRoute} : Navigate(r)
    \/ \E f \in flows : ReadsList(f) \/ ListAnswer(f) \/ RoomsAnswer(f) \/ RequestFails(f)

WorkspaceSpec == WorkspaceInit /\ [][WorkspaceNext]_workspaceVars

------------------------
WorkspaceError == listState = "error" \/ loaded = [server |-> Active(serverRoute, serverList), state |-> "error"]

(* Nobody is left on a skeleton: once nothing is under way a member is in a     *)
(* server of its own with the rooms of that server loaded, or where invites     *)
(* are entered, or is shown the fatal state after a request of an effect failed; *)
(* and the rail lists its servers. Excluded are an older list that came after a  *)
(* newer one, a saved layout that came back to another server, and, until a       *)
(* newer list comes, what happened when the list failed to.                     *)
MembersArrive ==
    news = <<>> /\ flows = {} /\ roomsEffect = 0 /\ fallback = 0 /\ ~overlaid /\ unlisted = 0
    => \/ WorkspaceError /\ failed
       \/ /\ serverList = belongs
          /\ \/ serverRoute = InviteRoute \/ belongs = {}
             \/ /\ serverRoute \in belongs /\ heldRooms = serverRoute
                /\ loaded = [server |-> serverRoute, state |-> "ready"]

=============================================================================
