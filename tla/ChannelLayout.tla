--------------------------- MODULE ChannelLayout ---------------------------
(* The channels of one server: the rooms and categories with their positions  *)
(* (servers.ts), and the list an owner's Device shows and rearranges          *)
(* (useWorkspaceController.ts, ChannelOrganizer.tsx) while other owners change *)
(* the same server. Requests are answered in any order; the changes come in   *)
(* theirs.                                                                    *)
EXTENDS Integers, SequencesExt, FiniteSetsExt, Functions, TLC

CONSTANTS
    RoomIds,        \* the rooms there may be, numbered in the order of their ids
    VoiceIds,       \* those of kind "voice"
    CategoryIds,    \* the categories there may be
    MaxLayouts,     \* bound on the changes of the server
    MaxAsks         \* bound on the requests under way

ASSUME LayoutAssumption ==
    /\ RoomIds \subseteq Nat \ {0} /\ CategoryIds \subseteq Nat \ {0}
    /\ VoiceIds \subseteq RoomIds

VARIABLES
    layout,         \* the rows: rooms, cats, the ungrouped position; at counts the changes
    made,           \* the rooms and categories ever created
    arranged,       \* the layout the last layout write left
    changes,        \* server:roomsChanged on their way: the deleted room, or 0
    requested,      \* requests of the Device, with their answers once served
    received,       \* rooms, categories and uncategorizedPosition of the controller
    organized,      \* localGroups of the organizer
    saving,         \* <<groups>> while a layout is being saved
    opened,         \* the room of the route
    shownAt,        \* history: the changes in all that is shown,
    dueAt,          \* those that were, or would be but for a failed refresh,
    astray          \* and the open room comes from an older list, or may be gone untold

layoutVars == <<layout, made, arranged, changes, requested, received, organized, saving, opened,
                shownAt, dueAt, astray>>
ownerVars == <<received, organized, saving, opened, shownAt, dueAt, astray>>

Ungrouped == 0
NoAnswer == [at |-> 0]
Rejected == [at |-> -1]

(* What the list shows: the order of the groups, the group of each room and    *)
(* its rank there; in the ungrouped one the voice rooms come last.           *)
Ranked(at, group, key) ==
    LET late(r) == group[r] = Ungrouped /\ r \in VoiceIds
        ahead(a, b) == group[a] = group[b]
                       /\ IF late(a) = late(b) THEN key[a] < key[b] ELSE late(b)
    IN  [order |-> [g \in DOMAIN at |-> 1 + Cardinality({h \in DOMAIN at : at[h] < at[g]})],
         group |-> group,
         rank |-> [r \in DOMAIN group |-> 1 + Cardinality({x \in DOMAIN group : ahead(x, r)})]]

PositionOf(l, g) == IF g = Ungrouped THEN l.first ELSE l.cats[g]
ChannelGroups(l) ==
    LET members == {r \in DOMAIN l.rooms : l.rooms[r].cat \in {Ungrouped} \cup DOMAIN l.cats}
    IN  Ranked([g \in {Ungrouped} \cup DOMAIN l.cats |-> PositionOf(l, g)],
               [r \in members |-> l.rooms[r].cat], [r \in members |-> l.rooms[r].pos])

(* The groups a drag, a key or a menu asks for: one room or one group moved  *)
(* before the k-th of where it goes.                                         *)
Doubled(f) == [x \in DOMAIN f |-> 2 * f[x]]
MoveRoom(groups, r, g, k) ==
    Ranked(groups.order, [groups.group EXCEPT ![r] = g],
           [Doubled(groups.rank) EXCEPT ![r] = 2 * k - 1])
MoveGroup(groups, g, k) ==
    Ranked([Doubled(groups.order) EXCEPT ![g] = 2 * k - 1], groups.group, groups.rank)
Rearrangements(groups) ==
    LET places(S) == 1..Cardinality(S) + 1
    IN  {MoveRoom(groups, r, g, k) : r \in DOMAIN groups.group, g \in DOMAIN groups.order,
                                     k \in places(DOMAIN groups.group)}
        \cup {MoveGroup(groups, g, k) : g \in DOMAIN groups.order, k \in places(DOMAIN groups.order)}

(* What the routes write.                                                    *)
\* Mutant: the position is counted from the rooms there are.
WithRoomCounted(l, r, g) ==
    [l EXCEPT !.rooms = @ @@ (r :> [cat |-> g, pos |-> 10 * (Cardinality(DOMAIN @) + 1)])]
WithRoom(l, r, g) ==
    [l EXCEPT !.rooms = @ @@ (r :> [cat |-> g,
                                    pos |-> Max({0} \cup {@[x].pos : x \in DOMAIN @}) + 10])]
WithoutRoom(l, r) == [l EXCEPT !.rooms = [x \in DOMAIN @ \ {r} |-> @[x]]]
WithCategory(l, c) ==
    [l EXCEPT !.cats = @ @@ (c :> Max({0, l.first} \cup Range(@)) + 10)]
WithoutCategory(l, c) ==
    LET merged == {r \in DOMAIN l.rooms : l.rooms[r].cat \in {Ungrouped, c}}
        before(a, b) == \/ l.rooms[a].pos < l.rooms[b].pos
                        \/ l.rooms[a].pos = l.rooms[b].pos /\ a < b
        number(r) == 1 + Cardinality({x \in merged : before(x, r)})
    IN  [l EXCEPT !.cats = [x \in DOMAIN @ \ {c} |-> @[x]],
                  !.rooms = [r \in DOMAIN @ |-> IF r \in merged
                                                THEN [cat |-> Ungrouped, pos |-> 10 * number(r)]
                                                ELSE @[r]]]
FitsLayout(l, groups) ==
    /\ DOMAIN groups.group = DOMAIN l.rooms
    /\ DOMAIN groups.order = {Ungrouped} \cup DOMAIN l.cats
Rearranged(l, groups) ==
    LET place(r) == groups.order[groups.group[r]]
        before(a, b) == \/ place(a) < place(b)
                        \/ place(a) = place(b) /\ groups.rank[a] < groups.rank[b]
        number(r) == 1 + Cardinality({x \in DOMAIN groups.group : before(x, r)})
    IN  [l EXCEPT !.first = 10 * (groups.order[Ungrouped] - 1),
                  !.cats = [c \in DOMAIN @ |-> 10 * (groups.order[c] - 1)],
                  !.rooms = [r \in DOMAIN @ |-> [cat |-> groups.group[r], pos |-> 10 * number(r)]]]

------------------------
LayoutInit ==
    /\ layout = [at |-> 1, first |-> 0, cats |-> (1 :> 10),
                 rooms |-> (1 :> [cat |-> Ungrouped, pos |-> 10]) @@ (2 :> [cat |-> 1, pos |-> 20])]
    /\ made = [rooms |-> {1, 2}, cats |-> {1}]
    /\ arranged = layout
    /\ changes = <<>> /\ requested = <<>>
    /\ received = layout
    /\ organized = ChannelGroups(layout)
    /\ saving = <<>>
    /\ opened = 1
    /\ shownAt = 1 /\ dueAt = 1 /\ astray = FALSE

(* One request: its room, category and groups, and its answer.                *)
Ask(kind, r, c, groups) ==
    [kind |-> kind, room |-> r, cat |-> c, groups |-> groups, answer |-> NoAnswer]
RoomsAsk(r) == Ask("rooms", r, 0, <<>>)

(* What a write makes of the rows; a refusal (400, 404, 409) changes nothing. *)
Permitted(q) ==
    CASE q.kind = "createRoom" -> q.cat \in {Ungrouped} \cup DOMAIN layout.cats
      [] q.kind = "deleteRoom" -> q.room \in DOMAIN layout.rooms /\ Cardinality(DOMAIN layout.rooms) > 1
      [] q.kind = "renameRoom" -> q.room \in DOMAIN layout.rooms
      [] q.kind = "deleteCategory" -> q.cat \in DOMAIN layout.cats
      [] q.kind = "saveLayout" -> FitsLayout(layout, q.groups)
      [] OTHER -> TRUE
Written(q) ==
    CASE q.kind = "createRoom" -> WithRoom(layout, q.room, q.cat)
      [] q.kind = "deleteRoom" -> WithoutRoom(layout, q.room)
      [] q.kind = "createCategory" -> WithCategory(layout, q.cat)
      [] q.kind = "deleteCategory" -> WithoutCategory(layout, q.cat)
      [] q.kind = "saveLayout" -> Rearranged(layout, q.groups)
      [] q.kind = "renameRoom" -> layout

WriteRows(q) ==
    LET next == [Written(q) EXCEPT !.at = @ + 1]
    IN  /\ layout.at < MaxLayouts
        /\ Permitted(q)
        /\ layout' = next
        /\ arranged' = IF q.kind = "saveLayout" THEN next ELSE arranged
        /\ changes' = Append(changes, IF q.kind = "deleteRoom" THEN q.room ELSE 0)

(* The new rooms and categories have ids of their own.                       *)
Minted(q) ==
    /\ q.kind = "createRoom" => q.room \notin made.rooms
    /\ q.kind = "createCategory" => q.cat \notin made.cats
    /\ made' = [rooms |-> (made.rooms \cup {q.room}) \ {0}, cats |-> (made.cats \cup {q.cat}) \ {0}]

(* The writes somebody asks for, from the groups that are shown.              *)
Offered(groups) ==
    LET cats == DOMAIN groups.order
        here == DOMAIN groups.group
    IN  {Ask("createRoom", r, g, <<>>) : r \in RoomIds, g \in cats}
        \cup {Ask("createCategory", 0, c, <<>>) : c \in CategoryIds}
        \cup {Ask("deleteCategory", 0, c, <<>>) : c \in cats \ {Ungrouped}}
        \cup {Ask(k, r, 0, <<>>) : k \in {"deleteRoom", "renameRoom"}, r \in here}
        \cup {Ask("saveLayout", 0, 0, next) : next \in Rearrangements(groups)}

Elsewhere ==
    /\ layout.at < MaxLayouts
    /\ \E q \in Offered(ChannelGroups(layout)) : q.kind # "renameRoom" /\ Minted(q) /\ WriteRows(q)
    /\ UNCHANGED <<requested, ownerVars>>

(* The owner's Device asks. persist shows the new groups at once.             *)
AskWrite ==
    /\ Len(requested) < MaxAsks
    /\ \E q \in Offered(organized) :
          /\ Minted(q)
          /\ q.kind = "saveLayout" => saving = <<>>
          /\ requested' = Append(requested, q)
          /\ IF q.kind = "saveLayout" THEN organized' = q.groups /\ saving' = <<ChannelGroups(received)>>
             ELSE UNCHANGED <<organized, saving>>
    /\ UNCHANGED <<layout, arranged, changes, received, opened, shownAt, dueAt, astray>>

Hear ==
    /\ changes # <<>>
    /\ changes' = Tail(changes)
    /\ requested' = Append(requested, RoomsAsk(Head(changes)))
    /\ UNCHANGED <<layout, made, arranged, ownerVars>>

ServeAsk(i) ==
    LET q == requested[i]
    IN  /\ q.answer = NoAnswer
        /\ IF q.kind # "rooms" /\ Permitted(q)
           THEN WriteRows(q) /\ requested' = [requested EXCEPT ![i].answer = layout']
           ELSE /\ requested' = [requested EXCEPT ![i].answer = IF q.kind = "rooms" THEN layout ELSE Rejected]
                /\ UNCHANGED <<layout, arranged, changes>>
        /\ UNCHANGED <<made, ownerVars>>

(* A request or its answer is lost, which is an error to the Device too. A read *)
(* comes to the same either way; the other writes, to nothing asked or to       *)
(* another owner's write.                                                       *)
AskFails(i) ==
    /\ \/ requested[i].kind = "rooms" /\ requested[i].answer = NoAnswer
       \/ requested[i].kind = "saveLayout" /\ requested[i].answer # Rejected
    /\ requested' = [requested EXCEPT ![i].answer = Rejected]
    /\ UNCHANGED <<layout, made, arranged, changes, ownerVars>>

------------------------
(* The answers. A list that is set is what the organizer shows, older or not.  *)
Sets(l) == received' = l /\ organized' = ChannelGroups(l)
ShowsAt(at) == shownAt' = at /\ dueAt' = Max({dueAt, shownAt, at})
Lists(l) == Sets(l) /\ ShowsAt(l.at)
Older(l) == l.at < dueAt
Done(i) == requested' = RemoveAt(requested, i)

TakeRooms(i, q) ==
    LET target == LET alike == {r \in DOMAIN q.answer.rooms : (r \in VoiceIds) <=> (q.room \in VoiceIds)}
                      among == IF alike = {} THEN DOMAIN q.answer.rooms ELSE alike
                  IN  CHOOSE r \in among : \A x \in among : q.answer.rooms[r].pos <= q.answer.rooms[x].pos
    IN  /\ q.kind = "rooms" /\ q.answer # Rejected
        /\ Lists(q.answer) /\ Done(i)
        /\ IF opened = q.room THEN opened' = target /\ astray' = Older(q.answer)
           ELSE UNCHANGED <<opened, astray>>
        /\ UNCHANGED saving

TakeSaved(i, q) ==
    /\ q.kind = "saveLayout"
    /\ saving' = <<>> /\ Done(i)
    /\ IF q.answer = Rejected
       THEN /\ organized' = saving[1]
            /\ ShowsAt(IF saving[1] = ChannelGroups(received) THEN shownAt ELSE 0)
            /\ UNCHANGED received
       ELSE Lists(q.answer)
    /\ UNCHANGED <<opened, astray>>

TakeRoom(i, q) ==
    /\ q.kind \in {"createRoom", "renameRoom"} /\ q.answer # Rejected
    /\ ShowsAt(Min({shownAt, q.answer.at})) /\ Done(i)
    /\ IF q.kind = "createRoom" \/ q.room \in DOMAIN received.rooms
       THEN Sets([received EXCEPT !.rooms = (q.room :> q.answer.rooms[q.room]) @@ @])
       ELSE UNCHANGED <<received, organized>>
    /\ IF q.kind = "createRoom" THEN opened' = q.room /\ astray' = Older(q.answer)
       ELSE UNCHANGED <<opened, astray>>
    /\ UNCHANGED saving

TakeCategory(i, q) ==
    /\ q.kind = "createCategory" /\ q.answer # Rejected
    /\ Sets([received EXCEPT !.cats = (q.cat :> q.answer.cats[q.cat]) @@ @])
    /\ ShowsAt(Min({shownAt, q.answer.at})) /\ Done(i)
    /\ UNCHANGED <<opened, saving, astray>>

TakeDeleted(i, q) ==
    /\ q.kind \in {"deleteRoom", "deleteCategory"} /\ q.answer # Rejected
    /\ requested' = Append(RemoveAt(requested, i), RoomsAsk(q.room))
    /\ UNCHANGED ownerVars

(* A refusal or a failure; that of a refresh is swallowed.                     *)
TakeRefused(i, q) ==
    /\ q.kind # "saveLayout" /\ q.answer = Rejected
    /\ Done(i)
    /\ IF q.kind = "rooms" THEN dueAt' = Max({dueAt, layout.at}) /\ astray' = (astray \/ opened = q.room)
       ELSE UNCHANGED <<dueAt, astray>>
    /\ UNCHANGED <<received, organized, opened, saving, shownAt>>

Take(i) ==
    /\ requested[i].answer # NoAnswer
    /\ \/ TakeRooms(i, requested[i]) \/ TakeSaved(i, requested[i]) \/ TakeRoom(i, requested[i])
       \/ TakeCategory(i, requested[i]) \/ TakeDeleted(i, requested[i]) \/ TakeRefused(i, requested[i])
    /\ UNCHANGED <<layout, made, arranged, changes>>

OpenChannel(r) ==
    /\ r \in DOMAIN organized.group \ {opened}
    /\ opened' = r
    /\ astray' = (shownAt < dueAt)
    /\ UNCHANGED <<layout, made, arranged, changes, requested, received, organized, saving, shownAt, dueAt>>

LayoutNext ==
    \/ Elsewhere \/ AskWrite \/ Hear
    \/ \E i \in DOMAIN requested : ServeAsk(i) \/ AskFails(i) \/ Take(i)
    \/ \E r \in RoomIds : OpenChannel(r)

LayoutSpec == LayoutInit /\ [][LayoutNext]_layoutVars

------------------------
(* Only a layout write reorders: whatever is created and deleted after it, two *)
(* rooms it put in one group and that still share one, two groups that are      *)
(* both still there, and a room made since in one of its categories, are in     *)
(* the order it gave them (servers.ts: positions are counted, never recounted   *)
(* across groups).                                                              *)
ArrangementIsKept ==
    LET old == DOMAIN arranged.rooms \cap DOMAIN layout.rooms
        groups == {Ungrouped} \cup (DOMAIN arranged.cats \cap DOMAIN layout.cats)
    IN  /\ \A r, s \in old :
              /\ arranged.rooms[r].cat = arranged.rooms[s].cat
              /\ layout.rooms[r].cat = layout.rooms[s].cat
              /\ arranged.rooms[r].pos < arranged.rooms[s].pos
              => layout.rooms[r].pos < layout.rooms[s].pos
        /\ \A g, h \in groups :
              PositionOf(arranged, g) < PositionOf(arranged, h)
              => PositionOf(layout, g) < PositionOf(layout, h)
        /\ \A r \in old, n \in DOMAIN layout.rooms \ DOMAIN arranged.rooms :
              layout.rooms[n].cat = layout.rooms[r].cat /\ layout.rooms[r].cat # Ungrouped
              => layout.rooms[r].pos < layout.rooms[n].pos

(* Once nothing is under way the owner sees the channels as they are, and is in *)
(* one that exists. A list that an older answer or the end of a failed save has *)
(* replaced, or whose refresh failed, is right again with the next; a deleted    *)
(* room entered from such a list, or whose own refresh failed, stays open, both  *)
(* faults.                                                                      *)
ListSettles ==
    changes = <<>> /\ requested = <<>>
    => /\ shownAt >= dueAt => organized = ChannelGroups(layout)
       /\ (opened \in DOMAIN layout.rooms \/ astray)

\* The server's order of the channels, and the owner's view of it.
ChannelsHold == ArrangementIsKept /\ ListSettles

=============================================================================
