------------------------------- MODULE Invites -------------------------------
(***************************************************************************)
(* How an account gets into a server and loses its place in it:              *)
(* apps/server/src/invites.ts, and the membership routes of app.ts that      *)
(* revoke what a member issued.  One server.  An invite may be limited in    *)
(* uses and in time; a use is recorded for good; an invite nobody joined     *)
(* through is deleted a while after it ended.  An access link signs a member *)
(* back in.                                                                  *)
(*                                                                         *)
(* The challenge of the accept route is awaited before the invite is read,   *)
(* and the transaction after it runs in one go.                              *)
(***************************************************************************)
EXTENDS Accounts, FiniteSets

CONSTANTS
    UseLimits,      \* what an invite may be limited to; Unlimited among them
    Unlimited,
    MaxInvites,     \* bound on invites created
    MaxActive,      \* maxActiveInvitesPerCreator
    MaxAccessLinks  \* bound on access links made

ASSUME InvitesAssumption == UseLimits \ {Unlimited} \subseteq Nat

VARIABLES
    membership,     \* server_members rows: banned_at, removed_at, can_invite
    invites,        \* invites rows with their invite_uses
    accessLinks     \* access_claims rows

inviteVars == <<membership, invites, accessLinks>>

Outside == [row |-> FALSE, banned |-> FALSE, removed |-> FALSE, canInvite |-> FALSE]
Inside == [Outside EXCEPT !.row = TRUE]

InvitesInit ==
    /\ membership = [u \in Users |-> IF u \in {Owner, Member} THEN Inside ELSE Outside]
    /\ invites = << >>
    /\ accessLinks = << >>

ActiveMember(u) == membership[u].row /\ ~membership[u].banned /\ ~membership[u].removed

MayCreateInvites(u) == ActiveMember(u) /\ (u = Owner \/ membership[u].canInvite)

\* Revoked and expired invites answer alike, and keep the time they ended at.
Unrevoked(i) == invites[i].status = "active"

Spent(i) == invites[i].limit # Unlimited /\ Cardinality(invites[i].uses) >= invites[i].limit

InvitesOf(u) == {i \in DOMAIN invites : invites[i].by = u}

\* revokeInvitesCreatedBy.
InvitesWithout(gone) ==
    [i \in DOMAIN invites |->
        IF i \in gone /\ Unrevoked(i) THEN [invites[i] EXCEPT !.status = "ended"]
        ELSE invites[i]]

CreateInvite(u, limit) ==
    /\ Acts(u) /\ MayCreateInvites(u)
    /\ Cardinality({i \in InvitesOf(u) : Unrevoked(i)}) < MaxActive
    /\ Len(invites) < MaxInvites
    /\ invites' = Append(invites,
                     [by |-> u, limit |-> limit, uses |-> {}, status |-> "active"])
    /\ UNCHANGED <<membership, accessLinks, accountVars>>

RevokeInvite(i) ==
    /\ Unrevoked(i) /\ ~Spent(i)
    /\ invites' = InvitesWithout({i})
    /\ UNCHANGED <<membership, accessLinks, accountVars>>

\* The refusals of the transaction, whoever asks.
AcceptsInvite(i, u) ==
    /\ Unrevoked(i)
    /\ ~membership[u].banned
    /\ u \notin invites[i].uses
    /\ ~Spent(i)
    /\ ~ActiveMember(u)

Activated(i, u) ==
    /\ membership' = [membership EXCEPT ![u].row = TRUE, ![u].removed = FALSE]
    /\ invites' = [invites EXCEPT ![i].uses = @ \cup {u}]
    /\ UNCHANGED accessLinks

\* Somebody signed in joins; somebody with no account gets one, and a Session.
AcceptSignedIn(u, i) ==
    /\ Acts(u) /\ AcceptsInvite(i, u)
    /\ Activated(i, u)
    /\ UNCHANGED accountVars

AcceptAsNewcomer(u, i) ==
    /\ u \in Newcomers \ accounts
    /\ AcceptsInvite(i, u)
    /\ Activated(i, u)
    /\ accounts' = accounts \cup {u}
    /\ CreateSession(u, [kind |-> "invite", of |-> i], {})
    /\ UNCHANGED <<banned, deleted>>

ExpireInvite(i) ==
    /\ Unrevoked(i)
    /\ invites' = InvitesWithout({i})
    /\ UNCHANGED <<membership, accessLinks, accountVars>>

\* The retention period after an invite ended.
AgeInvite(i) ==
    /\ invites[i].status = "ended"
    /\ invites' = [invites EXCEPT ![i].status = "old"]
    /\ UNCHANGED <<membership, accessLinks, accountVars>>

Unused(i) == invites[i].status = "old" /\ invites[i].uses = {}

\* listInvites: reading the list deletes the unused ones.
ListInvites ==
    /\ \E i \in DOMAIN invites : Unused(i)
    /\ invites' = [i \in DOMAIN invites |->
                     IF Unused(i) THEN [invites[i] EXCEPT !.status = "gone"] ELSE invites[i]]
    /\ UNCHANGED <<membership, accessLinks, accountVars>>

------------------------
SetPermission(u, canInvite) ==
    /\ u # Owner
    /\ membership[u].row /\ ~membership[u].removed
    /\ membership' = [membership EXCEPT ![u].canInvite = canInvite]
    /\ invites' = IF canInvite THEN invites ELSE InvitesWithout(InvitesOf(u))
    /\ UNCHANGED <<accessLinks, accountVars>>

Ban(u) ==
    /\ u # Owner /\ membership[u].row
    /\ membership' = [membership EXCEPT ![u].banned = TRUE, ![u].removed = FALSE,
                                        ![u].canInvite = FALSE]
    /\ invites' = InvitesWithout(InvitesOf(u))
    /\ UNCHANGED <<accessLinks, accountVars>>

Unban(u) ==
    /\ membership[u].banned
    /\ membership' = [membership EXCEPT ![u].banned = FALSE]
    /\ UNCHANGED <<invites, accessLinks, accountVars>>

Kick(u) ==
    /\ u # Owner /\ membership[u].row
    /\ membership' = [membership EXCEPT ![u].removed = TRUE, ![u].canInvite = FALSE]
    /\ invites' = InvitesWithout(InvitesOf(u))
    /\ UNCHANGED <<accessLinks, accountVars>>

------------------------
AccessLinkLive(c) ==
    ~accessLinks[c].consumed /\ ~accessLinks[c].revoked /\ ~accessLinks[c].expired

AccessLinksWithout(gone) ==
    [c \in DOMAIN accessLinks |->
        [accessLinks[c] EXCEPT !.revoked = @ \/ c \in gone]]

CreateAccessLink(u) ==
    /\ ActiveMember(u)
    /\ Len(accessLinks) < MaxAccessLinks
    /\ accessLinks' = Append(
         AccessLinksWithout({c \in DOMAIN accessLinks :
                               accessLinks[c].user = u /\ AccessLinkLive(c)}),
         [user |-> u, consumed |-> FALSE, revoked |-> FALSE, expired |-> FALSE])
    /\ UNCHANGED <<membership, invites, accountVars>>

ClaimAccess(c) ==
    /\ AccessLinkLive(c)
    /\ accessLinks' = [accessLinks EXCEPT ![c].consumed = TRUE]
    /\ CreateSession(accessLinks[c].user, [kind |-> "access", of |-> c], {})
    /\ UNCHANGED <<membership, invites, accounts, banned, deleted>>

ExpireAccessLink(c) ==
    /\ AccessLinkLive(c)
    /\ accessLinks' = [accessLinks EXCEPT ![c].expired = TRUE]
    /\ UNCHANGED <<membership, invites, accountVars>>

InvitesNext ==
    \/ ListInvites
    \/ \E i \in DOMAIN invites :
          \/ RevokeInvite(i) \/ ExpireInvite(i) \/ AgeInvite(i)
          \/ \E u \in Newcomers : AcceptAsNewcomer(u, i)
    \/ \E u \in Users :
          \/ \E limit \in UseLimits : CreateInvite(u, limit)
          \/ \E i \in DOMAIN invites : AcceptSignedIn(u, i)
          \/ \E canInvite \in BOOLEAN : SetPermission(u, canInvite)
          \/ Ban(u) \/ Unban(u) \/ Kick(u)

AccessLinksNext ==
    \/ \E u \in Users : CreateAccessLink(u) \/ Ban(u) \/ Kick(u)
    \/ \E c \in DOMAIN accessLinks : ClaimAccess(c) \/ ExpireAccessLink(c)

------------------------
\* An invite admits as many accounts as it was made for, whoever of them has
\* been kicked, banned or deleted since.
UseLimitHolds ==
    \A i \in DOMAIN invites :
        invites[i].limit # Unlimited => Cardinality(invites[i].uses) <= invites[i].limit

\* An invite works only while whoever issued it may still issue one: losing
\* the place, the permission or the account takes the invites along.
NoInviteOutlivesItsIssuer ==
    \A i \in DOMAIN invites :
        Unrevoked(i) => /\ MayCreateInvites(invites[i].by)
                        /\ invites[i].by \notin banned \cup deleted

\* The invite an account first came in through is kept (ADR-0034), so that the
\* owner can always see who let it in.
EveryNewcomerHasATrail ==
    \A u \in Newcomers \cap accounts :
        \E i \in DOMAIN invites : u \in invites[i].uses /\ invites[i].status # "gone"

\* A member has at most one access link that still works.
OneAccessLink ==
    \A c, d \in DOMAIN accessLinks :
        accessLinks[c].user = accessLinks[d].user /\ AccessLinkLive(c) /\ AccessLinkLive(d)
            => c = d

\* An invite is good for as many as it was made for, while its issuer may issue
\* one, and is remembered as long as somebody came in through it.
InvitesHold == UseLimitHolds /\ NoInviteOutlivesItsIssuer /\ EveryNewcomerHasATrail

=============================================================================
