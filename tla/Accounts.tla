------------------------------ MODULE Accounts ------------------------------
(***************************************************************************)
(* The accounts of an installation and their Sessions, as the routes that    *)
(* let a Device in see them: apps/server/src/auth/sessions.ts, devices.ts,   *)
(* ownerPanel.ts.  Each route is one synchronous handler on the database,    *)
(* so each is one action; what interleaves is the routes themselves, called  *)
(* from several Devices, and the deadlines.                                  *)
(*                                                                         *)
(* Sessions are kept in the order they were created, with the grant that     *)
(* created them.  A Session ends for good, by revocation or by expiry.       *)
(***************************************************************************)
EXTENDS Naturals, Sequences

CONSTANTS
    Owner,          \* the installation owner
    Member,         \* an ordinary account
    Newcomers,      \* accounts that do not exist yet
    MaxSessions,    \* bound on Sessions created
    NoGrant         \* how the Sessions of Init came to be

Users == {Owner, Member} \cup Newcomers

\* A link is collected with the claim that was approved; the others have no more
\* than their row.
LinkGrants == [kind : {"link"}, of : Nat, claim : Nat]
OtherGrants == [kind : {"desktop", "recovery", "owner", "invite", "access"}, of : Nat]

ASSUME AccountsAssumption ==
    /\ Newcomers \cap {Owner, Member} = {}
    /\ NoGrant \notin LinkGrants \cup OtherGrants

VARIABLES
    accounts,       \* users rows
    banned,         \* users.banned_at is set
    deleted,        \* users.deleted_at is set
    sessions        \* sessions rows, in the order of creation

accountVars == <<accounts, banned, deleted, sessions>>

Session(user, grant) == [user |-> user, live |-> TRUE, grant |-> grant]

AccountsInit ==
    /\ accounts = {Owner, Member}
    /\ banned = {}
    /\ deleted = {}
    /\ sessions = <<Session(Member, NoGrant)>>

\* requireUser: a Session that is live, of an account neither banned nor deleted.
Works(s) ==
    /\ s \in DOMAIN sessions
    /\ sessions[s].live
    /\ sessions[s].user \notin banned \cup deleted

\* Somebody signed in.  The owner is taken to be, on a Device of its own.
Acts(u) ==
    u = Owner \/ \E s \in DOMAIN sessions : Works(s) /\ sessions[s].user = u

SessionsWithout(gone) ==
    [s \in DOMAIN sessions |->
        [sessions[s] EXCEPT !.live = @ /\ s \notin gone]]

SessionsOf(user) == {s \in DOMAIN sessions : sessions[s].user = user}

\* createSession, after the Sessions in `gone` were revoked.
CreateSession(user, grant, gone) ==
    /\ Len(sessions) < MaxSessions
    /\ sessions' = Append(SessionsWithout(gone), Session(user, grant))

------------------------
\* Logout, a revoked Device, a Session revoked by the owner, one that expired.
SignOut(s) ==
    /\ s \in DOMAIN sessions
    /\ sessions[s].live
    /\ sessions' = SessionsWithout({s})
    /\ UNCHANGED <<accounts, banned, deleted>>

\* A member signs out another of its Devices: never the one it is using.
RevokeOwnDevice(by, s) ==
    /\ Works(by) /\ by # s
    /\ sessions[s].user = sessions[by].user
    /\ SignOut(s)

LogOut(s) == Works(s) /\ SignOut(s)

=============================================================================
