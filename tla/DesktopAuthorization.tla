------------------------ MODULE DesktopAuthorization ------------------------
(***************************************************************************)
(* Signing the desktop application in from a browser:                        *)
(* apps/server/src/desktopAuthorization.ts.  A signed-in browser records a   *)
(* launch and opens the application with its id; the application asks for an *)
(* authorization of that launch; the browser that launched it approves or    *)
(* refuses; the application collects a Session with the secret it was given. *)
(*                                                                         *)
(* A launch is bound to at most one authorization, so both are one record.   *)
(* Every transaction rechecks what the handler read before it; nothing runs  *)
(* between the two, so a handler is one action.                              *)
(***************************************************************************)
EXTENDS Accounts

CONSTANTS
    MaxLaunches     \* bound on launches

ASSUME LaunchesAssumption == MaxLaunches \in Nat

VARIABLES
    launches        \* desktop_launches and the desktop_authorizations bound to them

launchVars == <<launches>>

LaunchesInit == launches = << >>

NoAuthorization == "none"

\* status: of the authorization.  Approved and refused exclude each other;
\* cancelled and expired may come on top of an approval.
Launch(s) ==
    /\ Works(s) /\ Len(launches) < MaxLaunches
    /\ launches' = Append(launches,
                      [by |-> s, cancelled |-> FALSE, expired |-> FALSE,
                       status |-> NoAuthorization, dead |-> FALSE, consumed |-> FALSE])
    /\ UNCHANGED accountVars

LaunchOpen(g) == ~launches[g].cancelled /\ ~launches[g].expired

\* live() of an authorization.
AuthorizationLive(g) ==
    /\ launches[g].status # NoAuthorization
    /\ ~launches[g].consumed /\ ~launches[g].dead

Authorizations(gs) ==
    {g \in gs : launches[g].status # NoAuthorization /\ ~launches[g].consumed}

LaunchesEnded(gs) ==
    [g \in DOMAIN launches |->
        [launches[g] EXCEPT !.dead = @ \/ g \in Authorizations(gs)]]

\* Mutant: the launch is cancelled, the authorization it led to is not.
CancelLaunchOnly(s, g) ==
    /\ Works(s) /\ launches[g].by = s
    /\ launches' = [launches EXCEPT ![g].cancelled = TRUE]
    /\ UNCHANGED accountVars

CancelLaunch(s, g) ==
    /\ Works(s) /\ launches[g].by = s
    /\ launches' = [LaunchesEnded({g}) EXCEPT ![g].cancelled = TRUE]
    /\ UNCHANGED accountVars

RequestAuthorization(g) ==
    /\ launches[g].status = NoAuthorization
    /\ LaunchOpen(g) /\ Works(launches[g].by)
    /\ launches' = [launches EXCEPT ![g].status = "pending"]
    /\ UNCHANGED accountVars

\* Only the Session that launched the application decides.
Decide(s, g, approve) ==
    /\ Works(s) /\ launches[g].by = s /\ LaunchOpen(g)
    /\ AuthorizationLive(g) /\ launches[g].status = "pending"
    /\ launches' = [launches EXCEPT ![g].status = IF approve THEN "approved" ELSE "refused"]
    /\ UNCHANGED accountVars

Authorizes(g) ==
    /\ AuthorizationLive(g) /\ launches[g].status = "approved"
    /\ Works(launches[g].by)

CollectAuthorization(g) ==
    /\ Authorizes(g)
    /\ launches' = [launches EXCEPT ![g].consumed = TRUE]
    /\ CreateSession(sessions[launches[g].by].user, [kind |-> "desktop", of |-> g], {})
    /\ UNCHANGED <<accounts, banned, deleted>>

\* The application withdraws its request with the secret.
CancelAuthorization(g) ==
    /\ Authorizations({g}) # {}
    /\ launches' = LaunchesEnded({g})
    /\ UNCHANGED accountVars

ExpireLaunch(g) ==
    /\ ~launches[g].expired
    /\ launches' = [launches EXCEPT ![g].expired = TRUE]
    /\ UNCHANGED accountVars

ExpireAuthorization(g) ==
    /\ AuthorizationLive(g)
    /\ launches' = LaunchesEnded({g})
    /\ UNCHANGED accountVars

LaunchesNext ==
    \/ \E s \in DOMAIN sessions :
          \/ Launch(s)
          \/ \E g \in DOMAIN launches :
                \/ CancelLaunch(s, g)
                \/ \E approve \in BOOLEAN : Decide(s, g, approve)
    \/ \E g \in DOMAIN launches :
          \/ RequestAuthorization(g)
          \/ CollectAuthorization(g)
          \/ CancelAuthorization(g)
          \/ ExpireLaunch(g)
          \/ ExpireAuthorization(g)

------------------------
DesktopsLetIn(g) ==
    {s \in DOMAIN sessions :
        sessions[s].grant # NoGrant /\ sessions[s].grant.kind = "desktop"
            /\ sessions[s].grant.of = g}

\* One launch signs in one application, and only for the account whose browser
\* launched it.
LaunchLetsOneIn ==
    \A g \in DOMAIN launches : \A s, t \in DesktopsLetIn(g) :
        s = t /\ sessions[s].user = sessions[launches[g].by].user

------------------------
\* The refinement: grant g of OneTimeGrant is the g-th launch.
LaunchStage(g) ==
    IF g \notin DOMAIN launches THEN "none"
    ELSE IF launches[g].consumed THEN "spent"
    ELSE IF \/ launches[g].dead \/ launches[g].status = "refused"
            \/ launches[g].cancelled
            \/ launches[g].expired /\ launches[g].status # "approved"
            \/ launches[g].status = "approved" /\ ~Works(launches[g].by)
         THEN "void"
    ELSE IF launches[g].status = "approved" THEN "approved" ELSE "open"

Presented(g) ==
    g \in DOMAIN launches /\ launches[g].status # NoAuthorization

LaunchGrant == INSTANCE OneTimeGrant WITH
    Grants <- 1..MaxLaunches,
    stage <- [g \in 1..MaxLaunches |-> LaunchStage(g)],
    presented <- [g \in 1..MaxLaunches |-> IF Presented(g) THEN 1 ELSE 0],
    waiting <- [g \in 1..MaxLaunches |-> Presented(g)]

=============================================================================
