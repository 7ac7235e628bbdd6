--------------------------- MODULE AccountRemoval ---------------------------
(***************************************************************************)
(* Deleting an account, asked for by its member or decided by the owner, and *)
(* banning one from the installation: apps/server/src/accountDeletion.ts,    *)
(* ownerPanel.ts.  Deletion has to take along every way in that the other    *)
(* modules keep, so this is where they meet.                                 *)
(***************************************************************************)
EXTENDS DeviceLinks, DesktopAuthorization, Recovery, Invites

VARIABLES
    request,    \* of an account: its latest account_deletion_requests row
    cooling     \* accounts whose latest request was answered within the cooldown

removalVars == <<request, cooling>>
waysInVars == <<linkVars, launchVars, recoveryVars, inviteVars, accountVars>>

RemovalInit ==
    /\ request = [u \in Users |-> "none"]
    /\ cooling = {}

Deletable(u) == u \in accounts \ deleted /\ u # Owner

RequestDeletion(u) ==
    /\ Acts(u) /\ Deletable(u)
    /\ request[u] # "pending" /\ u \notin cooling
    /\ request' = [request EXCEPT ![u] = "pending"]
    /\ UNCHANGED <<cooling, waysInVars>>

\* Withdrawn by the member, or rejected by the owner: the cooldown starts.
Answered(u, status) ==
    /\ request[u] = "pending"
    /\ request' = [request EXCEPT ![u] = status]
    /\ cooling' = cooling \cup {u}
    /\ UNCHANGED waysInVars

CancelRequest(u) == Acts(u) /\ Answered(u, "cancelled")
Reject(u) == Answered(u, "rejected")

CoolDown(u) ==
    /\ u \in cooling
    /\ cooling' = cooling \ {u}
    /\ UNCHANGED <<request, waysInVars>>

\* deleteAccount: one transaction.
DeleteAccount(u) ==
    /\ Deletable(u)
    /\ deleted' = deleted \cup {u}
    /\ sessions' = SessionsWithout(SessionsOf(u))
    /\ membership' = [membership EXCEPT ![u].removed = @ \/ membership[u].row,
                                        ![u].canInvite = FALSE]
    /\ links' = LinksWithout({l \in DOMAIN links : links[l].user = u})
    /\ launches' = LaunchesEnded({g \in DOMAIN launches :
                       launches[g].status = "approved" /\ sessions[launches[g].by].user = u})
    /\ codes' = CodesWithout({c \in DOMAIN codes : codes[c].user = u})
    /\ invites' = InvitesWithout(InvitesOf(u))
    /\ accessLinks' = AccessLinksWithout({c \in DOMAIN accessLinks : accessLinks[c].user = u})
    /\ request' = [request EXCEPT ![u] = IF @ = "pending" THEN "approved" ELSE @]
    /\ UNCHANGED <<cooling, ownerClaims, accounts, banned>>

Approve(u) == request[u] = "pending" /\ DeleteAccount(u)

\* A ban from the installation has no undo.
BanFromInstallation(u) ==
    /\ u \in accounts \ {Owner} /\ u \notin banned
    /\ banned' = banned \cup {u}
    /\ sessions' = SessionsWithout(SessionsOf(u))
    /\ invites' = InvitesWithout(InvitesOf(u))
    /\ UNCHANGED <<removalVars, linkVars, launchVars, recoveryVars, membership,
                   accessLinks, accounts, deleted>>

RequestsNext ==
    \E u \in Users : RequestDeletion(u) \/ CancelRequest(u) \/ Reject(u) \/ CoolDown(u) \/ Approve(u)

RemovalNext == \E u \in Users : DeleteAccount(u) \/ BanFromInstallation(u)

------------------------
(* All the ways in together, called in any order.                            *)

WaysInInit ==
    /\ AccountsInit /\ LinksInit /\ LaunchesInit /\ RecoveryInit /\ InvitesInit /\ RemovalInit

WaysInNext ==
    \/ LinksNext /\ UNCHANGED <<launchVars, recoveryVars, inviteVars, removalVars>>
    \/ LaunchesNext /\ UNCHANGED <<linkVars, recoveryVars, inviteVars, removalVars>>
    \/ (RecoveryNext \/ OwnerClaimsNext)
          /\ UNCHANGED <<linkVars, launchVars, inviteVars, removalVars>>
    \/ (InvitesNext \/ AccessLinksNext)
          /\ UNCHANGED <<linkVars, launchVars, recoveryVars, removalVars>>
    \/ (\E s \in DOMAIN sessions : SignOut(s))
          /\ UNCHANGED <<linkVars, launchVars, recoveryVars, inviteVars, removalVars>>
    \/ RequestsNext \/ RemovalNext

WaysInSpec == WaysInInit /\ [][WaysInNext]_<<waysInVars, removalVars>>

------------------------
\* A deleted account keeps no way back: no Session, no code, link, launch or
\* claim that could still produce one, no invite of its own.
DeletedAccountKeepsNothing ==
    \A u \in deleted :
        /\ \A s \in SessionsOf(u) : ~sessions[s].live
        /\ \A l \in DOMAIN links : links[l].user = u => links[l].consumed
        /\ \A g \in DOMAIN launches :
              AuthorizationLive(g) /\ launches[g].status = "approved"
                  => sessions[launches[g].by].user # u
        /\ CodesOf(u) = {}
        /\ \A c \in DOMAIN accessLinks : accessLinks[c].user = u => ~AccessLinkLive(c)
        /\ \A i \in InvitesOf(u) : ~Unrevoked(i)
        /\ request[u] # "pending"

\* The Session that approved, on another Device, that s be created.
ApprovedBy(s, a) ==
    /\ sessions[s].grant # NoGrant
    /\ \/ sessions[s].grant.kind = "link" /\ links[sessions[s].grant.of].approvedBy = a
       \/ sessions[s].grant.kind = "desktop" /\ launches[sessions[s].grant.of].by = a

\* Redeeming a Recovery code withdraws what was approved and not yet collected
\* (deviceLinks.ts, approve and collect): no Session is created after the
\* recovery of its account through an approval given before it.
RecoveryWithdrawsApprovals ==
    \A s, a \in DOMAIN sessions : ApprovedBy(s, a) =>
        ~ \E r \in (a + 1)..(s - 1) :
              /\ sessions[r].user = sessions[s].user
              /\ sessions[r].grant # NoGrant /\ sessions[r].grant.kind = "recovery"

\* Both ways in that ask somebody implement OneTimeGrant: what was refused,
\* replaced, cancelled, expired or lost its issuer's Session never lets in again.
GrantsAreOneTime == LinkGrant!Spec /\ LaunchGrant!Spec

\* Whatever way in: a code, launch, Recovery code or claim lets one Device in,
\* the right one, and an account has at most one code of each kind that works.
\* What is withdrawn stays so: with its issuer's place an invite, with its account
\* every way in, with a recovery what was approved before it.
WaysInAreUsedOnce ==
    /\ LinkLetsOneIn /\ OneOutstandingCode /\ LaunchLetsOneIn /\ RecoveryLetsOneIn /\ OneAccessLink
    /\ InvitesHold /\ DeletedAccountKeepsNothing /\ RecoveryWithdrawsApprovals

=============================================================================
