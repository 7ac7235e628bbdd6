----------------------------- MODULE DeviceLinks -----------------------------
(***************************************************************************)
(* Linking another Device with a code: apps/server/src/deviceLinks.ts.  A    *)
(* member mints a code, the arriving Device claims it and shows a number,    *)
(* the member approves what shows that number, and the arriving Device       *)
(* collects its Session with the claim token only it holds.                  *)
(*                                                                         *)
(* The claim token of a link is known by how many times the link had been    *)
(* claimed: any Device that ever claimed it may poll with its own.  The one  *)
(* await of these routes, the operator's challenge, comes before anything is *)
(* read.  A deleted row and one consumed without a Session are both consumed *)
(* here: neither can be claimed, approved or collected.                      *)
(***************************************************************************)
EXTENDS Accounts

CONSTANTS
    MaxLinks,   \* bound on codes minted
    MaxClaims,  \* bound on claims of one code
    Nobody      \* approvedBy of a link that was not approved

ASSUME LinksAssumption == MaxLinks \in Nat /\ Nobody \notin Nat

VARIABLES
    links       \* device_links rows, in the order of minting

linkVars == <<links>>

LinksInit == links = << >>

Expired(l) == links[l].expired
Claimed(l) == links[l].claims > 0
Approved(l) == links[l].approvedBy # Nobody

Outstanding(l, user) ==
    links[l].user = user /\ ~links[l].consumed /\ ~Approved(l)

LinksWithout(gone) ==
    [l \in DOMAIN links |-> [links[l] EXCEPT !.consumed = @ \/ l \in gone]]

OutstandingOf(user) == {l \in DOMAIN links : Outstanding(l, user)}

MintLink(s) ==
    /\ Works(s) /\ Len(links) < MaxLinks
    /\ links' = Append(LinksWithout(OutstandingOf(sessions[s].user)),
                   [user |-> sessions[s].user, claims |-> 0, refused |-> FALSE,
                    approvedBy |-> Nobody, consumed |-> FALSE, expired |-> FALSE])
    /\ UNCHANGED accountVars

CloseLink(s, l) ==
    /\ Works(s) /\ Outstanding(l, sessions[s].user)
    /\ links' = LinksWithout({l})
    /\ UNCHANGED accountVars

\* What the member's Device shows, and what its answer is about: the latest
\* claimed link still waiting.
Waiting(l, user) ==
    Outstanding(l, user) /\ Claimed(l) /\ ~links[l].refused

AnswerLink(s, l, approve) ==
    /\ Works(s) /\ Waiting(l, sessions[s].user) /\ ~Expired(l)
    /\ links' = IF approve THEN [links EXCEPT ![l].approvedBy = s]
                ELSE [links EXCEPT ![l].refused = TRUE]
    /\ UNCHANGED accountVars

Claimable(l) ==
    ~links[l].consumed /\ (~Claimed(l) \/ links[l].refused) /\ ~Expired(l)

ClaimLink(l) ==
    /\ Claimable(l) /\ links[l].claims < MaxClaims
    /\ links' = [links EXCEPT ![l] = [links[l] EXCEPT !.claims = @ + 1, !.refused = FALSE]]
    /\ UNCHANGED accountVars

\* Mutant: a link that was consumed is collected again.
CollectableTwice(l, claim) ==
    /\ links[l].claims = claim
    /\ ~links[l].refused /\ ~Expired(l) /\ Approved(l)
    /\ links[l].user \notin banned
    /\ sessions[links[l].approvedBy].live

\* Only the token of the latest claim finds the row.
Collectable(l, claim) ==
    /\ links[l].claims = claim
    /\ ~links[l].refused /\ ~links[l].consumed /\ ~Expired(l) /\ Approved(l)
    /\ links[l].user \notin banned
    /\ sessions[links[l].approvedBy].live

CollectLink(l, claim) ==
    /\ Collectable(l, claim)
    /\ links' = LinksWithout({l})
    /\ CreateSession(links[l].user, [kind |-> "link", of |-> l, claim |-> claim], {})
    /\ UNCHANGED <<accounts, banned, deleted>>

ExpireLink(l) ==
    /\ ~links[l].consumed /\ ~Expired(l)
    /\ links' = [links EXCEPT ![l].expired = TRUE]
    /\ UNCHANGED accountVars

LinksNext ==
    \/ \E s \in DOMAIN sessions :
          \/ MintLink(s)
          \/ \E l \in DOMAIN links :
                \/ CloseLink(s, l)
                \/ \E approve \in BOOLEAN : AnswerLink(s, l, approve)
    \/ \E l \in DOMAIN links :
          \/ ExpireLink(l)
          \/ ClaimLink(l)
          \/ \E claim \in 1..links[l].claims : CollectLink(l, claim)

------------------------
LetInBy(l) ==
    {s \in DOMAIN sessions :
        sessions[s].grant # NoGrant /\ sessions[s].grant.kind = "link"
            /\ sessions[s].grant.of = l}

\* A code lets one Device in, the one whose claim was approved: neither a
\* second collection, nor a Device turned away, nor one that claimed before it.
LinkLetsOneIn ==
    \A l \in DOMAIN links : \A s, t \in LetInBy(l) :
        s = t /\ sessions[s].grant.claim = links[l].claims

\* An account has at most one code that still waits for an answer.
OneOutstandingCode ==
    \A l, k \in DOMAIN links :
        links[l].user = links[k].user /\ Outstanding(l, links[l].user)
            /\ Outstanding(k, links[k].user) => l = k

------------------------
\* The refinement: grant l of OneTimeGrant is the l-th link.
LinkVoid(l) ==
    \/ links[l].consumed
    \/ Expired(l)
    \/ Approved(l) /\ links[l].user \in banned
    \/ Approved(l) /\ ~sessions[links[l].approvedBy].live

LinkStage(l) ==
    IF l \notin DOMAIN links THEN "none"
    ELSE IF LetInBy(l) # {} THEN "spent"
    ELSE IF LinkVoid(l) THEN "void"
    ELSE IF Approved(l) THEN "approved" ELSE "open"

LinkGrant == INSTANCE OneTimeGrant WITH
    Grants <- 1..MaxLinks,
    stage <- [l \in 1..MaxLinks |-> LinkStage(l)],
    presented <- [l \in 1..MaxLinks |->
                    IF l \in DOMAIN links THEN links[l].claims ELSE 0],
    waiting <- [l \in 1..MaxLinks |->
                    l \in DOMAIN links /\ Claimed(l) /\ ~links[l].refused]

=============================================================================
