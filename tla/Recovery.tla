------------------------------ MODULE Recovery ------------------------------
(***************************************************************************)
(* Recovery codes and owner claims: apps/server/src/recovery.ts,             *)
(* apps/server/src/auth/ownerClaims.ts.  A Recovery code signs its account   *)
(* in on a new Device and every other Device out; the owner's claim is a     *)
(* link made on the machine the server runs on.  Both are used once.         *)
(***************************************************************************)
EXTENDS Accounts

CONSTANTS
    MaxCodes,   \* bound on Recovery codes issued
    MaxClaimed  \* bound on owner claims made

VARIABLES
    codes,      \* recovery_codes rows
    ownerClaims \* owner_claims rows

recoveryVars == <<codes, ownerClaims>>

RecoveryInit == codes = << >> /\ ownerClaims = << >>

CodeLive(c) == ~codes[c].used /\ ~codes[c].replaced

CodesOf(user) == {c \in DOMAIN codes : codes[c].user = user /\ CodeLive(c)}

HasRecoveryCode(user) == CodesOf(user) # {}

CodesWithout(gone) ==
    [c \in DOMAIN codes |-> [codes[c] EXCEPT !.replaced = @ \/ c \in gone]]

\* Replacing a code signs every other Device out; the first one does not.
IssueRecoveryCode(s) ==
    /\ Works(s) /\ Len(codes) < MaxCodes
    /\ LET user == sessions[s].user IN
       /\ codes' = Append(CodesWithout(CodesOf(user)),
                          [user |-> user, used |-> FALSE, replaced |-> FALSE])
       /\ sessions' = IF HasRecoveryCode(user)
                      THEN SessionsWithout(SessionsOf(user) \ {s}) ELSE sessions
    /\ UNCHANGED <<ownerClaims, accounts, banned, deleted>>

Redeem(c) ==
    /\ CodeLive(c) /\ codes[c].user \notin banned
    /\ codes' = [codes EXCEPT ![c].used = TRUE]
    /\ CreateSession(codes[c].user, [kind |-> "recovery", of |-> c], SessionsOf(codes[c].user))
    /\ UNCHANGED <<ownerClaims, accounts, banned, deleted>>

\* The command line of the server: a claim for the owner there is.
CreateOwnerLoginClaim ==
    /\ Len(ownerClaims) < MaxClaimed
    /\ Owner \notin banned
    /\ ownerClaims' = Append(ownerClaims, [user |-> Owner, consumed |-> FALSE, expired |-> FALSE])
    /\ UNCHANGED <<codes, accountVars>>

OwnerClaimLive(c) == ~ownerClaims[c].consumed /\ ~ownerClaims[c].expired

ConsumeOwnerClaim(c) ==
    /\ OwnerClaimLive(c) /\ Owner \notin banned
    /\ ownerClaims' = [ownerClaims EXCEPT ![c].consumed = TRUE]
    /\ CreateSession(Owner, [kind |-> "owner", of |-> c], {})
    /\ UNCHANGED <<codes, accounts, banned, deleted>>

ExpireOwnerClaim(c) ==
    /\ OwnerClaimLive(c)
    /\ ownerClaims' = [ownerClaims EXCEPT ![c].expired = TRUE]
    /\ UNCHANGED <<codes, accountVars>>

RecoveryNext ==
    \/ \E s \in DOMAIN sessions : IssueRecoveryCode(s)
    \/ \E c \in DOMAIN codes : Redeem(c)

OwnerClaimsNext ==
    \/ CreateOwnerLoginClaim
    \/ \E c \in DOMAIN ownerClaims : ConsumeOwnerClaim(c) \/ ExpireOwnerClaim(c)

------------------------
\* A grant of recovery.ts or ownerClaims.ts lets somebody in once, and an
\* account has at most one Recovery code that still works.
RecoveryLetsOneIn ==
    /\ \A s, t \in DOMAIN sessions :
         sessions[s].grant # NoGrant /\ sessions[s].grant.kind \in {"recovery", "owner"}
            /\ sessions[s].grant = sessions[t].grant => s = t
    /\ \A c, k \in DOMAIN codes : CodeLive(c) /\ CodeLive(k) /\ codes[c].user = codes[k].user => c = k

=============================================================================
