---------------------------- MODULE AccountProofs ----------------------------
(* Theorems about the ways into an account, all of them together, for every *)
(* set of accounts and every number of codes, launches, links and invites; *)
(* and about what a member is shown of a room, for every number of messages. *)
EXTENDS AccountRemoval, ChatClient, FiniteSetTheorems, SequenceTheorems, TLAPS

------------------------
(* Tables of rows: a row is added at the end, or changed in its place. *)

LEMMA Table ==
    ASSUME NEW S, NEW q \in Seq(S)
    PROVE  /\ Len(q) \in Nat /\ DOMAIN q = 1..Len(q)
           /\ \A i \in DOMAIN q : q[i] \in S /\ i \in Nat
           /\ Len(q) + 1 \notin DOMAIN q
BY LenProperties

LEMMA RowAdded ==
    ASSUME NEW S, NEW q \in Seq(S), NEW e \in S
    PROVE  /\ Append(q, e) \in Seq(S)
           /\ DOMAIN Append(q, e) = DOMAIN q \cup {Len(q) + 1}
           /\ Append(q, e)[Len(q) + 1] = e
           /\ \A i \in DOMAIN q : Append(q, e)[i] = q[i]
           /\ Len(Append(q, e)) = Len(q) + 1
BY AppendProperties, LenProperties

LEMMA RowChanged ==
    ASSUME NEW S, NEW q \in Seq(S), NEW i \in DOMAIN q, NEW e \in S
    PROVE  /\ [q EXCEPT ![i] = e] \in Seq(S)
           /\ DOMAIN [q EXCEPT ![i] = e] = DOMAIN q
           /\ Len([q EXCEPT ![i] = e]) = Len(q)
           /\ \A j \in DOMAIN q : [q EXCEPT ![i] = e][j] = IF j = i THEN e ELSE q[j]
BY LenProperties, ExceptSeq

LEMMA RowsChanged ==
    ASSUME NEW S, NEW q \in Seq(S), NEW f \in [DOMAIN q -> S]
    PROVE  f \in Seq(S) /\ DOMAIN f = DOMAIN q /\ Len(f) = Len(q)
BY LenProperties, SeqDef

------------------------
(* The rows. *)

SessionRow == [user : Users, live : BOOLEAN, grant : LinkGrants \cup OtherGrants \cup {NoGrant}]
LinkRow == [user : Users, claims : Nat, refused : BOOLEAN, approvedBy : Nat \cup {Nobody},
            consumed : BOOLEAN, expired : BOOLEAN]
LaunchRow == [by : Nat, cancelled : BOOLEAN, expired : BOOLEAN,
              status : {"none", "pending", "approved", "refused"},
              dead : BOOLEAN, consumed : BOOLEAN]
CodeRow == [user : Users, used : BOOLEAN, replaced : BOOLEAN]
OwnerClaimRow == [user : {Owner}, consumed : BOOLEAN, expired : BOOLEAN]
Place == [row : BOOLEAN, banned : BOOLEAN, removed : BOOLEAN, canInvite : BOOLEAN]
InviteRow == [by : Users, limit : UseLimits, uses : SUBSET Users,
              status : {"active", "ended", "old", "gone"}]
AccessLinkRow == [user : Users, consumed : BOOLEAN, revoked : BOOLEAN, expired : BOOLEAN]

AccountsTyped ==
    /\ accounts \subseteq Users /\ banned \subseteq Users /\ deleted \subseteq Users
    /\ sessions \in Seq(SessionRow)

LEMMA SessionsOut ==
    ASSUME AccountsTyped, NEW gone
    PROVE  /\ SessionsWithout(gone) \in Seq(SessionRow)
           /\ DOMAIN SessionsWithout(gone) = DOMAIN sessions
           /\ Len(SessionsWithout(gone)) = Len(sessions)
           /\ \A s \in DOMAIN sessions :
                /\ SessionsWithout(gone)[s].user = sessions[s].user
                /\ SessionsWithout(gone)[s].grant = sessions[s].grant
                /\ SessionsWithout(gone)[s].live <=> sessions[s].live /\ s \notin gone
<1>1. \A s \in DOMAIN sessions : sessions[s] \in SessionRow
  BY Table DEF AccountsTyped
<1>2. SessionsWithout(gone) \in [DOMAIN sessions -> SessionRow]
  BY <1>1 DEF SessionsWithout, SessionRow
<1>. QED  BY <1>1, <1>2, RowsChanged DEF AccountsTyped, SessionsWithout, SessionRow

\* What a step that lets somebody in does to the Sessions.
LetsIn(user, grant) ==
    /\ DOMAIN sessions' = DOMAIN sessions \cup {Len(sessions) + 1}
    /\ sessions'[Len(sessions) + 1] = Session(user, grant)

\* Sessions are never taken back, and none that ended works again.
Aged ==
    \A s \in DOMAIN sessions :
        /\ s \in DOMAIN sessions'
        /\ sessions'[s].user = sessions[s].user
        /\ sessions'[s].grant = sessions[s].grant
        /\ sessions'[s].live => sessions[s].live

\* Nobody came in, or only by a grant of these kinds.
Admits(kinds) ==
    /\ Aged
    /\ \A s \in DOMAIN sessions' :
          \/ s \in DOMAIN sessions
          \/ /\ sessions'[s].grant # NoGrant /\ sessions'[s].grant.kind \in kinds
             /\ \A t \in DOMAIN sessions' : t < s <=> t \in DOMAIN sessions

LEMMA NobodyComes ==
    ASSUME AccountsTyped, UNCHANGED <<accounts, banned, deleted, sessions>>, NEW kinds
    PROVE  AccountsTyped' /\ Admits(kinds)
BY DEF AccountsTyped, Admits, Aged

LEMMA SomebodyComes ==
    ASSUME AccountsTyped, NEW user, NEW grant \in LinkGrants \cup OtherGrants, Aged,
           LetsIn(user, grant), NEW kinds, grant.kind \in kinds
    PROVE  Admits(kinds)
BY AccountsAssumption, Table DEF AccountsTyped, Admits, LetsIn, Session

LEMMA Created ==
    ASSUME AccountsTyped, NEW user \in Users, NEW grant \in LinkGrants \cup OtherGrants, NEW gone,
           CreateSession(user, grant, gone)
    PROVE  /\ sessions' \in Seq(SessionRow)
           /\ LetsIn(user, grant)
           /\ Aged
           /\ \A s \in DOMAIN sessions : s \in gone => ~sessions'[s].live
           /\ gone = {} => \A s \in DOMAIN sessions : sessions'[s].live <=> sessions[s].live
<1>1. Session(user, grant) \in SessionRow
  BY DEF Session, SessionRow
<1>. DEFINE rest == SessionsWithout(gone)
<1>2. /\ rest \in Seq(SessionRow) /\ Len(rest) = Len(sessions) /\ DOMAIN rest = DOMAIN sessions
      /\ \A s \in DOMAIN sessions :
            /\ rest[s].user = sessions[s].user
            /\ rest[s].grant = sessions[s].grant
            /\ rest[s].live <=> sessions[s].live /\ s \notin gone
  BY SessionsOut
<1>3. sessions' = Append(rest, Session(user, grant))
  BY DEF CreateSession
<1>4. /\ sessions' \in Seq(SessionRow)
      /\ DOMAIN sessions' = DOMAIN rest \cup {Len(rest) + 1}
      /\ sessions'[Len(rest) + 1] = Session(user, grant)
      /\ \A s \in DOMAIN rest : sessions'[s] = rest[s]
  <2>. HIDE DEF rest
  <2>. QED  BY <1>1, <1>2, <1>3, RowAdded
<1>5. LetsIn(user, grant)
  BY <1>2, <1>4 DEF LetsIn
<1>. HIDE DEF rest
<1>. QED  BY <1>2, <1>4, <1>5 DEF Aged

------------------------
(* Device links. *)

LinksTyped == links \in Seq(LinkRow) /\ Len(links) <= MaxLinks

FromLink(s) == sessions[s].grant # NoGrant /\ sessions[s].grant.kind = "link"

\* An approved link was claimed, and approved by a Session of its account.
ApprovalsMatch ==
    \A l \in DOMAIN links : Approved(l) =>
        /\ Claimed(l) /\ ~links[l].refused
        /\ links[l].approvedBy \in DOMAIN sessions
        /\ sessions[links[l].approvedBy].user = links[l].user

\* A Session that came through a link used it up, with the claim approved.
CollectionsMatch ==
    \A s \in DOMAIN sessions : FromLink(s) =>
        /\ sessions[s].grant.of \in DOMAIN links
        /\ links[sessions[s].grant.of].consumed
        /\ Approved(sessions[s].grant.of)
        /\ sessions[s].grant.claim = links[sessions[s].grant.of].claims
        /\ sessions[s].user = links[sessions[s].grant.of].user

CollectedOnce ==
    \A s, t \in DOMAIN sessions :
        FromLink(s) /\ FromLink(t) /\ sessions[s].grant.of = sessions[t].grant.of => s = t

LinkInv == ApprovalsMatch /\ CollectionsMatch /\ CollectedOnce /\ OneOutstandingCode

LEMMA LinkInvSuffices == LinkInv => LinkLetsOneIn /\ OneOutstandingCode
BY DEF LinkInv, CollectionsMatch, CollectedOnce, LinkLetsOneIn, LetInBy, FromLink

\* Nothing happened to link l, except that it may have ended.
LinkKept(l) ==
    /\ l \in DOMAIN links'
    /\ links'[l].user = links[l].user
    /\ links'[l].claims = links[l].claims
    /\ links'[l].refused = links[l].refused
    /\ links'[l].approvedBy = links[l].approvedBy
    /\ links[l].consumed => links'[l].consumed
    /\ links[l].expired => links'[l].expired

LinksFade == DOMAIN links' = DOMAIN links /\ \A l \in DOMAIN links : LinkKept(l)

NobodyByLink == \A s \in DOMAIN sessions' : s \in DOMAIN sessions \/ ~FromLink(s)'

LEMMA LinksOut ==
    ASSUME LinksTyped, NEW gone
    PROVE  /\ LinksWithout(gone) \in Seq(LinkRow)
           /\ DOMAIN LinksWithout(gone) = DOMAIN links
           /\ Len(LinksWithout(gone)) = Len(links)
           /\ \A l \in DOMAIN links :
                /\ LinksWithout(gone)[l].user = links[l].user
                /\ LinksWithout(gone)[l].claims = links[l].claims
                /\ LinksWithout(gone)[l].refused = links[l].refused
                /\ LinksWithout(gone)[l].approvedBy = links[l].approvedBy
                /\ LinksWithout(gone)[l].expired = links[l].expired
                /\ LinksWithout(gone)[l].consumed <=> links[l].consumed \/ l \in gone
<1>1. \A l \in DOMAIN links : links[l] \in LinkRow
  BY Table DEF LinksTyped
<1>2. LinksWithout(gone) \in [DOMAIN links -> LinkRow]
  BY <1>1 DEF LinksWithout, LinkRow
<1>3. \A l \in DOMAIN links :
         LinksWithout(gone)[l] = [links[l] EXCEPT !.consumed = @ \/ l \in gone]
  BY DEF LinksWithout
<1>4. /\ LinksWithout(gone) \in Seq(LinkRow)
      /\ DOMAIN LinksWithout(gone) = DOMAIN links
      /\ Len(LinksWithout(gone)) = Len(links)
  BY <1>2, RowsChanged DEF LinksTyped
<1>. QED  BY <1>1, <1>3, <1>4 DEF LinkRow

LEMMA FadingKeepsLinks ==
    ASSUME LinksTyped, LinkInv, Aged, LinksFade, NobodyByLink
    PROVE  LinkInv'
<1>1. \A l \in DOMAIN links' : l \in DOMAIN links /\ LinkKept(l)
  BY DEF LinksFade
<1>2. ApprovalsMatch'
  BY <1>1 DEF LinkInv, ApprovalsMatch, Approved, Claimed, LinkKept, Aged
<1>3. \A s \in DOMAIN sessions' : FromLink(s)' =>
        /\ s \in DOMAIN sessions /\ FromLink(s)
        /\ sessions'[s].grant = sessions[s].grant /\ sessions'[s].user = sessions[s].user
  BY DEF NobodyByLink, FromLink, Aged
<1>4. CollectionsMatch'
  BY <1>1, <1>3 DEF LinkInv, CollectionsMatch, Approved, LinkKept, LinksFade
<1>5. CollectedOnce'
  BY <1>3 DEF LinkInv, CollectedOnce
<1>6. \A l \in DOMAIN links : \A u : Outstanding(l, u)' => Outstanding(l, u)
  BY <1>1 DEF LinksFade, LinkKept, Outstanding, Approved
<1>7. OneOutstandingCode'
  BY <1>1, <1>6 DEF LinkInv, OneOutstandingCode, LinkKept
<1>. QED  BY <1>2, <1>4, <1>5, <1>7 DEF LinkInv

LEMMA SameSessionsAge == UNCHANGED sessions => Aged /\ NobodyByLink
BY DEF Aged, NobodyByLink

\* A new code replaces those of its account that still waited.
LEMMA Minted ==
    ASSUME AccountsTyped, LinksTyped, NEW s \in DOMAIN sessions, MintLink(s)
    PROVE  /\ LinksTyped'
           /\ DOMAIN links' = DOMAIN links \cup {Len(links) + 1}
           /\ Len(links) + 1 <= MaxLinks
           /\ links'[Len(links) + 1] =
                 [user |-> sessions[s].user, claims |-> 0, refused |-> FALSE,
                  approvedBy |-> Nobody, consumed |-> FALSE, expired |-> FALSE]
           /\ \A l \in DOMAIN links :
                 /\ LinkKept(l)
                 /\ Outstanding(l, sessions[s].user) => links'[l].consumed
<1>. DEFINE new == [user |-> sessions[s].user, claims |-> 0, refused |-> FALSE,
                    approvedBy |-> Nobody, consumed |-> FALSE, expired |-> FALSE]
            rest == LinksWithout(OutstandingOf(sessions[s].user))
<1>0. sessions[s] \in SessionRow
  BY Table DEF AccountsTyped
<1>1. new \in LinkRow
  BY <1>0 DEF SessionRow, LinkRow
<1>2. /\ rest \in Seq(LinkRow) /\ Len(rest) = Len(links) /\ DOMAIN rest = DOMAIN links
      /\ \A l \in DOMAIN links :
            /\ rest[l].user = links[l].user /\ rest[l].claims = links[l].claims
            /\ rest[l].refused = links[l].refused
            /\ rest[l].approvedBy = links[l].approvedBy
            /\ rest[l].expired = links[l].expired
            /\ links[l].consumed => rest[l].consumed
            /\ l \in OutstandingOf(sessions[s].user) => rest[l].consumed
  BY LinksOut
<1>3. links' = Append(rest, new) /\ Len(links) < MaxLinks
  BY DEF MintLink
<1>4. MaxLinks \in Nat /\ Len(links) \in Nat
  BY LinksAssumption, Table DEF LinksTyped
<1>5. /\ links' \in Seq(LinkRow) /\ Len(links') = Len(rest) + 1
      /\ DOMAIN links' = DOMAIN rest \cup {Len(rest) + 1}
      /\ links'[Len(rest) + 1] = new
      /\ \A l \in DOMAIN rest : links'[l] = rest[l]
  <2>. HIDE DEF new, rest
  <2>. QED  BY <1>1, <1>2, <1>3, RowAdded
<1>6. Len(links) + 1 <= MaxLinks
  BY <1>3, <1>4
<1>7. \A l \in DOMAIN links :
         Outstanding(l, sessions[s].user) => l \in OutstandingOf(sessions[s].user)
  BY DEF OutstandingOf
<1>. HIDE DEF rest
<1>. QED  BY <1>2, <1>5, <1>6, <1>7 DEF LinksTyped, LinkKept

LEMMA MintingKeepsLinks ==
    ASSUME AccountsTyped, LinksTyped, LinkInv, NEW s \in DOMAIN sessions, MintLink(s)
    PROVE  LinkInv'
<1>. DEFINE n == Len(links) + 1
            user == sessions[s].user
<1>1. /\ DOMAIN links' = DOMAIN links \cup {n} /\ n \notin DOMAIN links
      /\ links'[n].approvedBy = Nobody /\ links'[n].user = user
      /\ \A l \in DOMAIN links :
            LinkKept(l) /\ (Outstanding(l, user) => links'[l].consumed)
  <2>1. n \notin DOMAIN links
    BY Table DEF LinksTyped
  <2>2. /\ DOMAIN links' = DOMAIN links \cup {n}
        /\ links'[n] = [user |-> user, claims |-> 0, refused |-> FALSE,
                         approvedBy |-> Nobody, consumed |-> FALSE, expired |-> FALSE]
    BY Minted
  <2>3. \A l \in DOMAIN links :
           LinkKept(l) /\ (Outstanding(l, user) => links'[l].consumed)
    BY Minted
  <2>. QED  BY <2>1, <2>2, <2>3
<1>2. UNCHANGED sessions
  BY DEF MintLink, accountVars
<1>. HIDE DEF n
<1>3. ApprovalsMatch'
  BY <1>1, <1>2 DEF LinkInv, ApprovalsMatch, Approved, Claimed, LinkKept
<1>4. CollectionsMatch'
  BY <1>1, <1>2 DEF LinkInv, CollectionsMatch, FromLink, Approved, LinkKept
<1>5. CollectedOnce'
  BY <1>2 DEF LinkInv, CollectedOnce, FromLink
<1>6. \A l \in DOMAIN links : \A u : Outstanding(l, u)' => Outstanding(l, u) /\ u # user
  BY <1>1 DEF LinkKept, Outstanding, Approved
<1>7. OneOutstandingCode'
  BY <1>1, <1>6 DEF LinkInv, OneOutstandingCode, LinkKept
<1>. QED  BY <1>3, <1>4, <1>5, <1>7 DEF LinkInv

\* One link changes in place.
LEMMA LinkChanged ==
    ASSUME LinksTyped, NEW l \in DOMAIN links, NEW row \in LinkRow,
           links' = [links EXCEPT ![l] = row]
    PROVE  /\ LinksTyped' /\ DOMAIN links' = DOMAIN links
           /\ links'[l] = row
           /\ \A k \in DOMAIN links : k # l => links'[k] = links[k]
BY RowChanged DEF LinksTyped

LEMMA ApprovingKeepsLinks ==
    ASSUME AccountsTyped, LinksTyped, LinkInv, NEW s \in DOMAIN sessions,
           NEW l \in DOMAIN links, NEW approve \in BOOLEAN, AnswerLink(s, l, approve)
    PROVE  LinksTyped' /\ LinkInv'
<1>. DEFINE row == IF approve THEN [links[l] EXCEPT !.approvedBy = s]
                   ELSE [links[l] EXCEPT !.refused = TRUE]
<1>1. links[l] \in LinkRow /\ s \in Nat
  BY Table DEF LinksTyped, AccountsTyped
<1>2. row \in LinkRow
  BY <1>1 DEF LinkRow
<1>3. links' = [links EXCEPT ![l] = row] /\ UNCHANGED sessions
  BY DEF AnswerLink, accountVars
<1>4. /\ LinksTyped' /\ DOMAIN links' = DOMAIN links /\ links'[l] = row
      /\ \A k \in DOMAIN links : k # l => links'[k] = links[k]
  <2>. HIDE DEF row
  <2>. QED  BY <1>2, <1>3, LinkChanged
<1>5. Waiting(l, sessions[s].user)
  BY DEF AnswerLink
<1>6. /\ row.user = links[l].user /\ row.claims = links[l].claims
      /\ row.consumed = links[l].consumed
      /\ row.approvedBy \in {links[l].approvedBy, s}
      /\ row.approvedBy # Nobody => row.approvedBy = s /\ row.refused = links[l].refused
  BY <1>1, <1>5 DEF LinkRow, Waiting, Outstanding, Approved
<1>. HIDE DEF row
<1>7. ApprovalsMatch'
  BY <1>3, <1>4, <1>5, <1>6
     DEF LinkInv, ApprovalsMatch, Approved, Claimed, Waiting, Outstanding
<1>8. \A t \in DOMAIN sessions : FromLink(t) => sessions[t].grant.of # l
  BY <1>5 DEF LinkInv, CollectionsMatch, Waiting, Outstanding
<1>9. CollectionsMatch' /\ CollectedOnce'
  BY <1>3, <1>4, <1>8 DEF LinkInv, CollectionsMatch, CollectedOnce, FromLink, Approved
<1>10. \A k \in DOMAIN links : \A u : Outstanding(k, u)' => Outstanding(k, u)
  BY <1>4, <1>5, <1>6 DEF Outstanding, Approved, Waiting
<1>11. OneOutstandingCode'
  BY <1>4, <1>6, <1>10 DEF LinkInv, OneOutstandingCode
<1>. QED  BY <1>4, <1>7, <1>9, <1>11 DEF LinkInv

LEMMA ClaimingKeepsLinks ==
    ASSUME AccountsTyped, LinksTyped, LinkInv, NEW l \in DOMAIN links, ClaimLink(l)
    PROVE  LinksTyped' /\ LinkInv'
<1>. DEFINE row == [links[l] EXCEPT !.claims = @ + 1, !.refused = FALSE]
<1>1. links[l] \in LinkRow
  BY Table DEF LinksTyped
<1>2. row \in LinkRow
  <2>1. links[l].claims + 1 \in Nat
    BY <1>1 DEF LinkRow
  <2>. QED  BY <1>1, <2>1 DEF LinkRow
<1>3. links' = [links EXCEPT ![l] = row] /\ UNCHANGED sessions
  BY DEF ClaimLink, accountVars
<1>4. /\ LinksTyped' /\ DOMAIN links' = DOMAIN links /\ links'[l] = row
      /\ \A k \in DOMAIN links : k # l => links'[k] = links[k]
  <2>. HIDE DEF row
  <2>. QED  BY <1>2, <1>3, LinkChanged
<1>5. ~links[l].consumed /\ ~Approved(l)
  BY DEF ClaimLink, Claimable, LinkInv, ApprovalsMatch
<1>6. /\ row.user = links[l].user /\ row.consumed = links[l].consumed
      /\ row.approvedBy = links[l].approvedBy
  BY <1>1 DEF LinkRow
<1>. HIDE DEF row
<1>7. ApprovalsMatch'
  BY <1>3, <1>4, <1>5, <1>6 DEF LinkInv, ApprovalsMatch, Approved, Claimed
<1>8. CollectionsMatch' /\ CollectedOnce'
  BY <1>3, <1>4, <1>5, <1>6 DEF LinkInv, CollectionsMatch, CollectedOnce, FromLink, Approved
<1>9. \A k \in DOMAIN links : \A u : Outstanding(k, u)' => Outstanding(k, u)
  BY <1>4, <1>5, <1>6 DEF Outstanding, Approved
<1>10. OneOutstandingCode'
  BY <1>4, <1>6, <1>9 DEF LinkInv, OneOutstandingCode
<1>. QED  BY <1>4, <1>7, <1>8, <1>10 DEF LinkInv

LEMMA CollectingKeepsLinks ==
    ASSUME AccountsTyped, LinksTyped, LinkInv, NEW l \in DOMAIN links,
           NEW claim \in 1..links[l].claims, CollectLink(l, claim)
    PROVE  /\ sessions' \in Seq(SessionRow) /\ Aged
           /\ LetsIn(links[l].user, [kind |-> "link", of |-> l, claim |-> claim])
           /\ \A s \in DOMAIN sessions : sessions'[s].live <=> sessions[s].live
           /\ LinksTyped' /\ LinksFade /\ LinkInv'
<1>. DEFINE grant == [kind |-> "link", of |-> l, claim |-> claim]
            n == Len(sessions) + 1
<1>1. links[l] \in LinkRow /\ l \in Nat
  BY Table DEF LinksTyped
<1>2. links[l].user \in Users /\ grant \in LinkGrants
  BY <1>1 DEF LinkRow, LinkGrants
<1>3. /\ sessions' \in Seq(SessionRow) /\ Aged /\ LetsIn(links[l].user, grant)
      /\ \A s \in DOMAIN sessions : sessions'[s].live <=> sessions[s].live
  BY <1>2, Created DEF CollectLink
<1>4. links' = LinksWithout({l})
  BY DEF CollectLink
<1>5. LinksTyped' /\ LinksFade /\ links'[l].consumed
  BY <1>4, LinksOut DEF LinksTyped, LinksFade, LinkKept
<1>6. /\ links[l].claims = claim /\ ~links[l].consumed /\ Approved(l)
  BY DEF CollectLink, Collectable
<1>7. /\ DOMAIN sessions' = DOMAIN sessions \cup {n} /\ n \notin DOMAIN sessions
      /\ sessions'[n].grant = grant /\ sessions'[n].user = links[l].user
  BY <1>3, Table DEF LetsIn, Session, AccountsTyped
<1>8. \A s \in DOMAIN sessions : FromLink(s) => sessions[s].grant.of # l
  BY <1>6 DEF LinkInv, CollectionsMatch
<1>9. \A s \in DOMAIN sessions :
        /\ FromLink(s)' <=> FromLink(s)
        /\ sessions'[s].grant = sessions[s].grant /\ sessions'[s].user = sessions[s].user
  BY <1>3 DEF Aged, FromLink
<1>. HIDE DEF n
<1>10. ApprovalsMatch'
  BY <1>3, <1>5 DEF LinkInv, ApprovalsMatch, Approved, Claimed, LinksFade, LinkKept, Aged
<1>11. CollectionsMatch'
  BY <1>5, <1>9, <1>6, <1>7 DEF LinkInv, CollectionsMatch, Approved, LinksFade, LinkKept
<1>12. CollectedOnce'
  BY <1>7, <1>8, <1>9 DEF LinkInv, CollectedOnce
<1>13. \A k \in DOMAIN links : \A u : Outstanding(k, u)' => Outstanding(k, u)
  BY <1>5 DEF Outstanding, Approved, LinksFade, LinkKept
<1>14. OneOutstandingCode'
  BY <1>5, <1>13 DEF LinkInv, OneOutstandingCode, LinksFade, LinkKept
<1>. QED  BY <1>3, <1>5, <1>10, <1>11, <1>12, <1>14 DEF LinkInv

\* Whatever withdraws links without letting anybody in by one.
LEMMA WithdrawnLinks ==
    ASSUME LinksTyped, NEW gone, links' = LinksWithout(gone)
    PROVE  LinksTyped' /\ LinksFade
BY LinksOut DEF LinksTyped, LinksFade, LinkKept

LEMMA ExpiredLink ==
    ASSUME LinksTyped, NEW l \in DOMAIN links, ExpireLink(l)
    PROVE  LinksTyped' /\ LinksFade
<1>. DEFINE row == [links[l] EXCEPT !.expired = TRUE]
<1>1. links[l] \in LinkRow
  BY Table DEF LinksTyped
<1>2. row \in LinkRow
  BY <1>1 DEF LinkRow
<1>3. links' = [links EXCEPT ![l] = row]
  BY DEF ExpireLink
<1>4. /\ LinksTyped' /\ DOMAIN links' = DOMAIN links /\ links'[l] = row
      /\ \A k \in DOMAIN links : k # l => links'[k] = links[k]
  <2>. HIDE DEF row
  <2>. QED  BY <1>2, <1>3, LinkChanged
<1>. QED  BY <1>1, <1>4 DEF LinksFade, LinkKept, LinkRow

LEMMA LinksNextKeepsLinks ==
    ASSUME AccountsTyped, LinksTyped, LinkInv, LinksNext
    PROVE  AccountsTyped' /\ LinksTyped' /\ LinkInv' /\ Admits({"link"})
<1>1. ASSUME NEW s \in DOMAIN sessions, MintLink(s)
      PROVE  AccountsTyped' /\ LinksTyped' /\ LinkInv' /\ Admits({"link"})
  BY <1>1, NobodyComes, Minted, MintingKeepsLinks DEF MintLink, accountVars
<1>2. ASSUME NEW s \in DOMAIN sessions, NEW l \in DOMAIN links, CloseLink(s, l)
      PROVE  AccountsTyped' /\ LinksTyped' /\ LinkInv' /\ Admits({"link"})
  BY <1>2, NobodyComes, SameSessionsAge, WithdrawnLinks, FadingKeepsLinks DEF CloseLink, accountVars
<1>3. ASSUME NEW s \in DOMAIN sessions, NEW l \in DOMAIN links, NEW approve \in BOOLEAN,
             AnswerLink(s, l, approve)
      PROVE  AccountsTyped' /\ LinksTyped' /\ LinkInv' /\ Admits({"link"})
  BY <1>3, NobodyComes, ApprovingKeepsLinks DEF AnswerLink, accountVars
<1>4. ASSUME NEW l \in DOMAIN links, ExpireLink(l)
      PROVE  AccountsTyped' /\ LinksTyped' /\ LinkInv' /\ Admits({"link"})
  BY <1>4, NobodyComes, SameSessionsAge, ExpiredLink, FadingKeepsLinks DEF ExpireLink, accountVars
<1>5. ASSUME NEW l \in DOMAIN links, ClaimLink(l)
      PROVE  AccountsTyped' /\ LinksTyped' /\ LinkInv' /\ Admits({"link"})
  BY <1>5, NobodyComes, ClaimingKeepsLinks DEF ClaimLink, accountVars
<1>6. ASSUME NEW l \in DOMAIN links, NEW claim \in 1..links[l].claims, CollectLink(l, claim)
      PROVE  AccountsTyped' /\ LinksTyped' /\ LinkInv' /\ Admits({"link"})
  <2>. DEFINE grant == [kind |-> "link", of |-> l, claim |-> claim]
  <2>1. /\ sessions' \in Seq(SessionRow) /\ Aged /\ LetsIn(links[l].user, grant)
        /\ LinksTyped' /\ LinkInv'
    BY <1>6, CollectingKeepsLinks
  <2>2. l \in Nat /\ claim \in Nat
    BY <1>6, Table DEF LinksTyped
  <2>3. grant \in LinkGrants
    BY <2>2 DEF LinkGrants
  <2>4. AccountsTyped'
    BY <1>6, <2>1 DEF CollectLink, AccountsTyped
  <2>. QED  BY <2>1, <2>3, <2>4, SomebodyComes
<1>. QED  BY <1>1, <1>2, <1>3, <1>4, <1>5, <1>6 DEF LinksNext

LEMMA OthersKeepLinks ==
    ASSUME LinksTyped, LinkInv, LinksTyped', LinksFade, NEW kinds, Admits(kinds), "link" \notin kinds
    PROVE  LinkInv'
BY FadingKeepsLinks DEF Admits, NobodyByLink, FromLink

------------------------
(* Desktop launches. *)

LaunchesTyped == launches \in Seq(LaunchRow) /\ Len(launches) <= MaxLaunches

FromLaunch(s) == sessions[s].grant # NoGrant /\ sessions[s].grant.kind = "desktop"

\* Only an approved authorization is consumed; a launch is some Session's.
LaunchesMatch ==
    \A g \in DOMAIN launches :
        /\ launches[g].consumed => launches[g].status = "approved"
        /\ launches[g].by \in DOMAIN sessions

\* A Session that came through a launch used it up, for the account that launched.
SignInsMatch ==
    \A s \in DOMAIN sessions : FromLaunch(s) =>
        /\ sessions[s].grant.of \in DOMAIN launches
        /\ launches[sessions[s].grant.of].consumed
        /\ sessions[s].user = sessions[launches[sessions[s].grant.of].by].user

SignedInOnce ==
    \A s, t \in DOMAIN sessions :
        FromLaunch(s) /\ FromLaunch(t) /\ sessions[s].grant.of = sessions[t].grant.of => s = t

\* Only what was asked for ends; a cancelled launch leaves nothing to collect.
EndingsMatch ==
    \A g \in DOMAIN launches :
        /\ launches[g].dead => launches[g].status # NoAuthorization
        /\ launches[g].cancelled /\ launches[g].status # NoAuthorization
              => launches[g].dead \/ launches[g].consumed

LaunchInv == LaunchesMatch /\ SignInsMatch /\ SignedInOnce /\ EndingsMatch

LEMMA LaunchInvSuffices == LaunchInv => LaunchLetsOneIn
BY DEF LaunchInv, SignInsMatch, SignedInOnce, LaunchLetsOneIn, DesktopsLetIn, FromLaunch

\* Nothing happened to launch g, except that it or its authorization may have
\* ended.
LaunchKept(g) ==
    /\ g \in DOMAIN launches'
    /\ launches'[g].by = launches[g].by
    /\ launches'[g].status = launches[g].status
    /\ launches'[g].consumed = launches[g].consumed
    /\ launches[g].cancelled => launches'[g].cancelled
    /\ launches[g].expired => launches'[g].expired
    /\ launches[g].dead => launches'[g].dead
    /\ launches'[g].dead => launches[g].dead \/ launches[g].status # NoAuthorization
    /\ launches'[g].cancelled /\ launches[g].status # NoAuthorization
          => launches[g].cancelled \/ launches[g].consumed \/ launches'[g].dead

LaunchesFade == DOMAIN launches' = DOMAIN launches /\ \A g \in DOMAIN launches : LaunchKept(g)

LEMMA LaunchesOut ==
    ASSUME LaunchesTyped, NEW gone
    PROVE  /\ LaunchesEnded(gone) \in Seq(LaunchRow)
           /\ DOMAIN LaunchesEnded(gone) = DOMAIN launches
           /\ Len(LaunchesEnded(gone)) = Len(launches)
           /\ \A g \in DOMAIN launches :
                /\ LaunchesEnded(gone)[g].by = launches[g].by
                /\ LaunchesEnded(gone)[g].status = launches[g].status
                /\ LaunchesEnded(gone)[g].consumed = launches[g].consumed
                /\ LaunchesEnded(gone)[g].cancelled = launches[g].cancelled
                /\ LaunchesEnded(gone)[g].expired = launches[g].expired
                /\ LaunchesEnded(gone)[g].dead <=>
                      launches[g].dead \/ g \in Authorizations(gone)
<1>1. \A g \in DOMAIN launches : launches[g] \in LaunchRow
  BY Table DEF LaunchesTyped
<1>2. LaunchesEnded(gone) \in [DOMAIN launches -> LaunchRow]
  BY <1>1 DEF LaunchesEnded, LaunchRow
<1>3. \A g \in DOMAIN launches :
         LaunchesEnded(gone)[g] = [launches[g] EXCEPT !.dead = @ \/ g \in Authorizations(gone)]
  BY DEF LaunchesEnded
<1>4. /\ LaunchesEnded(gone) \in Seq(LaunchRow)
      /\ DOMAIN LaunchesEnded(gone) = DOMAIN launches
      /\ Len(LaunchesEnded(gone)) = Len(launches)
  BY <1>2, RowsChanged DEF LaunchesTyped
<1>. QED  BY <1>1, <1>3, <1>4 DEF LaunchRow

LEMMA EndedLaunches ==
    ASSUME LaunchesTyped, NEW gone, launches' = LaunchesEnded(gone)
    PROVE  LaunchesTyped' /\ LaunchesFade
BY LaunchesOut DEF LaunchesTyped, LaunchesFade, LaunchKept, Authorizations

LEMMA OthersKeepLaunches ==
    ASSUME LaunchInv, LaunchesFade, NEW kinds, Admits(kinds), "desktop" \notin kinds
    PROVE  LaunchInv'
<1>1. \A s \in DOMAIN sessions' : FromLaunch(s)' =>
        /\ s \in DOMAIN sessions /\ FromLaunch(s)
        /\ sessions'[s].grant = sessions[s].grant /\ sessions'[s].user = sessions[s].user
  BY DEF Admits, Aged, FromLaunch
<1>2. \A s \in DOMAIN sessions :
         s \in DOMAIN sessions' /\ sessions'[s].user = sessions[s].user
  BY DEF Admits, Aged
<1>3. LaunchesMatch'
  BY <1>2 DEF LaunchInv, LaunchesMatch, LaunchesFade, LaunchKept
<1>4. SignInsMatch'
  BY <1>1, <1>2 DEF LaunchInv, LaunchesMatch, SignInsMatch, LaunchesFade, LaunchKept
<1>5. SignedInOnce'
  BY <1>1 DEF LaunchInv, SignedInOnce
<1>6. EndingsMatch'
  BY DEF LaunchInv, EndingsMatch, LaunchesFade, LaunchKept
<1>. QED  BY <1>3, <1>4, <1>5, <1>6 DEF LaunchInv

\* A new launch belongs to the Session that made it.
LEMMA Launched ==
    ASSUME AccountsTyped, LaunchesTyped, NEW s \in DOMAIN sessions, Launch(s)
    PROVE  /\ LaunchesTyped'
           /\ DOMAIN launches' = DOMAIN launches \cup {Len(launches) + 1}
           /\ Len(launches) + 1 <= MaxLaunches
           /\ launches'[Len(launches) + 1] =
                 [by |-> s, cancelled |-> FALSE, expired |-> FALSE,
                  status |-> "none", dead |-> FALSE, consumed |-> FALSE]
           /\ \A g \in DOMAIN launches : launches'[g] = launches[g]
<1>. DEFINE new == [by |-> s, cancelled |-> FALSE, expired |-> FALSE,
                    status |-> "none", dead |-> FALSE, consumed |-> FALSE]
<1>1. s \in Nat
  BY Table DEF AccountsTyped
<1>2. new \in LaunchRow
  BY <1>1 DEF LaunchRow
<1>3. launches' = Append(launches, new) /\ Len(launches) < MaxLaunches
  BY DEF Launch, NoAuthorization
<1>4. MaxLaunches \in Nat /\ Len(launches) \in Nat
  BY LaunchesAssumption, Table DEF LaunchesTyped
<1>. HIDE DEF new
<1>5. /\ launches' \in Seq(LaunchRow) /\ Len(launches') = Len(launches) + 1
      /\ DOMAIN launches' = DOMAIN launches \cup {Len(launches) + 1}
      /\ launches'[Len(launches) + 1] = new
      /\ \A g \in DOMAIN launches : launches'[g] = launches[g]
  BY <1>2, <1>3, RowAdded DEF LaunchesTyped
<1>6. Len(launches) + 1 <= MaxLaunches
  BY <1>3, <1>4
<1>. QED  BY <1>5, <1>6 DEF LaunchesTyped, new

\* One launch changes in place.
LEMMA LaunchChanged ==
    ASSUME LaunchesTyped, NEW g \in DOMAIN launches, NEW row \in LaunchRow,
           launches' = [launches EXCEPT ![g] = row]
    PROVE  /\ LaunchesTyped' /\ DOMAIN launches' = DOMAIN launches
           /\ launches'[g] = row
           /\ \A k \in DOMAIN launches : k # g => launches'[k] = launches[k]
BY RowChanged DEF LaunchesTyped

\* An authorization was asked for, or decided: nothing else happened.
LEMMA Decided ==
    ASSUME AccountsTyped, LaunchesTyped, LaunchInv, NEW g \in DOMAIN launches,
           NEW status \in {"pending", "approved", "refused"},
           ~launches[g].consumed, ~launches[g].cancelled,
           launches' = [launches EXCEPT ![g].status = status], UNCHANGED accountVars
    PROVE  /\ AccountsTyped' /\ LaunchesTyped' /\ LaunchInv'
           /\ DOMAIN launches' = DOMAIN launches
           /\ launches'[g] = [launches[g] EXCEPT !.status = status]
           /\ \A k \in DOMAIN launches : k # g => launches'[k] = launches[k]
<1>. DEFINE row == [launches[g] EXCEPT !.status = status]
<1>1. launches[g] \in LaunchRow
  BY Table DEF LaunchesTyped
<1>2. row \in LaunchRow
  BY <1>1 DEF LaunchRow
<1>3. launches' = [launches EXCEPT ![g] = row]
  OBVIOUS
<1>4. /\ LaunchesTyped' /\ DOMAIN launches' = DOMAIN launches /\ launches'[g] = row
      /\ \A k \in DOMAIN launches : k # g => launches'[k] = launches[k]
  <2>. HIDE DEF row
  <2>. QED  BY <1>2, <1>3, LaunchChanged
<1>5. /\ row.by = launches[g].by /\ ~row.consumed
      /\ row.status # NoAuthorization /\ ~row.cancelled
  BY <1>1 DEF LaunchRow, NoAuthorization
<1>6. AccountsTyped' /\ UNCHANGED sessions
  BY DEF AccountsTyped, accountVars
<1>7. \A s \in DOMAIN sessions : FromLaunch(s) => sessions[s].grant.of # g
  BY DEF LaunchInv, SignInsMatch
<1>8. SignedInOnce'
  BY <1>6 DEF LaunchInv, SignedInOnce, FromLaunch
<1>9. LaunchesMatch' /\ SignInsMatch' /\ EndingsMatch'
  <2>. HIDE DEF row
  <2>1. LaunchesMatch'
    BY <1>4, <1>5, <1>6 DEF LaunchInv, LaunchesMatch
  <2>2. SignInsMatch'
    BY <1>4, <1>6, <1>7 DEF LaunchInv, SignInsMatch, FromLaunch
  <2>3. EndingsMatch'
    BY <1>4, <1>5 DEF LaunchInv, EndingsMatch
  <2>. QED  BY <2>1, <2>2, <2>3
<1>. QED  BY <1>4, <1>6, <1>8, <1>9 DEF LaunchInv

LEMMA RequestingKeepsLaunches ==
    ASSUME AccountsTyped, LaunchesTyped, LaunchInv, NEW g \in DOMAIN launches,
           RequestAuthorization(g)
    PROVE  /\ AccountsTyped' /\ LaunchesTyped' /\ LaunchInv'
           /\ DOMAIN launches' = DOMAIN launches
           /\ launches'[g] = [launches[g] EXCEPT !.status = "pending"]
           /\ \A k \in DOMAIN launches : k # g => launches'[k] = launches[k]
BY Decided DEF RequestAuthorization, LaunchOpen, NoAuthorization, LaunchInv, LaunchesMatch

LEMMA DecidingKeepsLaunches ==
    ASSUME AccountsTyped, LaunchesTyped, LaunchInv, NEW s \in DOMAIN sessions,
           NEW g \in DOMAIN launches, NEW approve \in BOOLEAN, Decide(s, g, approve)
    PROVE  /\ AccountsTyped' /\ LaunchesTyped' /\ LaunchInv'
           /\ DOMAIN launches' = DOMAIN launches
           /\ launches'[g] = [launches[g] EXCEPT !.status =
                                 IF approve THEN "approved" ELSE "refused"]
           /\ \A k \in DOMAIN launches : k # g => launches'[k] = launches[k]
<1>. DEFINE status == IF approve THEN "approved" ELSE "refused"
<1>1. ~launches[g].consumed /\ ~launches[g].cancelled
  BY DEF Decide, AuthorizationLive, LaunchOpen
<1>2. status \in {"pending", "approved", "refused"}
  OBVIOUS
<1>3. launches' = [launches EXCEPT ![g].status = status] /\ UNCHANGED accountVars
  BY DEF Decide
<1>. HIDE DEF status
<1>4. /\ AccountsTyped' /\ LaunchesTyped' /\ LaunchInv'
      /\ DOMAIN launches' = DOMAIN launches
      /\ launches'[g] = [launches[g] EXCEPT !.status = status]
      /\ \A k \in DOMAIN launches : k # g => launches'[k] = launches[k]
  BY <1>1, <1>2, <1>3, Decided
<1>. QED  BY <1>4 DEF status

LEMMA LaunchingKeepsLaunches ==
    ASSUME AccountsTyped, LaunchesTyped, LaunchInv, NEW s \in DOMAIN sessions, Launch(s)
    PROVE  LaunchInv'
<1>1. UNCHANGED sessions
  BY DEF Launch, accountVars
<1>. DEFINE n == Len(launches) + 1
<1>2. /\ DOMAIN launches' = DOMAIN launches \cup {n}
      /\ launches'[n] = [by |-> s, cancelled |-> FALSE, expired |-> FALSE,
                         status |-> "none", dead |-> FALSE, consumed |-> FALSE]
      /\ \A g \in DOMAIN launches : launches'[g] = launches[g]
  BY Launched
<1>. HIDE DEF n
<1>3. LaunchesMatch'
  BY <1>1, <1>2 DEF LaunchInv, LaunchesMatch
<1>4. SignInsMatch' /\ SignedInOnce'
  BY <1>1, <1>2 DEF LaunchInv, SignInsMatch, SignedInOnce, FromLaunch
<1>5. EndingsMatch'
  BY <1>2 DEF LaunchInv, EndingsMatch
<1>. QED  BY <1>3, <1>4, <1>5 DEF LaunchInv

LEMMA CancellingFades ==
    ASSUME LaunchesTyped, NEW s, NEW g \in DOMAIN launches, CancelLaunch(s, g)
    PROVE  LaunchesTyped' /\ LaunchesFade
<1>. DEFINE rest == LaunchesEnded({g})
            row == [rest[g] EXCEPT !.cancelled = TRUE]
<1>1. /\ rest \in Seq(LaunchRow) /\ DOMAIN rest = DOMAIN launches /\ Len(rest) = Len(launches)
      /\ \A k \in DOMAIN launches :
           /\ rest[k].by = launches[k].by /\ rest[k].status = launches[k].status
           /\ rest[k].consumed = launches[k].consumed
           /\ rest[k].cancelled = launches[k].cancelled
           /\ rest[k].expired = launches[k].expired
           /\ rest[k].dead <=> launches[k].dead \/ k \in Authorizations({g})
  BY LaunchesOut
<1>2. launches' = [rest EXCEPT ![g] = row]
  BY DEF CancelLaunch
<1>. HIDE DEF rest
<1>3. rest[g] \in LaunchRow
  BY <1>1, Table
<1>4. /\ row \in LaunchRow /\ row.by = rest[g].by /\ row.status = rest[g].status
      /\ row.consumed = rest[g].consumed /\ row.cancelled /\ row.expired = rest[g].expired
      /\ row.dead = rest[g].dead
  BY <1>3 DEF LaunchRow
<1>. HIDE DEF row
<1>5. /\ launches' \in Seq(LaunchRow) /\ DOMAIN launches' = DOMAIN launches
      /\ Len(launches') = Len(launches)
      /\ \A k \in DOMAIN launches : launches'[k] = IF k = g THEN row ELSE rest[k]
  BY <1>1, <1>2, <1>4, RowChanged
<1>. QED  BY <1>1, <1>4, <1>5 DEF LaunchesTyped, LaunchesFade, LaunchKept, Authorizations

LEMMA ExpiringFades ==
    ASSUME LaunchesTyped, NEW g \in DOMAIN launches, ExpireLaunch(g)
    PROVE  LaunchesTyped' /\ LaunchesFade
<1>. DEFINE row == [launches[g] EXCEPT !.expired = TRUE]
<1>1. launches[g] \in LaunchRow
  BY Table DEF LaunchesTyped
<1>2. row \in LaunchRow
  BY <1>1 DEF LaunchRow
<1>3. launches' = [launches EXCEPT ![g] = row]
  BY DEF ExpireLaunch
<1>4. /\ LaunchesTyped' /\ DOMAIN launches' = DOMAIN launches /\ launches'[g] = row
      /\ \A k \in DOMAIN launches : k # g => launches'[k] = launches[k]
  <2>. HIDE DEF row
  <2>. QED  BY <1>2, <1>3, LaunchChanged
<1>. QED  BY <1>1, <1>4 DEF LaunchesFade, LaunchKept, LaunchRow

LEMMA CollectingKeepsLaunches ==
    ASSUME AccountsTyped, LaunchesTyped, LaunchInv, NEW g \in DOMAIN launches,
           CollectAuthorization(g)
    PROVE  /\ AccountsTyped' /\ Aged
           /\ LetsIn(sessions[launches[g].by].user, [kind |-> "desktop", of |-> g])
           /\ [kind |-> "desktop", of |-> g] \in OtherGrants
           /\ \A s \in DOMAIN sessions : sessions'[s].live <=> sessions[s].live
           /\ LaunchesTyped' /\ LaunchInv'
           /\ DOMAIN launches' = DOMAIN launches
           /\ launches'[g] = [launches[g] EXCEPT !.consumed = TRUE]
           /\ \A k \in DOMAIN launches : k # g => launches'[k] = launches[k]
<1>. DEFINE row == [launches[g] EXCEPT !.consumed = TRUE]
            grant == [kind |-> "desktop", of |-> g]
            user == sessions[launches[g].by].user
            n == Len(sessions) + 1
<1>1. launches[g] \in LaunchRow /\ g \in Nat
  BY Table DEF LaunchesTyped
<1>2. row \in LaunchRow /\ row.by = launches[g].by /\ row.status = launches[g].status /\ row.consumed
  BY <1>1 DEF LaunchRow
<1>3. launches' = [launches EXCEPT ![g] = row]
  BY DEF CollectAuthorization
<1>4. /\ LaunchesTyped' /\ DOMAIN launches' = DOMAIN launches /\ launches'[g] = row
      /\ \A k \in DOMAIN launches : k # g => launches'[k] = launches[k]
  <2>. HIDE DEF row
  <2>. QED  BY <1>2, <1>3, LaunchChanged
<1>5. launches[g].by \in DOMAIN sessions /\ ~launches[g].consumed /\ launches[g].status = "approved"
  BY DEF CollectAuthorization, Authorizes, AuthorizationLive, LaunchInv, LaunchesMatch
<1>6. sessions[launches[g].by] \in SessionRow
  BY <1>5, Table DEF AccountsTyped
<1>7. user \in Users /\ grant \in OtherGrants
  BY <1>1, <1>6 DEF SessionRow, OtherGrants
<1>8. /\ sessions' \in Seq(SessionRow) /\ Aged /\ LetsIn(user, grant)
      /\ \A s \in DOMAIN sessions : sessions'[s].live <=> sessions[s].live
  <2>. HIDE DEF user, grant
  <2>1. CreateSession(user, grant, {})
    BY DEF CollectAuthorization, user, grant
  <2>. QED  BY <1>7, <2>1, Created
<1>9. AccountsTyped'
  BY <1>8 DEF AccountsTyped, CollectAuthorization
<1>10. /\ DOMAIN sessions' = DOMAIN sessions \cup {n} /\ n \notin DOMAIN sessions
       /\ sessions'[n].grant = grant /\ sessions'[n].user = user
  BY <1>8, Table DEF LetsIn, Session, AccountsTyped
<1>11. \A s \in DOMAIN sessions :
        /\ FromLaunch(s)' <=> FromLaunch(s)
        /\ sessions'[s].grant = sessions[s].grant /\ sessions'[s].user = sessions[s].user
  BY <1>8 DEF Aged, FromLaunch
<1>12. \A s \in DOMAIN sessions : FromLaunch(s) => sessions[s].grant.of # g
  BY <1>5 DEF LaunchInv, SignInsMatch
<1>. HIDE DEF n, row
<1>13. LaunchesMatch'
  BY <1>2, <1>4, <1>5, <1>10 DEF LaunchInv, LaunchesMatch
<1>14. SignInsMatch'
  BY <1>2, <1>4, <1>11, <1>5, <1>10 DEF LaunchInv, LaunchesMatch, SignInsMatch
<1>15. SignedInOnce'
  BY <1>10, <1>11, <1>12 DEF LaunchInv, SignedInOnce
<1>16. EndingsMatch'
  BY <1>2, <1>4, <1>5 DEF LaunchInv, EndingsMatch, NoAuthorization
<1>. QED  BY <1>4, <1>7, <1>8, <1>9, <1>13, <1>14, <1>15, <1>16 DEF LaunchInv, row

LEMMA LaunchesNextKeepsLaunches ==
    ASSUME AccountsTyped, LaunchesTyped, LaunchInv, LaunchesNext
    PROVE  AccountsTyped' /\ LaunchesTyped' /\ LaunchInv' /\ Admits({"desktop"})
<1>1. ASSUME NEW s \in DOMAIN sessions, Launch(s)
      PROVE  AccountsTyped' /\ LaunchesTyped' /\ LaunchInv' /\ Admits({"desktop"})
  BY <1>1, NobodyComes, Launched, LaunchingKeepsLaunches DEF Launch, accountVars
<1>2. ASSUME LaunchesTyped', LaunchesFade, UNCHANGED accountVars
      PROVE  AccountsTyped' /\ LaunchesTyped' /\ LaunchInv' /\ Admits({"desktop"})
  <2>1. AccountsTyped' /\ Admits({"desktop"}) /\ Admits({})
    BY <1>2, NobodyComes DEF accountVars
  <2>. QED  BY <1>2, <2>1, OthersKeepLaunches
<1>3. ASSUME NEW s \in DOMAIN sessions, NEW g \in DOMAIN launches, CancelLaunch(s, g)
      PROVE  AccountsTyped' /\ LaunchesTyped' /\ LaunchInv' /\ Admits({"desktop"})
  BY <1>2, <1>3, CancellingFades DEF CancelLaunch
<1>4. ASSUME NEW s \in DOMAIN sessions, NEW g \in DOMAIN launches, NEW approve \in BOOLEAN,
             Decide(s, g, approve)
      PROVE  AccountsTyped' /\ LaunchesTyped' /\ LaunchInv' /\ Admits({"desktop"})
  <2>1. Admits({"desktop"})
    BY <1>4, NobodyComes DEF Decide, accountVars
  <2>. QED  BY <1>4, <2>1, DecidingKeepsLaunches
<1>5. ASSUME NEW g \in DOMAIN launches, RequestAuthorization(g)
      PROVE  AccountsTyped' /\ LaunchesTyped' /\ LaunchInv' /\ Admits({"desktop"})
  BY <1>5, NobodyComes, RequestingKeepsLaunches DEF RequestAuthorization, accountVars
<1>6. ASSUME NEW g \in DOMAIN launches, CollectAuthorization(g)
      PROVE  AccountsTyped' /\ LaunchesTyped' /\ LaunchInv' /\ Admits({"desktop"})
  <2>. DEFINE grant == [kind |-> "desktop", of |-> g]
  <2>1. /\ Aged /\ LetsIn(sessions[launches[g].by].user, grant) /\ grant \in OtherGrants
        /\ AccountsTyped' /\ LaunchesTyped' /\ LaunchInv'
    BY <1>6, CollectingKeepsLaunches
  <2>2. grant.kind \in {"desktop"}
    OBVIOUS
  <2>. HIDE DEF grant
  <2>. QED  BY <2>1, <2>2, SomebodyComes
<1>7. ASSUME NEW g \in DOMAIN launches, CancelAuthorization(g) \/ ExpireAuthorization(g)
      PROVE  AccountsTyped' /\ LaunchesTyped' /\ LaunchInv' /\ Admits({"desktop"})
  BY <1>2, <1>7, EndedLaunches DEF CancelAuthorization, ExpireAuthorization
<1>8. ASSUME NEW g \in DOMAIN launches, ExpireLaunch(g)
      PROVE  AccountsTyped' /\ LaunchesTyped' /\ LaunchInv' /\ Admits({"desktop"})
  BY <1>2, <1>8, ExpiringFades DEF ExpireLaunch
<1>. QED  BY <1>1, <1>3, <1>4, <1>5, <1>6, <1>7, <1>8 DEF LaunchesNext

------------------------
(* Recovery codes and owner claims. *)

RecoveryTyped == codes \in Seq(CodeRow) /\ ownerClaims \in Seq(OwnerClaimRow)

FromCode(s) == sessions[s].grant # NoGrant /\ sessions[s].grant.kind = "recovery"
FromOwnerClaim(s) == sessions[s].grant # NoGrant /\ sessions[s].grant.kind = "owner"

\* A Session that came through a code or a claim used it up.
RecoveriesMatch ==
    /\ \A s \in DOMAIN sessions : FromCode(s) =>
          sessions[s].grant.of \in DOMAIN codes /\ codes[sessions[s].grant.of].used
    /\ \A s \in DOMAIN sessions : FromOwnerClaim(s) =>
          sessions[s].grant.of \in DOMAIN ownerClaims /\ ownerClaims[sessions[s].grant.of].consumed

RecoveredOnce ==
    \A s, t \in DOMAIN sessions :
        (FromCode(s) \/ FromOwnerClaim(s)) /\ sessions[s].grant = sessions[t].grant => s = t

OneLiveCode ==
    \A c, k \in DOMAIN codes :
        CodeLive(c) /\ CodeLive(k) /\ codes[c].user = codes[k].user => c = k

\* Whoever was signed in when an account was recovered is not any more.
RecoverySignsOut ==
    \A r, s \in DOMAIN sessions :
        FromCode(r) /\ s < r /\ sessions[s].user = sessions[r].user => ~sessions[s].live

RecoveryInv == RecoveriesMatch /\ RecoveredOnce /\ OneLiveCode /\ RecoverySignsOut

LEMMA RecoveryInvSuffices == RecoveryInv => RecoveryLetsOneIn
BY DEF RecoveryInv, RecoveredOnce, OneLiveCode, RecoveryLetsOneIn, FromCode, FromOwnerClaim

\* No code came to work that did not, and what was used stays used.
CodesFade ==
    /\ DOMAIN codes' = DOMAIN codes
    /\ \A c \in DOMAIN codes :
          /\ codes'[c].user = codes[c].user
          /\ codes[c].used => codes'[c].used
          /\ codes[c].replaced => codes'[c].replaced

LEMMA CodesOut ==
    ASSUME RecoveryTyped, NEW gone
    PROVE  /\ CodesWithout(gone) \in Seq(CodeRow)
           /\ DOMAIN CodesWithout(gone) = DOMAIN codes
           /\ Len(CodesWithout(gone)) = Len(codes)
           /\ \A c \in DOMAIN codes :
                /\ CodesWithout(gone)[c].user = codes[c].user
                /\ CodesWithout(gone)[c].used = codes[c].used
                /\ CodesWithout(gone)[c].replaced <=> codes[c].replaced \/ c \in gone
<1>1. \A c \in DOMAIN codes : codes[c] \in CodeRow
  BY Table DEF RecoveryTyped
<1>2. CodesWithout(gone) \in [DOMAIN codes -> CodeRow]
  BY <1>1 DEF CodesWithout, CodeRow
<1>3. \A c \in DOMAIN codes :
         CodesWithout(gone)[c] = [codes[c] EXCEPT !.replaced = @ \/ c \in gone]
  BY DEF CodesWithout
<1>4. /\ CodesWithout(gone) \in Seq(CodeRow)
      /\ DOMAIN CodesWithout(gone) = DOMAIN codes
      /\ Len(CodesWithout(gone)) = Len(codes)
  BY <1>2, RowsChanged DEF RecoveryTyped
<1>. QED  BY <1>1, <1>3, <1>4 DEF CodeRow

\* Whatever lets nobody recover, takes codes back and signs out.
LEMMA OthersKeepRecovery ==
    ASSUME AccountsTyped, AccountsTyped', RecoveryInv, CodesFade, NEW kinds, Admits(kinds),
           kinds \cap {"recovery", "owner"} = {},
           DOMAIN ownerClaims' = DOMAIN ownerClaims,
           \A c \in DOMAIN ownerClaims : ownerClaims[c].consumed => ownerClaims'[c].consumed
    PROVE  RecoveryInv'
<1>1. \A s \in DOMAIN sessions' : (FromCode(s)' \/ FromOwnerClaim(s)') => s \in DOMAIN sessions
  BY DEF Admits, FromCode, FromOwnerClaim
<1>2. \A s \in DOMAIN sessions :
        /\ s \in DOMAIN sessions' /\ sessions'[s].user = sessions[s].user
        /\ sessions'[s].grant = sessions[s].grant
        /\ sessions'[s].live => sessions[s].live
        /\ FromCode(s)' <=> FromCode(s)
        /\ FromOwnerClaim(s)' <=> FromOwnerClaim(s)
  BY DEF Admits, Aged, FromCode, FromOwnerClaim
<1>3. RecoveriesMatch'
  BY <1>1, <1>2 DEF RecoveryInv, RecoveriesMatch, CodesFade
<1>4. RecoveredOnce'
  BY <1>1, <1>2 DEF RecoveredOnce, FromCode, FromOwnerClaim, RecoveryInv
<1>5. OneLiveCode'
  BY DEF RecoveryInv, OneLiveCode, CodesFade, CodeLive
<1>6. RecoverySignsOut'
  <2>. SUFFICES ASSUME NEW r \in DOMAIN sessions', NEW s \in DOMAIN sessions',
                       FromCode(r)', s < r, sessions'[s].user = sessions'[r].user
                PROVE  ~sessions'[s].live
    BY DEF RecoverySignsOut
  <2>1. r \in DOMAIN sessions /\ r \in Nat
    BY <1>1, Table DEF AccountsTyped
  <2>2. s \in DOMAIN sessions
    BY <2>1, Table DEF Admits, Aged, AccountsTyped
  <2>. QED  BY <1>2, <2>1, <2>2 DEF RecoveryInv, RecoverySignsOut
<1>. QED  BY <1>3, <1>4, <1>5, <1>6 DEF RecoveryInv

LEMMA SignedOut ==
    ASSUME AccountsTyped, NEW gone, sessions' = SessionsWithout(gone), NEW kinds,
           UNCHANGED <<accounts, banned, deleted>> \/ AccountsTyped'
    PROVE  AccountsTyped' /\ Admits(kinds) /\ DOMAIN sessions' = DOMAIN sessions
BY SessionsOut DEF Aged, AccountsTyped, Admits

LEMMA IssuingKeepsRecovery ==
    ASSUME AccountsTyped, RecoveryTyped, RecoveryInv, NEW s \in DOMAIN sessions,
           IssueRecoveryCode(s)
    PROVE  AccountsTyped' /\ RecoveryTyped' /\ RecoveryInv' /\ Admits({})
<1>. DEFINE user == sessions[s].user
            rest == CodesWithout(CodesOf(user))
            new == [user |-> user, used |-> FALSE, replaced |-> FALSE]
            n == Len(codes) + 1
<1>1. sessions' = sessions \/ sessions' = SessionsWithout(SessionsOf(user) \ {s})
  BY DEF IssueRecoveryCode
<1>2. UNCHANGED <<accounts, banned, deleted, ownerClaims>>
  BY DEF IssueRecoveryCode
<1>3. AccountsTyped' /\ Admits({}) /\ DOMAIN sessions' = DOMAIN sessions
  BY <1>2, NobodyComes, SignedOut, <1>1
<1>4. sessions[s] \in SessionRow
  BY Table DEF AccountsTyped
<1>5. new \in CodeRow
  BY <1>4 DEF SessionRow, CodeRow
<1>6. /\ rest \in Seq(CodeRow) /\ DOMAIN rest = DOMAIN codes /\ Len(rest) = Len(codes)
      /\ \A c \in DOMAIN codes :
            /\ rest[c].user = codes[c].user /\ rest[c].used = codes[c].used
            /\ rest[c].replaced <=> codes[c].replaced \/ c \in CodesOf(user)
  BY CodesOut
<1>7. codes' = Append(rest, new)
  BY DEF IssueRecoveryCode
<1>8. n \notin DOMAIN codes
  BY Table DEF RecoveryTyped
<1>9. /\ codes' \in Seq(CodeRow) /\ DOMAIN codes' = DOMAIN codes \cup {n} /\ codes'[n] = new
      /\ \A c \in DOMAIN codes : codes'[c] = rest[c]
  <2>. HIDE DEF rest, new
  <2>. QED  BY <1>5, <1>6, <1>7, RowAdded
<1>. HIDE DEF n, rest
<1>10. RecoveryTyped'
  BY <1>2, <1>9 DEF RecoveryTyped
<1>11. \A c \in DOMAIN codes : CodeLive(c)' => CodeLive(c) /\ codes[c].user # user
  BY <1>6, <1>9 DEF CodeLive, CodesOf
<1>12. OneLiveCode'
  BY <1>6, <1>9, <1>11 DEF RecoveryInv, OneLiveCode
<1>13. \A r \in DOMAIN sessions :
        /\ sessions'[r].user = sessions[r].user
        /\ sessions'[r].grant = sessions[r].grant
        /\ sessions'[r].live => sessions[r].live
        /\ FromCode(r)' <=> FromCode(r)
        /\ FromOwnerClaim(r)' <=> FromOwnerClaim(r)
  BY <1>3 DEF Admits, Aged, FromCode, FromOwnerClaim
<1>14. RecoveriesMatch' /\ RecoveredOnce' /\ RecoverySignsOut'
  <2>1. RecoveriesMatch'
    BY <1>2, <1>3, <1>6, <1>9, <1>13 DEF RecoveryInv, RecoveriesMatch
  <2>2. RecoveredOnce'
    BY <1>3, <1>13 DEF RecoveryInv, RecoveredOnce
  <2>3. RecoverySignsOut'
    BY <1>3, <1>13 DEF RecoveryInv, RecoverySignsOut
  <2>. QED  BY <2>1, <2>2, <2>3
<1>. QED  BY <1>3, <1>10, <1>12, <1>14 DEF RecoveryInv

\* A code or a claim lets somebody in.
LEMMA RecoveringKeepsSessions ==
    ASSUME AccountsTyped, RecoveryInv, NEW user \in Users,
           NEW grant \in OtherGrants, grant.kind \in {"recovery", "owner"},
           \A s \in DOMAIN sessions : sessions[s].grant # grant,
           NEW gone, CreateSession(user, grant, gone),
           grant.kind = "recovery" => gone = SessionsOf(user)
    PROVE  RecoveredOnce' /\ RecoverySignsOut'
<1>. DEFINE n == Len(sessions) + 1
<1>1. /\ sessions' \in Seq(SessionRow) /\ Aged /\ LetsIn(user, grant)
      /\ \A s \in DOMAIN sessions : s \in gone => ~sessions'[s].live
  BY Created
<1>2. /\ DOMAIN sessions' = DOMAIN sessions \cup {n} /\ n \notin DOMAIN sessions
      /\ sessions'[n].grant = grant /\ sessions'[n].user = user
      /\ \A t \in DOMAIN sessions : ~(n < t)
  BY Table, <1>1 DEF AccountsTyped, LetsIn, Session
<1>3. \A s \in DOMAIN sessions :
        /\ FromCode(s)' <=> FromCode(s)
        /\ FromOwnerClaim(s)' <=> FromOwnerClaim(s)
        /\ sessions'[s].grant = sessions[s].grant /\ sessions'[s].user = sessions[s].user
        /\ sessions'[s].live => sessions[s].live
  BY <1>1 DEF Aged, FromCode, FromOwnerClaim
<1>. HIDE DEF n
<1>4. RecoveredOnce'
  BY <1>3, <1>2 DEF RecoveryInv, RecoveredOnce
<1>5. RecoverySignsOut'
  <2>. SUFFICES ASSUME NEW r \in DOMAIN sessions', NEW s \in DOMAIN sessions',
                       FromCode(r)', s < r, sessions'[s].user = sessions'[r].user
                PROVE  ~sessions'[s].live
    BY DEF RecoverySignsOut
  <2>1. CASE r = n
    BY <1>2, <2>1, <1>1, Table, <1>3 DEF FromCode, SessionsOf
  <2>2. CASE r \in DOMAIN sessions
    BY <1>2, <2>2, <1>3 DEF RecoveryInv, RecoverySignsOut
  <2>. QED  BY <1>2, <2>1, <2>2
<1>. QED  BY <1>4, <1>5

LEMMA RedeemingKeepsRecovery ==
    ASSUME AccountsTyped, RecoveryTyped, RecoveryInv, NEW c \in DOMAIN codes, Redeem(c)
    PROVE  AccountsTyped' /\ RecoveryTyped' /\ RecoveryInv' /\ Admits({"recovery"})
<1>. DEFINE grant == [kind |-> "recovery", of |-> c]
            user == codes[c].user
            row == [codes[c] EXCEPT !.used = TRUE]
            n == Len(sessions) + 1
<1>1. codes[c] \in CodeRow /\ c \in Nat
  BY Table DEF RecoveryTyped
<1>2. user \in Users /\ grant \in OtherGrants /\ grant.kind = "recovery"
      /\ row \in CodeRow /\ row.used /\ row.user = codes[c].user
  BY <1>1 DEF CodeRow, OtherGrants
<1>3. codes' = [codes EXCEPT ![c] = row] /\ UNCHANGED <<ownerClaims, accounts, banned, deleted>>
      /\ ~codes[c].used
  BY DEF Redeem, CodeLive
<1>4. CreateSession(user, grant, SessionsOf(user))
  BY DEF Redeem
<1>5. \A s \in DOMAIN sessions : sessions[s].grant # grant
  BY <1>3, <1>2, AccountsAssumption DEF RecoveryInv, RecoveriesMatch, FromCode
<1>. HIDE DEF row
<1>6. /\ codes' \in Seq(CodeRow) /\ DOMAIN codes' = DOMAIN codes
      /\ \A k \in DOMAIN codes : codes'[k] = IF k = c THEN row ELSE codes[k]
  BY <1>2, <1>3, RowChanged DEF RecoveryTyped
<1>. HIDE DEF user, n
<1>7. RecoveredOnce' /\ RecoverySignsOut'
  <2>. HIDE DEF grant
  <2>. QED  BY <1>2, <1>4, <1>5, RecoveringKeepsSessions
<1>8. /\ sessions' \in Seq(SessionRow) /\ Aged /\ LetsIn(user, grant)
  BY <1>2, <1>4, Created
<1>9. AccountsTyped' /\ RecoveryTyped'
  BY <1>3, <1>6, <1>8 DEF AccountsTyped, RecoveryTyped
<1>10. Admits({"recovery"})
  <2>. HIDE DEF grant
  <2>. QED  BY <1>2, <1>8, SomebodyComes
<1>11. OneLiveCode'
  BY <1>2, <1>6 DEF RecoveryInv, OneLiveCode, CodeLive
<1>12. RecoveriesMatch'
  <2>1. \A s \in DOMAIN sessions :
          /\ FromCode(s)' <=> FromCode(s)
          /\ FromOwnerClaim(s)' <=> FromOwnerClaim(s)
          /\ sessions'[s].grant = sessions[s].grant
    BY <1>8 DEF Aged, FromCode, FromOwnerClaim
  <2>2. \A s \in DOMAIN sessions' : s \in DOMAIN sessions \/ sessions'[s].grant = grant
    BY <1>8 DEF LetsIn, Session
  <2>3. ASSUME NEW s \in DOMAIN sessions', FromCode(s)'
        PROVE  sessions'[s].grant.of \in DOMAIN codes' /\ codes'[sessions'[s].grant.of].used
    BY <1>2, <1>6, <2>1, <2>2, <2>3 DEF RecoveryInv, RecoveriesMatch
  <2>4. ASSUME NEW s \in DOMAIN sessions', FromOwnerClaim(s)'
        PROVE  /\ sessions'[s].grant.of \in DOMAIN ownerClaims'
               /\ ownerClaims'[sessions'[s].grant.of].consumed
    BY <1>2, <2>2, <2>4, <1>3, <2>1 DEF FromOwnerClaim, RecoveryInv, RecoveriesMatch
  <2>. QED  BY <2>3, <2>4 DEF RecoveriesMatch
<1>. QED  BY <1>7, <1>9, <1>10, <1>11, <1>12 DEF RecoveryInv

LEMMA OwnerClaimsKeepRecovery ==
    ASSUME AccountsTyped, RecoveryTyped, RecoveryInv, OwnerClaimsNext
    PROVE  AccountsTyped' /\ RecoveryTyped' /\ RecoveryInv' /\ Admits({"owner"})
<1>1. ASSUME CreateOwnerLoginClaim
      PROVE  AccountsTyped' /\ RecoveryTyped' /\ RecoveryInv' /\ Admits({"owner"})
  <2>. DEFINE new == [user |-> Owner, consumed |-> FALSE, expired |-> FALSE]
  <2>1. new \in OwnerClaimRow
    BY DEF OwnerClaimRow
  <2>2. ownerClaims' = Append(ownerClaims, new) /\ UNCHANGED <<codes, accounts, banned, deleted, sessions>>
    BY <1>1 DEF CreateOwnerLoginClaim, accountVars
  <2>. HIDE DEF new
  <2>3. /\ ownerClaims' \in Seq(OwnerClaimRow)
        /\ DOMAIN ownerClaims' = DOMAIN ownerClaims \cup {Len(ownerClaims) + 1}
        /\ \A c \in DOMAIN ownerClaims : ownerClaims'[c] = ownerClaims[c]
    BY <2>1, <2>2, RowAdded DEF RecoveryTyped
  <2>4. AccountsTyped' /\ RecoveryTyped' /\ Admits({"owner"})
    BY <2>2, <2>3, NobodyComes DEF RecoveryTyped
  <2>5. RecoveriesMatch'
    BY <2>2, <2>3 DEF RecoveryInv, RecoveriesMatch, FromCode, FromOwnerClaim
  <2>6. RecoveredOnce' /\ OneLiveCode' /\ RecoverySignsOut'
    BY <2>2 DEF RecoveryInv, RecoveredOnce, OneLiveCode, RecoverySignsOut, FromCode,
                FromOwnerClaim, CodeLive
  <2>. QED  BY <2>4, <2>5, <2>6 DEF RecoveryInv
<1>2. ASSUME NEW c \in DOMAIN ownerClaims, ExpireOwnerClaim(c)
      PROVE  AccountsTyped' /\ RecoveryTyped' /\ RecoveryInv' /\ Admits({"owner"})
  <2>. DEFINE row == [ownerClaims[c] EXCEPT !.expired = TRUE]
  <2>1. ownerClaims[c] \in OwnerClaimRow
    BY Table DEF RecoveryTyped
  <2>2. row \in OwnerClaimRow /\ row.consumed = ownerClaims[c].consumed
    BY <2>1 DEF OwnerClaimRow
  <2>3. /\ ownerClaims' = [ownerClaims EXCEPT ![c] = row]
        /\ UNCHANGED <<codes, accounts, banned, deleted, sessions>>
    BY <1>2 DEF ExpireOwnerClaim, accountVars
  <2>. HIDE DEF row
  <2>4. /\ ownerClaims' \in Seq(OwnerClaimRow) /\ DOMAIN ownerClaims' = DOMAIN ownerClaims
        /\ \A k \in DOMAIN ownerClaims : ownerClaims'[k] = IF k = c THEN row ELSE ownerClaims[k]
    BY <2>2, <2>3, RowChanged DEF RecoveryTyped
  <2>5. AccountsTyped' /\ RecoveryTyped' /\ Admits({"owner"}) /\ Admits({})
    BY <2>3, <2>4, NobodyComes DEF RecoveryTyped
  <2>6. CodesFade
    BY <2>3 DEF CodesFade
  <2>. QED  BY <2>2, <2>4, <2>5, <2>6, OthersKeepRecovery
<1>3. ASSUME NEW c \in DOMAIN ownerClaims, ConsumeOwnerClaim(c)
      PROVE  AccountsTyped' /\ RecoveryTyped' /\ RecoveryInv' /\ Admits({"owner"})
  <2>. DEFINE row == [ownerClaims[c] EXCEPT !.consumed = TRUE]
              grant == [kind |-> "owner", of |-> c]
  <2>1. ownerClaims[c] \in OwnerClaimRow /\ c \in Nat
    BY Table DEF RecoveryTyped
  <2>2. /\ row \in OwnerClaimRow /\ row.consumed
        /\ grant \in OtherGrants /\ grant.kind = "owner" /\ Owner \in Users
    BY <2>1 DEF OwnerClaimRow, OtherGrants, Users
  <2>3. /\ ownerClaims' = [ownerClaims EXCEPT ![c] = row] /\ ~ownerClaims[c].consumed
        /\ CreateSession(Owner, grant, {})
        /\ UNCHANGED <<codes, accounts, banned, deleted>>
    BY <1>3 DEF ConsumeOwnerClaim, OwnerClaimLive
  <2>4. \A s \in DOMAIN sessions : sessions[s].grant # grant
    BY <2>3, <2>2, AccountsAssumption DEF RecoveryInv, RecoveriesMatch, FromOwnerClaim
  <2>. HIDE DEF row
  <2>5. /\ ownerClaims' \in Seq(OwnerClaimRow) /\ DOMAIN ownerClaims' = DOMAIN ownerClaims
        /\ \A k \in DOMAIN ownerClaims : ownerClaims'[k] = IF k = c THEN row ELSE ownerClaims[k]
    BY <2>2, <2>3, RowChanged DEF RecoveryTyped
  <2>6. RecoveredOnce' /\ RecoverySignsOut'
    <3>. HIDE DEF grant
    <3>. QED  BY <2>2, <2>3, <2>4, RecoveringKeepsSessions
  <2>7. /\ sessions' \in Seq(SessionRow) /\ Aged /\ LetsIn(Owner, grant)
    BY <2>2, <2>3, Created
  <2>8. AccountsTyped' /\ RecoveryTyped'
    BY <2>3, <2>5, <2>7 DEF AccountsTyped, RecoveryTyped
  <2>9. Admits({"owner"})
    <3>. HIDE DEF grant
    <3>. QED  BY <2>2, <2>7, SomebodyComes
  <2>10. OneLiveCode'
    BY <2>3 DEF RecoveryInv, OneLiveCode, CodeLive
  <2>11. RecoveriesMatch'
    <3>1. \A s \in DOMAIN sessions :
            /\ FromCode(s)' <=> FromCode(s)
            /\ FromOwnerClaim(s)' <=> FromOwnerClaim(s)
            /\ sessions'[s].grant = sessions[s].grant
      BY <2>7 DEF Aged, FromCode, FromOwnerClaim
    <3>2. \A s \in DOMAIN sessions' : s \in DOMAIN sessions \/ sessions'[s].grant = grant
      BY <2>7 DEF LetsIn, Session
    <3>3. ASSUME NEW s \in DOMAIN sessions', FromCode(s)'
          PROVE  sessions'[s].grant.of \in DOMAIN codes' /\ codes'[sessions'[s].grant.of].used
      BY <2>2, <3>2, <3>3, <2>3, <3>1 DEF FromCode, RecoveryInv, RecoveriesMatch
    <3>4. ASSUME NEW s \in DOMAIN sessions', FromOwnerClaim(s)'
          PROVE  /\ sessions'[s].grant.of \in DOMAIN ownerClaims'
                 /\ ownerClaims'[sessions'[s].grant.of].consumed
      BY <2>2, <2>5, <3>1, <3>2, <3>4 DEF RecoveryInv, RecoveriesMatch
    <3>. QED  BY <3>3, <3>4 DEF RecoveriesMatch
  <2>. QED  BY <2>6, <2>8, <2>9, <2>10, <2>11 DEF RecoveryInv
<1>. QED  BY <1>1, <1>2, <1>3 DEF OwnerClaimsNext

------------------------
(* Invites and access links. *)

InvitesTyped ==
    /\ membership \in [Users -> Place]
    /\ invites \in Seq(InviteRow)
    /\ accessLinks \in Seq(AccessLinkRow)

\* Uses are counted, so they are finitely many.
UsesCounted ==
    \A i \in DOMAIN invites :
        /\ IsFiniteSet(invites[i].uses)
        /\ invites[i].limit # Unlimited => Cardinality(invites[i].uses) <= invites[i].limit

OwnerStays == Owner \notin banned \cup deleted

InviteInv ==
    UsesCounted /\ NoInviteOutlivesItsIssuer /\ EveryNewcomerHasATrail /\ OneAccessLink /\ OwnerStays

LEMMA InviteInvSuffices == InviteInv => InvitesHold /\ OneAccessLink
BY DEF InviteInv, UsesCounted, InvitesHold, UseLimitHolds

\* Invites end, and only those nobody used are forgotten.
InvitesFade ==
    /\ DOMAIN invites' = DOMAIN invites
    /\ \A i \in DOMAIN invites :
          /\ invites'[i].by = invites[i].by
          /\ invites'[i].limit = invites[i].limit
          /\ invites'[i].uses = invites[i].uses
          /\ Unrevoked(i)' => Unrevoked(i)
          /\ invites'[i].status = "gone" => invites[i].status = "gone" \/ invites[i].uses = {}

AccessLinksFade ==
    /\ DOMAIN accessLinks' = DOMAIN accessLinks
    /\ \A c \in DOMAIN accessLinks :
          /\ accessLinks'[c].user = accessLinks[c].user
          /\ AccessLinkLive(c)' => AccessLinkLive(c)

\* Whoever issued an invite that still works keeps what it took to issue it.
IssuersKeepTheirPlace ==
    \A i \in DOMAIN invites : Unrevoked(i)' =>
        /\ MayCreateInvites(invites[i].by)'
        /\ invites[i].by \notin banned' \cup deleted'

LEMMA InvitesOut ==
    ASSUME InvitesTyped, NEW gone
    PROVE  /\ InvitesWithout(gone) \in Seq(InviteRow)
           /\ DOMAIN InvitesWithout(gone) = DOMAIN invites
           /\ \A i \in DOMAIN invites :
                /\ InvitesWithout(gone)[i].by = invites[i].by
                /\ InvitesWithout(gone)[i].limit = invites[i].limit
                /\ InvitesWithout(gone)[i].uses = invites[i].uses
                /\ InvitesWithout(gone)[i].status =
                      IF i \in gone /\ Unrevoked(i) THEN "ended" ELSE invites[i].status
<1>1. \A i \in DOMAIN invites : invites[i] \in InviteRow
  BY Table DEF InvitesTyped
<1>2. InvitesWithout(gone) \in [DOMAIN invites -> InviteRow]
  BY <1>1 DEF InvitesWithout, InviteRow
<1>3. \A i \in DOMAIN invites :
         InvitesWithout(gone)[i] = IF i \in gone /\ Unrevoked(i)
                                   THEN [invites[i] EXCEPT !.status = "ended"] ELSE invites[i]
  BY DEF InvitesWithout
<1>4. InvitesWithout(gone) \in Seq(InviteRow) /\ DOMAIN InvitesWithout(gone) = DOMAIN invites
  BY <1>2, RowsChanged DEF InvitesTyped
<1>. QED  BY <1>1, <1>3, <1>4 DEF InviteRow

LEMMA EndedInvites ==
    ASSUME InvitesTyped, NEW gone, invites' = InvitesWithout(gone)
    PROVE  /\ invites' \in Seq(InviteRow) /\ InvitesFade
           /\ \A i \in DOMAIN invites : Unrevoked(i)' => i \notin gone
<1>1. /\ invites' \in Seq(InviteRow) /\ DOMAIN invites' = DOMAIN invites
      /\ \A i \in DOMAIN invites :
            /\ invites'[i].by = invites[i].by /\ invites'[i].limit = invites[i].limit
            /\ invites'[i].uses = invites[i].uses
            /\ invites'[i].status = IF i \in gone /\ Unrevoked(i) THEN "ended" ELSE invites[i].status
  BY InvitesOut
<1>. QED  BY <1>1 DEF InvitesFade, Unrevoked

LEMMA FadingKeepsInvites ==
    ASSUME InviteInv, InvitesFade, IssuersKeepTheirPlace, AccessLinksFade,
           UNCHANGED accounts, OwnerStays'
    PROVE  InviteInv'
BY DEF InviteInv, UsesCounted, InvitesFade, IssuersKeepTheirPlace, NoInviteOutlivesItsIssuer,
   EveryNewcomerHasATrail, AccessLinksFade, OneAccessLink

LEMMA PlacesKept ==
    ASSUME InviteInv, InvitesFade,
           \A i \in DOMAIN invites : Unrevoked(i)' =>
              /\ ActiveMember(invites[i].by) => ActiveMember(invites[i].by)'
              /\ membership[invites[i].by].canInvite => membership'[invites[i].by].canInvite
              /\ invites[i].by \in banned' \cup deleted' => invites[i].by \in banned \cup deleted
    PROVE  IssuersKeepTheirPlace
BY DEF InviteInv, NoInviteOutlivesItsIssuer, InvitesFade, IssuersKeepTheirPlace, MayCreateInvites

\* Whoever is not concerned, or no longer has an invite, keeps its place.
LEMMA PlacesChange ==
    ASSUME InvitesTyped, InviteInv, NEW u \in Users, InvitesFade,
           membership' \in [Users -> Place],
           \A v \in Users : v # u => membership'[v] = membership[v],
           \/ \A i \in InvitesOf(u) : ~Unrevoked(i)'
           \/ /\ ActiveMember(u) => ActiveMember(u)'
              /\ membership[u].canInvite => membership'[u].canInvite,
           UNCHANGED <<accessLinks, accountVars>>
    PROVE  InviteInv'
<1>1. \A i \in DOMAIN invites : invites[i] \in InviteRow
  BY Table DEF InvitesTyped
<1>2. \A i \in DOMAIN invites : invites[i].by \in Users
  BY <1>1 DEF InviteRow
<1>3. UNCHANGED <<accounts, banned, deleted>>
  BY DEF accountVars
<1>4. IssuersKeepTheirPlace
  <2>. SUFFICES ASSUME NEW i \in DOMAIN invites, Unrevoked(i)'
                PROVE  /\ ActiveMember(invites[i].by) => ActiveMember(invites[i].by)'
                       /\ membership[invites[i].by].canInvite => membership'[invites[i].by].canInvite
    BY <1>3, PlacesKept
  <2>. DEFINE by == invites[i].by
  <2>0. invites'[i].by = invites[i].by
    BY DEF InvitesFade
  <2>1. CASE by = u
    BY <2>1, <2>0 DEF InvitesOf, ActiveMember
  <2>2. CASE by # u
    BY <1>2, <2>0, <2>2 DEF ActiveMember
  <2>. QED  BY <2>1, <2>2
<1>5. OwnerStays' /\ AccessLinksFade
  BY <1>3 DEF InviteInv, OwnerStays, AccessLinksFade, AccessLinkLive
<1>. QED  BY <1>3, <1>4, <1>5, FadingKeepsInvites

LEMMA SameAccountsStay ==
    ASSUME AccountsTyped, UNCHANGED accountVars, NEW kinds
    PROVE  AccountsTyped' /\ Admits(kinds)
BY NobodyComes DEF accountVars

\* Invites end, age and are forgotten; nobody's place changes.
LEMMA EndingKeepsInvites ==
    ASSUME InvitesTyped, InviteInv, InvitesFade, UNCHANGED <<membership, accessLinks, accountVars>>
    PROVE  InviteInv'
BY PlacesKept, FadingKeepsInvites DEF accountVars, InvitesFade, ActiveMember, InviteInv, OwnerStays,
   AccessLinksFade, AccessLinkLive

LEMMA AgeingKeepsInvites ==
    ASSUME InvitesTyped, InviteInv, NEW i \in DOMAIN invites,
           RevokeInvite(i) \/ ExpireInvite(i) \/ AgeInvite(i)
    PROVE  InvitesTyped' /\ InviteInv'
<1>1. UNCHANGED <<membership, accessLinks, accountVars>>
  BY DEF RevokeInvite, ExpireInvite, AgeInvite
<1>2. invites' \in Seq(InviteRow) /\ InvitesFade
  <2>1. CASE RevokeInvite(i) \/ ExpireInvite(i)
    BY <2>1, EndedInvites DEF RevokeInvite, ExpireInvite
  <2>2. CASE AgeInvite(i)
    <3>. DEFINE row == [invites[i] EXCEPT !.status = "old"]
    <3>1. invites[i] \in InviteRow
      BY Table DEF InvitesTyped
    <3>2. /\ row \in InviteRow /\ row.by = invites[i].by /\ row.limit = invites[i].limit
          /\ row.uses = invites[i].uses /\ row.status = "old"
      BY <3>1 DEF InviteRow
    <3>3. invites' = [invites EXCEPT ![i] = row]
      BY <2>2 DEF AgeInvite
    <3>. HIDE DEF row
    <3>4. /\ invites' \in Seq(InviteRow) /\ DOMAIN invites' = DOMAIN invites
          /\ \A k \in DOMAIN invites : invites'[k] = IF k = i THEN row ELSE invites[k]
      BY <3>2, <3>3, RowChanged DEF InvitesTyped
    <3>. QED  BY <3>2, <3>4 DEF InvitesFade, Unrevoked
  <2>. QED  BY <2>1, <2>2
<1>. QED  BY <1>1, <1>2, EndingKeepsInvites DEF InvitesTyped

LEMMA ListingKeepsInvites ==
    ASSUME InvitesTyped, InviteInv, ListInvites
    PROVE  InvitesTyped' /\ InviteInv'
<1>. DEFINE listed == [i \in DOMAIN invites |->
                         IF Unused(i) THEN [invites[i] EXCEPT !.status = "gone"] ELSE invites[i]]
<1>1. \A i \in DOMAIN invites : invites[i] \in InviteRow
  BY Table DEF InvitesTyped
<1>2. invites' = listed /\ UNCHANGED <<membership, accessLinks, accountVars>>
  BY DEF ListInvites
<1>3. listed \in [DOMAIN invites -> InviteRow]
  BY <1>1 DEF InviteRow
<1>4. \A i \in DOMAIN invites :
         invites'[i] = IF Unused(i) THEN [invites[i] EXCEPT !.status = "gone"] ELSE invites[i]
  BY <1>2
<1>5. invites' \in Seq(InviteRow) /\ DOMAIN invites' = DOMAIN invites
  <2>. HIDE DEF listed
  <2>. QED  BY <1>2, <1>3, RowsChanged DEF InvitesTyped
<1>. HIDE DEF listed
<1>6. InvitesFade
  BY <1>1, <1>4, <1>5 DEF InvitesFade, InviteRow, Unrevoked, Unused
<1>. QED  BY <1>2, <1>5, <1>6, EndingKeepsInvites DEF InvitesTyped

LEMMA CreatingKeepsInvites ==
    ASSUME AccountsTyped, InvitesTyped, InviteInv, NEW u \in Users, NEW limit \in UseLimits,
           CreateInvite(u, limit)
    PROVE  InvitesTyped' /\ InviteInv'
<1>. DEFINE new == [by |-> u, limit |-> limit, uses |-> {}, status |-> "active"]
            n == Len(invites) + 1
<1>1. new \in InviteRow
  BY DEF InviteRow
<1>2. /\ invites' = Append(invites, new) /\ Acts(u) /\ MayCreateInvites(u)
      /\ UNCHANGED <<membership, accessLinks, accounts, banned, deleted, sessions>>
  BY DEF CreateInvite, accountVars
<1>3. n \notin DOMAIN invites
  BY Table DEF InvitesTyped
<1>4. /\ invites' \in Seq(InviteRow) /\ DOMAIN invites' = DOMAIN invites \cup {n}
      /\ invites'[n] = new /\ \A i \in DOMAIN invites : invites'[i] = invites[i]
  <2>. HIDE DEF new
  <2>. QED  BY <1>1, <1>2, RowAdded DEF InvitesTyped
<1>. HIDE DEF n
<1>5. u \notin banned \cup deleted
  BY <1>2 DEF Acts, Works, InviteInv, OwnerStays
<1>6. IsFiniteSet({}) /\ Cardinality({}) = 0
  BY FS_EmptySet
<1>7. limit # Unlimited => limit \in Nat
  BY InvitesAssumption
<1>8. UsesCounted'
  <2>1. ASSUME NEW i \in DOMAIN invites
        PROVE  /\ IsFiniteSet(invites'[i].uses)
               /\ invites'[i].limit # Unlimited => Cardinality(invites'[i].uses) <= invites'[i].limit
    BY <1>4, <2>1 DEF InviteInv, UsesCounted
  <2>2. /\ IsFiniteSet(invites'[n].uses)
        /\ invites'[n].limit # Unlimited => Cardinality(invites'[n].uses) <= invites'[n].limit
    BY <1>4, <1>7, <1>6
  <2>. QED  BY <1>4, <2>1, <2>2 DEF UsesCounted
<1>9. NoInviteOutlivesItsIssuer'
  <2>1. ASSUME NEW i \in DOMAIN invites', Unrevoked(i)'
        PROVE  MayCreateInvites(invites[i].by)' /\ invites'[i].by \notin banned' \cup deleted'
    BY <1>2, <1>4, <1>5, <2>1 DEF MayCreateInvites, ActiveMember, InviteInv, NoInviteOutlivesItsIssuer, Unrevoked
  <2>. QED  BY <2>1 DEF NoInviteOutlivesItsIssuer
<1>10. EveryNewcomerHasATrail'
  BY <1>2, <1>4 DEF InviteInv, EveryNewcomerHasATrail
<1>11. OneAccessLink' /\ OwnerStays'
  BY <1>2 DEF InviteInv, OneAccessLink, AccessLinkLive, OwnerStays
<1>. QED  BY <1>2, <1>4, <1>8, <1>9, <1>10, <1>11 DEF InvitesTyped, InviteInv

\* Somebody takes a place through invite i: a use more, a place more.
LEMMA JoiningKeepsInvites ==
    ASSUME AccountsTyped, InvitesTyped, InviteInv, NEW u \in Users, NEW i \in DOMAIN invites,
           AcceptsInvite(i, u), Activated(i, u), accounts' \in {accounts, accounts \cup {u}},
           UNCHANGED <<banned, deleted>>
    PROVE  InvitesTyped' /\ InviteInv'
<1>. DEFINE row == [invites[i] EXCEPT !.uses = @ \cup {u}]
            place == [membership[u] EXCEPT !.row = TRUE, !.removed = FALSE]
<1>1. invites[i] \in InviteRow /\ membership[u] \in Place
  BY Table DEF InvitesTyped
<1>2. /\ row \in InviteRow /\ row.by = invites[i].by /\ row.limit = invites[i].limit
      /\ row.uses = invites[i].uses \cup {u} /\ row.status = invites[i].status
  BY <1>1 DEF InviteRow
<1>3. /\ place \in Place /\ place.banned = membership[u].banned /\ place.row /\ ~place.removed
      /\ place.canInvite = membership[u].canInvite
  BY <1>1 DEF Place
<1>4. invites' = [invites EXCEPT ![i] = row] /\ UNCHANGED accessLinks
  BY DEF Activated
<1>5. membership' = [membership EXCEPT ![u] = place]
  BY DEF Activated, InvitesTyped
<1>. HIDE DEF row, place
<1>6. /\ invites' \in Seq(InviteRow) /\ DOMAIN invites' = DOMAIN invites
      /\ \A k \in DOMAIN invites : invites'[k] = IF k = i THEN row ELSE invites[k]
  BY <1>2, <1>4, RowChanged DEF InvitesTyped
<1>7. /\ membership' \in [Users -> Place]
      /\ \A v \in Users : membership'[v] = IF v = u THEN place ELSE membership[v]
  BY <1>3, <1>5 DEF InvitesTyped
<1>8. InvitesTyped'
  BY <1>4, <1>6, <1>7 DEF InvitesTyped
<1>9. UsesCounted'
  <2>1. ASSUME NEW k \in DOMAIN invites, k # i
        PROVE  /\ IsFiniteSet(invites'[k].uses)
               /\ invites'[k].limit # Unlimited => Cardinality(invites'[k].uses) <= invites'[k].limit
    BY <1>6, <2>1 DEF InviteInv, UsesCounted
  <2>2. IsFiniteSet(invites[i].uses)
    BY DEF InviteInv, UsesCounted
  <2>3. u \notin invites[i].uses /\ ~Spent(i)
    BY DEF AcceptsInvite
  <2>4. /\ IsFiniteSet(row.uses) /\ Cardinality(row.uses) = Cardinality(invites[i].uses) + 1
    <3>. DEFINE uses == invites[i].uses
    <3>1. u \notin uses /\ IsFiniteSet(uses) /\ row.uses = uses \cup {u}
      BY <1>2, <2>2, <2>3
    <3>. HIDE DEF uses
    <3>2. IsFiniteSet(uses \cup {u}) /\ Cardinality(uses \cup {u}) = Cardinality(uses) + 1
      BY <3>1, FS_AddElement
    <3>. QED  BY <3>1, <3>2 DEF uses
  <2>5. Cardinality(invites[i].uses) \in Nat
    BY <2>2, FS_CardinalityType
  <2>6. row.limit # Unlimited => row.limit \in Nat
    BY <1>2, InvitesAssumption DEF InviteRow
  <2>7. row.limit # Unlimited => ~(Cardinality(invites[i].uses) >= row.limit)
    BY <1>2, <2>3 DEF Spent
  <2>8. row.limit # Unlimited => Cardinality(row.uses) <= row.limit
    BY <2>4, <2>5, <2>6, <2>7
  <2>. QED  BY <1>6, <2>1, <2>4, <2>8 DEF UsesCounted
<1>10. NoInviteOutlivesItsIssuer'
  <2>. SUFFICES ASSUME NEW k \in DOMAIN invites', Unrevoked(k)'
                PROVE  MayCreateInvites(invites[k].by)' /\ invites'[k].by \notin banned' \cup deleted'
    BY DEF NoInviteOutlivesItsIssuer
  <2>1. k \in DOMAIN invites /\ Unrevoked(k) /\ invites'[k].by = invites[k].by
    BY <1>2, <1>6 DEF Unrevoked
  <2>2. invites[k] \in InviteRow
    BY <2>1, Table DEF InvitesTyped
  <2>3. invites[k].by \in Users
    BY <2>2 DEF InviteRow
  <2>4. MayCreateInvites(invites[k].by) /\ invites[k].by \notin banned \cup deleted
    BY <2>1 DEF InviteInv, NoInviteOutlivesItsIssuer
  <2>. QED  BY <1>3, <1>7, <2>1, <2>3, <2>4 DEF MayCreateInvites, ActiveMember
<1>11. EveryNewcomerHasATrail'
  BY <1>2, <1>6 DEF EveryNewcomerHasATrail, InviteInv, AcceptsInvite, Unrevoked
<1>12. OneAccessLink' /\ OwnerStays'
  BY <1>4 DEF InviteInv, OneAccessLink, AccessLinkLive, OwnerStays
<1>. QED  BY <1>8, <1>9, <1>10, <1>11, <1>12 DEF InviteInv

\* A member's permission or place is changed.
PlaceChanges(u) ==
    (\E canInvite \in BOOLEAN : SetPermission(u, canInvite)) \/ Ban(u) \/ Unban(u) \/ Kick(u)

LEMMA SameInvitesFade == UNCHANGED invites => InvitesFade
BY DEF InvitesFade, Unrevoked

LEMMA PlaceChangesKeepInvites ==
    ASSUME InvitesTyped, InviteInv, NEW u \in Users, PlaceChanges(u)
    PROVE  InvitesTyped' /\ InviteInv'
<1>1. membership[u] \in Place
  BY DEF InvitesTyped
<1>2. UNCHANGED <<accessLinks, accountVars>>
  BY DEF PlaceChanges, SetPermission, Ban, Unban, Kick
<1>3. ASSUME NEW place \in Place, membership' = [membership EXCEPT ![u] = place]
      PROVE  /\ membership' \in [Users -> Place] /\ membership'[u] = place
             /\ \A v \in Users : v # u => membership'[v] = membership[v]
  BY <1>3 DEF InvitesTyped
<1>4. ASSUME NEW place \in Place, membership' = [membership EXCEPT ![u] = place],
             invites' = InvitesWithout(InvitesOf(u))
      PROVE  InvitesTyped' /\ InviteInv'
  BY <1>4, EndedInvites, <1>3, <1>2, PlacesChange DEF InvitesOf, InvitesTyped
<1>5. ASSUME NEW place \in Place, membership' = [membership EXCEPT ![u] = place],
             UNCHANGED invites, place.row = membership[u].row,
             place.banned => membership[u].banned, place.removed = membership[u].removed,
             membership[u].canInvite => place.canInvite
      PROVE  InvitesTyped' /\ InviteInv'
  BY <1>3, <1>5, SameInvitesFade, <1>2, PlacesChange DEF ActiveMember, InvitesTyped
<1>6. ASSUME NEW canInvite \in BOOLEAN, SetPermission(u, canInvite)
      PROVE  InvitesTyped' /\ InviteInv'
  <2>. DEFINE place == [membership[u] EXCEPT !.canInvite = canInvite]
  <2>1. /\ place \in Place /\ place.row = membership[u].row /\ place.banned = membership[u].banned
        /\ place.removed = membership[u].removed /\ place.canInvite = canInvite
    BY <1>1 DEF Place
  <2>2. membership' = [membership EXCEPT ![u] = place]
    BY <1>6 DEF SetPermission
  <2>. HIDE DEF place
  <2>3. CASE canInvite
    BY <1>5, <1>6, <2>1, <2>2, <2>3 DEF SetPermission
  <2>4. CASE ~canInvite
    BY <1>4, <1>6, <2>1, <2>2, <2>4 DEF SetPermission
  <2>. QED  BY <2>3, <2>4
<1>7. ASSUME Ban(u)
      PROVE  InvitesTyped' /\ InviteInv'
  <2>. DEFINE place == [membership[u] EXCEPT !.banned = TRUE, !.removed = FALSE, !.canInvite = FALSE]
  <2>1. place \in Place
    BY <1>1 DEF Place
  <2>2. membership' = [membership EXCEPT ![u] = place]
    BY <1>7 DEF Ban, InvitesTyped
  <2>. HIDE DEF place
  <2>. QED  BY <1>4, <1>7, <2>1, <2>2 DEF Ban
<1>8. ASSUME Kick(u)
      PROVE  InvitesTyped' /\ InviteInv'
  <2>. DEFINE place == [membership[u] EXCEPT !.removed = TRUE, !.canInvite = FALSE]
  <2>1. place \in Place
    BY <1>1 DEF Place
  <2>2. membership' = [membership EXCEPT ![u] = place]
    BY <1>8 DEF Kick, InvitesTyped
  <2>. HIDE DEF place
  <2>. QED  BY <1>4, <1>8, <2>1, <2>2 DEF Kick
<1>9. ASSUME Unban(u)
      PROVE  InvitesTyped' /\ InviteInv'
  <2>. DEFINE place == [membership[u] EXCEPT !.banned = FALSE]
  <2>1. /\ place \in Place /\ place.row = membership[u].row /\ ~place.banned
        /\ place.removed = membership[u].removed /\ place.canInvite = membership[u].canInvite
    BY <1>1 DEF Place
  <2>2. membership' = [membership EXCEPT ![u] = place] /\ UNCHANGED invites
    BY <1>9 DEF Unban
  <2>. HIDE DEF place
  <2>. QED  BY <1>5, <2>1, <2>2
<1>. QED  BY <1>6, <1>7, <1>8, <1>9 DEF PlaceChanges

LEMMA NewcomersAreUsers == Newcomers \subseteq Users
BY DEF Users

LEMMA InvitesNextKeepsInvites ==
    ASSUME AccountsTyped, InvitesTyped, InviteInv, InvitesNext
    PROVE  AccountsTyped' /\ InvitesTyped' /\ InviteInv' /\ Admits({"invite"})
<1>1. ASSUME ListInvites
      PROVE  AccountsTyped' /\ InvitesTyped' /\ InviteInv' /\ Admits({"invite"})
  BY <1>1, ListingKeepsInvites, SameAccountsStay DEF ListInvites
<1>2. ASSUME NEW i \in DOMAIN invites, RevokeInvite(i) \/ ExpireInvite(i) \/ AgeInvite(i)
      PROVE  AccountsTyped' /\ InvitesTyped' /\ InviteInv' /\ Admits({"invite"})
  BY <1>2, AgeingKeepsInvites, SameAccountsStay DEF RevokeInvite, ExpireInvite, AgeInvite
<1>3. ASSUME NEW i \in DOMAIN invites, NEW u \in Newcomers, AcceptAsNewcomer(u, i)
      PROVE  AccountsTyped' /\ InvitesTyped' /\ InviteInv' /\ Admits({"invite"})
  <2>. DEFINE grant == [kind |-> "invite", of |-> i]
  <2>1. /\ AcceptsInvite(i, u) /\ Activated(i, u) /\ accounts' = accounts \cup {u}
        /\ CreateSession(u, grant, {}) /\ UNCHANGED <<banned, deleted>>
    BY <1>3 DEF AcceptAsNewcomer
  <2>2. i \in Nat /\ u \in Users
    BY <1>3, Table, NewcomersAreUsers DEF InvitesTyped
  <2>3. grant \in OtherGrants /\ grant.kind = "invite"
    BY <2>2 DEF OtherGrants
  <2>4. InvitesTyped' /\ InviteInv'
    BY <2>1, <2>2, JoiningKeepsInvites
  <2>. HIDE DEF grant
  <2>5. sessions' \in Seq(SessionRow) /\ Aged /\ LetsIn(u, grant)
    BY <2>1, <2>2, <2>3, Created
  <2>6. AccountsTyped'
    BY <2>1, <2>2, <2>5 DEF AccountsTyped
  <2>7. Admits({"invite"})
    BY <2>3, <2>5, SomebodyComes
  <2>. QED  BY <2>4, <2>6, <2>7
<1>4. ASSUME NEW u \in Users, NEW limit \in UseLimits, CreateInvite(u, limit)
      PROVE  AccountsTyped' /\ InvitesTyped' /\ InviteInv' /\ Admits({"invite"})
  BY <1>4, CreatingKeepsInvites, SameAccountsStay DEF CreateInvite
<1>5. ASSUME NEW u \in Users, NEW i \in DOMAIN invites, AcceptSignedIn(u, i)
      PROVE  AccountsTyped' /\ InvitesTyped' /\ InviteInv' /\ Admits({"invite"})
  BY <1>5, JoiningKeepsInvites, SameAccountsStay DEF AcceptSignedIn, accountVars
<1>6. ASSUME NEW u \in Users, PlaceChanges(u)
      PROVE  AccountsTyped' /\ InvitesTyped' /\ InviteInv' /\ Admits({"invite"})
  BY <1>6, PlaceChangesKeepInvites, SameAccountsStay DEF PlaceChanges, SetPermission, Ban, Unban, Kick
<1>. QED  BY <1>1, <1>2, <1>3, <1>4, <1>5, <1>6 DEF InvitesNext, PlaceChanges

LEMMA AccessLinksOut ==
    ASSUME InvitesTyped, NEW gone
    PROVE  /\ AccessLinksWithout(gone) \in Seq(AccessLinkRow)
           /\ DOMAIN AccessLinksWithout(gone) = DOMAIN accessLinks
           /\ Len(AccessLinksWithout(gone)) = Len(accessLinks)
           /\ \A c \in DOMAIN accessLinks :
                /\ AccessLinksWithout(gone)[c].user = accessLinks[c].user
                /\ AccessLinksWithout(gone)[c].consumed = accessLinks[c].consumed
                /\ AccessLinksWithout(gone)[c].expired = accessLinks[c].expired
                /\ AccessLinksWithout(gone)[c].revoked <=> accessLinks[c].revoked \/ c \in gone
<1>1. \A c \in DOMAIN accessLinks : accessLinks[c] \in AccessLinkRow
  BY Table DEF InvitesTyped
<1>2. AccessLinksWithout(gone) \in [DOMAIN accessLinks -> AccessLinkRow]
  BY <1>1 DEF AccessLinksWithout, AccessLinkRow
<1>3. \A c \in DOMAIN accessLinks :
         AccessLinksWithout(gone)[c] = [accessLinks[c] EXCEPT !.revoked = @ \/ c \in gone]
  BY DEF AccessLinksWithout
<1>4. /\ AccessLinksWithout(gone) \in Seq(AccessLinkRow)
      /\ DOMAIN AccessLinksWithout(gone) = DOMAIN accessLinks
      /\ Len(AccessLinksWithout(gone)) = Len(accessLinks)
  BY <1>2, RowsChanged DEF InvitesTyped
<1>. QED  BY <1>1, <1>3, <1>4 DEF AccessLinkRow

\* An access link is claimed or expires.
LEMMA AccessLinkEnded ==
    ASSUME InvitesTyped, NEW c \in DOMAIN accessLinks, NEW row \in AccessLinkRow,
           row.user = accessLinks[c].user, row.consumed \/ row.expired,
           accessLinks' = [accessLinks EXCEPT ![c] = row], UNCHANGED <<membership, invites>>
    PROVE  InvitesTyped' /\ AccessLinksFade /\ ~AccessLinkLive(c)'
<1>1. /\ accessLinks' \in Seq(AccessLinkRow) /\ DOMAIN accessLinks' = DOMAIN accessLinks
      /\ \A k \in DOMAIN accessLinks : accessLinks'[k] = IF k = c THEN row ELSE accessLinks[k]
  BY RowChanged DEF InvitesTyped
<1>. QED  BY <1>1 DEF InvitesTyped, AccessLinksFade, AccessLinkLive

\* Nothing of the invites, the places or the accounts changes.
LEMMA OthersKeepInvites ==
    ASSUME InviteInv, AccessLinksFade, UNCHANGED <<membership, invites, accounts, banned, deleted>>
    PROVE  InviteInv'
<1>1. OneAccessLink'
  BY DEF InviteInv, AccessLinksFade, OneAccessLink
<1>2. UsesCounted' /\ EveryNewcomerHasATrail' /\ OwnerStays'
  BY DEF InviteInv, UsesCounted, EveryNewcomerHasATrail, OwnerStays
<1>3. NoInviteOutlivesItsIssuer'
  BY DEF InviteInv, NoInviteOutlivesItsIssuer, MayCreateInvites, ActiveMember, Unrevoked
<1>. QED  BY <1>1, <1>2, <1>3 DEF InviteInv

LEMMA AccessLinksKeepInvites ==
    ASSUME AccountsTyped, InvitesTyped, InviteInv, AccessLinksNext
    PROVE  AccountsTyped' /\ InvitesTyped' /\ InviteInv' /\ Admits({"access"})
<1>1. ASSUME NEW u \in Users, CreateAccessLink(u)
      PROVE  AccountsTyped' /\ InvitesTyped' /\ InviteInv' /\ Admits({"access"})
  <2>. DEFINE replaced == {c \in DOMAIN accessLinks : accessLinks[c].user = u /\ AccessLinkLive(c)}
              rest == AccessLinksWithout(replaced)
              new == [user |-> u, consumed |-> FALSE, revoked |-> FALSE, expired |-> FALSE]
              n == Len(accessLinks) + 1
  <2>1. /\ accessLinks' = Append(rest, new)
        /\ UNCHANGED <<membership, invites, accountVars, accounts, banned, deleted>>
    BY <1>1 DEF CreateAccessLink, accountVars
  <2>2. new \in AccessLinkRow
    BY DEF AccessLinkRow
  <2>3. /\ rest \in Seq(AccessLinkRow) /\ DOMAIN rest = DOMAIN accessLinks
        /\ Len(rest) = Len(accessLinks)
        /\ \A c \in DOMAIN accessLinks :
             /\ rest[c].user = accessLinks[c].user
             /\ rest[c].consumed = accessLinks[c].consumed
             /\ rest[c].expired = accessLinks[c].expired
             /\ rest[c].revoked <=> accessLinks[c].revoked \/ c \in replaced
    BY AccessLinksOut
  <2>4. n \notin DOMAIN accessLinks
    BY Table DEF InvitesTyped
  <2>5. \A c \in DOMAIN accessLinks :
           c \in replaced <=> accessLinks[c].user = u /\ AccessLinkLive(c)
    OBVIOUS
  <2>. HIDE DEF rest, replaced
  <2>6. /\ accessLinks' \in Seq(AccessLinkRow)
        /\ DOMAIN accessLinks' = DOMAIN accessLinks \cup {n} /\ accessLinks'[n] = new
        /\ \A c \in DOMAIN accessLinks : accessLinks'[c] = rest[c]
    <3>. HIDE DEF new
    <3>. QED  BY <2>1, <2>2, <2>3, RowAdded
  <2>. HIDE DEF n
  <2>7. \A c \in DOMAIN accessLinks :
          /\ accessLinks'[c].user = accessLinks[c].user
          /\ AccessLinkLive(c)' => AccessLinkLive(c) /\ accessLinks[c].user # u
    BY <2>3, <2>5, <2>6 DEF AccessLinkLive
  <2>8. OneAccessLink'
    BY <2>6, <2>7 DEF InviteInv, OneAccessLink
  <2>9. UsesCounted' /\ EveryNewcomerHasATrail' /\ OwnerStays'
    BY <2>1 DEF InviteInv, UsesCounted, EveryNewcomerHasATrail, OwnerStays
  <2>10. NoInviteOutlivesItsIssuer'
    BY <2>1 DEF InviteInv, NoInviteOutlivesItsIssuer, MayCreateInvites, ActiveMember, Unrevoked
  <2>11. AccountsTyped' /\ Admits({"access"})
    BY <2>1, SameAccountsStay
  <2>12. InvitesTyped'
    BY <2>1, <2>6 DEF InvitesTyped
  <2>. QED  BY <2>8, <2>9, <2>10, <2>11, <2>12 DEF InviteInv
<1>2. ASSUME NEW u \in Users, Ban(u) \/ Kick(u)
      PROVE  AccountsTyped' /\ InvitesTyped' /\ InviteInv' /\ Admits({"access"})
  BY <1>2, PlaceChangesKeepInvites, SameAccountsStay DEF Ban, Kick, PlaceChanges
<1>3. ASSUME NEW c \in DOMAIN accessLinks, ExpireAccessLink(c)
      PROVE  AccountsTyped' /\ InvitesTyped' /\ InviteInv' /\ Admits({"access"})
  <2>. DEFINE row == [accessLinks[c] EXCEPT !.expired = TRUE]
  <2>1. accessLinks[c] \in AccessLinkRow
    BY Table DEF InvitesTyped
  <2>2. row \in AccessLinkRow /\ row.user = accessLinks[c].user /\ row.expired
    BY <2>1 DEF AccessLinkRow
  <2>3. /\ accessLinks' = [accessLinks EXCEPT ![c] = row]
        /\ UNCHANGED <<membership, invites, accountVars, accounts, banned, deleted>>
    BY <1>3 DEF ExpireAccessLink, accountVars
  <2>. HIDE DEF row
  <2>4. InvitesTyped' /\ AccessLinksFade
    BY <2>2, <2>3, AccessLinkEnded
  <2>. QED  BY <2>3, <2>4, OthersKeepInvites, SameAccountsStay
<1>4. ASSUME NEW c \in DOMAIN accessLinks, ClaimAccess(c)
      PROVE  AccountsTyped' /\ InvitesTyped' /\ InviteInv' /\ Admits({"access"})
  <2>. DEFINE row == [accessLinks[c] EXCEPT !.consumed = TRUE]
              grant == [kind |-> "access", of |-> c]
              user == accessLinks[c].user
  <2>1. accessLinks[c] \in AccessLinkRow /\ c \in Nat
    BY Table DEF InvitesTyped
  <2>2. /\ row \in AccessLinkRow /\ row.user = accessLinks[c].user /\ row.consumed
        /\ user \in Users /\ grant \in OtherGrants /\ grant.kind = "access"
    BY <2>1 DEF AccessLinkRow, OtherGrants
  <2>3. /\ accessLinks' = [accessLinks EXCEPT ![c] = row] /\ CreateSession(user, grant, {})
        /\ UNCHANGED <<membership, invites, accounts, banned, deleted>>
    BY <1>4 DEF ClaimAccess
  <2>. HIDE DEF row, grant, user
  <2>4. InvitesTyped' /\ AccessLinksFade
    BY <2>2, <2>3, AccessLinkEnded
  <2>5. sessions' \in Seq(SessionRow) /\ Aged /\ LetsIn(user, grant)
    BY <2>2, <2>3, Created
  <2>6. AccountsTyped' /\ Admits({"access"})
    BY <2>2, <2>3, <2>5, SomebodyComes DEF AccountsTyped
  <2>. QED  BY <2>3, <2>4, <2>6, OthersKeepInvites
<1>. QED  BY <1>1, <1>2, <1>3, <1>4 DEF AccessLinksNext

------------------------
(* Approvals and recovery. *)

\* The approval a Session came through is not rewritten.
ApprovalsStay ==
    /\ \A l \in DOMAIN links :
          l \in DOMAIN links' /\ (links[l].consumed => links'[l].approvedBy = links[l].approvedBy)
    /\ \A g \in DOMAIN launches : g \in DOMAIN launches' /\ launches'[g].by = launches[g].by

\* Whoever comes in through an approval was approved by a Session that still works.
ApprovedByLive ==
    \A s \in DOMAIN sessions', a \in DOMAIN sessions :
        \/ s \in DOMAIN sessions
        \/ ApprovedBy(s, a)' => sessions[a].live /\ sessions[a].user = sessions'[s].user

LEMMA ApproversStay ==
    ASSUME LinkInv, LaunchInv, ApprovalsStay, Aged, NEW s \in DOMAIN sessions, NEW a,
           ApprovedBy(s, a)'
    PROVE  ApprovedBy(s, a) /\ a \in DOMAIN sessions
<1>1. sessions'[s].grant = sessions[s].grant
  BY DEF Aged
<1>2. CASE FromLink(s)
  BY <1>2, <1>1 DEF LinkInv, CollectionsMatch, ApprovalsMatch, FromLink, ApprovedBy, ApprovalsStay
<1>3. CASE FromLaunch(s)
  BY <1>3, <1>1 DEF LaunchInv, SignInsMatch, LaunchesMatch, FromLaunch, ApprovedBy, ApprovalsStay
<1>. QED  BY <1>1, <1>2, <1>3 DEF ApprovedBy, FromLink, FromLaunch

LEMMA ApprovalsWithdrawn ==
    ASSUME AccountsTyped, AccountsTyped', LinkInv, LaunchInv, RecoveryInv,
           RecoveryWithdrawsApprovals, NEW kinds, Admits(kinds), ApprovalsStay, ApprovedByLive
    PROVE  RecoveryWithdrawsApprovals'
<1>. SUFFICES ASSUME NEW s \in DOMAIN sessions', NEW a \in DOMAIN sessions', ApprovedBy(s, a)',
                     NEW r \in (a + 1)..(s - 1), FromCode(r)',
                     sessions'[r].user = sessions'[s].user
              PROVE  FALSE
  BY DEF RecoveryWithdrawsApprovals, FromCode
<1>1. /\ DOMAIN sessions = 1..Len(sessions) /\ Len(sessions) \in Nat
      /\ DOMAIN sessions' = 1..Len(sessions') /\ Len(sessions') \in Nat
  BY Table DEF AccountsTyped
<1>2. r \in DOMAIN sessions' /\ a < r /\ r < s
  BY <1>1
<1>3. r \in DOMAIN sessions /\ a \in DOMAIN sessions
  BY <1>1, <1>2 DEF Admits
<1>4. /\ FromCode(r) /\ sessions'[r].user = sessions[r].user
      /\ sessions'[a].user = sessions[a].user
  BY <1>3 DEF FromCode, Admits, Aged
<1>5. CASE s \in DOMAIN sessions
  BY <1>5, ApproversStay, <1>3, <1>4 DEF Admits, Aged, RecoveryWithdrawsApprovals, FromCode
<1>6. CASE s \notin DOMAIN sessions
  BY <1>3, <1>6, <1>2, <1>4 DEF ApprovedByLive, RecoveryInv, RecoverySignsOut
<1>. QED  BY <1>5, <1>6

LEMMA OthersApproveNobody ==
    ASSUME NEW kinds, Admits(kinds), kinds \cap {"link", "desktop"} = {}
    PROVE  ApprovedByLive
BY DEF Admits, ApprovedByLive, ApprovedBy

LEMMA LinksNextApproves ==
    ASSUME AccountsTyped, LinksTyped, LinkInv, LinksNext, UNCHANGED launchVars
    PROVE  ApprovalsStay /\ ApprovedByLive
<1>. DEFINE Settled == \A l \in DOMAIN links :
           l \in DOMAIN links' /\ (links[l].consumed => links'[l].approvedBy = links[l].approvedBy)
<1>1. Settled => ApprovalsStay
  BY DEF ApprovalsStay, launchVars
<1>2. UNCHANGED sessions => ApprovedByLive
  BY DEF ApprovedByLive
<1>3. LinksFade => Settled
  BY DEF LinksFade, LinkKept
<1>4. ASSUME NEW s \in DOMAIN sessions, MintLink(s)
      PROVE  Settled /\ ApprovedByLive
  BY <1>2, <1>4, Minted DEF LinkKept, MintLink, accountVars
<1>5. ASSUME NEW s \in DOMAIN sessions, NEW l \in DOMAIN links, CloseLink(s, l)
      PROVE  Settled /\ ApprovedByLive
  BY <1>5, WithdrawnLinks, <1>2, <1>3 DEF CloseLink, accountVars
<1>6. ASSUME NEW s \in DOMAIN sessions, NEW l \in DOMAIN links, NEW approve \in BOOLEAN,
             AnswerLink(s, l, approve)
      PROVE  Settled /\ ApprovedByLive
  BY <1>6, <1>2 DEF AnswerLink, Waiting, Outstanding, accountVars
<1>7. ASSUME NEW l \in DOMAIN links, ExpireLink(l)
      PROVE  Settled /\ ApprovedByLive
  BY <1>2, <1>3, <1>7, ExpiredLink DEF ExpireLink, accountVars
<1>8. ASSUME NEW l \in DOMAIN links, ClaimLink(l)
      PROVE  Settled /\ ApprovedByLive
  BY <1>8, <1>2 DEF ClaimLink, Claimable, accountVars
<1>9. ASSUME NEW l \in DOMAIN links, NEW claim \in 1..links[l].claims, CollectLink(l, claim)
      PROVE  Settled /\ ApprovedByLive
  <2>. DEFINE n == Len(sessions) + 1
  <2>1. /\ LinksFade /\ DOMAIN sessions' = DOMAIN sessions \cup {n}
        /\ sessions'[n] = Session(links[l].user, [kind |-> "link", of |-> l, claim |-> claim])
    BY <1>9, CollectingKeepsLinks DEF LetsIn
  <2>2. /\ sessions[links[l].approvedBy].live /\ Approved(l)
    BY <1>9 DEF CollectLink, Collectable
  <2>3. sessions[links[l].approvedBy].user = links[l].user
    BY <2>2 DEF LinkInv, ApprovalsMatch
  <2>4. links'[l].approvedBy = links[l].approvedBy
    BY <2>1 DEF LinksFade, LinkKept
  <2>. HIDE DEF n
  <2>5. ApprovedByLive
    BY <2>1, <2>2, <2>3, <2>4 DEF ApprovedByLive, ApprovedBy, Session
  <2>. QED  BY <1>3, <2>1, <2>5
<1>. HIDE DEF Settled
<1>. QED  BY <1>1, <1>4, <1>5, <1>6, <1>7, <1>8, <1>9 DEF LinksNext

LEMMA LaunchesNextApproves ==
    ASSUME AccountsTyped, LaunchesTyped, LaunchInv, LaunchesNext, UNCHANGED linkVars
    PROVE  ApprovalsStay /\ ApprovedByLive
<1>. DEFINE Settled == \A g \in DOMAIN launches :
           g \in DOMAIN launches' /\ launches'[g].by = launches[g].by
<1>1. Settled => ApprovalsStay
  BY DEF ApprovalsStay, linkVars
<1>2. UNCHANGED accountVars => ApprovedByLive
  BY DEF ApprovedByLive, accountVars
<1>3. LaunchesFade => Settled
  BY DEF LaunchesFade, LaunchKept
<1>4. ASSUME NEW s \in DOMAIN sessions, Launch(s)
      PROVE  Settled /\ ApprovedByLive
  BY <1>2, <1>4, Launched DEF Launch
<1>5. ASSUME NEW s \in DOMAIN sessions, NEW g \in DOMAIN launches, CancelLaunch(s, g)
      PROVE  Settled /\ ApprovedByLive
  BY <1>2, <1>3, <1>5, CancellingFades DEF CancelLaunch
<1>6. ASSUME NEW g \in DOMAIN launches, launches[g] \in LaunchRow, NEW status,
             DOMAIN launches' = DOMAIN launches,
             launches'[g] = [launches[g] EXCEPT !.status = status],
             \A k \in DOMAIN launches : k # g => launches'[k] = launches[k]
      PROVE  Settled
  BY <1>6 DEF LaunchRow
<1>7. \A g \in DOMAIN launches : launches[g] \in LaunchRow
  BY Table DEF LaunchesTyped
<1>8. ASSUME NEW s \in DOMAIN sessions, NEW g \in DOMAIN launches, NEW approve \in BOOLEAN,
             Decide(s, g, approve)
      PROVE  Settled /\ ApprovedByLive
  <2>. DEFINE status == IF approve THEN "approved" ELSE "refused"
  <2>1. /\ DOMAIN launches' = DOMAIN launches
        /\ launches'[g] = [launches[g] EXCEPT !.status = status]
        /\ \A k \in DOMAIN launches : k # g => launches'[k] = launches[k]
    BY <1>8, DecidingKeepsLaunches
  <2>. HIDE DEF status, Settled
  <2>. QED  BY <1>2, <1>6, <1>7, <1>8, <2>1 DEF Decide
<1>9. ASSUME NEW g \in DOMAIN launches, RequestAuthorization(g)
      PROVE  Settled /\ ApprovedByLive
  <2>1. /\ DOMAIN launches' = DOMAIN launches
        /\ launches'[g] = [launches[g] EXCEPT !.status = "pending"]
        /\ \A k \in DOMAIN launches : k # g => launches'[k] = launches[k]
    BY <1>9, RequestingKeepsLaunches
  <2>. HIDE DEF Settled
  <2>. QED  BY <1>2, <1>6, <1>7, <1>9, <2>1 DEF RequestAuthorization
<1>10. ASSUME NEW g \in DOMAIN launches, CollectAuthorization(g)
       PROVE  Settled /\ ApprovedByLive
  <2>. DEFINE n == Len(sessions) + 1
              user == sessions[launches[g].by].user
  <2>1. /\ DOMAIN sessions' = DOMAIN sessions \cup {n}
        /\ sessions'[n] = Session(user, [kind |-> "desktop", of |-> g])
        /\ DOMAIN launches' = DOMAIN launches
        /\ launches'[g] = [launches[g] EXCEPT !.consumed = TRUE]
        /\ \A k \in DOMAIN launches : k # g => launches'[k] = launches[k]
    BY <1>10, CollectingKeepsLaunches DEF LetsIn
  <2>2. launches'[g].by = launches[g].by
    BY <1>7, <2>1 DEF LaunchRow
  <2>3. sessions[launches[g].by].live
    BY <1>10 DEF CollectAuthorization, Authorizes, Works
  <2>4. Settled
    BY <2>1, <2>2
  <2>. HIDE DEF n, Settled
  <2>5. /\ sessions'[n].user = user /\ sessions'[n].grant.kind = "desktop"
        /\ sessions'[n].grant.of = g
    BY <2>1 DEF Session
  <2>6. ASSUME NEW s \in DOMAIN sessions', NEW a \in DOMAIN sessions, s \notin DOMAIN sessions,
               ApprovedBy(s, a)'
        PROVE  sessions[a].live /\ sessions[a].user = sessions'[s].user
    <3>1. s = n
      BY <2>1, <2>6
    <3>2. launches'[g].by = a
      BY <2>5, <2>6, <3>1 DEF ApprovedBy
    <3>. QED  BY <2>2, <2>3, <2>5, <3>1, <3>2
  <2>. QED  BY <2>4, <2>6 DEF ApprovedByLive
<1>11. ASSUME NEW g \in DOMAIN launches, CancelAuthorization(g) \/ ExpireAuthorization(g)
       PROVE  Settled /\ ApprovedByLive
  BY <1>2, <1>3, <1>11, EndedLaunches DEF CancelAuthorization, ExpireAuthorization
<1>12. ASSUME NEW g \in DOMAIN launches, ExpireLaunch(g)
       PROVE  Settled /\ ApprovedByLive
  BY <1>2, <1>3, <1>12, ExpiringFades DEF ExpireLaunch
<1>. HIDE DEF Settled
<1>. QED  BY <1>1, <1>4, <1>5, <1>8, <1>9, <1>10, <1>11, <1>12 DEF LaunchesNext

------------------------
(* All the ways in together. *)

RemovalTyped ==
    /\ request \in [Users -> {"none", "pending", "cancelled", "rejected", "approved"}]
    /\ cooling \subseteq Users

WaysInTyped ==
    AccountsTyped /\ LinksTyped /\ LaunchesTyped /\ RecoveryTyped /\ InvitesTyped /\ RemovalTyped

WaysInInv ==
    /\ WaysInTyped
    /\ LinkInv /\ LaunchInv /\ RecoveryInv /\ InviteInv /\ RecoveryWithdrawsApprovals

LEMMA SameTablesFade ==
    /\ UNCHANGED links => LinksFade
    /\ UNCHANGED launches => LaunchesFade
    /\ UNCHANGED codes => CodesFade
    /\ UNCHANGED accessLinks => AccessLinksFade
BY DEF LinksFade, LinkKept, LaunchesFade, LaunchKept, CodesFade, AccessLinksFade, AccessLinkLive

LEMMA FadingStays ==
    ASSUME LinksFade, LaunchesFade
    PROVE  ApprovalsStay
BY DEF LinksFade, LinkKept, LaunchesFade, LaunchKept, ApprovalsStay

\* A step that lets nobody in, whatever it takes away.
LEMMA TakingAwayKeepsInv ==
    ASSUME WaysInInv, WaysInTyped', Admits({}), LinksFade, LaunchesFade, CodesFade,
           UNCHANGED ownerClaims, InviteInv'
    PROVE  WaysInInv'
BY OthersKeepLinks, OthersKeepLaunches, OthersKeepRecovery, FadingStays, OthersApproveNobody, ApprovalsWithdrawn
   DEF WaysInInv, WaysInTyped

LEMMA LinksKeepInv ==
    ASSUME WaysInInv, LinksNext, UNCHANGED <<launchVars, recoveryVars, inviteVars, removalVars>>
    PROVE  WaysInInv'
<1>1. AccountsTyped' /\ LinksTyped' /\ LinkInv' /\ Admits({"link"})
  BY LinksNextKeepsLinks DEF WaysInInv, WaysInTyped
<1>2. UNCHANGED <<launches, codes, ownerClaims, membership, invites, accessLinks, request, cooling>>
  BY DEF launchVars, recoveryVars, inviteVars, removalVars
<1>3. WaysInTyped'
  BY <1>1, <1>2 DEF WaysInInv, WaysInTyped, LaunchesTyped, RecoveryTyped, InvitesTyped, RemovalTyped
<1>4. LaunchesFade /\ CodesFade /\ AccessLinksFade
  BY <1>2, SameTablesFade
<1>5. LaunchInv'
  BY <1>1, <1>4, OthersKeepLaunches DEF WaysInInv
<1>6. RecoveryInv'
  BY <1>1, <1>2, <1>4, OthersKeepRecovery DEF WaysInInv, WaysInTyped
<1>7. UNCHANGED <<accounts, banned, deleted>>
  BY DEF LinksNext, MintLink, CloseLink, AnswerLink, ClaimLink, ExpireLink, CollectLink, accountVars
<1>8. InviteInv'
  BY <1>2, <1>4, <1>7, OthersKeepInvites DEF WaysInInv
<1>9. RecoveryWithdrawsApprovals'
  BY <1>1, LinksNextApproves, ApprovalsWithdrawn DEF WaysInInv, WaysInTyped
<1>. QED  BY <1>1, <1>3, <1>5, <1>6, <1>8, <1>9 DEF WaysInInv

LEMMA LaunchesKeepInv ==
    ASSUME WaysInInv, LaunchesNext, UNCHANGED <<linkVars, recoveryVars, inviteVars, removalVars>>
    PROVE  WaysInInv'
<1>1. AccountsTyped' /\ LaunchesTyped' /\ LaunchInv' /\ Admits({"desktop"})
  BY LaunchesNextKeepsLaunches DEF WaysInInv, WaysInTyped
<1>2. UNCHANGED <<links, codes, ownerClaims, membership, invites, accessLinks, request, cooling>>
  BY DEF linkVars, recoveryVars, inviteVars, removalVars
<1>3. WaysInTyped'
  BY <1>1, <1>2 DEF WaysInInv, WaysInTyped, LinksTyped, RecoveryTyped, InvitesTyped, RemovalTyped
<1>4. LinksFade /\ CodesFade /\ AccessLinksFade
  BY <1>2, SameTablesFade
<1>5. LinkInv'
  BY <1>1, <1>3, <1>4, OthersKeepLinks DEF WaysInInv, WaysInTyped
<1>6. RecoveryInv'
  BY <1>1, <1>2, <1>4, OthersKeepRecovery DEF WaysInInv, WaysInTyped
<1>7. UNCHANGED <<accounts, banned, deleted>>
  BY DEF LaunchesNext, Launch, CancelLaunch, Decide, RequestAuthorization, CollectAuthorization,
         CancelAuthorization, ExpireLaunch, ExpireAuthorization, accountVars
<1>8. InviteInv'
  BY <1>2, <1>4, <1>7, OthersKeepInvites DEF WaysInInv
<1>9. RecoveryWithdrawsApprovals'
  BY <1>1, LaunchesNextApproves, ApprovalsWithdrawn DEF WaysInInv, WaysInTyped
<1>. QED  BY <1>1, <1>3, <1>5, <1>6, <1>8, <1>9 DEF WaysInInv

LEMMA RecoveryKeepsInv ==
    ASSUME WaysInInv, RecoveryNext \/ OwnerClaimsNext,
           UNCHANGED <<linkVars, launchVars, inviteVars, removalVars>>
    PROVE  WaysInInv'
<1>1. PICK kinds \in SUBSET {"recovery", "owner"} :
         AccountsTyped' /\ RecoveryTyped' /\ RecoveryInv' /\ Admits(kinds)
  BY IssuingKeepsRecovery, RedeemingKeepsRecovery, OwnerClaimsKeepRecovery
     DEF WaysInInv, WaysInTyped, RecoveryNext
<1>2. UNCHANGED <<links, launches, membership, invites, accessLinks, request, cooling>>
  BY DEF linkVars, launchVars, inviteVars, removalVars
<1>3. WaysInTyped'
  BY <1>1, <1>2 DEF WaysInInv, WaysInTyped, LinksTyped, LaunchesTyped, InvitesTyped, RemovalTyped
<1>4. LinksFade /\ LaunchesFade /\ AccessLinksFade
  BY <1>2, SameTablesFade
<1>5. "link" \notin kinds /\ "desktop" \notin kinds /\ kinds \cap {"link", "desktop"} = {}
  OBVIOUS
<1>6. LinkInv' /\ LaunchInv'
  BY <1>1, <1>3, <1>4, <1>5, OthersKeepLinks, OthersKeepLaunches DEF WaysInInv, WaysInTyped
<1>7. UNCHANGED <<accounts, banned, deleted>>
  BY DEF RecoveryNext, OwnerClaimsNext, IssueRecoveryCode, Redeem, CreateOwnerLoginClaim,
         ConsumeOwnerClaim, ExpireOwnerClaim, accountVars
<1>8. InviteInv'
  BY <1>2, <1>4, <1>7, OthersKeepInvites DEF WaysInInv
<1>9. RecoveryWithdrawsApprovals'
  BY <1>1, <1>4, <1>5, FadingStays, OthersApproveNobody, ApprovalsWithdrawn DEF WaysInInv, WaysInTyped
<1>. QED  BY <1>1, <1>3, <1>6, <1>8, <1>9 DEF WaysInInv

LEMMA InvitesKeepInv ==
    ASSUME WaysInInv, InvitesNext \/ AccessLinksNext,
           UNCHANGED <<linkVars, launchVars, recoveryVars, removalVars>>
    PROVE  WaysInInv'
<1>1. PICK kinds \in SUBSET {"invite", "access"} :
         AccountsTyped' /\ InvitesTyped' /\ InviteInv' /\ Admits(kinds)
  BY InvitesNextKeepsInvites, AccessLinksKeepInvites DEF WaysInInv, WaysInTyped
<1>2. UNCHANGED <<links, launches, codes, ownerClaims, request, cooling>>
  BY DEF linkVars, launchVars, recoveryVars, removalVars
<1>3. WaysInTyped'
  BY <1>1, <1>2 DEF WaysInInv, WaysInTyped, LinksTyped, LaunchesTyped, RecoveryTyped, RemovalTyped
<1>4. LinksFade /\ LaunchesFade /\ CodesFade
  BY <1>2, SameTablesFade
<1>5. /\ "link" \notin kinds /\ "desktop" \notin kinds /\ kinds \cap {"link", "desktop"} = {}
      /\ kinds \cap {"recovery", "owner"} = {}
  OBVIOUS
<1>6. LinkInv' /\ LaunchInv'
  BY <1>1, <1>3, <1>4, <1>5, OthersKeepLinks, OthersKeepLaunches DEF WaysInInv, WaysInTyped
<1>7. RecoveryInv'
  BY <1>1, <1>2, <1>4, <1>5, OthersKeepRecovery DEF WaysInInv, WaysInTyped
<1>8. RecoveryWithdrawsApprovals'
  BY <1>1, <1>4, <1>5, FadingStays, OthersApproveNobody, ApprovalsWithdrawn DEF WaysInInv, WaysInTyped
<1>. QED  BY <1>1, <1>3, <1>6, <1>7, <1>8 DEF WaysInInv

LEMMA SigningOutKeepsInv ==
    ASSUME WaysInInv, NEW s \in DOMAIN sessions, SignOut(s),
           UNCHANGED <<linkVars, launchVars, recoveryVars, inviteVars, removalVars>>
    PROVE  WaysInInv'
<1>1. AccountsTyped' /\ Admits({}) /\ UNCHANGED <<accounts, banned, deleted>>
  BY SignedOut DEF SignOut, WaysInInv, WaysInTyped
<1>2. UNCHANGED <<links, launches, codes, ownerClaims, membership, invites, accessLinks, request, cooling>>
  BY DEF linkVars, launchVars, recoveryVars, inviteVars, removalVars
<1>3. WaysInTyped'
  BY <1>1, <1>2 DEF WaysInInv, WaysInTyped, LinksTyped, LaunchesTyped, RecoveryTyped, InvitesTyped,
                    RemovalTyped
<1>4. LinksFade /\ LaunchesFade /\ CodesFade /\ AccessLinksFade
  BY <1>2, SameTablesFade
<1>5. InviteInv'
  BY <1>1, <1>2, <1>4, OthersKeepInvites DEF WaysInInv
<1>. QED  BY <1>1, <1>2, <1>3, <1>4, <1>5, TakingAwayKeepsInv

\* What does not touch the ways in: the requests, and their deadlines.
LEMMA RequestsKeepInv ==
    ASSUME WaysInInv, UNCHANGED waysInVars, RemovalTyped'
    PROVE  WaysInInv'
<1>1. UNCHANGED <<accounts, banned, deleted, sessions, links, launches, codes, ownerClaims,
                  membership, invites, accessLinks>>
  BY DEF waysInVars, linkVars, launchVars, recoveryVars, inviteVars, accountVars
<1>2. WaysInTyped'
  BY <1>1 DEF WaysInInv, WaysInTyped, AccountsTyped, LinksTyped, LaunchesTyped, RecoveryTyped, InvitesTyped
<1>3. LinksFade /\ LaunchesFade /\ CodesFade /\ AccessLinksFade
  BY <1>1, SameTablesFade
<1>4. Admits({})
  BY <1>1, NobodyComes DEF WaysInInv, WaysInTyped
<1>5. InviteInv'
  BY <1>1, <1>3, OthersKeepInvites DEF WaysInInv
<1>. QED  BY <1>1, <1>2, <1>3, <1>4, <1>5, TakingAwayKeepsInv

\* The invites of whoever is deleted or banned end with it.
LEMMA RemovedIssuer ==
    ASSUME WaysInInv, NEW u \in Users, u # Owner, invites' = InvitesWithout(InvitesOf(u)),
           UNCHANGED accounts, AccessLinksFade,
           banned' \cup deleted' \subseteq banned \cup deleted \cup {u},
           \A v \in Users : v # u => membership'[v] = membership[v]
    PROVE  invites' \in Seq(InviteRow) /\ InviteInv'
<1>1. /\ invites' \in Seq(InviteRow) /\ InvitesFade
      /\ \A i \in DOMAIN invites : Unrevoked(i)' => i \notin InvitesOf(u)
  BY EndedInvites DEF WaysInInv, WaysInTyped
<1>2. \A i \in DOMAIN invites : invites[i] \in InviteRow
  BY Table DEF WaysInInv, WaysInTyped, InvitesTyped
<1>3. OwnerStays'
  BY DEF WaysInInv, InviteInv, OwnerStays
<1>4. IssuersKeepTheirPlace
  BY <1>1, PlacesKept, <1>2 DEF WaysInInv, InvitesOf, InvitesFade, InviteRow, ActiveMember
<1>. QED  BY <1>1, <1>3, <1>4, FadingKeepsInvites DEF WaysInInv

LEMMA BanningKeepsInv ==
    ASSUME WaysInInv, NEW u \in Users, BanFromInstallation(u)
    PROVE  WaysInInv'
<1>1. UNCHANGED <<request, cooling, links, launches, codes, ownerClaims, membership, accessLinks,
                  accounts, deleted>>
  BY DEF BanFromInstallation, removalVars, linkVars, launchVars, recoveryVars
<1>2. u # Owner /\ banned' = banned \cup {u} /\ sessions' = SessionsWithout(SessionsOf(u))
      /\ invites' = InvitesWithout(InvitesOf(u))
  BY DEF BanFromInstallation
<1>3. LinksFade /\ LaunchesFade /\ CodesFade /\ AccessLinksFade
  BY <1>1, SameTablesFade
<1>4. invites' \in Seq(InviteRow) /\ InviteInv'
  BY <1>1, <1>2, <1>3, RemovedIssuer
<1>5. AccountsTyped'
  BY <1>2, SessionsOut, <1>1 DEF WaysInInv, WaysInTyped, AccountsTyped
<1>6. Admits({})
  BY <1>2, <1>5, SignedOut DEF WaysInInv, WaysInTyped
<1>7. WaysInTyped'
  BY <1>1, <1>4, <1>5 DEF WaysInInv, WaysInTyped, LinksTyped, LaunchesTyped, RecoveryTyped,
                          InvitesTyped, RemovalTyped
<1>. QED  BY <1>1, <1>3, <1>4, <1>6, <1>7, TakingAwayKeepsInv

LEMMA DeletingKeepsInv ==
    ASSUME WaysInInv, NEW u \in Users, DeleteAccount(u)
    PROVE  WaysInInv'
<1>1. /\ u # Owner /\ deleted' = deleted \cup {u} /\ sessions' = SessionsWithout(SessionsOf(u))
      /\ invites' = InvitesWithout(InvitesOf(u))
      /\ UNCHANGED <<cooling, ownerClaims, accounts, banned>>
  BY DEF DeleteAccount, Deletable
<1>2. LinksTyped' /\ LinksFade
  BY WithdrawnLinks DEF DeleteAccount, WaysInInv, WaysInTyped
<1>3. LaunchesTyped' /\ LaunchesFade
  BY EndedLaunches DEF DeleteAccount, WaysInInv, WaysInTyped
<1>4. codes' \in Seq(CodeRow) /\ CodesFade
  <2>. DEFINE gone == {c \in DOMAIN codes : codes[c].user = u}
  <2>1. codes' = CodesWithout(gone)
    BY DEF DeleteAccount
  <2>. HIDE DEF gone
  <2>. QED  BY <2>1, CodesOut DEF CodesFade, WaysInInv, WaysInTyped
<1>5. accessLinks' \in Seq(AccessLinkRow) /\ AccessLinksFade
  <2>. DEFINE gone == {c \in DOMAIN accessLinks : accessLinks[c].user = u}
  <2>1. accessLinks' = AccessLinksWithout(gone)
    BY DEF DeleteAccount
  <2>. HIDE DEF gone
  <2>. QED  BY <2>1, AccessLinksOut DEF AccessLinksFade, AccessLinkLive, WaysInInv, WaysInTyped
<1>6. /\ membership' \in [Users -> Place]
      /\ \A v \in Users : v # u => membership'[v] = membership[v]
  <2>. DEFINE place == [membership[u] EXCEPT !.removed = @ \/ membership[u].row, !.canInvite = FALSE]
  <2>1. membership \in [Users -> Place] /\ membership[u] \in Place
    BY DEF WaysInInv, WaysInTyped, InvitesTyped
  <2>2. place \in Place
    BY <2>1 DEF Place
  <2>3. membership' = [membership EXCEPT ![u] = place]
    BY <2>1 DEF DeleteAccount
  <2>. HIDE DEF place
  <2>. QED  BY <2>1, <2>2, <2>3
<1>7. invites' \in Seq(InviteRow) /\ InviteInv'
  BY <1>1, <1>5, <1>6, RemovedIssuer
<1>8. AccountsTyped'
  BY <1>1, SessionsOut DEF WaysInInv, WaysInTyped, AccountsTyped
<1>9. Admits({})
  BY <1>1, <1>8, SignedOut DEF WaysInInv, WaysInTyped
<1>10. RemovalTyped'
  BY <1>1 DEF DeleteAccount, WaysInInv, WaysInTyped, RemovalTyped
<1>11. WaysInTyped'
  BY <1>1, <1>2, <1>3, <1>4, <1>5, <1>6, <1>7, <1>8, <1>10 DEF WaysInInv, WaysInTyped, RecoveryTyped, InvitesTyped
<1>. QED  BY <1>1, <1>2, <1>3, <1>4, <1>7, <1>9, <1>11, TakingAwayKeepsInv

LEMMA WaysInInitInv == WaysInInit => WaysInInv
<1>. SUFFICES ASSUME WaysInInit
              PROVE  WaysInInv
  OBVIOUS
<1>. USE DEF WaysInInit, AccountsInit, LinksInit, LaunchesInit, RecoveryInit, InvitesInit, RemovalInit
<1>1. Owner \in Users /\ Member \in Users
  BY DEF Users
<1>2. Session(Member, NoGrant) \in SessionRow
  BY <1>1 DEF Session, SessionRow
<1>3. AccountsTyped
  BY <1>1, <1>2 DEF AccountsTyped
<1>4. sessions[1] = Session(Member, NoGrant) /\ DOMAIN sessions = {1}
  OBVIOUS
<1>5. DOMAIN links = {} /\ DOMAIN launches = {} /\ DOMAIN codes = {} /\ DOMAIN ownerClaims = {}
      /\ DOMAIN invites = {} /\ DOMAIN accessLinks = {}
  OBVIOUS
<1>6. LinksTyped /\ LaunchesTyped
  BY LinksAssumption, LaunchesAssumption DEF LinksTyped, LaunchesTyped
<1>7. RecoveryTyped
  BY DEF RecoveryTyped
<1>8. InvitesTyped
  <2>1. Outside \in Place /\ Inside \in Place
    BY DEF Outside, Inside, Place
  <2>. QED  BY <2>1 DEF InvitesTyped
<1>9. RemovalTyped
  BY DEF RemovalTyped
<1>10. ~FromLink(1) /\ ~FromLaunch(1) /\ ~FromCode(1) /\ ~FromOwnerClaim(1)
  BY <1>4 DEF FromLink, FromLaunch, FromCode, FromOwnerClaim, Session
<1>11. LinkInv
  BY <1>4, <1>5, <1>10 DEF LinkInv, ApprovalsMatch, CollectionsMatch, CollectedOnce, OneOutstandingCode
<1>12. LaunchInv
  BY <1>4, <1>5, <1>10 DEF LaunchInv, LaunchesMatch, SignInsMatch, SignedInOnce, EndingsMatch
<1>13. RecoveryInv
  BY <1>4, <1>5, <1>10 DEF RecoveryInv, RecoveriesMatch, RecoveredOnce, OneLiveCode, RecoverySignsOut
<1>14. InviteInv
  BY AccountsAssumption, <1>5 DEF InviteInv, UsesCounted, NoInviteOutlivesItsIssuer, EveryNewcomerHasATrail,
     OneAccessLink, OwnerStays
<1>15. RecoveryWithdrawsApprovals
  BY <1>4, <1>10 DEF RecoveryWithdrawsApprovals, ApprovedBy, Session
<1>. QED  BY <1>3, <1>6, <1>7, <1>8, <1>9, <1>11, <1>12, <1>13, <1>14, <1>15 DEF WaysInInv, WaysInTyped

------------------------
(* A deleted account. *)

SignedOutFor(u) == \A s \in DOMAIN sessions : sessions[s].user = u => ~sessions[s].live
NoLinkFor(u) == \A l \in DOMAIN links : links[l].user = u => links[l].consumed
NoLaunchFor(u) ==
    \A g \in DOMAIN launches :
        AuthorizationLive(g) /\ launches[g].status = "approved" => sessions[launches[g].by].user # u
NoCodeFor(u) == \A c \in DOMAIN codes : codes[c].user = u => ~CodeLive(c)
NoAccessLinkFor(u) == \A c \in DOMAIN accessLinks : accessLinks[c].user = u => ~AccessLinkLive(c)

\* A deleted account was one, has no place in the server any more, and nothing
\* that could let it in.
Gone(u) ==
    /\ u \in accounts
    /\ ~ActiveMember(u)
    /\ SignedOutFor(u) /\ NoLinkFor(u) /\ NoLaunchFor(u) /\ NoCodeFor(u) /\ NoAccessLinkFor(u)
    /\ request[u] # "pending"

DeletedAreGone == \A u \in deleted : Gone(u)

LEMMA GoneSuffices ==
    WaysInInv /\ DeletedAreGone => DeletedAccountKeepsNothing
<1>. SUFFICES ASSUME WaysInInv, DeletedAreGone, NEW u \in deleted
              PROVE  /\ \A s \in SessionsOf(u) : ~sessions[s].live
                     /\ \A l \in DOMAIN links : links[l].user = u => links[l].consumed
                     /\ \A g \in DOMAIN launches :
                           AuthorizationLive(g) /\ launches[g].status = "approved"
                               => sessions[launches[g].by].user # u
                     /\ CodesOf(u) = {}
                     /\ \A c \in DOMAIN accessLinks : accessLinks[c].user = u => ~AccessLinkLive(c)
                     /\ \A i \in InvitesOf(u) : ~Unrevoked(i)
                     /\ request[u] # "pending"
  BY DEF DeletedAccountKeepsNothing
<1>1. Gone(u)
  BY DEF DeletedAreGone
<1>2. \A i \in InvitesOf(u) : ~Unrevoked(i)
  BY DEF WaysInInv, InviteInv, NoInviteOutlivesItsIssuer, InvitesOf
<1>. QED  BY <1>1, <1>2 DEF Gone, SignedOutFor, NoLinkFor, NoLaunchFor, NoCodeFor, NoAccessLinkFor,
                            SessionsOf, CodesOf

LEMMA TakenAwayStaysGone ==
    ASSUME WaysInInv, NEW u,
           SignedOutFor(u), NoLinkFor(u), NoLaunchFor(u), NoCodeFor(u), NoAccessLinkFor(u)
    PROVE  /\ Aged /\ DOMAIN sessions' = DOMAIN sessions => SignedOutFor(u)'
           /\ LinksFade => NoLinkFor(u)'
           /\ LaunchesFade /\ Aged => NoLaunchFor(u)'
           /\ CodesFade => NoCodeFor(u)'
           /\ AccessLinksFade => NoAccessLinkFor(u)'
<1>1. ASSUME Aged, DOMAIN sessions' = DOMAIN sessions
      PROVE  SignedOutFor(u)'
  BY <1>1 DEF Aged, SignedOutFor
<1>2. ASSUME LinksFade PROVE NoLinkFor(u)'
  BY <1>2 DEF LinksFade, LinkKept, NoLinkFor
<1>3. ASSUME LaunchesFade, Aged PROVE NoLaunchFor(u)'
  BY <1>3 DEF WaysInInv, LaunchInv, LaunchesMatch, LaunchesFade, LaunchKept, Aged, NoLaunchFor, AuthorizationLive
<1>4. ASSUME CodesFade PROVE NoCodeFor(u)'
  BY <1>4 DEF CodesFade, NoCodeFor, CodeLive
<1>5. ASSUME AccessLinksFade PROVE NoAccessLinkFor(u)'
  BY <1>5 DEF AccessLinksFade, NoAccessLinkFor
<1>. QED  BY <1>1, <1>2, <1>3, <1>4, <1>5

LEMMA SomebodyElseComes ==
    ASSUME NEW u, SignedOutFor(u), NEW user, user # u, NEW grant, LetsIn(user, grant), Aged
    PROVE  SignedOutFor(u)'
BY DEF SignedOutFor, LetsIn, Aged, Session

\* Only what one has put into the server, and nobody puts a deleted account back.
LEMMA LinksLeaveGone ==
    ASSUME WaysInInv, NEW u \in deleted, Gone(u), LinksNext,
           UNCHANGED <<launchVars, recoveryVars, inviteVars, removalVars>>
    PROVE  Gone(u)'
<1>1. SignedOutFor(u) /\ NoLinkFor(u) /\ NoLaunchFor(u) /\ NoCodeFor(u) /\ NoAccessLinkFor(u)
  BY DEF Gone
<1>2. UNCHANGED <<launches, codes, membership, accessLinks, request>>
  BY DEF launchVars, recoveryVars, inviteVars, removalVars
<1>3. Admits({"link"}) /\ AccountsTyped /\ LinksTyped /\ LinkInv
  BY LinksNextKeepsLinks DEF WaysInInv, WaysInTyped
<1>4. UNCHANGED accounts
  BY DEF LinksNext, MintLink, CloseLink, AnswerLink, ClaimLink, ExpireLink, CollectLink, accountVars
<1>5. NoLaunchFor(u)' /\ NoCodeFor(u)' /\ NoAccessLinkFor(u)'
  BY <1>1, <1>2, <1>3, SameTablesFade, TakenAwayStaysGone DEF Admits
<1>6. UNCHANGED accountVars => SignedOutFor(u)'
  BY <1>1 DEF SignedOutFor, accountVars
<1>7. LinksFade => NoLinkFor(u)'
  BY <1>1, TakenAwayStaysGone
<1>8. ASSUME NEW s \in DOMAIN sessions, MintLink(s)
      PROVE  SignedOutFor(u)' /\ NoLinkFor(u)'
  <2>. DEFINE n == Len(links) + 1
  <2>1. sessions[s].user # u
    BY <1>8 DEF MintLink, Works
  <2>2. /\ DOMAIN links' = DOMAIN links \cup {n}
        /\ links'[n] = [user |-> sessions[s].user, claims |-> 0, refused |-> FALSE,
                        approvedBy |-> Nobody, consumed |-> FALSE, expired |-> FALSE]
    BY <1>3, <1>8, Minted
  <2>3. \A l \in DOMAIN links : LinkKept(l)
    BY <1>3, <1>8, Minted
  <2>. HIDE DEF n
  <2>4. NoLinkFor(u)'
    BY <1>1, <2>1, <2>2, <2>3 DEF NoLinkFor, LinkKept
  <2>. QED  BY <1>6, <1>8, <2>4 DEF MintLink
<1>9. ASSUME NEW s \in DOMAIN sessions, NEW l \in DOMAIN links, CloseLink(s, l)
      PROVE  SignedOutFor(u)' /\ NoLinkFor(u)'
  BY <1>3, <1>6, <1>7, <1>9, WithdrawnLinks DEF CloseLink
<1>10. ASSUME NEW s \in DOMAIN sessions, NEW l \in DOMAIN links, NEW approve \in BOOLEAN,
              AnswerLink(s, l, approve)
       PROVE  SignedOutFor(u)' /\ NoLinkFor(u)'
  BY <1>1, <1>10, <1>3, Table, <1>6 DEF AnswerLink, Waiting, Outstanding, NoLinkFor, LinksTyped, LinkRow
<1>11. ASSUME NEW l \in DOMAIN links, ExpireLink(l)
       PROVE  SignedOutFor(u)' /\ NoLinkFor(u)'
  BY <1>3, <1>6, <1>7, <1>11, ExpiredLink DEF ExpireLink
<1>12. ASSUME NEW l \in DOMAIN links, ClaimLink(l)
       PROVE  SignedOutFor(u)' /\ NoLinkFor(u)'
  BY <1>1, <1>12, <1>3, Table, <1>6 DEF ClaimLink, Claimable, NoLinkFor, LinksTyped, LinkRow
<1>13. ASSUME NEW l \in DOMAIN links, NEW claim \in 1..links[l].claims, CollectLink(l, claim)
       PROVE  SignedOutFor(u)' /\ NoLinkFor(u)'
  BY <1>1, <1>13, <1>3, CollectingKeepsLinks, <1>7, SomebodyElseComes DEF CollectLink, Collectable, NoLinkFor
<1>14. SignedOutFor(u)' /\ NoLinkFor(u)'
  BY <1>8, <1>9, <1>10, <1>11, <1>12, <1>13 DEF LinksNext
<1>. QED  BY <1>2, <1>4, <1>5, <1>14 DEF Gone, ActiveMember

LEMMA LaunchesLeaveGone ==
    ASSUME WaysInInv, NEW u \in deleted, Gone(u), LaunchesNext,
           UNCHANGED <<linkVars, recoveryVars, inviteVars, removalVars>>
    PROVE  Gone(u)'
<1>1. SignedOutFor(u) /\ NoLinkFor(u) /\ NoLaunchFor(u) /\ NoCodeFor(u) /\ NoAccessLinkFor(u)
  BY DEF Gone
<1>2. UNCHANGED <<links, codes, membership, accessLinks, request>>
  BY DEF linkVars, recoveryVars, inviteVars, removalVars
<1>3. Admits({"desktop"}) /\ AccountsTyped /\ LaunchesTyped /\ LaunchInv
  BY LaunchesNextKeepsLaunches DEF WaysInInv, WaysInTyped
<1>4. UNCHANGED accounts
  BY DEF LaunchesNext, Launch, CancelLaunch, Decide, RequestAuthorization, CollectAuthorization,
         CancelAuthorization, ExpireLaunch, ExpireAuthorization, accountVars
<1>5. NoLinkFor(u)' /\ NoCodeFor(u)' /\ NoAccessLinkFor(u)'
  BY <1>1, <1>2, SameTablesFade, TakenAwayStaysGone
<1>6. UNCHANGED accountVars => SignedOutFor(u)' /\ Aged
  BY <1>1 DEF SignedOutFor, accountVars, Aged
<1>7. LaunchesFade /\ Aged => NoLaunchFor(u)'
  BY <1>1, TakenAwayStaysGone
<1>8. /\ \A g \in DOMAIN launches : launches[g] \in LaunchRow
      /\ \A g \in DOMAIN launches : launches[g].by \in DOMAIN sessions
  BY <1>3, Table DEF LaunchesTyped, LaunchInv, LaunchesMatch
<1>9. \A s \in DOMAIN sessions : sessions'[s].user = sessions[s].user
  BY <1>3 DEF Admits, Aged
\* One launch g changes, to a row that lets nobody in, or to somebody else's.
<1>10. ASSUME NEW g \in DOMAIN launches, DOMAIN launches' = DOMAIN launches,
              launches'[g].by = launches[g].by,
              \/ launches'[g].consumed
              \/ launches'[g].status # "approved"
              \/ sessions[launches[g].by].user # u,
              \A k \in DOMAIN launches : k # g => launches'[k] = launches[k]
       PROVE  NoLaunchFor(u)'
  BY <1>1, <1>8, <1>9, <1>10 DEF NoLaunchFor, AuthorizationLive
<1>11. ASSUME NEW s \in DOMAIN sessions, Launch(s)
       PROVE  SignedOutFor(u)' /\ NoLaunchFor(u)'
  <2>. DEFINE n == Len(launches) + 1
  <2>1. /\ DOMAIN launches' = DOMAIN launches \cup {n}
        /\ launches'[n] = [by |-> s, cancelled |-> FALSE, expired |-> FALSE,
                           status |-> "none", dead |-> FALSE, consumed |-> FALSE]
    BY <1>3, <1>11, Launched
  <2>2. \A g \in DOMAIN launches : launches'[g] = launches[g]
    BY <1>3, <1>11, Launched
  <2>. HIDE DEF n
  <2>3. NoLaunchFor(u)'
    BY <1>1, <1>8, <1>9, <2>1, <2>2 DEF NoLaunchFor, AuthorizationLive
  <2>. QED  BY <1>6, <1>11, <2>3 DEF Launch
<1>12. ASSUME NEW s \in DOMAIN sessions, NEW g \in DOMAIN launches, CancelLaunch(s, g)
       PROVE  SignedOutFor(u)' /\ NoLaunchFor(u)'
  BY <1>3, <1>6, <1>7, <1>12, CancellingFades DEF CancelLaunch
<1>13. ASSUME NEW s \in DOMAIN sessions, NEW g \in DOMAIN launches, NEW approve \in BOOLEAN,
              Decide(s, g, approve)
       PROVE  SignedOutFor(u)' /\ NoLaunchFor(u)'
  <2>. DEFINE status == IF approve THEN "approved" ELSE "refused"
  <2>1. /\ DOMAIN launches' = DOMAIN launches
        /\ launches'[g] = [launches[g] EXCEPT !.status = status]
        /\ \A k \in DOMAIN launches : k # g => launches'[k] = launches[k]
    BY <1>3, <1>13, DecidingKeepsLaunches
  <2>2. sessions[launches[g].by].user # u
    BY <1>13 DEF Decide, Works
  <2>. HIDE DEF status
  <2>3. launches'[g].by = launches[g].by
    BY <1>8, <2>1 DEF LaunchRow
  <2>4. NoLaunchFor(u)'
    BY <1>10, <2>1, <2>2, <2>3
  <2>. QED  BY <1>6, <1>13, <2>4 DEF Decide
<1>14. ASSUME NEW g \in DOMAIN launches, RequestAuthorization(g)
       PROVE  SignedOutFor(u)' /\ NoLaunchFor(u)'
  BY <1>3, <1>14, RequestingKeepsLaunches, <1>8, <1>10, <1>6 DEF LaunchRow, RequestAuthorization
<1>15. ASSUME NEW g \in DOMAIN launches, CollectAuthorization(g)
       PROVE  SignedOutFor(u)' /\ NoLaunchFor(u)'
  BY <1>3, <1>15, CollectingKeepsLaunches, <1>8, <1>10, <1>1, SomebodyElseComes DEF LaunchRow, CollectAuthorization,
     Authorizes, Works
<1>16. ASSUME NEW g \in DOMAIN launches,
              CancelAuthorization(g) \/ ExpireAuthorization(g) \/ ExpireLaunch(g)
       PROVE  SignedOutFor(u)' /\ NoLaunchFor(u)'
  BY <1>3, <1>16, EndedLaunches, ExpiringFades, <1>6, <1>7 DEF CancelAuthorization, ExpireAuthorization,
     ExpireLaunch
<1>17. SignedOutFor(u)' /\ NoLaunchFor(u)'
  BY <1>11, <1>12, <1>13, <1>14, <1>15, <1>16 DEF LaunchesNext
<1>. QED  BY <1>2, <1>4, <1>5, <1>17 DEF Gone, ActiveMember

LEMMA RecoveryLeavesGone ==
    ASSUME WaysInInv, NEW u \in deleted, Gone(u), RecoveryNext \/ OwnerClaimsNext,
           UNCHANGED <<linkVars, launchVars, inviteVars, removalVars>>
    PROVE  Gone(u)'
<1>1. SignedOutFor(u) /\ NoLinkFor(u) /\ NoLaunchFor(u) /\ NoCodeFor(u) /\ NoAccessLinkFor(u)
  BY DEF Gone
<1>2. UNCHANGED <<links, launches, membership, accessLinks, request>>
  BY DEF linkVars, launchVars, inviteVars, removalVars
<1>3. AccountsTyped /\ RecoveryTyped /\ u # Owner
  BY DEF WaysInInv, WaysInTyped, InviteInv, OwnerStays
<1>4. Aged
  BY IssuingKeepsRecovery, RedeemingKeepsRecovery, OwnerClaimsKeepRecovery
     DEF WaysInInv, WaysInTyped, RecoveryNext, Admits
<1>5. NoLinkFor(u)' /\ NoLaunchFor(u)' /\ NoAccessLinkFor(u)'
  BY <1>1, <1>2, <1>4, SameTablesFade, TakenAwayStaysGone
<1>6. UNCHANGED accounts
  BY DEF RecoveryNext, OwnerClaimsNext, IssueRecoveryCode, Redeem, CreateOwnerLoginClaim,
         ConsumeOwnerClaim, ExpireOwnerClaim, accountVars
<1>7. ASSUME NEW s \in DOMAIN sessions, IssueRecoveryCode(s)
      PROVE  SignedOutFor(u)' /\ NoCodeFor(u)'
  <2>. DEFINE user == sessions[s].user
              rest == CodesWithout(CodesOf(user))
              new == [user |-> user, used |-> FALSE, replaced |-> FALSE]
  <2>1. user # u
    BY <1>7 DEF IssueRecoveryCode, Works
  <2>2. /\ rest \in Seq(CodeRow) /\ DOMAIN rest = DOMAIN codes
        /\ \A c \in DOMAIN codes :
             /\ rest[c].user = codes[c].user /\ rest[c].used = codes[c].used
             /\ codes[c].replaced => rest[c].replaced
    BY <1>3, CodesOut
  <2>3. sessions[s] \in SessionRow
    BY <1>3, Table DEF AccountsTyped
  <2>4. new \in CodeRow /\ new.user = user
    BY <2>3 DEF SessionRow, CodeRow
  <2>5. codes' = Append(rest, new)
    BY <1>7 DEF IssueRecoveryCode
  <2>. HIDE DEF rest, new
  <2>6. /\ DOMAIN codes' = DOMAIN rest \cup {Len(rest) + 1} /\ codes'[Len(rest) + 1] = new
        /\ \A c \in DOMAIN rest : codes'[c] = rest[c]
    BY <2>2, <2>4, <2>5, RowAdded
  <2>7. NoCodeFor(u)'
    BY <1>1, <2>1, <2>2, <2>4, <2>6 DEF NoCodeFor, CodeLive
  <2>8. DOMAIN sessions' = DOMAIN sessions
    BY <1>3, <1>7, SessionsOut DEF IssueRecoveryCode
  <2>. QED  BY <1>1, <1>4, <2>7, <2>8 DEF SignedOutFor, Aged
<1>8. ASSUME NEW c \in DOMAIN codes, Redeem(c)
      PROVE  SignedOutFor(u)' /\ NoCodeFor(u)'
  <2>. DEFINE grant == [kind |-> "recovery", of |-> c]
  <2>1. codes[c].user # u
    BY <1>1, <1>8 DEF Redeem, NoCodeFor
  <2>2. codes[c] \in CodeRow /\ c \in Nat
    BY <1>3, Table DEF RecoveryTyped
  <2>3. /\ DOMAIN codes' = DOMAIN codes /\ codes'[c].user = codes[c].user
        /\ \A k \in DOMAIN codes : k # c => codes'[k] = codes[k]
    BY <1>8, <2>2 DEF Redeem, CodeRow
  <2>4. NoCodeFor(u)'
    BY <1>1, <2>1, <2>3 DEF NoCodeFor, CodeLive
  <2>5. codes[c].user \in Users /\ grant \in OtherGrants
    BY <2>2 DEF CodeRow, OtherGrants
  <2>6. CreateSession(codes[c].user, grant, SessionsOf(codes[c].user))
    BY <1>8 DEF Redeem
  <2>. HIDE DEF grant
  <2>7. LetsIn(codes[c].user, grant)
    BY <1>3, <2>5, <2>6, Created
  <2>. QED  BY <1>1, <1>4, <2>1, <2>4, <2>7, SomebodyElseComes
<1>9. ASSUME UNCHANGED <<codes, accountVars>>
      PROVE  SignedOutFor(u)' /\ NoCodeFor(u)'
  BY <1>1, <1>9 DEF SignedOutFor, NoCodeFor, CodeLive, accountVars
<1>10. ASSUME NEW c \in DOMAIN ownerClaims, ConsumeOwnerClaim(c)
       PROVE  SignedOutFor(u)' /\ NoCodeFor(u)'
  <2>. DEFINE grant == [kind |-> "owner", of |-> c]
  <2>1. c \in Nat /\ Owner \in Users
    BY <1>3, Table DEF RecoveryTyped, Users
  <2>2. grant \in OtherGrants
    BY <2>1 DEF OtherGrants
  <2>3. CreateSession(Owner, grant, {}) /\ UNCHANGED codes
    BY <1>10 DEF ConsumeOwnerClaim
  <2>. HIDE DEF grant
  <2>4. LetsIn(Owner, grant)
    BY <1>3, <2>1, <2>2, <2>3, Created
  <2>. QED  BY <1>1, <1>3, <1>4, <2>3, <2>4, SomebodyElseComes DEF NoCodeFor, CodeLive
<1>11. SignedOutFor(u)' /\ NoCodeFor(u)'
  BY <1>7, <1>8, <1>9, <1>10
     DEF RecoveryNext, OwnerClaimsNext, CreateOwnerLoginClaim, ExpireOwnerClaim
<1>. QED  BY <1>2, <1>5, <1>6, <1>11 DEF Gone, ActiveMember

\* The owner lets no deleted account back into the server.
DeletedStayBanned == \A u \in deleted : membership[u].banned => membership'[u].banned

LEMMA PlacesLeaveGone ==
    ASSUME WaysInInv, NEW u \in deleted, Gone(u), DeletedStayBanned,
           NEW v \in Users, PlaceChanges(v)
    PROVE  ~ActiveMember(u)'
<1>1. ~ActiveMember(u) /\ u \in Users
  BY DEF Gone, WaysInInv, WaysInTyped, AccountsTyped
<1>2. membership \in [Users -> Place] /\ membership[u] \in Place
  BY <1>1 DEF WaysInInv, WaysInTyped, InvitesTyped
<1>3. ASSUME NEW canInvite \in BOOLEAN, SetPermission(v, canInvite)
      PROVE  ~ActiveMember(u)'
  BY <1>1, <1>2, <1>3 DEF SetPermission, Place, ActiveMember
<1>4. CASE Ban(v)
  BY <1>1, <1>2, <1>4 DEF Ban, Place, ActiveMember
<1>5. CASE Kick(v)
  BY <1>1, <1>2, <1>5 DEF Kick, Place, ActiveMember
<1>6. CASE Unban(v)
  BY <1>1, <1>2, <1>6 DEF DeletedStayBanned, Unban, Place, ActiveMember
<1>. QED  BY <1>3, <1>4, <1>5, <1>6 DEF PlaceChanges

LEMMA JoiningLeavesGone ==
    ASSUME WaysInInv, NEW u \in deleted, Gone(u), NEW v \in Users, v # u,
           NEW i \in DOMAIN invites, Activated(i, v)
    PROVE  ~ActiveMember(u)'
BY DEF Gone, WaysInInv, WaysInTyped, AccountsTyped, Activated, InvitesTyped, ActiveMember

LEMMA InvitesLeaveGone ==
    ASSUME WaysInInv, NEW u \in deleted, Gone(u), DeletedStayBanned,
           InvitesNext \/ AccessLinksNext,
           UNCHANGED <<linkVars, launchVars, recoveryVars, removalVars>>
    PROVE  Gone(u)'
<1>1. /\ SignedOutFor(u) /\ NoLinkFor(u) /\ NoLaunchFor(u) /\ NoCodeFor(u) /\ NoAccessLinkFor(u)
      /\ ~ActiveMember(u) /\ u \in accounts
  BY DEF Gone
<1>2. UNCHANGED <<links, launches, codes, request>>
  BY DEF linkVars, launchVars, recoveryVars, removalVars
<1>3. AccountsTyped /\ InvitesTyped /\ u # Owner
  BY DEF WaysInInv, WaysInTyped, InviteInv, OwnerStays
<1>4. Aged
  BY InvitesNextKeepsInvites, AccessLinksKeepInvites DEF WaysInInv, WaysInTyped, Admits
<1>5. NoLinkFor(u)' /\ NoLaunchFor(u)' /\ NoCodeFor(u)'
  BY <1>1, <1>2, <1>4, SameTablesFade, TakenAwayStaysGone
<1>6. AccessLinksFade => NoAccessLinkFor(u)'
  BY <1>1, TakenAwayStaysGone
<1>7. UNCHANGED accountVars => SignedOutFor(u)' /\ (u \in accounts)'
  BY <1>1 DEF SignedOutFor, accountVars
<1>8. UNCHANGED accessLinks => NoAccessLinkFor(u)'
  BY <1>6, SameTablesFade
<1>. DEFINE Stays == SignedOutFor(u)' /\ NoAccessLinkFor(u)' /\ ~ActiveMember(u)' /\ (u \in accounts)'
<1>9. ASSUME UNCHANGED <<membership, accessLinks, accountVars>>
      PROVE  Stays
  BY <1>1, <1>7, <1>8, <1>9 DEF ActiveMember
<1>10. ASSUME NEW i \in DOMAIN invites, NEW v \in Newcomers, AcceptAsNewcomer(v, i)
       PROVE  Stays
  <2>. DEFINE grant == [kind |-> "invite", of |-> i]
  <2>1. /\ v \notin accounts /\ Activated(i, v) /\ accounts' = accounts \cup {v}
        /\ CreateSession(v, grant, {}) /\ UNCHANGED accessLinks
    BY <1>10 DEF AcceptAsNewcomer, Activated
  <2>2. i \in Nat /\ v \in Users /\ v # u
    BY <1>1, <1>3, <2>1, Table, NewcomersAreUsers DEF InvitesTyped
  <2>3. grant \in OtherGrants
    BY <2>2 DEF OtherGrants
  <2>. HIDE DEF grant
  <2>4. LetsIn(v, grant)
    BY <1>3, <2>1, <2>2, <2>3, Created
  <2>5. SignedOutFor(u)'
    BY <1>1, <1>4, <2>2, <2>4, SomebodyElseComes
  <2>6. ~ActiveMember(u)'
    BY <2>1, <2>2, JoiningLeavesGone
  <2>. QED  BY <1>1, <1>8, <2>1, <2>5, <2>6
<1>11. ASSUME NEW v \in Users, NEW i \in DOMAIN invites, AcceptSignedIn(v, i)
       PROVE  Stays
  BY <1>3, <1>11, JoiningLeavesGone, <1>7, <1>8 DEF AcceptSignedIn, Acts, Works, Activated
<1>12. ASSUME NEW v \in Users, PlaceChanges(v)
       PROVE  Stays
  BY <1>12, PlacesLeaveGone, <1>7, <1>8 DEF PlaceChanges, SetPermission, Ban, Unban, Kick
<1>13. ASSUME NEW v \in Users, CreateAccessLink(v)
       PROVE  Stays
  <2>. DEFINE replaced == {c \in DOMAIN accessLinks : accessLinks[c].user = v /\ AccessLinkLive(c)}
              rest == AccessLinksWithout(replaced)
              new == [user |-> v, consumed |-> FALSE, revoked |-> FALSE, expired |-> FALSE]
  <2>1. /\ v # u /\ accessLinks' = Append(rest, new) /\ UNCHANGED <<membership, accountVars>>
    BY <1>1, <1>13 DEF CreateAccessLink
  <2>2. new \in AccessLinkRow /\ new.user = v
    BY DEF AccessLinkRow
  <2>3. /\ rest \in Seq(AccessLinkRow) /\ DOMAIN rest = DOMAIN accessLinks
        /\ \A c \in DOMAIN accessLinks :
             /\ rest[c].user = accessLinks[c].user
             /\ rest[c].consumed = accessLinks[c].consumed
             /\ rest[c].expired = accessLinks[c].expired
             /\ accessLinks[c].revoked => rest[c].revoked
    BY <1>3, AccessLinksOut
  <2>. HIDE DEF rest, new
  <2>4. /\ DOMAIN accessLinks' = DOMAIN rest \cup {Len(rest) + 1} /\ accessLinks'[Len(rest) + 1] = new
        /\ \A c \in DOMAIN rest : accessLinks'[c] = rest[c]
    BY <2>1, <2>2, <2>3, RowAdded
  <2>5. NoAccessLinkFor(u)'
    BY <1>1, <2>1, <2>2, <2>3, <2>4 DEF NoAccessLinkFor, AccessLinkLive
  <2>. QED  BY <1>1, <1>7, <2>1, <2>5 DEF ActiveMember
<1>14. ASSUME NEW c \in DOMAIN accessLinks, NEW row \in AccessLinkRow, accessLinks[c].user # u,
              row.user = accessLinks[c].user, row.consumed \/ row.expired,
              accessLinks' = [accessLinks EXCEPT ![c] = row], UNCHANGED <<membership, invites>>
       PROVE  NoAccessLinkFor(u)'
  BY <1>3, <1>14, AccessLinkEnded, <1>6
<1>15. ASSUME NEW c \in DOMAIN accessLinks, ExpireAccessLink(c) \/ ClaimAccess(c)
       PROVE  Stays
  <2>. DEFINE expired == [accessLinks[c] EXCEPT !.expired = TRUE]
              consumed == [accessLinks[c] EXCEPT !.consumed = TRUE]
              grant == [kind |-> "access", of |-> c]
              user == accessLinks[c].user
  <2>1. accessLinks[c].user # u /\ UNCHANGED <<membership, invites, accounts>>
    BY <1>1, <1>15 DEF ExpireAccessLink, ClaimAccess, NoAccessLinkFor, accountVars
  <2>2. accessLinks[c] \in AccessLinkRow /\ c \in Nat
    BY <1>3, Table DEF InvitesTyped
  <2>3. /\ expired \in AccessLinkRow /\ expired.user = accessLinks[c].user /\ expired.expired
        /\ consumed \in AccessLinkRow /\ consumed.user = accessLinks[c].user /\ consumed.consumed
        /\ user \in Users /\ grant \in OtherGrants
    BY <2>2 DEF AccessLinkRow, OtherGrants
  <2>4. \/ accessLinks' = [accessLinks EXCEPT ![c] = expired] /\ UNCHANGED accountVars
        \/ accessLinks' = [accessLinks EXCEPT ![c] = consumed] /\ CreateSession(user, grant, {})
    BY <1>15 DEF ExpireAccessLink, ClaimAccess
  <2>. HIDE DEF expired, consumed, grant
  <2>5. NoAccessLinkFor(u)'
    BY <1>14, <2>1, <2>3, <2>4
  <2>6. CASE CreateSession(user, grant, {})
    <3>. HIDE DEF user
    <3>1. LetsIn(user, grant)
      BY <1>3, <2>3, <2>6, Created
    <3>2. user # u
      BY <2>1 DEF user
    <3>3. SignedOutFor(u)'
      BY <1>1, <1>4, <3>1, <3>2, SomebodyElseComes
    <3>. QED  BY <1>1, <2>1, <2>5, <3>3 DEF ActiveMember
  <2>. QED  BY <1>1, <1>7, <2>1, <2>4, <2>5, <2>6 DEF ActiveMember
<1>16. Stays
  BY <1>9, <1>10, <1>11, <1>12, <1>13, <1>15 DEF InvitesNext, ListInvites, RevokeInvite, ExpireInvite, AgeInvite,
     CreateInvite, PlaceChanges, AccessLinksNext
<1>. QED  BY <1>2, <1>5, <1>16 DEF Gone

\* Signing out, the requests, and a ban take away, or leave as it is.
LEMMA OthersLeaveGone ==
    ASSUME WaysInInv, NEW u \in deleted, Gone(u), Aged, DOMAIN sessions' = DOMAIN sessions,
           UNCHANGED <<links, launches, codes, accessLinks, membership, accounts>>,
           request'[u] # "pending"
    PROVE  Gone(u)'
BY SameTablesFade, TakenAwayStaysGone DEF Gone, ActiveMember

LEMMA SigningOutAges ==
    ASSUME WaysInInv, NEW gone, sessions' = SessionsWithout(gone)
    PROVE  Aged /\ DOMAIN sessions' = DOMAIN sessions
BY SessionsOut DEF WaysInInv, WaysInTyped, Aged

LEMMA RequestsLeaveGone ==
    ASSUME WaysInInv, NEW u \in deleted, Gone(u), NEW v \in Users,
           RequestDeletion(v) \/ CancelRequest(v) \/ Reject(v) \/ CoolDown(v)
    PROVE  Gone(u)' /\ RemovalTyped' /\ UNCHANGED waysInVars
<1>1. UNCHANGED waysInVars
  BY DEF RequestDeletion, CancelRequest, Reject, Answered, CoolDown
<1>2. request \in [Users -> {"none", "pending", "cancelled", "rejected", "approved"}]
      /\ cooling \subseteq Users
  BY DEF WaysInInv, WaysInTyped, RemovalTyped
<1>3. RemovalTyped'
  BY <1>2 DEF RequestDeletion, CancelRequest, Reject, Answered, CoolDown, RemovalTyped
<1>4. request[u] # "pending" /\ u \in Users
  BY DEF Gone, WaysInInv, WaysInTyped, AccountsTyped
<1>5. request'[u] # "pending"
  BY <1>2, <1>4 DEF RequestDeletion, Deletable, CancelRequest, Reject, Answered, CoolDown
<1>6. /\ Aged /\ DOMAIN sessions' = DOMAIN sessions
      /\ UNCHANGED <<links, launches, codes, accessLinks, membership, accounts>>
  BY <1>1 DEF waysInVars, linkVars, launchVars, recoveryVars, inviteVars, accountVars, Aged
<1>. QED  BY <1>1, <1>3, <1>5, <1>6, OthersLeaveGone

\* deleteAccount leaves nothing of the account, and nothing of those deleted before.
LEMMA DeletingLeavesGone ==
    ASSUME WaysInInv, DeletedAreGone, NEW v \in Users, DeleteAccount(v), NEW u \in deleted \cup {v}
    PROVE  Gone(u)'
<1>1. /\ v \in accounts /\ sessions' = SessionsWithout(SessionsOf(v)) /\ UNCHANGED accounts
  BY DEF DeleteAccount, Deletable
<1>2. Aged /\ DOMAIN sessions' = DOMAIN sessions
  BY <1>1, SigningOutAges
<1>3. LinksTyped' /\ LinksFade /\ \A l \in DOMAIN links : links[l].user = v => links'[l].consumed
  BY WithdrawnLinks, LinksOut DEF DeleteAccount, WaysInInv, WaysInTyped
<1>4. LaunchesFade
  BY EndedLaunches DEF DeleteAccount, WaysInInv, WaysInTyped
<1>5. CodesFade /\ \A c \in DOMAIN codes : codes[c].user = v => codes'[c].replaced
  <2>. DEFINE gone == {c \in DOMAIN codes : codes[c].user = v}
  <2>1. codes' = CodesWithout(gone) /\ \A c \in DOMAIN codes : codes[c].user = v => c \in gone
    BY DEF DeleteAccount
  <2>. HIDE DEF gone
  <2>. QED  BY <2>1, CodesOut DEF CodesFade, WaysInInv, WaysInTyped
<1>6. AccessLinksFade /\ \A c \in DOMAIN accessLinks : accessLinks[c].user = v => ~AccessLinkLive(c)'
  <2>. DEFINE gone == {c \in DOMAIN accessLinks : accessLinks[c].user = v}
  <2>1. /\ accessLinks' = AccessLinksWithout(gone)
        /\ \A c \in DOMAIN accessLinks : accessLinks[c].user = v => c \in gone
    BY DEF DeleteAccount
  <2>. HIDE DEF gone
  <2>. QED  BY <2>1, AccessLinksOut DEF AccessLinksFade, AccessLinkLive, WaysInInv, WaysInTyped
<1>7. /\ membership \in [Users -> Place] /\ membership[v] \in Place
      /\ request \in [Users -> {"none", "pending", "cancelled", "rejected", "approved"}]
  BY DEF WaysInInv, WaysInTyped, InvitesTyped, RemovalTyped
<1>8. \A w \in Users : /\ membership'[w].row = membership[w].row
                       /\ membership'[w].banned = membership[w].banned
                       /\ membership[w].removed => membership'[w].removed
  BY <1>7 DEF DeleteAccount, Place
<1>9. membership'[v].row => membership'[v].removed
  BY <1>7 DEF DeleteAccount, Place
<1>10. \A w \in Users : request[w] # "pending" \/ w = v => request'[w] # "pending"
  BY <1>7 DEF DeleteAccount
<1>11. u \in Users /\ u \in accounts'
  BY <1>1 DEF DeletedAreGone, Gone, WaysInInv, WaysInTyped, AccountsTyped
<1>12. CASE u = v
  <2>1. SignedOutFor(u)'
    BY <1>1, <1>2, <1>12, SessionsOut DEF SignedOutFor, SessionsOf, WaysInInv, WaysInTyped
  <2>2. NoLinkFor(u)'
    BY <1>3, <1>12 DEF NoLinkFor, LinksFade, LinkKept
  <2>3. NoLaunchFor(u)'
    <3>. SUFFICES ASSUME NEW g \in DOMAIN launches', AuthorizationLive(g)',
                         launches'[g].status = "approved", sessions'[launches'[g].by].user = u
                  PROVE  FALSE
      BY DEF NoLaunchFor
    <3>. DEFINE gone == {k \in DOMAIN launches :
                           launches[k].status = "approved" /\ sessions[launches[k].by].user = v}
    <3>1. launches' = LaunchesEnded(gone)
      BY DEF DeleteAccount
    <3>2. /\ g \in DOMAIN launches /\ launches'[g].by = launches[g].by
          /\ launches'[g].status = launches[g].status /\ launches'[g].consumed = launches[g].consumed
      BY <1>4 DEF LaunchesFade, LaunchKept
    <3>3. launches[g].by \in DOMAIN sessions
      BY <3>2 DEF WaysInInv, LaunchInv, LaunchesMatch
    <3>4. g \in gone
      BY <1>2, <1>12, <3>2, <3>3 DEF Aged
    <3>5. g \in Authorizations(gone)
      BY <3>2, <3>4 DEF Authorizations, AuthorizationLive
    <3>. HIDE DEF gone
    <3>6. launches'[g].dead
      BY <3>1, <3>2, <3>5, LaunchesOut DEF WaysInInv, WaysInTyped
    <3>. QED  BY <3>6 DEF AuthorizationLive
  <2>4. NoCodeFor(u)'
    BY <1>5, <1>12 DEF NoCodeFor, CodeLive, CodesFade
  <2>5. NoAccessLinkFor(u)'
    BY <1>6, <1>12 DEF NoAccessLinkFor, AccessLinksFade
  <2>. QED  BY <1>9, <1>10, <1>11, <1>12, <2>1, <2>2, <2>3, <2>4, <2>5 DEF Gone, ActiveMember
<1>13. CASE u \in deleted
  <2>1. Gone(u)
    BY <1>13 DEF DeletedAreGone
  <2>2. SignedOutFor(u) /\ NoLinkFor(u) /\ NoLaunchFor(u) /\ NoCodeFor(u) /\ NoAccessLinkFor(u)
    BY <2>1 DEF Gone
  <2>3. ~ActiveMember(u)
    BY <2>1 DEF Gone
  <2>4. /\ SignedOutFor(u)' /\ NoLinkFor(u)' /\ NoLaunchFor(u)' /\ NoCodeFor(u)' /\ NoAccessLinkFor(u)'
    BY <2>2, TakenAwayStaysGone, <1>2, <1>3, <1>4, <1>5, <1>6
  <2>5. ~ActiveMember(u)'
    BY <1>8, <1>11, <2>3 DEF ActiveMember
  <2>. QED  BY <1>10, <1>11, <2>1, <2>4, <2>5 DEF Gone
<1>. QED  BY <1>12, <1>13

LEMMA NextKeepsInv ==
    ASSUME WaysInInv, [WaysInNext]_<<waysInVars, removalVars>>
    PROVE  WaysInInv'
<1>1. CASE UNCHANGED <<waysInVars, removalVars>>
  BY <1>1, RequestsKeepInv DEF removalVars, WaysInInv, WaysInTyped, RemovalTyped
<1>2. ASSUME NEW u \in Users, RequestDeletion(u) \/ CancelRequest(u) \/ Reject(u) \/ CoolDown(u)
      PROVE  WaysInInv'
  BY <1>2, RequestsKeepInv DEF RequestDeletion, CancelRequest, Reject, Answered, CoolDown, WaysInInv, WaysInTyped,
     RemovalTyped
<1>3. ASSUME NEW u \in Users, Approve(u) \/ DeleteAccount(u)
      PROVE  WaysInInv'
  BY <1>3, DeletingKeepsInv DEF Approve
<1>4. ASSUME NEW u \in Users, BanFromInstallation(u)
      PROVE  WaysInInv'
  BY <1>4, BanningKeepsInv
<1>. QED  BY <1>1, <1>2, <1>3, <1>4, LinksKeepInv, LaunchesKeepInv, RecoveryKeepsInv, InvitesKeepInv,
             SigningOutKeepsInv DEF WaysInNext, RequestsNext, RemovalNext

LEMMA NextLeavesGone ==
    ASSUME WaysInInv, DeletedAreGone, DeletedStayBanned, [WaysInNext]_<<waysInVars, removalVars>>
    PROVE  DeletedAreGone'
<1>1. ASSUME NEW v \in Users, DeleteAccount(v)
      PROVE  DeletedAreGone'
  BY <1>1, DeletingLeavesGone DEF DeletedAreGone, DeleteAccount
<1>. SUFFICES ASSUME UNCHANGED deleted, NEW u \in deleted PROVE Gone(u)'
  <2>1. UNCHANGED deleted \/ \E v \in Users : DeleteAccount(v)
    BY DEF WaysInNext, LinksNext, MintLink, CloseLink, AnswerLink, ClaimLink, ExpireLink, CollectLink,
           LaunchesNext, Launch, CancelLaunch, Decide, RequestAuthorization, CollectAuthorization,
           CancelAuthorization, ExpireLaunch, ExpireAuthorization, RecoveryNext, OwnerClaimsNext,
           IssueRecoveryCode, Redeem, CreateOwnerLoginClaim, ConsumeOwnerClaim, ExpireOwnerClaim,
           InvitesNext, ListInvites, RevokeInvite, ExpireInvite, AgeInvite, AcceptAsNewcomer,
           CreateInvite, AcceptSignedIn, SetPermission, Ban, Unban, Kick, AccessLinksNext,
           CreateAccessLink, ClaimAccess, ExpireAccessLink, SignOut, RequestsNext, RequestDeletion,
           CancelRequest, Reject, Answered, CoolDown, Approve, RemovalNext, BanFromInstallation,
           accountVars, waysInVars
  <2>. QED  BY <1>1, <2>1 DEF DeletedAreGone
<1>2. Gone(u) /\ request[u] # "pending"
  BY DEF DeletedAreGone, Gone
<1>3. CASE UNCHANGED <<waysInVars, removalVars>>
  BY <1>2, <1>3, OthersLeaveGone
     DEF Aged, waysInVars, removalVars, linkVars, launchVars, recoveryVars, inviteVars, accountVars
<1>4. ASSUME NEW s \in DOMAIN sessions, SignOut(s),
             UNCHANGED <<linkVars, launchVars, recoveryVars, inviteVars, removalVars>>
      PROVE  Gone(u)'
  BY <1>4, SigningOutAges, <1>2, OthersLeaveGone DEF SignOut, removalVars, linkVars, launchVars, recoveryVars,
     inviteVars
<1>5. ASSUME NEW v \in Users, BanFromInstallation(v)
      PROVE  Gone(u)'
  BY <1>5, SigningOutAges, <1>2, OthersLeaveGone DEF BanFromInstallation, removalVars, linkVars, launchVars,
     recoveryVars
<1>6. ASSUME NEW v \in Users, RequestDeletion(v) \/ CancelRequest(v) \/ Reject(v) \/ CoolDown(v)
      PROVE  Gone(u)'
  BY <1>2, <1>6, RequestsLeaveGone
<1>7. ASSUME NEW v \in Users, Approve(v) \/ DeleteAccount(v)
      PROVE  Gone(u)'
  BY <1>7, DeletingLeavesGone DEF Approve
<1>. QED  BY <1>2, <1>3, <1>4, <1>5, <1>6, <1>7, LinksLeaveGone, LaunchesLeaveGone,
             RecoveryLeavesGone, InvitesLeaveGone DEF WaysInNext, RequestsNext, RemovalNext

------------------------
\* However the routes are called, from however many Devices: a code, a launch, a
\* Recovery code or a claim lets one Device in, and the one it was meant for; an
\* account has one code and one access link that work; an invite holds to its
\* limit, to its issuer's place and is remembered; and no Session is created
\* through an approval given before a recovery (deviceLinks.ts,
\* desktopAuthorization.ts, recovery.ts, ownerClaims.ts, invites.ts).
THEOREM WaysInHold ==
    WaysInSpec => [](/\ LinkLetsOneIn /\ OneOutstandingCode /\ LaunchLetsOneIn /\ RecoveryLetsOneIn
                     /\ OneAccessLink /\ InvitesHold /\ RecoveryWithdrawsApprovals)
<1>. DEFINE Holds == /\ LinkLetsOneIn /\ OneOutstandingCode /\ LaunchLetsOneIn /\ RecoveryLetsOneIn
                     /\ OneAccessLink /\ InvitesHold /\ RecoveryWithdrawsApprovals
<1>1. WaysInInit => WaysInInv
  BY WaysInInitInv
<1>2. WaysInInv /\ [WaysInNext]_<<waysInVars, removalVars>> => WaysInInv'
  BY NextKeepsInv
<1>3. WaysInInv => Holds
  BY LinkInvSuffices, LaunchInvSuffices, RecoveryInvSuffices, InviteInvSuffices DEF WaysInInv
<1>. HIDE DEF Holds
<1>4. WaysInSpec => []Holds
  BY <1>1, <1>2, <1>3, PTL DEF WaysInSpec
<1>. QED  BY <1>4 DEF Holds

\* As long as no owner unbans a deleted account, whatever way in is used once, by
\* whom it was meant for, and deleting an account leaves it no way back.
THEOREM WaysInUsedOnce ==
    WaysInSpec /\ [][DeletedStayBanned]_<<waysInVars, removalVars>> => []WaysInAreUsedOnce
<1>1. WaysInInit => WaysInInv /\ DeletedAreGone
  BY WaysInInitInv DEF WaysInInit, AccountsInit, DeletedAreGone
<1>2. /\ WaysInInv /\ DeletedAreGone
      /\ [WaysInNext]_<<waysInVars, removalVars>>
      /\ [DeletedStayBanned]_<<waysInVars, removalVars>>
      => WaysInInv' /\ DeletedAreGone'
  BY NextKeepsInv, NextLeavesGone DEF DeletedStayBanned, waysInVars, inviteVars
<1>3. WaysInInv /\ DeletedAreGone => WaysInAreUsedOnce
  BY LinkInvSuffices, LaunchInvSuffices, RecoveryInvSuffices, InviteInvSuffices, GoneSuffices
     DEF WaysInInv, WaysInAreUsedOnce
<1>. QED  BY <1>1, <1>2, <1>3, PTL DEF WaysInSpec

------------------------
(* Links. *)

BansStay == banned \subseteq banned' /\ deleted \subseteq deleted'

\* What a step that only withdraws, ages or signs out does to a link.
LEMMA LinkStageFades ==
    ASSUME AccountsTyped, LinkInv, LinksFade, Aged, NobodyByLink, BansStay, NEW l
    PROVE  \/ LinkStage(l)' = LinkStage(l)
           \/ LinkStage(l) \in {"open", "approved"} /\ LinkStage(l)' = "void"
<1>1. CASE l \notin DOMAIN links
  BY <1>1 DEF LinksFade, LinkStage
<1>2. CASE l \in DOMAIN links
  <2>1. LinkKept(l) /\ l \in DOMAIN links'
    BY <1>2 DEF LinksFade
  <2>2. LetInBy(l)' = {} <=> LetInBy(l) = {}
    BY DEF LetInBy, Aged, NobodyByLink, FromLink
  <2>3. Approved(l)' <=> Approved(l)
    BY <2>1 DEF Approved, LinkKept
  <2>4. LinkVoid(l) => LinkVoid(l)'
    BY <1>2, <2>1, <2>3 DEF LinkInv, ApprovalsMatch, LinkVoid, LinkKept, Expired, Aged, BansStay
  <2>. QED  BY <1>2, <2>1, <2>2, <2>3, <2>4 DEF LinkStage
<1>. QED  BY <1>1, <1>2

LEMMA FadingLinksIsVoiding ==
    ASSUME AccountsTyped, LinkInv, LinksFade, Aged, NobodyByLink, BansStay
    PROVE  LinkGrant!Next
BY LinkStageFades DEF LinksFade, LinkKept, LinkGrant!VoidAndIssue, Claimed, LinkGrant!Next

------------------------
\* What the refinement reads of a link did not change.
SameLink(l) ==
    /\ (l \in DOMAIN links') <=> (l \in DOMAIN links)
    /\ l \in DOMAIN links => links'[l] = links[l]

LEMMA SameLinkSameStage ==
    ASSUME UNCHANGED accountVars, NEW l, SameLink(l)
    PROVE  /\ LinkStage(l)' = LinkStage(l)
           /\ l \in DOMAIN links => (Claimed(l)' <=> Claimed(l))
BY DEF LetInBy, accountVars, SameLink, LinkVoid, Approved, Expired, Claimed, LinkStage

\* A link still to be answered is an open grant.
LEMMA OutstandingIsOpen ==
    ASSUME LinkInv, NEW l \in DOMAIN links, ~links[l].consumed, ~Approved(l), ~Expired(l)
    PROVE  LinkStage(l) = "open"
BY DEF LinkInv, CollectionsMatch, LetInBy, FromLink, LinkStage, LinkVoid

LEMMA MintingIsIssuing ==
    ASSUME AccountsTyped, LinksTyped, LinkInv, NEW s \in DOMAIN sessions, MintLink(s)
    PROVE  LinkGrant!Next
<1>1. PICK n \in Nat :
        /\ DOMAIN links' = DOMAIN links \cup {n} /\ n \notin DOMAIN links
        /\ n <= MaxLinks
        /\ links'[n] = [user |-> sessions[s].user, claims |-> 0, refused |-> FALSE,
                        approvedBy |-> Nobody, consumed |-> FALSE, expired |-> FALSE]
        /\ \A l \in DOMAIN links : LinkKept(l)
  BY Table, Minted DEF LinksTyped
<1>2. UNCHANGED accountVars
  BY DEF MintLink
<1>3. LinkStage(n) = "none" /\ LinkStage(n)' = "open"
  BY <1>1, <1>2 DEF LetInBy, LinkInv, CollectionsMatch, FromLink, accountVars, LinkStage, LinkVoid, Expired,
     Approved
<1>4. ASSUME NEW l \in DOMAIN links
      PROVE  \/ LinkStage(l)' = LinkStage(l)
             \/ LinkStage(l) \in {"open", "approved"} /\ LinkStage(l)' = "void"
  BY <1>1, <1>2 DEF LetInBy, accountVars, Approved, LinkKept, LinkVoid, Expired, LinkStage
<1>5. ASSUME NEW l, l \notin DOMAIN links, l # n PROVE LinkStage(l)' = LinkStage(l)
  BY <1>1, <1>5 DEF LinkStage
<1>6. \A l \in 1..MaxLinks :
        \/ LinkStage(l)' = LinkStage(l)
        \/ LinkStage(l) = "none" /\ LinkStage(l)' = "open"
        \/ LinkStage(l) \in {"open", "approved"} /\ LinkStage(l)' = "void"
  BY <1>3, <1>4, <1>5
<1>7. \A l \in DOMAIN links : /\ l \in DOMAIN links' /\ links'[l].claims = links[l].claims
                              /\ links'[l].refused = links[l].refused
  BY <1>1 DEF LinkKept
<1>8. LinkGrant!VoidAndIssue
  BY <1>1, <1>6, <1>7 DEF LinkGrant!VoidAndIssue, Claimed
<1>. QED  BY <1>8 DEF LinkGrant!Next

LEMMA LinksAreGrants ==
    ASSUME LinksTyped
    PROVE  DOMAIN links \subseteq 1..MaxLinks
BY Table, LinksAssumption DEF LinksTyped

LEMMA AnsweringIsAnswering ==
    ASSUME AccountsTyped, LinksTyped, LinkInv, NEW s \in DOMAIN sessions,
           NEW l \in DOMAIN links, NEW approve \in BOOLEAN, AnswerLink(s, l, approve)
    PROVE  LinkGrant!Next
<1>1. /\ Works(s) /\ links[l].user = sessions[s].user /\ ~links[l].consumed /\ ~Approved(l)
      /\ Claimed(l) /\ ~links[l].refused /\ ~Expired(l) /\ UNCHANGED accountVars
      /\ links[l] \in LinkRow /\ s \in Nat
  BY Table DEF AnswerLink, Waiting, Outstanding, LinksTyped, AccountsTyped
<1>2. LinkStage(l) = "open" /\ LetInBy(l) = {} /\ l \in 1..MaxLinks
  BY <1>1, OutstandingIsOpen, LinksAreGrants DEF LinkInv, CollectionsMatch, LetInBy, FromLink
<1>3. ASSUME NEW row \in LinkRow, links' = [links EXCEPT ![l] = row]
      PROVE  /\ links'[l] = row /\ DOMAIN links' = DOMAIN links
             /\ \A k : k # l => SameLink(k)
  BY <1>3, LinkChanged DEF SameLink
<1>4. LetInBy(l)' = {}
  BY <1>1, <1>2 DEF LetInBy, accountVars
<1>5. CASE approve
  <2>1. links' = [links EXCEPT ![l] = [links[l] EXCEPT !.approvedBy = s]]
    BY <1>5 DEF AnswerLink
  <2>2. [links[l] EXCEPT !.approvedBy = s] \in LinkRow
    BY <1>1 DEF LinkRow
  <2>3. /\ links'[l] = [links[l] EXCEPT !.approvedBy = s] /\ DOMAIN links' = DOMAIN links
        /\ \A k : k # l => SameLink(k)
    BY <1>3, <2>1, <2>2
  <2>4. /\ links'[l].approvedBy = s /\ links'[l].user = links[l].user
        /\ links'[l].consumed = links[l].consumed /\ links'[l].expired = links[l].expired
        /\ links'[l].claims = links[l].claims /\ links'[l].refused = links[l].refused
    BY <1>1, <2>3 DEF LinkRow
  <2>5. LinkStage(l)' = "approved"
    BY <1>1, <1>4, <2>3, <2>4, LinksAssumption
       DEF LinkStage, LinkVoid, Approved, Expired, Works, accountVars
  <2>6. \A k : LinkStage(k)' = IF k = l THEN "approved" ELSE LinkStage(k)
    BY <1>1, <2>3, <2>5, SameLinkSameStage
  <2>7. LinkGrant!Approve(l)
    BY <1>1, <1>2, <2>3, <2>4, <2>6 DEF LinkGrant!Approve, Claimed, SameLink
  <2>. QED  BY <1>2, <2>7 DEF LinkGrant!Next
<1>6. CASE ~approve
  <2>1. links' = [links EXCEPT ![l] = [links[l] EXCEPT !.refused = TRUE]]
    BY <1>6 DEF AnswerLink
  <2>2. [links[l] EXCEPT !.refused = TRUE] \in LinkRow
    BY <1>1 DEF LinkRow
  <2>3. /\ links'[l] = [links[l] EXCEPT !.refused = TRUE] /\ DOMAIN links' = DOMAIN links
        /\ \A k : k # l => SameLink(k)
    BY <1>3, <2>1, <2>2
  <2>4. /\ links'[l].approvedBy = links[l].approvedBy /\ links'[l].user = links[l].user
        /\ links'[l].consumed = links[l].consumed /\ links'[l].expired = links[l].expired
        /\ links'[l].claims = links[l].claims /\ links'[l].refused
    BY <1>1, <2>3 DEF LinkRow
  <2>5. LinkStage(l)' = "open"
    BY <1>1, <1>4, <2>3, <2>4 DEF LinkStage, LinkVoid, Approved, Expired
  <2>6. \A k : LinkStage(k)' = LinkStage(k)
    BY <1>1, <1>2, <2>3, <2>5, SameLinkSameStage
  <2>7. LinkGrant!TurnAway(l)
    BY <1>1, <1>2, <2>3, <2>4, <2>6 DEF LinkGrant!TurnAway, Claimed, SameLink
  <2>. QED  BY <1>2, <2>7 DEF LinkGrant!Next
<1>. QED  BY <1>5, <1>6

LEMMA ClaimingIsPresenting ==
    ASSUME AccountsTyped, LinksTyped, LinkInv, NEW l \in DOMAIN links, ClaimLink(l)
    PROVE  LinkGrant!Next
<1>1. /\ ~links[l].consumed /\ ~Expired(l) /\ (~Claimed(l) \/ links[l].refused)
      /\ UNCHANGED accountVars /\ links[l] \in LinkRow
      /\ links' = [links EXCEPT ![l] = [links[l] EXCEPT !.claims = @ + 1, !.refused = FALSE]]
  BY Table DEF ClaimLink, Claimable, LinksTyped
<1>2. ~Approved(l)
  BY <1>1 DEF LinkInv, ApprovalsMatch
<1>3. LinkStage(l) = "open" /\ LetInBy(l) = {} /\ l \in 1..MaxLinks
  BY <1>1, <1>2, OutstandingIsOpen, LinksAreGrants DEF LinkInv, CollectionsMatch, LetInBy, FromLink
<1>. DEFINE row == [links[l] EXCEPT !.claims = @ + 1, !.refused = FALSE]
<1>0. links[l].claims \in Nat
  BY <1>1 DEF LinkRow
<1>4. /\ row \in LinkRow /\ row.claims = links[l].claims + 1 /\ ~row.refused
      /\ row.user = links[l].user /\ row.approvedBy = links[l].approvedBy
      /\ row.consumed = links[l].consumed /\ row.expired = links[l].expired
      /\ row.claims > 0
  <2>1. /\ links[l].claims + 1 \in Nat /\ links[l].claims + 1 > 0
        /\ DOMAIN links[l] = {"user", "claims", "refused", "approvedBy", "consumed", "expired"}
    BY <1>0, <1>1 DEF LinkRow
  <2>2. row \in LinkRow
    BY <1>1, <2>1 DEF LinkRow
  <2>. QED  BY <2>1, <2>2
<1>. HIDE DEF row
<1>5. links'[l] = row /\ DOMAIN links' = DOMAIN links /\ \A k : k # l => SameLink(k)
  <2>1. links' = [links EXCEPT ![l] = row]
    BY <1>1 DEF row
  <2>. QED  BY <1>4, <2>1, LinkChanged DEF SameLink
<1>6. LinkStage(l)' = "open"
  <2>1. LetInBy(l)' = {}
    BY <1>1, <1>3 DEF LetInBy, accountVars
  <2>. QED  BY <1>1, <1>2, <1>4, <1>5, <2>1 DEF LinkStage, LinkVoid, Approved, Expired
<1>7. \A k : LinkStage(k)' = LinkStage(k)
  BY <1>1, <1>3, <1>5, <1>6, SameLinkSameStage
<1>8. LinkGrant!Present(l)
  BY <1>1, <1>3, <1>4, <1>5, <1>7 DEF LinkGrant!Present, Claimed, SameLink
<1>. QED  BY <1>3, <1>8 DEF LinkGrant!Next

LEMMA CollectingIsLettingIn ==
    ASSUME AccountsTyped, LinksTyped, LinkInv, NEW l \in DOMAIN links,
           NEW claim \in 1..links[l].claims, CollectLink(l, claim)
    PROVE  LinkGrant!Next
<1>1. /\ ~links[l].consumed /\ ~Expired(l) /\ Approved(l) /\ links[l].user \notin banned
      /\ sessions[links[l].approvedBy].live /\ links' = LinksWithout({l})
      /\ UNCHANGED <<accounts, banned, deleted>>
  BY DEF CollectLink, Collectable
<1>2. PICK grant : /\ grant = [kind |-> "link", of |-> l, claim |-> claim]
                   /\ LetsIn(links[l].user, grant) /\ grant \in LinkGrants
  <2>1. LetsIn(links[l].user, [kind |-> "link", of |-> l, claim |-> claim])
    BY CollectingKeepsLinks
  <2>2. l \in Nat /\ links[l] \in LinkRow
    BY Table DEF LinksTyped
  <2>3. claim \in Nat
    BY <2>2 DEF LinkRow
  <2>. QED  BY <2>1, <2>2, <2>3 DEF LinkGrants
<1>3. /\ Aged /\ \A s \in DOMAIN sessions : sessions'[s].live <=> sessions[s].live
      /\ \A k \in DOMAIN links : LinkKept(k) /\ (k # l => (links'[k].consumed <=> links[k].consumed))
      /\ \A k \in DOMAIN links : links'[k].expired = links[k].expired
      /\ DOMAIN links' = DOMAIN links
  <2>1. /\ Aged /\ \A s \in DOMAIN sessions : sessions'[s].live <=> sessions[s].live
        /\ LinksFade
    BY CollectingKeepsLinks
  <2>2. \A k \in DOMAIN links : /\ links'[k].expired = links[k].expired
                                /\ links'[k].consumed <=> links[k].consumed \/ k \in {l}
    BY <1>1, LinksOut
  <2>. QED  BY <2>1, <2>2 DEF LinksFade
<1>4. LetInBy(l) = {} /\ LinkStage(l) = "approved"
  <2>1. LetInBy(l) = {}
    BY <1>1 DEF LinkInv, CollectionsMatch, LetInBy, FromLink
  <2>. QED  BY <1>1, <2>1 DEF LinkStage, LinkVoid
<1>5. LetInBy(l)' # {}
  BY <1>2, AccountsAssumption DEF LetInBy, LetsIn, Session
<1>6. LinkStage(l)' = "spent"
  BY <1>3, <1>5 DEF LinkStage
<1>7. ASSUME NEW k, k # l PROVE LinkStage(k)' = LinkStage(k)
  <2>1. LetInBy(k)' = {} <=> LetInBy(k) = {}
    BY <1>2, <1>3, <1>7 DEF LetInBy, LetsIn, Session, Aged
  <2>2. CASE k \in DOMAIN links
    BY <2>2, <1>3, <1>1, <1>7, <2>1 DEF LinkInv, ApprovalsMatch, Approved, LinkKept, LinkVoid, Expired, LinkStage
  <2>3. CASE k \notin DOMAIN links
    BY <1>3, <2>3 DEF LinkStage
  <2>. QED  BY <2>2, <2>3
<1>8. \A k \in DOMAIN links : links'[k].claims = links[k].claims /\ links'[k].refused = links[k].refused
  BY <1>3 DEF LinkKept
<1>9. l \in 1..MaxLinks
  BY LinksAreGrants
<1>10. LinkGrant!LetIn(l)
  BY <1>3, <1>4, <1>6, <1>7, <1>8, <1>9 DEF LinkGrant!LetIn, Claimed
<1>. QED  BY <1>9, <1>10 DEF LinkGrant!Next

LEMMA LinksImplementGrants ==
    ASSUME AccountsTyped, LinksTyped, LinkInv, LinksNext
    PROVE  LinkGrant!Next
<1>1. ASSUME LinksFade, UNCHANGED accountVars PROVE LinkGrant!Next
  BY <1>1, SameSessionsAge, FadingLinksIsVoiding DEF accountVars, BansStay
<1>2. ASSUME NEW s \in DOMAIN sessions, NEW l \in DOMAIN links, CloseLink(s, l)
      PROVE  LinkGrant!Next
  BY <1>1, <1>2, WithdrawnLinks DEF CloseLink
<1>3. ASSUME NEW l \in DOMAIN links, ExpireLink(l) PROVE LinkGrant!Next
  BY <1>1, <1>3, ExpiredLink DEF ExpireLink
<1>. QED  BY <1>2, <1>3, MintingIsIssuing, AnsweringIsAnswering, ClaimingIsPresenting,
             CollectingIsLettingIn DEF LinksNext

------------------------
(* Launches. *)

\* A Session that stopped working does not work again.
LEMMA StoppedSessions ==
    ASSUME Aged, BansStay, NEW s \in DOMAIN sessions
    PROVE  Works(s)' => Works(s)
BY DEF Aged, BansStay, Works

LEMMA LaunchStageFades ==
    ASSUME LaunchInv, LaunchesFade, Aged, BansStay, NEW g
    PROVE  \/ LaunchStage(g)' = LaunchStage(g)
           \/ LaunchStage(g) \in {"open", "approved"} /\ LaunchStage(g)' = "void"
BY StoppedSessions DEF LaunchesFade, LaunchStage, LaunchInv, LaunchesMatch, LaunchKept

LEMMA FadingLaunchesIsVoiding ==
    ASSUME LaunchInv, LaunchesFade, Aged, BansStay
    PROVE  LaunchGrant!Next
BY LaunchStageFades DEF LaunchesFade, LaunchKept, Presented, LaunchGrant!VoidAndIssue, LaunchGrant!Next

SameLaunch(g) ==
    /\ (g \in DOMAIN launches') <=> (g \in DOMAIN launches)
    /\ g \in DOMAIN launches => launches'[g] = launches[g]

LEMMA SameLaunchSameStage ==
    ASSUME LaunchInv, NEW g, SameLaunch(g), UNCHANGED <<banned, deleted>>,
           Aged, \A s \in DOMAIN sessions : sessions[s].live <=> sessions'[s].live
    PROVE  LaunchStage(g)' = LaunchStage(g) /\ Presented(g)' = Presented(g)
BY DEF SameLaunch, LaunchStage, Presented, LaunchInv, LaunchesMatch, Works, Aged

LEMMA LaunchesAreGrants ==
    ASSUME LaunchesTyped
    PROVE  DOMAIN launches \subseteq 1..MaxLaunches
BY Table, LaunchesAssumption DEF LaunchesTyped

LEMMA LaunchingIsIssuing ==
    ASSUME AccountsTyped, LaunchesTyped, LaunchInv, NEW s \in DOMAIN sessions, Launch(s)
    PROVE  LaunchGrant!Next
<1>1. PICK n \in Nat :
        /\ DOMAIN launches' = DOMAIN launches \cup {n} /\ n \notin DOMAIN launches
        /\ launches'[n] = [by |-> s, cancelled |-> FALSE, expired |-> FALSE,
                           status |-> "none", dead |-> FALSE, consumed |-> FALSE]
        /\ \A g \in DOMAIN launches : launches'[g] = launches[g]
  BY Table, Launched DEF LaunchesTyped
<1>2. UNCHANGED accountVars
  BY DEF Launch
<1>3. \A g : g # n => LaunchStage(g)' = LaunchStage(g) /\ Presented(g)' = Presented(g)
  BY <1>1, <1>2, SameLaunchSameStage, SameSessionsAge DEF SameLaunch, accountVars
<1>4. /\ LaunchStage(n) = "none" /\ LaunchStage(n)' = "open"
      /\ Presented(n) = FALSE /\ Presented(n)' = FALSE
  BY <1>1 DEF LaunchStage, Presented, NoAuthorization
<1>5. LaunchGrant!VoidAndIssue
  BY <1>3, <1>4 DEF LaunchGrant!VoidAndIssue
<1>. QED  BY <1>5 DEF LaunchGrant!Next

LEMMA RequestingIsPresenting ==
    ASSUME AccountsTyped, LaunchesTyped, LaunchInv, NEW g \in DOMAIN launches,
           RequestAuthorization(g)
    PROVE  LaunchGrant!Next
<1>1. /\ launches[g].status = "none" /\ ~launches[g].cancelled /\ ~launches[g].expired
      /\ ~launches[g].consumed /\ ~launches[g].dead /\ UNCHANGED accountVars
      /\ Works(launches[g].by)
  BY DEF RequestAuthorization, LaunchOpen, NoAuthorization, LaunchInv, LaunchesMatch, EndingsMatch
<1>2. /\ DOMAIN launches' = DOMAIN launches
      /\ launches'[g] = [launches[g] EXCEPT !.status = "pending"]
      /\ \A k \in DOMAIN launches : k # g => launches'[k] = launches[k]
  BY RequestingKeepsLaunches
<1>3. \A k : k # g => LaunchStage(k)' = LaunchStage(k) /\ Presented(k)' = Presented(k)
  BY <1>1, <1>2, SameLaunchSameStage, SameSessionsAge DEF SameLaunch, accountVars
<1>4. launches[g] \in LaunchRow
  BY Table DEF LaunchesTyped
<1>5. /\ launches'[g].status = "pending" /\ launches'[g].by = launches[g].by
      /\ launches'[g].cancelled = launches[g].cancelled /\ launches'[g].dead = launches[g].dead
      /\ launches'[g].expired = launches[g].expired
      /\ launches'[g].consumed = launches[g].consumed
  BY <1>2, <1>4 DEF LaunchRow
<1>6. /\ LaunchStage(g) = "open" /\ LaunchStage(g)' = "open"
      /\ Presented(g) = FALSE /\ Presented(g)' = TRUE
  BY <1>1, <1>2, <1>5 DEF LaunchStage, Presented, NoAuthorization
<1>7. g \in 1..MaxLaunches
  BY LaunchesAreGrants
<1>8. LaunchGrant!Present(g)
  <2>1. \A k \in 1..MaxLaunches : LaunchStage(k)' = LaunchStage(k)
    BY <1>3, <1>6
  <2>2. [k \in 1..MaxLaunches |-> IF Presented(k) THEN 1 ELSE 0]' =
          [[k \in 1..MaxLaunches |-> IF Presented(k) THEN 1 ELSE 0] EXCEPT ![g] = @ + 1]
    <3>1. \A k : (IF Presented(k) THEN 1 ELSE 0)' =
            IF k = g THEN 0 + 1 ELSE IF Presented(k) THEN 1 ELSE 0
      BY <1>3, <1>6
    <3>2. (IF Presented(g) THEN 1 ELSE 0) = 0
      BY <1>6
    <3>. QED  BY <1>7, <3>1, <3>2
  <2>3. [k \in 1..MaxLaunches |-> Presented(k)]' =
          [[k \in 1..MaxLaunches |-> Presented(k)] EXCEPT ![g] = TRUE]
    BY <1>3, <1>6, <1>7
  <2>. QED  BY <1>6, <1>7, <2>1, <2>2, <2>3 DEF LaunchGrant!Present
<1>. QED  BY <1>7, <1>8 DEF LaunchGrant!Next

LEMMA DecidingIsAnswering ==
    ASSUME AccountsTyped, LaunchesTyped, LaunchInv, NEW s \in DOMAIN sessions,
           NEW g \in DOMAIN launches, NEW approve \in BOOLEAN, Decide(s, g, approve)
    PROVE  LaunchGrant!Next
<1>1. /\ launches[g].status = "pending" /\ ~launches[g].cancelled /\ ~launches[g].expired
      /\ ~launches[g].consumed /\ ~launches[g].dead /\ UNCHANGED accountVars
      /\ Works(launches[g].by)
  BY DEF Decide, LaunchOpen, AuthorizationLive
<1>2. /\ DOMAIN launches' = DOMAIN launches
      /\ launches'[g] = [launches[g] EXCEPT !.status = IF approve THEN "approved" ELSE "refused"]
      /\ \A k \in DOMAIN launches : k # g => launches'[k] = launches[k]
  BY DecidingKeepsLaunches
<1>3. \A k : k # g => LaunchStage(k)' = LaunchStage(k) /\ Presented(k)' = Presented(k)
  BY <1>1, <1>2, SameLaunchSameStage, SameSessionsAge DEF SameLaunch, accountVars
<1>4. launches[g] \in LaunchRow
  BY Table DEF LaunchesTyped
<1>5. /\ launches'[g].status = (IF approve THEN "approved" ELSE "refused")
      /\ launches'[g].by = launches[g].by
      /\ launches'[g].cancelled = launches[g].cancelled /\ launches'[g].dead = launches[g].dead
      /\ launches'[g].expired = launches[g].expired
      /\ launches'[g].consumed = launches[g].consumed
  BY <1>2, <1>4 DEF LaunchRow
<1>6. Works(launches[g].by)' <=> Works(launches[g].by)
  BY <1>1, <1>5 DEF Works, accountVars
<1>7. /\ LaunchStage(g) = "open" /\ Presented(g) = TRUE /\ Presented(g)' = TRUE
      /\ LaunchStage(g)' = IF approve THEN "approved" ELSE "void"
  BY <1>1, <1>2, <1>5, <1>6 DEF LaunchStage, Presented, NoAuthorization
<1>8. g \in 1..MaxLaunches
  BY LaunchesAreGrants
<1>9. CASE approve
  BY <1>3, <1>7, <1>8, <1>9 DEF LaunchGrant!Approve, LaunchGrant!Next
<1>10. CASE ~approve
  BY <1>3, <1>7, <1>8, <1>10 DEF LaunchGrant!VoidAndIssue, LaunchGrant!Next
<1>. QED  BY <1>9, <1>10

LEMMA SigningInIsLettingIn ==
    ASSUME AccountsTyped, LaunchesTyped, LaunchInv, NEW g \in DOMAIN launches,
           CollectAuthorization(g)
    PROVE  LaunchGrant!Next
<1>1. /\ launches[g].status = "approved" /\ ~launches[g].consumed /\ ~launches[g].dead
      /\ ~launches[g].cancelled /\ Works(launches[g].by) /\ UNCHANGED <<accounts, banned, deleted>>
  BY DEF CollectAuthorization, Authorizes, AuthorizationLive, LaunchInv, EndingsMatch
<1>2. /\ DOMAIN launches' = DOMAIN launches
      /\ launches'[g] = [launches[g] EXCEPT !.consumed = TRUE]
      /\ \A k \in DOMAIN launches : k # g => launches'[k] = launches[k]
      /\ Aged /\ \A s \in DOMAIN sessions : sessions'[s].live <=> sessions[s].live
  BY CollectingKeepsLaunches
<1>3. \A k : k # g => LaunchStage(k)' = LaunchStage(k) /\ Presented(k)' = Presented(k)
  BY <1>1, <1>2, SameLaunchSameStage DEF SameLaunch
<1>4. launches[g] \in LaunchRow
  BY Table DEF LaunchesTyped
<1>5. launches'[g].consumed /\ launches'[g].status = launches[g].status
  BY <1>2, <1>4 DEF LaunchRow
<1>6. /\ LaunchStage(g) = "approved" /\ LaunchStage(g)' = "spent"
      /\ Presented(g)' = Presented(g)
  BY <1>1, <1>2, <1>5 DEF LaunchStage, Presented
<1>7. g \in 1..MaxLaunches
  BY LaunchesAreGrants
<1>8. LaunchGrant!LetIn(g)
  BY <1>3, <1>6, <1>7 DEF LaunchGrant!LetIn
<1>. QED  BY <1>7, <1>8 DEF LaunchGrant!Next

LEMMA LaunchesImplementGrants ==
    ASSUME AccountsTyped, LaunchesTyped, LaunchInv, LaunchesNext
    PROVE  LaunchGrant!Next
<1>1. ASSUME LaunchesFade, UNCHANGED accountVars PROVE LaunchGrant!Next
  BY <1>1, SameSessionsAge, FadingLaunchesIsVoiding DEF accountVars, BansStay
<1>2. ASSUME NEW s \in DOMAIN sessions, NEW g \in DOMAIN launches, CancelLaunch(s, g)
      PROVE  LaunchGrant!Next
  BY <1>1, <1>2, CancellingFades DEF CancelLaunch
<1>3. ASSUME NEW g \in DOMAIN launches, CancelAuthorization(g) \/ ExpireAuthorization(g)
      PROVE  LaunchGrant!Next
  BY <1>1, <1>3, EndedLaunches DEF CancelAuthorization, ExpireAuthorization
<1>4. ASSUME NEW g \in DOMAIN launches, ExpireLaunch(g) PROVE LaunchGrant!Next
  BY <1>1, <1>4, ExpiringFades DEF ExpireLaunch
<1>. QED  BY <1>2, <1>3, <1>4, LaunchingIsIssuing, RequestingIsPresenting, DecidingIsAnswering,
             SigningInIsLettingIn DEF LaunchesNext

------------------------
(* Together. *)

\* What every step that is none of the links' own does to them.
Elsewhere == LinksFade /\ LaunchesFade /\ Aged /\ BansStay

LEMMA ElsewhereIsVoiding ==
    ASSUME WaysInInv, Elsewhere
    PROVE  /\ NobodyByLink => LinkGrant!Next
           /\ LaunchGrant!Next
BY FadingLinksIsVoiding, FadingLaunchesIsVoiding DEF Elsewhere, WaysInInv, WaysInTyped

LEMMA OwnSteps ==
    ASSUME WaysInInv
    PROVE  /\ LinksNext /\ UNCHANGED launchVars => LinkGrant!Next /\ LaunchGrant!Next
           /\ LaunchesNext /\ UNCHANGED linkVars => LinkGrant!Next /\ LaunchGrant!Next
<1>0. AccountsTyped /\ LinksTyped /\ LinkInv /\ LaunchesTyped /\ LaunchInv
  BY DEF WaysInInv, WaysInTyped
<1>1. ASSUME LinksNext, UNCHANGED launchVars PROVE LinkGrant!Next /\ LaunchGrant!Next
  <2>1. LaunchesFade
    BY <1>1, SameTablesFade DEF launchVars
  <2>2. Aged
    BY <1>0, <1>1, LinksNextKeepsLinks DEF Admits
  <2>3. BansStay
    BY <1>1 DEF LinksNext, MintLink, CloseLink, AnswerLink, ClaimLink, CollectLink, ExpireLink,
                accountVars, BansStay
  <2>. QED  BY <1>0, <1>1, <2>1, <2>2, <2>3, FadingLaunchesIsVoiding, LinksImplementGrants
<1>2. ASSUME LaunchesNext, UNCHANGED linkVars PROVE LinkGrant!Next /\ LaunchGrant!Next
  <2>1. LinksFade
    BY <1>2, SameTablesFade DEF linkVars
  <2>2. Aged /\ NobodyByLink
    BY <1>0, <1>2, LaunchesNextKeepsLaunches DEF Admits, NobodyByLink, FromLink
  <2>3. BansStay
    BY <1>2 DEF LaunchesNext, Launch, CancelLaunch, Decide, RequestAuthorization,
                CollectAuthorization, CancelAuthorization, ExpireLaunch, ExpireAuthorization,
                accountVars, BansStay
  <2>. QED  BY <1>0, <1>2, <2>1, <2>2, <2>3, FadingLinksIsVoiding, LaunchesImplementGrants
<1>. QED  BY <1>1, <1>2

LEMMA OtherWaysIn ==
    ASSUME WaysInInv, UNCHANGED <<linkVars, launchVars>>,
           \/ RecoveryNext \/ OwnerClaimsNext
           \/ InvitesNext \/ AccessLinksNext
    PROVE  Elsewhere /\ NobodyByLink
<1>1. LinksFade /\ LaunchesFade
  BY SameTablesFade DEF linkVars, launchVars
<1>2. PICK kinds \in SUBSET {"recovery", "owner", "invite", "access"} : Admits(kinds)
  BY IssuingKeepsRecovery, RedeemingKeepsRecovery, OwnerClaimsKeepRecovery, InvitesNextKeepsInvites,
     AccessLinksKeepInvites DEF WaysInInv, WaysInTyped, RecoveryNext
<1>3. Aged /\ NobodyByLink
  BY <1>2 DEF Admits, NobodyByLink, FromLink
<1>4. BansStay
  <2>1. CASE RecoveryNext \/ OwnerClaimsNext
    BY <2>1 DEF RecoveryNext, OwnerClaimsNext, IssueRecoveryCode, Redeem, CreateOwnerLoginClaim,
                ConsumeOwnerClaim, ExpireOwnerClaim, accountVars, BansStay
  <2>2. CASE InvitesNext
    BY <2>2 DEF InvitesNext, ListInvites, RevokeInvite, ExpireInvite, AgeInvite,
                AcceptAsNewcomer, CreateInvite, AcceptSignedIn, SetPermission, Ban, Unban, Kick,
                accountVars, BansStay
  <2>3. CASE AccessLinksNext
    BY <2>3 DEF AccessLinksNext, CreateAccessLink, Ban, Kick, ClaimAccess, ExpireAccessLink,
                accountVars, BansStay
  <2>. QED  BY <2>1, <2>2, <2>3
<1>. QED  BY <1>1, <1>3, <1>4 DEF Elsewhere

LEMMA SigningOutIsElsewhere ==
    ASSUME WaysInInv, NEW gone, sessions' = SessionsWithout(gone), LinksFade, LaunchesFade, BansStay
    PROVE  Elsewhere /\ NobodyByLink
BY SigningOutAges DEF Elsewhere, NobodyByLink, FromLink

LEMMA RemovalsAreElsewhere ==
    ASSUME WaysInInv, RequestsNext \/ RemovalNext
    PROVE  Elsewhere /\ NobodyByLink
<1>1. ASSUME NEW u \in Users, RequestDeletion(u) \/ CancelRequest(u) \/ Reject(u) \/ CoolDown(u)
      PROVE  Elsewhere /\ NobodyByLink
  <2>1. UNCHANGED <<links, launches, accounts, banned, deleted, sessions>>
    BY <1>1 DEF RequestDeletion, CancelRequest, Reject, Answered, CoolDown, waysInVars, linkVars,
                launchVars, accountVars
  <2>. QED  BY <2>1, SameTablesFade, SameSessionsAge DEF Elsewhere, BansStay
<1>2. ASSUME NEW u \in Users, DeleteAccount(u) PROVE Elsewhere /\ NobodyByLink
  BY <1>2, WithdrawnLinks, EndedLaunches, SigningOutIsElsewhere DEF DeleteAccount, WaysInInv, WaysInTyped, BansStay
<1>3. ASSUME NEW u \in Users, BanFromInstallation(u) PROVE Elsewhere /\ NobodyByLink
  BY <1>3, SameTablesFade, SigningOutIsElsewhere DEF BanFromInstallation, linkVars, launchVars, BansStay
<1>. QED  BY <1>1, <1>2, <1>3 DEF RequestsNext, RemovalNext, Approve

LEMMA StepsAreGrantSteps ==
    ASSUME WaysInInv, [WaysInNext]_<<waysInVars, removalVars>>
    PROVE  LinkGrant!Next /\ LaunchGrant!Next
BY SameTablesFade, SigningOutIsElsewhere, SameSessionsAge, ElsewhereIsVoiding, OwnSteps, OtherWaysIn,
   RemovalsAreElsewhere DEF linkVars, launchVars, SignOut, BansStay, waysInVars, accountVars, Elsewhere, WaysInNext

LEMMA NoGrantsAtFirst ==
    ASSUME WaysInInit
    PROVE  LinkGrant!Init /\ LaunchGrant!Init
<1>1. DOMAIN links = {} /\ DOMAIN launches = {}
  BY DEF WaysInInit, LinksInit, LaunchesInit
<1>. QED  BY <1>1 DEF LinkGrant!Init, LaunchGrant!Init, LinkStage, LaunchStage, Presented

\* A link and a launch implement OneTimeGrant while all the ways in are used and
\* accounts are banned and deleted: what was refused, replaced, cancelled, expired
\* or lost its issuer's Session never lets in again (deviceLinks.ts, collect;
\* desktopAuthorization.ts, collect).
THEOREM GrantsHold == WaysInSpec => GrantsAreOneTime
<1>1. WaysInSpec => /\ LinkGrant!Init /\ [][LinkGrant!Next]_(LinkGrant!grantVars)
                    /\ LaunchGrant!Init /\ [][LaunchGrant!Next]_(LaunchGrant!grantVars)
  BY NoGrantsAtFirst, StepsAreGrantSteps, WaysInInitInv, NextKeepsInv, PTL DEF WaysInSpec
<1>. QED  BY <1>1 DEF GrantsAreOneTime, LinkGrant!Spec, LaunchGrant!Spec

------------------------
(* A text room and its reader's client.  A version tells the reactions of a *)
(* message; the latest of a message that is not missed has come, is under way *)
(* or is in the history under way, and so has the message itself. *)
Reactions == SUBSET [emoji : Emojis, by : People]
ChatStates == [reactions : Reactions, version : Nat]
MessageKinds == {"message", "wave", "memberJoined"}
ChatMessages ==
    [by : People, kind : MessageKinds, replyTo : Nat, live : BOOLEAN, reactions : Reactions, version : Nat]
TellingTypes == {"new", "updated", "reactions", "deleted"}
ChatEvents == [type : TellingTypes, id : Nat, kind : MessageKinds, state : ChatStates]

\* What was said of a message is what it was, or older.
Fits(m, id, s) ==
    /\ s \in ChatStates /\ id \in 1..Len(m)
    /\ s.version <= m[id].version
    /\ s.version = m[id].version /\ m[id].live => s = State(m[id])
Fitting(m, f) == f \in [DOMAIN f -> ChatStates] /\ \A id \in DOMAIN f : Fits(m, id, f[id])

EventIs(m, e) ==
    /\ e \in ChatEvents /\ Fits(m, e.id, e.state) /\ e.kind = m[e.id].kind
    /\ e.type = "new" => e.state.version = 0
    /\ e.type = "deleted" => ~m[e.id].live
NewAt(ev, i, id) == ev[i].type = "new" /\ ev[i].id = id
EventsAre(m, ev) ==
    /\ ev \in Seq(ChatEvents) /\ \A i \in 1..Len(ev) : EventIs(m, ev[i])
    /\ \A i, j \in 1..Len(ev) : i < j /\ ev[i].type = "new" /\ ev[j].type = "new" => ev[i].id < ev[j].id
AnswerIs(m, a) == a # NoEvent => EventIs(m, a) /\ (a.type = "new" => m[a.id].by = Reader)
HistoryIs(m, h) ==
    /\ h.through \in Int /\ h.missed \subseteq 1..Len(m)
    /\ h.through < 0 => h.missed = {}
    /\ h.through >= 0 => /\ h.through <= Len(m) /\ Fitting(m, h.messages)
                         /\ h.missed \subseteq 1..h.through
DeletedAre(m, vw, del) == del \subseteq 1..Len(m) /\ (\A id \in del : ~m[id].live) /\ DOMAIN vw \cap del = {}

\* The latest reactions.
Brings(m, e, id) == e.id = id /\ e.type \in {"new", "reactions"} /\ e.state.version = m[id].version
Heard(m, ev, sn, id) ==
    \/ \E i \in 1..Len(ev) : Brings(m, ev[i], id)
    \/ id \in DOMAIN sn /\ sn[id].version = m[id].version
UpToDate(m, f, id) == id \in DOMAIN f /\ f[id].version = m[id].version
ReactionsCome(m, ev, ms, h, vw, sn) ==
    /\ \A id \in 1..Len(m) : m[id].live /\ id \notin ms =>
          Heard(m, ev, sn, id) \/ (IF h.through >= id THEN UpToDate(m, h.messages, id) ELSE UpToDate(m, vw, id))
    /\ \A id \in 1..Len(m) : m[id].live /\ id \notin ms \cup h.missed => Heard(m, ev, sn, id) \/ UpToDate(m, vw, id)
    /\ \A id \in DOMAIN vw \cap DOMAIN sn : sn[id].version <= vw[id].version

\* The messages.
Arrived(m, ms, h, vw, id) == id \in DOMAIN vw \/ id \in ms \/ id \in h.missed \/ ~m[id].live
NewOnWay(ev, id) == \E i \in 1..Len(ev) : NewAt(ev, i, id)
OwnWave(m, w) == m[w].kind = "wave" /\ m[w].by = Reader
Overtook(m, id) == \E w \in 1..Len(m) : w > id /\ OwnWave(m, w)
MessagesCome(m, ev, ms, h, vw) ==
    \A id \in 1..Len(m) :
        /\ Arrived(m, ms, h, vw, id) \/ NewOnWay(ev, id)
        /\ m[id].live /\ id <= h.through => id \in DOMAIN h.messages \/ id \in ms
Reached(m, ev, ms, h, vw, n) ==
    /\ n \in Int /\ n <= Len(m)
    /\ \A id \in 1..n : Arrived(m, ms, h, vw, id) \/ (NewOnWay(ev, id) /\ Overtook(m, id))

ChatIs(m, ev, a, ms, h, vw, sn, del, wm, dl, rd) ==
    /\ m \in Seq(ChatMessages) /\ EventsAre(m, ev) /\ AnswerIs(m, a) /\ ms \subseteq 1..Len(m)
    /\ HistoryIs(m, h) /\ Fitting(m, vw) /\ Fitting(m, sn) /\ DeletedAre(m, vw, del)
    /\ ReactionsCome(m, ev, ms, h, vw, sn) /\ MessagesCome(m, ev, ms, h, vw)
    /\ Reached(m, ev, ms, h, vw, wm) /\ Reached(m, ev, ms, h, vw, dl) /\ Reached(m, ev, ms, h, vw, rd)

MembersAre(jn, cu, si) ==
    /\ jn \subseteq People /\ Reader \in jn
    /\ cu \in [People -> Nat] /\ si \in [People -> Nat] /\ \A u \in People : si[u] <= cu[u]

ChatInv ==
    /\ ChatIs(messages, events, answer, missed, history, view, snapshots, deletedIds, watermark, delivered, readHere)
    /\ MembersAre(joined, cursor, since)
    /\ route = "elsewhere" => history = NoHistory
    /\ online \in BOOLEAN /\ inside \in BOOLEAN

\* What the server keeps of a message after a request, and what it tells of it.
Turned(m, m2, id, type) ==
    /\ m2 \in Seq(ChatMessages) /\ id \in 1..Len(m2) /\ type \in TellingTypes
    /\ \A x \in 1..Len(m) : x # id => m2[x] = m[x]
    /\ type = "new" => Len(m2) = Len(m) + 1 /\ id = Len(m2) /\ m2[id].version = 0
    /\ type # "new" => /\ Len(m2) = Len(m) /\ m2[id].kind = m[id].kind /\ m2[id].by = m[id].by
                       /\ (m2[id].live => m[id].live) /\ m[id].version <= m2[id].version
                       /\ m2[id].live /\ m2[id].version = m[id].version => State(m2[id]) = State(m[id])
    /\ type \notin {"new", "reactions"} => m2[id].version = m[id].version
    /\ type = "deleted" => ~m2[id].live

LEMMA MessageIs ==
    ASSUME NEW m \in Seq(ChatMessages), NEW x \in 1..Len(m)
    PROVE  /\ m[x] \in ChatMessages /\ m[x].version \in Nat /\ m[x].by \in People /\ m[x].kind \in MessageKinds
           /\ State(m[x]) \in ChatStates /\ State(m[x]).version = m[x].version
<1>1. m[x] \in ChatMessages
  OBVIOUS
<1> QED
  BY <1>1 DEF ChatMessages, ChatStates, State

LEMMA TurnedOthers ==
    ASSUME NEW m \in Seq(ChatMessages), NEW m2, NEW id, NEW type, Turned(m, m2, id, type), NEW x \in 1..Len(m)
    PROVE  /\ x \in 1..Len(m2) /\ m2[x].kind = m[x].kind /\ m2[x].by = m[x].by /\ (m2[x].live => m[x].live)
           /\ m[x].version \in Nat /\ m2[x].version \in Nat /\ m[x].version <= m2[x].version
           /\ m2[x].live /\ m2[x].version = m[x].version => State(m2[x]) = State(m[x])
           /\ Len(m) \in Nat /\ Len(m2) \in Nat /\ Len(m) <= Len(m2)
BY MessageIs DEF Turned

LEMMA FitsLater ==
    ASSUME NEW m \in Seq(ChatMessages), NEW m2, NEW id, NEW type, Turned(m, m2, id, type),
           NEW x, NEW s, Fits(m, x, s)
    PROVE  Fits(m2, x, s)
BY TurnedOthers DEF Fits, ChatStates

LEMMA FittingLater ==
    ASSUME NEW m \in Seq(ChatMessages), NEW m2, NEW id, NEW type, Turned(m, m2, id, type), NEW f, Fitting(m, f)
    PROVE  Fitting(m2, f)
BY FitsLater DEF Fitting

LEMMA EventLater ==
    ASSUME NEW m \in Seq(ChatMessages), NEW m2, NEW id, NEW type, Turned(m, m2, id, type), NEW e, EventIs(m, e)
    PROVE  EventIs(m2, e)
<1>1. Fits(m, e.id, e.state) /\ e.id \in 1..Len(m)
  BY DEF EventIs, Fits
<1>2. Fits(m2, e.id, e.state)
  BY <1>1, FitsLater
<1>3. m2[e.id].kind = m[e.id].kind /\ (m2[e.id].live => m[e.id].live)
  BY <1>1, TurnedOthers
<1> QED
  BY <1>2, <1>3 DEF EventIs

LEMMA AnswerLater ==
    ASSUME NEW m \in Seq(ChatMessages), NEW m2, NEW id, NEW type, Turned(m, m2, id, type), NEW a, AnswerIs(m, a)
    PROVE  AnswerIs(m2, a)
<1> SUFFICES ASSUME a # NoEvent PROVE EventIs(m2, a) /\ (a.type = "new" => m2[a.id].by = Reader)
  BY DEF AnswerIs
<1>1. EventIs(m, a) /\ (a.type = "new" => m[a.id].by = Reader)
  BY DEF AnswerIs
<1>2. a.id \in 1..Len(m)
  BY <1>1 DEF EventIs, Fits
<1> QED
  BY <1>1, <1>2, EventLater, TurnedOthers

LEMMA HistoryLater ==
    ASSUME NEW m \in Seq(ChatMessages), NEW m2, NEW id, NEW type, Turned(m, m2, id, type), NEW h, HistoryIs(m, h)
    PROVE  HistoryIs(m2, h)
<1>1. Len(m) \in Nat /\ Len(m2) \in Nat /\ Len(m) <= Len(m2)
  BY DEF Turned
<1>2. h.missed \subseteq 1..Len(m2)
  BY <1>1 DEF HistoryIs
<1>3. ASSUME h.through >= 0
      PROVE  h.through <= Len(m2) /\ Fitting(m2, h.messages) /\ h.missed \subseteq 1..h.through
  BY <1>3, <1>1, TurnedOthers, FittingLater DEF HistoryIs
<1> QED
  BY <1>2, <1>3 DEF HistoryIs

LEMMA DeletedLater ==
    ASSUME NEW m \in Seq(ChatMessages), NEW m2, NEW id, NEW type, Turned(m, m2, id, type),
           NEW vw, NEW del, DeletedAre(m, vw, del)
    PROVE  DeletedAre(m2, vw, del)
BY TurnedOthers DEF Turned, DeletedAre

\* The socket hears of it, or it is missed.
Tells(m, m2, ev, ev2, ms, ms2, id, e) ==
    /\ e \in ChatEvents /\ e.id = id /\ e.state = State(m2[id]) /\ EventIs(m2, e)
    /\ e.type = "new" => id \notin 1..Len(m)
    /\ e.type # "new" => id \in 1..Len(m)
    /\ e.type \notin {"new", "reactions"} => m2[id].version = m[id].version
    /\ (ev2 = Append(ev, e) /\ ms2 = ms) \/ (ev2 = ev /\ ms2 = ms \cup {id})

LEMMA EventsLater ==
    ASSUME NEW m \in Seq(ChatMessages), NEW m2, NEW id, NEW e, Turned(m, m2, id, e.type),
           NEW ev, EventsAre(m, ev), NEW ev2, NEW ms, NEW ms2, Tells(m, m2, ev, ev2, ms, ms2, id, e)
    PROVE  EventsAre(m2, ev2)
<1>1. Len(m) \in Nat /\ Len(m2) \in Nat /\ Len(m) <= Len(m2)
  BY DEF Turned
<1>2. ev \in Seq(ChatEvents) /\ Len(ev) \in Nat /\ \A i \in 1..Len(ev) : EventIs(m2, ev[i]) /\ ev[i].id \in 1..Len(m)
  BY EventLater DEF EventsAre, EventIs, Fits
<1>3. CASE ev2 = ev
  BY <1>2, <1>3 DEF EventsAre
<1>4. CASE ev2 = Append(ev, e)
  <2>1. /\ ev2 \in Seq(ChatEvents) /\ Len(ev2) = Len(ev) + 1 /\ ev2[Len(ev) + 1] = e
        /\ \A i \in 1..Len(ev) : ev2[i] = ev[i]
    BY <1>2, <1>4, AppendProperties DEF Tells
  <2>2. \A i \in 1..Len(ev2) : i \in 1..Len(ev) \/ i = Len(ev) + 1
    BY <1>2, <2>1
  <2>3. \A i \in 1..Len(ev2) : EventIs(m2, ev2[i])
    BY <1>2, <2>1, <2>2 DEF Tells
  <2>4. ASSUME NEW i \in 1..Len(ev2), NEW j \in 1..Len(ev2), i < j, ev2[i].type = "new", ev2[j].type = "new"
        PROVE  ev2[i].id < ev2[j].id
    <3>1. i \in 1..Len(ev)
      BY <1>2, <2>1, <2>2, <2>4
    <3>2. CASE j \in 1..Len(ev)
      BY <2>1, <2>4, <3>1, <3>2 DEF EventsAre
    <3>3. CASE j = Len(ev) + 1
      BY <1>1, <2>1, <2>4, <3>3, <1>2, <3>1 DEF Tells, Turned
    <3> QED
      BY <2>2, <3>2, <3>3
  <2> QED
    BY <2>1, <2>3, <2>4 DEF EventsAre
<1> QED
  BY <1>3, <1>4 DEF Tells

\* What was on its way still is, and what is told is on its way or missed.
LEMMA TellsBrings ==
    ASSUME NEW m \in Seq(ChatMessages), NEW m2, NEW id, NEW e, Turned(m, m2, id, e.type),
           NEW ev, EventsAre(m, ev), NEW ev2, NEW ms, NEW ms2, Tells(m, m2, ev, ev2, ms, ms2, id, e)
    PROVE  /\ ms \subseteq ms2
           /\ \A x \in 1..Len(m) : NewOnWay(ev, x) => NewOnWay(ev2, x)
           /\ \A x \in 1..Len(m2) : x \notin ms2 => x \in 1..Len(m) \/ NewOnWay(ev2, x)
           /\ \A x \in 1..Len(m2) : \A sn : m2[x].live /\ x \notin ms2 =>
                 Heard(m2, ev2, sn, x) \/ (x \in 1..Len(m) /\ m2[x].version = m[x].version)
           /\ \A x \in 1..Len(m) : \A sn : m2[x].version = m[x].version /\ Heard(m, ev, sn, x) => Heard(m2, ev2, sn, x)
<1>1. Len(m) \in Nat /\ Len(m2) \in Nat /\ Len(m) <= Len(m2) /\ id \in 1..Len(m2)
  BY DEF Turned
<1>2. ev \in Seq(ChatEvents) /\ Len(ev) \in Nat /\ Len(ev2) \in Nat /\ Len(ev) <= Len(ev2)
      /\ \A i \in 1..Len(ev) : ev2[i] = ev[i]
  BY AppendProperties DEF EventsAre, Tells
<1>3. id \notin ms2 => \E i \in 1..Len(ev2) : ev2[i] = e
  BY <1>2, AppendProperties DEF Tells
<1>4. ms \subseteq ms2
  BY DEF Tells
<1>5. \A x \in 1..Len(m) : NewOnWay(ev, x) => NewOnWay(ev2, x)
  BY <1>2 DEF NewOnWay, NewAt
<1>6. ASSUME NEW x \in 1..Len(m2), x \notin ms2, x \notin 1..Len(m)
      PROVE  NewOnWay(ev2, x)
  BY <1>1, <1>6, <1>3 DEF Turned, Tells, NewOnWay, NewAt
<1>7. ASSUME NEW x \in 1..Len(m2), NEW sn, m2[x].live, x \notin ms2
      PROVE  Heard(m2, ev2, sn, x) \/ (x \in 1..Len(m) /\ m2[x].version = m[x].version)
  <2>1. CASE x # id
    BY <1>1, <1>7, <2>1 DEF Turned
  <2>2. CASE x = id /\ e.type \in {"new", "reactions"}
    BY <1>1, MessageIs, <2>2, <1>3, <1>7 DEF Turned, Tells, Heard, Brings
  <2>3. CASE x = id /\ e.type \notin {"new", "reactions"}
    BY <1>1, <2>3 DEF Turned, Tells
  <2> QED
    BY <2>1, <2>2, <2>3
<1>8. ASSUME NEW x \in 1..Len(m), NEW sn, m2[x].version = m[x].version, Heard(m, ev, sn, x)
      PROVE  Heard(m2, ev2, sn, x)
  BY <1>2, <1>8 DEF Heard, Brings
<1> QED
  BY <1>4, <1>5, <1>6, <1>7, <1>8

LEMMA ReactionsLater ==
    ASSUME NEW m \in Seq(ChatMessages), NEW m2, NEW id, NEW e, Turned(m, m2, id, e.type),
           NEW ev, EventsAre(m, ev), NEW ev2, NEW ms, NEW ms2, Tells(m, m2, ev, ev2, ms, ms2, id, e),
           NEW h, NEW vw, NEW sn, ReactionsCome(m, ev, ms, h, vw, sn)
    PROVE  ReactionsCome(m2, ev2, ms2, h, vw, sn)
<1>1. /\ ms \subseteq ms2
      /\ \A x \in 1..Len(m2) : m2[x].live /\ x \notin ms2 =>
            Heard(m2, ev2, sn, x) \/ (x \in 1..Len(m) /\ m2[x].version = m[x].version)
      /\ \A x \in 1..Len(m) : m2[x].version = m[x].version /\ Heard(m, ev, sn, x) => Heard(m2, ev2, sn, x)
  BY TellsBrings
<1>2. \A x \in 1..Len(m) : m2[x].live => m[x].live
  BY TurnedOthers
<1>3. ASSUME NEW x \in 1..Len(m2), m2[x].live, x \notin ms2
      PROVE  Heard(m2, ev2, sn, x)
             \/ (IF h.through >= x THEN UpToDate(m2, h.messages, x) ELSE UpToDate(m2, vw, x))
  BY <1>1, <1>2, <1>3 DEF ReactionsCome, UpToDate
<1>4. ASSUME NEW x \in 1..Len(m2), m2[x].live, x \notin ms2 \cup h.missed
      PROVE  Heard(m2, ev2, sn, x) \/ UpToDate(m2, vw, x)
  BY <1>1, <1>2, <1>4 DEF ReactionsCome, UpToDate
<1> QED
  BY <1>3, <1>4 DEF ReactionsCome

LEMMA MessagesLater ==
    ASSUME NEW m \in Seq(ChatMessages), NEW m2, NEW id, NEW e, Turned(m, m2, id, e.type),
           NEW ev, EventsAre(m, ev), NEW ev2, NEW ms, NEW ms2, Tells(m, m2, ev, ev2, ms, ms2, id, e),
           NEW h, HistoryIs(m, h), NEW vw, MessagesCome(m, ev, ms, h, vw)
    PROVE  /\ MessagesCome(m2, ev2, ms2, h, vw)
           /\ \A n : Reached(m, ev, ms, h, vw, n) => Reached(m2, ev2, ms2, h, vw, n)
<1>1. /\ ms \subseteq ms2
      /\ \A x \in 1..Len(m) : NewOnWay(ev, x) => NewOnWay(ev2, x)
      /\ \A x \in 1..Len(m2) : x \notin ms2 => x \in 1..Len(m) \/ NewOnWay(ev2, x)
  BY TellsBrings
<1>2. \A x \in 1..Len(m) : Arrived(m, ms, h, vw, x) => Arrived(m2, ms2, h, vw, x)
  BY <1>1, TurnedOthers DEF Arrived
<1>3. MessagesCome(m2, ev2, ms2, h, vw)
  <2>1. \A x \in 1..Len(m2) : x <= h.through => x \in 1..Len(m)
    BY DEF Turned, HistoryIs
  <2> QED
    BY <1>1, <1>2, <2>1, TurnedOthers DEF MessagesCome, Arrived
<1>4. ASSUME NEW n, Reached(m, ev, ms, h, vw, n) PROVE Reached(m2, ev2, ms2, h, vw, n)
  <2>1. Len(m) \in Nat /\ Len(m2) \in Nat /\ Len(m) <= Len(m2) /\ n \in Int /\ n <= Len(m)
    BY <1>4 DEF Turned, Reached
  <2>2. \A x \in 1..n : x \in 1..Len(m)
    BY <2>1
  <2>3. \A x \in 1..Len(m) : Overtook(m, x) => Overtook(m2, x)
    BY TurnedOthers DEF Overtook, OwnWave
  <2> QED
    BY <1>1, <1>2, <1>4, <2>1, <2>2, <2>3 DEF Reached
<1> QED
  BY <1>3, <1>4

\* A request changes a message and tells of it.
LEMMA ToldKeeps ==
    ASSUME ChatInv, NEW u, NEW to, NEW id, NEW type, Turned(messages, messages', id, type),
           Tell(u, to, type, id), type = "new" => messages'[id].by = u, UNCHANGED clientVars
    PROVE  /\ ChatIs(messages, events, answer, missed, history, view, snapshots, deletedIds, watermark, delivered,
                     readHere)'
           /\ UNCHANGED <<route, history, online, inside>>
<1>i. PICK m2, ev2, a2, ms2 : m2 = messages' /\ ev2 = events' /\ a2 = answer' /\ ms2 = missed'
  OBVIOUS
<1>u. /\ UNCHANGED <<route, asking, history, online, inside>>
      /\ UNCHANGED <<view, snapshots, deletedIds, watermark, delivered, readHere>>
  BY DEF clientVars, Tell
<1>t. /\ messages \in Seq(ChatMessages) /\ EventsAre(messages, events) /\ AnswerIs(messages, answer)
      /\ missed \subseteq 1..Len(messages)
      /\ HistoryIs(messages, history) /\ Fitting(messages, view) /\ Fitting(messages, snapshots)
      /\ DeletedAre(messages, view, deletedIds)
      /\ ReactionsCome(messages, events, missed, history, view, snapshots)
      /\ MessagesCome(messages, events, missed, history, view)
      /\ Reached(messages, events, missed, history, view, watermark)
      /\ Reached(messages, events, missed, history, view, delivered)
      /\ Reached(messages, events, missed, history, view, readHere)
  BY DEF ChatInv, ChatIs
<1>1. Turned(messages, m2, id, type) /\ m2 \in Seq(ChatMessages) /\ id \in 1..Len(m2) /\ Len(messages) \in Nat
      /\ Len(m2) \in Nat /\ Len(messages) <= Len(m2)
  BY <1>i, <1>t DEF Turned
<1>2. PICK e : e = [type |-> type, id |-> id, kind |-> m2[id].kind, state |-> State(m2[id])]
  OBVIOUS
<1>3. /\ (ev2 = Append(events, e) /\ ms2 = missed) \/ (ev2 = events /\ ms2 = missed \cup {id})
      /\ a2 = answer \/ (u = Reader /\ a2 = e) \/ a2 = NoEvent
  BY <1>i, <1>2 DEF Tell
<1>4. e \in ChatEvents /\ e.id = id /\ e.type = type /\ e.state = State(m2[id]) /\ e.kind = m2[id].kind
      /\ State(m2[id]).version = m2[id].version /\ State(m2[id]) \in ChatStates
  BY <1>1, MessageIs, <1>2 DEF Turned, ChatEvents
<1>5. EventIs(m2, e)
  BY <1>1, MessageIs, <1>4 DEF Fits, Turned, EventIs
<1>6. Tells(messages, m2, events, ev2, missed, ms2, id, e) /\ Turned(messages, m2, id, e.type)
  BY <1>1, <1>3, <1>4, <1>5 DEF Turned, Tells
<1>7. EventsAre(m2, ev2)
  BY <1>t, <1>6, EventsLater
<1>8. AnswerIs(m2, a2)
  BY <1>t, <1>1, AnswerLater, <1>i, <1>4, <1>5, <1>3 DEF AnswerIs
<1>9. ms2 \subseteq 1..Len(m2)
  <2>1. missed \subseteq 1..Len(m2)
    BY <1>t, <1>1
  <2>2. ms2 = missed \/ ms2 = missed \cup {id}
    BY <1>3
  <2> QED
    BY <1>1, <2>1, <2>2
<1>10. /\ HistoryIs(m2, history) /\ Fitting(m2, view) /\ Fitting(m2, snapshots) /\ DeletedAre(m2, view, deletedIds)
  BY <1>t, <1>1, HistoryLater, FittingLater, DeletedLater
<1>11. ReactionsCome(m2, ev2, ms2, history, view, snapshots)
  BY <1>t, <1>6, ReactionsLater
<1>12. /\ MessagesCome(m2, ev2, ms2, history, view)
       /\ \A n : Reached(messages, events, missed, history, view, n) => Reached(m2, ev2, ms2, history, view, n)
  BY <1>t, <1>6, MessagesLater
<1>13. ChatIs(m2, ev2, a2, ms2, history, view, snapshots, deletedIds, watermark, delivered, readHere)
  BY <1>t, <1>1, <1>7, <1>8, <1>9, <1>10, <1>11, <1>12 DEF ChatIs
<1> QED
  BY <1>i, <1>u, <1>13

------------------------
(* The requests of the room. *)
LEMMA ChatIsTyped ==
    ASSUME ChatInv
    PROVE  /\ messages \in Seq(ChatMessages) /\ EventsAre(messages, events) /\ AnswerIs(messages, answer)
           /\ missed \subseteq 1..Len(messages)
           /\ HistoryIs(messages, history) /\ Fitting(messages, view) /\ Fitting(messages, snapshots)
           /\ DeletedAre(messages, view, deletedIds)
           /\ ReactionsCome(messages, events, missed, history, view, snapshots)
           /\ MessagesCome(messages, events, missed, history, view)
           /\ Reached(messages, events, missed, history, view, watermark)
           /\ Reached(messages, events, missed, history, view, delivered)
           /\ Reached(messages, events, missed, history, view, readHere)
           /\ MembersAre(joined, cursor, since) /\ (route = "elsewhere" => history = NoHistory)
           /\ Len(messages) \in Nat /\ DOMAIN messages = 1..Len(messages)
           /\ online \in BOOLEAN /\ inside \in BOOLEAN
BY LenProperties DEF ChatInv, ChatIs

\* A message is written.
LEMMA WrittenKeeps ==
    ASSUME ChatInv, NEW message \in ChatMessages, message.version = 0, WriteMessage(message), UNCHANGED clientVars
    PROVE  /\ ChatIs(messages, events, answer, missed, history, view, snapshots, deletedIds, watermark, delivered,
                     readHere)'
           /\ UNCHANGED <<route, history, online, inside>>
<1>t. messages \in Seq(ChatMessages) /\ Len(messages) \in Nat
  BY ChatIsTyped
<1>1. /\ messages' = Append(messages, message)
      /\ Tell(message.by, "server", "new", Len(messages) + 1)
  BY DEF WriteMessage, Latest
<1>2. /\ messages' \in Seq(ChatMessages) /\ Len(messages') = Len(messages) + 1
      /\ messages'[Len(messages) + 1] = message
      /\ \A x \in 1..Len(messages) : messages'[x] = messages[x]
  BY <1>t, <1>1, AppendProperties
<1>3. PICK m2 : m2 = messages'
  OBVIOUS
<1>4. Turned(messages, m2, Len(messages) + 1, "new")
  BY <1>t, <1>2, <1>3 DEF Turned, TellingTypes
<1> QED
  BY <1>1, <1>2, <1>3, <1>4, ToldKeeps

\* A message is changed.
LEMMA ChangeKeeps ==
    ASSUME ChatInv, NEW u, NEW id \in LiveMessage, NEW message \in ChatMessages, NEW type \in TellingTypes,
           type # "new", Changed(u, id, message, type), UNCHANGED clientVars,
           message.kind = messages[id].kind, message.by = messages[id].by,
           messages[id].version <= message.version,
           message.live /\ message.version = messages[id].version => State(message) = State(messages[id]),
           type # "reactions" => message.version = messages[id].version,
           type = "deleted" => ~message.live
    PROVE  /\ ChatIs(messages, events, answer, missed, history, view, snapshots, deletedIds, watermark, delivered,
                     readHere)'
           /\ UNCHANGED <<route, history, joined, cursor, since, online, inside>>
<1>t. messages \in Seq(ChatMessages) /\ Len(messages) \in Nat /\ DOMAIN messages = 1..Len(messages)
  BY ChatIsTyped
<1>1. /\ messages' = [messages EXCEPT ![id] = message] /\ Tell(u, "room", type, id)
      /\ UNCHANGED <<joined, cursor, since>>
  BY DEF Changed
<1>2. id \in 1..Len(messages) /\ messages[id].live
  BY <1>t DEF LiveMessage
<1>3. /\ messages' \in Seq(ChatMessages) /\ Len(messages') = Len(messages) /\ messages'[id] = message
      /\ \A x \in 1..Len(messages) : x # id => messages'[x] = messages[x]
  BY <1>t, <1>1, <1>2, ExceptSeq
<1>4. PICK m2 : m2 = messages'
  OBVIOUS
<1>5. Turned(messages, m2, id, type)
  BY <1>t, <1>2, <1>3, <1>4 DEF Turned
<1> QED
  BY <1>1, <1>4, <1>5, ToldKeeps

\* clearEmoji, clearAll and the reactions of one member.
LEMMA ReactedKeeps ==
    ASSUME ChatInv, NEW u, NEW id \in LiveMessage, NEW reactions \in Reactions, Reacted(u, id, reactions),
           UNCHANGED clientVars
    PROVE  /\ ChatIs(messages, events, answer, missed, history, view, snapshots, deletedIds, watermark, delivered,
                     readHere)'
           /\ UNCHANGED <<route, history, joined, cursor, since, online, inside>>
<1>1. id \in 1..Len(messages) /\ messages[id] \in ChatMessages
  BY ChatIsTyped, MessageIs DEF LiveMessage
<1>2. PICK before : before = messages[id] /\ before \in ChatMessages
  BY <1>1
<1>3. PICK version \in Nat : version = IF reactions = before.reactions THEN before.version ELSE before.version + 1
  BY <1>2 DEF ChatMessages
<1>4. PICK message : message = [before EXCEPT !.reactions = reactions, !.version = version]
  OBVIOUS
<1>5. /\ message \in ChatMessages /\ message.kind = before.kind /\ message.by = before.by
      /\ message.reactions = reactions /\ message.version = version
  BY <1>2, <1>4 DEF ChatMessages
<1>6. Changed(u, id, message, "reactions")
  BY <1>2, <1>3, <1>4 DEF Reacted
<1>7. before.version \in Nat /\ before.version <= version
      /\ (version = before.version => reactions = before.reactions)
  BY <1>2, <1>3 DEF ChatMessages
<1>8. message.version = before.version => State(message) = State(before)
  BY <1>5, <1>7 DEF State
<1> QED
  BY <1>2, <1>5, <1>6, <1>7, <1>8, ChangeKeeps DEF TellingTypes

LEMMA MessageRequestKeeps ==
    ASSUME ChatInv, MessageRequest, UNCHANGED clientVars
    PROVE  ChatInv'
<1>t. /\ messages \in Seq(ChatMessages) /\ MembersAre(joined, cursor, since) /\ joined \subseteq People
      /\ Len(messages) \in Nat /\ DOMAIN messages = 1..Len(messages)
  BY ChatIsTyped DEF MembersAre
<1> DEFINE Kept ==
        /\ ChatIs(messages, events, answer, missed, history, view, snapshots, deletedIds, watermark, delivered,
                     readHere)'
        /\ UNCHANGED <<route, history, joined, cursor, since, online, inside>>
<1>k. Kept => ChatInv'
  BY DEF ChatInv
<1>w. \A u \in joined, kind \in MessageKinds, replyTo \in Nat :
          Message(u, kind, replyTo) \in ChatMessages /\ Message(u, kind, replyTo).version = 0
  BY <1>t DEF Message, ChatMessages, Reactions
<1>1. ASSUME NEW u \in People, NEW id \in DOMAIN messages \cup {0}, Post(u, id)
      PROVE  Kept
  BY <1>1, <1>t, <1>w, WrittenKeeps DEF Post, MessageKinds
<1>2. ASSUME NEW u \in People, NEW id \in DOMAIN messages, Wave(u, id)
      PROVE  Kept
  BY <1>2, <1>t, <1>w, WrittenKeeps DEF Wave, MessageKinds
<1>3. ASSUME NEW u \in People, NEW id \in DOMAIN messages, Edit(u, id) \/ SuppressEmbed(u, id) \/ Pin(u, id)
      PROVE  Kept
  BY <1>3, <1>t, MessageIs, ChangeKeeps DEF Edit, SuppressEmbed, Pin, TellingTypes
<1>4. ASSUME NEW u \in People, NEW id \in DOMAIN messages, Delete(u, id)
      PROVE  Kept
  <2>1. id \in LiveMessage /\ Changed(u, id, [messages[id] EXCEPT !.live = FALSE, !.reactions = {}], "deleted")
    BY <1>4 DEF Delete
  <2>2. messages[id] \in ChatMessages
    BY <1>t, MessageIs
  <2>3. PICK message : message = [messages[id] EXCEPT !.live = FALSE, !.reactions = {}]
    OBVIOUS
  <2>4. /\ message \in ChatMessages /\ ~message.live /\ message.kind = messages[id].kind
        /\ message.by = messages[id].by /\ message.version = messages[id].version /\ messages[id].version \in Nat
    BY <2>2, <2>3 DEF ChatMessages, Reactions
  <2>5. /\ Changed(u, id, message, "deleted") /\ id \in LiveMessage /\ "deleted" \in TellingTypes
        /\ messages[id].version <= message.version
        /\ (message.live /\ message.version = messages[id].version => State(message) = State(messages[id]))
    BY <2>1, <2>3, <2>4 DEF TellingTypes
  <2> QED
    BY <2>4, <2>5, ChangeKeeps
<1> QED
  BY <1>k, <1>1, <1>2, <1>3, <1>4 DEF MessageRequest

LEMMA ReactionRequestKeeps ==
    ASSUME ChatInv, ReactionRequest, UNCHANGED clientVars
    PROVE  ChatInv'
<1>t. /\ messages \in Seq(ChatMessages) /\ MembersAre(joined, cursor, since)
      /\ Len(messages) \in Nat /\ DOMAIN messages = 1..Len(messages)
  BY ChatIsTyped
<1>1. PICK u \in People, id \in DOMAIN messages :
         \/ \E emoji \in Emojis : React(u, id, emoji) \/ Unreact(u, id, emoji)
         \/ \E emojis \in {{e} : e \in Emojis} \cup {Emojis} : ClearReactions(u, id, emojis)
  BY DEF ReactionRequest
<1>2. messages[id].reactions \in Reactions
  BY <1>t, MessageIs DEF ChatMessages
<1>3. \E reactions \in Reactions : id \in LiveMessage /\ Reacted(u, id, reactions)
  <2>1. ASSUME NEW emoji \in Emojis, React(u, id, emoji) \/ Unreact(u, id, emoji)
        PROVE  \E reactions \in Reactions : id \in LiveMessage /\ Reacted(u, id, reactions)
    BY <1>2, <2>1 DEF Reactions, React, Unreact
  <2>2. ASSUME NEW emojis, ClearReactions(u, id, emojis)
        PROVE  \E reactions \in Reactions : id \in LiveMessage /\ Reacted(u, id, reactions)
    BY <1>2, <2>2 DEF Reactions, ClearReactions
  <2> QED
    BY <1>1, <2>1, <2>2
<1>4. /\ ChatIs(messages, events, answer, missed, history, view, snapshots, deletedIds, watermark, delivered,
                readHere)'
      /\ UNCHANGED <<route, history, joined, cursor, since, online, inside>>
  BY <1>3, ReactedKeeps
<1> QED
  BY <1>4 DEF ChatInv

LEMMA LargerIs ==
    ASSUME NEW a \in Int, NEW b \in Int
    PROVE  Larger(a, b) \in {a, b} /\ Larger(a, b) >= a /\ Larger(a, b) >= b
BY DEF Larger

LEMMA MembershipRequestKeeps ==
    ASSUME ChatInv, MembershipRequest, Reader \in joined', UNCHANGED clientVars
    PROVE  ChatInv'
<1>t. /\ messages \in Seq(ChatMessages) /\ joined \subseteq People /\ Reader \in joined
      /\ Len(messages) \in Nat
      /\ cursor \in [People -> Nat] /\ since \in [People -> Nat] /\ \A u \in People : since[u] <= cursor[u]
  BY ChatIsTyped DEF MembersAre
<1>1. ASSUME NEW u \in People, NEW through \in 0..Len(messages), PutReadState(u, through)
      PROVE  ChatInv'
  BY <1>1, <1>t, LargerIs DEF PutReadState, Untold, wireVars, MembersAre, ChatInv, clientVars
<1>2. ASSUME NEW u \in People, NEW notices \in BOOLEAN, JoinServer(u, notices)
      PROVE  ChatInv'
  <2>1. /\ joined' = joined \cup {u} /\ cursor' = [cursor EXCEPT ![u] = Len(messages)]
        /\ since' = [since EXCEPT ![u] = Len(messages)]
    BY <1>2 DEF JoinServer, Baseline, Latest
  <2>2. MembersAre(joined, cursor, since)'
    BY <1>t, <2>1 DEF MembersAre
  <2>3. CASE ~notices
    BY <1>2, <2>3, <2>2 DEF JoinServer, Untold, wireVars, ChatInv, clientVars
  <2>4. CASE notices
    BY <1>2, <2>4, WrittenKeeps, <2>2 DEF JoinServer, Message, ChatMessages, Reactions, MessageKinds, ChatInv
  <2> QED
    BY <2>3, <2>4
<1>3. ASSUME NEW u \in People, LeaveServer(u)
      PROVE  ChatInv'
  BY <1>3, <1>t DEF LeaveServer, Untold, wireVars, MembersAre, ChatInv, clientVars
<1> QED
  BY <1>1, <1>2, <1>3 DEF MembershipRequest, Latest

------------------------
(* The client takes in an event or an answer. *)
GrowsTo(m, f, f2) == \A x \in DOMAIN f : m[x].live => x \in DOMAIN f2 /\ f[x].version <= f2[x].version
Taken(m, vw, sn, vw2, sn2, del2) ==
    /\ Fitting(m, vw2) /\ Fitting(m, sn2) /\ DeletedAre(m, vw2, del2)
    /\ GrowsTo(m, vw, vw2) /\ GrowsTo(m, sn, sn2)
    /\ \A x \in DOMAIN vw2 \cap DOMAIN sn2 : sn2[x].version <= vw2[x].version

LEMMA FittingIs ==
    ASSUME NEW m \in Seq(ChatMessages), NEW f, Fitting(m, f), NEW x \in DOMAIN f
    PROVE  /\ x \in 1..Len(m) /\ f[x] \in ChatStates /\ f[x].version \in Nat
           /\ m[x].version \in Nat /\ f[x].version <= m[x].version
BY MessageIs DEF Fitting, Fits, ChatStates

LEMMA GrownUpToDate ==
    ASSUME NEW m \in Seq(ChatMessages), NEW f, NEW f2, Fitting(m, f), Fitting(m, f2), GrowsTo(m, f, f2),
           NEW x, m[x].live, UpToDate(m, f, x)
    PROVE  UpToDate(m, f2, x)
BY FittingIs DEF UpToDate, GrowsTo

LEMMA ViewMoves ==
    ASSUME NEW m \in Seq(ChatMessages), NEW ev, NEW ev2, NEW ms, NEW h, NEW vw, NEW sn, NEW vw2, NEW sn2, NEW del2,
           HistoryIs(m, h), Fitting(m, vw), Fitting(m, sn), Taken(m, vw, sn, vw2, sn2, del2),
           ReactionsCome(m, ev, ms, h, vw, sn), MessagesCome(m, ev, ms, h, vw),
           \A x \in 1..Len(m) : m[x].live /\ (\E i \in 1..Len(ev) : Brings(m, ev[i], x)) =>
               \/ \E i \in 1..Len(ev2) : Brings(m, ev2[i], x)
               \/ UpToDate(m, sn2, x)
               \/ m[x].version = 0 /\ x \in DOMAIN vw2,
           \A x \in 1..Len(m) : NewOnWay(ev, x) => NewOnWay(ev2, x) \/ x \in DOMAIN vw2 \/ ~m[x].live
    PROVE  /\ ReactionsCome(m, ev2, ms, h, vw2, sn2) /\ MessagesCome(m, ev2, ms, h, vw2)
           /\ \A n : Reached(m, ev, ms, h, vw, n) => Reached(m, ev2, ms, h, vw2, n)
<1>t. /\ Fitting(m, vw2) /\ Fitting(m, sn2) /\ GrowsTo(m, vw, vw2) /\ GrowsTo(m, sn, sn2) /\ Len(m) \in Nat
  BY LenProperties DEF Taken
<1>1. ASSUME NEW x \in 1..Len(m), m[x].live, UpToDate(m, vw, x) PROVE UpToDate(m, vw2, x)
  BY <1>t, <1>1, GrownUpToDate
<1>2. ASSUME NEW x \in 1..Len(m), m[x].live, UpToDate(m, sn, x) PROVE UpToDate(m, sn2, x)
  BY <1>t, <1>2, GrownUpToDate
<1>3. ASSUME NEW x \in 1..Len(m), m[x].live, m[x].version = 0, x \in DOMAIN vw2
      PROVE  UpToDate(m, vw2, x) /\ (h.through >= x /\ x \notin ms => UpToDate(m, h.messages, x))
  BY <1>t, <1>3, FittingIs DEF UpToDate, HistoryIs, MessagesCome
<1>4. ASSUME NEW x \in 1..Len(m), m[x].live, Heard(m, ev, sn, x)
      PROVE  \/ Heard(m, ev2, sn2, x)
             \/ UpToDate(m, vw2, x) /\ (h.through >= x /\ x \notin ms => UpToDate(m, h.messages, x))
  BY <1>2, <1>4, <1>3 DEF Heard, UpToDate
<1>5. ASSUME NEW x \in 1..Len(m), m[x].live, x \notin ms
      PROVE  Heard(m, ev2, sn2, x)
             \/ (IF h.through >= x THEN UpToDate(m, h.messages, x) ELSE UpToDate(m, vw2, x))
  BY <1>5, <1>1, <1>4 DEF ReactionsCome
<1>6. ASSUME NEW x \in 1..Len(m), m[x].live, x \notin ms \cup h.missed
      PROVE  Heard(m, ev2, sn2, x) \/ UpToDate(m, vw2, x)
  BY <1>6, <1>1, <1>4 DEF ReactionsCome
<1>7. ReactionsCome(m, ev2, ms, h, vw2, sn2)
  BY <1>5, <1>6 DEF ReactionsCome, Taken
<1>8. ASSUME NEW x \in 1..Len(m), Arrived(m, ms, h, vw, x) PROVE Arrived(m, ms, h, vw2, x)
  BY <1>t, <1>8 DEF Arrived, GrowsTo
<1>9. ASSUME NEW x \in 1..Len(m), NewOnWay(ev, x) PROVE Arrived(m, ms, h, vw2, x) \/ NewOnWay(ev2, x)
  BY <1>9 DEF Arrived
<1>10. MessagesCome(m, ev2, ms, h, vw2)
  BY <1>8, <1>9 DEF MessagesCome
<1>11. ASSUME NEW n, Reached(m, ev, ms, h, vw, n) PROVE Reached(m, ev2, ms, h, vw2, n)
  BY <1>11, <1>t, <1>8, <1>9 DEF Reached
<1> QED
  BY <1>7, <1>10, <1>11

LEMMA MergedIs ==
    ASSUME NEW a \in ChatStates, NEW b \in ChatStates
    PROVE  /\ Merged(a, b) \in {a, b} /\ Merged(a, b).version >= a.version /\ Merged(a, b).version >= b.version
           /\ Merged(a, b) \in ChatStates
BY DEF ChatStates, Merged

LEMMA MergedFits ==
    ASSUME NEW m, NEW x, NEW a, NEW b, Fits(m, x, a), Fits(m, x, b)
    PROVE  Fits(m, x, Merged(a, b))
BY MergedIs DEF Fits

LEMMA WithReactionsIs ==
    ASSUME NEW m \in Seq(ChatMessages), Fitting(m, snapshots), NEW id, NEW state, Fits(m, id, state)
    PROVE  /\ Fits(m, id, WithReactions(id, state)) /\ WithReactions(id, state).version >= state.version
           /\ id \in DOMAIN snapshots => WithReactions(id, state).version >= snapshots[id].version
BY MergedFits, MergedIs DEF Fits, ChatStates, Fitting, WithReactions

\* The view, with the state of one message merged in.
Upserted(m, vw, id, s, vw2) ==
    /\ Fitting(m, vw2) /\ DOMAIN vw2 = DOMAIN vw \cup {id} /\ vw2[id].version >= s.version
    /\ \A x \in DOMAIN vw : vw[x].version <= vw2[x].version

LEMMA UpsertIs ==
    ASSUME NEW m \in Seq(ChatMessages), NEW vw, Fitting(m, vw), NEW id, NEW s, Fits(m, id, s), NEW vw2,
           vw2 = Upsert(vw, id, s)
    PROVE  Upserted(m, vw, id, s, vw2)
<1>1. /\ DOMAIN vw2 = DOMAIN vw \cup {id}
      /\ vw2 = [x \in DOMAIN vw \cup {id} |->
                   IF x # id THEN vw[x] ELSE IF id \in DOMAIN vw THEN Merged(vw[id], s) ELSE s]
  BY DEF Upsert
<1>2. s \in ChatStates /\ s.version \in Nat
  BY DEF Fits, ChatStates
<1>3. ASSUME NEW x \in DOMAIN vw2
      PROVE  /\ Fits(m, x, vw2[x]) /\ vw2[x] \in ChatStates
             /\ (x = id => vw2[x].version >= s.version)
             /\ (x \in DOMAIN vw => vw[x].version <= vw2[x].version)
  BY <1>1, <1>3, FittingIs, MergedFits, <1>2, MergedIs DEF Fitting
<1>4. vw2 \in [DOMAIN vw2 -> ChatStates]
  BY <1>1, <1>3
<1> QED
  BY <1>1, <1>3, <1>4 DEF Fitting, Upserted

LEMMA MessageIsApplied ==
    ASSUME ChatInv, NEW id, NEW state, NEW unread \in BOOLEAN, NEW onlyExisting \in BOOLEAN,
           Fits(messages, id, state), ApplyMessage(id, state, unread, onlyExisting)
    PROVE  \E vw2 :
             /\ vw2 = view' /\ Taken(messages, view, snapshots, vw2, snapshots, deletedIds)
             /\ messages[id].live /\ (unread \/ ~onlyExisting) /\ ~(unread /\ onlyExisting) => id \in DOMAIN vw2
             /\ UNCHANGED <<snapshots, deletedIds>>
             /\ ~unread => UNCHANGED <<delivered, watermark>>
             /\ unread /\ id \in deletedIds => UNCHANGED <<delivered, watermark>>
             /\ unread => /\ delivered' \in {delivered, Larger(delivered, id)}
                          /\ watermark' \in {watermark, Larger(watermark, id)}
<1>t. /\ messages \in Seq(ChatMessages) /\ Fitting(messages, view) /\ Fitting(messages, snapshots)
      /\ DeletedAre(messages, view, deletedIds) /\ \A x \in DOMAIN view \cap DOMAIN snapshots :
             snapshots[x].version <= view[x].version
  BY ChatIsTyped DEF ReactionsCome
<1>1. PICK vw2 : vw2 = view'
  OBVIOUS
<1>2. id \in 1..Len(messages)
  BY DEF Fits
<1>3. messages[id].live => id \notin deletedIds
  BY <1>t DEF DeletedAre
<1>4. PICK s : s = WithReactions(id, state)
  OBVIOUS
<1>5. Fits(messages, id, s) /\ s.version >= state.version /\ (id \in DOMAIN snapshots => s.version >= snapshots[id].version)
      /\ s.version \in Nat
  BY <1>t, <1>4, WithReactionsIs DEF Fits, ChatStates
<1>6. /\ UNCHANGED <<snapshots, deletedIds>> /\ (~unread => UNCHANGED <<delivered, watermark>>)
      /\ (unread /\ id \in deletedIds => UNCHANGED <<delivered, watermark>>)
      /\ (unread => /\ delivered' \in {delivered, Larger(delivered, id)}
                    /\ watermark' \in {watermark, Larger(watermark, id)})
  BY DEF ApplyMessage
<1>7. /\ Taken(messages, view, snapshots, vw2, snapshots, deletedIds)
      /\ messages[id].live /\ (unread \/ ~onlyExisting) /\ ~(unread /\ onlyExisting) => id \in DOMAIN vw2
  <2>0. \A x \in DOMAIN view : view[x].version \in Nat
    BY <1>t, FittingIs
  <2>s. \A x \in DOMAIN snapshots : snapshots[x].version \in Nat
    BY <1>t, FittingIs
  <2>1. CASE id \in deletedIds \/ (onlyExisting /\ id \notin Shown)
    BY <1>1, <2>1, <1>t, <1>3, <2>0, <2>s DEF ApplyMessage, Taken, GrowsTo
  <2>2. CASE ~(id \in deletedIds \/ (onlyExisting /\ id \notin Shown))
    <3>1. vw2 = Upsert(view, id, s)
      BY <1>1, <1>4, <2>2 DEF ApplyMessage
    <3>2. /\ Fitting(messages, vw2) /\ DOMAIN vw2 = DOMAIN view \cup {id} /\ vw2[id].version >= s.version
          /\ \A x \in DOMAIN view : view[x].version <= vw2[x].version
      <4>1. messages \in Seq(ChatMessages) /\ Fitting(messages, view) /\ Fits(messages, id, s)
        BY <1>t, <1>5
      <4>2. Upserted(messages, view, id, s, vw2)
        BY <3>1, <4>1, UpsertIs
      <4> QED
        BY <4>2 DEF Upserted
    <3>3. DeletedAre(messages, vw2, deletedIds)
      BY <1>t, <2>2, <3>2 DEF DeletedAre
    <3>4. \A x \in DOMAIN vw2 : vw2[x].version \in Nat
      BY <1>t, <3>2, FittingIs
    <3>5. ASSUME NEW x \in DOMAIN vw2 \cap DOMAIN snapshots PROVE snapshots[x].version <= vw2[x].version
      <4>1. snapshots[x].version \in Nat /\ vw2[x].version \in Nat
        BY <2>s, <3>4
      <4>2. CASE x = id
        BY <1>5, <3>2, <4>1, <4>2
      <4>3. CASE x \in DOMAIN view
        BY <1>t, <2>0, <3>2, <4>1, <4>3
      <4> QED
        BY <3>2, <4>2, <4>3
    <3>6. GrowsTo(messages, view, vw2) /\ GrowsTo(messages, snapshots, snapshots)
      BY <2>s, <3>2 DEF GrowsTo
    <3> QED
      BY <1>t, <3>2, <3>3, <3>5, <3>6 DEF Taken
  <2> QED
    BY <2>1, <2>2
<1> QED
  BY <1>1, <1>6, <1>7

LEMMA ReactionsAreApplied ==
    ASSUME ChatInv, NEW id, NEW state, Fits(messages, id, state), ApplyReactions(id, state)
    PROVE  \E vw2, sn2 :
             /\ vw2 = view' /\ sn2 = snapshots' /\ Taken(messages, view, snapshots, vw2, sn2, deletedIds)
             /\ messages[id].live => id \in DOMAIN sn2 /\ state.version <= sn2[id].version
             /\ UNCHANGED <<deletedIds, delivered, watermark>>
<1>t. /\ messages \in Seq(ChatMessages) /\ Fitting(messages, view) /\ Fitting(messages, snapshots)
      /\ DeletedAre(messages, view, deletedIds) /\ \A x \in DOMAIN view \cap DOMAIN snapshots :
             snapshots[x].version <= view[x].version
  BY ChatIsTyped DEF ReactionsCome
<1>1. PICK vw2, sn2 : vw2 = view' /\ sn2 = snapshots'
  OBVIOUS
<1>2. id \in 1..Len(messages) /\ state \in ChatStates /\ state.version \in Nat
  BY DEF Fits, ChatStates
<1>3. messages[id].live => id \notin deletedIds
  BY <1>t DEF DeletedAre
<1>4. UNCHANGED <<deletedIds, delivered, watermark>>
  BY DEF ApplyReactions
<1>v. \A x \in DOMAIN view : view[x].version \in Nat
  BY <1>t, FittingIs
<1>s. \A x \in DOMAIN snapshots : snapshots[x].version \in Nat
  BY <1>t, FittingIs
<1>5. CASE id \in deletedIds \/ (id \in DOMAIN snapshots /\ snapshots[id].version > state.version)
  <2>1. vw2 = view /\ sn2 = snapshots
    BY <1>1, <1>5 DEF ApplyReactions
  <2>2. Taken(messages, view, snapshots, vw2, sn2, deletedIds)
    BY <1>t, <1>v, <1>s, <2>1 DEF Taken, GrowsTo
  <2>3. messages[id].live => id \in DOMAIN sn2 /\ state.version <= sn2[id].version
    BY <1>2, <1>3, <1>5, <1>s, <2>1
  <2> QED
    BY <1>1, <1>4, <2>2, <2>3
<1>6. CASE ~(id \in deletedIds \/ (id \in DOMAIN snapshots /\ snapshots[id].version > state.version))
  <2>1. /\ sn2 = [i \in DOMAIN snapshots \cup {id} |-> IF i = id THEN state ELSE snapshots[i]]
        /\ vw2 = IF id \in DOMAIN view THEN [view EXCEPT ![id] = Merged(view[id], state)] ELSE view
    BY <1>1, <1>6 DEF ApplyReactions, Shown
  <2>2. DOMAIN sn2 = DOMAIN snapshots \cup {id} /\ sn2[id] = state /\ DOMAIN vw2 = DOMAIN view
        /\ \A x \in DOMAIN snapshots : x # id => sn2[x] = snapshots[x]
    BY <2>1
  <2>3. Fitting(messages, sn2)
    BY <1>t, <1>2, <2>2, <2>1 DEF Fitting
  <2>4. /\ id \in DOMAIN view => /\ vw2[id] = Merged(view[id], state) /\ view[id] \in ChatStates
                                 /\ Fits(messages, id, vw2[id]) /\ vw2[id] \in ChatStates
                                 /\ view[id].version <= vw2[id].version /\ state.version <= vw2[id].version
        /\ \A x \in DOMAIN view : x # id => vw2[x] = view[x]
    <3>1. \A x \in DOMAIN view : x # id => vw2[x] = view[x]
      BY <2>1
    <3>2. ASSUME id \in DOMAIN view
          PROVE  /\ vw2[id] = Merged(view[id], state) /\ view[id] \in ChatStates /\ Fits(messages, id, vw2[id])
                 /\ view[id].version <= vw2[id].version /\ state.version <= vw2[id].version
                 /\ vw2[id] \in ChatStates
      <4>1. view[id] \in ChatStates /\ Fits(messages, id, view[id]) /\ view[id].version \in Nat
        BY <1>t, <1>v, <3>2 DEF Fitting, Fits
      <4>2. vw2[id] = Merged(view[id], state)
        BY <2>1, <3>2
      <4>3. Fits(messages, id, Merged(view[id], state))
        BY <4>1, MergedFits
      <4>4. Merged(view[id], state).version \in Nat
        BY <4>3 DEF Fits, ChatStates
      <4> QED
        BY <1>2, <4>1, <4>2, <4>3, <4>4, MergedIs
    <3> QED
      BY <3>1, <3>2
  <2>5. Fitting(messages, vw2)
    <3>1. \A x \in DOMAIN vw2 : vw2[x] \in ChatStates /\ Fits(messages, x, vw2[x])
      BY <1>t, <2>2, <2>4 DEF Fitting
    <3>2. vw2 \in [DOMAIN vw2 -> ChatStates]
      <4>1. view \in [DOMAIN view -> ChatStates]
        BY <1>t DEF Fitting
      <4> QED
        BY <2>1, <2>2, <2>4, <4>1
    <3> QED
      BY <3>1, <3>2 DEF Fitting
  <2>6. DeletedAre(messages, vw2, deletedIds)
    BY <1>t, <2>2 DEF DeletedAre
  <2>7. GrowsTo(messages, view, vw2)
    BY <1>v, <2>2, <2>4 DEF GrowsTo
  <2>8. GrowsTo(messages, snapshots, sn2)
    BY <1>2, <1>6, <1>s, <2>2 DEF GrowsTo
  <2>9. ASSUME NEW x \in DOMAIN vw2 \cap DOMAIN sn2 PROVE sn2[x].version <= vw2[x].version
    BY <2>2, <2>4, <1>t, <2>9
  <2>10. Taken(messages, view, snapshots, vw2, sn2, deletedIds)
    BY <2>3, <2>5, <2>6, <2>7, <2>8, <2>9 DEF Taken
  <2> QED
    BY <1>1, <1>2, <1>4, <2>2, <2>10
<1> QED
  BY <1>5, <1>6

LEMMA DeletionIsApplied ==
    ASSUME ChatInv, NEW id \in 1..Len(messages), ~messages[id].live, ApplyDeleted(id)
    PROVE  \E vw2, sn2, del2 :
             /\ vw2 = view' /\ sn2 = snapshots' /\ del2 = deletedIds'
             /\ Taken(messages, view, snapshots, vw2, sn2, del2) /\ UNCHANGED <<delivered, watermark>>
<1>t. /\ messages \in Seq(ChatMessages) /\ Fitting(messages, view) /\ Fitting(messages, snapshots)
      /\ DeletedAre(messages, view, deletedIds) /\ \A x \in DOMAIN view \cap DOMAIN snapshots :
             snapshots[x].version <= view[x].version
  BY ChatIsTyped DEF ReactionsCome
<1>1. PICK vw2, sn2, del2 : vw2 = view' /\ sn2 = snapshots' /\ del2 = deletedIds'
  OBVIOUS
<1>2. /\ del2 = deletedIds \cup {id} /\ UNCHANGED <<delivered, watermark>>
      /\ vw2 = [x \in DOMAIN view \ {id} |-> view[x]]
      /\ sn2 = [x \in DOMAIN snapshots \ {id} |-> snapshots[x]]
  BY <1>1 DEF ApplyDeleted, Shown
<1>3. /\ DOMAIN vw2 = DOMAIN view \ {id} /\ \A x \in DOMAIN vw2 : vw2[x] = view[x]
      /\ DOMAIN sn2 = DOMAIN snapshots \ {id} /\ \A x \in DOMAIN sn2 : sn2[x] = snapshots[x]
  BY <1>2
<1>4. Fitting(messages, vw2)
  BY <1>t, <1>3, <1>2 DEF Fitting
<1>5. Fitting(messages, sn2)
  BY <1>t, <1>3, <1>2 DEF Fitting
<1>6. DeletedAre(messages, vw2, del2)
  BY <1>t, <1>2, <1>3 DEF DeletedAre
<1>7. GrowsTo(messages, view, vw2)
  BY <1>t, FittingIs, <1>3 DEF GrowsTo
<1>8. GrowsTo(messages, snapshots, sn2)
  BY <1>t, FittingIs, <1>3 DEF GrowsTo
<1>9. \A x \in DOMAIN vw2 \cap DOMAIN sn2 : sn2[x].version <= vw2[x].version
  BY <1>t, <1>3
<1>10. Taken(messages, view, snapshots, vw2, sn2, del2)
  BY <1>4, <1>5, <1>6, <1>7, <1>8, <1>9 DEF Taken
<1> QED
  BY <1>1, <1>2, <1>10

\* What was taken in: the rest follows.
LEMMA TakenKeeps ==
    ASSUME ChatInv, NEW ev2, NEW a2, NEW vw2, NEW sn2, NEW del2, NEW wm2, NEW dl2,
           ev2 = events', a2 = answer', vw2 = view', sn2 = snapshots', del2 = deletedIds', wm2 = watermark',
           dl2 = delivered', UNCHANGED <<messages, joined, cursor, since, online, inside, missed, route, history, readHere>>,
           EventsAre(messages, ev2), AnswerIs(messages, a2),
           Taken(messages, view, snapshots, vw2, sn2, del2),
           \A x \in 1..Len(messages) : messages[x].live /\ (\E i \in 1..Len(events) : Brings(messages, events[i], x)) =>
               \/ \E i \in 1..Len(ev2) : Brings(messages, ev2[i], x)
               \/ UpToDate(messages, sn2, x)
               \/ messages[x].version = 0 /\ x \in DOMAIN vw2,
           \A x \in 1..Len(messages) :
               NewOnWay(events, x) => NewOnWay(ev2, x) \/ x \in DOMAIN vw2 \/ ~messages[x].live,
           dl2 = delivered \/ Reached(messages, ev2, missed, history, vw2, dl2),
           wm2 = watermark \/ Reached(messages, ev2, missed, history, vw2, wm2)
    PROVE  ChatInv'
<1>t. /\ messages \in Seq(ChatMessages) /\ missed \subseteq 1..Len(messages)
      /\ HistoryIs(messages, history) /\ Fitting(messages, view) /\ Fitting(messages, snapshots)
      /\ ReactionsCome(messages, events, missed, history, view, snapshots)
      /\ MessagesCome(messages, events, missed, history, view)
      /\ Reached(messages, events, missed, history, view, watermark)
      /\ Reached(messages, events, missed, history, view, delivered)
      /\ Reached(messages, events, missed, history, view, readHere)
      /\ MembersAre(joined, cursor, since) /\ (route = "elsewhere" => history = NoHistory)
      /\ online \in BOOLEAN /\ inside \in BOOLEAN
  BY ChatIsTyped
<1>1. /\ ReactionsCome(messages, ev2, missed, history, vw2, sn2) /\ MessagesCome(messages, ev2, missed, history, vw2)
      /\ \A n : Reached(messages, events, missed, history, view, n) => Reached(messages, ev2, missed, history, vw2, n)
  BY <1>t, ViewMoves
<1>2. Fitting(messages, vw2) /\ Fitting(messages, sn2) /\ DeletedAre(messages, vw2, del2)
  BY DEF Taken
<1>3. ChatIs(messages, ev2, a2, missed, history, vw2, sn2, del2, wm2, dl2, readHere)
  BY <1>t, <1>1, <1>2 DEF ChatIs
<1> QED
  BY <1>t, <1>3 DEF ChatInv

LEMMA LargerReached ==
    ASSUME NEW m, NEW ev, NEW ms, NEW h, NEW vw, NEW a, NEW b, Reached(m, ev, ms, h, vw, a), Reached(m, ev, ms, h, vw, b)
    PROVE  Reached(m, ev, ms, h, vw, Larger(a, b))
BY LargerIs DEF Reached

\* setMessageReaction, sendMessage and the other requests, answered.
LEMMA AnswerIsTaken == ASSUME ChatInv, AnswerComes PROVE ChatInv'
<1>t. /\ messages \in Seq(ChatMessages) /\ EventsAre(messages, events) /\ AnswerIs(messages, answer)
      /\ HistoryIs(messages, history) /\ Fitting(messages, view) /\ Fitting(messages, snapshots)
      /\ ReactionsCome(messages, events, missed, history, view, snapshots)
      /\ MessagesCome(messages, events, missed, history, view)
      /\ Reached(messages, events, missed, history, view, watermark)
      /\ Reached(messages, events, missed, history, view, delivered) /\ Len(messages) \in Nat
  BY ChatIsTyped
<1>1. /\ EventIs(messages, answer) /\ (answer.type = "new" => messages[answer.id].by = Reader)
      /\ Fits(messages, answer.id, answer.state) /\ answer.id \in 1..Len(messages)
      /\ answer.kind = messages[answer.id].kind /\ (answer.type = "deleted" => ~messages[answer.id].live)
  BY <1>t DEF AnswerComes, AnswerIs, EventIs, Fits
<1>2. /\ UNCHANGED <<messages, joined, cursor, since, online, inside, missed, route, history, readHere>>
      /\ events' = events /\ answer' = NoEvent
  BY DEF AnswerComes, roomVars
<1>3. AnswerIs(messages, NoEvent)
  BY DEF AnswerIs
<1>4. PICK vw2, sn2, del2, wm2, dl2, ev2, a2 :
          /\ ev2 = events' /\ a2 = answer' /\ vw2 = view' /\ sn2 = snapshots' /\ del2 = deletedIds'
          /\ wm2 = watermark' /\ dl2 = delivered'
  OBVIOUS
<1> DEFINE Goes ==
        /\ Taken(messages, view, snapshots, vw2, sn2, del2)
        /\ dl2 = delivered \/ Reached(messages, events, missed, history, vw2, dl2)
        /\ wm2 = watermark \/ Reached(messages, events, missed, history, vw2, wm2)
<1>g. Goes => ChatInv'
  <2>1. /\ \A x \in 1..Len(messages) :
               messages[x].live /\ (\E i \in 1..Len(events) : Brings(messages, events[i], x)) =>
                  \/ \E i \in 1..Len(ev2) : Brings(messages, ev2[i], x)
                  \/ UpToDate(messages, sn2, x)
                  \/ messages[x].version = 0 /\ x \in DOMAIN vw2
        /\ \A x \in 1..Len(messages) :
               NewOnWay(events, x) => NewOnWay(ev2, x) \/ x \in DOMAIN vw2 \/ ~messages[x].live
    BY <1>2, <1>4
  <2>2. EventsAre(messages, ev2) /\ AnswerIs(messages, a2)
    BY <1>t, <1>2, <1>3, <1>4
  <2> SUFFICES ASSUME Goes PROVE ChatInv'
    OBVIOUS
  <2>3. /\ Taken(messages, view, snapshots, vw2, sn2, del2)
        /\ dl2 = delivered \/ Reached(messages, ev2, missed, history, vw2, dl2)
        /\ wm2 = watermark \/ Reached(messages, ev2, missed, history, vw2, wm2)
    BY <1>2, <1>4
  <2> QED
    BY <1>2, <1>4, <2>1, <2>2, <2>3, TakenKeeps
<1>5. CASE answer.type = "new" /\ ApplyMessage(answer.id, answer.state, answer.kind = "wave", FALSE)
  <2>1. PICK unread \in BOOLEAN : unread = (answer.kind = "wave")
    OBVIOUS
  <2>2. ApplyMessage(answer.id, answer.state, unread, FALSE)
    BY <1>5, <2>1
  <2>3. /\ Taken(messages, view, snapshots, vw2, snapshots, deletedIds)
        /\ messages[answer.id].live => answer.id \in DOMAIN vw2
        /\ UNCHANGED <<snapshots, deletedIds>>
        /\ ~unread => UNCHANGED <<delivered, watermark>>
        /\ unread => /\ delivered' \in {delivered, Larger(delivered, answer.id)}
                     /\ watermark' \in {watermark, Larger(watermark, answer.id)}
    BY <1>1, <1>4, <2>2, MessageIsApplied
  <2>4. CASE ~unread
    BY <1>4, <1>g, <2>3, <2>4
  <2>5. CASE unread
    <3>1. OwnWave(messages, answer.id)
      BY <1>1, <1>5, <2>1, <2>5 DEF OwnWave
    <3>2. Reached(messages, events, missed, history, vw2, answer.id)
      BY <1>t, <1>1, <3>1, <2>3 DEF Overtook, Arrived, Taken, GrowsTo, MessagesCome, Reached
    <3>3. /\ Reached(messages, events, missed, history, vw2, watermark)
          /\ Reached(messages, events, missed, history, vw2, delivered)
      BY <2>3, <1>t DEF Arrived, Taken, GrowsTo, Reached
    <3>4. /\ Reached(messages, events, missed, history, vw2, Larger(watermark, answer.id))
          /\ Reached(messages, events, missed, history, vw2, Larger(delivered, answer.id))
      BY <3>2, <3>3, LargerReached
    <3> QED
      BY <1>4, <1>g, <2>3, <2>5, <3>4
  <2> QED
    BY <2>4, <2>5
<1>6. CASE answer.type = "updated" /\ \E onlyExisting \in BOOLEAN :
                                           ApplyMessage(answer.id, answer.state, FALSE, onlyExisting)
  BY <1>6, <1>1, <1>4, MessageIsApplied, <1>g
<1>7. CASE answer.type = "reactions" /\ ApplyReactions(answer.id, answer.state)
  BY <1>1, <1>4, <1>7, ReactionsAreApplied, <1>g
<1>8. CASE answer.type = "deleted" /\ ApplyDeleted(answer.id)
  BY <1>1, <1>4, <1>8, DeletionIsApplied, <1>g
<1> QED
  BY <1>5, <1>6, <1>7, <1>8 DEF AnswerComes

LEMMA EventsGo ==
    ASSUME NEW m, NEW ev, EventsAre(m, ev), ev # <<>>
    PROVE  /\ EventsAre(m, Tail(ev)) /\ EventIs(m, Head(ev))
           /\ \A x : (\E i \in 1..Len(ev) : Brings(m, ev[i], x)) =>
                 Brings(m, Head(ev), x) \/ \E i \in 1..Len(Tail(ev)) : Brings(m, Tail(ev)[i], x)
           /\ \A x : NewOnWay(ev, x) => (Head(ev).type = "new" /\ Head(ev).id = x) \/ NewOnWay(Tail(ev), x)
           /\ \A x : Head(ev).type = "new" /\ NewOnWay(Tail(ev), x) => Head(ev).id < x
<1> DEFINE w == Tail(ev)
<1>1. /\ w \in Seq(ChatEvents) /\ Len(ev) \in Nat /\ Len(ev) > 0 /\ Len(w) = Len(ev) - 1
      /\ \A i \in 1..Len(w) : w[i] = ev[i + 1]
      /\ Head(ev) = ev[1] /\ ev[1] \in ChatEvents
  BY LenProperties, EmptySeq, HeadTailProperties DEF EventsAre
<1>2. /\ \A i \in 1..Len(ev) : EventIs(m, ev[i])
      /\ \A i, j \in 1..Len(ev) : i < j /\ ev[i].type = "new" /\ ev[j].type = "new" => ev[i].id < ev[j].id
  BY DEF EventsAre
<1> HIDE DEF w
<1>3. \A i \in 1..Len(w) : i \in Nat /\ i + 1 \in 1..Len(ev) /\ 1 < i + 1
  BY <1>1
<1>4. EventsAre(m, w)
  <2>1. \A i \in 1..Len(w) : EventIs(m, w[i])
    BY <1>1, <1>2, <1>3
  <2>2. ASSUME NEW i \in 1..Len(w), NEW j \in 1..Len(w), i < j, w[i].type = "new", w[j].type = "new"
        PROVE  w[i].id < w[j].id
    BY <1>3, <2>2, <1>1, <1>2
  <2> QED
    BY <1>1, <2>1, <2>2 DEF EventsAre
<1>5. EventIs(m, Head(ev))
  BY <1>1, <1>2
<1>6. \A i \in 1..Len(ev) : ev[i] = Head(ev) \/ \E j \in 1..Len(w) : w[j] = ev[i]
  <2> SUFFICES ASSUME NEW i \in 1..Len(ev), i # 1 PROVE \E j \in 1..Len(w) : w[j] = ev[i]
    BY <1>1
  <2>1. i - 1 \in 1..Len(w) /\ (i - 1) + 1 = i
    BY <1>1
  <2> QED
    BY <1>1, <2>1
<1>7. ASSUME NEW x, \E i \in 1..Len(ev) : Brings(m, ev[i], x)
      PROVE  Brings(m, Head(ev), x) \/ \E i \in 1..Len(w) : Brings(m, w[i], x)
  BY <1>6, <1>7
<1>8. ASSUME NEW x, NewOnWay(ev, x)
      PROVE  (Head(ev).type = "new" /\ Head(ev).id = x) \/ NewOnWay(w, x)
  BY <1>6, <1>8 DEF NewOnWay, NewAt
<1>9. ASSUME NEW x, Head(ev).type = "new", NewOnWay(w, x) PROVE Head(ev).id < x
  <2>1. PICK i \in 1..Len(w) : w[i].type = "new" /\ w[i].id = x
    BY <1>9 DEF NewOnWay, NewAt
  <2>2. w[i] = ev[i + 1] /\ i + 1 \in 1..Len(ev) /\ 1 < i + 1 /\ 1 \in 1..Len(ev)
    BY <1>1, <1>3
  <2> QED
    BY <1>1, <1>2, <1>9, <2>1, <2>2
<1> QED
  BY <1>4, <1>5, <1>7, <1>8, <1>9 DEF w

\* message:new, message:updated, message:reactions and message:deleted.
LEMMA EventIsTaken == ASSUME ChatInv, EventComes PROVE ChatInv'
<1>t. /\ messages \in Seq(ChatMessages) /\ EventsAre(messages, events) /\ AnswerIs(messages, answer)
      /\ HistoryIs(messages, history) /\ Fitting(messages, view) /\ Fitting(messages, snapshots)
      /\ ReactionsCome(messages, events, missed, history, view, snapshots)
      /\ MessagesCome(messages, events, missed, history, view)
      /\ Reached(messages, events, missed, history, view, watermark)
      /\ Reached(messages, events, missed, history, view, delivered) /\ Len(messages) \in Nat
  BY ChatIsTyped
<1>1. /\ UNCHANGED <<messages, joined, cursor, since, online, inside, missed, route, history, readHere, answer>>
      /\ events # <<>> /\ events' = Tail(events)
  BY DEF EventComes, roomVars
<1>4. PICK e, vw2, sn2, del2, wm2, dl2, ev2, a2 :
          /\ e = Head(events)
          /\ ev2 = events' /\ a2 = answer' /\ vw2 = view' /\ sn2 = snapshots' /\ del2 = deletedIds'
          /\ wm2 = watermark' /\ dl2 = delivered'
  OBVIOUS
<1>2. /\ EventsAre(messages, ev2) /\ EventIs(messages, e)
      /\ \A x : (\E i \in 1..Len(events) : Brings(messages, events[i], x)) =>
                 Brings(messages, e, x) \/ \E i \in 1..Len(ev2) : Brings(messages, ev2[i], x)
      /\ \A x : NewOnWay(events, x) => (e.type = "new" /\ e.id = x) \/ NewOnWay(ev2, x)
      /\ \A x : e.type = "new" /\ NewOnWay(ev2, x) => e.id < x
  BY <1>t, <1>1, <1>4, EventsGo
<1>3. /\ Fits(messages, e.id, e.state) /\ e.id \in 1..Len(messages) /\ e.state.version \in Nat
      /\ (e.type = "deleted" => ~messages[e.id].live) /\ (e.type = "new" => e.state.version = 0)
  BY <1>2 DEF EventIs, Fits, ChatStates
<1> DEFINE Goes ==
        /\ Taken(messages, view, snapshots, vw2, sn2, del2)
        /\ dl2 = delivered \/ Reached(messages, ev2, missed, history, vw2, dl2)
        /\ wm2 = watermark \/ Reached(messages, ev2, missed, history, vw2, wm2)
        /\ e.type = "new" /\ messages[e.id].live => e.id \in DOMAIN vw2
        /\ e.type = "reactions" /\ messages[e.id].live => e.id \in DOMAIN sn2 /\ e.state.version <= sn2[e.id].version
<1>g. Goes => ChatInv'
  <2> SUFFICES ASSUME Goes PROVE ChatInv'
    OBVIOUS
  <2>1. ASSUME NEW x \in 1..Len(messages), messages[x].live, Brings(messages, e, x)
        PROVE  UpToDate(messages, sn2, x) \/ (messages[x].version = 0 /\ x \in DOMAIN vw2)
    BY <2>1, <1>3, <1>t, FittingIs DEF Brings, Taken, UpToDate
  <2>2. \A x \in 1..Len(messages) :
           messages[x].live /\ (\E i \in 1..Len(events) : Brings(messages, events[i], x)) =>
              \/ \E i \in 1..Len(ev2) : Brings(messages, ev2[i], x)
              \/ UpToDate(messages, sn2, x)
              \/ messages[x].version = 0 /\ x \in DOMAIN vw2
    BY <1>2, <2>1
  <2>3. \A x \in 1..Len(messages) :
           NewOnWay(events, x) => NewOnWay(ev2, x) \/ x \in DOMAIN vw2 \/ ~messages[x].live
    BY <1>2
  <2>4. AnswerIs(messages, a2)
    BY <1>t, <1>1, <1>4
  <2>5. /\ Taken(messages, view, snapshots, vw2, sn2, del2)
        /\ dl2 = delivered \/ Reached(messages, ev2, missed, history, vw2, dl2)
        /\ wm2 = watermark \/ Reached(messages, ev2, missed, history, vw2, wm2)
    OBVIOUS
  <2> QED
    BY <1>1, <1>2, <1>4, <2>2, <2>3, <2>4, <2>5, TakenKeeps
<1>5. CASE e.type = "new" /\ ApplyMessage(e.id, e.state, TRUE, FALSE)
  <2>1. /\ Taken(messages, view, snapshots, vw2, snapshots, deletedIds)
        /\ messages[e.id].live => e.id \in DOMAIN vw2
        /\ UNCHANGED <<snapshots, deletedIds>>
        /\ delivered' \in {delivered, Larger(delivered, e.id)} /\ watermark' \in {watermark, Larger(watermark, e.id)}
    BY <1>3, <1>4, <1>5, MessageIsApplied
  <2>2. ASSUME NEW x \in 1..Len(messages), Arrived(messages, missed, history, view, x)
        PROVE  Arrived(messages, missed, history, vw2, x)
    BY <2>1, <2>2 DEF Arrived, Taken, GrowsTo
  <2>3. Arrived(messages, missed, history, vw2, e.id)
    BY <2>1 DEF Arrived
  <2>4. Reached(messages, ev2, missed, history, vw2, e.id)
    BY <1>t, <1>3, <1>2, <1>5, <2>2, <2>3 DEF MessagesCome, Reached
  <2>5. ASSUME NEW n, Reached(messages, events, missed, history, view, n)
        PROVE  Reached(messages, ev2, missed, history, vw2, n)
    BY <2>5, <1>t, <1>2, <2>2, <2>3 DEF Reached
  <2>6. /\ Reached(messages, ev2, missed, history, vw2, Larger(watermark, e.id))
        /\ Reached(messages, ev2, missed, history, vw2, Larger(delivered, e.id))
    BY <1>t, <2>4, <2>5, LargerReached
  <2>7. sn2 = snapshots /\ del2 = deletedIds
    BY <1>4, <2>1
  <2> QED
    BY <1>4, <1>5, <1>g, <2>1, <2>6, <2>7
<1>6. CASE e.type = "updated" /\ ApplyMessage(e.id, e.state, FALSE, TRUE)
  BY <1>3, <1>4, <1>6, MessageIsApplied, <1>g
<1>7. CASE e.type = "reactions" /\ ApplyReactions(e.id, e.state)
  BY <1>3, <1>4, <1>7, ReactionsAreApplied, <1>g
<1>8. CASE e.type = "deleted" /\ ApplyDeleted(e.id)
  BY <1>3, <1>4, <1>8, DeletionIsApplied, <1>g
<1> QED
  BY <1>4, <1>5, <1>6, <1>7, <1>8 DEF EventComes

------------------------
(* The history, what is read of it, and the socket. *)
\* A history is asked for, and nothing is known of it yet.
LEMMA HistoryMoves ==
    ASSUME NEW m \in Seq(ChatMessages), NEW ev, NEW ms, NEW ms2, NEW h, NEW h2, NEW vw, NEW sn,
           ReactionsCome(m, ev, ms, h, vw, sn), MessagesCome(m, ev, ms, h, vw),
           h2.through \in Int, h2.through < 0, h2.missed = {}, ms \cup h.missed \subseteq ms2
    PROVE  /\ ReactionsCome(m, ev, ms2, h2, vw, sn) /\ MessagesCome(m, ev, ms2, h2, vw)
           /\ \A n : Reached(m, ev, ms, h, vw, n) => Reached(m, ev, ms2, h2, vw, n)
BY LenProperties DEF ReactionsCome, Arrived, MessagesCome, Reached

LEMMA NoHistoryIs ==
    ASSUME NEW m, NEW h, h = NoHistory \/ h = Asked
    PROVE  HistoryIs(m, h) /\ h.through \in Int /\ h.through < 0 /\ h.missed = {}
BY DEF NoHistory, Asked, HistoryIs

\* The room is opened or closed, and a history given up is one not read.
LEMMA RoomTurns == ASSUME ChatInv, OpenRoom \/ CloseRoom PROVE ChatInv'
<1>t. /\ messages \in Seq(ChatMessages) /\ EventsAre(messages, events) /\ AnswerIs(messages, answer)
      /\ missed \subseteq 1..Len(messages)
      /\ HistoryIs(messages, history) /\ Fitting(messages, view) /\ Fitting(messages, snapshots)
      /\ DeletedAre(messages, view, deletedIds)
      /\ ReactionsCome(messages, events, missed, history, view, snapshots)
      /\ MessagesCome(messages, events, missed, history, view)
      /\ Reached(messages, events, missed, history, view, watermark)
      /\ Reached(messages, events, missed, history, view, delivered)
      /\ Reached(messages, events, missed, history, view, readHere)
      /\ MembersAre(joined, cursor, since) /\ (route = "elsewhere" => history = NoHistory)
      /\ Len(messages) \in Nat /\ online \in BOOLEAN /\ inside \in BOOLEAN
  BY ChatIsTyped
<1>1. PICK h2, ms2, wm2 : h2 = history' /\ ms2 = missed' /\ wm2 = watermark'
  OBVIOUS
<1>2. /\ UNCHANGED <<messages, joined, cursor, since, events, answer, online, inside, view, snapshots, deletedIds,
                     delivered, readHere>>
      /\ (route' = "elsewhere" => h2 = NoHistory) /\ (h2 = NoHistory \/ h2 = Asked)
      /\ wm2 \in {watermark, NotLoaded} /\ ms2 = missed \cup history.missed
  BY <1>t, <1>1 DEF OpenRoom, NoHistory, wireVars, roomVars, CloseRoom, shownVars
<1>3. HistoryIs(messages, h2) /\ h2.through \in Int /\ h2.through < 0 /\ h2.missed = {}
  BY <1>2, NoHistoryIs
<1>4. ms2 \subseteq 1..Len(messages)
  BY <1>t, <1>2 DEF HistoryIs
<1>5. /\ ReactionsCome(messages, events, ms2, h2, view, snapshots) /\ MessagesCome(messages, events, ms2, h2, view)
      /\ \A n : Reached(messages, events, missed, history, view, n) => Reached(messages, events, ms2, h2, view, n)
  BY <1>2, <1>t, <1>3, HistoryMoves
<1>6. Reached(messages, events, ms2, h2, view, NotLoaded)
  BY <1>t DEF NotLoaded, Reached
<1>7. ChatIs(messages, events, answer, ms2, h2, view, snapshots, deletedIds, wm2, delivered, readHere)
  BY <1>t, <1>2, <1>3, <1>4, <1>5, <1>6 DEF ChatIs
<1> QED
  BY <1>t, <1>1, <1>2, <1>7 DEF ChatInv

\* What a history leaves out has HistoryLimit newer messages.
LEMMA LeftOutIsOld ==
    ASSUME messages \in Seq(ChatMessages), NEW x \in LiveMessage, x \notin Newest
    PROVE  x \in BeyondTheLimit
<1> DEFINE newer == {later \in LiveMessage : later > x}
<1>1. Len(messages) \in Nat /\ x \in 1..Len(messages) /\ newer \subseteq x + 1..Len(messages)
  BY LenProperties DEF LiveMessage
<1>2. IsFiniteSet(x + 1..Len(messages)) /\ Cardinality(x + 1..Len(messages)) <= Len(messages) - x
  <2>1. PICK a, b \in Int : a = x + 1 /\ b = Len(messages)
    BY <1>1
  <2>2. IsFiniteSet(a..b) /\ Cardinality(a..b) = IF a > b THEN 0 ELSE b - a + 1
    BY FS_Interval
  <2>3. a..b = x + 1..Len(messages) /\ (IF a > b THEN 0 ELSE b - a + 1) <= Len(messages) - x
    BY <1>1, <2>1
  <2> QED
    BY <2>2, <2>3
<1>3. IsFiniteSet(newer) /\ Cardinality(newer) <= Cardinality(x + 1..Len(messages)) /\ Cardinality(newer) \in Nat
      /\ Cardinality(x + 1..Len(messages)) \in Nat
  BY <1>1, <1>2, FS_Subset, FS_CardinalityType
<1>4. ~(Cardinality(newer) < HistoryLimit)
  BY DEF Newest
<1> HIDE DEF newer
<1> QED
  BY <1>1, <1>2, <1>3, <1>4, HistoryAssumption DEF BeyondTheLimit, Latest

\* GET messages is served.
LEMMA HistoryIsServed == ASSUME ChatInv, HistoryIsRead PROVE ChatInv'
<1>t. /\ messages \in Seq(ChatMessages) /\ EventsAre(messages, events) /\ AnswerIs(messages, answer)
      /\ missed \subseteq 1..Len(messages)
      /\ HistoryIs(messages, history) /\ Fitting(messages, view) /\ Fitting(messages, snapshots)
      /\ DeletedAre(messages, view, deletedIds)
      /\ ReactionsCome(messages, events, missed, history, view, snapshots)
      /\ MessagesCome(messages, events, missed, history, view)
      /\ Reached(messages, events, missed, history, view, watermark)
      /\ Reached(messages, events, missed, history, view, delivered)
      /\ Reached(messages, events, missed, history, view, readHere)
      /\ MembersAre(joined, cursor, since) /\ (route = "elsewhere" => history = NoHistory)
      /\ Len(messages) \in Nat /\ DOMAIN messages = 1..Len(messages) /\ online \in BOOLEAN /\ inside \in BOOLEAN
  BY ChatIsTyped
<1>1. PICK h2, ms2 : h2 = history' /\ ms2 = missed'
  OBVIOUS
<1>2. /\ UNCHANGED <<messages, joined, cursor, since, events, answer, online, inside, view, snapshots, deletedIds,
                     watermark, delivered, readHere, route>>
      /\ history = Asked /\ ms2 = BeyondTheLimit
      /\ h2 = [through |-> Len(messages), messages |-> [id \in Newest |-> State(messages[id])],
               missed |-> missed]
  BY <1>1 DEF HistoryIsRead, roomVars, shownVars, Latest
<1>3. route # "elsewhere"
  BY <1>t, <1>2 DEF NoHistory, Asked
<1>4. /\ h2.through = Len(messages) /\ h2.missed = missed /\ DOMAIN h2.messages = Newest
      /\ \A x \in Newest : h2.messages[x] = State(messages[x])
      /\ h2.messages = [id \in Newest |-> State(messages[id])]
  BY <1>2
<1>5. /\ \A x \in LiveMessage : x \in 1..Len(messages) /\ messages[x].live
      /\ \A x \in 1..Len(messages) : messages[x].live => x \in Newest \/ x \in ms2
      /\ Newest \subseteq LiveMessage
  BY <1>t, <1>2, LeftOutIsOld DEF LiveMessage, Newest
<1>6. Fitting(messages, h2.messages)
  <2>1. \A x \in LiveMessage : State(messages[x]) \in ChatStates /\ State(messages[x]).version = messages[x].version
                               /\ messages[x].version \in Nat
    BY <1>t, <1>5, MessageIs
  <2>2. \A x \in Newest : Fits(messages, x, h2.messages[x])
    BY <1>4, <1>5, <2>1 DEF Fits
  <2>3. h2.messages \in [Newest -> ChatStates]
    BY <1>4, <1>5, <2>1
  <2> QED
    BY <1>4, <2>2, <2>3 DEF Fitting
<1>7. HistoryIs(messages, h2)
  BY <1>t, <1>4, <1>6 DEF HistoryIs
<1>8. history.missed = {} /\ history.through < 0 /\ history.through \in Int
  BY <1>2, NoHistoryIs
<1>9. ReactionsCome(messages, events, ms2, h2, view, snapshots)
  <2>1. ASSUME NEW x \in 1..Len(messages), messages[x].live, x \notin ms2
        PROVE  h2.through >= x /\ UpToDate(messages, h2.messages, x)
    <3>1. State(messages[x]).version = messages[x].version
      BY <1>t, MessageIs
    <3>2. x <= Len(messages) /\ x \in DOMAIN h2.messages /\ h2.messages[x] = State(messages[x])
      BY <1>t, <1>4, <1>5, <2>1
    <3> QED
      BY <1>t, <1>4, <3>1, <3>2 DEF UpToDate
  <2>2. ASSUME NEW x \in 1..Len(messages), messages[x].live, x \notin ms2 \cup h2.missed
        PROVE  Heard(messages, events, snapshots, x) \/ UpToDate(messages, view, x)
    BY <1>4, <1>8, <2>2, <1>t DEF ReactionsCome
  <2>3. \A x \in DOMAIN view \cap DOMAIN snapshots : snapshots[x].version <= view[x].version
    BY <1>t DEF ReactionsCome
  <2> QED
    BY <2>1, <2>2, <2>3 DEF ReactionsCome
<1>10. \A x : Arrived(messages, missed, history, view, x) => Arrived(messages, ms2, h2, view, x)
  BY <1>4, <1>8 DEF Arrived
<1>11. /\ MessagesCome(messages, events, ms2, h2, view)
       /\ \A n : Reached(messages, events, missed, history, view, n) => Reached(messages, events, ms2, h2, view, n)
  BY <1>t, <1>4, <1>5, <1>10 DEF MessagesCome, Reached
<1>12. ms2 \subseteq 1..Len(messages)
  BY <1>2, <1>5 DEF BeyondTheLimit
<1>13. ChatIs(messages, events, answer, ms2, h2, view, snapshots, deletedIds, watermark, delivered, readHere)
  BY <1>t, <1>7, <1>9, <1>11, <1>12 DEF ChatIs
<1> QED
  BY <1>t, <1>1, <1>2, <1>3, <1>13 DEF ChatInv

\* Its answer comes: messages newer than it stay, deleted ones do not come back.
LEMMA HistoryIsLoaded == ASSUME ChatInv, HistoryComes PROVE ChatInv'
<1>t. /\ messages \in Seq(ChatMessages) /\ EventsAre(messages, events) /\ AnswerIs(messages, answer)
      /\ missed \subseteq 1..Len(messages)
      /\ HistoryIs(messages, history) /\ Fitting(messages, view) /\ Fitting(messages, snapshots)
      /\ DeletedAre(messages, view, deletedIds)
      /\ ReactionsCome(messages, events, missed, history, view, snapshots)
      /\ MessagesCome(messages, events, missed, history, view)
      /\ Reached(messages, events, missed, history, view, watermark)
      /\ Reached(messages, events, missed, history, view, delivered)
      /\ Reached(messages, events, missed, history, view, readHere)
      /\ MembersAre(joined, cursor, since) /\ (route = "elsewhere" => history = NoHistory)
      /\ Len(messages) \in Nat /\ online \in BOOLEAN /\ inside \in BOOLEAN
  BY ChatIsTyped
<1>1. PICK h2, vw2, wm2 : h2 = history' /\ vw2 = view' /\ wm2 = watermark'
  OBVIOUS
<1>2. /\ UNCHANGED <<messages, joined, cursor, since, events, answer, online, inside, missed, snapshots, deletedIds,
                     delivered, readHere, route>>
      /\ history.through >= 0 /\ h2 = NoHistory /\ vw2 = Loaded /\ wm2 = Larger(history.through, delivered)
  BY <1>1 DEF HistoryComes, roomVars, wireVars
<1>3. /\ HistoryIs(messages, h2) /\ h2.through \in Int /\ h2.through < 0 /\ h2.missed = {}
  BY <1>2, NoHistoryIs
<1>4. /\ history.through \in Int /\ history.through <= Len(messages) /\ Fitting(messages, history.messages)
      /\ \A x \in 1..Len(messages) :
            messages[x].live /\ x <= history.through => x \in DOMAIN history.messages \/ x \in missed
      /\ history.missed \subseteq 1..history.through
  BY <1>t, <1>2 DEF HistoryIs, MessagesCome
<1> DEFINE kept == {id \in DOMAIN view : id > history.through}
           listed == DOMAIN history.messages \ deletedIds
<1>5. /\ DOMAIN vw2 = kept \cup listed
      /\ \A x \in kept : vw2[x] = view[x]
      /\ \A x \in listed \ kept : vw2[x] = WithReactions(x, history.messages[x])
      /\ vw2 = [id \in kept \cup listed |-> IF id \in kept THEN view[id] ELSE WithReactions(id, history.messages[id])]
  BY <1>2 DEF Loaded, Shown
<1>k. /\ \A x \in kept : x \in DOMAIN view /\ x > history.through
      /\ \A x \in DOMAIN view : ~(x > history.through) \/ x \in kept
      /\ \A x \in listed : x \in DOMAIN history.messages /\ x \notin deletedIds
      /\ \A x \in DOMAIN history.messages : x \in deletedIds \/ x \in listed
  OBVIOUS
<1> HIDE DEF kept, listed
<1>6. ASSUME NEW x \in DOMAIN vw2
      PROVE  /\ Fits(messages, x, vw2[x]) /\ vw2[x] \in ChatStates
             /\ (x \in DOMAIN snapshots => snapshots[x].version <= vw2[x].version)
  <2>1. CASE x \in kept
    BY <1>5, <1>k, <2>1, <1>t, FittingIs DEF Fitting, ReactionsCome
  <2>2. CASE x \in listed \ kept
    <3>1. Fits(messages, x, history.messages[x])
      BY <1>4, <1>k, <2>2 DEF Fitting
    <3>2. /\ Fits(messages, x, WithReactions(x, history.messages[x]))
          /\ (x \in DOMAIN snapshots => WithReactions(x, history.messages[x]).version >= snapshots[x].version)
      BY <1>t, <3>1, WithReactionsIs
    <3>3. vw2[x] \in ChatStates /\ vw2[x].version \in Nat
      BY <1>5, <2>2, <3>2 DEF Fits, ChatStates
    <3>4. x \in DOMAIN snapshots => snapshots[x].version \in Nat
      BY <1>t, FittingIs
    <3> QED
      BY <1>5, <2>2, <3>2, <3>3, <3>4
  <2> QED
    BY <1>5, <2>1, <2>2
<1>7. Fitting(messages, vw2)
  <2>1. vw2 \in [DOMAIN vw2 -> ChatStates]
    BY <1>5, <1>6
  <2> QED
    BY <1>6, <2>1 DEF Fitting
<1>8. DeletedAre(messages, vw2, deletedIds)
  BY <1>t, <1>5, <1>k DEF DeletedAre
<1>9. ASSUME NEW x \in 1..Len(messages), messages[x].live, x \notin missed
      PROVE  /\ x \in DOMAIN view \/ x <= history.through => x \in DOMAIN vw2
             /\ ~(history.through >= x) /\ UpToDate(messages, view, x) => UpToDate(messages, vw2, x)
             /\ history.through >= x /\ UpToDate(messages, history.messages, x) => UpToDate(messages, vw2, x)
  <2>1. x \notin deletedIds /\ x \in Int /\ x >= 1
    BY <1>t, <1>9 DEF DeletedAre
  <2>2. CASE x <= history.through
    <3>2. x \in listed /\ x \notin kept
      BY <1>4, <1>9, <1>k, <2>1, <2>2
    <3>3. x \in DOMAIN vw2 /\ vw2[x] = WithReactions(x, history.messages[x])
      BY <1>5, <3>2
    <3>4. Fits(messages, x, history.messages[x])
      BY <1>4, <1>k, <3>2 DEF Fitting
    <3>5. vw2[x].version >= history.messages[x].version
      BY <1>t, <3>3, <3>4, WithReactionsIs
    <3>6. /\ vw2[x].version \in Nat /\ messages[x].version \in Nat /\ vw2[x].version <= messages[x].version
      BY <1>t, <1>7, <3>3, FittingIs
    <3>7. UpToDate(messages, history.messages, x) => UpToDate(messages, vw2, x)
      BY <3>3, <3>5, <3>6 DEF UpToDate
    <3> QED
      BY <1>4, <2>1, <2>2, <3>3, <3>7
  <2>3. CASE ~(x <= history.through)
    BY <1>4, <1>k, <2>1, <2>3, <1>5 DEF UpToDate
  <2> QED
    BY <2>2, <2>3
<1>10. ReactionsCome(messages, events, missed, h2, vw2, snapshots)
  BY <1>t, <1>9, <1>3, <1>6 DEF ReactionsCome
<1>11. ASSUME NEW x \in 1..Len(messages), Arrived(messages, missed, history, view, x)
       PROVE  Arrived(messages, missed, h2, vw2, x)
  BY <1>4, <1>9, <1>11 DEF Arrived
<1>12. MessagesCome(messages, events, missed, h2, vw2)
  BY <1>t, <1>3, <1>11 DEF MessagesCome
<1>13. ASSUME NEW n, Reached(messages, events, missed, history, view, n)
       PROVE  Reached(messages, events, missed, h2, vw2, n)
  BY <1>13, <1>t, <1>11 DEF Reached
<1>14. Reached(messages, events, missed, h2, vw2, history.through)
  BY <1>t, <1>4, <1>9 DEF Arrived, Reached
<1>15. Reached(messages, events, missed, h2, vw2, wm2)
  BY <1>t, <1>2, <1>13, <1>14, LargerReached
<1>16. ChatIs(messages, events, answer, missed, h2, vw2, snapshots, deletedIds, wm2, delivered, readHere)
  BY <1>t, <1>3, <1>7, <1>8, <1>10, <1>12, <1>13, <1>15 DEF ChatIs
<1> QED
  BY <1>t, <1>1, <1>2, <1>16 DEF ChatInv

\* Or it fails, and what was shown is missed.
LEMMA HistoryIsGivenUp == ASSUME ChatInv, HistoryFails PROVE ChatInv'
<1>t. /\ messages \in Seq(ChatMessages) /\ Len(messages) \in Nat /\ EventsAre(messages, events)
      /\ AnswerIs(messages, answer) /\ missed \subseteq 1..Len(messages)
      /\ HistoryIs(messages, history) /\ Fitting(messages, view) /\ Fitting(messages, snapshots)
      /\ DeletedAre(messages, view, deletedIds)
      /\ ReactionsCome(messages, events, missed, history, view, snapshots)
      /\ MessagesCome(messages, events, missed, history, view)
      /\ Reached(messages, events, missed, history, view, watermark)
      /\ Reached(messages, events, missed, history, view, delivered)
      /\ Reached(messages, events, missed, history, view, readHere)
      /\ MembersAre(joined, cursor, since) /\ online \in BOOLEAN /\ inside \in BOOLEAN
  BY ChatIsTyped
<1>1. PICK ms2 : ms2 = missed \cup history.missed \cup DOMAIN view
  OBVIOUS
<1>2. /\ UNCHANGED <<messages, joined, cursor, since, events, answer, online, inside, snapshots, deletedIds,
                     watermark, delivered, readHere, route>>
      /\ missed' = ms2 /\ view' = << >> /\ history' = NoHistory
  BY <1>1 DEF HistoryFails, roomVars, Shown
<1>3. HistoryIs(messages, NoHistory) /\ NoHistory.through \in Int /\ NoHistory.through < 0 /\ NoHistory.missed = {}
  BY NoHistoryIs
<1>4. DOMAIN << >> = {} /\ Fitting(messages, << >>) /\ DeletedAre(messages, << >>, deletedIds)
  BY <1>t DEF Fitting, DeletedAre
<1>5. \A x \in DOMAIN view : x \in 1..Len(messages)
  BY <1>t, FittingIs
<1>6. ms2 \subseteq 1..Len(messages)
  BY <1>t, <1>1, <1>5 DEF HistoryIs
<1>7. /\ ReactionsCome(messages, events, ms2, NoHistory, << >>, snapshots)
      /\ MessagesCome(messages, events, ms2, NoHistory, << >>)
  BY <1>t, <1>1, <1>3, <1>4 DEF ReactionsCome, UpToDate, MessagesCome, Arrived
<1>8. \A n : Reached(messages, events, missed, history, view, n) =>
             Reached(messages, events, ms2, NoHistory, << >>, n)
  BY <1>1 DEF Reached, Arrived
<1>9. ChatIs(messages, events, answer, ms2, NoHistory, << >>, snapshots, deletedIds, watermark, delivered, readHere)
  BY <1>t, <1>3, <1>4, <1>6, <1>7, <1>8 DEF ChatIs
<1> QED
  BY <1>t, <1>2, <1>9 DEF ChatInv

\* The socket joins and leaves the room.
LEMMA RoomIsHeard == ASSUME ChatInv, RoomHears PROVE ChatInv'
BY DEF RoomHears, roomVars, wireVars, shownVars, ChatInv

\* PUT read-state, once what was loaded is looked at.
LEMMA ReadIsMarked == ASSUME ChatInv, MarkRead PROVE ChatInv'
<1>t. /\ messages \in Seq(ChatMessages) /\ joined \subseteq People /\ Reader \in joined /\ Len(messages) \in Nat
      /\ cursor \in [People -> Nat] /\ since \in [People -> Nat] /\ \A u \in People : since[u] <= cursor[u]
  BY ChatIsTyped DEF MembersAre
<1>w. watermark \in Int
  BY ChatIsTyped DEF Reached
<1>1. /\ cursor' = [cursor EXCEPT ![Reader] = Larger(cursor[Reader], watermark)]
      /\ UNCHANGED <<messages, joined, since, events, answer, missed, online, inside, route, history,
                     view, snapshots, deletedIds, watermark, delivered>>
      /\ readHere' = watermark
  BY DEF MarkRead, PutReadState, Untold, wireVars, shownVars
<1>2. cursor[Reader] \in Nat /\ Reader \in People
  BY <1>t
<1>3. PICK new \in Nat : new = Larger(cursor[Reader], watermark) /\ new >= cursor[Reader]
  BY <1>2, <1>w DEF Larger
<1>4. MembersAre(joined, cursor, since)'
  BY <1>t, <1>1, <1>2, <1>3 DEF MembersAre
<1>5. ChatIs(messages, events, answer, missed, history, view, snapshots, deletedIds, watermark, delivered, watermark)
  BY DEF ChatInv, ChatIs
<1> QED
  BY <1>1, <1>4, <1>5 DEF ChatInv

\* What was on its way is missed.
LEMMA EventsAreMissed ==
    ASSUME NEW m \in Seq(ChatMessages), NEW ev, EventsAre(m, ev), NEW ms, NEW ms2, NEW h, NEW vw, NEW sn,
           ms \subseteq ms2, \A i \in 1..Len(ev) : ev[i].id \in ms2,
           ReactionsCome(m, ev, ms, h, vw, sn), MessagesCome(m, ev, ms, h, vw)
    PROVE  /\ ReactionsCome(m, << >>, ms2, h, vw, sn) /\ MessagesCome(m, << >>, ms2, h, vw)
           /\ \A n : Reached(m, ev, ms, h, vw, n) => Reached(m, << >>, ms2, h, vw, n)
BY DEF Heard, Brings, NewOnWay, NewAt, Arrived, ReactionsCome, MessagesCome, Reached

\* The socket goes and comes back.
LEMMA SocketTurns == ASSUME ChatInv, Disconnect \/ Reconnect PROVE ChatInv'
<1>1. CASE Reconnect
  BY <1>1 DEF Reconnect, roomVars, wireVars, clientVars, ChatInv
<1>2. CASE Disconnect
  <2>t. /\ messages \in Seq(ChatMessages) /\ EventsAre(messages, events) /\ AnswerIs(messages, answer)
        /\ missed \subseteq 1..Len(messages)
        /\ HistoryIs(messages, history) /\ Fitting(messages, view) /\ Fitting(messages, snapshots)
        /\ DeletedAre(messages, view, deletedIds)
        /\ ReactionsCome(messages, events, missed, history, view, snapshots)
        /\ MessagesCome(messages, events, missed, history, view)
        /\ Reached(messages, events, missed, history, view, watermark)
        /\ Reached(messages, events, missed, history, view, delivered)
        /\ Reached(messages, events, missed, history, view, readHere)
        /\ MembersAre(joined, cursor, since) /\ (route = "elsewhere" => history = NoHistory)
    BY ChatIsTyped
  <2>1. PICK ms2 : ms2 = missed \cup {events[i].id : i \in DOMAIN events}
    OBVIOUS
  <2>2. /\ UNCHANGED <<messages, joined, cursor, since, answer, route, history,
                       view, snapshots, deletedIds, watermark, delivered, readHere>>
        /\ events' = << >> /\ missed' = ms2 /\ online' = FALSE /\ inside' = FALSE
    BY <1>2, <2>1 DEF Disconnect, roomVars, clientVars
  <2>3. events \in Seq(ChatEvents) /\ DOMAIN events = 1..Len(events)
    BY <2>t, LenProperties DEF EventsAre
  <2>4. \A i \in 1..Len(events) : events[i].id \in 1..Len(messages) /\ events[i].id \in ms2
    BY <2>t, <2>1, <2>3 DEF EventsAre, EventIs, Fits
  <2>5. missed \subseteq ms2 /\ ms2 \subseteq 1..Len(messages)
    BY <2>t, <2>1, <2>3, <2>4
  <2>6. EventsAre(messages, << >>)
    BY DEF EventsAre
  <2>7. /\ ReactionsCome(messages, << >>, ms2, history, view, snapshots)
        /\ MessagesCome(messages, << >>, ms2, history, view)
        /\ \A n : Reached(messages, events, missed, history, view, n) => Reached(messages, << >>, ms2, history, view, n)
    BY <2>t, <2>4, <2>5, EventsAreMissed
  <2>8. ChatIs(messages, << >>, answer, ms2, history, view, snapshots, deletedIds, watermark, delivered, readHere)
    BY <2>t, <2>5, <2>6, <2>7 DEF ChatIs
  <2> QED
    BY <2>t, <2>2, <2>8 DEF ChatInv
<1> QED
  BY <1>1, <1>2

LEMMA ChatStarts == ASSUME RoomInit, ClientInit, Reader \in joined PROVE ChatInv
<1>1. /\ messages = << >> /\ events = << >> /\ answer = NoEvent /\ missed = {} /\ history = NoHistory
      /\ view = << >> /\ snapshots = << >> /\ deletedIds = {} /\ watermark = -1 /\ delivered = 0 /\ readHere = 0
  BY DEF RoomInit, ClientInit, NotLoaded
<1>2. /\ messages \in Seq(ChatMessages) /\ Len(messages) = 0 /\ 1..0 = {} /\ DOMAIN view = {} /\ DOMAIN snapshots = {}
      /\ 1..(-1) = {}
  BY <1>1
<1>3. Fitting(messages, view) /\ Fitting(messages, snapshots)
  BY <1>1, <1>2 DEF Fitting
<1>4. EventsAre(messages, events) /\ AnswerIs(messages, answer) /\ HistoryIs(messages, history)
  BY <1>1, NoHistoryIs DEF EventsAre, AnswerIs
<1>5. DeletedAre(messages, view, deletedIds)
  BY <1>1 DEF DeletedAre
<1>6. /\ ReactionsCome(messages, events, missed, history, view, snapshots)
      /\ MessagesCome(messages, events, missed, history, view)
  BY <1>2 DEF ReactionsCome, MessagesCome
<1>7. /\ Reached(messages, events, missed, history, view, watermark)
      /\ Reached(messages, events, missed, history, view, delivered)
      /\ Reached(messages, events, missed, history, view, readHere)
  BY <1>1, <1>2 DEF Reached
<1>8. ChatIs(messages, events, answer, missed, history, view, snapshots, deletedIds, watermark, delivered, readHere)
  BY <1>1, <1>2, <1>3, <1>4, <1>5, <1>6, <1>7 DEF ChatIs
<1>9. MembersAre(joined, cursor, since)
  BY RoomAssumption DEF RoomInit, MembersAre
<1> QED
  BY <1>1, <1>8, <1>9 DEF ChatInv, RoomInit

LEMMA ChatInduct == ASSUME ChatInv, [ChatNext]_chatVars PROVE ChatInv'
<1>1. CASE MessageRequest /\ UNCHANGED clientVars
  BY <1>1, MessageRequestKeeps
<1>2. CASE ReactionRequest /\ UNCHANGED clientVars
  BY <1>2, ReactionRequestKeeps
<1>3. CASE MembershipRequest /\ Reader \in joined' /\ UNCHANGED clientVars
  BY <1>3, MembershipRequestKeeps
<1>4. CASE ClientStep
  BY <1>4, AnswerIsTaken, EventIsTaken, RoomTurns, RoomIsHeard, HistoryIsServed, HistoryIsLoaded, HistoryIsGivenUp,
     ReadIsMarked, SocketTurns DEF ClientStep
<1>5. CASE UNCHANGED chatVars
  BY <1>5 DEF ChatInv, chatVars, roomVars, wireVars, clientVars
<1> QED
  BY <1>1, <1>2, <1>3, <1>4, <1>5 DEF ChatNext, RoomNext

LEMMA ChatInvHolds == ASSUME ChatInv PROVE ChatHolds
<1>t. /\ messages \in Seq(ChatMessages) /\ EventsAre(messages, events)
      /\ HistoryIs(messages, history) /\ Fitting(messages, view) /\ Fitting(messages, snapshots)
      /\ DeletedAre(messages, view, deletedIds)
      /\ ReactionsCome(messages, events, missed, history, view, snapshots)
      /\ Reached(messages, events, missed, history, view, readHere)
      /\ MembersAre(joined, cursor, since)
      /\ Len(messages) \in Nat /\ DOMAIN messages = 1..Len(messages)
  BY ChatIsTyped
<1>1. ReactionsSettle
  <2> SUFFICES ASSUME ChatAtRest, NEW id \in (Shown \cap LiveMessage) \ missed
               PROVE  view[id] = State(messages[id])
    BY DEF ReactionsSettle
  <2>1. /\ id \in DOMAIN view /\ id \in 1..Len(messages) /\ messages[id].live /\ id \notin missed
        /\ events = << >> /\ history = NoHistory
    BY <1>t DEF ChatAtRest, Shown, LiveMessage
  <2>2. id \notin missed \cup history.missed
    BY <2>1 DEF NoHistory
  <2>3. Heard(messages, events, snapshots, id) \/ UpToDate(messages, view, id)
    BY <1>t, <2>1, <2>2 DEF ReactionsCome
  <2>4. /\ view[id].version \in Nat /\ messages[id].version \in Nat /\ view[id].version <= messages[id].version
        /\ Fits(messages, id, view[id])
    BY <1>t, <2>1, FittingIs DEF Fitting
  <2>5. view[id].version = messages[id].version
    BY <1>t, <2>1, <2>4, <2>3 DEF UpToDate, ReactionsCome, Heard
  <2> QED
    BY <2>1, <2>4, <2>5 DEF Fits
<1>2. DeletedStaysGone
  BY <1>t DEF DeletedStaysGone, DeletedAre, Shown
<1>3. RejoinStartsClean
  BY <1>t DEF RejoinStartsClean, MembersAre, Unread, LiveMessage
<1>4. UnseenStaysUnread
  <2> SUFFICES ASSUME NEW id \in 1..readHere
               PROVE  \/ id \in Shown \cup missed \cup history.missed \cup deletedIds
                      \/ id \notin LiveMessage \/ messages[id].by = Reader
                      \/ FilledAfter(id)
    BY DEF UnseenStaysUnread
  <2>1. Arrived(messages, missed, history, view, id) \/ (NewOnWay(events, id) /\ Overtook(messages, id))
    BY <1>t DEF Reached
  <2>2. CASE Arrived(messages, missed, history, view, id)
    BY <2>2 DEF Arrived, Shown, LiveMessage
  <2>3. CASE NewOnWay(events, id) /\ Overtook(messages, id)
    BY <1>t, LenProperties, <2>3 DEF EventsAre, NewOnWay, NewAt, Overtook, OwnWave, FilledAfter
  <2> QED
    BY <2>1, <2>2, <2>3
<1> QED
  BY <1>1, <1>2, <1>3, <1>4 DEF ChatHolds, ViewSettles, ReadStateHolds

\* Messages, reactions and what was read: whatever order answers, events and
\* histories come in, and whatever the socket loses, the client's view comes to rest
\* as the room is, the deleted stay gone, a member who returns starts clean, and only
\* what came to the view is reported as read, but for messages too old for a history's
\* limit and the passing exceptions of UnseenStaysUnread (useChatController.ts, messages.ts).
THEOREM ChatHoldsAlways == ChatSpec => []ChatHolds
<1>1. RoomInit /\ ClientInit /\ Reader \in joined => ChatInv
  BY ChatStarts
<1>2. ChatInv /\ [ChatNext]_chatVars => ChatInv'
  BY ChatInduct
<1>3. ChatInv => ChatHolds
  BY ChatInvHolds
<1> QED
  BY <1>1, <1>2, <1>3, PTL DEF ChatSpec

=============================================================================
