---------------------------- MODULE OneTimeGrant ----------------------------
(***************************************************************************)
(* What a way in promises, whatever its routes look like.  A grant is issued *)
(* by somebody signed in; a Device presents itself; the issuer approves the  *)
(* Device that presented itself, or turns it away; an approved grant lets    *)
(* that Device in once.  It may be void at any time before that, and stays   *)
(* so.  DeviceLinks and DesktopAuthorization implement it.                   *)
(***************************************************************************)
EXTENDS Naturals

CONSTANT Grants

VARIABLES
    stage,      \* of a grant: where it has got to
    presented,  \* of a grant: how many Devices have presented themselves
    waiting     \* of a grant: the latest of them has not been turned away

grantVars == <<stage, presented, waiting>>

Init ==
    /\ stage = [g \in Grants |-> "none"]
    /\ presented = [g \in Grants |-> 0]
    /\ waiting = [g \in Grants |-> FALSE]

\* Nobody replaces a Device that is waiting for its answer.
Present(g) ==
    /\ stage[g] = "open" /\ ~waiting[g]
    /\ presented' = [presented EXCEPT ![g] = @ + 1]
    /\ waiting' = [waiting EXCEPT ![g] = TRUE]
    /\ UNCHANGED stage

TurnAway(g) ==
    /\ stage[g] = "open" /\ waiting[g]
    /\ waiting' = [waiting EXCEPT ![g] = FALSE]
    /\ UNCHANGED <<stage, presented>>

Approve(g) ==
    /\ stage[g] = "open" /\ waiting[g]
    /\ stage' = [stage EXCEPT ![g] = "approved"]
    /\ UNCHANGED <<presented, waiting>>

LetIn(g) ==
    /\ stage[g] = "approved"
    /\ stage' = [stage EXCEPT ![g] = "spent"]
    /\ UNCHANGED <<presented, waiting>>

\* One event may end several grants, and issue those that take their place.
VoidAndIssue ==
    /\ stage' = [g \in Grants |-> stage'[g]]
    /\ \A g \in Grants :
         \/ stage'[g] = stage[g]
         \/ stage[g] = "none" /\ stage'[g] = "open"
         \/ stage[g] \in {"open", "approved"} /\ stage'[g] = "void"
    /\ UNCHANGED <<presented, waiting>>

Next ==
    \/ VoidAndIssue
    \/ \E g \in Grants : Present(g) \/ TurnAway(g) \/ Approve(g) \/ LetIn(g)

Spec == Init /\ [][Next]_grantVars

=============================================================================
