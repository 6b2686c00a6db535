-------------------------- MODULE SessionRegistry --------------------------
(***************************************************************************)
(* What the durable token table promises (TokenRepository): a session      *)
(* family is opened once, its refresh token only ever moves to the next    *)
(* number while the family is active, and a revoked family is over for     *)
(* good.                                                                   *)
(***************************************************************************)
EXTENDS Naturals

CONSTANTS Users, Families, OwnerOf

VARIABLES state, token

Init ==
    /\ state = [f \in Families |-> "unused"]
    /\ token = [f \in Families |-> 0]

\* The first refresh token of a session is stored.
Open(f) ==
    /\ state[f] = "unused"
    /\ state' = [state EXCEPT ![f] = "active"]
    /\ token' = [token EXCEPT ![f] = 1]

\* One refresh replaces the current token by its successor.
Rotate(f) ==
    /\ state[f] = "active"
    /\ token' = [token EXCEPT ![f] = @ + 1]
    /\ UNCHANGED state

\* Some active sessions of one user end together.
End(u, F) ==
    /\ \A f \in F : OwnerOf[f] = u /\ state[f] = "active"
    /\ state' = [f \in Families |-> IF f \in F THEN "revoked" ELSE state[f]]
    /\ UNCHANGED token

\* Rows past their expiry disappear, revoked or not.
Purge(F) ==
    /\ \A f \in F : state[f] \in {"active", "revoked"}
    /\ state' = [f \in Families |-> IF f \in F THEN "deleted" ELSE state[f]]
    /\ UNCHANGED token

Next ==
    \/ \E f \in Families : Open(f) \/ Rotate(f)
    \/ \E u \in Users, F \in SUBSET Families : End(u, F)
    \/ \E F \in SUBSET Families : Purge(F)

Spec == Init /\ [][Next]_<<state, token>>

=============================================================================
