-------------------------- MODULE OperationLedger ---------------------------
(***************************************************************************)
(* What synchronization promises for the operations of one account: each   *)
(* is decided at most once, after the operations it depends on were        *)
(* acknowledged; the client only believes what was decided; and an         *)
(* operation it withdrew is never decided.                                 *)
(***************************************************************************)
EXTENDS Sequences

CONSTANTS Ops, Dep

VARIABLES
    decisions,  \* the decisions ever taken on each operation
    view        \* what the client believes

Init ==
    /\ decisions = [o \in Ops |-> <<>>]
    /\ view = [o \in Ops |-> "open"]

Decide(o, outcome) ==
    /\ decisions[o] = <<>>
    /\ view[o] = "open"
    /\ \A d \in Dep[o] : decisions[d] = <<"acknowledged">>
    /\ decisions' = [decisions EXCEPT ![o] = <<outcome>>]
    /\ UNCHANGED view

Learn(o) ==
    /\ view[o] = "open"
    /\ decisions[o] # <<>>
    /\ view' = [view EXCEPT ![o] = Head(decisions[o])]
    /\ UNCHANGED decisions

Withdraw(o) ==
    /\ view[o] = "open"
    /\ decisions[o] = <<>>
    /\ view' = [view EXCEPT ![o] = "withdrawn"]
    /\ UNCHANGED decisions

Next ==
    \E o \in Ops :
        \/ \E outcome \in {"acknowledged", "refused", "blocked"} :
             Decide(o, outcome)
        \/ Learn(o)
        \/ Withdraw(o)

Spec == Init /\ [][Next]_<<decisions, view>>

=============================================================================
