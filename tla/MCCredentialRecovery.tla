------------------------ MODULE MCCredentialRecovery ------------------------
(* Small instances of CredentialRecovery for TLC. *)
EXTENDS CredentialRecovery, TLC

\* Links, setup tokens and slots are interchangeable names.
Symmetry == Permutations(Links) \cup Permutations(Setups) \cup Permutations(Slots)

\* Several links and more faults, or setup sessions and more changes of the account.
InUse(op) == \E s \in Slots : req[s].op = op
Minted == Cardinality({j \in Links : link[j].fate # "unused"})
LinksOrSetups ==
    \/ /\ \A k \in Setups : setup[k].status = "unused"
       /\ ~InUse("login") /\ ~InUse("setup")
       /\ count.changes <= 1 /\ count.changes + count.faults <= 2
    \/ /\ ~InUse("forgot") /\ ~InUse("resend")
       /\ Minted + count.changes + count.faults + count.work <= 5
=============================================================================
