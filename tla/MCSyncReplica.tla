--------------------------- MODULE MCSyncReplica ----------------------------
(* Small instances of SyncReplica for TLC. *)
EXTENDS SyncReplica, TLC

CONSTANTS o1, o2, k1

\* The second operation depends on the first; both write the same record.
Chain == [o \in Ops |-> IF o = o2 THEN {o1} ELSE {}]
Alone == [o \in Ops |-> {}]
OneRecord == [o \in Ops |-> k1]
Symmetry == Permutations(Callers)

\* Rights change and rows are cancelled, or the server is restored.
RightsOrRestore ==
    epoch > 1 => generation = 1 /\ \A o \in Ops : outbox[o].state # "cancelled"

=============================================================================
