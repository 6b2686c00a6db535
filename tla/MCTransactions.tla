--------------------------- MODULE MCTransactions ---------------------------
(* Small instances of Transactions for TLC. *)
EXTENDS Transactions, TLC

CONSTANTS d1, d2, r1

\* Runs on the second database happen inside runs on the first.
Nesting == {<<d1, d2>>}
\* One request retries, nests and registers callbacks; the other contends for
\* the queues.
OneBusy == [r \in Requests |-> IF r = r1 THEN 2 ELSE 0]
OneRetries == [r \in Requests |-> IF r = r1 THEN 2 ELSE 1]

=============================================================================
