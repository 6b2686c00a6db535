--------------------------- MODULE MCOfflineReads ---------------------------
EXTENDS OfflineReads, FiniteSets, TLC

Known == {u \in Accounts : selected = u \/ row[u].status # "none" \/ \E t \in Tabs : user[t] = u}
\* Reads change nothing others see, so one at a time is enough; no hazard here
\* takes more than three workers at once.
Busy ==
  /\ Cardinality({p \in Workers : job[p].at # "idle"}) <= 3
  /\ Cardinality({t \in Tabs : job[Reader(t)].at # "idle"}) <= 1
\* An edit whose tab may die, an edit while the offer changes (one tab signed in),
\* a lock, or a second account: one in a behaviour.
OneTrouble ==
  \/ /\ Cardinality(Known) < 2 /\ count.switches <= 2
     /\ count.locks + count.offers = 0 /\ count.crashes <= count.edits
  \/ Cardinality(Known) < 2 /\ count.switches <= 1 /\ count.locks + count.crashes = 0
  \/ /\ Cardinality(Known) < 2 /\ count.switches <= 2
     /\ count.edits + count.crashes + count.offers = 0
  \/ count.edits + count.locks + count.crashes + count.offers = 0
Bounded == Busy /\ OneTrouble
\* Tabs start alike and no fairness is stated of one of them; the same holds of accounts.
Symmetry == Permutations(Tabs) \union Permutations(Accounts)
=============================================================================
