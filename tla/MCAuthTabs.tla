----------------------------- MODULE MCAuthTabs -----------------------------
(* Small instances of AuthTabs for TLC. *)
EXTENDS AuthTabs, TLC

\* Profile requests, or two refreshes; these with two sessions, or with a logout
\* or password change; a third one only of the session of the opened pages that
\* nobody has ended.
Combinations ==
    /\ refreshes < 2 \/ fetches = 0
    /\ refreshes < 2 \/ issued < 2 \/ exits = 0
    /\ refreshes = 3 => issued = 1 /\ ~asked

Symmetry == Permutations(Tabs)

=============================================================================
