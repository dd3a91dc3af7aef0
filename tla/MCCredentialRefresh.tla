--------------------------- MODULE MCCredentialRefresh ---------------------------
(***************************************************************************)
(* Small instances of CredentialRefresh for TLC.                           *)
(***************************************************************************)
EXTENDS CredentialRefresh, TLC

CONSTANTS p1, p2, a, b, c1, c2, c3, c4, t1, t2, t3

\* c1 and c2 carry one refresh token: a provider may answer c2 for c1 without
\* rotating it.  c3 and c4 each carry their own.
MCRefreshToken ==
  [c \in Cred |-> ((c1 :> t1) @@ (c2 :> t1) @@ (c3 :> t2) @@ (c4 :> t3))[c]]

\* The directory of the first label is listed first.
MCRank == [l \in Label |-> IF l = a THEN 1 ELSE 2]

\* The first label holds a login; the second is free to rename to, or holds another.
OneAccount == Init /\ store = (a :> c1) @@ (b :> Absent)
TwoAccounts == Init /\ store = (a :> c1) @@ (b :> c3)

SpecOneAccount == OneAccount /\ [][Next]_vars
FairSpecTwoAccounts == TwoAccounts /\ [][Next]_vars /\ Fairness

\* Bound: no migration, rollback preparation or reset runs.
NoLifecycleCommand == \A p \in Proc : pc[p] # "exclude"

\* Bound: one command of the owner or one failure, anywhere.
OneChange == edits + faults <= 1

\* Bound: each process forces a refresh of an account of its own.
OneEach ==
  \A p \in Proc :
    op[p].task = "refresh" => op[p].forced /\ op[p].target = (IF p = p1 THEN a ELSE b)

Processes == Permutations({p1, p2})

=============================================================================
