--------------------------- MODULE CredentialAuthority ---------------------------
(***************************************************************************)
(* What credential refresh promises about the account authority, without   *)
(* locks, processes, journals or failures: a label's credential changes    *)
(* because the account owner changed it, or because it was rotated, in     *)
(* place, into the very credential the provider returned for it.  Nothing  *)
(* else is ever written: no newer credential is overwritten, no removed or *)
(* renamed label comes back, no old credential returns.                    *)
(***************************************************************************)
CONSTANTS Label, Cred, Setup, Absent, None

VARIABLES
  held,    \* the credential each label holds, or Setup, or Absent
  known,   \* credentials that exist
  origin   \* the credential an exchange returned each one for

vars == <<held, known, origin>>

Init ==
  /\ held \in [Label -> Cred \cup {Setup, Absent}]
  /\ known = {c \in Cred : \E l \in Label : held[l] = c}
  /\ origin = [c \in Cred |-> None]

\* The provider returns a credential that did not exist for an existing one.
Answer(c, d) ==
  /\ c \in known /\ d \notin known
  /\ known' = known \cup {d}
  /\ origin' = [origin EXCEPT ![d] = c]
  /\ UNCHANGED held

Rotate(l, d) ==
  /\ held[l] \in known
  /\ origin[d] = held[l]
  /\ held' = [held EXCEPT ![l] = d]
  /\ UNCHANGED <<known, origin>>

Login(l, d) ==
  /\ d \notin known
  /\ known' = known \cup {d}
  /\ held' = [held EXCEPT ![l] = d]
  /\ UNCHANGED origin

Replace(l, v) ==
  /\ v \in {Setup, Absent}
  /\ held' = [held EXCEPT ![l] = v]
  /\ UNCHANGED <<known, origin>>

Rename(l, m) ==
  /\ held[l] # Absent /\ held[m] = Absent
  /\ held' = [held EXCEPT ![m] = held[l], ![l] = Absent]
  /\ UNCHANGED <<known, origin>>

Reset ==
  /\ held' = [l \in Label |-> Absent]
  /\ UNCHANGED <<known, origin>>

Next ==
  \/ \E c, d \in Cred : Answer(c, d)
  \/ \E l \in Label, d \in Cred : Rotate(l, d) \/ Login(l, d)
  \/ \E l \in Label, v \in {Setup, Absent} : Replace(l, v)
  \/ \E l, m \in Label : Rename(l, m)
  \/ Reset

Spec == Init /\ [][Next]_vars

=============================================================================
