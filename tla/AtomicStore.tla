------------------------------- MODULE AtomicStore -------------------------------
(***************************************************************************)
(* What a private credential transaction promises (the docstring of        *)
(* persistence/credential_transactions.py: account-authority and           *)
(* private-bundle coordination): the account authority and the private     *)
(* files change together, in one step, whatever happens on the way.        *)
(***************************************************************************)
EXTENDS Naturals

CONSTANTS
  File,     \* private files
  Content,  \* what a private file may hold
  None      \* no such file

VARIABLES
  generation,  \* the generation of the account authority
  private      \* what each private file holds

vars == <<generation, private>>

Init ==
  /\ generation \in Nat
  /\ private \in [File -> Content \cup {None}]

\* A new generation comes with its private files.
Commit ==
  /\ generation' = generation + 1
  /\ private' \in [File -> Content \cup {None}]

Next == Commit

Spec == Init /\ [][Next]_vars

=============================================================================
