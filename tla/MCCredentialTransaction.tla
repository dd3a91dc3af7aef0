---------------------- MODULE MCCredentialTransaction -----------------------
(* Model values for CredentialTransaction: one bundle of two files.        *)
EXTENDS CredentialTransaction, TLC

CONSTANTS p1, p2, auth, config, other, codex, spare, x, y

OneBundle == auth :> codex @@ config :> codex
Symmetry == Permutations({p1, p2}) \cup Permutations({x, y})
=============================================================================
