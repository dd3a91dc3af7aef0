------------------------------- MODULE MCCommands -------------------------------
(***************************************************************************)
(* What the owner's commands do besides commits of the store: moving the   *)
(* accounts between locations, and adding, refreshing, exporting and       *)
(* restoring credentials.  The first excludes every other command and they *)
(* share no variable: a behaviour runs one of the two.                     *)
(***************************************************************************)
EXTENDS LocationMove, CredentialChanges, TLC

VARIABLE running
commandsVars == <<vars, changeVars, running>>

(* What does not run begins in one of its initial states.                  *)
Quiet ==
  /\ running = "move" \/ (\A r \in LocationRole : auth[r] = Absent /\ prototype = "EMPTY")
  /\ running = "changes" \/ accounts["l"].cred.kind = "setup"

CommandsInit ==
  running \in {"move", "changes"} /\ Init /\ ChangesInit /\ Quiet

CommandsNext ==
  \/ running = "move" /\ Next /\ UNCHANGED <<changeVars, running>>
  \/ running = "changes" /\ ChangesNext /\ UNCHANGED <<vars, running>>

CommandsSpec == CommandsInit /\ [][CommandsNext]_commandsVars

Tokens == Permutations(Owner) \cup Permutations(Serial)
=============================================================================
