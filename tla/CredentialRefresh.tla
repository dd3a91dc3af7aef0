---------------------------- MODULE CredentialRefresh ----------------------------
(***************************************************************************)
(* The provider-neutral refresh of one saved rotating credential, as the   *)
(* coordinator (credentials/refresh.py) and its private transactions       *)
(* (persistence/credential_refresh.py) carry it out, run by several        *)
(* operating-system processes that share one account authority and one     *)
(* private refresh root.                                                   *)
(*                                                                         *)
(* A refresh joins the shared lifecycle lock, resolves the evidence other  *)
(* refreshes left behind, stabilises its target under two hard locks (one  *)
(* named by the refresh token, one by the account label), asks the         *)
(* provider once, stages the answer, merges it into the authority, and     *)
(* removes its evidence.  Migration, rollback preparation and full reset   *)
(* take the lifecycle lock exclusively.  The account owner's commands      *)
(* (login, setup token, remove, rename) take none of these locks and may   *)
(* commit between any two steps.  A process may die, or raise, anywhere.   *)
(*                                                                         *)
(* The account authority is one file replaced under the account lock, so   *)
(* each read_fresh and each commit is one step here.                       *)
(***************************************************************************)
EXTENDS Naturals, FiniteSets

CONSTANTS
  Proc,          \* processes that may refresh, open the store, or migrate
  Label,         \* account labels
  Cred,          \* rotating credentials (an access and a refresh token)
  Token,         \* refresh-token values
  RefreshToken,  \* the refresh token of each credential
  Registered,    \* labels whose provider can refresh them here
  Rank,          \* the place of each label's digest among the directory names
  Setup,         \* the credential of an account that holds a setup token
  Absent,        \* what the authority holds for a label with no account
  None,          \* nobody, nothing
  MaxAttempts,   \* _MAX_STABILIZATION_ATTEMPTS
  MaxEdits,      \* bound: commands of the account owner
  MaxFaults      \* bound: process deaths, raised errors, uncertain commits

ASSUME RefreshTokenAssumption == RefreshToken \in [Cred -> Token]
ASSUME ConstantsAssumption ==
  /\ Registered \subseteq Label
  /\ Rank \in [Label -> Nat]
  /\ Setup \notin Cred /\ Absent \notin Cred /\ None \notin Cred
  /\ Setup # Absent /\ None \notin {Setup, Absent}
  /\ None \notin Proc
ASSUME BoundsAssumption ==
  MaxAttempts \in Nat /\ MaxEdits \in Nat /\ MaxFaults \in Nat

VARIABLES
  store,         \* durable authority: the credential each label holds
  health,        \* durable authority: last_refresh_status of each label
  evidence,      \* durable: the directory named by each label's digest
  shared,        \* holders of the lifecycle lock in shared mode
  exclusive,     \* holder of the lifecycle lock in exclusive mode
  tokenLock,     \* holder of each <token digest>.refresh lock
  evidenceLock,  \* holder of each <label digest>.evidence lock
  pc,            \* the next step of each process
  op,            \* the locals of each process
  issued,        \* history: credentials that exist
  origin,        \* history: the credential an exchange replaced
  refused,       \* history: credentials whose refresh ended in a failure
  settled,       \* history: the target left the credential a stage replaces
  edits, faults  \* counters of the bounded actions

authority == <<store, health>>
locks == <<shared, exclusive, tokenLock, evidenceLock>>
provider == <<issued, origin, refused>>
counters == <<edits, faults>>
vars == <<store, health, evidence, shared, exclusive, tokenLock, evidenceLock,
          pc, op, issued, origin, refused, settled, edits, faults>>

-----------------------------------------------------------------------------
(* Values. *)

Held == Cred \cup {Setup, Absent}
CredOrNone == Cred \cup {None}
Holder == Proc \cup {None}

JournalState == {"none", "intent", "complete", "committed", "uncertain"}

\* One refresh directory: its leftover temporary, intent.json, replacement.json.
Evidence == [dir : BOOLEAN, temp : BOOLEAN, journal : JournalState,
             expected : CredOrNone, digest : CredOrNone, stage : CredOrNone]

NoEvidence == [dir |-> FALSE, temp |-> FALSE, journal |-> "none",
               expected |-> None, digest |-> None, stage |-> None]

Task == {"refresh", "open", "quiesce"}
Step == {"idle", "join", "exclude", "list", "recover", "stabilise",
         "lockToken", "lockEvidence", "intent", "leased", "exchanging",
         "failing", "staging", "completing", "merge", "commit", "journal",
         "clean", "mutating"}

Locals == [task : Task, mode : {"lease", "recover"}, target : Label \cup {None},
           forced : BOOLEAN, observed : Held \cup {None},
           expected : CredOrNone, reply : CredOrNone,
           dir : Label \cup {None}, todo : SUBSET Label,
           attempt : 0..MaxAttempts]

NoLocals == [task |-> "open", mode |-> "lease", target |-> None,
             forced |-> FALSE, observed |-> None, expected |-> None,
             reply |-> None, dir |-> None, todo |-> {}, attempt |-> 0]

\* Two labels may not hold one refresh token (credential_ownership.py).
OwnedElsewhere(l, c) ==
  \E m \in Label \ {l} :
    store[m] \in Cred /\ RefreshToken[store[m]] = RefreshToken[c]

\* relative_bundle_present: the directory holds at least one file.
Present(e) == e.temp \/ e.journal # "none" \/ e.stage # None

\* Mutation: recovery discards a stage whose journal still says "intent".
DiscardableWithStage(e) == e.journal = "intent"

\* What _recover_directory makes of one directory it may read.
Discardable(e) == e.journal = "intent" /\ e.stage = None
Mergeable(e) ==
  /\ e.journal \in {"intent", "complete", "committed"}
  /\ e.stage # None
  /\ e.digest \in {None, e.stage}
Blocked(e) == Present(e) /\ ~Discardable(e) /\ ~Mergeable(e)

Init ==
  /\ store \in [Label -> Held]
  /\ \A l \in Label : store[l] \in Cred => ~OwnedElsewhere(l, store[l])
  /\ health = [l \in Label |-> "ok"]
  /\ evidence = [l \in Label |-> NoEvidence]
  /\ shared = {} /\ exclusive = None
  /\ tokenLock = [t \in Token |-> None]
  /\ evidenceLock = [l \in Label |-> None]
  /\ pc = [p \in Proc |-> "idle"]
  /\ op = [p \in Proc |-> NoLocals]
  /\ issued = {c \in Cred : \E l \in Label : store[l] = c}
  /\ origin = [c \in Cred |-> None]
  /\ refused = {}
  /\ settled = [l \in Label |-> FALSE]
  /\ edits = 0 /\ faults = 0

-----------------------------------------------------------------------------
(* Leaving: every with-block the process is in unwinds. *)

ReleaseOperation(p) ==
  /\ tokenLock' = [t \in Token |-> IF tokenLock[t] = p THEN None ELSE tokenLock[t]]
  /\ evidenceLock' =
       [l \in Label |-> IF evidenceLock[l] = p THEN None ELSE evidenceLock[l]]

ReleaseAll(p) ==
  /\ ReleaseOperation(p)
  /\ shared' = shared \ {p}
  /\ exclusive' = IF exclusive = p THEN None ELSE exclusive

End(p) ==
  /\ pc' = [pc EXCEPT ![p] = "idle"]
  /\ op' = [op EXCEPT ![p] = NoLocals]
  /\ ReleaseAll(p)

Goto(p, step) == pc' = [pc EXCEPT ![p] = step]

-----------------------------------------------------------------------------
(* Starting and joining the lifecycle. *)

\* refresh(): observe the target; a setup token is refused without a lock.
BeginRefresh(p, l, f) ==
  /\ pc[p] = "idle"
  /\ store[l] # Setup
  /\ op' = [op EXCEPT ![p] = [NoLocals EXCEPT !.task = "refresh", !.target = l,
                                              !.forced = f, !.observed = store[l]]]
  /\ Goto(p, "join")
  /\ UNCHANGED <<authority, evidence, locks, provider, counters>>

\* Every store-backed command recovers refresh evidence when it is composed.
OpenStore(p) ==
  /\ pc[p] = "idle"
  /\ op' = [op EXCEPT ![p] = NoLocals]
  /\ Goto(p, "join")
  /\ UNCHANGED <<authority, evidence, locks, provider, counters>>

BeginQuiesce(p) ==
  /\ pc[p] = "idle"
  /\ op' = [op EXCEPT ![p] = [NoLocals EXCEPT !.task = "quiesce"]]
  /\ Goto(p, "exclude")
  /\ UNCHANGED <<authority, evidence, locks, provider, counters>>

\* hold_lifecycle
Join(p) ==
  /\ pc[p] = "join"
  /\ exclusive = None
  /\ shared' = shared \cup {p}
  /\ Goto(p, "list")
  /\ UNCHANGED <<authority, evidence, exclusive, tokenLock, evidenceLock, op,
                 provider, counters>>

\* Mutation: exclusion does not wait for the refreshes inside the lifecycle.
ExcludeAtOnce(p) ==
  /\ pc[p] = "exclude"
  /\ exclusive = None
  /\ exclusive' = p
  /\ Goto(p, "list")
  /\ UNCHANGED <<authority, evidence, shared, tokenLock, evidenceLock, op, provider,
                 counters>>

\* hold_quiescent: exclude, then require every operation lock to be free.
Exclude(p) ==
  /\ pc[p] = "exclude"
  /\ shared = {} /\ exclusive = None
  /\ IF \A t \in Token, l \in Label : tokenLock[t] = None /\ evidenceLock[l] = None
     THEN exclusive' = p /\ Goto(p, "list") /\ UNCHANGED op
     ELSE exclusive' = None /\ Goto(p, "idle") /\ op' = [op EXCEPT ![p] = NoLocals]
  /\ UNCHANGED <<authority, evidence, shared, tokenLock, evidenceLock, provider,
                 counters>>

-----------------------------------------------------------------------------
(* Recovery of the evidence other refreshes left. *)

\* recover(): list the directories.  A quiescent owner that finds none is done.
ListDirectories(p) ==
  /\ pc[p] = "list"
  /\ LET found == {l \in Label : evidence[l].dir}
     IN  /\ op' = [op EXCEPT ![p].todo = found]
         /\ Goto(p, IF op[p].task = "quiesce" /\ found = {}
                    THEN "mutating" ELSE "recover")
  /\ UNCHANGED <<authority, evidence, locks, provider, counters>>

\* The directories are taken in the order of their names.
NextDirectory(p, l) == l \in op[p].todo /\ \A m \in op[p].todo : Rank[l] <= Rank[m]

\* Mutation: any directory may be skipped.
RecoverSkipAny(p, l) ==
  /\ pc[p] = "recover"
  /\ NextDirectory(p, l)
  /\ op' = [op EXCEPT ![p].todo = @ \ {l}]
  /\ UNCHANGED <<authority, evidence, locks, pc, provider, counters>>

\* A directory another process owns is skipped, and so is an empty or a gone one.
RecoverSkip(p, l) ==
  /\ pc[p] = "recover"
  /\ NextDirectory(p, l)
  /\ evidenceLock[l] # None \/ ~Present(evidence[l])
  /\ op' = [op EXCEPT ![p].todo = @ \ {l}]
  /\ UNCHANGED <<authority, evidence, locks, pc, provider, counters>>

RecoverTake(p, l) ==
  /\ pc[p] = "recover"
  /\ NextDirectory(p, l)
  /\ evidenceLock[l] = None
  /\ Discardable(evidence[l]) \/ Mergeable(evidence[l])
  /\ evidenceLock' = [evidenceLock EXCEPT ![l] = p]
  /\ op' = [op EXCEPT ![p].mode = "recover", ![p].dir = l,
                      ![p].todo = @ \ {l}]
  /\ Goto(p, IF Discardable(evidence[l]) THEN "clean" ELSE "merge")
  /\ UNCHANGED <<authority, evidence, shared, exclusive, tokenLock, provider,
                 counters>>

\* One directory that cannot be resolved stops the whole operation: those behind
\* it are not looked at.
RecoverBlocked(p, l) ==
  /\ pc[p] = "recover"
  /\ NextDirectory(p, l)
  /\ evidenceLock[l] = None
  /\ Blocked(evidence[l])
  /\ End(p)
  /\ UNCHANGED <<authority, evidence, provider, counters>>

Recovered(p) == pc[p] = "recover" /\ op[p].todo = {}

RefreshRecovered(p) ==
  /\ Recovered(p)
  /\ op[p].task = "refresh"
  /\ Goto(p, "stabilise")
  /\ UNCHANGED <<authority, evidence, locks, op, provider, counters>>

\* A lifecycle mutation goes on only when assess() now says clean.
QuiesceRecovered(p) ==
  /\ Recovered(p)
  /\ op[p].task = "quiesce"
  /\ \A l \in Label : ~evidence[l].dir
  /\ Goto(p, "mutating")
  /\ UNCHANGED <<authority, evidence, locks, op, provider, counters>>

RecoveryEnds(p) ==
  /\ Recovered(p)
  /\ \/ op[p].task = "open"
     \/ op[p].task = "quiesce" /\ \E l \in Label : evidence[l].dir
  /\ End(p)
  /\ UNCHANGED <<authority, evidence, provider, counters>>

-----------------------------------------------------------------------------
(* hold_stable: a lease on the target the two locks are proven to match. *)

\* Mutation: stabilisation never gives up.
StabiliseForever(p) ==
  /\ pc[p] = "stabilise"
  /\ store[op[p].target] \in Cred
  /\ op' = [op EXCEPT ![p].expected = store[op[p].target], ![p].attempt = @ + 1]
  /\ Goto(p, "lockToken")
  /\ UNCHANGED <<authority, evidence, locks, provider, counters>>

\* Read the target and remember its credential.
Stabilise(p) ==
  /\ pc[p] = "stabilise"
  /\ op[p].attempt < MaxAttempts
  /\ store[op[p].target] \in Cred
  /\ op' = [op EXCEPT ![p].expected = store[op[p].target], ![p].attempt = @ + 1]
  /\ Goto(p, "lockToken")
  /\ UNCHANGED <<authority, evidence, locks, provider, counters>>

\* The target is gone, no longer rotates, or has kept changing.
StabiliseFails(p) ==
  /\ pc[p] = "stabilise"
  /\ op[p].attempt = MaxAttempts \/ store[op[p].target] \notin Cred
  /\ End(p)
  /\ UNCHANGED <<authority, evidence, provider, counters>>

\* Whether the target, read again, still holds the credential remembered.
Stable(p) == store[op[p].target] = op[p].expected

\* Mutation: the operation lock is named by the label, which the evidence lock
\* already excludes.
LockLabel(p) ==
  /\ pc[p] = "lockToken"
  /\ Stable(p)
  /\ tokenLock' = [tokenLock EXCEPT ![RefreshToken[op[p].expected]] = p]
  /\ Goto(p, "lockEvidence")
  /\ UNCHANGED <<authority, evidence, shared, exclusive, evidenceLock, op,
                 provider, counters>>

LockToken(p) ==
  /\ pc[p] = "lockToken"
  /\ tokenLock[RefreshToken[op[p].expected]] = None
  /\ Stable(p)
  /\ tokenLock' = [tokenLock EXCEPT ![RefreshToken[op[p].expected]] = p]
  /\ Goto(p, "lockEvidence")
  /\ UNCHANGED <<authority, evidence, shared, exclusive, evidenceLock, op,
                 provider, counters>>

LockEvidence(p) ==
  /\ pc[p] = "lockEvidence"
  /\ evidenceLock[op[p].target] = None
  /\ Stable(p)
  /\ ~Present(evidence[op[p].target])
  /\ evidenceLock' = [evidenceLock EXCEPT ![op[p].target] = p]
  /\ op' = [op EXCEPT ![p].mode = "lease", ![p].dir = op[p].target]
  /\ Goto(p, "intent")
  /\ UNCHANGED <<authority, evidence, shared, exclusive, tokenLock, provider,
                 counters>>

\* The target changed while the lock was waited for: release and try again.
TargetChanged(p) ==
  /\ \/ /\ pc[p] = "lockToken"
        /\ tokenLock[RefreshToken[op[p].expected]] = None
     \/ /\ pc[p] = "lockEvidence"
        /\ evidenceLock[op[p].target] = None
  /\ ~Stable(p)
  /\ ReleaseOperation(p)
  /\ Goto(p, "stabilise")
  /\ UNCHANGED <<authority, evidence, shared, exclusive, op, provider, counters>>

\* Evidence appeared, or was left by a rename, since recovery looked.
EvidenceInTheWay(p) ==
  /\ pc[p] = "lockEvidence"
  /\ evidenceLock[op[p].target] = None
  /\ Stable(p)
  /\ Present(evidence[op[p].target])
  /\ End(p)
  /\ UNCHANGED <<authority, evidence, provider, counters>>

WriteIntent(p) ==
  /\ pc[p] = "intent"
  /\ evidence' = [evidence EXCEPT ![op[p].dir].dir = TRUE,
                                  ![op[p].dir].journal = "intent",
                                  ![op[p].dir].expected = op[p].expected]
  /\ Goto(p, "leased")
  /\ UNCHANGED <<authority, locks, op, provider, counters>>

-----------------------------------------------------------------------------
(* The exchange. *)

\* An unforced caller is satisfied by a rotation that happened meanwhile.
Satisfied(p) ==
  /\ ~op[p].forced
  /\ op[p].observed \notin {Absent, op[p].expected}

\* finish_without_exchange, also for a provider that cannot refresh here.
SkipExchange(p) ==
  /\ pc[p] = "leased"
  /\ op[p].target \notin Registered \/ Satisfied(p)
  /\ Goto(p, "clean")
  /\ UNCHANGED <<authority, evidence, locks, op, provider, counters>>

StartExchange(p) ==
  /\ pc[p] = "leased"
  /\ op[p].target \in Registered /\ ~Satisfied(p)
  /\ Goto(p, "exchanging")
  /\ UNCHANGED <<authority, evidence, locks, op, provider, counters>>

\* A provider answers with a new credential: its refresh token is new too, or,
\* when the response names none, the one that was sent.
FreshToken(c) == \A d \in issued : RefreshToken[d] # RefreshToken[c]

ProviderReplies(p, c) ==
  /\ pc[p] = "exchanging"
  /\ c \notin issued
  /\ RefreshToken[c] = RefreshToken[op[p].expected] \/ FreshToken(c)
  /\ issued' = issued \cup {c}
  /\ origin' = [origin EXCEPT ![c] = op[p].expected]
  /\ op' = [op EXCEPT ![p].reply = c]
  /\ Goto(p, "staging")
  /\ UNCHANGED <<authority, evidence, locks, refused, counters>>

\* The provider refuses, or the companion state of its answer cannot be made.
ExchangeFails(p) ==
  /\ pc[p] \in {"exchanging", "staging"}
  /\ refused' = refused \cup {op[p].expected}
  /\ Goto(p, "failing")
  /\ UNCHANGED <<authority, evidence, locks, op, issued, origin, counters>>

\* Mutation: the target is marked whatever it holds by now.
RecordFailureBlindly(p) ==
  /\ pc[p] = "failing"
  /\ health' = [health EXCEPT ![op[p].target] = "failed"]
  /\ Goto(p, "clean")
  /\ UNCHANGED <<store, evidence, locks, op, provider, counters>>

\* persist_failure_if_current: only an unchanged target is marked.
RecordFailure(p) ==
  /\ pc[p] = "failing"
  /\ health' = IF Stable(p) THEN [health EXCEPT ![op[p].target] = "failed"]
                            ELSE health
  /\ Goto(p, "clean")
  /\ UNCHANGED <<store, evidence, locks, op, provider, counters>>

-----------------------------------------------------------------------------
(* commit_success: stage, mark complete, merge, mark committed. *)

WriteStage(p) ==
  /\ pc[p] = "staging"
  /\ evidence' = [evidence EXCEPT ![op[p].dir].stage = op[p].reply]
  /\ Goto(p, "completing")
  /\ UNCHANGED <<authority, locks, op, provider, counters>>

CompleteJournal(p) ==
  /\ pc[p] = "completing"
  /\ IF evidence[op[p].dir].journal = "intent"
     THEN /\ evidence' = [evidence EXCEPT ![op[p].dir].journal = "complete",
                                          ![op[p].dir].digest = op[p].reply]
          /\ Goto(p, "merge")
          /\ UNCHANGED <<op, locks>>
     ELSE End(p) /\ UNCHANGED evidence
  /\ UNCHANGED <<authority, provider, counters>>

\* Where _merge_staged returns to: a lease that merged marks its journal,
\* recovery and a vanished target go straight to the removal of the evidence.
AfterMerge(p) == IF op[p].mode = "lease" THEN "journal" ELSE "clean"

\* _merge_staged up to its decision: already merged, overtaken, or to be merged.
MergeRead(p) ==
  /\ pc[p] = "merge"
  /\ LET l == op[p].dir
         e == evidence[l]
     IN  \/ store[l] = e.stage /\ Goto(p, AfterMerge(p))
         \/ store[l] \notin {Setup, e.stage, e.expected} /\ Goto(p, "clean")
         \/ store[l] = e.expected /\ Goto(p, "commit")
  /\ UNCHANGED <<authority, evidence, locks, op, provider, counters>>

\* The credential kind of a setup token is an error, not a mismatch.
MergeRaises(p) ==
  /\ pc[p] = "merge"
  /\ store[op[p].dir] = Setup
  /\ End(p)
  /\ UNCHANGED <<authority, evidence, provider, counters>>

\* merge_credential_refresh: compare again under the account lock, then commit.
\* A duplicate owner raises there; credentials the provider issues carry tokens
\* of their own (FreshToken), so no exchange leads to one.
Installed(l, c) ==
  /\ store' = [store EXCEPT ![l] = c]
  /\ health' = [health EXCEPT ![l] = "ok"]

\* Mutation: the commit trusts the comparison MergeRead made before it.
MergeCommitUnchecked(p) ==
  /\ pc[p] = "commit"
  /\ Installed(op[p].dir, evidence[op[p].dir].stage)
  /\ Goto(p, AfterMerge(p))
  /\ UNCHANGED <<evidence, locks, op, provider, counters>>

MergeCommit(p) ==
  /\ pc[p] = "commit"
  /\ LET l == op[p].dir
         e == evidence[l]
     IN  IF store[l] = e.expected
         THEN /\ ~OwnedElsewhere(l, e.stage)
              /\ Installed(l, e.stage)
              /\ Goto(p, AfterMerge(p))
         ELSE /\ UNCHANGED authority
              /\ Goto(p, IF store[l] = Absent THEN "clean" ELSE AfterMerge(p))
  /\ UNCHANGED <<evidence, locks, op, provider, counters>>

CommitJournal(p) ==
  /\ pc[p] = "journal"
  /\ evidence' = [evidence EXCEPT ![op[p].dir].journal = "committed"]
  /\ Goto(p, "clean")
  /\ UNCHANGED <<authority, locks, op, provider, counters>>

-----------------------------------------------------------------------------
(* _cleanup: one unlink after another, replacement.json before intent.json. *)

UnlinkStage(p) ==
  /\ pc[p] = "clean"
  /\ evidence[op[p].dir].stage # None
  /\ evidence' = [evidence EXCEPT ![op[p].dir].stage = None]
  /\ UNCHANGED <<authority, locks, pc, op, provider, counters>>

\* Mutation: intent.json is unlinked before replacement.json.
UnlinkJournalFirst(p) ==
  /\ pc[p] = "clean"
  /\ evidence[op[p].dir].journal # "none"
  /\ evidence' = [evidence EXCEPT ![op[p].dir].journal = "none",
                                  ![op[p].dir].expected = None,
                                  ![op[p].dir].digest = None]
  /\ UNCHANGED <<authority, locks, pc, op, provider, counters>>

UnlinkJournal(p) ==
  /\ pc[p] = "clean"
  /\ evidence[op[p].dir].stage = None
  /\ evidence[op[p].dir].journal # "none"
  /\ evidence' = [evidence EXCEPT ![op[p].dir].journal = "none",
                                  ![op[p].dir].expected = None,
                                  ![op[p].dir].digest = None]
  /\ UNCHANGED <<authority, locks, pc, op, provider, counters>>

UnlinkTemporary(p) ==
  /\ pc[p] = "clean"
  /\ evidence[op[p].dir].stage = None
  /\ evidence[op[p].dir].journal = "none"
  /\ evidence[op[p].dir].temp
  /\ evidence' = [evidence EXCEPT ![op[p].dir].temp = FALSE]
  /\ UNCHANGED <<authority, locks, pc, op, provider, counters>>

\* The directory goes last.  Recovery goes on to the next one; a lease ends.
RemoveDirectory(p) ==
  /\ pc[p] = "clean"
  /\ op[p].mode = "recover"
  /\ ~Present(evidence[op[p].dir])
  /\ evidence' = [evidence EXCEPT ![op[p].dir].dir = FALSE]
  /\ evidenceLock' = [evidenceLock EXCEPT ![op[p].dir] = None]
  /\ op' = [op EXCEPT ![p].mode = "lease", ![p].dir = None]
  /\ Goto(p, "recover")
  /\ UNCHANGED <<authority, shared, exclusive, tokenLock, provider, counters>>

FinishLease(p) ==
  /\ pc[p] = "clean"
  /\ op[p].mode = "lease"
  /\ ~Present(evidence[op[p].dir])
  /\ evidence' = [evidence EXCEPT ![op[p].dir].dir = FALSE]
  /\ End(p)
  /\ UNCHANGED <<authority, provider, counters>>

-----------------------------------------------------------------------------
(* Lifecycle mutations that hold the lifecycle exclusively. *)

\* full_reset: refresh secrets first, then the account authority.
FullReset(p) ==
  /\ pc[p] = "mutating"
  /\ evidence' = [l \in Label |-> NoEvidence]
  /\ store' = [l \in Label |-> Absent]
  /\ health' = [l \in Label |-> "ok"]
  /\ End(p)
  /\ UNCHANGED <<provider, counters>>

\* Account and location migration and rollback keep every credential.
Migrate(p) ==
  /\ pc[p] = "mutating"
  /\ End(p)
  /\ UNCHANGED <<authority, evidence, provider, counters>>

-----------------------------------------------------------------------------
(* The account owner's other commands, each one commit of the authority. *)

Edit ==
  /\ edits < MaxEdits
  /\ edits' = edits + 1
  /\ UNCHANGED <<evidence, locks, pc, op, origin, refused, faults>>

\* A login a label did not hold.  Its refresh token is new, or, when the source
\* names none, the one the account has (_apply_detected).  An account that is made
\* or imported anew has no failure mark; a Codex login over an account, a save of it
\* by its access token and what a provider reported keep the mark they found.
Login(l, c) ==
  /\ Edit
  /\ c \notin issued
  /\ \/ FreshToken(c)
     \/ store[l] \in Cred /\ RefreshToken[c] = RefreshToken[store[l]]
  /\ issued' = issued \cup {c}
  /\ store' = [store EXCEPT ![l] = c]
  /\ \/ health' = [health EXCEPT ![l] = "ok"]
     \/ store[l] \in Cred /\ UNCHANGED health

UseSetupToken(l) ==
  /\ Edit
  /\ store[l] # Setup
  /\ Installed(l, Setup)
  /\ UNCHANGED issued

Remove(l) ==
  /\ Edit
  /\ store[l] # Absent
  /\ Installed(l, Absent)
  /\ UNCHANGED issued

Rename(l, m) ==
  /\ Edit
  /\ store[l] # Absent /\ store[m] = Absent
  /\ store' = [store EXCEPT ![m] = store[l], ![l] = Absent]
  /\ health' = [health EXCEPT ![m] = health[l], ![l] = "ok"]
  /\ UNCHANGED issued

-----------------------------------------------------------------------------
(* Failures. *)

\* A hard lock is waited for a bounded time.
LockTimeout(p) ==
  /\ \/ pc[p] = "join" /\ exclusive # None
     \/ pc[p] = "exclude" /\ (shared # {} \/ exclusive # None)
     \/ pc[p] = "lockToken" /\ tokenLock[RefreshToken[op[p].expected]] # None
     \/ pc[p] = "lockEvidence" /\ evidenceLock[op[p].target] # None
  /\ End(p)
  /\ UNCHANGED <<authority, evidence, provider, counters>>

Fault == faults < MaxFaults /\ faults' = faults + 1 /\ UNCHANGED edits

\* The process dies, or an error unwinds it, between two durable effects.
Abort(p) ==
  /\ Fault
  /\ pc[p] # "idle"
  /\ End(p)
  /\ UNCHANGED <<authority, evidence, provider>>

\* The process dies while a private file is still its temporary candidate, or
\* before the candidate exists in the directory just made for it.
DieWriting(p, leftover) ==
  /\ Fault
  /\ pc[p] \in {"intent", "staging", "completing", "journal"}
  /\ evidence' = [evidence EXCEPT ![op[p].dir].dir = TRUE,
                                  ![op[p].dir].temp = @ \/ leftover]
  /\ End(p)
  /\ UNCHANGED <<authority, provider>>

\* The commit may or may not have become durable.  A lease says so in its
\* journal; recovery leaves the journal as it found it.
CommitUncertain(p) ==
  /\ Fault
  /\ pc[p] = "commit"
  /\ store[op[p].dir] = evidence[op[p].dir].expected
  /\ ~OwnedElsewhere(op[p].dir, evidence[op[p].dir].stage)
  /\ UNCHANGED authority \/ Installed(op[p].dir, evidence[op[p].dir].stage)
  /\ evidence' = IF op[p].mode = "lease"
                 THEN [evidence EXCEPT ![op[p].dir].journal = "uncertain"]
                 ELSE evidence
  /\ End(p)
  /\ UNCHANGED provider

-----------------------------------------------------------------------------
(* The specification. *)

Recovery(p) ==
  \/ ListDirectories(p)
  \/ \E l \in Label : RecoverSkip(p, l) \/ RecoverTake(p, l) \/ RecoverBlocked(p, l)
  \/ RefreshRecovered(p) \/ QuiesceRecovered(p) \/ RecoveryEnds(p)

Stabilisation(p) ==
  \/ Stabilise(p) \/ StabiliseFails(p) \/ LockToken(p) \/ LockEvidence(p)
  \/ TargetChanged(p) \/ EvidenceInTheWay(p) \/ WriteIntent(p)

Exchange(p) ==
  \/ SkipExchange(p) \/ StartExchange(p) \/ ExchangeFails(p) \/ RecordFailure(p)
  \/ \E c \in Cred : ProviderReplies(p, c)

Commit(p) ==
  \/ WriteStage(p) \/ CompleteJournal(p)
  \/ MergeRead(p) \/ MergeRaises(p) \/ MergeCommit(p) \/ CommitJournal(p)

Cleanup(p) ==
  \/ UnlinkStage(p) \/ UnlinkJournal(p) \/ UnlinkTemporary(p)
  \/ RemoveDirectory(p) \/ FinishLease(p)

\* What a process that has started does next, when nothing fails.
Advance(p) ==
  \/ Join(p) \/ Exclude(p) \/ LockTimeout(p)
  \/ Recovery(p) \/ Stabilisation(p) \/ Exchange(p) \/ Commit(p) \/ Cleanup(p)
  \/ FullReset(p) \/ Migrate(p)

Start(p) ==
  \/ OpenStore(p) \/ BeginQuiesce(p)
  \/ \E l \in Label, f \in BOOLEAN : BeginRefresh(p, l, f)

Owner ==
  \E l \in Label :
    \/ UseSetupToken(l) \/ Remove(l)
    \/ \E c \in Cred : Login(l, c)
    \/ \E m \in Label : Rename(l, m)

Failure(p) ==
  \/ Abort(p) \/ CommitUncertain(p)
  \/ \E leftover \in BOOLEAN : DieWriting(p, leftover)

\* History: since its stage was written, a label held something else than the
\* credential that stage replaces.
Settle ==
  settled' = [l \in Label |->
                /\ evidence'[l].stage # None
                /\ settled[l] \/ store'[l] # evidence'[l].expected]

Next ==
  /\ \/ Owner
     \/ \E p \in Proc : Start(p) \/ Advance(p) \/ Failure(p)
  /\ Settle

Spec == Init /\ [][Next]_vars

\* Every started process keeps running, and the scheduled maintenance command
\* opens the store again and again.
Fairness ==
  \A p \in Proc : WF_vars(Advance(p) /\ Settle) /\ WF_vars(OpenStore(p) /\ Settle)

FairSpec == Spec /\ Fairness

-----------------------------------------------------------------------------
(* Properties. *)

TypeOK ==
  /\ store \in [Label -> Held]
  /\ health \in [Label -> {"ok", "failed"}]
  /\ evidence \in [Label -> Evidence]
  /\ shared \subseteq Proc
  /\ exclusive \in Holder
  /\ tokenLock \in [Token -> Holder]
  /\ evidenceLock \in [Label -> Holder]
  /\ pc \in [Proc -> Step]
  /\ op \in [Proc -> Locals]
  /\ issued \subseteq Cred
  /\ origin \in [Cred -> CredOrNone]
  /\ refused \subseteq Cred
  /\ settled \in [Label -> BOOLEAN]
  /\ edits \in 0..MaxEdits /\ faults \in 0..MaxFaults

\* One provider exchange per refresh token at a time, whatever happened to the
\* labels meanwhile: the lock is named by the token (_operation_basename).
ExclusiveExchange ==
  \A p, q \in Proc :
    /\ p # q
    /\ pc[p] = "exchanging" /\ pc[q] = "exchanging"
    => RefreshToken[op[p].expected] # RefreshToken[op[q].expected]

\* A lifecycle mutation runs while no refresh holds a lock and no refresh
\* evidence is left on disk (hold_quiescent, _resolve_refresh_transactions).
QuiescentMutation ==
  \A p \in Proc : pc[p] = "mutating" =>
    /\ \A q \in Proc \ {p} : pc[q] \in {"idle", "join", "exclude"}
    /\ \A l \in Label : ~evidence[l].dir /\ evidenceLock[l] = None
    /\ \A t \in Token : tokenLock[t] = None

\* A stage always replaces the credential its journal names, and a journal past
\* "intent" names the stage beside it, whichever process reads them after
\* whatever crash (commit_success, _recover_directory).
EvidenceCoherent ==
  \A l \in Label : LET e == evidence[l] IN e.stage # None =>
    /\ e.journal # "none"
    /\ origin[e.stage] = e.expected
    /\ e.journal # "intent" => e.digest = e.stage

\* Credentials that carry a durable failure mark.
Marked == {store[l] : l \in {m \in Label : health[m] = "failed"}}

\* A credential gets a failure mark because its own refresh failed, however late
\* that is recorded, and never because the refresh of what it replaced did; but a
\* login may keep the mark of the account it is put over, and a rename takes it along
\* (persist_failure_if_current, merge_credential_refresh).
FailureOnRefused ==
  [][\A l \in Label : health'[l] = "failed" =>
       \/ store'[l] \in refused' \cup Marked
       \/ health[l] = "failed" /\ store'[l] \notin issued]_vars

\* A staged replacement, the only copy of a credential the provider rotated, is
\* removed only after its label held something else than the credential it
\* replaces: merged, replaced, renamed or removed (_cleanup, _merge_staged,
\* destroy_transactions).
StageNeverDropped ==
  [][\A l \in Label :
       evidence[l].stage # None /\ evidence'[l].stage # evidence[l].stage
       => settled[l]]_vars

\* The same promise as an abstract specification of the authority.
Authority == INSTANCE CredentialAuthority WITH held <- store, known <- issued

\* The authority changes as CredentialAuthority allows: only the exact
\* credential an exchange was made for is rotated, and nothing newer, removed or
\* renamed is overwritten or resurrected (merge_credential_refresh).
RotatesOnlyItsSource == Authority!Spec

AtRest(l) == evidenceLock[l] = None

\* Evidence nobody works on that ends every recovery which comes to it: it blocks,
\* or its merge meets a setup token and raises.
Stuck(l) ==
  AtRest(l) /\ (Blocked(evidence[l]) \/ (Mergeable(evidence[l]) /\ store[l] = Setup))

\* What recovery can finish is finished: while commands keep starting, no complete
\* stage and no bare intent stays behind for ever, unless it is stuck itself or
\* listed behind evidence that is (recover).
EvidenceResolved ==
  \A l \in Label :
    []<>(\/ ~Present(evidence[l])
         \/ \E m \in Label : Rank[m] <= Rank[l] /\ Stuck(m))

-----------------------------------------------------------------------------
(* What the documentation says and the code does not do. *)

\* "recovers every state at or after a complete stage"
\* (docs/persistence-and-recovery.md): evidence whose journal passed "intent"
\* can still be resolved after a crash.  _cleanup unlinks replacement.json
\* first, and _recover_directory refuses a complete journal without a stage.
CompleteStageRecoverable ==
  \A l \in Label :
    AtRest(l) /\ evidence[l].journal \in {"complete", "committed"}
    => ~Blocked(evidence[l])

\* "Return clean, locally recoverable, or fail-closed state" (assess()): evidence
\* that assess() calls recoverable is resolved by recover().  When the account
\* holds a setup token by then, _merge_staged raises instead.
RecoverableIsResolvable ==
  \A l \in Label : AtRest(l) /\ Mergeable(evidence[l]) => store[l] # Setup

\* "Last token refresh failed; log in before heartbeat." (heartbeat/service.py): no
\* credential but one whose own refresh failed is marked.  A Codex login over an
\* account whose refresh failed keeps the mark.
LoginEndsFailure == \A l \in Label : health[l] = "failed" => store[l] \in refused

\* "A complete stage can finish locally" (docs/persistence-and-recovery.md): evidence
\* that can be resolved is, whatever became of another account's.  recover() raises at
\* the first directory it cannot resolve and never comes to those behind it.
OthersResolved == \A l \in Label : []<>(~Present(evidence[l]) \/ Stuck(l))

=============================================================================
