-------------------------- MODULE CredentialTransaction --------------------------
(***************************************************************************)
(* One commit of the account authority together with private Codex         *)
(* bundles (persistence/credential_transactions.py), and the recovery of   *)
(* a commit that was interrupted (credential_transaction_recovery.py).     *)
(*                                                                         *)
(* A commit holds the account lock.  It writes a journal, stages the       *)
(* target files and backups of the files they replace, installs the        *)
(* targets, replaces the authority, deletes the displaced bundles and      *)
(* removes its evidence, one file operation after another.  A process may  *)
(* die between any two operations or inside one, and a commit may raise.   *)
(* Whoever takes the lock next resolves what it finds: from the authority  *)
(* it reads whether the commit happened, and finishes or undoes it.        *)
(*                                                                         *)
(* AccountStore uses the commit as one step; AtomicStore states why it     *)
(* may.  Files are handled in some order here, the code sorts them.        *)
(***************************************************************************)
EXTENDS Naturals, FiniteSets

CONSTANTS
  Proc,           \* processes that open the store and commit
  Bundle,         \* private bundles below the private root
  File,           \* files of those bundles
  BundleOf,       \* the bundle of each file
  Content,        \* what a private file may hold
  None,           \* no such file, nobody
  MaxGeneration,  \* bound: generations of the authority
  MaxFaults       \* bound: deaths, raised errors

ASSUME BundleAssumption == BundleOf \in [File -> Bundle]
ASSUME NoneAssumption == None \notin Content /\ None \notin Proc
ASSUME BoundsAssumption == MaxGeneration \in Nat \ {0} /\ MaxFaults \in Nat

VARIABLES
  authority,      \* durable: the generation of the account authority
  authorityTemp,  \* durable: an authority candidate was left behind
  files,          \* durable: the private files
  bundleTemp,     \* durable: bundles with a candidate left behind
  directory,      \* durable: the transaction directory exists
  directoryTemp,  \* durable: a candidate was left in it
  journal,        \* durable: the journal in it, or NoJournal
  stage,          \* durable: the staged target of each file
  backup,         \* durable: the backup of each file that is replaced
  lock,           \* holder of the account lock
  pc,             \* the next step of each process
  base,           \* the generation each process loaded
  plan,           \* what each process is about to commit
  faults          \* counter of deaths and errors

authorityFile == <<authority, authorityTemp>>
bundles == <<files, bundleTemp>>
evidence == <<directory, directoryTemp, journal, stage, backup>>
local == <<base, plan>>
vars == <<authority, authorityTemp, files, bundleTemp, directory, directoryTemp,
          journal, stage, backup, lock, pc, base, plan, faults>>

-----------------------------------------------------------------------------
(* Values. *)

ContentOrNone == Content \cup {None}
NoFiles == [f \in File |-> None]
FilesOf(S) == {f \in File : BundleOf[f] \in S}

\* What a process holds the lock for: the files to write (None: not one of them),
\* all files as they were when these were prepared, the bundles to delete, and
\* what follows the recovery: reading the authority, committing, or an error;
\* "done" once the commit itself is under way.
Plan == [new : [File -> ContentOrNone], seen : [File -> ContentOrNone],
         displaced : SUBSET Bundle, next : {"load", "commit", "done", "fail"}]
NoPlan == [new |-> NoFiles, seen |-> NoFiles, displaced |-> {}, next |-> "load"]

\* CredentialTransactionJournal: base and target authority, the files with their
\* base and target digests, the bundles that were absent, and those to delete.
Journal == [base : Nat, new : [File -> ContentOrNone],
            old : [File -> ContentOrNone], displaced : SUBSET Bundle]
NoJournal == [base |-> 0, new |-> NoFiles, old |-> NoFiles, displaced |-> {}]

Written(j) == {f \in File : j.new[f] # None}
Targets(j) == {BundleOf[f] : f \in Written(j)}
Journalled == journal # NoJournal

\* target_bundles that are not in base_present_bundles
Introduced(j) ==
  {b \in Targets(j) : \A f \in FilesOf({b}) : j.old[f] = None}

\* _authority_state: the base by identity, the target by its digest.
AtBase == authority = journal.base
AtTarget == authority = journal.base + 1

\* bundle_present and relative_bundle_present: the directory has any entry.
Present(b) == b \in bundleTemp \/ \E f \in FilesOf({b}) : files[f] # None

Step == {"idle", "loaded", "waiting", "recover", "restore", "read", "check",
          "journal", "stage", "backup", "apply", "authority", "replace",
         "displace", "clean", "remove"}

Init ==
  /\ authority = 1 /\ authorityTemp = FALSE
  /\ files \in [File -> ContentOrNone]
  /\ \A f, g \in File : BundleOf[f] = BundleOf[g] /\ files[f] = None => files[g] = None
  /\ bundleTemp = {}
  /\ directory = FALSE /\ directoryTemp = FALSE
  /\ journal = NoJournal
  /\ stage = NoFiles /\ backup = NoFiles
  /\ lock = None
  /\ pc = [p \in Proc |-> "idle"]
  /\ base = [p \in Proc |-> 0]
  /\ plan = [p \in Proc |-> NoPlan]
  /\ faults = 0

Goto(p, step) == pc' = [pc EXCEPT ![p] = step]

\* Leave with the lock released; the loaded copy is given up.
End(p) ==
  /\ Goto(p, "idle")
  /\ lock' = IF lock = p THEN None ELSE lock
  /\ base' = [base EXCEPT ![p] = 0]
  /\ plan' = [plan EXCEPT ![p] = NoPlan]

-----------------------------------------------------------------------------
(* Opening the store and preparing a commit, without the lock. *)

\* load: an authority candidate that is left behind blocks the store; a
\* transaction directory is resolved under the lock first.
Load(p) ==
  /\ pc[p] = "idle"
  /\ ~authorityTemp
  /\ IF directory THEN Goto(p, "waiting") /\ UNCHANGED base
                  ELSE Goto(p, "loaded") /\ base' = [base EXCEPT ![p] = authority]
  /\ UNCHANGED <<authorityFile, bundles, evidence, lock, plan, faults>>

\* The end of load after a recovery; any candidate blocks the store again.
Read(p) ==
  /\ pc[p] = "read"
  /\ IF authorityTemp THEN Goto(p, "idle") /\ UNCHANGED base
     ELSE Goto(p, "loaded") /\ base' = [base EXCEPT ![p] = authority]
  /\ UNCHANGED <<authorityFile, bundles, evidence, lock, plan, faults>>

\* A candidate with at most one prepared bundle: prepare_account reads its target
\* bundle, which must be absent or hold a file, and the bundle is written whole.
Prepare(p, targets, content, displaced) ==
  /\ pc[p] = "loaded"
  /\ Cardinality(targets) <= 1 /\ targets \cap displaced = {}
  /\ \A b \in targets : Present(b) => \E f \in FilesOf({b}) : files[f] # None
  /\ plan' = [plan EXCEPT ![p] =
                [new |-> [f \in File |-> IF f \in FilesOf(targets) THEN content
                                                                ELSE None],
                 seen |-> files, displaced |-> displaced, next |-> "commit"]]
  /\ Goto(p, "waiting")
  /\ UNCHANGED <<authorityFile, bundles, evidence, lock, base, faults>>

Acquire(p) ==
  /\ pc[p] = "waiting"
  /\ lock = None
  /\ lock' = p
  /\ Goto(p, "recover")
  /\ UNCHANGED <<authorityFile, bundles, evidence, local, faults>>

-----------------------------------------------------------------------------
(* recover: resolve what an interrupted commit left. *)

\* Nothing, or nothing any more, to resolve.
Resolved(p) ==
  /\ pc[p] = "recover"
  /\ ~directory
  /\ \/ plan[p].next = "load" /\ Goto(p, "read") /\ lock' = None /\ UNCHANGED local
     \/ plan[p].next = "commit" /\ Goto(p, "check") /\ UNCHANGED <<lock, local>>
     \/ plan[p].next = "fail" /\ End(p)
  /\ UNCHANGED <<authorityFile, bundles, evidence, faults>>

\* Mutation: a directory without a journal is refused, empty or not.
RecoverEmptyRaises(p) ==
  /\ pc[p] = "recover"
  /\ directory /\ ~Journalled /\ ~directoryTemp
  /\ End(p)
  /\ UNCHANGED <<authorityFile, bundles, evidence, faults>>

\* A directory without a journal is removed when it is empty.
RecoverEmpty(p) ==
  /\ pc[p] = "recover"
  /\ directory /\ ~Journalled /\ ~directoryTemp
  /\ directory' = FALSE
  /\ UNCHANGED <<authorityFile, bundles, directoryTemp, journal, stage, backup, lock,
                 pc, local, faults>>

\* From the authority: undo the commit, or finish it.  _ensure_target finds every
\* file installed, as the authority is replaced last (EvidenceSufficient).
RecoverJournal(p) ==
  /\ pc[p] = "recover"
  /\ directory /\ Journalled
  /\ \/ AtBase /\ Goto(p, "restore")
     \/ /\ AtTarget /\ \A f \in Written(journal) : files[f] = journal.new[f]
        /\ Goto(p, "displace")
  /\ UNCHANGED <<authorityFile, bundles, evidence, lock, local, faults>>

\* _restore_record of a file that does not hold its base any more.
Restore(p, f) ==
  /\ pc[p] = "restore"
  /\ f \in Written(journal) /\ files[f] # journal.old[f]
  /\ files[f] = journal.new[f] /\ backup[f] = journal.old[f]
  /\ files' = [files EXCEPT ![f] = journal.old[f]]
  /\ UNCHANGED <<authorityFile, bundleTemp, evidence, lock, pc, local, faults>>

\* The end of _restore_base: the bundles this commit introduced are gone.
Restored(p) ==
  /\ pc[p] = "restore"
  /\ \A f \in Written(journal) : files[f] = journal.old[f]
  /\ \A b \in Introduced(journal) : ~Present(b)
  /\ Goto(p, "clean")
  /\ UNCHANGED <<authorityFile, bundles, evidence, lock, local, faults>>

\* What _restore_record cannot prove.
Unrestorable(f) ==
  /\ files[f] # journal.old[f]
  /\ files[f] # journal.new[f] \/ backup[f] # journal.old[f]

\* Evidence without its journal, and an authority that is neither base nor
\* target.
Inexplicable ==
  IF Journalled THEN ~AtBase /\ ~AtTarget ELSE directory /\ directoryTemp

\* A bundle that was introduced and cannot be proven empty again.
Occupied ==
  /\ \A f \in Written(journal) : files[f] = journal.old[f]
  /\ \E b \in Introduced(journal) : Present(b)

RecoveryRaises(p) ==
  /\ \/ pc[p] = "recover" /\ Inexplicable
     \/ pc[p] = "restore" /\ (Occupied \/ \E f \in Written(journal) : Unrestorable(f))
  /\ End(p)
  /\ UNCHANGED <<authorityFile, bundles, evidence, faults>>

-----------------------------------------------------------------------------
(* commit: the private files first, the authority last. *)

\* Mutation: the plan does not compare the files with what was prepared from.
CheckBaseline(p) == base[p] = authority

\* The baseline is current, and so is every file the commit was prepared from
\* (_baseline_matches, _runtime_file_plan).
Check(p) ==
  /\ base[p] = authority
  /\ \A f \in Written(plan[p]) : files[f] = plan[p].seen[f]
  /\ \A b \in Targets(plan[p]) : b \in bundleTemp => \E f \in FilesOf({b}) : files[f] # None

Planned(p) ==
  /\ pc[p] = "check"
  /\ ~authorityTemp /\ Check(p)
  /\ authority < MaxGeneration
  /\ plan' = [plan EXCEPT ![p].next = "done"]
  /\ Goto(p, IF Written(plan[p]) = {} /\ plan[p].displaced = {}
             THEN "authority" ELSE "journal")
  /\ UNCHANGED <<authorityFile, bundles, evidence, lock, base, faults>>

Refused(p) ==
  /\ pc[p] = "check"
  /\ authorityTemp \/ ~Check(p)
  /\ End(p)
  /\ UNCHANGED <<authorityFile, bundles, evidence, faults>>

WriteJournal(p) ==
  /\ pc[p] = "journal"
  /\ directory' = TRUE
  /\ journal' = [base |-> authority, new |-> plan[p].new,
                 old |-> [f \in File |-> IF f \in Written(plan[p]) THEN files[f]
                                                                  ELSE None],
                 displaced |-> plan[p].displaced]
  /\ Goto(p, "stage")
  /\ UNCHANGED <<authorityFile, bundles, directoryTemp, stage, backup, lock, local,
                 faults>>

\* _materialize_private_candidates: every stage, then every backup.
Stage(p, f) ==
  /\ pc[p] = "stage"
  /\ f \in Written(journal) /\ stage[f] = None
  /\ stage' = [stage EXCEPT ![f] = journal.new[f]]
  /\ UNCHANGED <<authorityFile, bundles, directory, directoryTemp, journal, backup,
                 lock, pc, local, faults>>

Staged(p) ==
  /\ pc[p] = "stage"
  /\ \A f \in Written(journal) : stage[f] # None
  /\ Goto(p, "backup")
  /\ UNCHANGED <<authorityFile, bundles, evidence, lock, local, faults>>

Backup(p, f) ==
  /\ pc[p] = "backup"
  /\ f \in Written(journal) /\ backup[f] # journal.old[f]
  /\ backup' = [backup EXCEPT ![f] = journal.old[f]]
  /\ UNCHANGED <<authorityFile, bundles, directory, directoryTemp, journal, stage,
                 lock, pc, local, faults>>

\* Mutation: the targets are installed over files that have no backup yet.
BackedUpEarly(p) ==
  /\ pc[p] = "backup"
  /\ Goto(p, "apply")
  /\ UNCHANGED <<authorityFile, bundles, evidence, lock, local, faults>>

BackedUp(p) ==
  /\ pc[p] = "backup"
  /\ \A f \in Written(journal) : backup[f] = journal.old[f]
  /\ Goto(p, "apply")
  /\ UNCHANGED <<authorityFile, bundles, evidence, lock, local, faults>>

\* apply_target
Apply(p, f) ==
  /\ pc[p] = "apply"
  /\ f \in Written(journal) /\ files[f] # journal.new[f]
  /\ files' = [files EXCEPT ![f] = journal.new[f]]
  /\ UNCHANGED <<authorityFile, bundleTemp, evidence, lock, pc, local, faults>>

\* Mutation: the authority is committed before every target is installed.
AppliedEarly(p) ==
  /\ pc[p] = "apply"
  /\ Goto(p, "authority")
  /\ UNCHANGED <<authorityFile, bundles, evidence, lock, local, faults>>

Applied(p) ==
  /\ pc[p] = "apply"
  /\ \A f \in Written(journal) : files[f] = journal.new[f]
  /\ Goto(p, "authority")
  /\ UNCHANGED <<authorityFile, bundles, evidence, lock, local, faults>>

\* _commit_authority: a candidate beside the authority, then one replacement.
WriteAuthority(p) ==
  /\ pc[p] = "authority"
  /\ authorityTemp' = TRUE
  /\ Goto(p, "replace")
  /\ UNCHANGED <<authority, bundles, evidence, lock, local, faults>>

ReplaceAuthority(p) ==
  /\ pc[p] = "replace"
  /\ authority' = authority + 1 /\ authorityTemp' = FALSE
  /\ IF Journalled
     THEN Goto(p, "displace") /\ UNCHANGED <<lock, local>>
     ELSE /\ Goto(p, "loaded")
          /\ lock' = None
          /\ base' = [base EXCEPT ![p] = authority + 1]
          /\ plan' = [plan EXCEPT ![p] = NoPlan]
  /\ UNCHANGED <<bundles, evidence, faults>>

-----------------------------------------------------------------------------
(* The end of a commit, and of its recovery. *)

\* delete_displaced: every entry of the displaced bundles.
Displace(p, f) ==
  /\ pc[p] = "displace"
  /\ f \in FilesOf(journal.displaced) /\ files[f] # None
  /\ files' = [files EXCEPT ![f] = None]
  /\ UNCHANGED <<authorityFile, bundleTemp, evidence, lock, pc, local, faults>>

\* Mutation: the evidence is removed before the displaced bundles are gone.
DisplacedEarly(p) ==
  /\ pc[p] = "displace"
  /\ Goto(p, "clean")
  /\ UNCHANGED <<authorityFile, bundles, evidence, lock, local, faults>>

Displaced(p) ==
  /\ pc[p] = "displace"
  /\ \A f \in FilesOf(journal.displaced) : files[f] = None
  /\ bundleTemp' = bundleTemp \ journal.displaced
  /\ Goto(p, "clean")
  /\ UNCHANGED <<authorityFile, files, evidence, lock, local, faults>>

\* cleanup_transaction_artifacts: the stage, then the backup of a file.
CleanStage(p, f) ==
  /\ pc[p] = "clean"
  /\ stage[f] # None
  /\ stage' = [stage EXCEPT ![f] = None]
  /\ UNCHANGED <<authorityFile, bundles, directory, directoryTemp, journal, backup,
                 lock, pc, local, faults>>

CleanBackup(p, f) ==
  /\ pc[p] = "clean"
  /\ stage[f] = None /\ backup[f] # None
  /\ backup' = [backup EXCEPT ![f] = None]
  /\ UNCHANGED <<authorityFile, bundles, directory, directoryTemp, journal, stage,
                 lock, pc, local, faults>>

\* _finish_transaction_cleanup: the journal, then the directory with whatever
\* candidate was left in it.
RemoveJournal(p) ==
  /\ pc[p] = "clean"
  /\ stage = NoFiles /\ backup = NoFiles
  /\ journal' = NoJournal
  /\ Goto(p, "remove")
  /\ UNCHANGED <<authorityFile, bundles, directory, directoryTemp, stage, backup, lock,
                 local, faults>>

\* The commit is done; a recovery goes on with what it was for.
RemoveDirectory(p) ==
  /\ pc[p] = "remove"
  /\ directory' = FALSE /\ directoryTemp' = FALSE
  /\ IF plan[p].next = "done"
     THEN /\ Goto(p, "loaded")
          /\ lock' = None
          /\ base' = [base EXCEPT ![p] = authority]
          /\ plan' = [plan EXCEPT ![p] = NoPlan]
     ELSE Goto(p, "recover") /\ UNCHANGED <<lock, local>>
  /\ UNCHANGED <<authorityFile, bundles, journal, stage, backup, faults>>

-----------------------------------------------------------------------------
(* Failures. *)

Fault == faults < MaxFaults /\ faults' = faults + 1

\* The process dies between two operations.
Die(p) ==
  /\ Fault
  /\ pc[p] # "idle"
  /\ End(p)
  /\ UNCHANGED <<authorityFile, bundles, evidence>>

\* The process dies while the file it writes is still a candidate: beside the
\* journal, a stage or a backup, or beside a private file.
DieWriting(p) ==
  /\ Fault
  /\ \/ /\ pc[p] \in {"journal", "stage", "backup"}
        /\ directory' = TRUE
        /\ directoryTemp' \in {directoryTemp, TRUE}
        /\ UNCHANGED bundleTemp
     \/ /\ pc[p] \in {"apply", "restore"}
        /\ \E f \in Written(journal) :
             /\ files[f] # IF pc[p] = "restore" THEN journal.old[f] ELSE journal.new[f]
             /\ pc[p] = "restore" => journal.old[f] # None
             /\ bundleTemp' = bundleTemp \cup {BundleOf[f]}
        /\ UNCHANGED <<directory, directoryTemp>>
  /\ End(p)
  /\ UNCHANGED <<authorityFile, files, journal, stage, backup>>

\* A commit raises and recovers at once.  When the replacement of the authority
\* raises, it may have happened.
Raise(p) ==
  /\ Fault
  /\ pc[p] \in {"stage", "backup", "apply", "authority", "replace", "displace",
               "clean", "remove"}
  /\ plan[p].next = "done" /\ directory
  /\ plan' = [plan EXCEPT ![p].next = "fail"]
  /\ Goto(p, "recover")
  /\ authority' \in IF pc[p] = "replace" THEN {authority, authority + 1} ELSE {authority}
  /\ authorityTemp' = FALSE
  /\ UNCHANGED <<bundles, evidence, lock, base>>

\* The next migration command discards an authority candidate, unless a private
\* transaction is interrupted as well (_can_recover_temporaries).
DiscardTemporary ==
  /\ authorityTemp /\ ~directory
  /\ lock = None
  /\ authorityTemp' = FALSE
  /\ UNCHANGED <<authority, bundles, evidence, lock, pc, local, faults>>

-----------------------------------------------------------------------------
(* The specification. *)

Recovery(p) ==
  \/ Resolved(p) \/ RecoverEmpty(p) \/ RecoverJournal(p)
  \/ Restored(p) \/ RecoveryRaises(p)
  \/ \E f \in File : Restore(p, f)

Commit(p) ==
  \/ Planned(p) \/ Refused(p) \/ WriteJournal(p)
  \/ Staged(p) \/ BackedUp(p) \/ Applied(p)
  \/ WriteAuthority(p) \/ ReplaceAuthority(p)
  \/ \E f \in File : Stage(p, f) \/ Backup(p, f) \/ Apply(p, f)

Finish(p) ==
  \/ Displaced(p) \/ RemoveJournal(p) \/ RemoveDirectory(p)
  \/ \E f \in File : Displace(p, f) \/ CleanStage(p, f) \/ CleanBackup(p, f)

\* What a process goes on with once it has begun.
Advance(p) == Acquire(p) \/ Read(p) \/ Recovery(p) \/ Commit(p) \/ Finish(p)

Failure(p) == Die(p) \/ DieWriting(p) \/ Raise(p)

Next ==
  \/ DiscardTemporary
  \/ \E p \in Proc :
       \/ Load(p) \/ Advance(p) \/ Failure(p)
       \/ \E targets, displaced \in SUBSET Bundle, content \in Content :
            Prepare(p, targets, content, displaced)

Spec == Init /\ [][Next]_vars

\* Processes that began keep running, and commands open the store again.
FairSpec == Spec /\ \A p \in Proc : WF_vars(Advance(p)) /\ WF_vars(Load(p))

-----------------------------------------------------------------------------
(* Properties. *)

TypeOK ==
  /\ authority \in 1..MaxGeneration /\ authorityTemp \in BOOLEAN
  /\ files \in [File -> ContentOrNone] /\ bundleTemp \subseteq Bundle
  /\ directory \in BOOLEAN /\ directoryTemp \in BOOLEAN
  /\ journal \in Journal
  /\ stage \in [File -> ContentOrNone] /\ backup \in [File -> ContentOrNone]
  /\ lock \in Proc \cup {None}
  /\ pc \in [Proc -> Step]
  /\ base \in [Proc -> 0..MaxGeneration]
  /\ plan \in [Proc -> Plan]
  /\ faults \in 0..MaxFaults

\* Whatever died or raised, the journal explains the authority, and each private
\* file can be brought where the authority says from what is on disk: recovery
\* never has to guess (_authority_state, _restore_record, _require_target_files).
EvidenceSufficient ==
  Journalled =>
    /\ AtBase \/ AtTarget
    /\ AtBase => \A f \in Written(journal) : ~Unrestorable(f)
    /\ AtTarget => \A f \in Written(journal) : files[f] = journal.new[f]

\* What the private files hold once an interrupted commit is resolved.
Private ==
  [f \in File |->
     IF ~Journalled THEN files[f]
     ELSE IF AtBase THEN IF f \in Written(journal) THEN journal.old[f] ELSE files[f]
     ELSE IF f \in Written(journal) THEN journal.new[f]
     ELSE IF BundleOf[f] \in journal.displaced THEN None
     ELSE files[f]]

\* No bundle is ever left half written or half deleted, in whatever step its
\* commit or its recovery was interrupted (apply_target, delete_displaced).
WholeBundles ==
  \A f, g \in File : BundleOf[f] = BundleOf[g] /\ Private[f] = None => Private[g] = None

\* A commit replaces a private file only as it was when the replacement was
\* prepared, though that was before the lock was taken and perhaps in the middle
\* of another commit (_runtime_file_plan).
NoBlindReplace ==
  [][\A p \in Proc : pc[p] = "replace" /\ authority' # authority
     => \A f \in Written(plan[p]) : plan[p].seen[f] = Private[f]]_vars

\* Authority and private files change together, in one step
\* (PrivateCredentialTransaction).
Atomic == INSTANCE AtomicStore WITH generation <- authority, private <- Private
CommitIsAtomic == Atomic!Spec

\* An interrupted commit does not stay unresolved while commands open the store,
\* unless its evidence is of the kinds the last properties name (recover).
InterruptionResolved ==
  []<>(~directory \/ authorityTemp \/ Inexplicable \/ Occupied)

-----------------------------------------------------------------------------
(* What the documentation says and the code does not do. *)

\* "Crash-recoverable account-authority and private-bundle coordination" (the
\* docstring of credential_transactions.py): a transaction nobody works on can be
\* resolved.  A death inside the write of a file of a new bundle leaves its
\* candidate there, and the base cannot be restored over it.
BundleWriteRecoverable == lock = None /\ Journalled /\ AtBase => ~Occupied

\* The same, of the authority: a death before its candidate is renamed leaves the
\* candidate together with a journal.  The store does not load because of the
\* candidate (_private_recovery_is_only_blocker), and no command discards the
\* candidate because of the journal (_can_recover_temporaries).
AuthorityWriteRecoverable == lock = None /\ authorityTemp => ~directory

=============================================================================
