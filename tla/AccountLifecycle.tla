--------------------------- MODULE AccountLifecycle ---------------------------
(***************************************************************************)
(* The explicit transitions of one account location: migration of older    *)
(* generations, prototype import, rollback to released v0.6.0, full reset, *)
(* permission repair and the first and later writes of the account store,  *)
(* run by several processes under the persistence lock and interrupted by  *)
(* failures, process death and power loss at every filesystem call         *)
(* (persistence/migrations/account.py, transaction.py, locking.py,         *)
(* filesystem.py, _recovery.py, _platform/posix.py, windows_files.py).     *)
(*                                                                         *)
(* A released v0.6.0 process knows no lock: LegacyWrite replaces the       *)
(* authority whenever it holds none or a generation zero document.         *)
(***************************************************************************)
EXTENDS Assessment, Sequences

CONSTANTS
  Process,      \* concurrent commands
  NoProcess,
  Platforms,    \* subset of {"posix", "windows"}
  Migratable,   \* documents whose legacy credentials need no repair
  Sources,      \* payloads an authority may hold at first
  Prototypes,   \* what the prototype file may hold at first
  MaxCommands,  \* commands started
  MaxFaults     \* failed calls, deaths and power losses, and writes by released
                \* versions and edits of the prototype, together

ASSUME LifecycleAssumption ==
  /\ NoProcess \notin Process
  /\ Platforms \subseteq {"posix", "windows"}
  /\ Migratable \subseteq Document
  /\ Sources \subseteq Stored \cup {Future}
  /\ MaxCommands \in Nat /\ MaxFaults \in Nat

VARIABLES
  platform,   \* the native adapter of this machine
  dir,        \* the directory as every process sees it
  durable,    \* the directories a power loss may leave
  parent,     \* access of the parent directory: "private" or "loose"
  prototype,  \* the prototype file: NoPrototype, a document, InvalidPrototype
  private,    \* what the private credential tree holds
  lock,       \* the holder of the persistence lock
  proc,       \* each process: command and where it is in it
  job,        \* the operations the holder has yet to run
  commands, faults, edits

world == <<dir, durable, parent, prototype, private>>
bounds == <<commands, faults, edits>>
vars == <<platform, dir, durable, parent, prototype, private, lock, proc, job,
          commands, faults, edits>>

Commands == {"migrate", "reimport", "rollback", "reset", "repair", "save"}

(* Operations a transaction runs: publish a content addressed copy, commit *)
(* the authority, resolve a temporary, destroy the private tree, delete    *)
(* for a reset, and look again at what is there.                           *)
Op(kind, name, data, expected) ==
  [kind |-> kind, name |-> name, data |-> data, expected |-> expected]
Publish(p, expected) == Op("publish", BackupName(p), p, expected)
PublishReceipt(doc) == Op("publish", ReceiptName(doc), Payload("receipt", doc), NoFile)
Commit(p, expected) == Op("commit", Authority, p, expected)
Recover(t) == Op("recover", t, Torn, NoFile)
Destroy == Op("destroy", NoName, Torn, NoFile)
Delete(expected) == Op("delete", NoName, Torn, expected)
Verify(kind) == Op(kind, NoName, Torn, NoFile)
Revalidate(doc) == Op("revalidate", ReceiptName(doc), Torn, NoFile)

NoJob == [todo |-> <<>>, at |-> "none", temp |-> NoName, file |-> NoFile, code |-> "none",
          recovered |-> FALSE, orphaned |-> FALSE, mutated |-> FALSE]
Idle == [pc |-> "idle", command |-> "none", base |-> NoFile, code |-> "none", held |-> FALSE]

Init ==
  /\ platform \in Platforms
  /\ dir \in {<<>>} \cup {[n \in {Authority} |-> [node |-> 1, data |-> p]] : p \in Sources}
  /\ durable = {dir}
  /\ parent \in {"private", "loose"}
  /\ prototype \in Prototypes
  /\ private \in {"absent", "present"}
  /\ lock = NoProcess
  /\ proc = [p \in Process |-> Idle]
  /\ job = NoJob
  /\ commands = 0 /\ faults = 0 /\ edits = 0

-----------------------------------------------------------------------------
(* The namespace.  A change may or may not be on the medium until it is    *)
(* hardened; on Windows a move is written through and hardening a cleanup  *)
(* does nothing.                                                           *)

Change(d) == dir' = d /\ durable' = durable \cup {d}
WriteThrough(d) == dir' = d /\ durable' = {d}
(* Mutant: directory entries are not synced.                               *)
PosixHardenSkipped == platform = "posix" /\ UNCHANGED <<dir, durable>>
PosixHarden == platform = "posix" /\ durable' = {dir} /\ UNCHANGED dir
WindowsHarden == platform = "windows" /\ UNCHANGED <<dir, durable>>
Harden == PosixHarden \/ WindowsHarden

UsedNodes == UNION {{d[n].node : n \in DOMAIN d} : d \in durable}
(* A new file has an inode no other file has; the number of files a        *)
(* behaviour may have at a time is a bound (Inode).                        *)
HasFreeNode == Inode \ UsedNodes # {}
FreeNode == CHOOSE i \in Inode \ UsedNodes : TRUE

Disturbable == faults + edits < MaxFaults
Fault == Disturbable /\ faults' = faults + 1

Observed(explicit) == Inspect(dir, parent, prototype, private, explicit)

-----------------------------------------------------------------------------
(* The persistence lock.                                                   *)

(* A command starts; the store has loaded its baseline before it waits.    *)
Begin(p, c) ==
  /\ proc[p].pc = "idle" /\ ~ proc[p].held /\ commands < MaxCommands
  /\ c = "save" => ~ WriteBlocked(Assess(Observed(FALSE)))
  /\ proc' = [proc EXCEPT ![p] = [Idle EXCEPT !.pc = "waiting", !.command = c,
                                              !.base = FileAt(dir, Authority)]]
  /\ commands' = commands + 1
  /\ UNCHANGED <<platform, world, lock, job, faults, edits>>

(* The sidecar is opened below a private parent, locked, and proved to be  *)
(* still the file of that name.                                            *)
Acquire(p) ==
  /\ proc[p].pc = "waiting" /\ lock = NoProcess
  /\ parent = "private" \/ proc[p].command = "repair"
  /\ lock' = p
  /\ proc' = [proc EXCEPT ![p].pc = "locked"]
  /\ job' = [NoJob EXCEPT !.at = "next"]
  /\ UNCHANGED <<platform, world, bounds>>

(* A command that never held the lock ends: StoreLockedError, unsafe parent*)
Refused(p) ==
  /\ proc' = [proc EXCEPT ![p] = Idle]
  /\ UNCHANGED <<platform, world, lock, job, bounds>>

LockTimeout(p) == proc[p].pc = "waiting" /\ lock \notin {NoProcess, p} /\ Refused(p)
UnsafeParent(p) ==
  /\ proc[p].pc = "waiting" /\ parent = "loose" /\ proc[p].command # "repair"
  /\ Refused(p)

(* The command is over for the transaction: what it reports is decided.    *)
Finish(p, code) ==
  /\ proc' = [proc EXCEPT ![p].pc = "releasing", ![p].code = code]
  /\ job' = NoJob

(* Unlock or close is enough to free the lock.                             *)
Release(p) ==
  /\ proc[p].pc = "releasing"
  /\ lock' = NoProcess
  /\ proc' = [proc EXCEPT ![p] = Idle]
  /\ UNCHANGED <<platform, world, job, bounds>>

(* Neither worked: the handle stays with the process until it ends.  The   *)
(* failure of the operation keeps its code, a success becomes the failure. *)
ReleaseFails(p) ==
  /\ proc[p].pc = "releasing" /\ Fault
  /\ proc' = [proc EXCEPT ![p] = [Idle EXCEPT !.held = TRUE,
        !.code = IF proc[p].code \in {"CURRENT", "PROTOTYPE_IMPORTED", "ROLLBACK_PREPARED", "EMPTY"}
                 THEN "LOCK_UNAVAILABLE" ELSE proc[p].code]]
  /\ UNCHANGED <<platform, world, lock, job, commands, edits>>

-----------------------------------------------------------------------------
(* Planning: what a command does about what it finds under the lock.       *)

Run(p, plan) ==
  /\ proc' = [proc EXCEPT ![p].pc = "running"]
  /\ job' = [job EXCEPT !.todo = plan, !.at = "next"]
  /\ UNCHANGED <<platform, world, lock, bounds>>

Refuse(p, code) == Finish(p, code) /\ UNCHANGED <<platform, world, lock, bounds>>

Explicit(p) == proc[p].command \in {"migrate", "reimport"}
Locked(p) == proc[p].pc = "locked" /\ lock = p

(* Exactly one readable temporary, and no interruption that is not it.     *)
CanRecoverTemporaries(o) ==
  LET names == {a.name : a \in ValidOf(o.artifacts, "temporary")}
  IN /\ Assess(o) = "INTERRUPTED_ARTIFACTS"
     /\ Cardinality(names) = 1
     /\ \A i \in Issues(o) : i.code = "INTERRUPTED_ARTIFACTS" => i.name \in names

LockedRecovery(p) ==
  /\ Locked(p) /\ ~ job.recovered /\ proc[p].command \notin {"save", "repair"}
  /\ LET o == Observed(Explicit(p)) IN
     /\ CanRecoverTemporaries(o)
     /\ (proc[p].command = "rollback" /\ o.authority = "v2") => o.file.data.doc \in Representable
     /\ job' = [job EXCEPT !.todo = <<Recover(CHOOSE t \in Temporaries(dir) : TRUE)>>,
                           !.at = "next", !.recovered = TRUE]
     /\ proc' = [proc EXCEPT ![p].pc = "running"]
  /\ UNCHANGED <<platform, world, lock, bounds>>

(* The assessment a command goes on with, once no temporary can be resolved*)
Assessed(p, o) ==
  /\ Locked(p)
  /\ o = Observed(Explicit(p))
  /\ job.recovered \/ ~ CanRecoverTemporaries(o)

MigrateLegacy(p) ==
  \E o \in {Observed(TRUE)} :
    /\ Assessed(p, o) /\ Explicit(p) /\ o.authority \in {"v0", "v1"}
    /\ LET allowed == IF o.authority = "v0" THEN Assess(o) \in MigratableGenerationZero
                      ELSE Assess(o) = "MIGRATION_REQUIRED"
       IN IF ~ allowed THEN Refuse(p, Assess(o))
          ELSE IF o.file.data.doc \notin Migratable THEN Refuse(p, "MIGRATION_REQUIRED")
          ELSE Run(p, <<Publish(o.file.data, o.file), Commit(ToVersionTwo(o.file.data), o.file),
                    Verify("current")>>)

ImportAbsentPrototype(p) ==
  \E o \in {Observed(TRUE)} :
    /\ Assessed(p, o) /\ Explicit(p) /\ o.authority = "absent"
    /\ LET code == Assess(o)
           again == proc[p].command = "reimport"
       IN CASE o.prototype = InvalidPrototype                     -> Refuse(p, "INVALID_SCHEMA")
            [] o.prototype # InvalidPrototype /\ code \notin {"EMPTY", "PROTOTYPE_IMPORT_REQUIRED"}
                                                                  -> Refuse(p, code)
            [] o.prototype = NoPrototype /\ code = "EMPTY"        -> Refuse(p, "EMPTY")
            [] OTHER ->
                 IF ValidOf(o.artifacts, "receipt") # {} /\ ~ again
                 THEN Refuse(p, "REIMPORT_REQUIRED")
                 ELSE Run(p, <<Revalidate(o.prototype), Commit(PrototypeToVersionTwo(o.prototype), NoFile),
                               PublishReceipt(o.prototype), Verify("imported")>>)

MigrateOrResumePrototype(p) ==
  \E o \in {Observed(TRUE)} :
    /\ Assessed(p, o) /\ Explicit(p) /\ o.authority = "v2"
    /\ LET same == PrototypeToVersionTwo(o.prototype) = o.file.data
           replace == IF same THEN <<>>
                      ELSE <<Revalidate(o.prototype), Publish(o.file.data, o.file),
                             Commit(PrototypeToVersionTwo(o.prototype), o.file)>>
       IN CASE o.prototype = InvalidPrototype                           -> Refuse(p, "INVALID_SCHEMA")
            [] o.prototype # InvalidPrototype /\ Assess(o) \notin CurrentVersionTwo
                                                                        -> Refuse(p, Assess(o))
            [] o.prototype = NoPrototype /\ Assess(o) \in CurrentVersionTwo -> Refuse(p, Assess(o))
            [] OTHER -> IF ~ same /\ proc[p].command = "migrate" THEN Refuse(p, "REIMPORT_REQUIRED")
                        ELSE Run(p, replace \o <<PublishReceipt(o.prototype), Verify("imported")>>)

RefuseMigration(p) ==
  \E o \in {Observed(TRUE)} :
    /\ Assessed(p, o) /\ Explicit(p)
    /\ o.authority \notin {"v0", "v1", "v2", "absent"}
    /\ Refuse(p, Assess(o))

PrepareRollback(p) ==
  \E o \in {Observed(FALSE)} :
    /\ Assessed(p, o) /\ proc[p].command = "rollback"
    /\ CASE o.authority = "v0" /\ Assess(o) = "ROLLBACK_PREPARED" -> Run(p, <<Verify("rolled_back")>>)
         [] o.authority = "v2" /\ Assess(o) \in CurrentVersionTwo ->
              IF o.file.data.doc \notin Representable THEN Refuse(p, "ROLLBACK_INCOMPATIBLE")
              ELSE Run(p, <<Publish(o.file.data, o.file), Commit(ToV060(o.file.data), o.file),
                            Verify("rolled_back")>>)
         [] OTHER -> Refuse(p, IF o.authority = "v2" /\ CanRecoverTemporaries(o)
                               THEN "ROLLBACK_INCOMPATIBLE" ELSE Assess(o))

RollbackBlockedByTemporary(p) ==
  /\ Locked(p) /\ ~ job.recovered /\ proc[p].command = "rollback"
  /\ LET o == Observed(FALSE) IN
       CanRecoverTemporaries(o) /\ o.authority = "v2" /\ o.file.data.doc \notin Representable
  /\ Refuse(p, "ROLLBACK_INCOMPATIBLE")

FullReset(p) ==
  \E o \in {Observed(FALSE)} :
    /\ Assessed(p, o) /\ proc[p].command = "reset"
    /\ IF o.authority # "unsafe" /\ \A a \in o.artifacts : a.state = "valid"
       THEN /\ proc' = [proc EXCEPT ![p].pc = "running"]
            /\ job' = [job EXCEPT !.at = "next", !.orphaned = private = "present",
                 !.todo = <<Destroy, Delete(FileAt(dir, Authority)), Verify("reset_complete")>>]
            /\ UNCHANGED <<platform, world, lock, bounds>>
       ELSE Refuse(p, Assess(o))

(* AccountStore._commit_credentials: the authority the store loaded is     *)
(* still there and nothing blocks writing.                                 *)
StoreSave(p) ==
  /\ Locked(p) /\ proc[p].command = "save"
  /\ LET o == Observed(FALSE) IN
     IF WriteBlocked(Assess(o)) THEN Refuse(p, Assess(o))
     ELSE IF o.file # proc[p].base THEN Refuse(p, "SOURCE_CHANGED")
     ELSE \E doc \in Document \ {o.file.data.doc} : Run(p, <<Commit(Payload("v2", doc), proc[p].base), Verify("saved")>>)

(* The parent is repaired before the lock sidecar below it can be opened,  *)
(* and again under the lock.                                               *)
RepairParent(p) ==
  /\ proc[p].pc = "waiting" /\ proc[p].command = "repair" /\ parent = "loose"
  /\ parent' = "private"
  /\ UNCHANGED <<platform, dir, durable, prototype, private, lock, proc, job, bounds>>

RepairPermissions(p) == Locked(p) /\ proc[p].command = "repair" /\ Refuse(p, Assess(Observed(FALSE)))

-----------------------------------------------------------------------------
(* The filesystem calls of the operation at the head of the plan.          *)

At(p, step) == lock = p /\ proc[p].pc = "running" /\ job.at = step
Head1 == Head(job.todo)
StartOf(p, kind) == At(p, "next") /\ job.todo # <<>> /\ Head1.kind = kind

Goto(step) == job' = [job EXCEPT !.at = step] /\ UNCHANGED proc
Advance == /\ job' = [job EXCEPT !.at = "next", !.todo = Tail(@), !.temp = NoName, !.file = NoFile]
           /\ UNCHANGED proc
Abandon(code) == job' = [job EXCEPT !.at = "discard", !.code = code] /\ UNCHANGED proc
Fail(p, code) == Finish(p, code)

Still == UNCHANGED <<platform, parent, prototype, private, lock, commands, edits>>
NoChange == UNCHANGED <<dir, durable>>
Works == UNCHANGED faults

Purpose(op) ==
  CASE op.kind = "commit"         -> "authority"
    [] op.name.kind = "receipt"   -> "receipt"
    [] op.name.gen = "v0"         -> "backup"
    [] OTHER                      -> "snapshot"

CreateCandidate ==
  HasFreeNode /\ \E s \in Slot :
    LET t == TemporaryName(Purpose(Head1), s)
        f == [node |-> FreeNode, data |-> Torn]
    IN /\ t \notin DOMAIN dir
       /\ \A other \in Slot : other < s => TemporaryName(Purpose(Head1), other) \in DOMAIN dir
       /\ Change(Put(dir, t, f))
       /\ job' = [job EXCEPT !.at = "write", !.temp = t, !.file = [f EXCEPT !.data = Head1.data]]
       /\ UNCHANGED proc

(* _publish_content_addressed: check the source, reuse what is there,      *)
(* create a candidate otherwise.                                           *)
StartPublish(p) ==
  /\ StartOf(p, "publish") /\ Still /\ Works
  /\ LET source == IF Head1.expected = NoFile THEN "none" ELSE ExpectationError(dir, Head1.expected)
         reuse == CompleteReadError(dir, Head1.name)
         edited == Head1.name.kind = "receipt" /\ prototype # Head1.name.doc
         error == IF edited THEN "SOURCE_CHANGED" ELSE IF source # "none" THEN source ELSE reuse
     IN \/ error # "none" /\ Fail(p, error) /\ NoChange
        \/ error = "none" /\ Head1.name \notin DOMAIN dir /\ CreateCandidate
        \/ /\ error = "none" /\ Head1.name \in DOMAIN dir /\ NoChange
           /\ IF dir[Head1.name].data = Head1.data THEN Advance ELSE Fail(p, "BACKUP_CONFLICT")

StartCommit(p) == StartOf(p, "commit") /\ CreateCandidate /\ Still /\ Works

(* Mutant: a short write goes unnoticed.                                   *)
WriteShort(p) == At(p, "write") /\ Still /\ Works /\ NoChange /\ Goto("check")

(* The bytes are written and synced before any other name refers to them.  *)
Write(p) ==
  LET written(d) == [n \in DOMAIN d |-> IF d[n].node = job.file.node THEN job.file ELSE d[n]]
  IN /\ At(p, "write") /\ Still /\ Works
     /\ dir' = written(dir)
     /\ durable' = {written(d) : d \in durable}
     /\ Goto("check")

WriteFails(p) == At(p, "write") /\ Fault /\ Still /\ NoChange /\ Abandon("CANDIDATE_WRITE")

(* Mutant: the source is not looked at again before the replacement.       *)
RequireNothing(p) == At(p, "check") /\ Still /\ Works /\ NoChange /\ Goto("install")

RequireExpectedAuthority(p) ==
  LET error == IF Head1.kind = "publish" /\ Head1.expected = NoFile THEN "none"
               ELSE ExpectationError(dir, Head1.expected)
  IN /\ At(p, "check") /\ Still /\ Works /\ NoChange
     /\ IF error = "none" THEN Goto("install") ELSE Abandon(error)

Replacing == Head1.kind = "commit" /\ Head1.expected # NoFile
Moved == Put(Remove(dir, job.temp), Head1.name, dir[job.temp])

PosixReplace(p) ==
  /\ At(p, "install") /\ platform = "posix" /\ Replacing /\ Still /\ Works
  /\ Change(Moved) /\ Goto("harden")

(* link fails rather than replace; a first commit then removes the         *)
(* temporary at once, a publication only after the final name is durable.  *)
PosixLink(p) ==
  /\ At(p, "install") /\ platform = "posix" /\ ~ Replacing /\ Still /\ Works
  /\ IF Head1.name \in DOMAIN dir THEN Abandon("SOURCE_CHANGED") /\ NoChange
     ELSE /\ Change(Put(dir, Head1.name, dir[job.temp]))
          /\ Goto(IF Head1.kind = "commit" THEN "unlink" ELSE "harden")

PosixUnlink(p) ==
  /\ At(p, "unlink") /\ Still /\ Works
  /\ Change(Remove(dir, job.temp)) /\ Goto("harden")

WindowsMove(p) ==
  /\ At(p, "install") /\ platform = "windows" /\ Still /\ Works
  /\ IF ~ Replacing /\ Head1.name \in DOMAIN dir THEN Abandon("SOURCE_CHANGED") /\ NoChange
     ELSE WriteThrough(Moved) /\ Goto("harden")

(* A call that failed without effect is told from one that may have had it.*)
InstallFails(p) ==
  /\ At(p, "install") /\ Fault /\ Still /\ NoChange
  /\ IF Head1.kind = "commit" /\ ReplacementMayHaveCommitted(dir, Head1.expected)
     THEN Fail(p, "DURABILITY_UNCERTAIN")
     ELSE Abandon(IF Head1.kind = "commit" THEN "REPLACE_FAILED" ELSE "CANDIDATE_WRITE")

(* The move happened and its proof failed; or the temporary stayed.        *)
WindowsMoveUnproved(p) ==
  /\ At(p, "install") /\ platform = "windows" /\ Fault /\ Still
  /\ Replacing \/ Head1.name \notin DOMAIN dir
  /\ WriteThrough(Moved) /\ Fail(p, "DURABILITY_UNCERTAIN")

UnlinkFails(p) == At(p, "unlink") /\ Fault /\ Still /\ NoChange /\ Fail(p, "DURABILITY_UNCERTAIN")

HardenFinal(p) ==
  /\ At(p, "harden") /\ Harden /\ Still /\ Works
  /\ IF Head1.kind = "commit" THEN Goto("prove")
     ELSE IF job.temp \in DOMAIN dir THEN Goto("clean") ELSE Advance

(* Mutant: a directory that cannot be synced is reported as no replacement.*)
HardenFailsDefinitely(p) ==
  At(p, "harden") /\ Fault /\ Still /\ NoChange /\ Fail(p, "REPLACE_FAILED")

HardenFails(p) == At(p, "harden") /\ Fault /\ Still /\ NoChange /\ Fail(p, "DURABILITY_UNCERTAIN")

(* The reopened authority is the candidate, whole, with nothing beside it. *)
Prove(p) ==
  /\ At(p, "prove") /\ Still /\ Works /\ NoChange
  /\ IF LinkProof(dir, Authority) = "whole" /\ dir[Authority] = job.file
     THEN Advance ELSE Fail(p, "DURABILITY_UNCERTAIN")

CleanPublished(p) ==
  /\ At(p, "clean") /\ Still /\ Works
  /\ Change(Remove(dir, job.temp)) /\ Goto("settle")

CleanFails(p) == At(p, "clean") /\ Fault /\ Still /\ NoChange /\ Fail(p, "DURABILITY_UNCERTAIN")

Settle(p) == At(p, "settle") /\ Harden /\ Still /\ Works /\ Advance

RemoveCandidate(p) ==
  /\ At(p, "discard") /\ Still /\ Works
  /\ Change(Remove(dir, job.temp)) /\ Goto("discarded")

RemoveCandidateFails(p) == At(p, "discard") /\ Fault /\ Still /\ NoChange /\ Fail(p, "INTERRUPTED_ARTIFACTS")

Discarded(p) == At(p, "discarded") /\ Harden /\ Still /\ Works /\ Fail(p, job.code)

-----------------------------------------------------------------------------
(* Recovery of a temporary, reset, and what is looked at afterwards.       *)

RecoverOrDiscardTemporary(p) ==
  /\ StartOf(p, "recover") /\ Still /\ Works
  /\ LET t == Head1.name
         errors == {RecoveryError(m, dir[m].data) : m \in LinkPartners(dir, t)} \ {"none"}
     IN IF errors # {} THEN (\E e \in errors : Fail(p, e)) /\ NoChange
        ELSE Change(Remove(dir, t)) /\ Goto("settle")

RecoverFails(p) ==
  /\ StartOf(p, "recover") /\ Fault /\ Still /\ NoChange
  /\ Fail(p, IF LinkPartners(dir, Head1.name) = {} THEN "INTERRUPTED_ARTIFACTS"
             ELSE "DURABILITY_UNCERTAIN")

(* A recovery was the whole plan: the command goes on with a fresh look.   *)
Reassess(p) ==
  /\ At(p, "next") /\ job.todo = <<>> /\ Still /\ Works /\ NoChange
  /\ proc' = [proc EXCEPT ![p].pc = "locked"]
  /\ UNCHANGED job

DestroyPrivateCredentials(p) ==
  /\ StartOf(p, "destroy") /\ Works /\ NoChange
  /\ private' = "absent"
  /\ Advance
  /\ UNCHANGED <<platform, parent, prototype, lock, commands, edits>>

DestroyFails(p) == StartOf(p, "destroy") /\ Fault /\ Still /\ NoChange /\ Fail(p, "RESET_INCOMPLETE")

(* What _credential_artifacts lists, in the order of their names.          *)
CredentialArtifacts == Temporaries(dir) \cup {n \in Backups(dir) : n.gen \in {"v0", "v1"}}
DeletedFirst(n) ==
  \A m \in CredentialArtifacts :
    CASE m.kind = "temporary" -> n.kind = "temporary"
      [] m.gen = "v0"         -> n.kind = "temporary" \/ n.gen = "v0"
      [] OTHER                -> TRUE

ResetCode(code) == IF job.orphaned \/ job.mutated THEN "RESET_INCOMPLETE" ELSE code

StartReset(p) ==
  /\ StartOf(p, "delete") /\ Still /\ Works /\ NoChange
  /\ LET error == ExpectationError(dir, Head1.expected)
     IN IF error = "none" THEN Goto("reset") ELSE Fail(p, ResetCode(error))

DeleteCredentialArtifact(p) ==
  /\ At(p, "reset") /\ Still /\ Works
  /\ \E n \in CredentialArtifacts :
       /\ DeletedFirst(n) /\ Change(Remove(dir, n))
       /\ job' = [job EXCEPT !.at = "removed", !.mutated = TRUE]
  /\ UNCHANGED proc

(* Mutant: the authority may go before its backups.                        *)
DeleteAuthorityFirst(p) ==
  /\ At(p, "reset") /\ Head1.expected # NoFile /\ Still /\ Works
  /\ ExpectationError(dir, Head1.expected) = "none"
  /\ Change(Remove(dir, Authority))
  /\ job' = [job EXCEPT !.at = "removed", !.mutated = TRUE, !.todo[1].expected = NoFile]
  /\ UNCHANGED proc

(* The authority goes last, and only the exact one that was expected.      *)
DeleteAuthority(p) ==
  /\ At(p, "reset") /\ CredentialArtifacts = {} /\ Head1.expected # NoFile /\ Still /\ Works
  /\ LET error == ExpectationError(dir, Head1.expected)
     IN IF error # "none" THEN Fail(p, ResetCode(error)) /\ NoChange
        ELSE /\ Change(Remove(dir, Authority))
             /\ job' = [job EXCEPT !.at = "removed", !.mutated = TRUE, !.todo[1].expected = NoFile]
             /\ UNCHANGED proc

Removed(p) == At(p, "removed") /\ Harden /\ Still /\ Works /\ Goto("reset")

RequireResetEmpty(p) ==
  /\ At(p, "reset") /\ CredentialArtifacts = {} /\ Head1.expected = NoFile
  /\ Still /\ Works /\ NoChange
  /\ IF Authority \in DOMAIN dir THEN Fail(p, "RESET_INCOMPLETE") ELSE Advance

DeleteFails(p) ==
  /\ At(p, "reset") \/ At(p, "removed")
  /\ Fault /\ Still /\ NoChange /\ Fail(p, "RESET_INCOMPLETE")

RevalidatePrototype(p) ==
  /\ StartOf(p, "revalidate") /\ Still /\ Works /\ NoChange
  /\ IF prototype = Head1.name.doc THEN Advance ELSE Fail(p, "SOURCE_CHANGED")

ResetIsComplete(o) ==
  o.authority = "absent" /\ o.private # "present" /\ RecoveryArtifacts(o) = {}

(* The postcondition of each command is a fresh passive assessment.        *)
Postcondition(p) ==
  LET o == Observed(FALSE)
      code == Assess(o)
  IN /\ At(p, "next") /\ job.todo # <<>> /\ Still /\ Works /\ NoChange
     /\ \/ Head1.kind \in {"current", "imported", "rolled_back"} /\ Fail(p, code)
        \/ Head1.kind = "reset_complete" /\ Fail(p, IF ResetIsComplete(o) THEN code ELSE "RESET_INCOMPLETE")
        \/ Head1.kind = "saved" /\ Fail(p, "CURRENT")

VerifierFails(p) == StartOf(p, "rolled_back") /\ Fault /\ Still /\ NoChange /\ Fail(p, "RELEASED_VERIFIER")

-----------------------------------------------------------------------------
(* Everything else that can happen.                                        *)

Stop(p) == [proc EXCEPT ![p] = Idle]

Die(p) ==
  /\ proc[p].pc # "idle" /\ Fault
  /\ proc' = Stop(p)
  /\ lock' = IF lock = p THEN NoProcess ELSE lock
  /\ job' = IF lock = p THEN NoJob ELSE job
  /\ UNCHANGED <<platform, world, commands, edits>>

(* A process that could not release its lock ends.                         *)
End(p) ==
  /\ proc[p].pc = "idle" /\ proc[p].held
  /\ proc' = Stop(p) /\ lock' = NoProcess
  /\ UNCHANGED <<platform, world, job, bounds>>

PowerLoss ==
  /\ Fault
  /\ dir' \in durable /\ durable' = {dir'}
  /\ proc' = [p \in Process |-> Idle] /\ lock' = NoProcess /\ job' = NoJob
  /\ UNCHANGED <<platform, parent, prototype, private, commands, edits>>

(* Between the last look at a source and the rename over it nothing can    *)
(* hold a released writer back; that window is left out.                   *)
InReplaceWindow == job.at = "install" /\ Replacing

LegacyWrite ==
  /\ Disturbable /\ ~ InReplaceWindow /\ HasFreeNode
  /\ FileAt(dir, Authority) = NoFile \/ FileAt(dir, Authority).data.gen = "v0"
  /\ \E doc \in Representable :
       Change(Put(dir, Authority, [node |-> FreeNode, data |-> Payload("v0", doc)]))
  /\ edits' = edits + 1
  /\ UNCHANGED <<platform, parent, prototype, private, lock, proc, job, commands, faults>>

EditPrototype ==
  /\ Disturbable /\ edits' = edits + 1
  /\ prototype' \in (Document \cup {NoPrototype, InvalidPrototype}) \ {prototype}
  /\ UNCHANGED <<platform, dir, durable, parent, private, lock, proc, job, commands, faults>>

Command(p) ==
  \/ \E c \in Commands : Begin(p, c)
  \/ Acquire(p) \/ LockTimeout(p) \/ UnsafeParent(p) \/ RepairParent(p)
  \/ Release(p) \/ ReleaseFails(p)
  \/ LockedRecovery(p) \/ MigrateLegacy(p) \/ ImportAbsentPrototype(p)
  \/ MigrateOrResumePrototype(p) \/ RefuseMigration(p) \/ PrepareRollback(p)
  \/ RollbackBlockedByTemporary(p) \/ FullReset(p) \/ StoreSave(p) \/ RepairPermissions(p)

Transaction(p) ==
  \/ StartPublish(p) \/ StartCommit(p) \/ Write(p) \/ RequireExpectedAuthority(p)
  \/ PosixReplace(p) \/ PosixLink(p) \/ PosixUnlink(p) \/ WindowsMove(p)
  \/ HardenFinal(p) \/ Prove(p) \/ CleanPublished(p) \/ Settle(p)
  \/ RemoveCandidate(p) \/ Discarded(p)
  \/ RecoverOrDiscardTemporary(p) \/ Reassess(p) \/ DestroyPrivateCredentials(p)
  \/ StartReset(p) \/ DeleteCredentialArtifact(p) \/ DeleteAuthority(p) \/ Removed(p)
  \/ RequireResetEmpty(p) \/ RevalidatePrototype(p) \/ Postcondition(p)

Failure(p) ==
  \/ WriteFails(p) \/ InstallFails(p) \/ WindowsMoveUnproved(p) \/ UnlinkFails(p)
  \/ HardenFails(p) \/ CleanFails(p) \/ RemoveCandidateFails(p) \/ RecoverFails(p)
  \/ DestroyFails(p) \/ DeleteFails(p) \/ VerifierFails(p) \/ Die(p) \/ End(p)

Next ==
  \/ \E p \in Process : Command(p) \/ Transaction(p) \/ Failure(p)
  \/ PowerLoss \/ LegacyWrite \/ EditPrototype

Spec == Init /\ [][Next]_vars

-----------------------------------------------------------------------------
(* Properties.                                                             *)

(* Whatever directory a power loss leaves, a final name never holds bytes  *)
(* that were not completely written, and a content addressed name holds    *)
(* the payload it names (create_private syncs before any rename).          *)
FinalNamesWhole ==
  \A d \in durable : \A n \in DOMAIN d :
    CASE n.kind = "authority" -> d[n].data # Torn
      [] n.kind = "backup"    -> d[n].data = Payload(n.gen, n.doc)
      [] n.kind = "receipt"   -> ValidReceipt(n, d[n].data)
      [] OTHER                -> TRUE

(* An interrupted version two snapshot, which no pair table knows.         *)
UnrecognisedPublication ==
  \E t \in Temporaries(dir) : t.gen = "snapshot" /\ LinkProof(dir, t) = "unsafe"

(* Whatever interrupted a command, once the lock is free and the parent    *)
(* private, the locked assessment of the next command can resolve the      *)
(* temporary that is left.                                                 *)
Resolvable ==
  (lock = NoProcess /\ parent = "private" /\ Temporaries(dir) # {})
    => \A explicit \in BOOLEAN : CanRecoverTemporaries(Observed(explicit))

TemporaryResolvable == UnrecognisedPublication \/ Resolvable

(* A reset deletes the authority last: no directory a power loss may leave *)
(* holds a generation zero or version one backup and no authority.         *)
AuthorityDeletedLast ==
  \A d \in durable : Authority \notin DOMAIN d => \A n \in Backups(d) : n.gen = "v2"

(* A migration, reimport or rollback replaces an authority only when an    *)
(* exact copy of what it replaces was published, also when a released      *)
(* writer changed it after the command had looked: no power loss leaves    *)
(* the new authority without that copy.                                    *)
Converting(c) == c \in {"migrate", "reimport", "rollback"}
BackupBeforeReplace ==
  [][(/\ lock # NoProcess /\ Converting(proc[lock].command)
      /\ edits' = edits /\ lock' = lock
      /\ Authority \in DOMAIN dir /\ Authority \in DOMAIN dir'
      /\ dir[Authority] # dir'[Authority])
     => \A d \in durable' :
          FileAt(d, Authority) = dir'[Authority] => BackupName(dir[Authority].data) \in DOMAIN d]_vars

(* A commit that reports a definite failure did not install its candidate, *)
(* in any directory a power loss may leave.                                *)
FailureIsTruthful ==
  [][\A p \in Process :
       (/\ proc[p].pc = "running" /\ proc'[p].pc = "releasing"
        /\ job.todo # <<>> /\ Head(job.todo).kind = "commit" /\ job.file # NoFile
        /\ proc'[p].code # "DURABILITY_UNCERTAIN")
       => \A d \in durable' : FileAt(d, Authority) # job.file]_vars

(* A commit that was proved is the authority after any power loss, unless  *)
(* it was a rollback and a released writer has replaced it since.          *)
Committed(d) ==
  LET f == FileAt(d, Authority)
  IN f = job.file \/ (edits > 0 /\ f.data.gen = "v0" /\ job.file.data.gen = "v0")
CommitSurvivesPowerLoss ==
  [][(job.at = "prove" /\ job'.at = "next") => \A d \in durable' : Committed(d)]_vars

(* What transaction.py says of full_reset: "Delete all credentials".  When *)
(* nothing failed and no other writer came, nothing is left to recover.    *)
ResetDeletesAll ==
  (job.todo # <<>> /\ Head(job.todo).kind = "reset_complete" /\ edits = 0)
    => RecoveryArtifacts(Observed(FALSE)) = {}
=============================================================================
