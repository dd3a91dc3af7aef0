------------------------------ MODULE LocationMove ------------------------------
(***************************************************************************)
(* Moving the accounts from the released location to the native one and    *)
(* back (persistence/migrations/service.py): a lifecycle command prepares  *)
(* its work, commits it through the migration journal of its destination   *)
(* and resolves one change of its source, while an ordinary command, a     *)
(* released v0.6.0 process that knows no lock, and process death interfere.*)
(***************************************************************************)
EXTENDS LocationSelection

CONSTANTS
  Prototypes,    \* what the prototype file may be: subset of its three codes
  Lossy,         \* locations whose bundles may be deleted by hand
  MaxUpdates,    \* ordinary commands
  MaxFaults      \* deaths, lost bundles and writes by released versions

ASSUME MoveAssumption ==
  /\ Prototypes \subseteq {"EMPTY", "PROTOTYPE_IMPORT_REQUIRED", "INVALID_SCHEMA"}
  /\ Lossy \subseteq LocationRole
  /\ MaxUpdates \in Nat /\ MaxFaults \in Nat

VARIABLES
  auth,       \* the account authority of each location
  bundles,    \* the credential in each private Codex bundle; 0 is no bundle
  lineage,    \* the immutable version two snapshots of each location
  journal,    \* the private transaction directory of each location
  prototype,  \* the import-only prototype file
  op,         \* the lifecycle command, which excludes every other
  rt,         \* one ordinary command: the location it loaded, the account it changes
  issued,     \* the last credential each account ever had
  newest,     \* the last credential committed for each account and not removed:
              \* kept somewhere, and due from the location in use
  updates, faults

disk == <<auth, bundles, lineage, journal, prototype>>
vars == <<auth, bundles, lineage, journal, prototype, op, rt, issued, newest, updates, faults>>

View == [auth |-> auth, bundles |-> bundles, lineage |-> lineage, journal |-> journal,
         prototype |-> prototype]
Now == Selection(View)

Idle == [pc |-> "idle"]
Resting == [pc |-> "idle"]

Everywhere(accounts) == [kept |-> accounts, due |-> accounts]
Having(l, version) ==
  [kept |-> [newest.kept EXCEPT ![l] = version], due |-> [newest.due EXCEPT ![l] = version]]

Both(compatibility, canonical) ==
  [r \in LocationRole |-> IF r = "canonical" THEN canonical ELSE compatibility]

(* Any two sets of first credentials, each with its bundles; a prototype is*)
(* looked at only in their absence.                                        *)
Init ==
  \E a, b \in [Account -> {0, 1}], gen \in {"v2", "v0"} :
    LET Doc(d, g) == IF d = NoAccounts THEN Absent ELSE [gen |-> g, accounts |-> d]
        Held(d) == [l \in Owned |-> d[l]]
        seen == [l \in Account |-> IF a[l] + b[l] > 0 THEN 1 ELSE 0]
    IN /\ a = NoAccounts => gen = "v2"
       /\ auth = Both(Doc(a, gen), Doc(b, "v2"))
       /\ bundles = Both(Held(a), Held(b))
       /\ lineage = Both({}, {})
       /\ journal = Both(NoJournal, NoJournal)
       /\ prototype \in IF a = NoAccounts THEN Prototypes ELSE {"EMPTY"}
       /\ op = Idle /\ rt = Resting
       /\ issued = seen /\ newest = Everywhere(seen)
       /\ updates = 0 /\ faults = 0

Fault == faults < MaxFaults /\ faults' = faults + 1

-----------------------------------------------------------------------------
(* The lifecycle command takes the refresh quiescence lock, looks, and     *)
(* then holds the locks of both locations.                                 *)

HoldsLocations == op.pc \notin {"idle", "preview"}
End == op' = Idle

IsCompleted(s) ==
  s.code \in {"canonical_selected", "equivalent_selected"}
(* A completed move is reported only for a released location to report.    *)
Completed(s) == IsCompleted(s) /\ EvidenceForRole(View, "compatibility") # {}

Movable(s, replace) ==
  s.code \in {"compatibility_selected", "partial"} \/ (replace /\ s.code = "conflict")

(* migrate_locations up to the preview; a move that is already completed   *)
(* changes nothing.                                                        *)
BeginMigrate(replace) ==
  /\ op = Idle /\ CanAssess(View)
  /\ ~ Completed(Now) /\ Movable(Now, replace)
  /\ op' = [pc |-> "preview", kind |-> "migrate", from |-> "compatibility", to |-> "canonical",
            replace |-> replace, rebased |-> FALSE, seen |-> auth["canonical"]]
  /\ UNCHANGED <<disk, rt, issued, newest, updates, faults>>

(* prepare_rollback from the native location.                              *)
BeginRollback ==
  /\ op = Idle /\ CanAssess(View) /\ IsCompleted(Now)
  /\ op' = [pc |-> "preview", kind |-> "rollback", from |-> "canonical", to |-> "compatibility",
            replace |-> FALSE, rebased |-> TRUE, seen |-> auth["compatibility"]]
  /\ UNCHANGED <<disk, rt, issued, newest, updates, faults>>

(* Both locks, in the order of their resolved paths; the scheduler is      *)
(* looked at again.                                                        *)
HoldLocationState ==
  /\ op.pc = "preview"
  /\ op' = [op EXCEPT !.pc = IF op.kind = "migrate" THEN "held" ELSE "prepare"]
  /\ UNCHANGED <<disk, rt, issued, newest, updates, faults>>

(* A scheduler that is no longer quiescent, a filesystem call that fails.  *)
Refuse ==
  /\ op.pc \in {"preview", "held", "prepare"}
  /\ End
  /\ UNCHANGED <<disk, rt, issued, newest, updates, faults>>

-----------------------------------------------------------------------------
(* The source guard: the authority and the bundles of its accounts.        *)

SourceGuard(from, accounts) ==
  [auth |-> auth[from],
   bundles |-> [l \in OwnedPrivateHomes(accounts) |-> bundles[from][l]]]

GuardReadable(from, accounts) ==
  auth[from] # Absent /\ \A l \in OwnedPrivateHomes(accounts) : bundles[from][l] > 0

RequireSourceGuard ==
  /\ GuardReadable(op.from, op.work.source)
  /\ SourceGuard(op.from, op.work.source) = op.guard

(* A source that changed ends a rollback, and a move that has already been *)
(* rebased; the journal it has written stays.                              *)
SourceChanged ==
  op' = CASE op.rebased -> Idle
          [] ~ op.rebased /\ journal[op.to] # NoJournal -> [op EXCEPT !.pc = "diverged"]
          [] OTHER -> [op EXCEPT !.pc = "prepare", !.rebased = TRUE]

EvidenceAccounts(role) ==
  IF AssessmentCode(View, role) = "CURRENT" THEN auth[role].accounts ELSE NoAccounts

(* _recover_location_transaction: an empty transaction directory goes; the *)
(* recovery it calls refuses every migration journal, and an ordinary one  *)
(* for want of the guard it was written with.                              *)
RecoverLocationTransaction ==
  /\ op.pc = "held"
  /\ \/ /\ journal["canonical"] = NoJournal
        /\ op' = [op EXCEPT !.pc = "prepare"]
        /\ UNCHANGED journal
     \/ /\ journal["canonical"].kind = "empty"
        /\ GuardReadable("compatibility", EvidenceAccounts("compatibility"))
        /\ journal' = [journal EXCEPT !["canonical"] = NoJournal]
        /\ op' = [op EXCEPT !.pc = "prepare"]
     \/ /\ journal["canonical"].kind \in {"ordinary", "migration"}
        /\ End /\ UNCHANGED journal
  /\ UNCHANGED <<auth, bundles, lineage, prototype, rt, issued, newest, updates, faults>>

-----------------------------------------------------------------------------
(* The work of a move and of a rollback.                                   *)

(* Provably older: both dated, different, and the destination newer.       *)
HasStaleCredentialReplacement(source, destination) ==
  \E l \in Account :
    /\ source[l] > 0 /\ destination[l] > source[l]
    /\ Dated(source[l]) /\ Dated(destination[l])

DisplacedPrivateBundles(before, after) ==
  OwnedPrivateHomes(before) \ OwnedPrivateHomes(after)

Work(source, target, displaced) ==
  [source |-> source, target |-> target, base |-> auth[op.to],
   copies |-> CopiesRequired(View, op.from, op.to),
   files |-> bundles[op.from], displaced |-> displaced]

(* Mutant: the stale guard is dropped.                                     *)
Stale(s) ==
  /\ op.replace /\ s.code = "conflict"
  /\ HasStaleCredentialReplacement(auth["compatibility"].accounts, EvidenceAccounts("canonical"))

PrepareLocationWork ==
  /\ op.pc = "prepare" /\ op.kind = "migrate"
  /\ CanAssess(View) /\ ~ Completed(Now)
  /\ Movable(Now, op.replace) /\ ~ Stale(Now)
  /\ \E c \in EvidenceForRole(View, "compatibility") : c.prepared
  /\ EvidenceForRole(View, "canonical") # {} => auth["canonical"] # Absent
  /\ op' = [pc |-> "guard", kind |-> op.kind, from |-> op.from, to |-> op.to,
            replace |-> op.replace, rebased |-> op.rebased, seen |-> op.seen,
            work |-> Work(auth["compatibility"].accounts,
                          VersionTwo(auth["compatibility"].accounts),
                          DisplacedPrivateBundles(EvidenceAccounts("canonical"),
                                                  auth["compatibility"].accounts))]
  /\ UNCHANGED <<disk, rt, issued, newest, updates, faults>>

(* The rollback does not look at the selection again; it takes what the    *)
(* evidence of the native location holds, and nothing from evidence that is*)
(* not current.                                                            *)
PrepareNativeRollback ==
  /\ op.pc = "prepare" /\ op.kind = "rollback"
  /\ auth["canonical"] # Absent /\ CanAssess(View)
  /\ AssessmentCode(View, "canonical") = "CURRENT" =>
       PrivateAuthPrepared(View, "canonical", "compatibility")
  /\ \/ AssessmentCode(View, "compatibility") = "EMPTY"
     \/ auth["compatibility"].gen = "v2"
  /\ LET source == EvidenceAccounts("canonical") IN
     op' = [pc |-> "snapshot", kind |-> op.kind, from |-> op.from, to |-> op.to,
            replace |-> FALSE, rebased |-> TRUE, seen |-> op.seen,
            work |-> [Work(source, GenerationZero(source), {}) EXCEPT
                        !.copies = @ \cap OwnedPrivateHomes(source)]]
  /\ UNCHANGED <<disk, rt, issued, newest, updates, faults>>

(* The guard is what the source holds now, read twice, which need not be   *)
(* what the work was prepared from.                                        *)
TakeSourceGuard ==
  /\ op.pc = "guard"
  /\ \/ /\ GuardReadable(op.from, op.work.source)
        /\ op' = [pc |-> IF op.kind = "migrate" THEN "snapshot" ELSE "journal",
                  kind |-> op.kind, from |-> op.from, to |-> op.to, replace |-> op.replace,
                  rebased |-> op.rebased, seen |-> op.seen, work |-> op.work,
                  guard |-> SourceGuard(op.from, op.work.source)]
     \/ ~ GuardReadable(op.from, op.work.source) /\ SourceChanged
  /\ UNCHANGED <<disk, rt, issued, newest, updates, faults>>

(* Mutant: what is replaced is not kept.                                   *)
NotRetained == {}

(* The authority about to be replaced becomes an immutable snapshot; a     *)
(* rollback adds the lineage a later upgrade looks for.                    *)
DisplacedSnapshot == IF op.work.base.gen = "v2" THEN {op.work.base.accounts} ELSE {}
RollbackLineage == IF op.kind = "rollback" THEN {op.work.target.accounts} ELSE {}

PublishSnapshots ==
  /\ op.pc = "snapshot"
  /\ lineage' = [lineage EXCEPT ![op.to] = @ \cup DisplacedSnapshot \cup RollbackLineage]
  /\ op' = [op EXCEPT !.pc = IF op.kind = "migrate" THEN "journal" ELSE "guard"]
  /\ UNCHANGED <<auth, bundles, journal, prototype, rt, issued, newest, updates, faults>>

-----------------------------------------------------------------------------
(* commit_migration: journal, bundles, authority, displaced bundles,       *)
(* lineage, cleanup, with the source proved unchanged in between.          *)

MigrationJournal ==
  [kind |-> "migration", base |-> op.work.base, target |-> op.work.target,
   guard |-> op.guard, before |-> bundles[op.to], copies |-> op.work.copies,
   files |-> op.work.files, displaced |-> op.work.displaced]

WriteJournal ==
  /\ op.pc = "journal"
  /\ \/ /\ journal[op.to] = NoJournal /\ auth[op.to] = op.work.base /\ RequireSourceGuard
        /\ journal' = [journal EXCEPT ![op.to] = MigrationJournal]
        /\ op' = [op EXCEPT !.pc = "copies"]
     \/ /\ journal[op.to] = NoJournal
        /\ auth[op.to] # op.work.base \/ ~ RequireSourceGuard
        /\ SourceChanged /\ UNCHANGED journal
     \/ journal[op.to] # NoJournal /\ End /\ UNCHANGED journal
  /\ UNCHANGED <<auth, bundles, lineage, prototype, rt, issued, newest, updates, faults>>

(* Mutant: the authority is committed first and the bundles after it.      *)
NothingToCopy == TRUE
Uncopied == {l \in op.work.copies : bundles[op.to][l] # op.work.files[l]}
AllCopied == Uncopied = {}

CopyBundle ==
  /\ op.pc = "copies"
  /\ \/ \E l \in Uncopied :
          /\ bundles' = [bundles EXCEPT ![op.to][l] = op.work.files[l]]
          /\ UNCHANGED op
     \/ AllCopied /\ op' = [op EXCEPT !.pc = "commit"] /\ UNCHANGED bundles
  /\ UNCHANGED <<auth, lineage, journal, prototype, rt, issued, newest, updates, faults>>

(* An operator who replaces a conflicting destination gives up what it had;*)
(* so does a rollback whose destination changed after its preview.         *)
GivesUp == op.replace \/ (op.kind = "rollback" /\ op.seen # op.work.base)

CommitAuthority ==
  /\ op.pc = "commit"
  /\ \/ /\ RequireSourceGuard /\ auth[op.to] = op.work.base
        /\ auth' = [auth EXCEPT ![op.to] = op.work.target]
        /\ newest' = IF GivesUp THEN [newest EXCEPT !.due = op.work.target.accounts] ELSE newest
        /\ op' = [op EXCEPT !.pc = "retire"]
     \/ /\ ~ RequireSourceGuard \/ auth[op.to] # op.work.base
        /\ SourceChanged /\ UNCHANGED <<auth, newest>>
  /\ UNCHANGED <<bundles, lineage, journal, prototype, rt, issued, updates, faults>>

Without(b, displaced) == [l \in Owned |-> IF l \in displaced THEN 0 ELSE b[l]]
TargetLineage(target) == IF target.gen = "v2" THEN {target.accounts} ELSE {}

RetireDisplaced ==
  /\ op.pc = "retire"
  /\ \/ /\ RequireSourceGuard
        /\ bundles' = [bundles EXCEPT ![op.to] = Without(@, op.work.displaced)]
        /\ lineage' = [lineage EXCEPT ![op.to] = @ \cup TargetLineage(op.work.target)]
        /\ op' = [op EXCEPT !.pc = "cleanup"]
     \/ ~ RequireSourceGuard /\ SourceChanged /\ UNCHANGED <<bundles, lineage>>
  /\ UNCHANGED <<auth, journal, prototype, rt, issued, newest, updates, faults>>

(* The command reports success when the selection, or for a rollback the   *)
(* released reader, agrees; nothing changes either way.                    *)
CleanupTransaction ==
  /\ op.pc = "cleanup"
  /\ \/ /\ RequireSourceGuard
        /\ journal' = [journal EXCEPT ![op.to] = NoJournal]
        /\ End
     \/ ~ RequireSourceGuard /\ SourceChanged /\ UNCHANGED journal
  /\ UNCHANGED <<auth, bundles, lineage, prototype, rt, issued, newest, updates, faults>>

(* resolve_migration_source_divergence: the source did change; the native  *)
(* location is brought back to its base or on to the target, and the work  *)
(* is prepared once more.                                                  *)
DivergenceProven ==
  LET accounts == EvidenceAccounts("compatibility") IN
  /\ GuardReadable("compatibility", accounts)
  /\ SourceGuard("compatibility", accounts) # journal["canonical"].guard

(* Mutant: a divergence leaves the copied bundles behind.                  *)
RestoreBase(j) == [l \in Owned |-> IF l \in j.copies THEN j.before[l] ELSE bundles["canonical"][l]]
EnsureTarget(j) ==
  Without([l \in Owned |-> IF l \in j.copies THEN j.files[l] ELSE bundles["canonical"][l]],
          j.displaced)

Converge(kept, snapshots) ==
  /\ DivergenceProven
  /\ bundles' = [bundles EXCEPT !["canonical"] = kept]
  /\ lineage' = [lineage EXCEPT !["canonical"] = @ \cup snapshots]
  /\ journal' = [journal EXCEPT !["canonical"] = NoJournal]
  /\ op' = [op EXCEPT !.pc = "prepare", !.rebased = TRUE]

ResolveLocationDivergence ==
  /\ op.pc = "diverged"
  /\ LET j == journal["canonical"] IN
     \/ auth["canonical"] = j.target /\ Converge(EnsureTarget(j), TargetLineage(j.target))
     \/ auth["canonical"] = j.base /\ j.base # j.target
          /\ Converge(RestoreBase(j), TargetLineage(j.base))
     \/ /\ ~ DivergenceProven \/ auth["canonical"] \notin {j.base, j.target}
        /\ End /\ UNCHANGED <<bundles, lineage, journal>>
  /\ UNCHANGED <<auth, prototype, rt, issued, newest, updates, faults>>

-----------------------------------------------------------------------------
(* The other lifecycle commands, each a whole transition of one location   *)
(* (AccountLifecycle has their steps).                                     *)

(* migrate accounts: an older generation, or the prototype when nothing    *)
(* else is there.                                                          *)
MigrateAccounts ==
  /\ op = Idle /\ CanAssess(View)
  /\ \/ /\ OperationRole(Now) = "compatibility" /\ auth["compatibility"].gen = "v0"
        /\ auth' = [auth EXCEPT !["compatibility"].gen = "v2"]
        /\ UNCHANGED <<issued, newest>>
     \/ /\ Now.code = "prototype_only"
        /\ \E l \in Account \ Owned :
             /\ issued[l] < MaxVersion
             /\ LET version == [NoAccounts EXCEPT ![l] = issued[l] + 1] IN
                /\ auth' = [auth EXCEPT !["canonical"] = VersionTwo(version)]
                /\ newest' = Everywhere(version)
             /\ issued' = [issued EXCEPT ![l] = @ + 1]
  /\ UNCHANGED <<bundles, lineage, journal, prototype, op, rt, updates, faults>>

(* prepare-rollback while the released location is the selected one.       *)
RollbackInPlace ==
  /\ op = Idle /\ CanAssess(View) /\ Now.code = "compatibility_selected"
  /\ lineage' = [lineage EXCEPT !["compatibility"] = @ \cup {auth["compatibility"].accounts}]
  /\ auth' = [auth EXCEPT !["compatibility"].gen = "v0"]
  /\ UNCHANGED <<bundles, journal, prototype, op, rt, issued, newest, updates, faults>>

(* A full reset deletes what the operated location holds, and only that.   *)
FullReset ==
  /\ op = Idle /\ CanAssess(View) /\ OperationRole(Now) # "none"
  /\ LET role == OperationRole(Now) IN
     /\ auth' = [auth EXCEPT ![role] = Absent]
     /\ bundles' = [bundles EXCEPT ![role] = [l \in Owned |-> 0]]
     /\ lineage' = [lineage EXCEPT ![role] = {}]
  /\ newest' = Everywhere(NoAccounts)
  /\ UNCHANGED <<journal, prototype, op, rt, issued, updates, faults>>

-----------------------------------------------------------------------------
(* Ordinary commands: the location is chosen when the command is composed, *)
(* the account it changes is compared again under the lock of that         *)
(* location, which may by then no longer be the selected one.              *)

ComposeAppContext(l) ==
  /\ rt = Resting /\ updates < MaxUpdates
  /\ CanAssess(View) /\ IsReadySelection(Now)
  /\ LET role == ReadyRole(Now) IN
     rt' = [pc |-> "loaded", role |-> role, label |-> l, gen |-> auth[role].gen,
            base |-> auth[role].accounts[l]]
  /\ updates' = updates + 1
  /\ UNCHANGED <<disk, op, issued, newest, faults>>

(* The recovery of a commit refuses a migration journal; the rest of its   *)
(* refusals are changes of the account or of the generation.               *)
Unchanged ==
  /\ journal[rt.role] = NoJournal
  /\ auth[rt.role].gen = rt.gen /\ auth[rt.role].accounts[rt.label] = rt.base
  /\ ~ HoldsLocations

Committed(l, version) ==
  [auth EXCEPT ![rt.role] = VersionTwo([@.accounts EXCEPT ![l] = version])]
Bundled(l, version) ==
  IF l \in Owned THEN [bundles EXCEPT ![rt.role][l] = version] ELSE bundles

UpdateAccount ==
  /\ rt.pc = "loaded" /\ Unchanged
  /\ LET l == rt.label IN
     /\ issued[l] < MaxVersion
     /\ issued' = [issued EXCEPT ![l] = @ + 1]
     /\ newest' = Having(l, issued[l] + 1)
     /\ auth' = Committed(l, issued[l] + 1)
     /\ bundles' = Bundled(l, issued[l] + 1)
  /\ rt' = Resting
  /\ UNCHANGED <<lineage, journal, prototype, op, updates, faults>>

RemoveAccount ==
  /\ rt.pc = "loaded" /\ Unchanged /\ rt.base > 0
  /\ newest' = Having(rt.label, 0)
  /\ auth' = Committed(rt.label, 0)
  /\ bundles' = Bundled(rt.label, 0)
  /\ rt' = Resting
  /\ UNCHANGED <<lineage, journal, prototype, op, issued, updates, faults>>

GiveUp ==
  /\ rt.pc = "loaded" /\ ~ HoldsLocations
  /\ rt' = Resting
  /\ UNCHANGED <<disk, op, issued, newest, updates, faults>>

-----------------------------------------------------------------------------
(* Interference.                                                           *)

(* An ordinary commit dies with its journal written, before or after the   *)
(* bundle and the authority.                                               *)
UpdateDies ==
  /\ rt.pc = "loaded" /\ Unchanged /\ Fault
  /\ LET l == rt.label IN
     /\ l \in Owned /\ issued[l] < MaxVersion
     /\ journal' = [journal EXCEPT ![rt.role] = [kind |-> "ordinary"]]
     /\ bundles' \in {bundles, Bundled(l, issued[l] + 1)}
     /\ auth' \in {auth, Committed(l, issued[l] + 1)}
     /\ auth' # auth => bundles' # bundles
     /\ issued' = [issued EXCEPT ![l] = @ + 1]
     /\ newest' = IF auth' = auth THEN newest ELSE Having(l, issued[l] + 1)
  /\ rt' = Resting
  /\ UNCHANGED <<lineage, prototype, op, updates>>

(* The lifecycle command dies; the operating system releases its locks.    *)
(* Dying between the directory and the journal in it leaves an empty one.  *)
CommandDies ==
  /\ op # Idle /\ Fault /\ End
  /\ \/ UNCHANGED journal
     \/ /\ op.pc = "journal" /\ journal[op.to] = NoJournal
        /\ journal' = [journal EXCEPT ![op.to] = [kind |-> "empty"]]
  /\ UNCHANGED <<auth, bundles, lineage, prototype, rt, issued, newest, updates>>

(* Released v0.6.0 rewrites its file, in its own generation, with a new    *)
(* credential for one account; it loaded a document it understood.         *)
LegacyWrite(l) ==
  /\ Fault /\ issued[l] < MaxVersion /\ auth["compatibility"].accounts[l] > 0
  /\ issued' = [issued EXCEPT ![l] = @ + 1]
  /\ newest' = Having(l, issued[l] + 1)
  /\ auth' = [auth EXCEPT !["compatibility"] =
                GenerationZero([@.accounts EXCEPT ![l] = issued[l] + 1])]
  /\ bundles' = IF l \in Owned THEN [bundles EXCEPT !["compatibility"][l] = issued[l] + 1]
                ELSE bundles
  /\ UNCHANGED <<lineage, journal, prototype, op, rt, updates>>

(* It writes a bundle before the authority; Codex itself writes only that. *)
LegacyBundle(l) ==
  /\ Fault /\ issued[l] < MaxVersion /\ bundles["compatibility"][l] \in 1 .. issued[l]
  /\ bundles' = [bundles EXCEPT !["compatibility"][l] = issued[l] + 1]
  /\ UNCHANGED <<auth, lineage, journal, prototype, op, rt, issued, newest, updates>>

LoseBundle(role, l) ==
  /\ role \in Lossy /\ Fault /\ bundles[role][l] > 0
  /\ bundles' = [bundles EXCEPT ![role][l] = 0]
  /\ UNCHANGED <<auth, lineage, journal, prototype, op, rt, issued, newest, updates>>

Next ==
  \/ \E replace \in BOOLEAN : BeginMigrate(replace)
  \/ BeginRollback \/ HoldLocationState \/ Refuse
  \/ RecoverLocationTransaction \/ PrepareLocationWork \/ PrepareNativeRollback
  \/ TakeSourceGuard \/ PublishSnapshots \/ WriteJournal \/ CopyBundle
  \/ CommitAuthority \/ RetireDisplaced \/ CleanupTransaction
  \/ ResolveLocationDivergence
  \/ MigrateAccounts \/ RollbackInPlace \/ FullReset
  \/ \E l \in Account : ComposeAppContext(l)
  \/ UpdateAccount \/ RemoveAccount \/ GiveUp
  \/ UpdateDies \/ CommandDies
  \/ \E l \in Account : LegacyWrite(l)
  \/ \E l \in Owned : LegacyBundle(l)
  \/ \E r \in LocationRole, l \in Owned : LoseBundle(r, l)

Spec == Init /\ [][Next]_vars

-----------------------------------------------------------------------------
(* Whenever the selection lets ordinary commands work, the location they   *)
(* work on holds the newest credential of every account: no move, death or *)
(* late command silently brings back an older one                          *)
(* (_select_authority_pair, _has_stale_credential_replacement).            *)
SelectedIsNewest ==
  (op = Idle /\ CanAssess(View) /\ IsReadySelection(Now)) =>
    \A l \in Account : auth[ReadyRole(Now)].accounts[l] >= newest.due[l]

(* The newest credential of every account is at all times in an authority  *)
(* or in an immutable snapshot: nothing is replaced, by a move, a rebase or*)
(* a rollback, before it is retained (publish_immutable).                  *)
NewestIsRetained ==
  \A l \in Account : \E r \in LocationRole :
    \/ auth[r].accounts[l] >= newest.kept[l]
    \/ \E s \in lineage[r] : s[l] >= newest.kept[l]

(* No account document ever names a bundle of its location that is not     *)
(* there, whatever a move or its undoing was doing when it stopped         *)
(* (commit_migration applies the bundles before the authority).            *)
AuthorityHasBundles ==
  \A r \in LocationRole \ Lossy :
    \A l \in OwnedPrivateHomes(auth[r].accounts) :
      bundles[r][l] > 0 \/ journal[r].kind = "ordinary"

(* A completed move stays completed for the next ordinary commands.        *)
MoveIsIdempotent ==
  [][(Completed(Now) /\ faults' = 0 /\ UpdateAccount) => Completed(Now)']_vars

(* An interrupted move is work the next one takes up.                      *)
InterruptedMoveResumes ==
  (op = Idle /\ journal["canonical"].kind = "migration" /\ ~ Completed(Now))
     => \/ CanAssess(View) /\ Movable(Now, FALSE)
        \/ ~ GuardReadable("compatibility", EvidenceAccounts("compatibility"))

=============================================================================
