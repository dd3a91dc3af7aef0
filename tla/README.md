# A verification project for sidekick-usages

`sidekick-usages` keeps several accounts of two providers (Claude, Codex), shows
their usage, refreshes their credentials, and sends heartbeats.  It has no server:
every command is an operating-system process (the maintenance job of the scheduler
is one as well) and they all share files in one directory.  A refresh token may be
exchanged once; the answer is the only valid credential afterwards.  What can go
wrong is therefore nearly all about **who may write which file when, and what a
process that died in the middle leaves for the next one**.  That is what the
modules model.

All paths below are relative to `src/src/sidekick_usages/`.

## 1. Inventory

| component | state | operations | interacts with |
|---|---|---|---|
| credential refresh protocol (`credentials/refresh.py`, `persistence/credential_refresh*.py`) | one private directory per label (intent.json, replacement.json, a temporary), lock files named by token and by label, the shared/exclusive lifecycle lock | refresh, recover, assess, quiesce | store (target-only merge), providers, locks, lifecycle |
| account store (`persistence/account_store.py`) | the authority file, each process's copy with its baseline | load, read_fresh, save, remove, rename, reset, persist, merge | transactions, inventory, lock |
| private credential transactions (`persistence/credential_transaction*.py`, `private_*.py`) | transaction directory (journal, stages, backups), private bundles | commit, recover, assess | authority files, private roots, lock |
| authority files (`persistence/filesystem.py`, `artifacts.py`, `_recovery.py`) | authority, candidate, numbered originals and displaced copies | commit, publish, recover temporaries | native filesystems |
| native filesystems (`persistence/_platform/`) | inodes, modes, ACLs | capture, exchange, delete tree | - |
| persistence lock (`persistence/locking.py`, `transaction.py`) | lock sidecars | hold (timeout), try_hold, shared | everything that writes |
| inventory and assessment (`inventory.py`, `observations.py`, `assessment.py`) | none (reads the directory) | assess | load, migrations, doctor |
| schemas and transforms (`schemas.py`, `_current_schema.py`, ...) | none | decode, encode, upgrade | store, migrations |
| migrations and lifecycle (`persistence/migrations/`) | receipts, originals, rollback points, locations | preview, migrate, rollback, discard, full reset | refresh quiescence, transactions |
| activity snapshots (`activity_snapshots.py`) | one file per account | load, save (newest wins) | usage check |
| credential service (`credentials/service.py`, `codex.py`, `claude_*.py`) | none | import, save, provider update, setup-token transitions, prepare private bundles | store |
| token maintenance (`maintenance.py`), usage check (`usage/service.py`), heartbeat (`heartbeat/service.py`) | a snapshot of the accounts during the sweep | refresh what is due, record failures, persist metadata | store, refresh coordinator, providers |
| providers (`providers/`), http client (`http/`) | the remote's idea of which refresh token is alive; a retry budget | exchange, fetch usage, heartbeat | services |
| daemon, scheduler quiescence (`daemon.py`, `scheduler_quiescence.py`) | units of the operating system's scheduler, a marked block of the crontab | install, uninstall, status, prove quiescent | lifecycle |
| doctor (`doctor*.py`), update, command line, rendering, core values, packaging | none of their own | diagnose, print | everything, read-only |

**How they interact.**  Commands open the store, which recovers what an
interrupted transaction or refresh left.  Sweeps walk over a snapshot and call the
refresh coordinator, which re-reads the authority itself.  Every commit takes the
account lock for a short time and compares the baseline.  A refresh holds three
more locks (lifecycle shared, refresh token, label) across the provider exchange.
Migration, rollback and reset take the lifecycle lock exclusively.

**What is hard.**  Every await of the provider, every unlock and every unlink is a
place where another process acts or this one dies.  `PROJECT.json` lists the
hazards at their lines.

**What makes each part correct.**

* refresh: one exchange per token at a time; a rotated credential is never dropped
  before it is stored; it is stored only over the exact credential it rotates; a
  credential is marked as failed only because its own refresh failed; evidence stays readable;
  migration never overlaps a refresh; evidence is eventually resolved.
* store: an account is changed only by a commit decided from that very account; one
  owner per credential (every encoding checks it); a private home always holds its account's credential.
* transactions: the authority and the private files change together; after any
  interruption the disk still says which way to go and holds the bytes to go there;
  no bundle is left in part; no file is replaced that the writer did not see.
* authority files: one complete generation is visible at any instant; an ambiguous
  replacement is resolved before the next write.
* locks: exclusive excludes shared; a wait ends; an error while unlocking does not
  hide an earlier one.
* migrations: a generation is moved forward once; a rollback restores exactly what
  was; originals are never overwritten; of two authorities the descendant is used.
* credential changes: an account never mixes the tokens of two people; a label
  changes hands only with its owner's consent, given for what it holds now.
* sweeps: what was learnt of an account is saved with the login that was asked about,
  however old the copy of the sweep; tokens go to their own provider only.
* http: what may be done once is done at most once, though its answer is lost.
* activity: a newer snapshot is never replaced by an older one; a local event is
  counted once.
* scheduler: "quiescent" is true of every scheduler of the host; the user's crontab
  lines survive.

## 2. The modules

| module | models | state and its code |
|---|---|---|
| `CredentialAuthority` | (abstract) what refreshing promises | the credential of each label, which credentials exist |
| `CredentialRefresh` | the refresh protocol, several processes, the owner's commands, migration, crashes | `store`,`health`: the authority; `evidence`: the refresh directory of each label; `shared`/`exclusive`: the lifecycle lock; `tokenLock`, `evidenceLock`: `<digest>.refresh` and `<digest>.evidence`; `op`: the locals of `CredentialRefreshCoordinator` and of the transaction |
| `CredentialRefreshTheorems` | - | the inductive invariant; the theorems |
| `AccountStore` | load, every commit, the sweep and the merge on stale copies | `accounts`, `bundle`, `version`: the authority, private homes and fingerprint; `cache`, `base`: `_accounts` and the baseline of each process; `work`, `target`, `expected`: the sweep's snapshot and its refresh |
| `AccountStoreTheorems` | - | the inductive invariant; the theorems |
| `AtomicStore` | (abstract) authority and private files change together | a generation and the private files |
| `CredentialTransaction` | every file operation of one coordinated commit and of its recovery | `authority`, `authorityTemp`: the file and a candidate left beside it; `files`, `bundleTemp`: the private bundles; `directory`, `directoryTemp`, `journal`, `stage`, `backup`: the transaction directory; `plan`: the prepared write |
| `CredentialTransactionTheorems` | - | the inductive invariant; the theorems |
| `AuthorityFiles` | names, payloads and link pairs beside one authority; the recovery of a temporary | operators over a directory: a function from names to (inode, payload) |
| `Assessment` | inventory and assessment of a directory, hence what each lifecycle command may do | operators over an observation |
| `AccountLifecycle` | migration of accounts, import, rollback, reset, repair and saves of one location, one filesystem call at a time | `dir`: the directory; `durable`: those a power loss may leave; `parent`, `private`, `prototype`; `lock`; `proc`, `job`: the command and the call it is at |
| `LocationSelection` | evidence of the two locations, bundle plans, which location is used | operators over both locations |
| `LocationMove` | moving the accounts to the native location, its journal, recovery, divergence, rollback; ordinary commands and the released version meanwhile | `auth`, `bundles`, `lineage`, `journal` of each location; `op`: the lifecycle command; `rt`: one ordinary command; `newest`, `issued`: history |
| `CredentialChanges` | `add`, `refresh <label>`, `codex login`, `codex export`, `claude setup-token`, `claude restore-setup-token` | `accounts`, `privateHomes`: the store; `homes`, the places of Claude Code's login; `command`: what the command knows and where it stands |
| `Sweeps` | the usage check, maintenance and its heartbeats over a snapshot | `saved`, `version`: the store; `sweep`: the snapshot, the account in hand, what was asked and answered |
| `HttpRetry` | one HTTP operation | attempts, elapsed time, the proxy pools; `processed`: what the provider carried out |
| `Activity` | overlapping usage checks over the durable activity snapshots | `snapshots`, `lock`, `damaged`; `check`: each check's document, reading and report |
| `AccountLifecycleTheorems`, `LocationMoveTheorems`, `CredentialChangesTheorems`, `SweepsTheorems`, `ServicesTheorems` (`HttpRetry`, `Activity`, `Scheduler`) | - | their inductive invariants; the theorems |
| `LocalActivity` | one collection over Claude Code's transcripts and cache | the transcripts, the cache; `reading`: the collection |
| `Scheduler` | `daemon install`/`uninstall` on four backends and the quiescence assessment | unit files, what systemd/launchd/the Task Scheduler hold, `crontab`; `daemon`, `assessment` |
| `MCServices`, `MCCommands`, `MCAccountLifecycle` | compositions and instances for TLC | `running`: see below |
| other `MC*` | model values and symmetry for TLC | - |

History variables (`origin`, `refused`, `settled` in `CredentialRefresh`, `retired`
in `AccountStore`, `issued` and `newest` in `LocationMove`, `touched` in `Scheduler`,
`processed` in `HttpRetry`, the counters of edits and faults) are in no guard but the
bounds' and freshness; they let a property speak of the past.

The modules share their seams: `CredentialRefresh` and `AccountStore` use a commit
as one step, which is what `CredentialTransaction` shows of it;
`AccountStore` and `Sweeps` use a refresh as an exchange followed by a target-only
merge, whose choice of target, locks and crashes are `CredentialRefresh`'s;
`CredentialChanges` commits the account and its private bundle in one step;
`LocationMove` applies, recovers and cleans up one whole bundle at a time, whose files
`CredentialTransaction` has; `AccountLifecycle` decides with `Assessment`, `LocationMove`
with `LocationSelection`.

`MCServices` and `MCCommands` put components side by side that share no variable and
whose code shares no state: a behaviour picks one (`running`) and the others rest.
What holds of each alone holds in every interleaving, and the state space is the sum
and not the product.

### Abstractions

* A credential is a model value; `RefreshToken` says which share a token.  Digests
  and fingerprints are the values themselves (SHA-256 does not collide).
  `FreshToken`: a token passes only from a credential to its own replacement.  (For
  Claude the code accepts a login that shares a refresh token with another label,
  `providers/claude/credential_schemas.py`: outside the model.)
* The replacement of a file is atomic (`os.replace`); what precedes it, a
  candidate, is modelled where a process may die and leave it
  (`DieWriting`, `authorityTemp`, and every step of `AccountLifecycle`).
* The owner's commands of `CredentialRefresh` are single steps, since the code
  commits them under the account lock with a baseline comparison: `AccountStore`
  models that part.
* Permissions change and files are edited by hand only where an action says so
  (`parent` and the released writer of `AccountLifecycle`, `Damage`, `EditCrontab`,
  `EditConfig`, lost bundles of `LocationMove`); the disk is full only as a raised error.
  The branches that detect other tampering are guards that stay false.
* The files of a bundle are handled in any order; the code sorts them.
* `Prepare` of `CredentialTransaction` reads its bundle in one step.
* A command waits for the account lock no longer than its five seconds: the
  `StoreLockedError` of a commit is the `Leave` step of `AccountStore`; inside
  recovery it is not modelled.  The timeouts of the refresh locks are
  (`LockTimeout`).
* `Rank` is the order of the digests that name the refresh directories, in which the
  listing is sorted: recovery takes the directories in that order (`NextDirectory`) and
  ends at the first it cannot resolve.
* A login (`Login` of `CredentialRefresh`) has a refresh token of its own, or the one its
  account has when its source names none.  Whether it clears the failure mark depends on
  the command: `add` of another login, or of a Claude account, and `refresh <label>` do;
  `codex login` over an account, a save of a Codex account by its access token and a
  provider update keep it.
* `_ensure_target` never has anything to install at run time: the authority is
  replaced last (`EvidenceSufficient` shows it), so it has no action.

`AccountLifecycle`:

* `Inode` bounds the number of files at a time.  A new file has an inode that no file has;
  the inode of a removed file may be used again.
* A power loss may leave any directory since the last sync (`durable` is the history
  of the directory that no sync has hardened).  A released v0.6.0 process may replace the
  authority at any time but between the last comparison of a replacement and
  the rename itself, which no program can close (`InReplaceWindow`).
* Two names of one content-addressed document cannot be published twice under the
  lock, so the collision branch of publication is not reached.  Quiescence of schedulers
  and of refreshes is the guard of `Scheduler` and `CredentialRefresh`.

`LocationMove`:

* An account's credential is a version number; the first carries no
  `last_refresh_at`, which is why lineage and not dates decides.  The two locations are
  distinct directories; whether an account's home is Sidekick's depends on its label
  (`Owned`).
* Preparation and observation are one read each; ordinary commits, resets and
  `migrate accounts` are one step.  A lifecycle command excludes every other but the released
  version, which may write whenever `MaxFaults` allows; the scheduler's second check is
  `Refuse`.  The canonical location never holds an older schema.
* `Lossy` names the locations whose bundles may be deleted by hand: only the
  compatibility one in the run (see section 5).  The properties except commands that
  choose to give something up (`GivesUp`: `--replace`, and a native rollback that
  discards what was committed after it looked).

`CredentialChanges`:

* What other processes and clients do is placed right before a step that looks at it
  (`BeforeStore`, `BeforeHome`): done earlier it would be seen the same way.  One Claude Code
  login and one command per behaviour; validation by the provider answers anything.
  A label names its private home.

`Sweeps`, `HttpRetry`, `Activity`, `LocalActivity`, `Scheduler`:

* One sweep runs at a time; everything else that may happen to the store is an action of
  the operator (`RefreshedElsewhere`, `SaveLogin`, `LoginCodex`, `RemoveAccount`, ...).  Whether a
  credential is due is a choice: the arithmetic of margins is left out.
* HTTP time is in half seconds; a response may take any time up to its timeout.
* Labels may share an activity identity; local transcripts are appended to, and retired
  only when the cache covers them, which is what Claude Code does as far as the
  code relies on it.
* The user adds entries before or after the crontab and deletes lines, but of the block
  around a job not both markers (`Marked`): whoever does makes the job line his own.

## 3. The runs

Every run is exhaustive within its bounds.

| run | bounds | shows |
|---|---|---|
| `refresh_races` | 2 processes, 2 labels, 3 credentials over 2 tokens, 1 owner command or 1 fault (`OneChange`), 2 stabilisation attempts | `TypeOK`, `ExclusiveExchange`, `QuiescentMutation`, `FailureOnRefused`, the refinement `RotatesOnlyItsSource` under every interleaving of refreshes, openings, migrations and one login/removal/rename/setup token, or one death or error |
| `refresh_liveness` | 2 processes, 2 accounts, each refreshed by one process (`OneEach`), 3 credentials with tokens of their own, 1 attempt, 1 owner command, 1 fault anywhere, lifecycle commands | `EvidenceCoherent`, `StageNeverDropped`, and `EvidenceResolved` under `FairSpec` |
| `store_commits` | 2 processes, 2 labels, 2 private and 2 other credentials, 4 generations | `CopiesCurrent`, `BundlesAgree`, `PrivateNeverReturns`, `NoLostUpdate` |
| `transaction_recovery` | 2 processes, 1 bundle of two files, 1 commit, 2 faults | `WholeBundles`, `EvidenceSufficient`, `NoBlindReplace`, the refinement `CommitIsAtomic`, and `InterruptionResolved` under `FairSpec` |
| `account_lifecycle` | 2 processes, 3 documents, commands + faults + foreign writes at most 3, POSIX and Windows | `FinalNamesWhole`, `TemporaryResolvable`, `AuthorityDeletedLast`, `BackupBeforeReplace`, `FailureIsTruthful`, `CommitSurvivesPowerLoss` |
| `services` | http: 3 attempts, one operation; activity: 2 checks over 2 and 1 accounts; local: 2 transcripts, 3 lines, 2 days; sweeps: 2 accounts, one sweep of each kind, 1 change; scheduler: 2 commands, 1 failing tool, 1 edit | `CarriedOutOnce`; `SnapshotsAdvance`, `ShownNotStale`; `LocalBetween`; `KeepsTheRest`, `AskedOwnProvider`, `NoBeatAfterFailure`; `QuiescentIsTrue`, `KeepsUserLines` |
| `commands` | move: 2 accounts, 3 versions, 1 ordinary command, 1 death, loss or foreign write; changes: 2 labels, 2 owners with 2 tokens each, 1 command, 2 changes by others | `SelectedIsNewest`, `NewestIsRetained`, `AuthorityHasBundles`; `OneIdentity`, `Authorized`, `ExportKeepsOwner`, `RestoreKeepsTheRest` |
| the five runs of section 5 | the smallest that reach the disagreement | - |

**Why the bounds are enough to meet the hazards.**  Two processes are the parties of
each race in the code (locks are pairwise); the second label is where a rename
goes or the account a rival token belongs to; a bundle of two files is the smallest
that can be half written; two labels may share a token only because of an owner
command, so one command suffices for each of those races; two faults let a
process die in a commit and again in its recovery.
`refresh_liveness` needs two accounts, since the directory of one is listed behind that
of the other and is not looked at when the other ends the recovery; `OneEach` limits
which refreshes start, which no fairness assumes, and it is one attempt because what
resolving evidence takes does not depend on how often a target changed.
`MaxAttempts` stands for the code's four attempts and is reached in `refresh_races`.  For
the properties that are proved (section 4) the bounds do not matter.

* `account_lifecycle`: three documents are one that every schema holds, one that needs a
  repair and one that v0.6.0 cannot hold.  `FewEvents` admits two commands with a
  disturbance, or one with two: a command, its death and the command that finds what is
  left; or one command, a foreign write and a power loss.
* `commands`: three versions distinguish what was moved, what was committed after
  the move and what a foreign writer adds; two accounts are one whose bundle moves and
  one without; two changes by others are one before each of a command's two reads.
* `services`: two usage checks and two accounts, one of which both saw, are needed for an
  older save after a newer one, and two labels for a shared identity; three lines over two days
  give an event on either side of the cache's date and one that is still being written;
  one change by another command, in each place of a sweep, is a stale copy; a daemon
  command, its failure, an edit and a second command precede an assessment.

Larger instances of parts of these were run once and passed: `LocationMove` with two
ordinary commands, `Sweeps` with two changes, `Scheduler` with two edits,
`AccountLifecycle` with two commands and two faults.

Deadlock checking is off where counters or generations are bounded, and because a
store whose evidence blocks every command really stops.  `store_commits`, `stale_record` and
`renamed_home` check it.

**Fairness.**  `CredentialRefresh!FairSpec`: a process that has started keeps running
(its locks time out, its requests are bounded), and commands open the store
again, which the scheduled maintenance job does.  `CredentialTransaction!FairSpec`
is the same.  No fairness is assumed of the owner, of the provider's good will, or
of starting a refresh.  The other modules state safety only: their commands are
loops over finite lists, bounded by the timeouts of the locks and of `HttpRetry`.

## 4. What is proved

For every number of processes, labels, credentials, files, attempts, edits and
faults, by TLAPS:

* **Refresh.**  `Invariance` (`CredentialRefreshTheorems`) proves `IInv`: each lock has
  the holder its step says, the label lock protects the directory a process works
  on, and each step's facts about the evidence (what the journal says, what it
  expects, that the process that holds a stage is the one that got it) hold.  A
  property such as `ExclusiveExchange` is not inductive: that two processes do
  not exchange the same token follows from each holding the lock of the token it
  *now* expects, which stabilisation may change four times.  From `IInv`:
  `TypeCorrect`, `ExclusiveExchangeHolds`, `QuiescentMutationHolds`,
  `EvidenceCoherentHolds`, `FailureOnRefusedHolds`, `ImplementsAuthority` (the
  refinement of `CredentialAuthority`) and `StageNeverDroppedHolds`, with one lemma
  per group of actions.  `FailureOnRefusedHolds` is about steps: what a process is about
  to mark was refused (`RefusalKnown`) and is still the account's, so the mark of a late
  failure lands on no other credential; but a login over a marked account may keep its
  mark, and a rename takes it along, hence the two exceptions in the property (section 5
  says what the first one does).
* **Store.**  `Coherent` (`AccountStoreTheorems`): a copy with the current baseline is
  the authority, credentials and homes have one owner, referenced homes hold their
  owner's credential, and what a sweep expects is an account it may have seen.  From
  it `StoreTypeCorrect`, `CopiesCurrentHolds` and `BundlesAgreeHolds`.
  `NoLostUpdateHolds` says of every step which account its change was decided from
  (`DecidedFrom`): what a command loaded, because a current baseline means a current
  copy; what a refresh exchanged, because the merge compares again.  It excepts the
  account whose failed refresh `_record_failed` records: that one is decided from an old
  snapshot, and `stale_record` shows the update lost.  `PrivateNeverReturnsHolds` needs `PrivateInv` besides: a
  private credential is never without its home, neither in the authority nor in a copy
  of any age.  A copy that would bring back a retired credential therefore names a
  bundle, and `_commit_credentials` accepts a credential that is not in the authority
  only with the bundle just prepared for it, which is a new one.
* **Transactions.**  `TransactionInvariance` (`CredentialTransactionTheorems`) proves an
  invariant with two halves: `Explained` says what holds of the evidence whoever looks
  at it, hence after a death (each file is as it was, or as it will be with what it was
  in the backup; past the authority, every target is installed); `Position` says what the
  holder of the lock has achieved by each step, which is what makes the next step
  keep `Explained`.  From it: `TransactionTypeCorrect`, `EvidenceSufficientHolds`,
  `ImplementsAtomicStore` (the refinement of `AtomicStore`: every step makes a new
  generation, or leaves what the private files amount to), `NoBlindReplaceHolds`,
  `WholeBundlesHolds`.
* **HTTP.**  `RetryInvariance` (`ServicesTheorems`): as long as an operation that may be
  done once goes on, nothing of it was carried out.  `CarriedOutOnce` alone is not
  inductive, since a retry of what was already done would pass it once.  The proof
  uses the retry policies and neither the budget nor the attempt limit:
  `CarriedOutOnceHolds`.
* **Activity.**  `ActivityInvariance` (`ServicesTheorems`): only the holder of the snapshot
  lock has a document in hand, and it is the durable one; hence the merge compares
  what it replaces, and `SnapshotsAdvanceHolds` for any number of usage checks and
  accounts.  `ShownNotStaleHolds` needs `FreshInv` besides: of an account a check is done
  with it holds something no older than what was durable when it began, and no older
  than its own start where the provider answered.
* **Scheduler.**  `SchedulerInvariance` (`ServicesTheorems`) proves `SchedulerInv`, from
  which `QuiescentIsTrueHolds` follows.  `QuiescentIsTrue` compares four questions asked
  at different times with what runs at the end, so the invariant has two more parts.
  `Held`: what runs by itself belongs to a tool the host has (an absent tool is not
  asked, and need not be), and every job of the crontab has a marker of its own beside
  it, in the crontab and in the text a command is about to write.  That some marker is
  left would not do: cutting from the first begin to the first end could take it and
  leave the job (`CutMarked`).  `Assessing`: what was found absent so far does not run,
  unless the schedule has changed since the assessment began, and what is left to ask is
  the rest of the list.  `KeepsUserLinesHolds` needs of
  `SchedulerInv` only the types of the variables and the markers of `Held`.  `SameUserLines` asks for an order-preserving map of the user's lines of one
  text onto those of the other, and the proof gives it: a text that the program alone has
  marked has one block of three lines at most (`BlockKeepsLines`), cutting it leaves
  what is before it in place and moves what is after it three places back
  (`CutKeepsLines`), and the block that an install appends holds no line of the user's
  (`UpdatedKeepsLines`).
* **Local activity.**  `LocalInvariance` (`ServicesTheorems`) proves `LocalInv`, for any
  number of transcripts, lines and days.  `LocalBetween` compares the result with two
  moments of a collection during which Claude Code goes on writing, so the invariant says
  what is known between them: no line is later than today (`Appended`); the cache counts
  what happened before its date, and a transcript that is gone is covered by it
  (`Cached`); and of a collection in progress, everything that had happened when it began
  is in the cache it read, in the files it has counted or in those left, and what it has
  counted so far is no more than what has happened (`Collected`).  `CountsGrow` carries
  each part over a step of Claude Code: the events before a date of the past are the same
  after it, and a larger set of events has no smaller count.  From it `LocalBetweenHolds`.
* **Lifecycle.**  `LifecycleInvariance` (`AccountLifecycleTheorems`) proves `LifecycleInv`
  for every plan of the seven commands, call by call, over every directory a power loss
  may leave (`durable`).  `FinalNamesWhole` says nothing of a temporary, nor of what will be
  installed; the invariant therefore follows the candidate: until its installing call its
  inode is behind no final name of any durable directory (`Candidate`: a write in place can
  then tear nothing), its bytes are those the plan asks for from the call that checks
  them on, and a replacement is made only over the file that was compared.  `Plans` and
  `Backed` are about what is still to do: whole files under final names, and before
  each conversion the publication of the copy of exactly what it replaces.  `Stays` is what
  an installed commit still owes: the visible directory holds it, and after hardening every
  durable one.  From it `FinalNamesWholeHolds`, `AuthorityDeletedLastHolds`,
  `BackupBeforeReplaceHolds`, `CommitSurvivesPowerLossHolds`, `FailureIsTruthfulHolds`.
  `TemporaryResolvableHolds` says that the next command's plan exists whatever names an
  interruption leaves, and needs an invariant of its own (`InterruptionInvariance`).  In
  every directory a power loss may leave there is one temporary at most; it shares its
  inode with nothing but the final name it was linked to, and the authority beside it can
  be read or is rightly absent (`Interruptible`).  This lasts because nothing is published
  or committed in a directory that holds another temporary than the candidate in hand
  (`Preparable`): every plan first resolves what it found.
* **Sweeps.**  `SweepsInvariance` (`SweepsTheorems`) proves `SweepsInv`: while the
  baseline of a sweep is the store's version, its copy *is* the store (`Current`); the
  accounts it has marked failed are marked in that copy (`Marked`); who is asked is who
  the account in hand belongs to, by the step the sweep is at (`Owned`); and from the
  first heartbeat on the account in hand and those still to do differ from the copy in
  nothing but what a heartbeat writes (`Beats`).  The last part is why `KeepsTheRest`
  holds: a heartbeat persists a whole account out of a list it took before other
  heartbeats committed, and the reset windows and status are all it changes of it.
  From it `AskedOwnProviderHolds`, `NoBeatAfterFailureHolds`, `KeepsTheRestHolds`.
* **Credential changes.**  `ChangesInvariance` (`CredentialChangesTheorems`) proves
  `ChangesInv`, for any number of labels, people and tokens.  `OneIdentity` is not
  inductive: what a command will commit is in its hands for many steps.  The invariant
  therefore says of every credential, wherever it is (the store, a home, a place of
  Claude Code, a private home, what was detected, planned, prepared or seen), that it is
  of one person (`Good`), and of the plan what the options permit of the account it
  replaces (`Planned`), of an export that the target's owner is the account's (`Exported`),
  of a restore that it is the account it loaded but for the credential (`Restored`).
  The lemmas about the policy operators (`ApplyDetectedUsable`, `CodexMergedUsable`,
  `ReplaceLoginUsable`, `PreparedUsable`) carry it: two credentials are joined only
  after they were proved to be the same person's.  From it `OneIdentityHolds`,
  `AuthorizedHolds`, `ExportKeepsOwnerHolds`, `RestoreKeepsTheRestHolds`; the last three
  use that a commit needs the store, or the target, it was decided from.

* **Moving.**  `MoveInvariance` (`LocationMoveTheorems`) proves `MoveInv`, whatever bundles
  are lost.  What a command does next is in its hands (`op.work`) or in its journal, so the
  invariant says of both that they are sound (`WorkSound`: every bundle to be copied has
  content, no account of the new document is displaced) and, step by step, what is already
  so (`WorkInv`: every bundle is there before the authority, the document about to be
  replaced is in the lineage before the journal, nobody else changes the native location
  meanwhile), and of the journal that it can bring back every bundle the base names.
  From it `AuthorityHasBundlesHolds`, for the locations whose bundles are not deleted by
  hand, and `NewestIsRetainedHolds`.  `SelectedIsNewestHolds` needs `DueInv` besides, for the
  selection looks at two documents and not at who was first: each account's due credential
  is in the native location, or the released one has a credential for it that the native
  location has never had (`Apart`), in which case the selection is a conflict and nobody
  may work.  `MoveDue` says that what a move will commit is due or was overtaken in this
  way, so that the guard of the source stops it or the result is again a conflict;
  `RollbackDue` that a rollback replaces what it has seen only by what is as new.  The
  hypothesis is that native bundles are not deleted by hand; without it TLC has a
  counterexample (section 5).  The released location may lose any.

The theorems of HTTP, activity, the scheduler, local activity, sweeps and credential
changes are about the component's own specification; in `services` and `commands` it is
one of several that run alone.

The assumptions are the `ASSUME`s of the modules: the shapes of the constants, and
that the sentinels (`None`, `Absent`, ...) are not credentials or processes.

Only model-checked: the liveness properties `EvidenceResolved` and
`InterruptionResolved`, since TLAPS does not reach fairness and ENABLED.  Every other
property of a passing run is a theorem.  No module uses a RECURSIVE operator, so theorems
about them can be stated as they stand.

## 5. Where the code and its documentation disagree

Each of these is a run that expects a violation.

| run | what happens |
|---|---|
| `interrupted_cleanup` | the cleanup unlinks the stage before the journal; dying between the two leaves a complete journal without a stage, which recovery refuses in every later command |
| `setup_token_during_refresh` | a setup token stored during a refresh makes its evidence "recoverable" and yet unresolvable |
| `stale_record` | recording a failed refresh commits the account of the sweep's old snapshot over a newer login or removal |
| `renamed_home` | a refresh after a rename orphans the old label's bundle, which no reset removes |
| `uninstall_crontab` | when listing the crontab fails, an uninstall writes an empty one over the user's lines |

`EvidenceResolved` and `InterruptionResolved` state what liveness remains
outside these kinds of evidence.  For `EvidenceResolved` they are `Stuck`: evidence that
blocks, or whose merge meets a setup token.  What is listed *behind* stuck evidence is
excepted too, because recovery never comes to it (`OthersResolved` below).  They also except a fourth kind, of which the
documentation promises less: a process that dies inside the *first* durable write
of a refresh or of a transaction (`intent.json`, `journal.json`) leaves a directory
with a candidate and no journal, which recovery refuses (`Blocked`,
`Inexplicable`), though nothing had been done yet.  `Inexplicable` excepts two more:
a candidate inside a new bundle (`BundleWriteRecoverable`,
`credential_transaction_recovery.py:303`), and a candidate of the authority together
with a private journal (`AuthorityWriteRecoverable`, `migrations/account.py:577`).

More disagreements were met while modelling.  They have no run of their own; where a
definition is named, it states the claim and TLC refutes it.

* Refresh.  A Codex login over an account whose refresh failed keeps
  `last_refresh_status` FAILED on the new credential, whose refresh was never tried
  (`LoginEndsFailure`; `credentials/service.py:599`).  So do a save of a Codex
  account by its access token (line 362 resets Claude accounts only) and a provider update
  (line 469), and `persist_credentials` writes it as it is.  `heartbeat/service.py:330`
  says "Last token refresh failed; log in before heartbeat.", but after `codex login` the
  heartbeat is still refused, until a refresh succeeds.
* Recovery.  `recover()` raises at the first directory it cannot resolve and never looks at
  those behind it (`credential_refresh.py:212`), so that one stuck account keeps the
  complete stage of another from being merged, although
  `docs/persistence-and-recovery.md:214` says "A complete stage can finish locally without
  another provider request." (`OthersResolved`: with two accounts, a setup token stored
  while one is refreshed hides for ever what a death left of the other's.)
* Lifecycle.  After a rollback or a reimport the directory holds version-two
  snapshots, which a reset does not list: it deletes the authority and never reports
  completion (`ResetDeletesAll`; `persistence/_recovery.py:352`).  An interrupted
  publication of such a snapshot is a link pair the recovery does not know
  (`UnrecognisedPublication`, excepted in `TemporaryResolvable`).  A backup that is
  found under its name is used again without being hardened (`_reuse_immutable`): after two
  deaths, one behind its link and one in the recovery that removed its temporary, a third
  command replaces the authority while a power loss may still forget the backup.  It then
  forgets the replacement too, so nothing is lost; `BackupBeforeReplace` is therefore about
  the directories that hold the new authority.
* Moves.  A credential that rotates after a move makes the next `migrate locations`
  report work again (`MoveIsIdempotent`; `docs/persistence-and-recovery.md:165`).  A
  move interrupted after its journal may not be resumable (`InterruptedMoveResumes`;
  line 260).  An interrupted ordinary commit makes the selection `Partial`, which
  fails before the recovery that would resolve it (`account_store.py:198`).  When
  v0.6.0 rewrites its file after a rollback, a legacy writer is detected and
  `migrate accounts` is refused, though line 311 calls upgrading again safe.  A full reset deletes the location in use
  only.  When a bundle of the native location is deleted by hand, `migrate locations` may
  overwrite a newer native authority (excluded by `Lossy`).  The guard of the
  source is computed after the preparation that read the source.
* Changes.  A restore replaces a login that appeared after its preview
  (`RestoreReplacesWhatItShowed`).  The export's second proof cannot see a rotation by
  another process (`credentials/codex.py:298`); exporting again overwrites a target that
  was rotated further.  `add --force` of a login over a label with a setup token
  passes the transition policy by, and replacing a setup token by another needs no
  `--force`.
* Services.  `heartbeat <label> --target all` ends as failed when one target is not
  supported.  A body that arrives slowly outlasts the budget of an operation.  The
  documentation's retry matrix does not list server failures of the Claude probe.  A
  refresh whose *persistence* failed is not recorded as failed, so that its heartbeat
  still runs.
* Scheduler.  Reinstalling on macOS does not replace the loaded job (`daemon.py:117`);
  an uninstall may report success while the job is loaded; an installation that begins
  after the assessment is not excluded from a migration; a Linux host without a crontab
  command can never be assessed.

## 6. Plan

1. *Done:* `CredentialRefresh` over `CredentialAuthority`; `AccountStore`;
   `CredentialTransaction` over `AtomicStore`; their theorems.
2. *Done:* `AuthorityFiles`, `Assessment`, `AccountLifecycle`; `LocationSelection`,
   `LocationMove`; `CredentialChanges`; `Sweeps`, `HttpRetry`, `Activity`,
   `LocalActivity`, `Scheduler`; their compositions.
3. *Done:* theorems of `HttpRetry` and `Activity`.
4. *Done:* theorems of `Sweeps` (a copy with the current version is the store), of
   `AccountLifecycle` (an invariant per filesystem call), `PrivateNeverReturns` of
   `AccountStore`, of `ShownNotStale` (`Activity`), of `CredentialChanges` (every
   credential is of one person), of `QuiescentIsTrue` (`Scheduler`), and of
   `LocationMove` (what a move has prepared and how far it is).
5. *Done:* theorems of `TemporaryResolvable` (`AccountLifecycle`), `LocalBetween`
   (`LocalActivity`) and `KeepsUserLines` (`Scheduler`).
6. Left: a property for what a reset does with version-two snapshots (section 5) once the
   code lists them; the outcomes of `doctor` as operators over the evidence of
   `CredentialRefresh`, if its verdicts come to decide something.

## 7. Not modelled

* Rendering, argument parsing and the formats of provider payloads: no state.
* Permissions, ACLs, mounts and handles of the native filesystems: system calls.
  Their *order* and what they promise of durability is in `AccountLifecycle`.
* The sidecars of a lock while it is being created, and which error survives when
  releasing fails as well.
* JSON schemas: which documents a generation can hold is a set of documents; that
  encoding and decoding agree is left to the tests.
* The doctor (it reads; the assessments it prints are operators here where commands
  decide by them), the self-update (one request, one subprocess), packaging.

Hazards left out of the list for want of a property: a sibling created while
`posix_private.py:634` proves that its shared parent did not change, and
`credential_refresh_artifacts.py:174`, where the doctor calls blocked an empty
directory that recovery skips.

## 8. Running it

    tlc -workers 2 -config RefreshRaces.cfg MCCredentialRefresh
    tlc -workers 2 -config Services.cfg MCServices
    tlapm CredentialRefreshTheorems.tla

Each run's module and configuration are in `PROJECT.json`, as are the mutants: for each
checked property one plausible mistake in the code (an operator next to the
definition it would replace, marked "Mutation") that the run then reports.
