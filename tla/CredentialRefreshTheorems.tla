------------------------ MODULE CredentialRefreshTheorems ------------------------
(***************************************************************************)
(* Theorems about CredentialRefresh, for every set of processes, labels,   *)
(* credentials and tokens, and every value of the bounds.                  *)
(*                                                                         *)
(* The inductive invariant says what a process at each step owns: the lock *)
(* of the refresh token it is about to send, the lock of the directory it  *)
(* writes, and a directory whose files agree with each other and with the  *)
(* process's locals.                                                       *)
(***************************************************************************)
EXTENDS CredentialRefresh, TLAPS

\* Steps at which a process owns the refresh directory op[p].dir.
OwningSteps ==
  {"intent", "leased", "exchanging", "failing", "staging", "completing",
   "merge", "commit", "journal", "clean"}
Owning(p) == pc[p] \in OwningSteps

\* Steps at which a process holds the lock of its target's refresh token.
Leasing(p) ==
  \/ pc[p] = "lockEvidence"
  \/ Owning(p) /\ op[p].mode = "lease"

\* Steps before the stage is written.
Unstaged(p) == pc[p] \in {"leased", "exchanging", "failing", "staging"}

\* Steps at which a process is inside the lifecycle.
Inside(p) == pc[p] \notin {"idle", "join", "exclude"}

\* TypeOK without the history variable, which Settle alone writes.
Typed ==
  /\ store \in [Label -> Held]
  /\ health \in [Label -> {"ok", "failed"}]
  /\ evidence \in [Label -> Evidence]
  /\ shared \subseteq Proc
  /\ exclusive \in Holder
  /\ tokenLock \in [Token -> Holder]
  /\ evidenceLock \in [Label -> Holder]
  /\ pc \in [Proc -> Step]
  /\ op \in [Proc -> Locals]
  /\ issued \subseteq Cred
  /\ origin \in [Cred -> CredOrNone]
  /\ refused \subseteq Cred
  /\ edits \in 0..MaxEdits /\ faults \in 0..MaxFaults

\* Who is inside the lifecycle, and how.
LifecycleHeld ==
  /\ \A p \in Proc :
       /\ Inside(p) /\ op[p].task = "quiesce" => exclusive = p
       /\ Inside(p) /\ op[p].task # "quiesce" => p \in shared
       /\ pc[p] = "join" => op[p].task # "quiesce"
       /\ pc[p] \in {"exclude", "mutating"} => op[p].task = "quiesce"
  /\ exclusive # None => shared = {}

\* A process owns its directory, and every directory lock has such an owner.
OwnsDirectory ==
  /\ \A p \in Proc : Owning(p) =>
       op[p].dir \in Label /\ evidenceLock[op[p].dir] = p
  /\ \A l \in Label : evidenceLock[l] # None =>
       Owning(evidenceLock[l]) /\ op[evidenceLock[l]].dir = l

\* A process holds its refresh token, and every token lock has such a holder.
OwnsToken ==
  /\ \A p \in Proc :
       /\ op[p].task = "refresh" => op[p].target \in Label
       /\ pc[p] \in {"stabilise", "lockToken"} \/ Leasing(p) => op[p].target \in Label
       /\ pc[p] = "lockToken" \/ Leasing(p) => op[p].expected \in issued
       /\ Leasing(p) => tokenLock[RefreshToken[op[p].expected]] = p
  /\ \A t \in Token : tokenLock[t] # None =>
       Leasing(tokenLock[t]) /\ RefreshToken[op[tokenLock[t]].expected] = t

\* The directory a process owns is as its step requires.
AtStep(p) ==
  LET e == evidence[op[p].dir] IN
    /\ pc[p] \in {"intent", "leased", "exchanging", "failing", "staging",
                  "completing", "journal"} => op[p].mode = "lease"
    /\ pc[p] = "intent" => ~Present(e)
    /\ Unstaged(p) => /\ e.journal = "intent" /\ e.stage = None
                      /\ e.expected = op[p].expected
    /\ pc[p] = "staging" => /\ op[p].reply \in issued
                           /\ origin[op[p].reply] = op[p].expected
    /\ pc[p] = "completing" => e.stage # None /\ e.stage = op[p].reply
    /\ pc[p] \in {"merge", "commit"} => e.stage # None
    /\ pc[p] \in {"merge", "commit", "journal"} /\ op[p].mode = "lease" =>
         e.journal = "complete"

DirectoryAtStep == \A p \in Proc : AtStep(p)

\* Journals and stages name existing credentials; files are in a directory.
JournalNames ==
  \A l \in Label : LET e == evidence[l] IN
    /\ Present(e) => e.dir
    /\ e.journal # "none" => e.expected \in issued
    /\ e.stage # None => e.stage \in issued
    /\ e.journal = "none" => e.stage = None
    /\ e.journal \in {"none", "intent"} => e.digest = None

StoreIssued == \A l \in Label : store[l] \in Cred => store[l] \in issued

NoDirectory == \A p \in Proc : pc[p] = "mutating" => \A l \in Label : ~evidence[l].dir

IInv ==
  /\ Typed /\ StoreIssued /\ LifecycleHeld
  /\ OwnsDirectory /\ OwnsToken
  /\ DirectoryAtStep /\ JournalNames /\ EvidenceCoherent /\ NoDirectory

USE RefreshTokenAssumption, ConstantsAssumption, BoundsAssumption

-----------------------------------------------------------------------------
(* Records. *)

\* The locals of a process that is not at work are well typed.
LEMMA NoLocalsType == NoLocals \in Locals
  BY DEF NoLocals, Locals, Task, CredOrNone, Held

\* A process that takes up a task starts with well-typed locals.
LEMMA NewLocalsType ==
  /\ [NoLocals EXCEPT !.task = "quiesce"] \in Locals
  /\ \A l \in Label, f \in BOOLEAN, v \in Held :
       [NoLocals EXCEPT !.task = "refresh", !.target = l,
                        !.forced = f, !.observed = v] \in Locals
  BY NoLocalsType DEF NoLocals, Locals, Task, CredOrNone, Held

\* Each assignment the actions make to the locals keeps their type.
LEMMA LocalsUpdate ==
  ASSUME NEW r \in Locals
  PROVE  /\ \A todo \in SUBSET Label : [r EXCEPT !.todo = todo] \in Locals
         /\ \A c \in CredOrNone : [r EXCEPT !.reply = c] \in Locals
         /\ \A c \in CredOrNone, n \in 0..MaxAttempts :
              [r EXCEPT !.expected = c, !.attempt = n] \in Locals
         /\ \A m \in {"lease", "recover"}, d \in Label \cup {None} :
              [r EXCEPT !.mode = m, !.dir = d] \in Locals
         /\ \A m \in {"lease", "recover"}, d \in Label, todo \in SUBSET Label :
              [r EXCEPT !.mode = m, !.dir = d, !.todo = todo] \in Locals
<1>1. \A todo \in SUBSET Label : [r EXCEPT !.todo = todo] \in Locals
  BY DEF Locals
<1>2. \A c \in CredOrNone : [r EXCEPT !.reply = c] \in Locals
  BY DEF Locals
<1>3. \A c \in CredOrNone, n \in 0..MaxAttempts :
        [r EXCEPT !.expected = c, !.attempt = n] \in Locals
  BY DEF Locals
<1>4. \A m \in {"lease", "recover"}, d \in Label \cup {None} :
        [r EXCEPT !.mode = m, !.dir = d] \in Locals
  BY DEF Locals
<1>5. \A m \in {"lease", "recover"}, d \in Label, todo \in SUBSET Label :
        [r EXCEPT !.mode = m, !.dir = d, !.todo = todo] \in Locals
  BY DEF Locals
<1> QED
  BY <1>1, <1>2, <1>3, <1>4, <1>5

\* Each write and each unlink keeps the type of a directory.
LEMMA EvidenceUpdate ==
  ASSUME NEW e \in Evidence
  PROVE  /\ NoEvidence \in Evidence
         /\ \A x \in BOOLEAN : [e EXCEPT !.dir = x] \in Evidence
         /\ \A x \in BOOLEAN : [e EXCEPT !.temp = x] \in Evidence
         /\ \A x \in BOOLEAN : [e EXCEPT !.dir = TRUE, !.temp = x] \in Evidence
         /\ \A c \in CredOrNone : [e EXCEPT !.stage = c] \in Evidence
         /\ \A j \in JournalState : [e EXCEPT !.journal = j] \in Evidence
         /\ \A j \in JournalState, c \in CredOrNone :
              [e EXCEPT !.journal = j, !.digest = c] \in Evidence
         /\ \A c \in CredOrNone :
              [e EXCEPT !.dir = TRUE, !.journal = "intent", !.expected = c] \in Evidence
         /\ [e EXCEPT !.journal = "none", !.expected = None, !.digest = None] \in Evidence
  BY DEF Evidence, NoEvidence, JournalState, CredOrNone

-----------------------------------------------------------------------------
(* Locks keep processes apart. *)

\* Two processes never own one directory (hold_evidence_lock).
LEMMA DirectoriesApart ==
  ASSUME OwnsDirectory, NEW p \in Proc, NEW q \in Proc, p # q,
         Owning(p), Owning(q)
  PROVE  op[p].dir # op[q].dir
  BY DEF OwnsDirectory

\* Two processes never hold one refresh token (_operation_basename).
LEMMA TokensApart ==
  ASSUME OwnsToken, NEW p \in Proc, NEW q \in Proc, p # q,
         Leasing(p), Leasing(q)
  PROVE  RefreshToken[op[p].expected] # RefreshToken[op[q].expected]
  BY DEF OwnsToken

-----------------------------------------------------------------------------
(* Initial states. *)

\* The invariant holds before any process has started.
LEMMA InitIInv == Init => IInv
  BY NoLocalsType
     DEF Init, IInv, Typed, StoreIssued, LifecycleHeld, OwnsDirectory, OwnsToken,
         DirectoryAtStep, AtStep, JournalNames, EvidenceCoherent, NoDirectory,
         Owning, OwningSteps, Leasing, Unstaged, Inside, Present, NoEvidence, NoLocals,
         Evidence, JournalState, Held, CredOrNone, Holder, Step

-----------------------------------------------------------------------------
(* Every action keeps the invariant. *)

\* A process that ends gives up everything it held, and disturbs nobody.
LEMMA EndLocks ==
  ASSUME IInv, NEW p \in Proc, End(p), UNCHANGED issued
  PROVE  /\ pc' \in [Proc -> Step] /\ op' \in [Proc -> Locals]
         /\ tokenLock' \in [Token -> Holder] /\ evidenceLock' \in [Label -> Holder]
         /\ shared' \subseteq Proc /\ exclusive' \in Holder
         /\ pc'[p] = "idle"
         /\ \A q \in Proc \ {p} : pc'[q] = pc[q] /\ op'[q] = op[q]
         /\ LifecycleHeld' /\ OwnsDirectory' /\ OwnsToken'
<1> USE DEF IInv, End, ReleaseAll, ReleaseOperation
<1>1. /\ pc' \in [Proc -> Step] /\ pc'[p] = "idle"
      /\ \A q \in Proc \ {p} : pc'[q] = pc[q]
  BY DEF Typed, Step
<1>2. /\ op' \in [Proc -> Locals] /\ op'[p] = NoLocals
      /\ \A q \in Proc \ {p} : op'[q] = op[q]
  BY NoLocalsType DEF Typed
<1>3. /\ tokenLock' \in [Token -> Holder] /\ evidenceLock' \in [Label -> Holder]
      /\ shared' \subseteq Proc /\ exclusive' \in Holder
  BY DEF Typed, Holder
<1>4. LifecycleHeld'
  BY <1>1, <1>2 DEF LifecycleHeld, Inside, Typed, NoLocals, Holder
<1>5. OwnsDirectory'
  BY <1>1, <1>2 DEF OwnsDirectory, Owning, OwningSteps, Typed, Holder, NoLocals
<1>6. OwnsToken'
  BY <1>1, <1>2 DEF OwnsToken, Owning, OwningSteps, Leasing, Typed, Holder, NoLocals
<1> QED
  BY <1>1, <1>2, <1>3, <1>4, <1>5, <1>6

\* A process that ends without a durable effect keeps the invariant.
LEMMA EndIInv ==
  ASSUME IInv, NEW p \in Proc, End(p), UNCHANGED <<authority, evidence, provider>>,
         edits' \in 0..MaxEdits, faults' \in 0..MaxFaults
  PROVE  IInv'
<1> USE EndLocks DEF IInv, authority, provider
<1>1. Typed' /\ StoreIssued' /\ NoDirectory'
  BY DEF Typed, StoreIssued, NoDirectory
<1>2. DirectoryAtStep' /\ JournalNames' /\ EvidenceCoherent'
  BY DEF DirectoryAtStep, AtStep, Unstaged, JournalNames, EvidenceCoherent, Present
<1> QED
  BY <1>1, <1>2, EndLocks

\* Every action that only ends its process keeps the invariant.
LEMMA EndingsIInv ==
  ASSUME IInv, NEW p \in Proc,
         \/ RecoveryEnds(p) \/ StabiliseFails(p) \/ EvidenceInTheWay(p)
         \/ MergeRaises(p) \/ Migrate(p) \/ LockTimeout(p) \/ Abort(p)
         \/ \E l \in Label : RecoverBlocked(p, l)
  PROVE  IInv'
<1>1. End(p) /\ UNCHANGED <<authority, evidence, provider>>
  BY DEF RecoverBlocked, RecoveryEnds, StabiliseFails, EvidenceInTheWay, MergeRaises,
         Migrate, LockTimeout, Abort
<1>2. edits' \in 0..MaxEdits /\ faults' \in 0..MaxFaults
  BY DEF RecoverBlocked, RecoveryEnds, StabiliseFails, EvidenceInTheWay, MergeRaises,
         Migrate, LockTimeout, Abort, Fault, counters, IInv, Typed
<1> QED
  BY <1>1, <1>2, EndIInv

\* A process that ends with a last write to its own directory, one that leaves the
\* journal's names and the stage alone, keeps the invariant.
LEMMA EndWritingIInv ==
  ASSUME IInv, NEW p \in Proc, End(p), UNCHANGED provider, Owning(p),
         NEW e \in Evidence, evidence' = [evidence EXCEPT ![op[p].dir] = e],
         Present(e) => e.dir,
         e.journal # "none" => e.expected \in issued,
         e.stage # None => /\ e.journal # "none" /\ e.stage \in issued
                           /\ origin[e.stage] = e.expected
                           /\ e.journal # "intent" => e.digest = e.stage,
         e.journal \in {"none", "intent"} => e.digest = None,
         store' \in [Label -> Held], health' \in [Label -> {"ok", "failed"}],
         StoreIssued',
         edits' \in 0..MaxEdits, faults' \in 0..MaxFaults
  PROVE  IInv'
<1> USE DEF IInv, provider
<1>1. op[p].dir \in Label
  BY DEF OwnsDirectory
<1>2. Typed'
  BY <1>1, EndLocks DEF Typed
<1>3. NoDirectory'
  <2> SUFFICES ASSUME NEW q \in Proc, pc'[q] = "mutating"
               PROVE  FALSE
    BY DEF NoDirectory
  <2>1. q # p /\ pc[q] = "mutating"
    BY EndLocks
  <2>2. exclusive = q /\ shared = {}
    BY <2>1 DEF LifecycleHeld, Inside, Typed, Holder
  <2>3. exclusive = p \/ p \in shared
    BY DEF LifecycleHeld, Inside, Owning, OwningSteps
  <2> QED
    BY <2>1, <2>2, <2>3
<1>4. DirectoryAtStep'
  <2> SUFFICES ASSUME NEW q \in Proc, Owning(q)', q # p
               PROVE  AtStep(q)'
    BY EndLocks DEF DirectoryAtStep, AtStep, Owning, OwningSteps, Unstaged
  <2>1. Owning(q) /\ pc'[q] = pc[q] /\ op'[q] = op[q]
    BY EndLocks DEF Owning
  <2>2. op[q].dir \in Label /\ op[q].dir # op[p].dir
    BY <2>1, DirectoriesApart DEF OwnsDirectory
  <2>3. evidence'[op[q].dir] = evidence[op[q].dir]
    BY <2>2 DEF Typed
  <2> QED
    BY <2>1, <2>3 DEF DirectoryAtStep, AtStep, Unstaged, Present
<1>5. JournalNames' /\ EvidenceCoherent'
  <2> SUFFICES ASSUME NEW l \in Label
               PROVE  /\ Present(evidence'[l]) => evidence'[l].dir
                      /\ evidence'[l].journal # "none" => evidence'[l].expected \in issued
                      /\ evidence'[l].stage # None =>
                           /\ evidence'[l].journal # "none"
                           /\ evidence'[l].stage \in issued
                           /\ origin[evidence'[l].stage] = evidence'[l].expected
                           /\ evidence'[l].journal # "intent"
                              => evidence'[l].digest = evidence'[l].stage
                      /\ evidence'[l].journal \in {"none", "intent"}
                         => evidence'[l].digest = None
    BY DEF JournalNames, EvidenceCoherent, Present
  <2>1. CASE l = op[p].dir
    BY <2>1, evidence'[l] = e DEF Typed
  <2>2. CASE l # op[p].dir
    BY <2>2, evidence'[l] = evidence[l] DEF JournalNames, EvidenceCoherent, Typed
  <2> QED
    BY <2>1, <2>2
<1> QED
  BY <1>2, <1>3, <1>4, <1>5, EndLocks

\* A new refresh owns nothing yet; it remembers its target and what it observed.
LEMMA BeginRefreshIInv ==
  ASSUME IInv, NEW p \in Proc, NEW l \in Label, NEW f \in BOOLEAN, BeginRefresh(p, l, f)
  PROVE  IInv'
<1> USE DEF IInv, Goto, authority, locks, provider, counters
<1>1. op' \in [Proc -> Locals]
  <2>1. [NoLocals EXCEPT !.task = "refresh", !.target = l, !.forced = f, !.observed = store[l]] \in Locals
    BY NewLocalsType DEF Held, Typed
  <2> QED
    BY <2>1 DEF BeginRefresh, Typed
<1>3. Typed'
  BY <1>1 DEF BeginRefresh, Typed, Step
<1>4. StoreIssued' /\ LifecycleHeld' /\ NoDirectory'
  BY DEF BeginRefresh, NoLocals, StoreIssued, LifecycleHeld, NoDirectory,
         Inside, Typed, Locals
<1>5. OwnsDirectory' /\ OwnsToken'
  BY DEF BeginRefresh, NoLocals, OwnsDirectory, OwnsToken, Owning,
         OwningSteps, Leasing, Typed, Locals
<1>6. DirectoryAtStep' /\ JournalNames' /\ EvidenceCoherent'
  BY DEF BeginRefresh, NoLocals, OwnsDirectory, OwnsToken, DirectoryAtStep,
         AtStep, JournalNames, EvidenceCoherent, Owning, OwningSteps,
         Unstaged, Present, Typed, Locals
<1> QED
  BY <1>3, <1>4, <1>5, <1>6

\* A command that opens the store owns nothing yet.
LEMMA OpenStoreIInv ==
  ASSUME IInv, NEW p \in Proc, OpenStore(p)
  PROVE  IInv'
<1> USE DEF IInv, Goto, authority, locks, provider, counters
<1>1. op' \in [Proc -> Locals]
  <2>1. NoLocals \in Locals
    BY NoLocalsType DEF Typed
  <2> QED
    BY <2>1 DEF OpenStore, Typed
<1>3. Typed'
  BY <1>1 DEF OpenStore, Typed, Step
<1>4. StoreIssued' /\ LifecycleHeld' /\ NoDirectory'
  BY DEF OpenStore, NoLocals, StoreIssued, LifecycleHeld, NoDirectory, Inside,
         Typed, Locals
<1>5. OwnsDirectory' /\ OwnsToken'
  BY DEF OpenStore, NoLocals, OwnsDirectory, OwnsToken, Owning, OwningSteps,
         Leasing, Typed, Locals
<1>6. DirectoryAtStep' /\ JournalNames' /\ EvidenceCoherent'
  BY DEF OpenStore, NoLocals, OwnsDirectory, OwnsToken, DirectoryAtStep,
         AtStep, JournalNames, EvidenceCoherent, Owning, OwningSteps,
         Unstaged, Present, Typed, Locals
<1> QED
  BY <1>3, <1>4, <1>5, <1>6

\* A lifecycle command owns nothing until it is alone.
LEMMA BeginQuiesceIInv ==
  ASSUME IInv, NEW p \in Proc, BeginQuiesce(p)
  PROVE  IInv'
<1> USE DEF IInv, Goto, authority, locks, provider, counters
<1>1. op' \in [Proc -> Locals]
  <2>1. [NoLocals EXCEPT !.task = "quiesce"] \in Locals
    BY NewLocalsType DEF Typed
  <2> QED
    BY <2>1 DEF BeginQuiesce, Typed
<1>3. Typed'
  BY <1>1 DEF BeginQuiesce, Typed, Step
<1>4. StoreIssued' /\ LifecycleHeld' /\ NoDirectory'
  BY DEF BeginQuiesce, NoLocals, StoreIssued, LifecycleHeld, NoDirectory,
         Inside, Typed, Locals
<1>5. OwnsDirectory' /\ OwnsToken'
  BY DEF BeginQuiesce, NoLocals, OwnsDirectory, OwnsToken, Owning,
         OwningSteps, Leasing, Typed, Locals
<1>6. DirectoryAtStep' /\ JournalNames' /\ EvidenceCoherent'
  BY DEF BeginQuiesce, NoLocals, OwnsDirectory, OwnsToken, DirectoryAtStep,
         AtStep, JournalNames, EvidenceCoherent, Owning, OwningSteps,
         Unstaged, Present, Typed, Locals
<1> QED
  BY <1>3, <1>4, <1>5, <1>6

\* Joining the shared lifecycle excludes no other refresh.
LEMMA JoinIInv ==
  ASSUME IInv, NEW p \in Proc, Join(p)
  PROVE  IInv'
<1> USE DEF IInv, Goto, authority, locks, provider, counters
<1>3. Typed'
  BY DEF Join, Typed, Step
<1>4. StoreIssued' /\ LifecycleHeld' /\ NoDirectory'
  BY DEF Join, StoreIssued, LifecycleHeld, NoDirectory, Inside, Typed
<1>5. OwnsDirectory' /\ OwnsToken'
  BY DEF Join, OwnsDirectory, OwnsToken, Owning, OwningSteps, Leasing, Typed
<1>6. DirectoryAtStep' /\ JournalNames' /\ EvidenceCoherent'
  BY DEF Join, OwnsDirectory, OwnsToken, DirectoryAtStep, AtStep,
         JournalNames, EvidenceCoherent, Owning, OwningSteps, Unstaged,
         Present, Typed
<1> QED
  BY <1>3, <1>4, <1>5, <1>6

\* Exclusion succeeds only when nobody is inside the lifecycle.
LEMMA ExcludeIInv ==
  ASSUME IInv, NEW p \in Proc, Exclude(p)
  PROVE  IInv'
<1> USE DEF IInv, Goto, authority, provider, counters
<1>1. /\ pc[p] = "exclude" /\ shared = {} /\ exclusive = None
      /\ UNCHANGED <<authority, evidence, shared, tokenLock, evidenceLock, provider,
                     counters>>
      /\ \/ exclusive' = p /\ pc' = [pc EXCEPT ![p] = "list"] /\ UNCHANGED op
         \/ /\ exclusive' = None /\ pc' = [pc EXCEPT ![p] = "idle"]
            /\ op' = [op EXCEPT ![p] = NoLocals]
  BY DEF Exclude
<1>2. Typed'
  BY <1>1, NoLocalsType DEF Typed, Step, Holder
<1>3. /\ \A q \in Proc : ~Inside(q) /\ ~Owning(q) /\ ~Leasing(q)
      /\ \A q \in Proc : ~Owning(q)' /\ ~Leasing(q)' /\ pc'[q] \notin {"mutating", "stabilise", "lockToken"}
  BY <1>1 DEF LifecycleHeld, Inside, Owning, OwningSteps, Leasing, Typed
<1>4. StoreIssued' /\ NoDirectory' /\ JournalNames' /\ EvidenceCoherent'
  BY <1>1, <1>3 DEF StoreIssued, NoDirectory, JournalNames, EvidenceCoherent, Present
<1>5. LifecycleHeld'
  BY <1>1, <1>3 DEF LifecycleHeld, Inside, Typed, NoLocals
<1>6. OwnsDirectory' /\ OwnsToken'
  BY <1>1, <1>3 DEF OwnsDirectory, OwnsToken, Typed, Holder, NoLocals
<1>7. DirectoryAtStep'
  BY <1>3 DEF DirectoryAtStep, AtStep, Owning, OwningSteps, Unstaged
<1> QED
  BY <1>2, <1>4, <1>5, <1>6, <1>7

\* Listing the directories writes only the process's locals.
LEMMA ListDirectoriesIInv ==
  ASSUME IInv, NEW p \in Proc, ListDirectories(p)
  PROVE  IInv'
<1> USE DEF IInv, Goto, authority, locks, provider, counters
<1>1. op' \in [Proc -> Locals]
  <2>1. [op[p] EXCEPT !.todo = {l \in Label : evidence[l].dir}] \in Locals
    BY LocalsUpdate DEF Typed
  <2> QED
    BY <2>1 DEF ListDirectories, Typed
<1>3. Typed'
  BY <1>1 DEF ListDirectories, Typed, Step
<1>4. StoreIssued' /\ LifecycleHeld' /\ NoDirectory'
  BY DEF ListDirectories, StoreIssued, LifecycleHeld, NoDirectory, Inside,
         Typed, Locals
<1>5. OwnsDirectory' /\ OwnsToken'
  BY DEF ListDirectories, OwnsDirectory, OwnsToken, Owning, OwningSteps,
         Leasing, Typed, Locals
<1>6. DirectoryAtStep' /\ JournalNames' /\ EvidenceCoherent'
  BY DEF ListDirectories, OwnsDirectory, OwnsToken, DirectoryAtStep, AtStep,
         JournalNames, EvidenceCoherent, Owning, OwningSteps, Unstaged,
         Present, Typed, Locals
<1> QED
  BY <1>3, <1>4, <1>5, <1>6

\* Skipping a directory leaves it to whoever owns it.
LEMMA RecoverSkipIInv ==
  ASSUME IInv, NEW p \in Proc, NEW l \in Label, RecoverSkip(p, l)
  PROVE  IInv'
<1> USE DEF IInv, Goto, authority, locks, provider, counters
<1>1. op' \in [Proc -> Locals]
  <2>1. op[p] \in Locals
    BY DEF Typed
  <2>2. op[p].todo \ {l} \in SUBSET Label
    BY <2>1 DEF RecoverSkip, Typed, Locals
  <2>3. [op[p] EXCEPT !.todo = op[p].todo \ {l}] \in Locals
    BY <2>1, <2>2, LocalsUpdate
  <2> QED
    BY <2>3 DEF RecoverSkip, Typed
<1>3. Typed'
  BY <1>1 DEF RecoverSkip, Typed, Step
<1>4. StoreIssued' /\ LifecycleHeld' /\ NoDirectory'
  BY DEF RecoverSkip, StoreIssued, LifecycleHeld, NoDirectory, Inside, Typed,
         Locals
<1>5. OwnsDirectory' /\ OwnsToken'
  BY DEF RecoverSkip, OwnsDirectory, OwnsToken, Owning, OwningSteps, Leasing,
         Typed, Locals
<1>6. DirectoryAtStep' /\ JournalNames' /\ EvidenceCoherent'
  BY DEF RecoverSkip, OwnsDirectory, OwnsToken, DirectoryAtStep, AtStep,
         JournalNames, EvidenceCoherent, Owning, OwningSteps, Unstaged,
         Present, Typed, Locals
<1> QED
  BY <1>3, <1>4, <1>5, <1>6

\* Recovery takes a free directory whose stage, if any, its journal names.
LEMMA RecoverTakeIInv ==
  ASSUME IInv, NEW p \in Proc, NEW l \in Label, RecoverTake(p, l)
  PROVE  IInv'
<1> USE DEF IInv, Goto, authority, locks, provider, counters
<1>1. op' \in [Proc -> Locals]
  <2>1. op[p] \in Locals
    BY DEF Typed
  <2>2. op[p].todo \ {l} \in SUBSET Label
    BY <2>1 DEF RecoverTake, Discardable, Mergeable, Typed, Locals
  <2>3. [op[p] EXCEPT !.mode = "recover", !.dir = l, !.todo = op[p].todo \ {l}] \in Locals
    BY <2>1, <2>2, LocalsUpdate
  <2> QED
    BY <2>3 DEF RecoverTake, Discardable, Mergeable, Typed
<1>3. Typed'
  BY <1>1 DEF RecoverTake, Discardable, Mergeable, Typed, Step, Holder
<1>4. StoreIssued' /\ LifecycleHeld' /\ NoDirectory'
  BY DEF RecoverTake, Discardable, Mergeable, StoreIssued, LifecycleHeld,
         NoDirectory, Inside, Typed, Locals
<1>2. /\ evidenceLock[l] = None /\ ~Owning(p) /\ ~Leasing(p)
      /\ pc'[p] \in {"clean", "merge"} /\ op'[p].mode = "recover" /\ op'[p].dir = l
      /\ op'[p].target = op[p].target /\ op'[p].expected = op[p].expected
      /\ op'[p].task = op[p].task
      /\ \A q \in Proc : q # p => pc'[q] = pc[q] /\ op'[q] = op[q]
      /\ evidenceLock' = [evidenceLock EXCEPT ![l] = p]
      /\ UNCHANGED <<tokenLock, issued>>
  BY DEF RecoverTake, Owning, OwningSteps, Leasing, Typed, Locals
<1>8. Owning(p)' /\ ~Leasing(p)'
  BY <1>2 DEF Owning, OwningSteps, Leasing
<1>9. \A q \in Proc : q # p => Owning(q)' = Owning(q) /\ Leasing(q)' = Leasing(q)
  BY <1>2 DEF Owning, Leasing
<1>5. OwnsDirectory'
  <2>1. ASSUME NEW q \in Proc, Owning(q)'
        PROVE  op'[q].dir \in Label /\ evidenceLock'[op'[q].dir] = q
    <3>1. CASE q = p
      BY <1>2, <3>1 DEF Typed
    <3>2. CASE q # p
      BY <1>2, <1>9, <2>1, <3>2 DEF OwnsDirectory, Typed
    <3> QED
      BY <3>1, <3>2
  <2>2. ASSUME NEW m \in Label, evidenceLock'[m] # None
        PROVE  Owning(evidenceLock[m])' /\ op'[evidenceLock'[m]].dir = m
    <3>1. CASE m = l
      <4>1. evidenceLock'[m] = p
        BY <1>2, <3>1 DEF Typed
      <4> QED
        BY <1>2, <1>8, <3>1, <4>1 DEF Owning
    <3>2. CASE m # l
      <4>1. evidenceLock'[m] = evidenceLock[m] /\ evidenceLock[m] \in Proc
        BY <1>2, <2>2, <3>2 DEF Typed, Holder
      <4>2. Owning(evidenceLock[m]) /\ op[evidenceLock[m]].dir = m
        BY <2>2, <4>1 DEF OwnsDirectory
      <4>3. evidenceLock[m] # p
        BY <1>2, <4>2
      <4> QED
        BY <1>2, <4>1, <4>2, <4>3 DEF Owning
    <3> QED
      BY <3>1, <3>2
  <2> QED
    BY <2>1, <2>2 DEF OwnsDirectory
<1>7. OwnsToken'
  <2>1. \A q \in Proc :
          /\ op'[q].task = "refresh" => op'[q].target \in Label
          /\ pc'[q] \in {"stabilise", "lockToken"} \/ Leasing(q)' => op'[q].target \in Label
          /\ pc'[q] = "lockToken" \/ Leasing(q)' => op'[q].expected \in issued'
          /\ Leasing(q)' => tokenLock'[RefreshToken[op'[q].expected]] = q
    BY <1>2, <1>8, <1>9 DEF OwnsToken
  <2>2. ASSUME NEW t \in Token, tokenLock'[t] # None
        PROVE  Leasing(tokenLock[t])' /\ RefreshToken[op'[tokenLock'[t]].expected] = t
    <3>1. tokenLock'[t] = tokenLock[t] /\ tokenLock[t] \in Proc
      BY <1>2, <2>2 DEF Typed, Holder
    <3>2. Leasing(tokenLock[t]) /\ RefreshToken[op[tokenLock[t]].expected] = t
      BY <2>2, <3>1 DEF OwnsToken
    <3>3. tokenLock[t] # p
      BY <1>2, <3>2
    <3> QED
      BY <1>2, <3>1, <3>2, <3>3 DEF Leasing, Owning
  <2> QED
    BY <2>1, <2>2 DEF OwnsToken
<1>6. DirectoryAtStep' /\ JournalNames' /\ EvidenceCoherent'
  BY DEF RecoverTake, Discardable, Mergeable, OwnsDirectory, OwnsToken,
         DirectoryAtStep, AtStep, JournalNames, EvidenceCoherent, Owning,
         OwningSteps, Unstaged, Present, Typed, Locals
<1> QED
  BY <1>3, <1>4, <1>5, <1>6, <1>7

\* A refresh that recovered everything goes on owning nothing.
LEMMA RefreshRecoveredIInv ==
  ASSUME IInv, NEW p \in Proc, RefreshRecovered(p)
  PROVE  IInv'
<1> USE DEF IInv, Goto, authority, locks, provider, counters
<1>3. Typed'
  BY DEF RefreshRecovered, Recovered, Typed, Step
<1>4. StoreIssued' /\ LifecycleHeld' /\ NoDirectory'
  BY DEF RefreshRecovered, Recovered, StoreIssued, LifecycleHeld, NoDirectory,
         Inside, Typed
<1>5. OwnsDirectory' /\ OwnsToken'
  BY DEF RefreshRecovered, Recovered, OwnsDirectory, OwnsToken, Owning,
         OwningSteps, Leasing, Typed
<1>6. DirectoryAtStep' /\ JournalNames' /\ EvidenceCoherent'
  BY DEF RefreshRecovered, Recovered, OwnsDirectory, OwnsToken,
         DirectoryAtStep, AtStep, JournalNames, EvidenceCoherent, Owning,
         OwningSteps, Unstaged, Present, Typed
<1> QED
  BY <1>3, <1>4, <1>5, <1>6

\* A lifecycle command goes on to mutate when no directory is left.
LEMMA QuiesceRecoveredIInv ==
  ASSUME IInv, NEW p \in Proc, QuiesceRecovered(p)
  PROVE  IInv'
<1> USE DEF IInv, Goto, authority, locks, provider, counters
<1>3. Typed'
  BY DEF QuiesceRecovered, Recovered, Typed, Step
<1>4. StoreIssued' /\ LifecycleHeld' /\ NoDirectory'
  BY DEF QuiesceRecovered, Recovered, StoreIssued, LifecycleHeld, NoDirectory,
         Inside, Typed
<1>5. OwnsDirectory' /\ OwnsToken'
  BY DEF QuiesceRecovered, Recovered, OwnsDirectory, OwnsToken, Owning,
         OwningSteps, Leasing, Typed
<1>6. DirectoryAtStep' /\ JournalNames' /\ EvidenceCoherent'
  BY DEF QuiesceRecovered, Recovered, OwnsDirectory, OwnsToken,
         DirectoryAtStep, AtStep, JournalNames, EvidenceCoherent, Owning,
         OwningSteps, Unstaged, Present, Typed
<1> QED
  BY <1>3, <1>4, <1>5, <1>6

\* A stabilising refresh remembers an existing rotating credential.
LEMMA StabiliseIInv ==
  ASSUME IInv, NEW p \in Proc, Stabilise(p)
  PROVE  IInv'
<1> USE DEF IInv, Goto, authority, locks, provider, counters
<1>1. op' \in [Proc -> Locals]
  <2>1. op[p] \in Locals
    BY DEF Typed
  <2>2. store[op[p].target] \in CredOrNone /\ op[p].attempt + 1 \in 0..MaxAttempts
    BY <2>1 DEF Stabilise, CredOrNone, Typed, Locals
  <2>3. [op[p] EXCEPT !.expected = store[op[p].target], !.attempt = op[p].attempt + 1] \in Locals
    BY <2>1, <2>2, LocalsUpdate
  <2> QED
    BY <2>3 DEF Stabilise, Typed
<1>3. Typed'
  BY <1>1 DEF Stabilise, Typed, Step
<1>4. StoreIssued' /\ LifecycleHeld' /\ NoDirectory'
  BY DEF Stabilise, StoreIssued, LifecycleHeld, NoDirectory, Inside, Typed,
         Locals
<1>5. OwnsDirectory' /\ OwnsToken'
  BY DEF Stabilise, OwnsDirectory, OwnsToken, Owning, OwningSteps, Leasing,
         Typed, Locals
<1>6. DirectoryAtStep' /\ JournalNames' /\ EvidenceCoherent'
  <2>1. ASSUME NEW q \in Proc, q # p
        PROVE  AtStep(q)'
    <3>1. pc'[q] = pc[q] /\ op'[q] = op[q]
      BY <2>1 DEF Stabilise, Typed
    <3>2. UNCHANGED <<evidence, provider>>
      BY DEF Stabilise
    <3> QED
      BY <3>1, <3>2 DEF DirectoryAtStep, AtStep, Unstaged, Present, provider
  <2>2. AtStep(p)'
    BY DEF Stabilise, NoLocals, NoEvidence, OwnsDirectory, OwnsToken,
           DirectoryAtStep, JournalNames, EvidenceCoherent, OwningSteps,
           Leasing, Owning, Unstaged, AtStep, Present, Typed, Evidence,
           Locals, CredOrNone
  <2>3. JournalNames'
    BY DEF Stabilise, NoLocals, NoEvidence, OwnsDirectory, OwnsToken,
           DirectoryAtStep, JournalNames, EvidenceCoherent, OwningSteps,
           Leasing, Owning, Unstaged, AtStep, Present, Typed, Evidence,
           Locals, CredOrNone
  <2>4. EvidenceCoherent'
    BY DEF Stabilise, NoLocals, NoEvidence, OwnsDirectory, OwnsToken,
           DirectoryAtStep, JournalNames, EvidenceCoherent, OwningSteps,
           Leasing, Owning, Unstaged, AtStep, Present, Typed, Evidence,
           Locals, CredOrNone
  <2> QED
    BY <2>1, <2>2, <2>3, <2>4 DEF DirectoryAtStep
<1> QED
  BY <1>3, <1>4, <1>5, <1>6

\* The token lock is taken for exactly the remembered credential's token.
LEMMA LockTokenIInv ==
  ASSUME IInv, NEW p \in Proc, LockToken(p)
  PROVE  IInv'
<1> USE DEF IInv, Goto, authority, locks, provider, counters
<1>3. Typed'
  BY DEF LockToken, Stable, Typed, Step, Holder
<1>4. StoreIssued' /\ LifecycleHeld' /\ NoDirectory'
  BY DEF LockToken, Stable, StoreIssued, LifecycleHeld, NoDirectory, Inside,
         Typed
<1>5. OwnsDirectory' /\ OwnsToken'
  BY DEF LockToken, Stable, OwnsDirectory, OwnsToken, Owning, OwningSteps,
         Leasing, Typed
<1>6. DirectoryAtStep' /\ JournalNames' /\ EvidenceCoherent'
  BY DEF LockToken, Stable, OwnsDirectory, OwnsToken, DirectoryAtStep, AtStep,
         JournalNames, EvidenceCoherent, Owning, OwningSteps, Unstaged,
         Present, Typed
<1> QED
  BY <1>3, <1>4, <1>5, <1>6

\* The directory lock is taken while the directory holds no evidence.
LEMMA LockEvidenceIInv ==
  ASSUME IInv, NEW p \in Proc, LockEvidence(p)
  PROVE  IInv'
<1> USE DEF IInv, Goto, authority, locks, provider, counters
<1>1. op' \in [Proc -> Locals]
  <2>1. op[p] \in Locals
    BY DEF Typed
  <2>2. op[p].target \in Label
    BY <2>1 DEF LockEvidence, Stable, OwnsToken, Leasing, Typed, Locals
  <2>3. [op[p] EXCEPT !.mode = "lease", !.dir = op[p].target] \in Locals
    BY <2>1, <2>2, LocalsUpdate
  <2> QED
    BY <2>3 DEF LockEvidence, Stable, Typed
<1>3. Typed'
  BY <1>1 DEF LockEvidence, Stable, Typed, Step, Holder
<1>4. StoreIssued' /\ LifecycleHeld' /\ NoDirectory'
  BY DEF LockEvidence, Stable, StoreIssued, LifecycleHeld, NoDirectory,
         Inside, Typed, Locals
<1>5. OwnsDirectory' /\ OwnsToken'
  BY DEF LockEvidence, Stable, NoLocals, NoEvidence, StoreIssued,
         OwnsDirectory, OwnsToken, OwningSteps, Leasing, Owning, Unstaged,
         AtStep, Present, Typed, Evidence, JournalState, Held, CredOrNone,
         Holder, Step, Locals, Task
<1>6. DirectoryAtStep' /\ JournalNames' /\ EvidenceCoherent'
  BY DEF LockEvidence, Stable, OwnsDirectory, OwnsToken, DirectoryAtStep,
         AtStep, JournalNames, EvidenceCoherent, Owning, OwningSteps,
         Unstaged, Present, Typed, Locals
<1> QED
  BY <1>3, <1>4, <1>5, <1>6

\* A refresh whose target changed gives both locks back.
LEMMA TargetChangedIInv ==
  ASSUME IInv, NEW p \in Proc, TargetChanged(p)
  PROVE  IInv'
<1> USE DEF IInv, Goto, authority, locks, provider, counters
<1>3. Typed'
  BY DEF TargetChanged, Stable, ReleaseOperation, Typed, Step, Holder
<1>4. StoreIssued' /\ LifecycleHeld' /\ NoDirectory'
  BY DEF TargetChanged, Stable, ReleaseOperation, StoreIssued, LifecycleHeld,
         NoDirectory, Inside, Typed
<1>5. OwnsDirectory' /\ OwnsToken'
  BY DEF TargetChanged, Stable, ReleaseOperation, OwnsDirectory, OwnsToken,
         Owning, OwningSteps, Leasing, Typed
<1>6. DirectoryAtStep' /\ JournalNames' /\ EvidenceCoherent'
  BY DEF TargetChanged, Stable, ReleaseOperation, OwnsDirectory, OwnsToken,
         DirectoryAtStep, AtStep, JournalNames, EvidenceCoherent, Owning,
         OwningSteps, Unstaged, Present, Typed
<1> QED
  BY <1>3, <1>4, <1>5, <1>6

\* The intent names the remembered credential, in a directory nobody shares.
LEMMA WriteIntentIInv ==
  ASSUME IInv, NEW p \in Proc, WriteIntent(p)
  PROVE  IInv'
<1> USE DEF IInv, Goto, authority, locks, provider, counters
<1>2. evidence' \in [Label -> Evidence]
  <2>1. op[p].dir \in Label /\ op[p].reply \in CredOrNone
    BY DEF WriteIntent, Typed, Locals, OwnsDirectory, Owning, OwningSteps
  <2>2. [evidence[op[p].dir] EXCEPT !.dir = TRUE, !.journal = "intent", !.expected = op[p].expected] \in Evidence
    BY <2>1, EvidenceUpdate DEF Locals, Typed, JournalState, CredOrNone
  <2> QED
    BY <2>1, <2>2 DEF WriteIntent, Typed
<1>3. Typed'
  BY <1>2 DEF WriteIntent, Typed, Step
<1>4. StoreIssued' /\ LifecycleHeld' /\ NoDirectory'
  <2>1. StoreIssued'
    BY DEF WriteIntent, NoLocals, OwningSteps, Leasing, Owning, Unstaged,
           AtStep, Typed, Locals, StoreIssued, JournalNames, DirectoryAtStep,
           OwnsDirectory
  <2>2. LifecycleHeld'
    BY DEF WriteIntent, NoLocals, OwningSteps, Leasing, Owning, Unstaged,
           AtStep, Typed, Locals, LifecycleHeld, Inside
  <2>3. NoDirectory'
    BY DEF WriteIntent, NoLocals, OwningSteps, Leasing, Owning, Unstaged,
           AtStep, Typed, Locals, LifecycleHeld, Inside, NoDirectory
  <2> QED
    BY <2>1, <2>2, <2>3
<1>5. OwnsDirectory' /\ OwnsToken'
  BY DEF WriteIntent, OwnsDirectory, OwnsToken, Owning, OwningSteps, Leasing,
         Typed, Evidence
<1>6. DirectoryAtStep' /\ JournalNames' /\ EvidenceCoherent'
  <2>1. ASSUME NEW q \in Proc, q # p
        PROVE  AtStep(q)'
    <3>1. CASE Owning(q)
      <4>1. Owning(p)
        BY DEF WriteIntent, Owning, OwningSteps
      <4>2. op[q].dir \in Label /\ op[q].dir # op[p].dir
        BY <2>1, <3>1, <4>1, DirectoriesApart DEF OwnsDirectory
      <4> QED
        BY <2>1, <4>2 DEF WriteIntent, NoLocals, NoEvidence, DirectoryAtStep,
               AtStep, Unstaged, Present, Typed
    <3>2. CASE ~Owning(q)
      BY <2>1, <3>2 DEF WriteIntent, NoLocals, NoEvidence, AtStep, Owning,
             OwningSteps, Unstaged, Typed
    <3> QED
      BY <3>1, <3>2
  <2>2. AtStep(p)'
    BY DEF WriteIntent, NoLocals, NoEvidence, OwnsDirectory, OwnsToken,
           DirectoryAtStep, JournalNames, EvidenceCoherent, OwningSteps,
           Leasing, Owning, Unstaged, AtStep, Present, Typed, Evidence,
           Locals, CredOrNone
  <2>3. JournalNames'
    BY DEF WriteIntent, NoLocals, NoEvidence, OwnsDirectory, OwnsToken,
           DirectoryAtStep, JournalNames, EvidenceCoherent, OwningSteps,
           Leasing, Owning, Unstaged, AtStep, Present, Typed, Evidence,
           Locals, CredOrNone
  <2>4. EvidenceCoherent'
    BY DEF WriteIntent, NoLocals, NoEvidence, OwnsDirectory, OwnsToken,
           DirectoryAtStep, JournalNames, EvidenceCoherent, OwningSteps,
           Leasing, Owning, Unstaged, AtStep, Present, Typed, Evidence,
           Locals, CredOrNone
  <2> QED
    BY <2>1, <2>2, <2>3, <2>4 DEF DirectoryAtStep
<1> QED
  BY <1>3, <1>4, <1>5, <1>6

\* A satisfied refresh goes on to remove its bare intent.
LEMMA SkipExchangeIInv ==
  ASSUME IInv, NEW p \in Proc, SkipExchange(p)
  PROVE  IInv'
<1> USE DEF IInv, Goto, authority, locks, provider, counters
<1>3. Typed'
  BY DEF SkipExchange, Satisfied, Typed, Step
<1>4. StoreIssued' /\ LifecycleHeld' /\ NoDirectory'
  BY DEF SkipExchange, Satisfied, StoreIssued, LifecycleHeld, NoDirectory,
         Inside, Typed
<1>5. OwnsDirectory' /\ OwnsToken'
  BY DEF SkipExchange, Satisfied, OwnsDirectory, OwnsToken, Owning,
         OwningSteps, Leasing, Typed
<1>6. DirectoryAtStep' /\ JournalNames' /\ EvidenceCoherent'
  BY DEF SkipExchange, Satisfied, OwnsDirectory, OwnsToken, DirectoryAtStep,
         AtStep, JournalNames, EvidenceCoherent, Owning, OwningSteps,
         Unstaged, Present, Typed
<1> QED
  BY <1>3, <1>4, <1>5, <1>6

\* A refresh keeps both locks while it asks the provider.
LEMMA StartExchangeIInv ==
  ASSUME IInv, NEW p \in Proc, StartExchange(p)
  PROVE  IInv'
<1> USE DEF IInv, Goto, authority, locks, provider, counters
<1>3. Typed'
  BY DEF StartExchange, Satisfied, Typed, Step
<1>4. StoreIssued' /\ LifecycleHeld' /\ NoDirectory'
  BY DEF StartExchange, Satisfied, StoreIssued, LifecycleHeld, NoDirectory,
         Inside, Typed
<1>5. OwnsDirectory' /\ OwnsToken'
  BY DEF StartExchange, Satisfied, OwnsDirectory, OwnsToken, Owning,
         OwningSteps, Leasing, Typed
<1>6. DirectoryAtStep' /\ JournalNames' /\ EvidenceCoherent'
  BY DEF StartExchange, Satisfied, OwnsDirectory, OwnsToken, DirectoryAtStep,
         AtStep, JournalNames, EvidenceCoherent, Owning, OwningSteps,
         Unstaged, Present, Typed
<1> QED
  BY <1>3, <1>4, <1>5, <1>6

\* A new credential is nobody's stage yet, and remembers where it came from.
LEMMA ProviderRepliesIInv ==
  ASSUME IInv, NEW p \in Proc, NEW c \in Cred, ProviderReplies(p, c)
  PROVE  IInv'
<1> USE DEF IInv, Goto, authority, locks, provider, counters
<1>1. op' \in [Proc -> Locals]
  <2>1. [op[p] EXCEPT !.reply = c] \in Locals
    BY LocalsUpdate DEF CredOrNone, Typed
  <2> QED
    BY <2>1 DEF ProviderReplies, Typed
<1>3. Typed'
  <2>1. op[p].expected \in CredOrNone
    BY DEF Typed, Locals
  <2>2. origin' \in [Cred -> CredOrNone] /\ issued' \subseteq Cred
    BY <2>1 DEF ProviderReplies, Typed
  <2>3. pc' \in [Proc -> Step]
    BY DEF ProviderReplies, Typed, Step
  <2> QED
    BY <1>1, <2>2, <2>3 DEF ProviderReplies, Typed
<1>4. StoreIssued' /\ LifecycleHeld' /\ NoDirectory'
  BY DEF ProviderReplies, StoreIssued, LifecycleHeld, NoDirectory, Inside,
         Typed, Locals
<1>5. OwnsDirectory' /\ OwnsToken'
  BY DEF ProviderReplies, OwnsDirectory, OwnsToken, Owning, OwningSteps,
         Leasing, Typed, Locals
<1>6. DirectoryAtStep' /\ JournalNames' /\ EvidenceCoherent'
  <2>1. ASSUME NEW q \in Proc, q # p
        PROVE  AtStep(q)'
    <3>1. CASE Owning(q)
      <4>1. Owning(p)
        BY DEF ProviderReplies, Owning, OwningSteps
      <4>2. op[q].dir \in Label /\ op[q].dir # op[p].dir
        BY <2>1, <3>1, <4>1, DirectoriesApart DEF OwnsDirectory
      <4> QED
        BY <2>1, <4>2 DEF ProviderReplies, NoLocals, NoEvidence,
               DirectoryAtStep, AtStep, Unstaged, Present, Typed
    <3>2. CASE ~Owning(q)
      BY <2>1, <3>2 DEF ProviderReplies, NoLocals, NoEvidence, AtStep, Owning,
             OwningSteps, Unstaged, Typed
    <3> QED
      BY <3>1, <3>2
  <2>2. AtStep(p)'
    BY DEF ProviderReplies, NoLocals, NoEvidence, OwnsDirectory, OwnsToken,
           DirectoryAtStep, JournalNames, EvidenceCoherent, OwningSteps,
           Leasing, Owning, Unstaged, AtStep, Present, Typed, Evidence,
           Locals, CredOrNone
  <2>3. JournalNames'
    BY DEF ProviderReplies, NoLocals, NoEvidence, OwnsDirectory, OwnsToken,
           DirectoryAtStep, JournalNames, EvidenceCoherent, OwningSteps,
           Leasing, Owning, Unstaged, AtStep, Present, Typed, Evidence,
           Locals, CredOrNone
  <2>4. EvidenceCoherent'
    BY DEF ProviderReplies, NoLocals, NoEvidence, OwnsDirectory, OwnsToken,
           DirectoryAtStep, JournalNames, EvidenceCoherent, OwningSteps,
           Leasing, Owning, Unstaged, AtStep, Present, Typed, Evidence,
           Locals, CredOrNone
  <2> QED
    BY <2>1, <2>2, <2>3, <2>4 DEF DirectoryAtStep
<1> QED
  BY <1>3, <1>4, <1>5, <1>6

\* A failed exchange leaves its bare intent to be removed.
LEMMA ExchangeFailsIInv ==
  ASSUME IInv, NEW p \in Proc, ExchangeFails(p)
  PROVE  IInv'
<1> USE DEF IInv, Goto, authority, locks, provider, counters
<1>3. Typed'
  BY DEF ExchangeFails, Typed, Evidence, JournalState, Held, CredOrNone,
         Holder, Step, Locals, Task, OwnsToken, OwnsDirectory, OwningSteps,
         Leasing, Owning, Unstaged, AtStep, DirectoryAtStep
<1>4. StoreIssued' /\ LifecycleHeld' /\ NoDirectory'
  BY DEF ExchangeFails, StoreIssued, LifecycleHeld, NoDirectory, Inside, Typed
<1>5. OwnsDirectory' /\ OwnsToken'
  BY DEF ExchangeFails, OwnsDirectory, OwnsToken, Owning, OwningSteps,
         Leasing, Typed
<1>6. DirectoryAtStep' /\ JournalNames' /\ EvidenceCoherent'
  BY DEF ExchangeFails, OwnsDirectory, OwnsToken, DirectoryAtStep, AtStep,
         JournalNames, EvidenceCoherent, Owning, OwningSteps, Unstaged,
         Present, Typed
<1> QED
  BY <1>3, <1>4, <1>5, <1>6

\* Marking the account failed writes no credential.
LEMMA RecordFailureIInv ==
  ASSUME IInv, NEW p \in Proc, RecordFailure(p)
  PROVE  IInv'
<1> USE DEF IInv, Goto, authority, locks, provider, counters
<1>3. Typed'
  BY DEF RecordFailure, Stable, Typed, Step
<1>4. StoreIssued' /\ LifecycleHeld' /\ NoDirectory'
  BY DEF RecordFailure, Stable, StoreIssued, LifecycleHeld, NoDirectory,
         Inside, Typed
<1>5. OwnsDirectory' /\ OwnsToken'
  BY DEF RecordFailure, Stable, OwnsDirectory, OwnsToken, Owning, OwningSteps,
         Leasing, Typed
<1>6. DirectoryAtStep' /\ JournalNames' /\ EvidenceCoherent'
  BY DEF RecordFailure, Stable, OwnsDirectory, OwnsToken, DirectoryAtStep,
         AtStep, JournalNames, EvidenceCoherent, Owning, OwningSteps,
         Unstaged, Present, Typed
<1> QED
  BY <1>3, <1>4, <1>5, <1>6

\* The stage is the answer to the credential its intent names.
LEMMA WriteStageIInv ==
  ASSUME IInv, NEW p \in Proc, WriteStage(p)
  PROVE  IInv'
<1> USE DEF IInv, Goto, authority, locks, provider, counters
<1>2. evidence' \in [Label -> Evidence]
  <2>1. op[p].dir \in Label /\ op[p].reply \in CredOrNone
    BY DEF WriteStage, Typed, Locals, OwnsDirectory, Owning, OwningSteps
  <2>2. [evidence[op[p].dir] EXCEPT !.stage = op[p].reply] \in Evidence
    BY <2>1, EvidenceUpdate DEF Typed, JournalState, CredOrNone
  <2> QED
    BY <2>1, <2>2 DEF WriteStage, Typed
<1>3. Typed'
  BY <1>2 DEF WriteStage, Typed, Step
<1>4. StoreIssued' /\ LifecycleHeld' /\ NoDirectory'
  BY DEF WriteStage, StoreIssued, LifecycleHeld, NoDirectory, Inside, Typed,
         Evidence
<1>5. OwnsDirectory' /\ OwnsToken'
  BY DEF WriteStage, OwnsDirectory, OwnsToken, Owning, OwningSteps, Leasing,
         Typed, Evidence
<1>6. DirectoryAtStep' /\ JournalNames' /\ EvidenceCoherent'
  BY DEF WriteStage, OwnsDirectory, OwnsToken, DirectoryAtStep, AtStep,
         JournalNames, EvidenceCoherent, Owning, OwningSteps, Unstaged,
         Present, Typed, Evidence
<1> QED
  BY <1>3, <1>4, <1>5, <1>6

\* The completed journal names the stage its process wrote.
LEMMA CompleteJournalIInv ==
  ASSUME IInv, NEW p \in Proc, CompleteJournal(p)
  PROVE  IInv'
<1>1. CASE evidence[op[p].dir].journal # "intent"
  BY <1>1, EndIInv DEF CompleteJournal, IInv, Typed, counters
<1>2. CASE evidence[op[p].dir].journal = "intent"
  <2> DEFINE d == evidence[op[p].dir]
  <2> USE DEF IInv, authority, locks, provider, counters
  <2>1. /\ pc[p] = "completing" /\ pc' = [pc EXCEPT ![p] = "merge"]
        /\ evidence' = [evidence EXCEPT ![op[p].dir] =
                          [d EXCEPT !.journal = "complete", !.digest = op[p].reply]]
        /\ UNCHANGED <<authority, locks, op, provider, counters>>
    BY <1>2 DEF CompleteJournal, Goto
  <2>2. /\ op[p].dir \in Label /\ Owning(p) /\ op[p].mode = "lease"
        /\ d \in Evidence /\ d.stage # None /\ d.stage = op[p].reply
    BY <2>1 DEF OwnsDirectory, Owning, OwningSteps, DirectoryAtStep, AtStep, Typed
  <2>3. /\ [d EXCEPT !.journal = "complete", !.digest = op[p].reply] \in Evidence
        /\ op[p].reply \in CredOrNone
    <3>1. op[p].reply \in CredOrNone
      BY DEF Typed, Locals
    <3> QED
      BY <2>2, <3>1, EvidenceUpdate DEF JournalState
  <2>4. Typed'
    <3> HIDE DEF d
    <3> QED
      BY <2>1, <2>3 DEF Typed, Step
  <2>5. StoreIssued' /\ LifecycleHeld' /\ NoDirectory'
    BY <2>1 DEF StoreIssued, LifecycleHeld, NoDirectory, Inside, Typed, Evidence
  <2>6. OwnsDirectory' /\ OwnsToken'
    BY <2>1 DEF OwnsDirectory, OwnsToken, Owning, OwningSteps, Leasing, Typed
  <2>7. ASSUME NEW q \in Proc, q # p
        PROVE  AtStep(q)'
    <3>1. CASE Owning(q)
      <4>1. op[q].dir \in Label /\ op[q].dir # op[p].dir
        BY <2>2, <2>7, <3>1, DirectoriesApart DEF OwnsDirectory
      <4> QED
        BY <2>1, <2>7, <4>1 DEF DirectoryAtStep, AtStep, Unstaged, Present, Typed
    <3>2. CASE ~Owning(q)
      BY <2>1, <2>7, <3>2 DEF AtStep, Owning, OwningSteps, Unstaged, Typed
    <3> QED
      BY <3>1, <3>2
  <2>8. AtStep(p)'
    BY <2>1, <2>2 DEF AtStep, Unstaged, Typed, Evidence
  <2>9. JournalNames' /\ EvidenceCoherent'
    BY <2>1, <2>2 DEF JournalNames, EvidenceCoherent, Present, Typed, Evidence
  <2> QED
    BY <2>4, <2>5, <2>6, <2>7, <2>8, <2>9 DEF DirectoryAtStep
<1> QED
  BY <1>1, <1>2

\* The decision of a merge writes nothing.
LEMMA MergeReadIInv ==
  ASSUME IInv, NEW p \in Proc, MergeRead(p)
  PROVE  IInv'
<1> USE DEF IInv, authority, locks, provider, counters
<1>1. \E step \in {"journal", "clean", "commit"} :
        /\ pc' = [pc EXCEPT ![p] = step]
        /\ step = "journal" => op[p].mode = "lease"
  BY DEF MergeRead, AfterMerge, Goto
<1>2. pc[p] = "merge" /\ UNCHANGED <<authority, evidence, locks, op, provider, counters>>
  BY DEF MergeRead
<1>3. Typed'
  BY <1>1, <1>2 DEF Typed, Step
<1>4. StoreIssued' /\ LifecycleHeld' /\ NoDirectory'
  BY <1>1, <1>2 DEF StoreIssued, LifecycleHeld, NoDirectory, Inside, Typed
<1>5. OwnsDirectory' /\ OwnsToken'
  BY <1>1, <1>2 DEF OwnsDirectory, OwnsToken, Owning, OwningSteps, Leasing, Typed
<1>6. DirectoryAtStep' /\ JournalNames' /\ EvidenceCoherent'
  BY <1>1, <1>2 DEF DirectoryAtStep, AtStep, JournalNames, EvidenceCoherent,
                    Unstaged, Present, Typed
<1> QED
  BY <1>3, <1>4, <1>5, <1>6

\* The merged stage is an existing credential.
LEMMA MergeCommitIInv ==
  ASSUME IInv, NEW p \in Proc, MergeCommit(p)
  PROVE  IInv'
<1> USE DEF IInv, authority, locks, provider, counters
<1>1. \E step \in {"journal", "clean"} :
        /\ pc' = [pc EXCEPT ![p] = step]
        /\ step = "journal" => op[p].mode = "lease"
  BY DEF MergeCommit, AfterMerge, Goto
<1>2. pc[p] = "commit" /\ UNCHANGED <<evidence, locks, op, provider, counters>>
  BY DEF MergeCommit
<1>3. /\ op[p].dir \in Label
      /\ evidence[op[p].dir].stage \in issued
  <2>1. op[p].dir \in Label
    BY <1>2 DEF OwnsDirectory, Owning, OwningSteps
  <2>2. evidence[op[p].dir].stage # None
    BY <1>2 DEF DirectoryAtStep, AtStep
  <2> QED
    BY <2>1, <2>2 DEF JournalNames
<1>4. \/ UNCHANGED authority
      \/ /\ store' = [store EXCEPT ![op[p].dir] = evidence[op[p].dir].stage]
         /\ health' = [health EXCEPT ![op[p].dir] = "ok"]
  BY DEF MergeCommit, Installed
<1>5. Typed'
  <2>1. store' \in [Label -> Held] /\ health' \in [Label -> {"ok", "failed"}]
    BY <1>3, <1>4 DEF Typed, Held
  <2> QED
    BY <1>1, <1>2, <2>1 DEF Typed, Step
<1>6. StoreIssued'
  BY <1>2, <1>3, <1>4 DEF StoreIssued, Typed
<1>7. LifecycleHeld' /\ NoDirectory'
  BY <1>1, <1>2 DEF LifecycleHeld, NoDirectory, Inside, Typed
<1>8. OwnsDirectory' /\ OwnsToken'
  BY <1>1, <1>2 DEF OwnsDirectory, OwnsToken, Owning, OwningSteps, Leasing, Typed
<1>9. DirectoryAtStep' /\ JournalNames' /\ EvidenceCoherent'
  BY <1>1, <1>2 DEF DirectoryAtStep, AtStep, JournalNames, EvidenceCoherent,
                    Unstaged, Present, Typed
<1> QED
  BY <1>5, <1>6, <1>7, <1>8, <1>9

\* A committed journal still names the stage beside it.
LEMMA CommitJournalIInv ==
  ASSUME IInv, NEW p \in Proc, CommitJournal(p)
  PROVE  IInv'
<1> USE DEF IInv, Goto, authority, locks, provider, counters
<1>2. evidence' \in [Label -> Evidence]
  <2>1. op[p].dir \in Label /\ op[p].reply \in CredOrNone
    BY DEF CommitJournal, Typed, Locals, OwnsDirectory, Owning, OwningSteps
  <2>2. [evidence[op[p].dir] EXCEPT !.journal = "committed"] \in Evidence
    BY <2>1, EvidenceUpdate DEF Typed, JournalState, CredOrNone
  <2> QED
    BY <2>1, <2>2 DEF CommitJournal, Typed
<1>3. Typed'
  BY <1>2 DEF CommitJournal, Typed, Step
<1>4. StoreIssued' /\ LifecycleHeld' /\ NoDirectory'
  BY DEF CommitJournal, StoreIssued, LifecycleHeld, NoDirectory, Inside,
         Typed, Evidence
<1>5. OwnsDirectory' /\ OwnsToken'
  BY DEF CommitJournal, OwnsDirectory, OwnsToken, Owning, OwningSteps,
         Leasing, Typed, Evidence
<1>6. DirectoryAtStep' /\ JournalNames' /\ EvidenceCoherent'
  BY DEF CommitJournal, OwnsDirectory, OwnsToken, DirectoryAtStep, AtStep,
         JournalNames, EvidenceCoherent, Owning, OwningSteps, Unstaged,
         Present, Typed, Evidence
<1> QED
  BY <1>3, <1>4, <1>5, <1>6

\* Unlinking the stage leaves the journal alone in its directory.
LEMMA UnlinkStageIInv ==
  ASSUME IInv, NEW p \in Proc, UnlinkStage(p)
  PROVE  IInv'
<1> USE DEF IInv, Goto, authority, locks, provider, counters
<1>2. evidence' \in [Label -> Evidence]
  <2>1. op[p].dir \in Label /\ op[p].reply \in CredOrNone
    BY DEF UnlinkStage, Typed, Locals, OwnsDirectory, Owning, OwningSteps
  <2>2. [evidence[op[p].dir] EXCEPT !.stage = None] \in Evidence
    BY <2>1, EvidenceUpdate DEF Typed, JournalState, CredOrNone
  <2> QED
    BY <2>1, <2>2 DEF UnlinkStage, Typed
<1>3. Typed'
  BY <1>2 DEF UnlinkStage, Typed, Step
<1>4. StoreIssued' /\ LifecycleHeld' /\ NoDirectory'
  BY DEF UnlinkStage, StoreIssued, LifecycleHeld, NoDirectory, Inside, Typed,
         Evidence
<1>5. OwnsDirectory' /\ OwnsToken'
  BY DEF UnlinkStage, OwnsDirectory, OwnsToken, Owning, OwningSteps, Leasing,
         Typed, Evidence
<1>6. DirectoryAtStep' /\ JournalNames' /\ EvidenceCoherent'
  BY DEF UnlinkStage, OwnsDirectory, OwnsToken, DirectoryAtStep, AtStep,
         JournalNames, EvidenceCoherent, Owning, OwningSteps, Unstaged,
         Present, Typed, Evidence
<1> QED
  BY <1>3, <1>4, <1>5, <1>6

\* Unlinking the journal follows the stage, so no stage is left unnamed.
LEMMA UnlinkJournalIInv ==
  ASSUME IInv, NEW p \in Proc, UnlinkJournal(p)
  PROVE  IInv'
<1> USE DEF IInv, Goto, authority, locks, provider, counters
<1>2. evidence' \in [Label -> Evidence]
  <2>1. op[p].dir \in Label /\ op[p].reply \in CredOrNone
    BY DEF UnlinkJournal, Typed, Locals, OwnsDirectory, Owning, OwningSteps
  <2>2. [evidence[op[p].dir] EXCEPT !.journal = "none", !.expected = None, !.digest = None] \in Evidence
    BY <2>1, EvidenceUpdate DEF Typed, JournalState, CredOrNone
  <2> QED
    BY <2>1, <2>2 DEF UnlinkJournal, Typed
<1>3. Typed'
  BY <1>2 DEF UnlinkJournal, Typed, Step
<1>4. StoreIssued' /\ LifecycleHeld' /\ NoDirectory'
  BY DEF UnlinkJournal, StoreIssued, LifecycleHeld, NoDirectory, Inside,
         Typed, Evidence
<1>5. OwnsDirectory' /\ OwnsToken'
  BY DEF UnlinkJournal, OwnsDirectory, OwnsToken, Owning, OwningSteps,
         Leasing, Typed, Evidence
<1>6. DirectoryAtStep' /\ JournalNames' /\ EvidenceCoherent'
  <2>1. ASSUME NEW q \in Proc, q # p
        PROVE  AtStep(q)'
    <3>1. CASE Owning(q)
      <4>1. Owning(p)
        BY DEF UnlinkJournal, Owning, OwningSteps
      <4>2. op[q].dir \in Label /\ op[q].dir # op[p].dir
        BY <2>1, <3>1, <4>1, DirectoriesApart DEF OwnsDirectory
      <4> QED
        BY <2>1, <4>2 DEF UnlinkJournal, NoLocals, NoEvidence,
               DirectoryAtStep, AtStep, Unstaged, Present, Typed
    <3>2. CASE ~Owning(q)
      BY <2>1, <3>2 DEF UnlinkJournal, NoLocals, NoEvidence, AtStep, Owning,
             OwningSteps, Unstaged, Typed
    <3> QED
      BY <3>1, <3>2
  <2>2. AtStep(p)'
    BY DEF UnlinkJournal, NoLocals, NoEvidence, OwnsDirectory, OwnsToken,
           DirectoryAtStep, JournalNames, EvidenceCoherent, OwningSteps,
           Leasing, Owning, Unstaged, AtStep, Present, Typed, Evidence,
           Locals, CredOrNone
  <2>3. JournalNames'
    BY DEF UnlinkJournal, NoLocals, NoEvidence, OwnsDirectory, OwnsToken,
           DirectoryAtStep, JournalNames, EvidenceCoherent, OwningSteps,
           Leasing, Owning, Unstaged, AtStep, Present, Typed, Evidence,
           Locals, CredOrNone
  <2>4. EvidenceCoherent'
    BY DEF UnlinkJournal, NoLocals, NoEvidence, OwnsDirectory, OwnsToken,
           DirectoryAtStep, JournalNames, EvidenceCoherent, OwningSteps,
           Leasing, Owning, Unstaged, AtStep, Present, Typed, Evidence,
           Locals, CredOrNone
  <2> QED
    BY <2>1, <2>2, <2>3, <2>4 DEF DirectoryAtStep
<1> QED
  BY <1>3, <1>4, <1>5, <1>6

\* Unlinking the temporary empties the directory.
LEMMA UnlinkTemporaryIInv ==
  ASSUME IInv, NEW p \in Proc, UnlinkTemporary(p)
  PROVE  IInv'
<1> USE DEF IInv, Goto, authority, locks, provider, counters
<1>2. evidence' \in [Label -> Evidence]
  <2>1. op[p].dir \in Label /\ op[p].reply \in CredOrNone
    BY DEF UnlinkTemporary, Typed, Locals, OwnsDirectory, Owning, OwningSteps
  <2>2. [evidence[op[p].dir] EXCEPT !.temp = FALSE] \in Evidence
    BY <2>1, EvidenceUpdate DEF Typed, JournalState, CredOrNone
  <2> QED
    BY <2>1, <2>2 DEF UnlinkTemporary, Typed
<1>3. Typed'
  BY <1>2 DEF UnlinkTemporary, Typed, Step
<1>4. StoreIssued' /\ LifecycleHeld' /\ NoDirectory'
  BY DEF UnlinkTemporary, StoreIssued, LifecycleHeld, NoDirectory, Inside,
         Typed, Evidence
<1>5. OwnsDirectory' /\ OwnsToken'
  BY DEF UnlinkTemporary, OwnsDirectory, OwnsToken, Owning, OwningSteps,
         Leasing, Typed, Evidence
<1>6. DirectoryAtStep' /\ JournalNames' /\ EvidenceCoherent'
  BY DEF UnlinkTemporary, OwnsDirectory, OwnsToken, DirectoryAtStep, AtStep,
         JournalNames, EvidenceCoherent, Owning, OwningSteps, Unstaged,
         Present, Typed, Evidence
<1> QED
  BY <1>3, <1>4, <1>5, <1>6

\* Recovery gives an emptied directory's lock back and goes on.
LEMMA RemoveDirectoryIInv ==
  ASSUME IInv, NEW p \in Proc, RemoveDirectory(p)
  PROVE  IInv'
<1> USE DEF IInv, Goto, authority, locks, provider, counters
<1>1. op' \in [Proc -> Locals]
  <2>1. [op[p] EXCEPT !.mode = "lease", !.dir = None] \in Locals
    BY LocalsUpdate DEF Typed
  <2> QED
    BY <2>1 DEF RemoveDirectory, Typed
<1>2. evidence' \in [Label -> Evidence]
  <2>1. op[p].dir \in Label /\ op[p].reply \in CredOrNone
    BY DEF RemoveDirectory, Typed, Locals, OwnsDirectory, Owning, OwningSteps
  <2>2. [evidence[op[p].dir] EXCEPT !.dir = FALSE] \in Evidence
    BY <2>1, EvidenceUpdate DEF Typed, JournalState, CredOrNone
  <2> QED
    BY <2>1, <2>2 DEF RemoveDirectory, Typed
<1>3. Typed'
  BY <1>1, <1>2 DEF RemoveDirectory, Typed, Step, Holder
<1>4. StoreIssued' /\ LifecycleHeld' /\ NoDirectory'
  BY DEF RemoveDirectory, StoreIssued, LifecycleHeld, NoDirectory, Inside,
         Typed, Evidence, Locals
<1>5. OwnsDirectory' /\ OwnsToken'
  BY DEF RemoveDirectory, NoLocals, NoEvidence, StoreIssued, OwnsDirectory,
         OwnsToken, OwningSteps, Leasing, Owning, Unstaged, AtStep, Present,
         Typed, Evidence, JournalState, Held, CredOrNone, Holder, Step,
         Locals, Task
<1>6. DirectoryAtStep' /\ JournalNames' /\ EvidenceCoherent'
  <2>1. ASSUME NEW q \in Proc, q # p
        PROVE  AtStep(q)'
    <3>1. CASE Owning(q)
      <4>1. Owning(p)
        BY DEF RemoveDirectory, Owning, OwningSteps
      <4>2. op[q].dir \in Label /\ op[q].dir # op[p].dir
        BY <2>1, <3>1, <4>1, DirectoriesApart DEF OwnsDirectory
      <4> QED
        BY <2>1, <4>2 DEF RemoveDirectory, NoLocals, NoEvidence,
               DirectoryAtStep, AtStep, Unstaged, Present, Typed
    <3>2. CASE ~Owning(q)
      BY <2>1, <3>2 DEF RemoveDirectory, NoLocals, NoEvidence, AtStep, Owning,
             OwningSteps, Unstaged, Typed
    <3> QED
      BY <3>1, <3>2
  <2>2. AtStep(p)'
    BY DEF RemoveDirectory, NoLocals, NoEvidence, OwnsDirectory, OwnsToken,
           DirectoryAtStep, JournalNames, EvidenceCoherent, OwningSteps,
           Leasing, Owning, Unstaged, AtStep, Present, Typed, Evidence,
           Locals, CredOrNone
  <2>3. JournalNames'
    BY DEF RemoveDirectory, NoLocals, NoEvidence, OwnsDirectory, OwnsToken,
           DirectoryAtStep, JournalNames, EvidenceCoherent, OwningSteps,
           Leasing, Owning, Unstaged, AtStep, Present, Typed, Evidence,
           Locals, CredOrNone
  <2>4. EvidenceCoherent'
    BY DEF RemoveDirectory, NoLocals, NoEvidence, OwnsDirectory, OwnsToken,
           DirectoryAtStep, JournalNames, EvidenceCoherent, OwningSteps,
           Leasing, Owning, Unstaged, AtStep, Present, Typed, Evidence,
           Locals, CredOrNone
  <2> QED
    BY <2>1, <2>2, <2>3, <2>4 DEF DirectoryAtStep
<1> QED
  BY <1>3, <1>4, <1>5, <1>6

\* A lease ends when its directory is empty.
LEMMA FinishLeaseIInv ==
  ASSUME IInv, NEW p \in Proc, FinishLease(p)
  PROVE  IInv'
<1> DEFINE e == [evidence[op[p].dir] EXCEPT !.dir = FALSE]
<1> USE DEF FinishLease, authority, provider, counters
<1>1. Owning(p) /\ op[p].dir \in Label
  BY DEF Owning, OwningSteps, IInv, OwnsDirectory
<1>2. evidence[op[p].dir] \in Evidence /\ ~Present(evidence[op[p].dir])
  BY <1>1 DEF IInv, Typed
<1>3. e \in Evidence /\ e.journal = "none" /\ e.stage = None /\ e.digest = None
      /\ ~Present(e)
  BY <1>1, <1>2, EvidenceUpdate DEF Evidence, Present, IInv, JournalNames
<1>4. StoreIssued'
  BY DEF IInv, StoreIssued
<1> HIDE DEF e
<1>5. evidence' = [evidence EXCEPT ![op[p].dir] = e]
  BY DEF e
<1> QED
  BY <1>1, <1>3, <1>4, <1>5, EndWritingIInv DEF IInv, Typed

\* FullReset keeps the invariant: nobody else is inside the lifecycle.
LEMMA FullResetIInv ==
  ASSUME IInv, NEW p \in Proc, FullReset(p)
  PROVE  IInv'
<1> USE DEF FullReset, provider, counters
<1>1. \A q \in Proc \ {p} : ~Inside(q) /\ pc'[q] = pc[q] /\ op'[q] = op[q]
  <2>1. exclusive = p /\ shared = {}
    BY DEF IInv, Typed, LifecycleHeld, Inside, Holder
  <2> QED
    BY <2>1, EndLocks DEF IInv, LifecycleHeld
<1>2. Typed'
  <2>1. NoEvidence \in Evidence
    BY DEF Evidence, NoEvidence, JournalState, CredOrNone
  <2>2. /\ evidence' \in [Label -> Evidence] /\ store' \in [Label -> Held]
        /\ health' \in [Label -> {"ok", "failed"}]
    BY <2>1 DEF Held
  <2> QED
    BY <2>2, EndLocks DEF IInv, Typed
<1>3. StoreIssued' /\ NoDirectory' /\ JournalNames' /\ EvidenceCoherent'
  BY DEF StoreIssued, NoDirectory, JournalNames, EvidenceCoherent, Present, NoEvidence
<1>4. DirectoryAtStep'
  BY <1>1, EndLocks DEF DirectoryAtStep, AtStep, Unstaged, Inside
<1> QED
  BY <1>2, <1>3, <1>4, EndLocks DEF IInv

\* A death inside a write leaves at most one temporary more.
LEMMA DieWritingIInv ==
  ASSUME IInv, NEW p \in Proc, NEW leftover \in BOOLEAN, DieWriting(p, leftover)
  PROVE  IInv'
<1> DEFINE d == evidence[op[p].dir]
           e == [d EXCEPT !.dir = TRUE, !.temp = d.temp \/ leftover]
<1> USE DEF authority, provider
<1>1. Owning(p) /\ op[p].dir \in Label
  BY DEF DieWriting, Owning, OwningSteps, IInv, OwnsDirectory
<1>2. d \in Evidence /\ d.temp \in BOOLEAN
  BY <1>1 DEF IInv, Typed, Evidence
<1>3. e \in Evidence
  BY <1>2, EvidenceUpdate
<1>4. /\ e.dir /\ e.journal = d.journal /\ e.expected = d.expected
      /\ e.stage = d.stage /\ e.digest = d.digest
  BY <1>2 DEF Evidence
<1>5. /\ d.journal # "none" => d.expected \in issued
      /\ d.stage # None => /\ d.journal # "none" /\ d.stage \in issued
                           /\ origin[d.stage] = d.expected
                           /\ d.journal # "intent" => d.digest = d.stage
      /\ d.journal \in {"none", "intent"} => d.digest = None
  BY <1>1 DEF IInv, JournalNames, EvidenceCoherent
<1>6. /\ StoreIssued' /\ edits' \in 0..MaxEdits /\ faults' \in 0..MaxFaults
      /\ store' \in [Label -> Held] /\ health' \in [Label -> {"ok", "failed"}]
  BY DEF IInv, StoreIssued, Typed, DieWriting, Fault
<1>7. evidence' = [evidence EXCEPT ![op[p].dir] = e] /\ End(p) /\ UNCHANGED provider
  BY DEF DieWriting
<1> HIDE DEF e, d
<1> QED
  BY <1>1, <1>3, <1>4, <1>5, <1>6, <1>7, EndWritingIInv

\* An uncertain commit leaves its journal uncertain and its stage named.
LEMMA CommitUncertainIInv ==
  ASSUME IInv, NEW p \in Proc, CommitUncertain(p)
  PROVE  IInv'
<1> DEFINE d == evidence[op[p].dir]
           e == [d EXCEPT !.journal = "uncertain"]
<1> USE DEF authority, provider
<1>1. Owning(p) /\ op[p].dir \in Label
  BY DEF CommitUncertain, Owning, OwningSteps, IInv, OwnsDirectory
<1>2. d \in Evidence /\ d.stage # None
  BY <1>1 DEF IInv, Typed, DirectoryAtStep, AtStep, CommitUncertain
<1>3. /\ d.dir /\ d.stage \in issued /\ d.journal # "none" /\ d.expected \in issued
      /\ origin[d.stage] = d.expected /\ (d.journal # "intent" => d.digest = d.stage)
      /\ d.journal \in {"none", "intent"} => d.digest = None
  BY <1>1, <1>2 DEF IInv, JournalNames, EvidenceCoherent, Present
<1>4. /\ edits' \in 0..MaxEdits /\ faults' \in 0..MaxFaults
      /\ store' \in [Label -> Held] /\ health' \in [Label -> {"ok", "failed"}]
      /\ StoreIssued'
  BY <1>1, <1>3 DEF IInv, StoreIssued, Typed, CommitUncertain, Fault, Installed, Held
<1>5. End(p) /\ UNCHANGED provider
  BY DEF CommitUncertain
<1>6. CASE op[p].mode = "lease"
  <2>1. e \in Evidence
    BY <1>2, EvidenceUpdate DEF JournalState
  <2>2. /\ e.dir = d.dir /\ e.journal = "uncertain" /\ e.expected = d.expected
        /\ e.stage = d.stage /\ e.digest = d.digest
    BY <1>2 DEF Evidence
  <2>3. d.digest = d.stage
    <3>1. d.journal = "complete"
      BY <1>6 DEF IInv, DirectoryAtStep, AtStep, CommitUncertain
    <3> QED
      BY <3>1, <1>3
  <2>4. evidence' = [evidence EXCEPT ![op[p].dir] = e]
    BY <1>6 DEF CommitUncertain
  <2> HIDE DEF e, d
  <2> QED
    BY <1>1, <1>3, <1>4, <1>5, <2>1, <2>2, <2>3, <2>4, EndWritingIInv
<1>7. CASE op[p].mode # "lease"
  <2>1. evidence' = [evidence EXCEPT ![op[p].dir] = d]
    BY <1>1, <1>7 DEF CommitUncertain, IInv, Typed
  <2> HIDE DEF d
  <2> QED
    BY <1>1, <1>2, <1>3, <1>4, <1>5, <2>1, EndWritingIInv
<1> QED
  BY <1>6, <1>7

\* The owner's commands keep the invariant: they write the authority alone.
LEMMA OwnerIInv ==
  ASSUME IInv, Owner
  PROVE  IInv'
<1> USE DEF IInv, Owner, Login, UseSetupToken, Remove, Rename, Edit, Installed
<1>1. /\ UNCHANGED <<evidence, locks, pc, op, origin, refused, faults>>
      /\ edits < MaxEdits /\ edits' = edits + 1
      /\ issued \subseteq issued' /\ issued' \subseteq Cred
  BY DEF Typed
<1>2. store' \in [Label -> Held] /\ health' \in [Label -> {"ok", "failed"}]
  BY DEF Typed, Held
<1>3. StoreIssued'
  BY DEF StoreIssued, Typed
<1> HIDE DEF Owner, Login, UseSetupToken, Remove, Rename, Edit, Installed
<1>4. Typed'
  BY <1>1, <1>2 DEF Typed, locks
<1>5. LifecycleHeld' /\ NoDirectory' /\ OwnsDirectory'
  BY <1>1 DEF LifecycleHeld, Inside, NoDirectory, OwnsDirectory, Owning, locks
<1>6. OwnsToken'
  BY <1>1 DEF OwnsToken, Leasing, Owning, locks
<1>7. DirectoryAtStep' /\ JournalNames' /\ EvidenceCoherent'
  BY <1>1 DEF DirectoryAtStep, AtStep, Unstaged, JournalNames, EvidenceCoherent,
              Present
<1> QED
  BY <1>3, <1>4, <1>5, <1>6, <1>7

\* Every step of the specification keeps the invariant.
LEMMA NextIInv == IInv /\ [Next]_vars => IInv'
<1> SUFFICES ASSUME IInv, [Next]_vars PROVE IInv'
  OBVIOUS
<1>1. CASE UNCHANGED vars
  BY <1>1 DEF vars, IInv, Typed, StoreIssued, LifecycleHeld, OwnsDirectory, OwnsToken,
              DirectoryAtStep, AtStep, JournalNames, EvidenceCoherent, NoDirectory,
              Owning, Leasing, Unstaged, Inside, Present
<1>2. CASE Owner
  BY <1>2, OwnerIInv
<1>3. ASSUME NEW p \in Proc, Start(p)
      PROVE  IInv'
  BY <1>3, OpenStoreIInv, BeginQuiesceIInv, BeginRefreshIInv DEF Start
<1>4. ASSUME NEW p \in Proc, Failure(p)
      PROVE  IInv'
  BY <1>4, EndingsIInv, CommitUncertainIInv, DieWritingIInv DEF Failure
<1>5. ASSUME NEW p \in Proc, Advance(p)
      PROVE  IInv'
  <2>1. CASE Recovery(p)
    BY <2>1, ListDirectoriesIInv, RecoverSkipIInv, RecoverTakeIInv, EndingsIInv,
       RefreshRecoveredIInv, QuiesceRecoveredIInv DEF Recovery
  <2>2. CASE Stabilisation(p)
    BY <2>2, StabiliseIInv, EndingsIInv, LockTokenIInv, LockEvidenceIInv,
       TargetChangedIInv, WriteIntentIInv DEF Stabilisation
  <2>3. CASE Exchange(p)
    BY <2>3, SkipExchangeIInv, StartExchangeIInv, ExchangeFailsIInv,
       RecordFailureIInv, ProviderRepliesIInv DEF Exchange
  <2>4. CASE Commit(p)
    BY <2>4, WriteStageIInv, CompleteJournalIInv, MergeReadIInv, EndingsIInv,
       MergeCommitIInv, CommitJournalIInv DEF Commit
  <2>5. CASE Cleanup(p)
    BY <2>5, UnlinkStageIInv, UnlinkJournalIInv, UnlinkTemporaryIInv,
       RemoveDirectoryIInv, FinishLeaseIInv DEF Cleanup
  <2>6. CASE Join(p) \/ Exclude(p) \/ LockTimeout(p) \/ FullReset(p) \/ Migrate(p)
    BY <2>6, JoinIInv, ExcludeIInv, EndingsIInv, FullResetIInv
  <2> QED
    BY <1>5, <2>1, <2>2, <2>3, <2>4, <2>5, <2>6 DEF Advance
<1> QED
  BY <1>1, <1>2, <1>3, <1>4, <1>5 DEF Next

-----------------------------------------------------------------------------
(* The invariant of the specification. *)

\* In every reachable state each process owns what its step requires.
THEOREM Invariance == Spec => []IInv
  BY InitIInv, NextIInv, PTL DEF Spec

-----------------------------------------------------------------------------
(* What follows from the invariant: the safety properties the runs check,  *)
(* and the refinement of CredentialAuthority.                              *)

USE RefreshTokenAssumption, ConstantsAssumption, BoundsAssumption

-----------------------------------------------------------------------------
(* State predicates the invariant implies. *)

\* The invariant gives every variable its type but the history of settled stages.
LEMMA IInvTyped == IInv => Typed
  BY DEF IInv

\* A step keeps the type of the history of settled stages.
LEMMA SettledType ==
  ASSUME settled \in [Label -> BOOLEAN], [Next]_vars
  PROVE  settled' \in [Label -> BOOLEAN]
<1>1. CASE UNCHANGED vars
  BY <1>1 DEF vars
<1>2. CASE Settle
  BY <1>2, Zenon DEF Settle
<1> QED
  BY <1>1, <1>2 DEF Next

\* Every variable keeps its type (all of credentials/refresh.py and its
\* transactions).
THEOREM TypeCorrect == Spec => []TypeOK
<1> DEFINE Types == settled \in [Label -> BOOLEAN]
<1>1. Init => Types
  BY DEF Init
<1>2. Types /\ [Next]_vars => Types'
  BY SettledType
<1>3. IInv /\ Types => TypeOK
  BY IInvTyped DEF TypeOK, Typed
<1> QED
  BY <1>1, <1>2, <1>3, Invariance, PTL DEF Spec

\* Two processes never exchange one refresh token at the same time: the lock
\* they would need is one file, named by the token (_operation_basename).
THEOREM ExclusiveExchangeHolds == Spec => []ExclusiveExchange
<1>1. IInv => ExclusiveExchange
  <2> SUFFICES ASSUME IInv, NEW p \in Proc, NEW q \in Proc, p # q,
                      pc[p] = "exchanging", pc[q] = "exchanging"
               PROVE  RefreshToken[op[p].expected] # RefreshToken[op[q].expected]
    BY DEF ExclusiveExchange
  <2>1. Leasing(p) /\ Leasing(q)
    BY DEF IInv, DirectoryAtStep, AtStep, Leasing, Owning, OwningSteps
  <2> QED
    BY <2>1, TokensApart DEF IInv
<1> QED
  BY <1>1, Invariance, PTL

\* A lifecycle mutation runs alone and finds no evidence (hold_quiescent).
THEOREM QuiescentMutationHolds == Spec => []QuiescentMutation
<1>1. IInv => QuiescentMutation
  <2> SUFFICES ASSUME IInv, NEW p \in Proc, pc[p] = "mutating"
               PROVE  /\ \A q \in Proc \ {p} : pc[q] \in {"idle", "join", "exclude"}
                      /\ \A l \in Label : ~evidence[l].dir /\ evidenceLock[l] = None
                      /\ \A t \in Token : tokenLock[t] = None
    BY DEF QuiescentMutation
  <2>1. exclusive = p /\ shared = {}
    BY DEF IInv, Typed, LifecycleHeld, Inside, Holder
  <2>2. \A q \in Proc \ {p} : pc[q] \in {"idle", "join", "exclude"}
    BY <2>1 DEF IInv, LifecycleHeld, Inside
  <2>3. \A q \in Proc : ~Owning(q) /\ ~Leasing(q)
    BY <2>2 DEF Owning, OwningSteps, Leasing
  <2>4. \A l \in Label : evidenceLock[l] = None
    BY <2>3 DEF IInv, OwnsDirectory, Typed, Holder
  <2>5. \A t \in Token : tokenLock[t] = None
    BY <2>3 DEF IInv, OwnsToken, Typed, Holder
  <2> QED
    BY <2>2, <2>4, <2>5 DEF IInv, NoDirectory
<1> QED
  BY <1>1, Invariance, PTL

\* Whatever crashed, a stage replaces the credential its journal names
\* (commit_success, _recover_directory).
THEOREM EvidenceCoherentHolds == Spec => []EvidenceCoherent
<1>1. IInv => EvidenceCoherent
  BY DEF IInv
<1> QED
  BY <1>1, Invariance, PTL

-----------------------------------------------------------------------------
(* What a process writes. *)

\* The commit of a stage over the credential its journal names.
Installs(p) ==
  /\ pc[p] = "commit"
  /\ store[op[p].dir] = evidence[op[p].dir].expected
  /\ Installed(op[p].dir, evidence[op[p].dir].stage)
  /\ UNCHANGED provider

\* A process writes the authority in three ways only, and what the provider knows
\* in one (merge_credential_refresh, persist_failure_if_current, full_reset).
LEMMA ProcessWrites ==
  ASSUME NEW p \in Proc, Start(p) \/ Advance(p) \/ Failure(p)
  PROVE  \/ UNCHANGED <<store, health, issued, origin>>
         \/ Installs(p) \/ FullReset(p) \/ RecordFailure(p)
         \/ \E c \in Cred : ProviderReplies(p, c)
<1> USE DEF authority, provider
<1>1. CASE Start(p)
  BY <1>1 DEF Start, OpenStore, BeginQuiesce, BeginRefresh
<1>2. CASE Failure(p)
  BY <1>2 DEF Failure, Abort, CommitUncertain, DieWriting, Installs
<1>3. CASE Recovery(p)
  BY <1>3 DEF Recovery, ListDirectories, RecoverSkip, RecoverTake, RecoverBlocked,
              RefreshRecovered, QuiesceRecovered, RecoveryEnds
<1>4. CASE Stabilisation(p)
  BY <1>4 DEF Stabilisation, Stabilise, StabiliseFails, LockToken, LockEvidence,
              TargetChanged, EvidenceInTheWay, WriteIntent
<1>5. CASE Exchange(p)
  BY <1>5 DEF Exchange, SkipExchange, StartExchange, ExchangeFails
<1>6. CASE Commit(p)
  BY <1>6 DEF Commit, WriteStage, CompleteJournal, MergeRead, MergeRaises,
              MergeCommit, CommitJournal, Installs
<1>7. CASE Cleanup(p)
  BY <1>7 DEF Cleanup, UnlinkStage, UnlinkJournal, UnlinkTemporary, RemoveDirectory,
              FinishLease
<1>8. CASE Join(p) \/ Exclude(p) \/ LockTimeout(p) \/ Migrate(p)
  BY <1>8 DEF Join, Exclude, LockTimeout, Migrate
<1> QED
  BY <1>1, <1>2, <1>3, <1>4, <1>5, <1>6, <1>7, <1>8 DEF Advance

-----------------------------------------------------------------------------
(* Failure marks. *)

\* A process that is about to mark a failure saw its own exchange fail.
RefusalKnown ==
  \A p \in Proc : pc[p] = "failing" => op[p].expected \in refused

\* What a process is about to mark was refused in this step or before it.
LEMMA RefusalKept ==
  ASSUME IInv, RefusalKnown, NEW p \in Proc, Start(p) \/ Advance(p) \/ Failure(p)
  PROVE  RefusalKnown' /\ refused \subseteq refused'
<1> USE DEF IInv, Typed, RefusalKnown, Goto, End, locks, provider
<1>1. CASE Start(p)
  BY <1>1 DEF Start, OpenStore, BeginQuiesce, BeginRefresh
<1>2. CASE Failure(p)
  BY <1>2 DEF Failure, Abort, CommitUncertain, DieWriting
<1>3. CASE Recovery(p)
  BY <1>3 DEF Recovery, ListDirectories, RecoverSkip, RecoverTake, RecoverBlocked,
              Recovered, RefreshRecovered, QuiesceRecovered, RecoveryEnds
<1>4. CASE Stabilisation(p)
  BY <1>4 DEF Stabilisation, Stabilise, StabiliseFails, LockToken, LockEvidence,
              TargetChanged, EvidenceInTheWay, WriteIntent
<1>5. CASE Exchange(p)
  BY <1>5 DEF Exchange, SkipExchange, StartExchange, ExchangeFails, RecordFailure,
              ProviderReplies
<1>6. CASE Commit(p)
  BY <1>6 DEF Commit, WriteStage, CompleteJournal, MergeRead, MergeRaises,
              MergeCommit, CommitJournal, AfterMerge
<1>7. CASE Cleanup(p)
  BY <1>7 DEF Cleanup, UnlinkStage, UnlinkJournal, UnlinkTemporary, RemoveDirectory,
              FinishLease
<1>8. CASE Join(p) \/ Exclude(p) \/ LockTimeout(p) \/ FullReset(p) \/ Migrate(p)
  BY <1>8 DEF Join, Exclude, LockTimeout, FullReset, Migrate
<1> QED
  BY <1>1, <1>2, <1>3, <1>4, <1>5, <1>6, <1>7, <1>8 DEF Advance

\* What FailureOnRefused says of one step.
MarksJustified ==
  \A l \in Label : health'[l] = "failed" =>
    \/ store'[l] \in refused' \cup Marked
    \/ health[l] = "failed" /\ store'[l] \notin issued

\* Accounts that keep credential and mark, or have no mark, justify themselves.
LEMMA MarksKept ==
  ASSUME NEW l \in Label,
         health'[l] = "failed" => health[l] = "failed" /\ store'[l] = store[l]
  PROVE  health'[l] = "failed" => store'[l] \in refused' \cup Marked
BY DEF Marked

\* The owner's commands mark nothing: a login may keep the mark it found, and a
\* rename takes it along.
LEMMA OwnerMarks ==
  ASSUME IInv, Owner
  PROVE  MarksJustified
<1> USE DEF IInv, Typed
<1>1. ASSUME NEW l \in Label, NEW c \in Cred, Login(l, c)
      PROVE  MarksJustified
  <2>1. \A m \in Label : m # l => health'[m] = health[m] /\ store'[m] = store[m]
    BY <1>1 DEF Login
  <2>2. health'[l] = "failed" => health[l] = "failed" /\ store'[l] \notin issued
    BY <1>1 DEF Login
  <2> QED
    BY <2>1, <2>2 DEF MarksJustified, Marked
<1>2. ASSUME NEW l \in Label, UseSetupToken(l) \/ Remove(l)
      PROVE  MarksJustified
  <2>1. \A m \in Label : health'[m] = "failed" =>
          health[m] = "failed" /\ store'[m] = store[m]
    BY <1>2 DEF UseSetupToken, Remove, Installed
  <2> QED
    BY <2>1, MarksKept DEF MarksJustified
<1>3. ASSUME NEW l \in Label, NEW m \in Label, Rename(l, m)
      PROVE  MarksJustified
  <2>1. \A k \in Label : health'[k] = "failed" =>
          \E j \in Label : health[j] = "failed" /\ store'[k] = store[j]
    BY <1>3 DEF Rename
  <2> QED
    BY <2>1 DEF MarksJustified, Marked
<1> QED
  BY <1>1, <1>2, <1>3 DEF Owner

\* No process marks a credential whose own refresh did not fail.
LEMMA FailureMarks ==
  ASSUME IInv, RefusalKnown, [Next]_vars
  PROVE  RefusalKnown' /\ [MarksJustified]_vars
<1>1. CASE UNCHANGED vars
  BY <1>1 DEF vars, RefusalKnown
<1>2. CASE Owner
  <2>1. UNCHANGED <<pc, op, refused>>
    BY <1>2 DEF Owner, Login, UseSetupToken, Remove, Rename, Edit
  <2> QED
    BY <1>2, <2>1, OwnerMarks DEF RefusalKnown
<1>3. ASSUME NEW p \in Proc, Start(p) \/ Advance(p) \/ Failure(p)
      PROVE  RefusalKnown' /\ MarksJustified
  <2>1. RefusalKnown' /\ refused \subseteq refused'
    BY <1>3, RefusalKept
  <2>2. CASE UNCHANGED <<store, health>>
    BY <2>1, <2>2, MarksKept DEF MarksJustified
  <2>3. CASE Installs(p)
    <3>1. \A l \in Label : health'[l] = "failed" =>
            health[l] = "failed" /\ store'[l] = store[l]
      BY <2>3 DEF Installs, Installed, IInv, Typed
    <3> QED
      BY <2>1, <3>1, MarksKept DEF MarksJustified
  <2>4. CASE FullReset(p)
    BY <2>1, <2>4 DEF FullReset, MarksJustified
  <2>5. CASE RecordFailure(p)
    <3>1. op[p].expected \in refused
      BY <2>5 DEF RecordFailure, RefusalKnown
    <3>2. /\ UNCHANGED store
          /\ \A l \in Label : health'[l] = "failed" =>
               health[l] = "failed" \/ store[l] \in refused
      BY <2>5, <3>1 DEF RecordFailure, Stable, IInv, Typed
    <3> QED
      BY <2>1, <3>2 DEF MarksJustified, Marked
  <2>6. ASSUME NEW c \in Cred, ProviderReplies(p, c)
        PROVE  UNCHANGED <<store, health>>
    BY <2>6 DEF ProviderReplies, authority
  <2> QED
    BY <1>3, <2>1, <2>2, <2>3, <2>4, <2>5, <2>6, ProcessWrites
<1> QED
  BY <1>1, <1>2, <1>3 DEF Next

\* Only its own failed refresh marks a credential, however late the failure is
\* recorded and whatever logins, renames and rotations came in between; a credential
\* put over a marked account, or renamed with it, is the one way a mark is passed on
\* (persist_failure_if_current, merge_credential_refresh).
THEOREM FailureOnRefusedHolds == Spec => FailureOnRefused
<1>1. Init => RefusalKnown
  BY DEF Init, RefusalKnown
<1> QED
  BY <1>1, FailureMarks, Invariance, PTL DEF Spec, FailureOnRefused, MarksJustified

-----------------------------------------------------------------------------
(* The authority. *)

\* Accounts start with existing credentials that nothing was rotated into.
LEMMA AuthorityInit == Init => Authority!Init
  BY DEF Init, Authority!Init, Held

\* Every step rotates a credential into the answer to it, is a command of the
\* owner, or does not touch the authority.
LEMMA AuthorityStep ==
  ASSUME IInv, [Next]_vars
  PROVE  [Authority!Next]_(Authority!vars)
<1> USE DEF Authority!vars
<1>1. CASE UNCHANGED vars
  BY <1>1 DEF vars
<1>2. CASE Owner
  <2>1. ASSUME NEW l \in Label, NEW c \in Cred, Login(l, c)
        PROVE  Authority!Login(l, c)
    BY <2>1 DEF Login, Edit, Authority!Login
  <2>2. ASSUME NEW l \in Label, UseSetupToken(l) \/ Remove(l)
        PROVE  \E v \in {Setup, Absent} : Authority!Replace(l, v)
    BY <2>2 DEF UseSetupToken, Remove, Edit, Installed, Authority!Replace
  <2>3. ASSUME NEW l \in Label, NEW m \in Label, Rename(l, m)
        PROVE  Authority!Rename(l, m)
    BY <2>3 DEF Rename, Edit, Authority!Rename
  <2> QED
    BY <1>2, <2>1, <2>2, <2>3 DEF Owner, Authority!Next
<1>3. ASSUME NEW p \in Proc, Start(p) \/ Advance(p) \/ Failure(p)
      PROVE  [Authority!Next]_(Authority!vars)
  <2>1. CASE Installs(p)
    <3> DEFINE l == op[p].dir
               c == evidence[l].stage
    <3>1. l \in Label /\ c \in Cred
      BY <2>1 DEF Installs, IInv, Typed, OwnsDirectory, Owning, OwningSteps,
                  DirectoryAtStep, AtStep, Evidence, CredOrNone
    <3>2. origin[c] = store[l] /\ store[l] \in issued
      BY <2>1, <3>1 DEF Installs, IInv, EvidenceCoherent, JournalNames,
                        DirectoryAtStep, AtStep
    <3>3. Authority!Rotate(l, c)
      BY <2>1, <3>2 DEF Installs, Installed, provider, Authority!Rotate
    <3> QED
      BY <3>1, <3>3 DEF Authority!Next
  <2>2. CASE FullReset(p)
    BY <2>2 DEF FullReset, provider, Authority!Reset, Authority!Next
  <2>3. CASE RecordFailure(p)
    BY <2>3 DEF RecordFailure, provider
  <2>4. ASSUME NEW c \in Cred, ProviderReplies(p, c)
        PROVE  Authority!Next
    <3>1. op[p].expected \in issued /\ op[p].expected \in Cred
      BY <2>4 DEF ProviderReplies, IInv, Typed, OwnsToken, Leasing, Owning,
                  OwningSteps, DirectoryAtStep, AtStep
    <3>2. Authority!Answer(op[p].expected, c)
      BY <2>4, <3>1 DEF ProviderReplies, authority, Authority!Answer
    <3> QED
      BY <3>1, <3>2 DEF Authority!Next
  <2> QED
    BY <1>3, <2>1, <2>2, <2>3, <2>4, ProcessWrites
<1> QED
  BY <1>1, <1>2, <1>3 DEF Next

\* The refresh protocol implements CredentialAuthority: with any number of
\* processes, crashing anywhere, only the exact credential an exchange was made
\* for is replaced by its answer, and nothing newer, removed or renamed is
\* overwritten or brought back.
THEOREM ImplementsAuthority == Spec => RotatesOnlyItsSource
  BY AuthorityInit, AuthorityStep, Invariance, PTL
     DEF Spec, RotatesOnlyItsSource, Authority!Spec

-----------------------------------------------------------------------------
(* Stages. *)

\* A stage whose label left the credential it replaces is settled, and so is one
\* whose process goes on past the merge.  A rotation changes the credential.
Settlement ==
  /\ \A l \in Label :
       evidence[l].stage # None /\ store[l] # evidence[l].expected => settled[l]
  /\ \A p \in Proc :
       pc[p] \in {"journal", "clean"} /\ evidence[op[p].dir].stage # None
       => settled[op[p].dir]
  /\ \A c \in Cred : origin[c] # c

\* Only three steps change a stage.
LEMMA StageWrites ==
  ASSUME IInv, NEW p \in Proc, Start(p) \/ Advance(p) \/ Failure(p)
  PROVE  \/ \A l \in Label : evidence'[l].stage = evidence[l].stage
         \/ WriteStage(p) \/ UnlinkStage(p) \/ FullReset(p)
<1> USE DEF IInv, Typed, Evidence
<1>1. CASE Start(p)
  BY <1>1 DEF Start, OpenStore, BeginQuiesce, BeginRefresh
<1>2. CASE Failure(p)
  <2>1. CASE Abort(p)
    BY <2>1 DEF Abort
  <2>2. ASSUME NEW leftover \in BOOLEAN, DieWriting(p, leftover)
        PROVE  \A l \in Label : evidence'[l].stage = evidence[l].stage
    BY <2>2 DEF DieWriting
  <2>3. CASE CommitUncertain(p)
    BY <2>3 DEF CommitUncertain
  <2> QED
    BY <1>2, <2>1, <2>2, <2>3 DEF Failure
<1>3. CASE Recovery(p)
  BY <1>3 DEF Recovery, ListDirectories, RecoverSkip, RecoverTake, RecoverBlocked,
              RefreshRecovered, QuiesceRecovered, RecoveryEnds
<1>4. CASE Stabilisation(p)
  BY <1>4 DEF Stabilisation, Stabilise, StabiliseFails, LockToken, LockEvidence,
              TargetChanged, EvidenceInTheWay, WriteIntent
<1>5. CASE Exchange(p)
  BY <1>5 DEF Exchange, SkipExchange, StartExchange, ExchangeFails, RecordFailure,
              ProviderReplies
<1>6. CASE Commit(p)
  BY <1>6 DEF Commit, CompleteJournal, MergeRead, MergeRaises, MergeCommit,
              CommitJournal
<1>7. CASE Cleanup(p)
  BY <1>7 DEF Cleanup, UnlinkJournal, UnlinkTemporary, RemoveDirectory, FinishLease
<1>8. CASE Join(p) \/ Exclude(p) \/ LockTimeout(p) \/ Migrate(p)
  BY <1>8 DEF Join, Exclude, LockTimeout, Migrate
<1> QED
  BY <1>1, <1>2, <1>3, <1>4, <1>5, <1>6, <1>7, <1>8 DEF Advance

\* A process gets past the merge only with a stage its label has settled, or with
\* none.
LEMMA PastMerge ==
  ASSUME IInv, Settlement, NEW p \in Proc, Start(p) \/ Advance(p) \/ Failure(p),
         pc'[p] \in {"journal", "clean"}
  PROVE  LET d == op'[p].dir IN
         \/ evidence'[d].stage = None
         \/ /\ evidence'[d].stage = evidence[d].stage
            /\ settled[d] \/ store'[d] # evidence'[d].expected
<1> USE DEF IInv, Typed, Goto, End, authority, locks
<1>1. CASE Start(p) \/ Failure(p)
  BY <1>1 DEF Start, OpenStore, BeginQuiesce, BeginRefresh, Failure, Abort,
              CommitUncertain, DieWriting
<1>2. CASE Recovery(p)
  <2>1. ASSUME NEW l \in Label, RecoverTake(p, l)
        PROVE  evidence'[op'[p].dir].stage = None
    <3>1. Discardable(evidence[l]) /\ evidence' = evidence
      BY <2>1 DEF RecoverTake
    <3>2. op'[p].dir = l
      BY <2>1 DEF RecoverTake, Locals
    <3> QED
      BY <3>1, <3>2 DEF Discardable
  <2>2. pc[p] \notin {"journal", "clean"}
    BY <1>2 DEF Recovery, ListDirectories, RecoverSkip, RecoverTake, RecoverBlocked,
                Recovered, RefreshRecovered, QuiesceRecovered, RecoveryEnds
  <2>3. \E l \in Label : RecoverTake(p, l)
    BY <1>2, <2>2 DEF Recovery, ListDirectories, RecoverSkip, RecoverBlocked,
                      RefreshRecovered, QuiesceRecovered, RecoveryEnds
  <2> QED
    BY <2>1, <2>3
<1>3. CASE Stabilisation(p)
  BY <1>3 DEF Stabilisation, Stabilise, StabiliseFails, LockToken, LockEvidence,
              TargetChanged, EvidenceInTheWay, WriteIntent
<1>4. CASE Exchange(p)
  BY <1>4 DEF Exchange, SkipExchange, StartExchange, ExchangeFails, RecordFailure,
              ProviderReplies, DirectoryAtStep, AtStep, Unstaged
<1>5. CASE Commit(p)
  <2>1. CASE WriteStage(p) \/ CompleteJournal(p) \/ MergeRaises(p)
    BY <2>1 DEF WriteStage, CompleteJournal, MergeRaises
  <2>2. CASE CommitJournal(p)
    BY <2>2 DEF CommitJournal, Settlement, OwnsDirectory, Owning, OwningSteps, Evidence
  <2>3. CASE MergeRead(p) \/ MergeCommit(p)
    <3> DEFINE d == op[p].dir
    <3>1. /\ d \in Label /\ evidence[d].stage # None
          /\ evidence[d].stage # evidence[d].expected
      <4>1. d \in Label /\ evidence[d].stage # None
        BY <2>3 DEF MergeRead, MergeCommit, OwnsDirectory, Owning, OwningSteps,
                    DirectoryAtStep, AtStep
      <4> QED
        BY <4>1 DEF Settlement, JournalNames, EvidenceCoherent
    <3>2. UNCHANGED <<evidence, op>>
      BY <2>3 DEF MergeRead, MergeCommit
    <3>3. CASE MergeRead(p)
      <4>1. store[d] # evidence[d].expected
        BY <3>1, <3>3 DEF MergeRead
      <4> QED
        BY <3>1, <3>2, <4>1 DEF Settlement
    <3>4. CASE MergeCommit(p)
      <4>1. CASE store[d] = evidence[d].expected
        BY <3>1, <3>2, <3>4, <4>1 DEF MergeCommit, Installed
      <4>2. CASE store[d] # evidence[d].expected
        BY <3>1, <3>2, <4>2 DEF Settlement
      <4> QED
        BY <4>1, <4>2
    <3> QED
      BY <2>3, <3>3, <3>4
  <2> QED
    BY <1>5, <2>1, <2>2, <2>3 DEF Commit
<1>6. CASE Cleanup(p)
  <2>1. pc[p] = "clean" /\ op[p].dir \in Label
    BY <1>6 DEF Cleanup, UnlinkStage, UnlinkJournal, UnlinkTemporary, RemoveDirectory,
                FinishLease, OwnsDirectory, Owning, OwningSteps
  <2>2. /\ op' = op
        /\ \/ evidence'[op[p].dir].stage = None
           \/ evidence'[op[p].dir].stage = evidence[op[p].dir].stage
    BY <1>6, <2>1 DEF Cleanup, UnlinkStage, UnlinkJournal, UnlinkTemporary,
                      RemoveDirectory, FinishLease, Evidence
  <2> QED
    BY <2>1, <2>2 DEF Settlement
<1>7. CASE Join(p) \/ Exclude(p) \/ LockTimeout(p) \/ FullReset(p) \/ Migrate(p)
  BY <1>7 DEF Join, Exclude, LockTimeout, FullReset, Migrate
<1> QED
  BY <1>1, <1>2, <1>3, <1>4, <1>5, <1>6, <1>7 DEF Advance

\* Another process keeps its step and its locals.
LEMMA OthersKeep ==
  ASSUME IInv, NEW p \in Proc, NEW q \in Proc, q # p,
         Start(p) \/ Advance(p) \/ Failure(p)
  PROVE  pc'[q] = pc[q] /\ op'[q] = op[q]
<1> USE DEF IInv, Typed, Goto, End, locks
<1>1. CASE Start(p)
  BY <1>1 DEF Start, OpenStore, BeginQuiesce, BeginRefresh
<1>2. CASE Failure(p)
  BY <1>2 DEF Failure, Abort, CommitUncertain, DieWriting
<1>3. CASE Recovery(p)
  BY <1>3 DEF Recovery, ListDirectories, RecoverSkip, RecoverTake, RecoverBlocked,
              RefreshRecovered, QuiesceRecovered, RecoveryEnds
<1>4. CASE Stabilisation(p)
  BY <1>4 DEF Stabilisation, Stabilise, StabiliseFails, LockToken, LockEvidence,
              TargetChanged, EvidenceInTheWay, WriteIntent
<1>5. CASE Exchange(p)
  BY <1>5 DEF Exchange, SkipExchange, StartExchange, ExchangeFails, RecordFailure,
              ProviderReplies
<1>6. CASE Commit(p)
  BY <1>6 DEF Commit, WriteStage, CompleteJournal, MergeRead, MergeRaises,
              MergeCommit, CommitJournal, AfterMerge
<1>7. CASE Cleanup(p)
  BY <1>7 DEF Cleanup, UnlinkStage, UnlinkJournal, UnlinkTemporary, RemoveDirectory,
              FinishLease
<1>8. CASE Join(p) \/ Exclude(p) \/ LockTimeout(p) \/ FullReset(p) \/ Migrate(p)
  BY <1>8 DEF Join, Exclude, LockTimeout, FullReset, Migrate
<1> QED
  BY <1>1, <1>2, <1>3, <1>4, <1>5, <1>6, <1>7, <1>8 DEF Advance

\* Every step keeps what is known of settled stages.
LEMMA SettlementStep ==
  ASSUME IInv, Settlement, Next
  PROVE  Settlement'
<1>1. Settle
  BY DEF Next
<1>2. \A l \in Label :
        evidence'[l].stage # None /\ store'[l] # evidence'[l].expected => settled'[l]
  BY <1>1 DEF Settle
<1>3. ASSUME NEW l \in Label, settled[l], evidence'[l].stage # None
      PROVE  settled'[l]
  BY <1>1, <1>3 DEF Settle
<1>4. CASE Owner
  <2>1. UNCHANGED <<evidence, pc, op, origin>>
    BY <1>4 DEF Owner, Login, UseSetupToken, Remove, Rename, Edit
  <2> QED
    BY <1>2, <1>3, <2>1 DEF Settlement, IInv, OwnsDirectory, Owning, OwningSteps
<1>5. ASSUME NEW p \in Proc, Start(p) \/ Advance(p) \/ Failure(p)
      PROVE  Settlement'
  <2>1. \A c \in Cred : origin'[c] # c
    <3>1. CASE UNCHANGED origin
      BY <3>1 DEF Settlement
    <3>2. ASSUME NEW c \in Cred, ProviderReplies(p, c)
          PROVE  \A d \in Cred : origin'[d] # d
      BY <3>2 DEF ProviderReplies, Settlement, IInv, Typed, OwnsToken, Leasing, Owning,
                  OwningSteps, DirectoryAtStep, AtStep
    <3> QED
      BY <1>5, <3>1, <3>2, ProcessWrites DEF Installs, FullReset, RecordFailure, provider
  <2>2. ASSUME NEW q \in Proc, q # p, pc'[q] \in {"journal", "clean"},
               evidence'[op'[q].dir].stage # None
        PROVE  settled'[op'[q].dir]
    <3>1. pc[q] = pc'[q] /\ op'[q] = op[q]
      BY <1>5, <2>2, OthersKeep
    <3>2. Owning(q) /\ op[q].dir \in Label
      BY <2>2, <3>1 DEF Owning, OwningSteps, IInv, OwnsDirectory
    <3>3. evidence'[op[q].dir].stage = evidence[op[q].dir].stage
      <4>1. CASE WriteStage(p) \/ UnlinkStage(p)
        <5>1. Owning(p)
          BY <4>1 DEF WriteStage, UnlinkStage, Owning, OwningSteps
        <5>2. op[q].dir # op[p].dir
          BY <2>2, <3>2, <5>1, DirectoriesApart DEF IInv
        <5> QED
          BY <3>2, <4>1, <5>2 DEF WriteStage, UnlinkStage, IInv, Typed
      <4>2. CASE FullReset(p)
        BY <2>2, <3>1, <3>2, <4>2 DEF FullReset, NoEvidence
      <4> QED
        BY <1>5, <3>2, <4>1, <4>2, StageWrites
    <3>4. settled[op[q].dir]
      BY <2>2, <3>1, <3>3 DEF Settlement
    <3> QED
      BY <1>3, <2>2, <3>1, <3>2, <3>4
  <2>3. ASSUME pc'[p] \in {"journal", "clean"}, evidence'[op'[p].dir].stage # None
        PROVE  settled'[op'[p].dir]
    <3>1. op'[p].dir \in Label
      BY <1>5, <2>3, NextIInv DEF IInv, OwnsDirectory, Owning, OwningSteps
    <3> QED
      BY <1>2, <1>3, <1>5, <2>3, <3>1, PastMerge
  <2> QED
    BY <1>2, <2>1, <2>2, <2>3 DEF Settlement
<1> QED
  BY <1>4, <1>5 DEF Next

\* A settled stage is the only stage a step may remove.
LEMMA StageDrop ==
  ASSUME IInv, Settlement, Next, NEW l \in Label,
         evidence[l].stage # None, evidence'[l].stage # evidence[l].stage
  PROVE  settled[l]
<1>1. ~Owner
  BY DEF Owner, Login, UseSetupToken, Remove, Rename, Edit
<1>2. PICK p \in Proc : Start(p) \/ Advance(p) \/ Failure(p)
  BY <1>1 DEF Next
<1>3. CASE WriteStage(p)
  BY <1>3 DEF WriteStage, IInv, Typed, OwnsDirectory, Owning, OwningSteps,
              DirectoryAtStep, AtStep, Unstaged
<1>4. CASE UnlinkStage(p)
  BY <1>4 DEF UnlinkStage, IInv, Typed, Settlement
<1>5. CASE FullReset(p)
  BY <1>5 DEF FullReset, IInv, NoDirectory, JournalNames, Present
<1> QED
  BY <1>2, <1>3, <1>4, <1>5, StageWrites

\* No interleaving, crash or owner's command makes any process remove the only
\* copy of a rotated credential while its label still holds the credential it
\* replaces (_cleanup, _recover_directory, destroy_transactions).
THEOREM StageNeverDroppedHolds == Spec => StageNeverDropped
<1> DEFINE Kept == \A l \in Label :
             evidence[l].stage # None /\ evidence'[l].stage # evidence[l].stage
             => settled[l]
<1>1. Init => Settlement
  BY DEF Init, Settlement, NoEvidence
<1>2. IInv /\ Settlement /\ [Next]_vars => Settlement'
  <2>1. CASE UNCHANGED vars
    BY <2>1 DEF vars, Settlement
  <2> QED
    BY <2>1, SettlementStep
<1>3. IInv /\ Settlement /\ [Next]_vars => [Kept]_vars
  BY StageDrop
<1> QED
  BY <1>1, <1>2, <1>3, Invariance, PTL DEF Spec, StageNeverDropped

=============================================================================
