---------------------- MODULE CredentialTransactionTheorems ----------------------
(***************************************************************************)
(* For any number of processes, bundles, files, contents, generations and  *)
(* failures: the evidence of an interrupted commit always suffices to      *)
(* resolve it, and the authority and the private files change together.    *)
(*                                                                         *)
(* The invariant says what holds of the evidence whoever looks at it,      *)
(* which is what a process that dies leaves behind, and in addition what   *)
(* the process that holds the lock has achieved by each of its steps.      *)
(***************************************************************************)
EXTENDS CredentialTransaction, TLAPS

USE BundleAssumption, NoneAssumption, BoundsAssumption

-----------------------------------------------------------------------------
(* The inductive invariant. *)

\* The steps a process takes with the lock, and those of a commit under way.
Busy == {"recover", "restore", "check", "journal", "stage", "backup", "apply",
         "authority", "replace", "displace", "clean", "remove"}
Committing == {"journal", "stage", "backup", "apply", "authority", "replace"}

Locked == \A p \in Proc : lock = p <=> pc[p] \in Busy

\* What is written and what is displaced: bundles as a whole, and none is both.
Shaped(j) ==
  /\ \A f \in File : j.new[f] # None => BundleOf[f] \notin j.displaced
  /\ \A f, g \in File :
       BundleOf[f] = BundleOf[g] /\ j.new[f] = None => j.new[g] = None

\* Each file as it was, or as it will be with what it was in the backup.
Undoable ==
  \A f \in Written(journal) :
    \/ files[f] = journal.old[f]
    \/ files[f] = journal.new[f] /\ backup[f] = journal.old[f]
Untouched == \A f \in Written(journal) : files[f] = journal.old[f]
Saved == \A f \in Written(journal) : backup[f] = journal.old[f]
Installed == \A f \in Written(journal) : files[f] = journal.new[f]

Explained ==
  /\ Journalled \/ directoryTemp => directory
  /\ ~Journalled => stage = NoFiles /\ backup = NoFiles
  /\ Journalled =>
       /\ Shaped(journal)
       /\ AtBase \/ AtTarget
       /\ AtBase => Undoable
       /\ AtTarget => Installed

\* The journal is that of the plan of p, prepared from the files it replaces.
Journals(p) ==
  /\ Journalled /\ AtBase
  /\ journal.new = plan[p].new
  /\ \A f \in Written(journal) : journal.old[f] = plan[p].seen[f]

\* What the process that holds the lock has achieved.
Position(p) ==
  /\ pc[p] \in Committing => authority < MaxGeneration
  /\ pc[p] = "check" => ~directory
  /\ pc[p] = "journal" =>
       ~directory /\ \A f \in Written(plan[p]) : files[f] = plan[p].seen[f]
  /\ pc[p] \in {"stage", "backup"} => Journals(p) /\ Untouched
  /\ pc[p] = "apply" => Journals(p) /\ Saved
  /\ pc[p] \in {"authority", "replace"} =>
       \/ Journals(p) /\ Saved /\ Installed
       \/ ~directory /\ Written(plan[p]) = {}
  /\ pc[p] = "restore" => Journalled /\ AtBase
  /\ pc[p] = "displace" => Journalled /\ AtTarget
  /\ pc[p] = "clean" =>
       /\ Journalled
       /\ AtBase => Untouched
       /\ AtTarget => \A f \in FilesOf(journal.displaced) : files[f] = None
  /\ pc[p] = "remove" => directory /\ ~Journalled

IInv ==
  /\ TypeOK
  /\ Locked
  /\ \A p \in Proc : Shaped(plan[p])
  /\ Explained
  /\ \A p \in Proc : Position(p)

-----------------------------------------------------------------------------
(* Every step keeps the types. *)

\* The empty values have their types.
LEMMA NoPlanTyped ==
  NoPlan \in Plan /\ NoFiles \in [File -> ContentOrNone] /\ NoJournal \in Journal
  BY DEF NoPlan, Plan, NoFiles, ContentOrNone, NoJournal, Journal

\* Commands start with nothing in their way.
LEMMA InitIInv == Init => IInv
<1> SUFFICES ASSUME Init PROVE IInv
  OBVIOUS
<1>1. TypeOK
  <2>1. authority \in 1..MaxGeneration /\ faults \in 0..MaxFaults
    BY DEF Init
  <2>2. /\ files \in [File -> ContentOrNone]
        /\ bundleTemp \subseteq Bundle /\ lock \in Proc \cup {None}
        /\ authorityTemp \in BOOLEAN /\ directory \in BOOLEAN /\ directoryTemp \in BOOLEAN
    BY DEF Init
  <2>3. /\ pc \in [Proc -> Step] /\ base \in [Proc -> 0..MaxGeneration]
        /\ plan \in [Proc -> Plan]
    BY NoPlanTyped DEF Init, Step
  <2>4. /\ journal \in Journal /\ stage \in [File -> ContentOrNone]
        /\ backup \in [File -> ContentOrNone]
    BY NoPlanTyped DEF Init
  <2> QED
    BY <2>1, <2>2, <2>3, <2>4 DEF TypeOK
<1>2. Locked
  BY DEF Init, Locked, Busy
<1>3. \A p \in Proc : Shaped(plan[p])
  BY DEF Init, Shaped, NoPlan, NoFiles
<1>4. Explained
  BY DEF Init, Explained, Journalled
<1>5. \A p \in Proc : Position(p)
  BY DEF Init, Position, Committing
<1> QED
  BY <1>1, <1>2, <1>3, <1>4, <1>5 DEF IInv

\* What leaving does to the types.
LEMMA EndTyped ==
  ASSUME TypeOK, NEW p \in Proc, End(p)
  PROVE  /\ lock' \in Proc \cup {None}
         /\ pc' \in [Proc -> Step]
         /\ base' \in [Proc -> 0..MaxGeneration]
         /\ plan' \in [Proc -> Plan]
<1>1. NoPlan \in Plan
  BY DEF NoPlan, Plan, NoFiles, ContentOrNone
<1> QED
  BY <1>1 DEF TypeOK, End, Goto, Step

\* A plan stays a plan when only what follows it changes.
LEMMA PlanNext ==
  ASSUME TypeOK, NEW p \in Proc, NEW n \in {"load", "commit", "done", "fail"},
         plan' = [plan EXCEPT ![p].next = n]
  PROVE  /\ plan' \in [Proc -> Plan]
         /\ \A q \in Proc : /\ plan'[q].new = plan[q].new
                           /\ plan'[q].seen = plan[q].seen
                           /\ plan'[q].displaced = plan[q].displaced
<1>1. plan \in [Proc -> Plan]
  BY DEF TypeOK
<1>2. \A r \in Plan : [r EXCEPT !.next = n] \in Plan
  BY DEF Plan
<1>3. plan' = [plan EXCEPT ![p] = [plan[p] EXCEPT !.next = n]]
  OBVIOUS
<1>4. plan' \in [Proc -> Plan]
  BY <1>1, <1>2, <1>3
<1>5. \A r \in Plan : /\ [r EXCEPT !.next = n].new = r.new
                     /\ [r EXCEPT !.next = n].seen = r.seen
                     /\ [r EXCEPT !.next = n].displaced = r.displaced
  BY DEF Plan
<1>6. \A q \in Proc : plan'[q] = IF q = p THEN [plan[q] EXCEPT !.next = n] ELSE plan[q]
  BY <1>1, <1>3
<1> QED
  BY <1>1, <1>4, <1>5, <1>6

\* Opening and preparing.
LEMMA OpeningTyped ==
  ASSUME IInv, NEW p \in Proc,
         \/ Load(p) \/ Read(p) \/ Acquire(p)
         \/ \E targets, displaced \in SUBSET Bundle, content \in Content :
              Prepare(p, targets, content, displaced)
  PROVE  TypeOK'
<1> USE DEF IInv
<1>1. CASE Load(p)
  BY <1>1 DEF Load, TypeOK, Goto, Step, authorityFile, bundles, evidence
<1>2. CASE Read(p)
  BY <1>2 DEF Read, TypeOK, Goto, Step, authorityFile, bundles, evidence
<1>3. CASE Acquire(p)
  BY <1>3 DEF Acquire, TypeOK, Goto, Step, authorityFile, bundles, evidence, local
<1>4. ASSUME NEW targets \in SUBSET Bundle, NEW displaced \in SUBSET Bundle,
             NEW content \in Content, Prepare(p, targets, content, displaced)
      PROVE  TypeOK'
  <2>1. [new |-> [f \in File |-> IF f \in FilesOf(targets) THEN content ELSE None],
         seen |-> files, displaced |-> displaced, next |-> "commit"] \in Plan
    BY DEF Plan, TypeOK, ContentOrNone
  <2>2. plan' \in [Proc -> Plan]
    BY <1>4, <2>1 DEF Prepare, TypeOK
  <2> QED
    BY <1>4, <2>2 DEF Prepare, TypeOK, Goto, Step, authorityFile, bundles, evidence
<1> QED
  BY <1>1, <1>2, <1>3, <1>4

\* Recovery.
LEMMA RecoveryTyped ==
  ASSUME IInv, NEW p \in Proc, Recovery(p)
  PROVE  TypeOK'
<1> USE DEF IInv
<1>1. CASE Resolved(p)
  BY <1>1, EndTyped DEF Resolved, TypeOK, Goto, Step, authorityFile, bundles, evidence, local
<1>2. CASE RecoverEmpty(p)
  BY <1>2 DEF RecoverEmpty, TypeOK, authorityFile, bundles, local
<1>3. CASE RecoverJournal(p)
  BY <1>3 DEF RecoverJournal, TypeOK, Goto, Step, authorityFile, bundles, evidence, local
<1>4. CASE Restored(p)
  BY <1>4 DEF Restored, TypeOK, Goto, Step, authorityFile, bundles, evidence, local
<1>5. CASE RecoveryRaises(p)
  BY <1>5, EndTyped DEF RecoveryRaises, TypeOK, authorityFile, bundles, evidence
<1>6. ASSUME NEW f \in File, Restore(p, f) PROVE TypeOK'
  <2>1. journal.old[f] \in ContentOrNone
    BY DEF TypeOK, Journal
  <2> QED
    BY <1>6, <2>1 DEF Restore, TypeOK, authorityFile, evidence, local
<1> QED
  BY <1>1, <1>2, <1>3, <1>4, <1>5, <1>6 DEF Recovery

\* The commit: the generation stays below its bound until it is replaced.
LEMMA CommitTyped ==
  ASSUME IInv, NEW p \in Proc, Commit(p)
  PROVE  TypeOK'
<1> USE DEF IInv
<1>1. CASE Planned(p)
  BY <1>1, PlanNext DEF Planned, TypeOK, Goto, Step, authorityFile, bundles, evidence
<1>2. CASE Refused(p)
  BY <1>2, EndTyped DEF Refused, TypeOK, authorityFile, bundles, evidence
<1>3. CASE WriteJournal(p)
  <2>1. journal' \in Journal
    BY <1>3 DEF WriteJournal, Journal, TypeOK, Plan, ContentOrNone
  <2> QED
    BY <1>3, <2>1 DEF WriteJournal, TypeOK, Goto, Step, authorityFile, bundles, local
<1>4. CASE Staged(p)
  BY <1>4 DEF Staged, TypeOK, Goto, Step, authorityFile, bundles, evidence, local
<1>5. CASE BackedUp(p)
  BY <1>5 DEF BackedUp, TypeOK, Goto, Step, authorityFile, bundles, evidence, local
<1>6. CASE Applied(p)
  BY <1>6 DEF Applied, TypeOK, Goto, Step, authorityFile, bundles, evidence, local
<1>7. CASE WriteAuthority(p)
  BY <1>7 DEF WriteAuthority, TypeOK, Goto, Step, bundles, evidence, local
<1>8. CASE ReplaceAuthority(p)
  <2>1. authority < MaxGeneration
    BY <1>8 DEF ReplaceAuthority, Position, Committing
  <2>2. authority + 1 \in 1..MaxGeneration
    BY <2>1 DEF TypeOK
  <2>3. authority' \in 1..MaxGeneration /\ authorityTemp' \in BOOLEAN
    BY <1>8, <2>2 DEF ReplaceAuthority
  <2>4. /\ lock' \in Proc \cup {None} /\ pc' \in [Proc -> Step]
        /\ base' \in [Proc -> 0..MaxGeneration] /\ plan' \in [Proc -> Plan]
    BY <1>8, <2>2, NoPlanTyped DEF ReplaceAuthority, TypeOK, Goto, Step, local
  <2> QED
    BY <1>8, <2>3, <2>4 DEF ReplaceAuthority, TypeOK, bundles, evidence
<1>9. ASSUME NEW f \in File, Stage(p, f) \/ Backup(p, f) \/ Apply(p, f) PROVE TypeOK'
  <2>1. journal.old[f] \in ContentOrNone /\ journal.new[f] \in ContentOrNone
    BY DEF TypeOK, Journal
  <2> QED
    BY <1>9, <2>1 DEF Stage, Backup, Apply, TypeOK, authorityFile, bundles, evidence, local
<1> QED
  BY <1>1, <1>2, <1>3, <1>4, <1>5, <1>6, <1>7, <1>8, <1>9 DEF Commit

\* The end of a commit, and failures.
LEMMA FinishTyped ==
  ASSUME IInv, NEW p \in Proc, Finish(p) \/ Failure(p) \/ DiscardTemporary
  PROVE  TypeOK'
<1> USE DEF IInv
<1>1. CASE Displaced(p)
  BY <1>1 DEF Displaced, TypeOK, Goto, Step, authorityFile, evidence, local
<1>2. CASE RemoveJournal(p)
  BY <1>2, NoPlanTyped DEF RemoveJournal, TypeOK, Goto, Step, authorityFile, bundles, local
<1>3. CASE RemoveDirectory(p)
  <2>1. /\ lock' \in Proc \cup {None} /\ pc' \in [Proc -> Step]
        /\ base' \in [Proc -> 0..MaxGeneration] /\ plan' \in [Proc -> Plan]
    BY <1>3, NoPlanTyped DEF RemoveDirectory, TypeOK, Goto, Step, authorityFile, local
  <2> QED
    BY <1>3, <2>1 DEF RemoveDirectory, TypeOK, authorityFile, bundles
<1>4. ASSUME NEW f \in File, Displace(p, f) \/ CleanStage(p, f) \/ CleanBackup(p, f)
      PROVE  TypeOK'
  BY <1>4 DEF Displace, CleanStage, CleanBackup, TypeOK, ContentOrNone, authorityFile,
              bundles, evidence, local
<1>5. CASE Die(p)
  BY <1>5, EndTyped DEF Die, Fault, TypeOK, authorityFile, bundles, evidence
<1>6. CASE DieWriting(p)
  <2>1. /\ directory' \in BOOLEAN /\ directoryTemp' \in BOOLEAN
        /\ bundleTemp' \subseteq Bundle
    BY <1>6 DEF DieWriting, TypeOK, Written
  <2>2. faults' \in 0..MaxFaults
    BY <1>6 DEF DieWriting, Fault, TypeOK
  <2> QED
    BY <1>6, <2>1, <2>2, EndTyped DEF DieWriting, TypeOK, authorityFile
<1>7. CASE Raise(p)
  <2>1. pc[p] = "replace" => authority < MaxGeneration
    BY DEF Position, Committing
  <2>2. authority' \in 1..MaxGeneration
    BY <1>7, <2>1 DEF Raise, TypeOK
  <2>3. plan' \in [Proc -> Plan]
    BY <1>7, PlanNext DEF Raise
  <2>4. faults' \in 0..MaxFaults
    BY <1>7 DEF Raise, Fault, TypeOK
  <2> QED
    BY <1>7, <2>2, <2>3, <2>4 DEF Raise, TypeOK, Goto, Step, bundles, evidence
<1>8. CASE DiscardTemporary
  BY <1>8 DEF DiscardTemporary, TypeOK, bundles, evidence, local
<1> QED
  BY <1>1, <1>2, <1>3, <1>4, <1>5, <1>6, <1>7, <1>8 DEF Finish, Failure

-----------------------------------------------------------------------------
(* Every step keeps the invariant. *)

\* What a step of one process has to show: it leaves the others alone, and it
\* touches the files only with the lock.
Keeps(p) ==
  /\ \A q \in Proc \ {p} : pc'[q] = pc[q] /\ plan'[q] = plan[q]
  /\ pc[p] \in Busy \/ UNCHANGED <<authority, files, directory, journal, backup>>
  /\ Locked'
  /\ \A q \in Proc : Shaped(plan[q])'
  /\ Explained'
  /\ Position(p)'

\* That is enough: nobody else is busy when the files change.
LEMMA KeepsIInv ==
  ASSUME IInv, TypeOK', NEW p \in Proc, Keeps(p)
  PROVE  IInv'
<1>1. ASSUME NEW q \in Proc PROVE Position(q)'
  <2>1. CASE q = p
    BY <2>1 DEF Keeps
  <2>2. CASE q # p /\ pc[p] \in Busy
    <3>1. pc[q] \notin Busy
      BY <2>2 DEF IInv, Locked
    <3>2. pc'[q] \notin Busy
      BY <2>2, <3>1 DEF Keeps
    <3> QED
      BY <3>2 DEF Position, Busy, Committing
  <2>3. CASE q # p /\ UNCHANGED <<authority, files, directory, journal, backup>>
    <3>1. pc'[q] = pc[q] /\ plan'[q] = plan[q] /\ Position(q)
      BY <2>3 DEF Keeps, IInv
    <3> QED
      BY <2>3, <3>1 DEF Position, Journals, Journalled, AtBase, AtTarget, Saved,
                        Installed, Untouched, Written
  <2> QED
    BY <2>1, <2>2, <2>3 DEF Keeps
<1> QED
  BY <1>1 DEF Keeps, IInv

\* Evidence nobody touches stays explained.
LEMMA SameEvidence ==
  ASSUME IInv, UNCHANGED <<authority, files, evidence>>
  PROVE  Explained'
  BY DEF IInv, Explained, Journalled, Shaped, AtBase, AtTarget, Undoable, Installed,
         Written, evidence

\* A step with the lock, to another such step.
LEMMA Moves ==
  ASSUME IInv, NEW p \in Proc, pc[p] \in Busy,
         lock' = lock, pc'[p] \in Busy,
         \A q \in Proc \ {p} : pc'[q] = pc[q] /\ plan'[q] = plan[q],
         plan'[p].new = plan[p].new, plan'[p].displaced = plan[p].displaced,
         Explained', Position(p)'
  PROVE  Keeps(p)
<1>1. Locked'
  BY DEF IInv, Locked
<1>2. \A q \in Proc : Shaped(plan[q])'
  BY DEF IInv, Shaped
<1> QED
  BY <1>1, <1>2 DEF Keeps

\* Leaving with the lock released.
LEMMA Leaves ==
  ASSUME IInv, NEW p \in Proc, End(p), Explained',
         pc[p] \in Busy \/ UNCHANGED <<authority, files, directory, journal, backup>>
  PROVE  Keeps(p)
<1>1. /\ pc'[p] = "idle" /\ plan'[p] = NoPlan
      /\ \A q \in Proc \ {p} : pc'[q] = pc[q] /\ plan'[q] = plan[q]
      /\ lock' = IF lock = p THEN None ELSE lock
  BY DEF End, Goto, IInv, TypeOK
<1>2. Locked'
  BY <1>1 DEF IInv, Locked, Busy, TypeOK
<1>3. \A q \in Proc : Shaped(plan[q])'
  BY <1>1 DEF IInv, Shaped, NoPlan, NoFiles
<1>4. Position(p)'
  BY <1>1 DEF Position, Committing
<1> QED
  BY <1>1, <1>2, <1>3, <1>4 DEF Keeps

\* Opening and preparing, without the lock.
LEMMA OpeningKeeps ==
  ASSUME IInv, NEW p \in Proc,
         \/ Load(p) \/ Read(p) \/ Acquire(p)
         \/ \E targets, displaced \in SUBSET Bundle, content \in Content :
              Prepare(p, targets, content, displaced)
  PROVE  Keeps(p)
<1> USE DEF IInv
<1>1. CASE Load(p) \/ Read(p)
  <2>1. /\ pc[p] \notin Busy /\ pc'[p] \notin Busy
        /\ \A q \in Proc \ {p} : pc'[q] = pc[q]
        /\ lock' = lock /\ plan' = plan
        /\ UNCHANGED <<authority, files, evidence>>
    BY <1>1 DEF Load, Read, Goto, Busy, TypeOK, authorityFile, bundles
  <2>2. Locked' /\ \A q \in Proc : Shaped(plan[q])'
    BY <2>1 DEF Locked, Shaped
  <2>3. Position(p)'
    BY <2>1 DEF Position, Busy, Committing
  <2> QED
    BY <2>1, <2>2, <2>3, SameEvidence DEF Keeps, evidence
<1>2. CASE Acquire(p)
  <2>1. /\ lock = None /\ lock' = p /\ pc'[p] = "recover"
        /\ \A q \in Proc \ {p} : pc'[q] = pc[q]
        /\ plan' = plan
        /\ UNCHANGED <<authority, files, evidence>>
    BY <1>2 DEF Acquire, Goto, TypeOK, authorityFile, bundles, local
  <2>2. Locked' /\ \A q \in Proc : Shaped(plan[q])'
    BY <2>1 DEF Locked, Shaped, Busy
  <2>3. Position(p)'
    BY <2>1 DEF Position, Committing
  <2> QED
    BY <2>1, <2>2, <2>3, SameEvidence DEF Keeps, evidence
<1>3. ASSUME NEW targets \in SUBSET Bundle, NEW displaced \in SUBSET Bundle,
             NEW content \in Content, Prepare(p, targets, content, displaced)
      PROVE  Keeps(p)
  <2>1. /\ pc[p] = "loaded" /\ pc'[p] = "waiting" /\ lock' = lock
        /\ \A q \in Proc \ {p} : pc'[q] = pc[q] /\ plan'[q] = plan[q]
        /\ UNCHANGED <<authority, files, evidence>>
    BY <1>3 DEF Prepare, Goto, TypeOK, authorityFile, bundles
  <2>2. /\ plan'[p].new = [f \in File |-> IF f \in FilesOf(targets) THEN content
                                                                 ELSE None]
        /\ plan'[p].displaced = displaced /\ targets \cap displaced = {}
    BY <1>3 DEF Prepare, TypeOK
  <2>3. Shaped(plan[p])'
    BY <2>2 DEF Shaped, FilesOf
  <2>4. \A q \in Proc : Shaped(plan[q])'
    BY <2>1, <2>3 DEF Shaped
  <2>5. Locked'
    BY <2>1 DEF Locked, Busy
  <2>6. Position(p)'
    BY <2>1 DEF Position, Committing
  <2> QED
    BY <2>1, <2>4, <2>5, <2>6, SameEvidence DEF Keeps, evidence
<1> QED
  BY <1>1, <1>2, <1>3

\* Recovery restores nothing but what the journal can prove.
LEMMA RecoveryKeeps ==
  ASSUME IInv, NEW p \in Proc, Recovery(p)
  PROVE  Keeps(p)
<1> USE DEF IInv
<1>1. CASE Resolved(p)
  <2>1. pc[p] = "recover" /\ pc[p] \in Busy /\ ~directory
        /\ UNCHANGED <<authority, files, evidence>>
    BY <1>1 DEF Resolved, Busy, authorityFile, bundles
  <2>2. CASE End(p)
    BY <2>1, <2>2, SameEvidence, Leaves
  <2>3. CASE Goto(p, "read") /\ lock' = None /\ UNCHANGED local
    <3>1. /\ pc'[p] = "read" /\ \A q \in Proc \ {p} : pc'[q] = pc[q]
          /\ plan' = plan /\ lock = p
      BY <2>1, <2>3 DEF Goto, TypeOK, Locked, local
    <3>2. Locked'
      BY <2>3, <3>1 DEF Locked, Busy
    <3>3. Position(p)'
      BY <3>1 DEF Position, Committing
    <3> QED
      BY <2>1, <3>1, <3>2, <3>3, SameEvidence DEF Keeps, Shaped
  <2>4. CASE Goto(p, "check") /\ UNCHANGED <<lock, local>>
    <3>1. /\ pc'[p] = "check" /\ pc'[p] \in Busy
          /\ \A q \in Proc \ {p} : pc'[q] = pc[q]
          /\ plan' = plan /\ lock' = lock /\ directory' = directory
      BY <2>1, <2>4 DEF Goto, TypeOK, Busy, local, evidence
    <3>2. Position(p)'
      BY <2>1, <3>1 DEF Position, Committing
    <3> QED
      BY <2>1, <3>1, <3>2, SameEvidence, Moves
  <2> QED
    BY <1>1, <2>2, <2>3, <2>4 DEF Resolved
<1>2. CASE RecoverEmpty(p)
  <2>1. /\ pc[p] = "recover" /\ pc[p] \in Busy /\ pc' = pc /\ plan' = plan /\ lock' = lock
        /\ ~Journalled /\ ~directoryTemp
        /\ UNCHANGED <<authority, files, directoryTemp, journal, stage, backup>>
    BY <1>2 DEF RecoverEmpty, Busy, authorityFile, bundles, local
  <2>2. Explained'
    BY <2>1 DEF Explained, Journalled
  <2>3. Position(p)'
    BY <2>1 DEF Position, Committing
  <2> QED
    BY <2>1, <2>2, <2>3, Moves
<1>3. CASE RecoverJournal(p)
  <2>1. /\ pc[p] = "recover" /\ pc[p] \in Busy /\ Journalled
        /\ plan' = plan /\ lock' = lock
        /\ \A q \in Proc \ {p} : pc'[q] = pc[q]
        /\ \/ AtBase /\ pc'[p] = "restore"
           \/ AtTarget /\ pc'[p] = "displace"
        /\ UNCHANGED <<authority, files, evidence>>
    BY <1>3 DEF RecoverJournal, Goto, Busy, TypeOK, authorityFile, bundles, local
  <2>2. Position(p)'
    BY <2>1 DEF Position, Committing, Journalled, AtBase, AtTarget, evidence
  <2>3. pc'[p] \in Busy
    BY <2>1 DEF Busy
  <2> QED
    BY <2>1, <2>2, <2>3, SameEvidence, Moves
<1>4. CASE Restored(p)
  <2>1. /\ pc[p] = "restore" /\ pc[p] \in Busy /\ Journalled /\ AtBase /\ Untouched
        /\ plan' = plan /\ lock' = lock
        /\ pc'[p] = "clean" /\ \A q \in Proc \ {p} : pc'[q] = pc[q]
        /\ UNCHANGED <<authority, files, evidence>>
    BY <1>4 DEF Restored, Goto, Busy, TypeOK, Position, Untouched, authorityFile, bundles,
                local
  <2>2. ~AtTarget
    BY <2>1 DEF AtBase, AtTarget, TypeOK
  <2>3. Position(p)'
    BY <2>1, <2>2 DEF Position, Committing, Journalled, AtBase, AtTarget, Untouched,
                      Written, evidence
  <2>4. pc'[p] \in Busy
    BY <2>1 DEF Busy
  <2> QED
    BY <2>1, <2>3, <2>4, SameEvidence, Moves
<1>5. CASE RecoveryRaises(p)
  <2>1. pc[p] \in Busy /\ End(p) /\ UNCHANGED <<authority, files, evidence>>
    BY <1>5 DEF RecoveryRaises, Busy, authorityFile, bundles
  <2> QED
    BY <2>1, SameEvidence, Leaves
<1>6. ASSUME NEW f \in File, Restore(p, f) PROVE Keeps(p)
  <2>1. /\ pc[p] = "restore" /\ pc[p] \in Busy /\ Journalled /\ AtBase
        /\ plan' = plan /\ lock' = lock /\ pc' = pc
        /\ files' = [files EXCEPT ![f] = journal.old[f]]
        /\ UNCHANGED <<authority, evidence>>
    BY <1>6 DEF Restore, Busy, Position, authorityFile, local
  <2>2. ~AtTarget
    BY <2>1 DEF AtBase, AtTarget, TypeOK
  <2>3. Undoable'
    BY <2>1 DEF Explained, Undoable, Written, TypeOK, evidence
  <2>4. Explained'
    BY <2>1, <2>2, <2>3 DEF Explained, Journalled, Shaped, AtBase, AtTarget, evidence
  <2>5. Position(p)'
    BY <2>1 DEF Position, Committing, Journalled, AtBase, evidence
  <2> QED
    BY <2>1, <2>4, <2>5, Moves
<1> QED
  BY <1>1, <1>2, <1>3, <1>4, <1>5, <1>6 DEF Recovery

\* Checking and writing the journal.
LEMMA PlanningKeeps ==
  ASSUME IInv, NEW p \in Proc, Planned(p) \/ Refused(p) \/ WriteJournal(p)
  PROVE  Keeps(p)
<1> USE DEF IInv
<1>1. CASE Planned(p)
  <2>1. /\ pc[p] = "check" /\ pc[p] \in Busy /\ ~directory /\ lock' = lock
        /\ authority < MaxGeneration
        /\ \A f \in Written(plan[p]) : files[f] = plan[p].seen[f]
        /\ \A q \in Proc \ {p} : pc'[q] = pc[q] /\ plan'[q] = plan[q]
        /\ pc'[p] = IF Written(plan[p]) = {} /\ plan[p].displaced = {}
                    THEN "authority" ELSE "journal"
        /\ UNCHANGED <<authority, files, evidence>>
    BY <1>1 DEF Planned, Check, Goto, Busy, TypeOK, Position, authorityFile, bundles
  <2>2. /\ plan'[p].new = plan[p].new
        /\ plan'[p].seen = plan[p].seen
        /\ plan'[p].displaced = plan[p].displaced
    BY <1>1, PlanNext DEF Planned
  <2>3. Position(p)'
    BY <2>1, <2>2 DEF Position, Committing, Written, evidence
  <2>4. pc'[p] \in Busy
    BY <2>1 DEF Busy
  <2> QED
    BY <2>1, <2>2, <2>3, <2>4, SameEvidence, Moves
<1>2. CASE Refused(p)
  <2>1. pc[p] \in Busy /\ End(p) /\ UNCHANGED <<authority, files, evidence>>
    BY <1>2 DEF Refused, Busy, authorityFile, bundles
  <2> QED
    BY <2>1, SameEvidence, Leaves
<1>3. CASE WriteJournal(p)
  <2>1. /\ pc[p] = "journal" /\ pc[p] \in Busy /\ lock' = lock /\ plan' = plan
        /\ authority < MaxGeneration
        /\ \A f \in Written(plan[p]) : files[f] = plan[p].seen[f]
        /\ \A q \in Proc \ {p} : pc'[q] = pc[q]
        /\ pc'[p] = "stage" /\ pc'[p] \in Busy
        /\ UNCHANGED <<authority, files, directoryTemp, stage, backup>>
        /\ directory'
    BY <1>3 DEF WriteJournal, Goto, Busy, Committing, TypeOK, Position, authorityFile,
                bundles, local
  <2>2. /\ journal'.base = authority
        /\ journal'.new = plan[p].new
        /\ journal'.displaced = plan[p].displaced
        /\ \A f \in Written(plan[p]) : journal'.old[f] = files[f]
    BY <1>3 DEF WriteJournal, Written
  <2>3. Journalled' /\ AtBase' /\ ~AtTarget'
    BY <2>1, <2>2 DEF Journalled, AtBase, AtTarget, NoJournal, TypeOK
  <2>4. Shaped(journal)'
    BY <2>2 DEF Shaped
  <2>5. Untouched'
    BY <2>1, <2>2 DEF Untouched, Written
  <2>6. Explained'
    BY <2>1, <2>3, <2>4, <2>5 DEF Explained, Undoable, Untouched
  <2>7. Journals(p)'
    BY <2>1, <2>2, <2>3 DEF Journals, Written
  <2>8. Position(p)'
    BY <2>1, <2>5, <2>7 DEF Position
  <2> QED
    BY <2>1, <2>6, <2>8, Moves
<1> QED
  BY <1>1, <1>2, <1>3

\* Stages, backups and targets.
LEMMA InstallingKeeps ==
  ASSUME IInv, NEW p \in Proc,
         \/ Staged(p) \/ BackedUp(p) \/ Applied(p)
         \/ \E f \in File : Stage(p, f) \/ Backup(p, f) \/ Apply(p, f)
  PROVE  Keeps(p)
<1> USE DEF IInv
<1>1. CASE Staged(p) \/ BackedUp(p) \/ Applied(p)
  <2>1. /\ pc[p] \in {"stage", "backup", "apply"} /\ pc[p] \in Busy
        /\ lock' = lock /\ plan' = plan
        /\ authority < MaxGeneration
        /\ \A q \in Proc \ {p} : pc'[q] = pc[q]
        /\ UNCHANGED <<authority, files, evidence>>
        /\ Journals(p)
    BY <1>1 DEF Staged, BackedUp, Applied, Goto, Busy, Committing, TypeOK, Position,
                authorityFile, bundles, local
  <2>2. \/ pc'[p] = "backup" /\ Untouched
        \/ pc'[p] = "apply" /\ Saved
        \/ pc'[p] = "authority" /\ Saved /\ Installed
    BY <1>1 DEF Staged, BackedUp, Applied, Goto, TypeOK, Position, Saved, Installed
  <2>3. /\ Journals(p)' /\ (Untouched => Untouched') /\ (Saved => Saved')
        /\ (Installed => Installed')
    BY <2>1 DEF Journals, Journalled, AtBase, Untouched, Saved, Installed, Written, evidence
  <2>4. Position(p)'
    BY <2>1, <2>2, <2>3 DEF Position
  <2>5. pc'[p] \in Busy
    BY <2>2 DEF Busy
  <2> QED
    BY <2>1, <2>4, <2>5, SameEvidence, Moves
<1>2. ASSUME NEW f \in File, Stage(p, f) PROVE Keeps(p)
  <2>1. /\ pc[p] = "stage" /\ pc[p] \in Busy /\ pc' = pc /\ plan' = plan /\ lock' = lock
        /\ Journals(p) /\ Untouched
        /\ UNCHANGED <<authority, files, directory, directoryTemp, journal, backup>>
    BY <1>2 DEF Stage, Busy, Position, authorityFile, bundles, local
  <2>2. Explained'
    BY <2>1 DEF Explained, Journals, Journalled, Shaped, AtBase, AtTarget, Undoable,
                Installed, Written
  <2>3. Position(p)'
    BY <2>1 DEF Position, Committing, Journals, Journalled, AtBase, Untouched, Written
  <2> QED
    BY <2>1, <2>2, <2>3, Moves
<1>3. ASSUME NEW f \in File, Backup(p, f) PROVE Keeps(p)
  <2>1. /\ pc[p] = "backup" /\ pc[p] \in Busy /\ pc' = pc /\ plan' = plan /\ lock' = lock
        /\ Journals(p) /\ Untouched
        /\ UNCHANGED <<authority, files, directory, directoryTemp, journal>>
    BY <1>3 DEF Backup, Busy, Position, authorityFile, bundles, local
  <2>2. Untouched' /\ Journals(p)' /\ Journalled' /\ AtBase'
    BY <2>1 DEF Untouched, Journals, Journalled, AtBase, Written
  <2>3. ~AtTarget'
    BY <2>1, <2>2 DEF AtBase, AtTarget, TypeOK
  <2>4. Explained'
    BY <2>1, <2>2, <2>3 DEF Explained, Journals, Journalled, Shaped, Undoable, Untouched
  <2>5. Position(p)'
    BY <2>1, <2>2 DEF Position, Committing
  <2> QED
    BY <2>1, <2>4, <2>5, Moves
<1>4. ASSUME NEW f \in File, Apply(p, f) PROVE Keeps(p)
  <2>1. /\ pc[p] = "apply" /\ pc[p] \in Busy /\ pc' = pc /\ plan' = plan /\ lock' = lock
        /\ Journals(p) /\ Saved
        /\ files' = [files EXCEPT ![f] = journal.new[f]]
        /\ UNCHANGED <<authority, evidence>>
    BY <1>4 DEF Apply, Busy, Position, authorityFile, local
  <2>2. Saved' /\ Journals(p)' /\ Journalled' /\ AtBase'
    BY <2>1 DEF Saved, Journals, Journalled, AtBase, Written, evidence
  <2>3. ~AtTarget'
    BY <2>1, <2>2 DEF AtBase, AtTarget, TypeOK, evidence
  <2>4. Undoable'
    BY <2>1 DEF Explained, Journals, Undoable, Saved, Written, TypeOK, evidence
  <2>5. Explained'
    BY <2>1, <2>2, <2>3, <2>4 DEF Explained, Journals, Journalled, Shaped, evidence
  <2>6. Position(p)'
    BY <2>1, <2>2 DEF Position, Committing
  <2> QED
    BY <2>1, <2>5, <2>6, Moves
<1> QED
  BY <1>1, <1>2, <1>3, <1>4

\* The authority is replaced when every target is installed.
LEMMA AuthorityKeeps ==
  ASSUME IInv, NEW p \in Proc, WriteAuthority(p) \/ ReplaceAuthority(p)
  PROVE  Keeps(p)
<1> USE DEF IInv
<1>1. CASE WriteAuthority(p)
  <2>1. /\ pc[p] = "authority" /\ pc[p] \in Busy
        /\ lock' = lock /\ plan' = plan
        /\ authority < MaxGeneration
        /\ pc'[p] = "replace" /\ pc'[p] \in Busy
        /\ \A q \in Proc \ {p} : pc'[q] = pc[q]
        /\ UNCHANGED <<authority, files, evidence>>
    BY <1>1 DEF WriteAuthority, Goto, Busy, Committing, TypeOK, Position, bundles, local
  <2>4. \/ Journals(p) /\ Saved /\ Installed
        \/ ~directory /\ Written(plan[p]) = {}
    BY <2>1 DEF Position
  <2>2. \/ Journals(p)' /\ Saved' /\ Installed'
        \/ ~directory' /\ Written(plan[p])' = {}
    BY <2>1, <2>4 DEF Journals, Journalled, AtBase, Saved, Installed, Written, evidence
  <2>3. Position(p)'
    BY <2>1, <2>2 DEF Position
  <2> QED
    BY <2>1, <2>3, SameEvidence, Moves
<1>2. CASE ReplaceAuthority(p) /\ Journalled
  <2>1. /\ pc[p] = "replace" /\ pc[p] \in Busy
        /\ lock' = lock /\ plan' = plan /\ authority' = authority + 1
        /\ pc'[p] = "displace" /\ pc'[p] \in Busy
        /\ \A q \in Proc \ {p} : pc'[q] = pc[q]
        /\ UNCHANGED <<files, evidence>>
    BY <1>2 DEF ReplaceAuthority, Goto, Busy, TypeOK, bundles, local
  <2>2. AtBase /\ Installed
    BY <1>2, <2>1 DEF Position, Explained, Journals
  <2>3. AtTarget' /\ ~AtBase' /\ Installed' /\ Journalled'
    BY <1>2, <2>1, <2>2 DEF AtTarget, AtBase, Installed, Journalled, Written, TypeOK,
                            evidence
  <2>4. Explained'
    BY <2>1, <2>3 DEF Explained, Journalled, Shaped, evidence
  <2>5. Position(p)'
    BY <2>1, <2>3 DEF Position, Committing
  <2> QED
    BY <2>1, <2>4, <2>5, Moves
<1>3. CASE ReplaceAuthority(p) /\ ~Journalled
  <2>1. /\ pc[p] = "replace" /\ pc[p] \in Busy
        /\ lock' = None /\ plan' = [plan EXCEPT ![p] = NoPlan]
        /\ pc'[p] = "loaded"
        /\ \A q \in Proc \ {p} : pc'[q] = pc[q] /\ plan'[q] = plan[q]
        /\ plan'[p] = NoPlan
        /\ UNCHANGED <<files, evidence>>
    BY <1>3 DEF ReplaceAuthority, Goto, Busy, TypeOK, bundles
  <2>2. Locked'
    BY <2>1 DEF Locked, Busy
  <2>3. \A q \in Proc : Shaped(plan[q])'
    BY <2>1 DEF Shaped, NoPlan, NoFiles
  <2>4. Explained'
    BY <1>3, <2>1 DEF Explained, Journalled, evidence
  <2>5. Position(p)'
    BY <2>1 DEF Position, Committing
  <2> QED
    BY <2>1, <2>2, <2>3, <2>4, <2>5 DEF Keeps
<1> QED
  BY <1>1, <1>2, <1>3

\* Displacing, and removing the evidence when it is not needed any more.
LEMMA FinishKeeps ==
  ASSUME IInv, NEW p \in Proc, Finish(p)
  PROVE  Keeps(p)
<1> USE DEF IInv
<1>1. CASE Displaced(p)
  <2>1. /\ pc[p] = "displace" /\ pc[p] \in Busy /\ lock' = lock /\ plan' = plan
        /\ Journalled /\ AtTarget
        /\ \A f \in FilesOf(journal.displaced) : files[f] = None
        /\ pc'[p] = "clean" /\ pc'[p] \in Busy
        /\ \A q \in Proc \ {p} : pc'[q] = pc[q]
        /\ UNCHANGED <<authority, files, evidence>>
    BY <1>1 DEF Displaced, Goto, Busy, TypeOK, Position, authorityFile, local
  <2>2. ~AtBase'
    BY <2>1 DEF AtBase, AtTarget, TypeOK, evidence
  <2>3. Position(p)'
    BY <2>1, <2>2 DEF Position, Committing, Journalled, FilesOf, evidence
  <2> QED
    BY <2>1, <2>3, SameEvidence, Moves
<1>2. CASE RemoveJournal(p)
  <2>1. /\ pc[p] = "clean" /\ pc[p] \in Busy /\ lock' = lock /\ plan' = plan
        /\ directory /\ directory' = directory
        /\ stage = NoFiles /\ backup = NoFiles /\ journal' = NoJournal
        /\ pc'[p] = "remove" /\ pc'[p] \in Busy
        /\ \A q \in Proc \ {p} : pc'[q] = pc[q]
        /\ UNCHANGED <<authority, files, stage, backup, directoryTemp>>
    BY <1>2 DEF RemoveJournal, Goto, Busy, TypeOK, Position, Explained, authorityFile,
                bundles, local
  <2>2. Explained'
    BY <2>1 DEF Explained, Journalled
  <2>3. Position(p)'
    BY <2>1 DEF Position, Committing, Journalled
  <2> QED
    BY <2>1, <2>2, <2>3, Moves
<1>3. CASE RemoveDirectory(p)
  <2>1. /\ pc[p] = "remove" /\ pc[p] \in Busy /\ ~Journalled
        /\ ~directory' /\ ~directoryTemp'
        /\ UNCHANGED <<authority, files, journal, stage, backup>>
    BY <1>3 DEF RemoveDirectory, Busy, Position, authorityFile, bundles
  <2>2. Explained'
    BY <2>1 DEF Explained, Journalled
  <2>3. CASE plan[p].next = "done"
    <3>1. /\ lock' = None /\ pc'[p] = "loaded" /\ plan'[p] = NoPlan
          /\ \A q \in Proc \ {p} : pc'[q] = pc[q] /\ plan'[q] = plan[q]
      BY <1>3, <2>3 DEF RemoveDirectory, Goto, TypeOK
    <3>2. lock = p
      BY <2>1 DEF Locked
    <3>3. Locked'
      BY <3>1, <3>2 DEF Locked, Busy
    <3>4. \A q \in Proc : Shaped(plan[q])'
      BY <3>1 DEF Shaped, NoPlan, NoFiles
    <3>5. Position(p)'
      BY <3>1 DEF Position, Committing
    <3> QED
      BY <2>1, <2>2, <3>1, <3>3, <3>4, <3>5 DEF Keeps
  <2>4. CASE plan[p].next # "done"
    <3>1. /\ lock' = lock /\ plan' = plan /\ pc'[p] = "recover" /\ pc'[p] \in Busy
          /\ \A q \in Proc \ {p} : pc'[q] = pc[q]
      BY <1>3, <2>4 DEF RemoveDirectory, Goto, TypeOK, Busy, local
    <3>2. Position(p)'
      BY <3>1 DEF Position, Committing
    <3> QED
      BY <2>1, <2>2, <3>1, <3>2, Moves
  <2> QED
    BY <2>3, <2>4
<1>4. ASSUME NEW f \in File, Displace(p, f) PROVE Keeps(p)
  <2>1. /\ pc[p] = "displace" /\ pc[p] \in Busy /\ pc' = pc /\ plan' = plan /\ lock' = lock
        /\ Journalled /\ AtTarget /\ BundleOf[f] \in journal.displaced
        /\ files' = [files EXCEPT ![f] = None]
        /\ UNCHANGED <<authority, evidence>>
    BY <1>4 DEF Displace, Busy, Position, FilesOf, authorityFile, local
  <2>2. Journalled' /\ AtTarget' /\ ~AtBase'
    BY <2>1 DEF Journalled, AtBase, AtTarget, TypeOK, evidence
  <2>3. Installed'
    BY <2>1 DEF Explained, Shaped, Installed, Written, TypeOK, evidence
  <2>4. Explained'
    BY <2>1, <2>2, <2>3 DEF Explained, Shaped, evidence
  <2>5. Position(p)'
    BY <2>1, <2>2 DEF Position, Committing
  <2> QED
    BY <2>1, <2>4, <2>5, Moves
<1>5. ASSUME NEW f \in File, CleanStage(p, f) \/ CleanBackup(p, f) PROVE Keeps(p)
  <2>1. /\ pc[p] = "clean" /\ pc[p] \in Busy /\ pc' = pc /\ plan' = plan /\ lock' = lock
        /\ Journalled /\ (AtBase => Untouched)
        /\ AtTarget => \A g \in FilesOf(journal.displaced) : files[g] = None
        /\ UNCHANGED <<authority, files, directory, directoryTemp, journal>>
    BY <1>5 DEF CleanStage, CleanBackup, Busy, Position, authorityFile, bundles, local
  <2>2. /\ Journalled' /\ (AtBase' => Untouched')
        /\ AtTarget' => \A g \in FilesOf(journal.displaced)' : files'[g] = None
    BY <2>1 DEF Journalled, AtBase, AtTarget, Untouched, Written, FilesOf
  <2>3. Explained'
    BY <2>1, <2>2 DEF Explained, Journalled, Shaped, AtBase, AtTarget, Undoable, Untouched,
                      Installed, Written
  <2>4. Position(p)'
    BY <2>1, <2>2 DEF Position, Committing, FilesOf
  <2> QED
    BY <2>1, <2>3, <2>4, Moves
<1> QED
  BY <1>1, <1>2, <1>3, <1>4, <1>5 DEF Finish

\* Deaths and errors, between two operations and inside one.
LEMMA FailureKeeps ==
  ASSUME IInv, NEW p \in Proc, Failure(p)
  PROVE  Keeps(p)
<1> USE DEF IInv
<1>1. CASE Die(p)
  <2>1. End(p) /\ UNCHANGED <<authority, files, evidence>>
    BY <1>1 DEF Die, authorityFile, bundles
  <2> QED
    BY <2>1, SameEvidence, Leaves DEF evidence
<1>2. CASE DieWriting(p)
  <2>1. /\ pc[p] \in Busy /\ End(p)
        /\ UNCHANGED <<authority, files, journal, stage, backup>>
        /\ directory' \/ UNCHANGED <<directory, directoryTemp>>
    BY <1>2 DEF DieWriting, Busy, authorityFile
  <2>2. Explained'
    BY <2>1 DEF Explained, Journalled, Shaped, AtBase, AtTarget, Undoable, Installed,
                Written
  <2> QED
    BY <2>1, <2>2, Leaves
<1>3. CASE Raise(p)
  <2>1. /\ pc[p] \in Busy /\ lock' = lock /\ directory
        /\ pc'[p] = "recover" /\ pc'[p] \in Busy
        /\ \A q \in Proc \ {p} : pc'[q] = pc[q] /\ plan'[q] = plan[q]
        /\ UNCHANGED <<files, evidence>>
        /\ \/ authority' = authority
           \/ pc[p] = "replace" /\ authority' = authority + 1
    BY <1>3 DEF Raise, Goto, Busy, TypeOK, bundles
  <2>2. plan'[p].new = plan[p].new /\ plan'[p].displaced = plan[p].displaced
    BY <1>3, PlanNext DEF Raise
  <2>3. ASSUME pc[p] = "replace", authority' = authority + 1 PROVE Explained'
    <3>1. Journalled /\ AtBase /\ Installed
      BY <2>1, <2>3 DEF Position, Journals
    <3>2. AtTarget' /\ ~AtBase' /\ Installed' /\ Journalled'
      BY <2>1, <2>3, <3>1 DEF AtTarget, AtBase, Installed, Journalled, Written, TypeOK,
                              evidence
    <3> QED
      BY <2>1, <3>1, <3>2 DEF Explained, Journalled, Shaped, evidence
  <2>4. Explained'
    BY <2>1, <2>3, SameEvidence
  <2>5. Position(p)'
    BY <2>1 DEF Position, Committing
  <2> QED
    BY <2>1, <2>2, <2>4, <2>5, Moves
<1> QED
  BY <1>1, <1>2, <1>3 DEF Failure

-----------------------------------------------------------------------------
(* The theorems. *)

\* Every step of every process keeps the invariant.
LEMMA StepIInv == IInv /\ [Next]_vars => IInv'
<1> SUFFICES ASSUME IInv, [Next]_vars PROVE IInv'
  OBVIOUS
<1>1. ASSUME NEW p \in Proc,
             \/ Load(p) \/ Advance(p) \/ Failure(p)
             \/ \E targets, displaced \in SUBSET Bundle, content \in Content :
                  Prepare(p, targets, content, displaced)
      PROVE  IInv'
  <2>1. TypeOK'
    BY <1>1, OpeningTyped, RecoveryTyped, CommitTyped, FinishTyped DEF Advance
  <2>2. Keeps(p)
    BY <1>1, OpeningKeeps, RecoveryKeeps, PlanningKeeps, InstallingKeeps, AuthorityKeeps,
       FinishKeeps, FailureKeeps DEF Advance, Commit
  <2> QED
    BY <2>1, <2>2, KeepsIInv
<1>2. ASSUME DiscardTemporary PROVE IInv'
  <2>1. UNCHANGED <<authority, files, evidence, lock, pc, plan>>
    BY <1>2 DEF DiscardTemporary, bundles, local
  <2>2. Locked' /\ \A p \in Proc : Shaped(plan[p])'
    BY <2>1 DEF IInv, Locked, Shaped
  <2>3. \A p \in Proc : Position(p)'
    BY <2>1 DEF IInv, Position, Journals, Journalled, AtBase, AtTarget, Saved, Installed,
                Untouched, Written, FilesOf, evidence
  <2>4. TypeOK'
    BY <1>2 DEF DiscardTemporary, IInv, TypeOK, bundles, evidence, local
  <2> QED
    BY <2>1, <2>2, <2>3, <2>4, SameEvidence DEF IInv
<1>3. ASSUME UNCHANGED vars PROVE IInv'
  <2>1. UNCHANGED <<authority, files, evidence, lock, pc, plan>>
    BY <1>3 DEF vars, evidence
  <2>2. Locked' /\ \A p \in Proc : Shaped(plan[p])'
    BY <2>1 DEF IInv, Locked, Shaped
  <2>3. \A p \in Proc : Position(p)'
    BY <2>1 DEF IInv, Position, Journals, Journalled, AtBase, AtTarget, Saved, Installed,
                Untouched, Written, FilesOf, evidence
  <2>4. TypeOK'
    BY <1>3 DEF IInv, TypeOK, vars
  <2> QED
    BY <2>1, <2>2, <2>3, <2>4, SameEvidence DEF IInv
<1> QED
  BY <1>1, <1>2, <1>3 DEF Next

\* In every reachable state the evidence explains itself and the process that
\* holds the lock has achieved what its step requires.
THEOREM TransactionInvariance == Spec => []IInv
  BY InitIInv, StepIInv, PTL DEF Spec

\* Every variable keeps its type (PrivateCredentialTransaction and its recovery).
THEOREM TransactionTypeCorrect == Spec => []TypeOK
<1>1. IInv => TypeOK
  BY DEF IInv
<1> QED
  BY <1>1, TransactionInvariance, PTL

\* Wherever processes die or raise, and however often, recovery never has to
\* guess: the journal explains the authority, and the bytes to go on with are on
\* disk (_authority_state, _restore_record, _require_target_files).
THEOREM EvidenceSufficientHolds == Spec => []EvidenceSufficient
<1>1. IInv => EvidenceSufficient
  BY DEF IInv, Explained, EvidenceSufficient, Undoable, Installed, Unrestorable
<1> QED
  BY <1>1, TransactionInvariance, PTL

-----------------------------------------------------------------------------
(* Atomicity. *)

\* What the private files amount to is a value for each file.
LEMMA PrivateTyped == TypeOK => Private \in [File -> ContentOrNone]
  BY DEF TypeOK, Private, Journal, ContentOrNone

\* Which steps touch the authority, the private files or the journal.
LEMMA PrivateWrites ==
  ASSUME IInv, NEW p \in Proc, Load(p) \/ Advance(p) \/ Failure(p)
  PROVE  \/ UNCHANGED <<authority, files, journal>>
         \/ \E f \in File : Restore(p, f) \/ Apply(p, f) \/ Displace(p, f)
         \/ WriteJournal(p) \/ RemoveJournal(p)
         \/ ReplaceAuthority(p) \/ Raise(p)
<1>1. CASE Load(p) \/ Acquire(p) \/ Read(p) \/ Die(p) \/ DieWriting(p)
  BY <1>1 DEF Load, Acquire, Read, Die, DieWriting, authorityFile, bundles, evidence
<1>2. CASE Recovery(p)
  BY <1>2 DEF Recovery, Resolved, RecoverEmpty, RecoverJournal, Restored, RecoveryRaises,
              authorityFile, bundles, evidence
<1>3. CASE Commit(p)
  BY <1>3 DEF Commit, Planned, Refused, Staged, BackedUp, Applied, WriteAuthority, Stage,
              Backup, authorityFile, bundles, evidence
<1>4. CASE Finish(p)
  BY <1>4 DEF Finish, Displaced, RemoveDirectory, CleanStage, CleanBackup, authorityFile,
              bundles, evidence
<1> QED
  BY <1>1, <1>2, <1>3, <1>4 DEF Advance, Failure

\* The steps that work on the files or the journal leave what they amount to.
LEMMA FilesKeepPrivate ==
  ASSUME IInv, NEW p \in Proc,
         \/ \E f \in File : Restore(p, f) \/ Apply(p, f) \/ Displace(p, f)
         \/ WriteJournal(p) \/ RemoveJournal(p)
  PROVE  authority' = authority /\ Private' = Private
<1> USE DEF IInv
<1>1. ASSUME NEW f \in File, Restore(p, f) \/ Apply(p, f)
      PROVE  authority' = authority /\ Private' = Private
  <2>1. /\ Journalled /\ AtBase /\ f \in Written(journal)
        /\ \A g \in File \ {f} : files'[g] = files[g]
        /\ UNCHANGED <<authority, journal>>
    BY <1>1 DEF Restore, Apply, Position, Journals, TypeOK, authorityFile, evidence
  <2> QED
    BY <2>1 DEF Private, Journalled, AtBase, Written
<1>2. ASSUME NEW f \in File, Displace(p, f)
      PROVE  authority' = authority /\ Private' = Private
  <2>1. /\ Journalled /\ AtTarget /\ BundleOf[f] \in journal.displaced
        /\ f \notin Written(journal)
        /\ \A g \in File \ {f} : files'[g] = files[g]
        /\ UNCHANGED <<authority, journal>>
    BY <1>2 DEF Displace, Position, Explained, Shaped, FilesOf, Written, TypeOK,
                authorityFile, evidence
  <2>2. ~AtBase
    BY <2>1 DEF AtBase, AtTarget, TypeOK
  <2> QED
    BY <2>1, <2>2 DEF Private, Journalled, AtBase, Written
<1>3. CASE WriteJournal(p)
  <2>1. /\ ~Journalled /\ UNCHANGED <<authority, files>>
        /\ journal'.base = authority
        /\ \A f \in Written(journal)' : journal'.old[f] = files[f]
    BY <1>3 DEF WriteJournal, Position, Explained, Written, authorityFile, bundles
  <2> QED
    BY <2>1 DEF Private, Journalled, AtBase, Written, TypeOK
<1>4. CASE RemoveJournal(p)
  <2>1. /\ Journalled /\ ~Journalled' /\ UNCHANGED <<authority, files>>
        /\ AtBase => Untouched
        /\ AtTarget => \A f \in FilesOf(journal.displaced) : files[f] = None
        /\ AtTarget => Installed
        /\ AtBase \/ AtTarget
    BY <1>4 DEF RemoveJournal, Position, Explained, Journalled, authorityFile, bundles
  <2>2. Private = files
    BY <2>1 DEF Private, Untouched, Installed, FilesOf, TypeOK
  <2>3. Private' = files'
    BY <2>1 DEF Private, TypeOK
  <2> QED
    BY <2>1, <2>2, <2>3
<1> QED
  BY <1>1, <1>2, <1>3, <1>4

\* A new generation installs what the journal says, or leaves the private files.
LEMMA ReplaceInstalls ==
  ASSUME IInv, NEW p \in Proc, ReplaceAuthority(p) \/ Raise(p)
  PROVE  /\ UNCHANGED <<files, journal>>
         /\ \/ authority' = authority
            \/ authority' = authority + 1 /\ (Journalled => AtBase)
<1>1. UNCHANGED <<files, journal>>
  BY DEF ReplaceAuthority, Raise, bundles, evidence
<1>2. \/ authority' = authority
      \/ authority' = authority + 1 /\ pc[p] = "replace"
  BY DEF ReplaceAuthority, Raise
<1>3. pc[p] = "replace" /\ Journalled => AtBase
  BY DEF IInv, Position, Explained, Journals
<1> QED
  BY <1>1, <1>2, <1>3

\* Every step makes a new generation or leaves what the private files amount to.
LEMMA AtomicStep ==
  ASSUME IInv, [Next]_vars
  PROVE  \/ authority' = authority /\ Private' = Private
         \/ /\ authority' = authority + 1 /\ UNCHANGED <<files, journal>>
            /\ Journalled => AtBase
<1>1. ASSUME UNCHANGED <<authority, files, journal>>
      PROVE  authority' = authority /\ Private' = Private
  BY <1>1 DEF Private, Journalled, AtBase, Written
<1>2. ASSUME NEW p \in Proc, Load(p) \/ Advance(p) \/ Failure(p)
      PROVE  \/ authority' = authority /\ Private' = Private
             \/ /\ authority' = authority + 1 /\ UNCHANGED <<files, journal>>
                /\ Journalled => AtBase
  BY <1>1, <1>2, PrivateWrites, FilesKeepPrivate, ReplaceInstalls
<1>3. ASSUME NEW p \in Proc, NEW targets \in SUBSET Bundle, NEW displaced \in SUBSET Bundle,
             NEW content \in Content, Prepare(p, targets, content, displaced)
      PROVE  UNCHANGED <<authority, files, journal>>
  BY <1>3 DEF Prepare, authorityFile, bundles, evidence
<1>4. DiscardTemporary => UNCHANGED <<authority, files, journal>>
  BY DEF DiscardTemporary, bundles, evidence
<1>5. UNCHANGED vars => UNCHANGED <<authority, files, journal>>
  BY DEF vars
<1> QED
  BY <1>1, <1>2, <1>3, <1>4, <1>5 DEF Next

\* The transaction implements AtomicStore: with any number of processes, dying
\* anywhere and any number of times, a generation of the authority and its private
\* files become current in one step (PrivateCredentialTransaction).
THEOREM ImplementsAtomicStore == Spec => CommitIsAtomic
<1>1. Init => Atomic!Init
  <2> SUFFICES ASSUME Init PROVE Atomic!Init
    OBVIOUS
  <2>1. IInv
    BY InitIInv
  <2> QED
    BY <2>1, PrivateTyped DEF IInv, TypeOK, ContentOrNone, Atomic!Init
<1>2. IInv /\ IInv' /\ [Next]_vars => [Atomic!Next]_(Atomic!vars)
  <2> SUFFICES ASSUME IInv, IInv', [Next]_vars PROVE [Atomic!Next]_(Atomic!vars)
    OBVIOUS
  <2>1. Private' \in [File -> Content \cup {None}]
    BY PrivateTyped DEF IInv, ContentOrNone, TypeOK, Private, Journal
  <2> QED
    BY <2>1, AtomicStep DEF Atomic!Next, Atomic!Commit, Atomic!vars
<1> QED
  BY <1>1, <1>2, TransactionInvariance, PTL DEF Spec, CommitIsAtomic, Atomic!Spec

\* A commit replaces only the files it was prepared from, though it read them
\* before it had the lock (_runtime_file_plan).
THEOREM NoBlindReplaceHolds == Spec => NoBlindReplace
<1>1. ASSUME IInv, NEW p \in Proc, pc[p] = "replace", NEW f \in Written(plan[p])
      PROVE  plan[p].seen[f] = Private[f]
  <2>1. /\ Journalled /\ AtBase /\ f \in Written(journal)
        /\ journal.old[f] = plan[p].seen[f]
    BY <1>1 DEF IInv, Position, Journals, Written
  <2> QED
    BY <2>1 DEF Private, Written
<1>2. IInv => [\A p \in Proc : pc[p] = "replace" /\ authority' # authority
               => \A f \in Written(plan[p]) : plan[p].seen[f] = Private[f]]_vars
  BY <1>1
<1> QED
  BY <1>2, TransactionInvariance, PTL DEF NoBlindReplace

\* No bundle is ever left half written or half deleted (apply_target,
\* delete_displaced).
THEOREM WholeBundlesHolds == Spec => []WholeBundles
<1>1. Init => WholeBundles
  BY DEF Init, WholeBundles, Private, Journalled
<1>2. IInv /\ IInv' /\ [Next]_vars /\ WholeBundles => WholeBundles'
  <2> SUFFICES ASSUME IInv, IInv', [Next]_vars, WholeBundles PROVE WholeBundles'
    OBVIOUS
  <2>1. CASE Private' = Private
    BY <2>1 DEF WholeBundles
  <2>2. CASE /\ authority' = authority + 1 /\ UNCHANGED <<files, journal>>
             /\ Journalled => AtBase
    <3>1. CASE ~Journalled
      <4>1. Private' = Private
        BY <2>2, <3>1 DEF Private, Journalled
      <4> QED
        BY <4>1 DEF WholeBundles
    <3>2. CASE Journalled
      <4>1. /\ Journalled' /\ AtBase /\ ~AtBase' /\ Shaped(journal)
        BY <2>2, <3>2 DEF Journalled, AtBase, IInv, Explained, TypeOK
      <4>2. \A f \in File :
              Private'[f] = IF journal.new[f] # None THEN journal.new[f]
                            ELSE IF BundleOf[f] \in journal.displaced THEN None
                            ELSE files[f]
        BY <2>2, <4>1 DEF Private, Written
      <4>3. \A f \in File : journal.new[f] = None => Private[f] = files[f]
        BY <3>2, <4>1 DEF Private, Written
      <4> QED
        BY <4>1, <4>2, <4>3 DEF WholeBundles, Shaped
    <3> QED
      BY <3>1, <3>2
  <2> QED
    BY <2>1, <2>2, AtomicStep
<1> QED
  BY <1>1, <1>2, TransactionInvariance, PTL DEF Spec

=============================================================================
