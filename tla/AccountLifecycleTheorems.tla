----------------------- MODULE AccountLifecycleTheorems -----------------------
(***************************************************************************)
(* What holds of one account location for every number of processes,      *)
(* documents, inodes, commands and interruptions.  The argument follows    *)
(* one candidate: until its installing call its inode is behind no final   *)
(* name of any directory a power loss may leave, its bytes are complete    *)
(* before it is installed, and nothing is installed over an authority      *)
(* whose exact copy is not in the directory.  A second invariant says what *)
(* an interruption may leave: one temporary, tied to nothing but its final *)
(* name, which the next command can therefore always resolve.              *)
(***************************************************************************)
EXTENDS AccountLifecycle, FiniteSetTheorems, WellFoundedInduction, TLAPS

USE FilesAssumption, LifecycleAssumption

-----------------------------------------------------------------------------
(* The shapes of names, files and operations.                              *)

AnyDocument == Document \cup {NoDocument, NoPrototype, InvalidPrototype} \cup Prototypes
AnyGeneration == {"v0", "v1", "v2", "torn", "future", "receipt"}
AnyPayload == [gen : AnyGeneration, doc : AnyDocument]
AnyFile == [node : Nat, data : AnyPayload]
AnyName ==
  [kind : {"authority", "backup", "receipt", "temporary", "none"},
   gen : AnyGeneration \cup ArtifactPurpose \cup {"any", "none"},
   doc : AnyDocument, slot : Nat]
Kinds == {"publish", "commit", "recover", "destroy", "delete", "revalidate",
          "current", "imported", "rolled_back", "reset_complete", "saved"}
AnyOp == [kind : Kinds, name : AnyName, data : AnyPayload, expected : AnyFile]

JobFields == {"todo", "at", "temp", "file", "code", "recovered", "orphaned", "mutated"}
ProcFields == {"pc", "command", "base", "code", "held"}

Shapes ==
  /\ DOMAIN job = JobFields /\ job.todo \in Seq(AnyOp) /\ job.file \in AnyFile
  /\ job.temp.kind \in {"none", "temporary"}
  /\ DOMAIN proc = Process
  /\ \A p \in Process : DOMAIN proc[p] = ProcFields /\ proc[p].base \in AnyFile
  /\ prototype \in AnyDocument /\ edits \in Nat

-----------------------------------------------------------------------------
(* The inductive invariant.                                                *)

\* What a directory may hold under a final name.
Whole(n, data) ==
  /\ n.kind = "authority" => data # Torn
  /\ n.kind = "backup" => data = Payload(n.gen, n.doc) /\ n.gen \in AuthorityGeneration
  /\ n.kind = "receipt" => ValidReceipt(n, data)

Sound(d) ==
  /\ DOMAIN d \subseteq AnyName
  /\ \A n \in DOMAIN d : d[n] \in AnyFile /\ Whole(n, d[n].data)
  /\ Authority \notin DOMAIN d => \A n \in Backups(d) : n.gen = "v2"

Media == dir \in durable /\ \A d \in durable : Sound(d)

\* What an operation of a plan asks for: whole files under final names, and the
\* copy of a backup only while there is an authority.
Planned(op) ==
  /\ op.kind \in {"publish", "commit"} =>
       op.name.kind \in {"authority", "backup", "receipt"} /\ Whole(op.name, op.data)
  /\ op.kind = "commit" => op.name = Authority /\ op.data.gen \in AuthorityGeneration
  /\ op.kind = "publish" => op.name.kind # "authority"
  /\ op.kind = "publish" /\ op.name.kind = "receipt" => op.name.gen = "receipt"
  /\ op.kind = "publish" /\ op.name.kind = "backup" => op.expected # NoFile
  /\ op.kind = "recover" => op.name.kind = "temporary"

Pending == \E i \in 1..Len(job.todo) : job.todo[i].kind \in {"publish", "commit"}
Plans ==
  \A i \in 1..Len(job.todo) :
    Planned(job.todo[i]) /\ (job.todo[i].kind \in {"delete", "recover"} => ~ Pending)

\* Between a copy and its replacement nothing of the plan but the two is left.
BackedUp(i) ==
  LET copy == BackupName(job.todo[i].expected.data)
  IN \/ copy \in DOMAIN dir
     \/ i > 1 /\ job.todo[i - 1].kind = "publish" /\ job.todo[i - 1].name = copy
Backed ==
  lock \in Process /\ Converting(proc[lock].command) =>
    \A i \in 1..Len(job.todo) :
      job.todo[i].kind = "commit" /\ job.todo[i].expected # NoFile => BackedUp(i)

Preparing == {"write", "check", "install", "discard", "discarded"}
Installed == {"unlink", "harden", "prove", "clean"}

\* Which operation each filesystem call belongs to.
Position ==
  /\ job.at \in Preparing \cup Installed => job.todo # <<>> /\ Head1.kind \in {"publish", "commit"}
  /\ job.at \in {"unlink", "prove"} => Head1.kind = "commit"
  /\ job.at = "clean" => Head1.kind = "publish"
  /\ job.at = "settle" => job.todo # <<>> /\ Head1.kind \in {"publish", "recover"}
  /\ job.at \in {"harden", "clean", "settle"} /\ Head1.kind = "publish" => Head1.name \in DOMAIN dir
  /\ job.at \in {"reset", "removed"} => job.todo # <<>> /\ Head1.kind = "delete"

\* The candidate: its inode is its own, and behind no final name before it is installed.
Private(d) == \A n \in DOMAIN d : d[n].node = job.file.node => n.kind = "temporary"
Known == \E d \in durable : \E n \in DOMAIN d : d[n].node = job.file.node
Candidate ==
  /\ job.at \in Preparing => Known /\ \A d \in durable : Private(d)
  /\ job.at \in {"write", "check", "install"} =>
       job.temp \in DOMAIN dir /\ dir[job.temp].node = job.file.node /\ job.file.data = Head1.data
  /\ job.at \in {"check", "install"} => dir[job.temp] = job.file
  /\ job.at = "install" =>
       /\ Head1.name.kind = "backup" => Authority \in DOMAIN dir
       /\ Replacing => FileAt(dir, Authority) = Head1.expected

\* What was installed stays, unless a released writer came.
Stays ==
  job.at \in Installed /\ Head1.kind = "commit" =>
    /\ job.file # NoFile /\ Committed(dir)
    /\ job.at = "prove" \/ platform = "windows" => \A d \in durable : Committed(d)

\* The plan is the holder's.
Holding == {"locked", "running", "releasing"}
Held ==
  /\ \A p \in Process : proc[p].pc \in Holding \/ proc[p].held => lock = p
  /\ \A p \in Process : proc[p].held => proc[p].pc = "idle"
  /\ job.todo # <<>> => lock \in Process /\ proc[lock].pc = "running"

LifecycleInv == Shapes /\ Media /\ Plans /\ Backed /\ Position /\ Candidate /\ Stays /\ Held

-----------------------------------------------------------------------------
(* Directories.                                                            *)

LEMMA AuthorityName == Authority.kind = "authority" /\ Authority \in AnyName
BY DEF Authority, Name, AnyName, AnyDocument

\* Removing a name other than the authority leaves a sound directory.
LEMMA RemoveKeeps ==
  ASSUME NEW d, Sound(d), NEW n, n # Authority
  PROVE  Sound(Remove(d, n))
BY DEF Sound, Remove, Backups

\* So does removing the authority when no older backup is left.
LEMMA RemoveAuthority ==
  ASSUME NEW d, Sound(d), \A n \in Backups(d) : n.gen = "v2"
  PROVE  Sound(Remove(d, Authority))
BY AuthorityName DEF Sound, Remove, Backups

\* A file may be put under a name that it fits.
LEMMA PutKeeps ==
  ASSUME NEW d, Sound(d), NEW n \in AnyName, NEW f \in AnyFile, Whole(n, f.data),
         n.kind = "backup" => Authority \in DOMAIN d
  PROVE  Sound(Put(d, n, f))
BY AuthorityName DEF Sound, Put, Backups

\* The file of an older authority is one; the file that is not there is torn.
LEMMA FileIsSound ==
  ASSUME NEW d, Sound(d)
  PROVE  /\ FileAt(d, Authority) \in AnyFile
         /\ Authority \in DOMAIN d <=> FileAt(d, Authority).data # Torn
         /\ Authority \notin DOMAIN d => FileAt(d, Authority) = NoFile
<1>1. NoFile \in AnyFile /\ NoFile.data = Torn
  BY DEF NoFile, AnyFile, AnyPayload, Torn, Payload, AnyDocument, AnyGeneration
<1> QED
  BY <1>1, AuthorityName DEF Sound, FileAt, Whole

LEMMA FreeNodes ==
  ASSUME HasFreeNode
  PROVE  /\ FreeNode \in Nat
         /\ \A d \in durable : \A n \in DOMAIN d : d[n].node # FreeNode
<1>1. FreeNode \in Inode \ UsedNodes
  BY DEF FreeNode, HasFreeNode
<1>2. \A d \in durable : \A n \in DOMAIN d : d[n].node \in UsedNodes
  BY DEF UsedNodes
<1> QED
  BY <1>1, <1>2

\* The calls that change the directory keep what a power loss may leave sound.
LEMMA MediaSteps ==
  ASSUME Media
  PROVE  /\ UNCHANGED <<dir, durable>> => Media'
         /\ \A d : Sound(d) /\ (Change(d) \/ WriteThrough(d)) => Media'
         /\ Harden => Media' /\ dir' = dir /\ durable' \subseteq durable
         /\ dir' \in durable /\ durable' = {dir'} => Media'
BY DEF Media, Change, WriteThrough, Harden, PosixHarden, WindowsHarden

-----------------------------------------------------------------------------
(* Jobs.                                                                   *)

BackupsStay == \A n \in DOMAIN dir : n.kind = "backup" => n \in DOMAIN dir'
Working(p) == lock = p /\ proc[p].pc = "running"

LEMMA NoJobShape ==
  /\ DOMAIN NoJob = JobFields /\ NoJob.todo = <<>> /\ NoJob.file \in AnyFile
  /\ NoJob.temp.kind = "none" /\ NoJob.at = "none"
BY DEF NoJob, JobFields, NoFile, AnyFile, AnyPayload, Torn, Payload, AnyDocument, AnyGeneration,
       NoName, Name

\* Without a job there is only the medium to look after.
LEMMA WithoutJob ==
  ASSUME job' = NoJob, Media', DOMAIN proc' = Process,
         \A p \in Process : DOMAIN proc'[p] = ProcFields /\ proc'[p].base \in AnyFile,
         prototype' \in AnyDocument, edits' \in Nat,
         \A p \in Process : proc'[p].pc \in Holding \/ proc'[p].held => lock' = p,
         \A p \in Process : proc'[p].held => proc'[p].pc = "idle"
  PROVE  LifecycleInv'
<1>1. /\ DOMAIN job' = JobFields /\ job'.todo = <<>> /\ job'.file \in AnyFile
      /\ job'.temp.kind = "none" /\ job'.at = "none"
  BY NoJobShape
<1>2. Len(job'.todo) = 0 /\ job'.todo \in Seq(AnyOp)
  BY <1>1
<1>3. Shapes' /\ Held'
  BY <1>1, <1>2 DEF Shapes, Held
<1>4. Plans' /\ Backed'
  BY <1>2 DEF Plans, Backed
<1>5. Position' /\ Candidate' /\ Stays'
  BY <1>1 DEF Position, Candidate, Stays, Preparing, Installed
<1> QED
  BY <1>3, <1>4, <1>5 DEF LifecycleInv

\* A command that is over for its transaction.
LEMMA FinishKeeps ==
  ASSUME LifecycleInv, NEW p \in Process, lock = p, proc[p].pc \in {"running", "locked"},
         NEW code, Finish(p, code), Media', UNCHANGED <<prototype, lock, edits>>
  PROVE  LifecycleInv'
<1>1. /\ job' = NoJob /\ DOMAIN proc' = Process
      /\ \A q \in Process : DOMAIN proc'[q] = ProcFields /\ proc'[q].base = proc[q].base
                            /\ proc'[q].held = proc[q].held
      /\ \A q \in Process \ {p} : proc'[q] = proc[q]
      /\ proc'[p].pc = "releasing"
  BY DEF Finish, LifecycleInv, Shapes, ProcFields
<1>2. ~ proc[p].held
  BY DEF LifecycleInv, Held
<1> QED
  BY <1>1, <1>2, WithoutJob DEF LifecycleInv, Shapes, Held

LEMMA FailKeeps ==
  ASSUME LifecycleInv, NEW p \in Process, NEW step, At(p, step), NEW code, Fail(p, code), Media', Still
  PROVE  LifecycleInv'
BY FinishKeeps DEF At, Fail, Still

\* A call inside an operation: the plan stays, and is the holder's.
LEMMA WithinKeeps ==
  ASSUME LifecycleInv, NEW p \in Process, Working(p), Still, UNCHANGED proc, Media', BackupsStay,
         DOMAIN job' = JobFields, job'.todo = job.todo, job'.file \in AnyFile,
         job'.temp.kind \in {"none", "temporary"}
  PROVE  Shapes' /\ Media' /\ Plans' /\ Backed' /\ Held'
<1>1. Shapes'
  BY DEF LifecycleInv, Shapes, Still
<1>2. Plans'
  BY DEF LifecycleInv, Plans, Pending
<1>3. Held'
  BY DEF LifecycleInv, Held, Still, Working
<1>4. Backed'
  <2> SUFFICES ASSUME lock' \in Process, Converting(proc'[lock'].command),
                      NEW i \in 1..Len(job'.todo), job'.todo[i].kind = "commit",
                      job'.todo[i].expected # NoFile
               PROVE  BackedUp(i)'
    BY DEF Backed
  <2>1. BackedUp(i)
    BY DEF LifecycleInv, Backed, Still
  <2>2. BackupName(job.todo[i].expected.data).kind = "backup"
    BY DEF BackupName, Name
  <2> QED
    BY <2>1, <2>2 DEF BackedUp, BackupsStay
<1> QED
  BY <1>1, <1>2, <1>3, <1>4

\* An operation that is done: what it published is there.
LEMMA AdvanceStep ==
  ASSUME LifecycleInv, NEW p \in Process, Working(p), UNCHANGED <<prototype, lock, edits>>, Advance, Media', BackupsStay,
         job.todo # <<>>, Head1.kind = "publish" => Head1.name \in DOMAIN dir'
  PROVE  LifecycleInv'
<1>1. /\ DOMAIN job' = JobFields /\ job'.todo = Tail(job.todo) /\ job'.file = NoFile
      /\ job'.temp = NoName /\ job'.at = "next" /\ UNCHANGED proc
  BY DEF Advance, LifecycleInv, Shapes, JobFields
<1>2. job.todo \in Seq(AnyOp) /\ Len(job.todo) \in Nat /\ Len(job.todo) # 0
  BY DEF LifecycleInv, Shapes
<1>3. /\ job'.todo \in Seq(AnyOp) /\ Len(job'.todo) = Len(job.todo) - 1
      /\ \A i \in 1..Len(job'.todo) : i + 1 \in 1..Len(job.todo) /\ job'.todo[i] = job.todo[i + 1]
  BY <1>1, <1>2
<1>4. Head1 = job.todo[1]
  BY <1>2 DEF Head1
<1>5. Shapes'
  <2>1. NoFile \in AnyFile /\ NoName.kind = "none"
    BY NoJobShape DEF NoJob
  <2> QED
    BY <1>1, <1>3, <2>1 DEF LifecycleInv, Shapes
<1>6. Plans'
  BY <1>3 DEF LifecycleInv, Plans, Pending
<1>7. Held'
  BY <1>1 DEF LifecycleInv, Held, Working
<1>8. Position' /\ Candidate' /\ Stays'
  BY <1>1 DEF Position, Candidate, Stays, Preparing, Installed
<1>9. Backed'
  <2> SUFFICES ASSUME lock' \in Process, Converting(proc'[lock'].command),
                      NEW i \in 1..Len(job'.todo), job'.todo[i].kind = "commit",
                      job'.todo[i].expected # NoFile
               PROVE  BackedUp(i)'
    BY DEF Backed
  <2> DEFINE j == i + 1
             copy == BackupName(job.todo[j].expected.data)
  <2>1. j \in 1..Len(job.todo) /\ job'.todo[i] = job.todo[j]
    BY <1>3
  <2>2. BackedUp(j)
    BY <1>1, <2>1 DEF LifecycleInv, Backed
  <2>3. copy.kind = "backup"
    BY DEF BackupName, Name
  <2>4. CASE copy \in DOMAIN dir
    BY <2>1, <2>3, <2>4 DEF BackedUp, BackupsStay
  <2>5. CASE job.todo[j - 1].kind = "publish" /\ job.todo[j - 1].name = copy
    <3>1. CASE i = 1
      <4>1. copy \in DOMAIN dir'
        BY <1>4, <2>5, <3>1
      <4> QED
        BY <2>1, <4>1 DEF BackedUp
    <3>2. CASE i # 1
      <4>1. i - 1 \in 1..Len(job'.todo) /\ j - 1 = (i - 1) + 1
        BY <1>3, <3>2
      <4>2. job'.todo[i - 1] = job.todo[j - 1] /\ i > 1
        BY <1>3, <3>2, <4>1
      <4> QED
        BY <2>1, <2>5, <4>2 DEF BackedUp
    <3> QED
      BY <3>1, <3>2
  <2> QED
    BY <2>2, <2>4, <2>5 DEF BackedUp
<1> QED
  BY <1>5, <1>6, <1>7, <1>8, <1>9 DEF LifecycleInv

LEMMA AdvanceKeeps ==
  ASSUME LifecycleInv, NEW p \in Process, Working(p), Still, Advance, Media', BackupsStay,
         job.todo # <<>>, Head1.kind = "publish" => Head1.name \in DOMAIN dir'
  PROVE  LifecycleInv'
BY AdvanceStep DEF Still

-----------------------------------------------------------------------------
(* Publishing and committing.                                              *)

LEMMA HeadIsPlanned ==
  ASSUME LifecycleInv, job.todo # <<>>
  PROVE  /\ Head1 = job.todo[1] /\ Head1 \in AnyOp /\ Planned(Head1)
         /\ Head1.kind \in {"delete", "recover"} => ~ Pending
BY DEF LifecycleInv, Shapes, Plans, Head1

LEMMA GotoKeeps ==
  ASSUME LifecycleInv, NEW p \in Process, NEW step, At(p, step), Still, Media', BackupsStay,
         NEW next, Goto(next) \/ (\E code : Abandon(code) /\ next = "discard")
  PROVE  /\ Shapes' /\ Media' /\ Plans' /\ Backed' /\ Held'
         /\ job'.at = next /\ job'.todo = job.todo /\ job'.file = job.file /\ job'.temp = job.temp
         /\ UNCHANGED proc
<1>1. /\ DOMAIN job' = JobFields /\ job'.at = next /\ job'.todo = job.todo
      /\ job'.file = job.file /\ job'.temp = job.temp /\ UNCHANGED proc
  BY DEF Goto, Abandon, LifecycleInv, Shapes, JobFields
<1>2. job.file \in AnyFile /\ job.temp.kind \in {"none", "temporary"} /\ Working(p)
  BY DEF LifecycleInv, Shapes, At, Working
<1> QED
  BY <1>1, <1>2, WithinKeeps

\* A candidate that is given up is still no final name.
LEMMA AbandonKeeps ==
  ASSUME LifecycleInv, NEW p \in Process, NEW step \in Preparing, At(p, step), Still, NoChange,
         NEW code, Abandon(code)
  PROVE  LifecycleInv'
<1>1. Media' /\ BackupsStay
  BY MediaSteps DEF NoChange, LifecycleInv, BackupsStay
<1>2. /\ Shapes' /\ Media' /\ Plans' /\ Backed' /\ Held'
      /\ job'.at = "discard" /\ job'.todo = job.todo /\ job'.file = job.file
  BY <1>1, GotoKeeps
<1>3. Position'
  BY <1>2 DEF LifecycleInv, Position, At, Head1, Preparing, Installed
<1>4. Candidate'
  BY <1>2 DEF LifecycleInv, Candidate, At, NoChange, Known, Private, Preparing
<1>5. Stays'
  BY <1>2 DEF Stays, Installed
<1> QED
  BY <1>2, <1>3, <1>4, <1>5 DEF LifecycleInv

LEMMA CreateKeeps ==
  ASSUME LifecycleInv, NEW p \in Process, StartOf(p, "publish") \/ StartOf(p, "commit"),
         CreateCandidate, Still
  PROVE  LifecycleInv'
<1> PICK s \in Slot :
      /\ TemporaryName(Purpose(Head1), s) \notin DOMAIN dir
      /\ Change(Put(dir, TemporaryName(Purpose(Head1), s), [node |-> FreeNode, data |-> Torn]))
      /\ job' = [job EXCEPT !.at = "write", !.temp = TemporaryName(Purpose(Head1), s),
                            !.file = [[node |-> FreeNode, data |-> Torn] EXCEPT !.data = Head1.data]]
      /\ UNCHANGED proc /\ HasFreeNode
  BY DEF CreateCandidate
<1> DEFINE t == TemporaryName(Purpose(Head1), s)
           f == [node |-> FreeNode, data |-> Torn]
           e == Put(dir, t, f)
<1>1. job.todo # <<>> /\ Head1 \in AnyOp /\ Head1.kind \in {"publish", "commit"} /\ Working(p)
  BY HeadIsPlanned DEF StartOf, At, Working
<1>2. t \in AnyName /\ t.kind = "temporary" /\ t # Authority
  <2>1. Purpose(Head1) \in ArtifactPurpose
    BY DEF Purpose, ArtifactPurpose
  <2> QED
    BY <2>1, AuthorityName DEF TemporaryName, Name, AnyName, AnyDocument
<1>3. f \in AnyFile /\ f.node = FreeNode /\ f.data = Torn
  BY FreeNodes DEF AnyFile, AnyPayload, Torn, Payload, AnyGeneration, AnyDocument
<1>4. Sound(e)
  BY <1>2, <1>3, PutKeeps DEF LifecycleInv, Media, Whole
<1>5. Change(e) /\ dir' = e /\ durable' = durable \cup {e}
  BY DEF Change
<1>6. Media' /\ BackupsStay
  BY <1>4, <1>5, MediaSteps DEF LifecycleInv, BackupsStay, Put
<1>7. /\ DOMAIN job' = JobFields /\ job'.at = "write" /\ job'.todo = job.todo /\ job'.temp = t
      /\ job'.file = [node |-> FreeNode, data |-> Head1.data]
  BY DEF LifecycleInv, Shapes, JobFields
<1> HIDE DEF t, f, e
<1>8. job'.file \in AnyFile /\ job'.file.node = FreeNode /\ job'.file.data = Head1.data
  BY <1>1, <1>7, FreeNodes DEF AnyFile, AnyOp
<1>9. Shapes' /\ Media' /\ Plans' /\ Backed' /\ Held'
  BY <1>1, <1>2, <1>6, <1>7, <1>8, WithinKeeps
<1>10. Position' /\ Stays'
  BY <1>1, <1>7 DEF Position, Stays, Preparing, Installed, Head1
<1>11. Candidate'
  <2>1. DOMAIN e = DOMAIN dir \cup {t} /\ e[t] = f /\ \A n \in DOMAIN dir \ {t} : e[n] = dir[n]
    BY DEF e, Put
  <2>2. Known'
    BY <1>3, <1>5, <1>8, <2>1 DEF Known
  <2>3. \A d \in durable' : Private(d)'
    BY <1>2, <1>5, <1>8, <2>1, FreeNodes DEF Private, LifecycleInv, Media
  <2>4. t \in DOMAIN dir' /\ dir'[t].node = FreeNode
    BY <1>3, <1>5, <2>1
  <2> QED
    BY <1>7, <1>8, <2>2, <2>3, <2>4 DEF Candidate, Preparing, Head1
<1> QED
  BY <1>9, <1>10, <1>11 DEF LifecycleInv

LEMMA StartKeeps ==
  ASSUME LifecycleInv, NEW p \in Process, StartPublish(p) \/ StartCommit(p)
  PROVE  LifecycleInv'
<1>1. ASSUME StartPublish(p), Advance, NoChange, Head1.name \in DOMAIN dir PROVE LifecycleInv'
  <2>1. Media' /\ BackupsStay
    BY <1>1, MediaSteps DEF NoChange, LifecycleInv, BackupsStay
  <2> QED
    BY <1>1, <2>1, AdvanceKeeps DEF StartPublish, StartOf, At, Working, NoChange
<1>2. ASSUME StartPublish(p), NEW code, Fail(p, code), NoChange PROVE LifecycleInv'
  BY <1>2, FailKeeps, MediaSteps DEF StartPublish, StartOf, NoChange, LifecycleInv
<1>3. CASE StartPublish(p)
  BY <1>1, <1>2, <1>3, CreateKeeps DEF StartPublish
<1>4. CASE StartCommit(p)
  BY <1>4, CreateKeeps DEF StartCommit
<1> QED
  BY <1>3, <1>4

LEMMA WriteKeeps ==
  ASSUME LifecycleInv, NEW p \in Process, Write(p)
  PROVE  LifecycleInv'
<1> DEFINE written(d) == [n \in DOMAIN d |-> IF d[n].node = job.file.node THEN job.file ELSE d[n]]
<1>1. /\ At(p, "write") /\ Still /\ Goto("check")
      /\ dir' = written(dir) /\ durable' = {written(d) : d \in durable}
  BY DEF Write
<1>2. /\ Known /\ \A d \in durable : Private(d)
      /\ job.temp \in DOMAIN dir /\ dir[job.temp].node = job.file.node /\ job.file.data = Head1.data
      /\ job.file \in AnyFile
  BY <1>1 DEF LifecycleInv, Candidate, Shapes, At, Preparing
<1>3. \A d \in durable :
        /\ DOMAIN written(d) = DOMAIN d
        /\ \A n \in DOMAIN d : /\ written(d)[n].node = d[n].node
                               /\ n.kind # "temporary" => written(d)[n] = d[n]
                               /\ d[n].node = job.file.node => written(d)[n] = job.file
                               /\ written(d)[n] \in {d[n], job.file}
  BY <1>2 DEF Private
<1> HIDE DEF written
<1>4. \A d \in durable : Sound(written(d))
  BY <1>2, <1>3 DEF LifecycleInv, Media, Sound, Backups, Whole
<1>5. Media' /\ BackupsStay
  BY <1>1, <1>3, <1>4 DEF LifecycleInv, Media, BackupsStay
<1>6. /\ Shapes' /\ Media' /\ Plans' /\ Backed' /\ Held'
      /\ job'.at = "check" /\ job'.todo = job.todo /\ job'.file = job.file /\ job'.temp = job.temp
  BY <1>1, <1>5, GotoKeeps
<1>7. Position' /\ Stays'
  BY <1>1, <1>6 DEF LifecycleInv, Position, Stays, At, Head1, Preparing, Installed
<1>8. Known' /\ (\A d \in durable' : Private(d)')
  BY <1>1, <1>2, <1>3, <1>6 DEF Known, Private
<1>9. job'.temp \in DOMAIN dir' /\ dir'[job'.temp] = job'.file
  BY <1>1, <1>2, <1>3, <1>6 DEF LifecycleInv, Media
<1>10. Candidate'
  BY <1>2, <1>6, <1>8, <1>9 DEF Candidate, Head1
<1> QED
  BY <1>6, <1>7, <1>10 DEF LifecycleInv

LEMMA CheckKeeps ==
  ASSUME LifecycleInv, NEW p \in Process, RequireExpectedAuthority(p)
  PROVE  LifecycleInv'
<1> DEFINE error == IF Head1.kind = "publish" /\ Head1.expected = NoFile THEN "none"
                    ELSE ExpectationError(dir, Head1.expected)
<1>1. /\ At(p, "check") /\ Still /\ NoChange
      /\ IF error = "none" THEN Goto("install") ELSE Abandon(error)
  BY DEF RequireExpectedAuthority
<1>2. CASE error # "none"
  BY <1>1, <1>2, AbandonKeeps DEF Preparing
<1>3. CASE error = "none"
  <2>1. Media' /\ BackupsStay
    BY <1>1, MediaSteps DEF NoChange, LifecycleInv, BackupsStay
  <2>2. /\ Shapes' /\ Media' /\ Plans' /\ Backed' /\ Held'
        /\ job'.at = "install" /\ job'.todo = job.todo /\ job'.file = job.file
        /\ job'.temp = job.temp
    BY <1>1, <1>3, <2>1, GotoKeeps
  <2>3. job.todo # <<>> /\ Head1.kind \in {"publish", "commit"} /\ Planned(Head1)
    BY <1>1, HeadIsPlanned DEF LifecycleInv, Position, At, Preparing
  <2>4. Head1.kind = "commit" \/ Head1.name.kind = "backup" =>
          FileAt(dir, Authority) = Head1.expected
    BY <1>3, <2>3 DEF ExpectationError, Planned
  <2>5. Head1.name.kind = "backup" => Authority \in DOMAIN dir
    BY <2>3, <2>4, FileIsSound, AuthorityName DEF Planned, LifecycleInv, Media
  <2>6. Position' /\ Stays'
    BY <1>1, <2>2 DEF LifecycleInv, Position, Stays, At, Head1, Preparing, Installed
  <2>7. Candidate'
    BY <1>1, <2>2, <2>4, <2>5
       DEF LifecycleInv, Candidate, At, NoChange, Known, Private, Head1, Replacing, Preparing
  <2> QED
    BY <2>2, <2>6, <2>7 DEF LifecycleInv
<1> QED
  BY <1>2, <1>3

\* What an installing call leaves: the candidate under its final name.
LEMMA InstalledIsSound ==
  ASSUME LifecycleInv, NEW p \in Process, At(p, "install"),
         NEW kept, kept = dir \/ kept = Remove(dir, job.temp)
  PROVE  LET e == Put(kept, Head1.name, dir[job.temp])
         IN /\ Sound(e) /\ Head1.name \in DOMAIN e /\ \A n \in DOMAIN dir : n.kind = "backup" => n \in DOMAIN e
            /\ Head1.kind = "commit" =>
                 /\ Head1.name = Authority /\ e[Authority] = job.file
                 /\ FileAt(e, Authority) = job.file /\ job.file # NoFile
            /\ Head1.kind \in {"publish", "commit"} /\ job.todo # <<>>
<1> DEFINE e == Put(kept, Head1.name, dir[job.temp])
<1>1. job.todo # <<>> /\ Head1.kind \in {"publish", "commit"} /\ Planned(Head1) /\ Head1 \in AnyOp
  BY HeadIsPlanned DEF LifecycleInv, Position, At, Preparing
<1>2. /\ job.temp \in DOMAIN dir /\ dir[job.temp] = job.file /\ job.file.data = Head1.data
      /\ Head1.name.kind = "backup" => Authority \in DOMAIN dir
      /\ job.file \in AnyFile /\ job.temp.kind \in {"none", "temporary"}
  BY DEF LifecycleInv, Candidate, Shapes, At
<1>3. job.temp # Authority
  BY <1>2, AuthorityName
<1>4. Sound(kept) /\ (Authority \in DOMAIN kept <=> Authority \in DOMAIN dir)
  BY <1>3, RemoveKeeps DEF LifecycleInv, Media, Remove
<1>5. Sound(e)
  BY <1>1, <1>2, <1>4, PutKeeps DEF Planned, AnyOp
<1>6. DOMAIN e = DOMAIN kept \cup {Head1.name} /\ e[Head1.name] = job.file
  BY <1>2 DEF Put
<1>7. \A n \in DOMAIN dir : n.kind = "backup" => n \in DOMAIN e
  BY <1>2, <1>6 DEF Remove
<1>8. Head1.kind = "commit" =>
        /\ Head1.name = Authority /\ e[Authority] = job.file
        /\ FileAt(e, Authority) = job.file /\ job.file # NoFile
  BY <1>1, <1>2, <1>5, <1>6, FileIsSound DEF Planned, NoFile, FileAt
<1> QED
  BY <1>1, <1>5, <1>6, <1>7, <1>8

LEMMA AfterInstall ==
  ASSUME LifecycleInv, NEW p \in Process, At(p, "install"), Still, Works,
         NEW kept, kept = dir \/ kept = Remove(dir, job.temp),
         LET e == Put(kept, Head1.name, dir[job.temp])
         IN \/ platform = "posix" /\ Change(e)
            \/ WriteThrough(e),
         NEW next, Goto(next),
         next = "harden" \/ (next = "unlink" /\ Head1.kind = "commit" /\ platform = "posix")
  PROVE  LifecycleInv'
<1> DEFINE e == Put(kept, Head1.name, dir[job.temp])
<1>1. /\ Sound(e) /\ Head1.name \in DOMAIN e /\ \A n \in DOMAIN dir : n.kind = "backup" => n \in DOMAIN e
      /\ Head1.kind = "commit" => FileAt(e, Authority) = job.file /\ job.file # NoFile
      /\ Head1.kind \in {"publish", "commit"} /\ job.todo # <<>>
  BY InstalledIsSound
<1> HIDE DEF e
<1>2. (platform = "posix" /\ Change(e)) \/ WriteThrough(e)
  BY DEF e
<1>3. dir' = e
  BY <1>2 DEF Change, WriteThrough
<1>4. Media' /\ BackupsStay
  BY <1>1, <1>2, <1>3, MediaSteps DEF LifecycleInv, BackupsStay
<1>5. /\ Shapes' /\ Media' /\ Plans' /\ Backed' /\ Held'
      /\ job'.at = next /\ job'.todo = job.todo /\ job'.file = job.file
  BY <1>4, GotoKeeps
<1>6. Position' /\ Candidate'
  BY <1>1, <1>3, <1>5 DEF Position, Candidate, Head1, Preparing, Installed
<1>7. Stays'
  <2>1. ASSUME Head1.kind = "commit" PROVE Committed(dir)'
    BY <1>1, <1>3, <1>5, <2>1 DEF Committed
  <2>2. platform' = "windows" => durable' = {dir'}
    BY <1>2, <1>3 DEF WriteThrough, Still
  <2> QED
    BY <1>1, <1>5, <2>1, <2>2 DEF Stays, Head1
<1> QED
  BY <1>5, <1>6, <1>7 DEF LifecycleInv

LEMMA InstallKeeps ==
  ASSUME LifecycleInv, NEW p \in Process, PosixReplace(p) \/ PosixLink(p) \/ WindowsMove(p)
  PROVE  LifecycleInv'
<1>1. CASE PosixReplace(p)
  BY <1>1, AfterInstall DEF PosixReplace, Moved
<1>2. CASE PosixLink(p)
  <2>1. CASE Head1.name \in DOMAIN dir
    BY <1>2, <2>1, AbandonKeeps DEF PosixLink, Preparing
  <2>2. CASE Head1.name \notin DOMAIN dir
    <3> DEFINE next == IF Head1.kind = "commit" THEN "unlink" ELSE "harden"
    <3>1. At(p, "install") /\ platform = "posix" /\ Still /\ Works
          /\ Change(Put(dir, Head1.name, dir[job.temp])) /\ Goto(next)
      BY <1>2, <2>2 DEF PosixLink
    <3> QED
      BY <3>1, AfterInstall
  <2> QED
    BY <2>1, <2>2
<1>3. CASE WindowsMove(p)
  <2>1. CASE ~ Replacing /\ Head1.name \in DOMAIN dir
    BY <1>3, <2>1, AbandonKeeps DEF WindowsMove, Preparing
  <2>2. CASE ~ (~ Replacing /\ Head1.name \in DOMAIN dir)
    BY <1>3, <2>2, AfterInstall DEF WindowsMove, Moved
  <2> QED
    BY <2>1, <2>2
<1> QED
  BY <1>1, <1>2, <1>3

\* Removing the temporary of an operation, wherever it is in it.
LEMMA TemporaryRemoved ==
  ASSUME LifecycleInv, Change(Remove(dir, job.temp))
  PROVE  /\ Media' /\ BackupsStay /\ dir' = Remove(dir, job.temp) /\ durable' = durable \cup {dir'}
         /\ FileAt(dir', Authority) = FileAt(dir, Authority)
         /\ \A n \in DOMAIN dir : n.kind # "temporary" /\ n.kind # "none" => n \in DOMAIN dir'
<1>1. job.temp.kind \in {"none", "temporary"} /\ job.temp # Authority
  BY AuthorityName DEF LifecycleInv, Shapes
<1>2. Media' /\ dir' = Remove(dir, job.temp) /\ durable' = durable \cup {dir'}
  BY <1>1, MediaSteps, RemoveKeeps DEF LifecycleInv, Media, Change
<1> QED
  BY <1>1, <1>2 DEF BackupsStay, Remove, FileAt

LEMMA CallsKeep ==
  ASSUME LifecycleInv, NEW p \in Process, PosixUnlink(p) \/ HardenFinal(p) \/ Prove(p) \/ CleanPublished(p)
  PROVE  LifecycleInv'
<1>1. CASE PosixUnlink(p)
  <2>1. At(p, "unlink") /\ Still /\ Change(Remove(dir, job.temp)) /\ Goto("harden") /\ Works
    BY <1>1 DEF PosixUnlink
  <2>2. /\ Shapes' /\ Media' /\ Plans' /\ Backed' /\ Held'
        /\ job'.at = "harden" /\ job'.todo = job.todo /\ job'.file = job.file
    BY <2>1, TemporaryRemoved, GotoKeeps
  <2>3. Head1.kind = "commit" /\ job.todo # <<>> /\ Committed(dir)
        /\ (platform = "windows" => \A d \in durable : Committed(d)) /\ job.file # NoFile
    BY <2>1 DEF LifecycleInv, Position, Stays, At, Installed
  <2>4. \A d : Committed(d) => Committed(d)'
    BY <2>1, <2>2 DEF Committed, Still
  <2>5. Committed(dir)'
    BY <2>1, <2>2, <2>3, TemporaryRemoved DEF Committed, Still
  <2>6. platform' = "windows" => \A d \in durable' : Committed(d)'
    BY <2>1, <2>3, <2>4, <2>5, TemporaryRemoved DEF Still
  <2>7. Position' /\ Candidate' /\ Stays'
    BY <2>2, <2>3, <2>5, <2>6 DEF Position, Candidate, Stays, Head1, Preparing, Installed
  <2> QED
    BY <2>2, <2>7 DEF LifecycleInv
<1>2. CASE HardenFinal(p)
  <2>1. At(p, "harden") /\ Harden /\ Still
    BY <1>2 DEF HardenFinal
  <2>2. Media' /\ BackupsStay /\ dir' = dir /\ durable' \subseteq durable
    BY <2>1, MediaSteps DEF LifecycleInv, BackupsStay
  <2>3. job.todo # <<>> /\ Head1.kind \in {"publish", "commit"}
        /\ (Head1.kind = "publish" => Head1.name \in DOMAIN dir)
    BY <2>1 DEF LifecycleInv, Position, At, Installed
  <2>4. CASE Head1.kind = "commit"
    <3>1. Goto("prove")
      BY <1>2, <2>4 DEF HardenFinal
    <3>2. /\ Shapes' /\ Media' /\ Plans' /\ Backed' /\ Held'
          /\ job'.at = "prove" /\ job'.todo = job.todo /\ job'.file = job.file
      BY <2>1, <2>2, <3>1, GotoKeeps
    <3>3. Committed(dir) /\ (platform = "windows" => \A d \in durable : Committed(d))
          /\ job.file # NoFile
      BY <2>1, <2>4 DEF LifecycleInv, Stays, At, Installed
    <3>4. \A d \in durable' : Committed(d)
      BY <2>1, <2>2, <3>3 DEF Harden, PosixHarden, WindowsHarden
    <3>5. \A d : Committed(d) <=> Committed(d)'
      BY <2>1, <3>2 DEF Committed, Still
    <3>6. Committed(dir)' /\ \A d \in durable' : Committed(d)'
      BY <2>2, <3>3, <3>4, <3>5
    <3>7. Position' /\ Candidate' /\ Stays'
      BY <2>3, <2>4, <3>2, <3>3, <3>6 DEF Position, Candidate, Stays, Head1, Preparing, Installed
    <3> QED
      BY <3>2, <3>7 DEF LifecycleInv
  <2>5. CASE Head1.kind # "commit" /\ job.temp \in DOMAIN dir
    <3>1. Goto("clean")
      BY <1>2, <2>5 DEF HardenFinal
    <3>2. /\ Shapes' /\ Media' /\ Plans' /\ Backed' /\ Held'
          /\ job'.at = "clean" /\ job'.todo = job.todo
      BY <2>1, <2>2, <3>1, GotoKeeps
    <3>3. Position' /\ Candidate' /\ Stays'
      BY <2>2, <2>3, <2>5, <3>2 DEF Position, Candidate, Stays, Head1, Preparing, Installed
    <3> QED
      BY <3>2, <3>3 DEF LifecycleInv
  <2>6. CASE Head1.kind # "commit" /\ job.temp \notin DOMAIN dir
    BY <1>2, <2>1, <2>2, <2>3, <2>6, AdvanceKeeps DEF HardenFinal, At, Working
  <2> QED
    BY <2>4, <2>5, <2>6
<1>3. CASE Prove(p)
  <2>1. At(p, "prove") /\ Still /\ NoChange
    BY <1>3 DEF Prove
  <2>2. Media' /\ BackupsStay /\ Head1.kind = "commit" /\ job.todo # <<>>
    BY <2>1, MediaSteps DEF LifecycleInv, BackupsStay, NoChange, Position, At, Installed
  <2>3. ASSUME Advance PROVE LifecycleInv'
    BY <2>1, <2>2, <2>3, AdvanceKeeps DEF At, Working
  <2>4. ASSUME Fail(p, "DURABILITY_UNCERTAIN") PROVE LifecycleInv'
    BY <2>1, <2>2, <2>4, FailKeeps
  <2> QED
    BY <1>3, <2>3, <2>4 DEF Prove
<1>4. CASE CleanPublished(p)
  <2>1. At(p, "clean") /\ Still /\ Change(Remove(dir, job.temp)) /\ Goto("settle")
    BY <1>4 DEF CleanPublished
  <2>2. /\ Shapes' /\ Media' /\ Plans' /\ Backed' /\ Held'
        /\ job'.at = "settle" /\ job'.todo = job.todo
    BY <2>1, TemporaryRemoved, GotoKeeps
  <2>3. job.todo # <<>> /\ Head1.kind = "publish" /\ Head1.name \in DOMAIN dir
    BY <2>1 DEF LifecycleInv, Position, At, Installed
  <2>4. Head1.name \in DOMAIN dir'
    BY <2>1, <2>3, HeadIsPlanned, TemporaryRemoved DEF Planned
  <2>5. Position' /\ Candidate' /\ Stays'
    BY <2>2, <2>3, <2>4 DEF Position, Candidate, Stays, Head1, Preparing, Installed
  <2> QED
    BY <2>2, <2>5 DEF LifecycleInv
<1> QED
  BY <1>1, <1>2, <1>3, <1>4

LEMMA DiscardKeeps ==
  ASSUME LifecycleInv, NEW p \in Process, Settle(p) \/ RemoveCandidate(p) \/ Discarded(p)
  PROVE  LifecycleInv'
<1>1. CASE Settle(p)
  <2>1. At(p, "settle") /\ Harden /\ Still /\ Advance
    BY <1>1 DEF Settle
  <2>2. Media' /\ BackupsStay /\ dir' = dir
    BY <2>1, MediaSteps DEF LifecycleInv, BackupsStay
  <2> QED
    BY <2>1, <2>2, AdvanceKeeps DEF LifecycleInv, Position, At, Working
<1>2. CASE RemoveCandidate(p)
  <2>1. At(p, "discard") /\ Still /\ Change(Remove(dir, job.temp)) /\ Goto("discarded")
    BY <1>2 DEF RemoveCandidate
  <2>2. /\ Shapes' /\ Media' /\ Plans' /\ Backed' /\ Held'
        /\ job'.at = "discarded" /\ job'.todo = job.todo /\ job'.file = job.file
    BY <2>1, TemporaryRemoved, GotoKeeps
  <2>3. Position' /\ Stays'
    BY <2>1, <2>2 DEF LifecycleInv, Position, Stays, At, Head1, Preparing, Installed
  <2>4. dir \in durable /\ Known /\ \A d \in durable : Private(d)
    BY <2>1 DEF LifecycleInv, Media, Candidate, At, Preparing
  <2>5. dir' = Remove(dir, job.temp) /\ durable' = durable \cup {dir'}
    BY <2>1, TemporaryRemoved
  <2>6. Private(dir')
    BY <2>4, <2>5 DEF Private, Remove
  <2>7. Candidate'
    BY <2>2, <2>4, <2>5, <2>6 DEF Candidate, Known, Private
  <2> QED
    BY <2>2, <2>3, <2>7 DEF LifecycleInv
<1>3. CASE Discarded(p)
  BY <1>3, FailKeeps, MediaSteps DEF Discarded, LifecycleInv
<1> QED
  BY <1>1, <1>2, <1>3

-----------------------------------------------------------------------------
(* Failures of a call.                                                     *)

LEMMA FailuresKeep ==
  ASSUME LifecycleInv, NEW p \in Process,
         \/ WriteFails(p) \/ InstallFails(p) \/ WindowsMoveUnproved(p) \/ UnlinkFails(p)
         \/ HardenFails(p) \/ CleanFails(p) \/ RemoveCandidateFails(p) \/ RecoverFails(p)
         \/ DestroyFails(p) \/ DeleteFails(p) \/ VerifierFails(p)
  PROVE  LifecycleInv'
<1>1. ASSUME NEW step, At(p, step), Still, NoChange, NEW code, Fail(p, code) PROVE LifecycleInv'
  BY <1>1, FailKeeps, MediaSteps DEF NoChange, LifecycleInv
<1>2. CASE WriteFails(p)
  BY <1>2, AbandonKeeps DEF WriteFails, Preparing
<1>3. CASE InstallFails(p)
  BY <1>1, <1>3, AbandonKeeps DEF InstallFails, Preparing
<1>4. CASE WindowsMoveUnproved(p)
  <2>1. At(p, "install") /\ Still /\ WriteThrough(Moved) /\ Fail(p, "DURABILITY_UNCERTAIN")
    BY <1>4 DEF WindowsMoveUnproved
  <2>2. Media'
    BY <2>1, InstalledIsSound, MediaSteps DEF Moved, LifecycleInv
  <2> QED
    BY <2>1, <2>2, FailKeeps
<1>5. CASE UnlinkFails(p) \/ HardenFails(p) \/ CleanFails(p) \/ RemoveCandidateFails(p)
  BY <1>1, <1>5 DEF UnlinkFails, HardenFails, CleanFails, RemoveCandidateFails
<1>6. CASE RecoverFails(p) \/ DestroyFails(p) \/ DeleteFails(p) \/ VerifierFails(p)
  BY <1>1, <1>6 DEF RecoverFails, DestroyFails, DeleteFails, VerifierFails, StartOf
<1> QED
  BY <1>2, <1>3, <1>4, <1>5, <1>6

-----------------------------------------------------------------------------
(* Recovery, reset and what is looked at.                                  *)

LEMMA RecoverKeeps ==
  ASSUME LifecycleInv, NEW p \in Process, RecoverOrDiscardTemporary(p)
  PROVE  LifecycleInv'
<1>1. At(p, "next") /\ job.todo # <<>> /\ Head1.kind = "recover" /\ Still
  BY DEF RecoverOrDiscardTemporary, StartOf
<1>2. ASSUME NEW e, Fail(p, e), NoChange PROVE LifecycleInv'
  BY <1>1, <1>2, FailKeeps, MediaSteps DEF NoChange, LifecycleInv
<1>3. ASSUME Change(Remove(dir, Head1.name)), Goto("settle") PROVE LifecycleInv'
  <2>1. Head1.name.kind = "temporary" /\ Head1.name # Authority
    BY <1>1, HeadIsPlanned, AuthorityName DEF Planned
  <2>2. Media' /\ BackupsStay
    <3>1. Sound(Remove(dir, Head1.name)) /\ Media
      BY <2>1, RemoveKeeps DEF LifecycleInv, Media
    <3>2. Media'
      BY <1>3, <3>1, MediaSteps
    <3>3. dir' = Remove(dir, Head1.name)
      BY <1>3 DEF Change
    <3> QED
      BY <2>1, <3>2, <3>3 DEF BackupsStay, Remove
  <2>3. /\ Shapes' /\ Media' /\ Plans' /\ Backed' /\ Held'
        /\ job'.at = "settle" /\ job'.todo = job.todo
    BY <1>1, <1>3, <2>2, GotoKeeps
  <2>4. Position' /\ Candidate' /\ Stays'
    BY <1>1, <2>3 DEF Position, Candidate, Stays, Head1, Preparing, Installed
  <2> QED
    BY <2>3, <2>4 DEF LifecycleInv
<1> QED
  BY <1>2, <1>3 DEF RecoverOrDiscardTemporary

LEMMA OperationShape ==
  ASSUME NEW op \in AnyOp, NEW f \in AnyFile
  PROVE  [op EXCEPT !.expected = f] \in AnyOp /\ [op EXCEPT !.expected = f].kind = op.kind
BY DEF AnyOp

\* A step of a reset: no commit follows in its plan.
LEMMA ResetStep ==
  ASSUME LifecycleInv, NEW p \in Process, Working(p), Still, UNCHANGED proc, Media',
         job.todo # <<>>, Head1.kind = "delete",
         DOMAIN job' = JobFields, job'.at \in {"reset", "removed"},
         job'.todo = job.todo \/ job'.todo = [job.todo EXCEPT ![1].expected = NoFile],
         job'.file = job.file, job'.temp = job.temp
  PROVE  LifecycleInv'
<1>1. job.todo \in Seq(AnyOp) /\ Len(job.todo) \in Nat /\ 1 \in 1..Len(job.todo) /\ ~ Pending
      /\ Head1 = job.todo[1]
  BY HeadIsPlanned DEF LifecycleInv, Shapes
<1>2. /\ job'.todo \in Seq(AnyOp) /\ Len(job'.todo) = Len(job.todo)
      /\ \A i \in 1..Len(job.todo) : job'.todo[i].kind = job.todo[i].kind
      /\ \A i \in 2..Len(job.todo) : job'.todo[i] = job.todo[i]
  <2>1. NoFile \in AnyFile
    BY NoJobShape DEF NoJob
  <2> DEFINE op == [job.todo[1] EXCEPT !.expected = NoFile]
  <2>2. job.todo[1] \in AnyOp
    BY <1>1
  <2>3. op \in AnyOp /\ op.kind = job.todo[1].kind
    BY <2>1, <2>2, OperationShape
  <2>4. job'.todo = job.todo \/ job'.todo = [job.todo EXCEPT ![1] = op]
    OBVIOUS
  <2> HIDE DEF op
  <2> QED
    BY <1>1, <2>3, <2>4
<1>3. Shapes'
  BY <1>2 DEF LifecycleInv, Shapes, Still
<1>4. ~ Pending'
  BY <1>1, <1>2 DEF Pending
<1>5. Plans'
  <2>1. Planned(job'.todo[1])
    BY <1>1, <1>2 DEF Planned
  <2> QED
    BY <1>1, <1>2, <1>4, <2>1 DEF LifecycleInv, Plans
<1>6. Backed'
  BY <1>4 DEF Backed, Pending
<1>7. Held'
  BY DEF LifecycleInv, Held, Still, Working
<1>8. job'.todo # <<>> /\ Head1' = job'.todo[1] /\ Head1'.kind = "delete"
  BY <1>1, <1>2 DEF Head1
<1>9. Position' /\ Candidate' /\ Stays'
  BY <1>8 DEF Position, Candidate, Stays, Preparing, Installed
<1> QED
  BY <1>3, <1>5, <1>6, <1>7, <1>9 DEF LifecycleInv

LEMMA ResetKeeps ==
  ASSUME LifecycleInv, NEW p \in Process,
         \/ StartReset(p) \/ DeleteCredentialArtifact(p) \/ DeleteAuthority(p) \/ Removed(p)
         \/ RequireResetEmpty(p)
  PROVE  LifecycleInv'
<1>1. Still /\ (At(p, "next") \/ At(p, "reset") \/ At(p, "removed")) /\ Working(p)
      /\ job.todo # <<>> /\ Head1.kind = "delete"
  BY DEF StartReset, DeleteCredentialArtifact, DeleteAuthority, Removed, RequireResetEmpty, StartOf,
         At, Working, LifecycleInv, Position
<1>2. ASSUME NoChange, NEW code, Fail(p, code) PROVE LifecycleInv'
  BY <1>1, <1>2, FailKeeps, MediaSteps DEF NoChange, LifecycleInv
<1>3. ASSUME NEW step \in {"reset", "removed"}, Goto(step), Media' PROVE LifecycleInv'
  <2>1. /\ DOMAIN job' = JobFields /\ job'.at = step /\ job'.todo = job.todo /\ UNCHANGED proc
        /\ job'.file = job.file /\ job'.temp = job.temp
    BY <1>3 DEF Goto, LifecycleInv, Shapes, JobFields
  <2> QED
    BY <1>1, <1>3, <2>1, ResetStep
<1>4. CASE StartReset(p)
  BY <1>2, <1>3, <1>4, MediaSteps DEF StartReset, NoChange, LifecycleInv
<1>5. CASE DeleteCredentialArtifact(p)
  <2> PICK n \in CredentialArtifacts :
        /\ Change(Remove(dir, n)) /\ job' = [job EXCEPT !.at = "removed", !.mutated = TRUE]
    BY <1>5 DEF DeleteCredentialArtifact
  <2>1. n # Authority
    BY AuthorityName DEF CredentialArtifacts, Temporaries, Backups
  <2>2. Media' /\ UNCHANGED proc
    BY <1>5, <2>1, RemoveKeeps, MediaSteps DEF LifecycleInv, Media, Change, DeleteCredentialArtifact
  <2>3. /\ DOMAIN job' = JobFields /\ job'.at = "removed" /\ job'.todo = job.todo
        /\ job'.file = job.file /\ job'.temp = job.temp
    BY DEF LifecycleInv, Shapes, JobFields
  <2> QED
    BY <1>1, <2>2, <2>3, ResetStep
<1>6. CASE DeleteAuthority(p)
  <2>1. ASSUME NEW error, error # "none", Fail(p, error), NoChange PROVE LifecycleInv'
    BY <1>2, <2>1
  <2>2. ASSUME Change(Remove(dir, Authority)), UNCHANGED proc,
               job' = [job EXCEPT !.at = "removed", !.mutated = TRUE, !.todo[1].expected = NoFile]
        PROVE  LifecycleInv'
    <3>1. \A n \in Backups(dir) : n.gen = "v2"
      <4>1. CredentialArtifacts = {}
        BY <1>6 DEF DeleteAuthority
      <4>2. \A n \in Backups(dir) : n.gen \in {"v0", "v1", "v2"}
        BY DEF LifecycleInv, Media, Sound, Whole, Backups, AuthorityGeneration
      <4> QED
        BY <4>1, <4>2 DEF CredentialArtifacts
    <3>2. Media'
      BY <2>2, <3>1, RemoveAuthority, MediaSteps DEF LifecycleInv, Media
    <3>3. /\ DOMAIN job' = JobFields /\ job'.at = "removed"
          /\ job'.todo = [job.todo EXCEPT ![1].expected = NoFile]
          /\ job'.file = job.file /\ job'.temp = job.temp
      BY <2>2 DEF LifecycleInv, Shapes, JobFields
    <3> QED
      BY <1>1, <2>2, <3>2, <3>3, ResetStep
  <2> QED
    BY <1>2, <1>6, <2>2 DEF DeleteAuthority
<1>7. CASE Removed(p)
  BY <1>3, <1>7, MediaSteps DEF Removed, LifecycleInv
<1>8. CASE RequireResetEmpty(p)
  <2>1. ASSUME Advance, NoChange PROVE LifecycleInv'
    <3>1. Media' /\ BackupsStay
      BY <2>1, MediaSteps DEF NoChange, LifecycleInv, BackupsStay
    <3> QED
      BY <1>1, <2>1, <3>1, AdvanceKeeps
  <2> QED
    BY <1>2, <1>8, <2>1 DEF RequireResetEmpty
<1> QED
  BY <1>4, <1>5, <1>6, <1>7, <1>8

-----------------------------------------------------------------------------
(* What leaves the job alone.                                              *)

LEMMA JobStays ==
  ASSUME LifecycleInv, UNCHANGED <<job, dir, durable, platform>>, edits' \in {edits, edits + 1},
         prototype' \in AnyDocument, DOMAIN proc' = Process,
         \A p \in Process : DOMAIN proc'[p] = ProcFields /\ proc'[p].base \in AnyFile,
         \/ job.todo = <<>>
         \/ lock' = lock /\ (lock \in Process => proc'[lock].command = proc[lock].command),
         Held'
  PROVE  LifecycleInv'
<1>1. Shapes'
  BY DEF LifecycleInv, Shapes
<1>2. Media' /\ Plans' /\ Position' /\ Candidate'
  BY DEF LifecycleInv, Media, Plans, Position, Candidate, Pending, Head1, Known, Private, Replacing
<1>3. Backed'
  <2>1. CASE job.todo = <<>>
    <3>1. Len(job'.todo) = 0
      BY <2>1
    <3> QED
      BY <3>1 DEF Backed
  <2>2. CASE lock' = lock /\ (lock \in Process => proc'[lock].command = proc[lock].command)
    BY <2>2 DEF LifecycleInv, Backed, BackedUp
  <2> QED
    BY <2>1, <2>2
<1>4. Stays'
  <2>1. edits \in Nat
    BY DEF LifecycleInv, Shapes
  <2>2. \A d : Committed(d) => Committed(d)'
    BY <2>1 DEF Committed
  <2> QED
    BY <2>2 DEF LifecycleInv, Stays, Head1
<1> QED
  BY <1>1, <1>2, <1>3, <1>4 DEF LifecycleInv

\* One process changes, and not between holding the lock and not.
LEMMA OneProcess ==
  ASSUME LifecycleInv, NEW p \in Process, NEW r, proc' = [proc EXCEPT ![p] = r],
         DOMAIN r = ProcFields, r.base \in AnyFile,
         UNCHANGED <<job, dir, durable, platform, edits, prototype>>,
         \/ /\ r.pc \in Holding \/ r.held => lock' = p
            /\ r.held => r.pc = "idle"
            /\ lock' = lock /\ proc[p].pc # "running"
         \/ lock = p /\ job.todo = <<>> /\ ~ r.held /\ r.pc \notin Holding
  PROVE  LifecycleInv'
<1>1. DOMAIN proc' = Process /\ proc'[p] = r /\ \A q \in Process \ {p} : proc'[q] = proc[q]
  BY DEF LifecycleInv, Shapes
<1>2. \A q \in Process : DOMAIN proc'[q] = ProcFields /\ proc'[q].base \in AnyFile
  BY <1>1 DEF LifecycleInv, Shapes
<1>3. prototype' \in AnyDocument /\ edits' \in {edits, edits + 1}
  BY DEF LifecycleInv, Shapes
<1>4. Held'
  BY <1>1 DEF LifecycleInv, Held
<1>5. \/ job.todo = <<>>
      \/ lock' = lock /\ (lock \in Process => proc'[lock].command = proc[lock].command)
  BY <1>1 DEF LifecycleInv, Held
<1> QED
  BY <1>1, <1>2, <1>3, <1>4, <1>5, JobStays

LEMMA Idles ==
  /\ DOMAIN Idle = ProcFields /\ Idle.base \in AnyFile /\ Idle.pc = "idle" /\ ~ Idle.held
BY DEF Idle, ProcFields, NoFile, AnyFile, AnyPayload, Torn, Payload, AnyDocument, AnyGeneration

LEMMA LockKeeps ==
  ASSUME LifecycleInv, NEW p \in Process,
         \/ (\E c \in Commands : Begin(p, c)) \/ Acquire(p) \/ LockTimeout(p) \/ UnsafeParent(p)
         \/ RepairParent(p) \/ Release(p) \/ ReleaseFails(p) \/ Die(p) \/ End(p)
  PROVE  LifecycleInv'
<1> USE DEF world, bounds
<1>1. DOMAIN proc = Process /\ DOMAIN proc[p] = ProcFields /\ proc[p].base \in AnyFile
  BY DEF LifecycleInv, Shapes
<1>2. proc[p].pc = "waiting" \/ proc[p].pc = "idle" => proc[p].pc # "running" /\ proc[p].pc \notin Holding
  BY DEF Holding
<1>3. ASSUME NEW c \in Commands, Begin(p, c) PROVE LifecycleInv'
  <2> DEFINE r == [Idle EXCEPT !.pc = "waiting", !.command = c, !.base = FileAt(dir, Authority)]
  <2>1. DOMAIN r = ProcFields /\ r.base = FileAt(dir, Authority) /\ r.pc = "waiting" /\ ~ r.held
    BY Idles DEF ProcFields
  <2>2. r.base \in AnyFile
    BY <2>1, FileIsSound DEF LifecycleInv, Media
  <2>3. proc' = [proc EXCEPT ![p] = r] /\ UNCHANGED <<job, dir, durable, platform, edits, prototype, lock>>
    BY <1>3 DEF Begin
  <2> HIDE DEF r
  <2> QED
    BY <1>2, <1>3, <2>1, <2>2, <2>3, OneProcess DEF Begin, Holding
<1>4. CASE Acquire(p)
  <2>1. \A q \in Process : proc[q].pc \notin Holding /\ ~ proc[q].held
    BY <1>4 DEF Acquire, LifecycleInv, Held
  <2>2. /\ DOMAIN job' = JobFields /\ job'.todo = <<>> /\ job'.file \in AnyFile
        /\ job'.temp.kind = "none" /\ job'.at = "next"
    BY <1>4, NoJobShape DEF Acquire, JobFields
  <2>3. Len(job'.todo) = 0 /\ job'.todo \in Seq(AnyOp)
    BY <2>2
  <2>4. /\ DOMAIN proc' = Process /\ \A q \in Process \ {p} : proc'[q] = proc[q]
        /\ DOMAIN proc'[p] = ProcFields /\ proc'[p].base = proc[p].base
        /\ ~ proc'[p].held /\ proc'[p].pc = "locked"
    BY <1>1, <1>4, <2>1 DEF Acquire, ProcFields
  <2>5. lock' = p /\ UNCHANGED <<dir, durable, prototype, edits>>
    BY <1>4 DEF Acquire
  <2>6. Shapes' /\ Held'
    BY <2>1, <2>2, <2>3, <2>4, <2>5 DEF LifecycleInv, Shapes, Held
  <2>7. Media' /\ Plans' /\ Backed'
    BY <2>3, <2>5 DEF LifecycleInv, Media, Plans, Backed
  <2>8. Position' /\ Candidate' /\ Stays'
    BY <2>2 DEF Position, Candidate, Stays, Preparing, Installed
  <2> QED
    BY <2>6, <2>7, <2>8 DEF LifecycleInv
<1>5. CASE LockTimeout(p) \/ UnsafeParent(p)
  <2>1. proc[p].pc = "waiting" /\ Refused(p)
    BY <1>5 DEF LockTimeout, UnsafeParent
  <2> QED
    BY <1>2, <2>1, Idles, OneProcess DEF Refused, Holding
<1>6. CASE RepairParent(p)
  <2>1. UNCHANGED <<job, dir, durable, platform, edits, prototype, lock, proc>>
    BY <1>6 DEF RepairParent
  <2>2. Held'
    BY <2>1 DEF LifecycleInv, Held
  <2> QED
    BY <2>1, <2>2, JobStays DEF LifecycleInv, Shapes
<1>7. ASSUME proc[p].pc = "releasing" \/ proc[p].held PROVE lock = p /\ job.todo = <<>>
  BY <1>7 DEF LifecycleInv, Held, Holding
<1>8. CASE Release(p) \/ End(p)
  <2>1. /\ lock = p /\ job.todo = <<>> /\ proc' = [proc EXCEPT ![p] = Idle]
        /\ UNCHANGED <<job, dir, durable, platform, edits, prototype>>
    BY <1>7, <1>8 DEF Release, End, Stop
  <2> QED
    BY <2>1, Idles, OneProcess DEF Holding
<1>9. CASE ReleaseFails(p)
  <2> PICK code : proc' = [proc EXCEPT ![p] = [Idle EXCEPT !.held = TRUE, !.code = code]]
    BY <1>9 DEF ReleaseFails
  <2> DEFINE r == [Idle EXCEPT !.held = TRUE, !.code = code]
  <2>1. DOMAIN r = ProcFields /\ r.base \in AnyFile /\ r.pc = "idle"
    BY Idles DEF ProcFields
  <2>2. lock = p /\ UNCHANGED <<job, dir, durable, platform, edits, prototype, lock>>
        /\ proc[p].pc = "releasing"
    BY <1>7, <1>9 DEF ReleaseFails
  <2> HIDE DEF r
  <2>3. proc' = [proc EXCEPT ![p] = r]
    BY DEF r
  <2> QED
    BY <2>1, <2>2, <2>3, OneProcess
<1>10. CASE Die(p)
  <2>1. /\ proc' = [proc EXCEPT ![p] = Idle] /\ UNCHANGED <<dir, durable, platform, edits, prototype>>
        /\ lock' = IF lock = p THEN NoProcess ELSE lock
        /\ job' = IF lock = p THEN NoJob ELSE job
    BY <1>10 DEF Die, Stop
  <2>2. CASE lock = p
    <3>1. DOMAIN proc' = Process /\ proc'[p] = Idle /\ \A q \in Process \ {p} : proc'[q] = proc[q]
      BY <1>1, <2>1
    <3>2. \A q \in Process \ {p} : proc[q].pc \notin Holding /\ ~ proc[q].held
      BY <2>2 DEF LifecycleInv, Held
    <3>3. Media' /\ prototype' \in AnyDocument /\ edits' \in Nat
      BY <2>1, MediaSteps DEF LifecycleInv, Shapes
    <3>4. \A q \in Process : /\ DOMAIN proc'[q] = ProcFields /\ proc'[q].base \in AnyFile
                             /\ proc'[q].pc \notin Holding /\ ~ proc'[q].held
      BY <3>1, <3>2, Idles DEF LifecycleInv, Shapes, Holding
    <3> QED
      BY <2>1, <2>2, <3>1, <3>3, <3>4, WithoutJob
  <2>3. CASE lock # p
    <3>1. proc[p].pc # "running"
      BY <2>3 DEF LifecycleInv, Held, Holding
    <3> QED
      BY <2>1, <2>3, <3>1, Idles, OneProcess DEF Holding
  <2> QED
    BY <2>2, <2>3
<1> QED
  BY <1>3, <1>4, <1>5, <1>6, <1>8, <1>9, <1>10

LEMMA WorldKeeps ==
  ASSUME LifecycleInv, PowerLoss \/ LegacyWrite \/ EditPrototype
  PROVE  LifecycleInv'
<1>1. CASE PowerLoss
  <2>1. /\ dir' \in durable /\ durable' = {dir'} /\ job' = NoJob /\ UNCHANGED <<prototype, edits>>
        /\ proc' = [p \in Process |-> Idle]
    BY <1>1 DEF PowerLoss
  <2>2. Media' /\ prototype' \in AnyDocument /\ edits' \in Nat
    BY <2>1, MediaSteps DEF LifecycleInv, Shapes
  <2>3. DOMAIN proc' = Process /\ \A p \in Process : proc'[p] = Idle
    BY <2>1
  <2> QED
    BY <2>1, <2>2, <2>3, Idles, WithoutJob DEF Holding
<1>2. CASE LegacyWrite
  <2> PICK doc \in Representable :
        Change(Put(dir, Authority, [node |-> FreeNode, data |-> Payload("v0", doc)]))
    BY <1>2 DEF LegacyWrite
  <2> DEFINE f == [node |-> FreeNode, data |-> Payload("v0", doc)]
             e == Put(dir, Authority, f)
  <2>1. /\ UNCHANGED <<platform, prototype, lock, proc, job>> /\ edits' = edits + 1 /\ edits \in Nat
        /\ ~ InReplaceWindow /\ HasFreeNode
        /\ FileAt(dir, Authority) = NoFile \/ FileAt(dir, Authority).data.gen = "v0"
    BY <1>2 DEF LegacyWrite, LifecycleInv, Shapes
  <2>2. f \in AnyFile /\ f.node = FreeNode /\ f.data # Torn /\ f.data.gen = "v0"
    BY <2>1, FreeNodes DEF AnyFile, AnyPayload, Payload, Torn, AnyDocument, AnyGeneration
  <2>3. Sound(e)
    BY <2>2, AuthorityName, PutKeeps DEF LifecycleInv, Media, Whole
  <2>4. Change(e) /\ dir' = e /\ durable' = durable \cup {e}
    BY DEF Change
  <2> HIDE DEF f, e
  <2>5. Media'
    BY <2>3, <2>4, MediaSteps DEF LifecycleInv
  <2>6. DOMAIN e = DOMAIN dir \cup {Authority} /\ e[Authority] = f
        /\ \A n \in DOMAIN dir \ {Authority} : e[n] = dir[n]
    BY DEF e, Put
  <2>7. Shapes' /\ Plans' /\ Held'
    BY <2>1 DEF LifecycleInv, Shapes, Plans, Pending, Held
  <2>8. Backed' /\ Position'
    BY <2>1, <2>4, <2>6 DEF LifecycleInv, Backed, BackedUp, Position, Head1
  <2>9. Candidate'
    <3>1. ASSUME job.at \in Preparing PROVE Known' /\ \A d \in durable' : Private(d)'
      <4>1. Known /\ \A d \in durable : Private(d)
        BY <3>1 DEF LifecycleInv, Candidate
      <4>2. FreeNode # job.file.node
        BY <2>1, <4>1, FreeNodes DEF Known
      <4>3. \A n \in DOMAIN e : e[n].node = job.file.node => n.kind = "temporary"
        BY <2>2, <2>6, <4>1, <4>2 DEF Private, LifecycleInv, Media
      <4> QED
        BY <2>1, <2>4, <4>1, <4>3 DEF Known, Private
    <3>2. ASSUME job.at \in {"write", "check", "install"}
          PROVE  job.temp # Authority
      BY AuthorityName DEF LifecycleInv, Shapes
    <3> QED
      BY <2>1, <2>4, <2>6, <3>1, <3>2
         DEF LifecycleInv, Candidate, Preparing, Head1, Replacing, InReplaceWindow
  <2>10. Stays'
    <3>1. \A d : Committed(d) => Committed(d)'
      BY <2>1 DEF Committed
    <3>2. ASSUME Committed(dir), job.file # NoFile PROVE Committed(dir)'
      <4>1. FileAt(dir', Authority) = f
        BY <2>4, <2>6 DEF FileAt
      <4>2. job.file.data.gen = "v0"
        BY <2>1, <3>2 DEF Committed
      <4> QED
        BY <2>1, <2>2, <4>1, <4>2 DEF Committed
    <3>3. durable' = durable \cup {dir'}
      BY <2>4
    <3> QED
      BY <2>1, <3>1, <3>2, <3>3 DEF LifecycleInv, Stays, Head1
  <2> QED
    BY <2>5, <2>7, <2>8, <2>9, <2>10 DEF LifecycleInv
<1>3. CASE EditPrototype
  <2>1. UNCHANGED <<job, dir, durable, platform, lock, proc>> /\ edits' = edits + 1
        /\ prototype' \in AnyDocument
    BY <1>3 DEF EditPrototype, AnyDocument
  <2>2. Held'
    BY <2>1 DEF LifecycleInv, Held
  <2> QED
    BY <2>1, <2>2, JobStays DEF LifecycleInv, Shapes
<1> QED
  BY <1>1, <1>2, <1>3

-----------------------------------------------------------------------------
(* Plans.                                                                  *)

\* A plan in which every replacement of a conversion follows its copy.
CopiesFirst(plan) ==
  \A i \in 1..Len(plan) :
    plan[i].kind = "commit" /\ plan[i].expected # NoFile =>
      /\ i > 1 /\ plan[i - 1].kind = "publish"
      /\ plan[i - 1].name = BackupName(plan[i].expected.data)
Allowed(plan) ==
  /\ plan \in Seq(AnyOp)
  /\ \A i \in 1..Len(plan) :
       /\ Planned(plan[i])
       /\ plan[i].kind \in {"delete", "recover"} =>
            \A j \in 1..Len(plan) : plan[j].kind \notin {"publish", "commit"}

LEMMA PlanKeeps ==
  ASSUME LifecycleInv, NEW p \in Process, Locked(p), NEW plan, Allowed(plan),
         Converting(proc[p].command) => CopiesFirst(plan),
         UNCHANGED <<platform, world, lock, bounds>>,
         proc' = [proc EXCEPT ![p].pc = "running"],
         DOMAIN job' = JobFields, job'.todo = plan, job'.at = "next",
         job'.file = job.file, job'.temp = job.temp
  PROVE  LifecycleInv'
<1>1. lock = p /\ UNCHANGED <<dir, durable, prototype, edits, lock>>
  BY DEF Locked, world, bounds
<1>2. /\ DOMAIN proc' = Process /\ \A q \in Process \ {p} : proc'[q] = proc[q]
      /\ DOMAIN proc'[p] = ProcFields /\ proc'[p].base = proc[p].base
      /\ proc'[p].held = proc[p].held /\ proc'[p].pc = "running"
      /\ proc'[p].command = proc[p].command
  BY DEF LifecycleInv, Shapes, ProcFields
<1>3. ~ proc[p].held
  BY DEF LifecycleInv, Held, Locked
<1>4. Shapes' /\ Held'
  BY <1>1, <1>2, <1>3 DEF LifecycleInv, Shapes, Held, Allowed
<1>5. Media' /\ Plans'
  BY <1>1 DEF LifecycleInv, Media, Plans, Pending, Allowed
<1>6. Backed'
  BY <1>1, <1>2 DEF Backed, BackedUp, CopiesFirst
<1>7. Position' /\ Candidate' /\ Stays'
  BY DEF Position, Candidate, Stays, Preparing, Installed
<1> QED
  BY <1>4, <1>5, <1>6, <1>7 DEF LifecycleInv

LEMMA RunKeeps ==
  ASSUME LifecycleInv, NEW p \in Process, Locked(p), NEW plan, Allowed(plan), CopiesFirst(plan),
         Run(p, plan)
  PROVE  LifecycleInv'
<1>1. /\ DOMAIN job' = JobFields /\ job'.todo = plan /\ job'.at = "next"
      /\ job'.file = job.file /\ job'.temp = job.temp
  BY DEF Run, LifecycleInv, Shapes, JobFields
<1> QED
  BY <1>1, PlanKeeps DEF Run

LEMMA RefuseKeeps ==
  ASSUME LifecycleInv, NEW p \in Process, Locked(p), NEW code, Refuse(p, code)
  PROVE  LifecycleInv'
BY FinishKeeps, MediaSteps DEF Refuse, Locked, world, bounds, LifecycleInv

\* The operations.
Simple(op) ==
  /\ op \in AnyOp /\ Planned(op)
  /\ op.kind \notin {"commit", "publish", "delete", "recover"}

LEMMA PublishPlanned ==
  ASSUME NEW f \in AnyFile, f.data.gen \in AuthorityGeneration
  PROVE  LET op == Publish(f.data, f)
         IN op \in AnyOp /\ Planned(op) /\ op.kind = "publish" /\ op.name = BackupName(f.data)
BY AuthorityName
   DEF Publish, Op, AnyOp, AnyFile, AnyPayload, AnyName, Kinds, Planned, Whole, BackupName, Name, Payload,
       NoFile, Torn, AuthorityGeneration, AnyGeneration

LEMMA ReceiptPlanned ==
  ASSUME NEW doc \in AnyDocument
  PROVE  LET op == PublishReceipt(doc) IN op \in AnyOp /\ Planned(op) /\ op.kind = "publish"
BY AuthorityName
   DEF PublishReceipt, Op, AnyOp, AnyFile, AnyPayload, AnyName, Kinds, Planned, Whole, ReceiptName, Name,
       ValidReceipt, Payload, NoFile, Torn, AnyGeneration, AnyDocument

LEMMA CommitPlanned ==
  ASSUME NEW gen \in {"v0", "v2"}, NEW doc \in AnyDocument, NEW f \in AnyFile
  PROVE  LET op == Commit(Payload(gen, doc), f)
         IN op \in AnyOp /\ Planned(op) /\ op.kind = "commit" /\ op.expected = f
<1> DEFINE data == Payload(gen, doc)
           op == Commit(data, f)
<1>1. data \in AnyPayload /\ data.gen \in AuthorityGeneration /\ data # Torn
  BY DEF Payload, AnyPayload, AnyGeneration, AuthorityGeneration, Torn
<1> HIDE DEF data
<1>2. /\ op.kind = "commit" /\ op.name = Authority /\ op.data = data /\ op.expected = f
      /\ op \in AnyOp
  BY <1>1, AuthorityName DEF Commit, Op, AnyOp, Kinds
<1> HIDE DEF op
<1>3. Planned(op)
  BY <1>1, <1>2, AuthorityName DEF Planned, Whole
<1> QED
  BY <1>2, <1>3 DEF op, data

LEMMA OthersPlanned ==
  /\ \A t \in AnyName : t.kind = "temporary" =>
       Recover(t) \in AnyOp /\ Planned(Recover(t)) /\ Recover(t).kind = "recover"
  /\ \A doc \in AnyDocument : Simple(Revalidate(doc))
  /\ \A kind \in {"current", "imported", "rolled_back", "reset_complete", "saved"} : Simple(Verify(kind))
  /\ Simple(Destroy)
  /\ \A f \in AnyFile : Delete(f) \in AnyOp /\ Planned(Delete(f)) /\ Delete(f).kind = "delete"
<1>1. NoFile \in AnyFile /\ Torn \in AnyPayload /\ NoName \in AnyName
  BY DEF NoFile, NoName, Name, AnyName, AnyFile, AnyPayload, Torn, Payload, AnyDocument, AnyGeneration
<1>2. \A doc \in AnyDocument : ReceiptName(doc) \in AnyName
  BY DEF ReceiptName, Name, AnyName, AnyGeneration
<1> QED
  BY <1>1, <1>2
     DEF Simple, Recover, Revalidate, Verify, Destroy, Delete, Op, AnyOp, Kinds, Planned

\* What a command sees of an authority that it can read.
LEMMA Seen ==
  ASSUME LifecycleInv, NEW explicit
  PROVE  LET o == Observed(explicit)
         IN /\ o.file \in AnyFile /\ o.prototype \in AnyDocument
            /\ o.authority \in AuthorityGeneration => o.file.data.gen \in AuthorityGeneration
            /\ o.artifacts = IF parent = "private" THEN ReadManagedArtifacts(dir) ELSE {}
<1>1. FileAt(dir, Authority) \in AnyFile /\ NoFile \in AnyFile
  BY FileIsSound, NoJobShape DEF LifecycleInv, Media, NoJob
<1>2. prototype \in AnyDocument /\ NoPrototype \in AnyDocument
  BY DEF LifecycleInv, Shapes, AnyDocument
<1>3. ReadAuthority(dir) \in AuthorityGeneration =>
        FileAt(dir, Authority).data.gen \in AuthorityGeneration
  <2>1. CASE Authority \notin DOMAIN dir
    BY <2>1 DEF ReadAuthority, Readable, LinkProof, AuthorityGeneration
  <2>2. CASE Authority \in DOMAIN dir /\ ~ Readable(dir, Authority)
    BY <2>2 DEF ReadAuthority, AuthorityGeneration
  <2>3. CASE Authority \in DOMAIN dir /\ Readable(dir, Authority)
    <3>1. CASE dir[Authority].data.gen \in AuthorityGeneration \cup {"future"}
      BY <2>3, <3>1 DEF ReadAuthority, FileAt
    <3>2. CASE dir[Authority].data.gen \notin AuthorityGeneration \cup {"future"}
      BY <2>3, <3>2 DEF ReadAuthority, AuthorityGeneration
    <3> QED
      BY <3>1, <3>2
  <2> QED
    BY <2>1, <2>2, <2>3
<1>4. "unsafe" \notin AuthorityGeneration
  BY DEF AuthorityGeneration
<1> QED
  BY <1>1, <1>2, <1>3, <1>4 DEF Observed, Inspect

\* The plans of the commands.
LEMMA ConversionAllowed ==
  ASSUME NEW f \in AnyFile, f.data.gen \in AuthorityGeneration, NEW gen \in {"v0", "v2"},
         NEW doc \in AnyDocument, NEW last, Simple(last)
  PROVE  LET plan == <<Publish(f.data, f), Commit(Payload(gen, doc), f), last>>
         IN Allowed(plan) /\ CopiesFirst(plan)
<1> DEFINE copy == Publish(f.data, f)
           commit == Commit(Payload(gen, doc), f)
           plan == <<copy, commit, last>>
<1>1. copy \in AnyOp /\ Planned(copy) /\ copy.kind = "publish" /\ copy.name = BackupName(f.data)
  BY PublishPlanned
<1>2. commit \in AnyOp /\ Planned(commit) /\ commit.kind = "commit" /\ commit.expected = f
  BY CommitPlanned
<1> HIDE DEF copy, commit
<1>3. last \in AnyOp /\ Planned(last) /\ last.kind \notin {"commit", "publish", "delete", "recover"}
  BY DEF Simple
<1>4. /\ plan \in Seq(AnyOp) /\ Len(plan) = 3
      /\ plan[1] = copy /\ plan[2] = commit /\ plan[3] = last
  BY <1>1, <1>2, <1>3
<1> HIDE DEF plan
<1>5. \A i \in 1..Len(plan) : i = 1 \/ i = 2 \/ i = 3
  BY <1>4
<1>6. Allowed(plan) /\ CopiesFirst(plan)
  BY <1>1, <1>2, <1>3, <1>4, <1>5 DEF Allowed, CopiesFirst
<1> QED
  BY <1>6 DEF plan, copy, commit

LEMMA ImportAllowed ==
  ASSUME NEW doc \in AnyDocument, NEW last, Simple(last)
  PROVE  LET plan == <<Revalidate(doc), Commit(PrototypeToVersionTwo(doc), NoFile),
                       PublishReceipt(doc), last>>
         IN Allowed(plan) /\ CopiesFirst(plan)
<1> DEFINE first == Revalidate(doc)
           commit == Commit(PrototypeToVersionTwo(doc), NoFile)
           receipt == PublishReceipt(doc)
           plan == <<first, commit, receipt, last>>
<1>1. Simple(first) /\ Simple(last)
  BY OthersPlanned
<1>2. commit \in AnyOp /\ Planned(commit) /\ commit.kind = "commit" /\ commit.expected = NoFile
  BY CommitPlanned, NoJobShape DEF PrototypeToVersionTwo, NoJob
<1>3. receipt \in AnyOp /\ Planned(receipt) /\ receipt.kind = "publish"
  BY ReceiptPlanned
<1> HIDE DEF first, commit, receipt
<1>4. /\ plan \in Seq(AnyOp) /\ Len(plan) = 4
      /\ plan[1] = first /\ plan[2] = commit /\ plan[3] = receipt /\ plan[4] = last
  BY <1>1, <1>2, <1>3 DEF Simple
<1> HIDE DEF plan
<1>5. \A i \in 1..Len(plan) : i = 1 \/ i = 2 \/ i = 3 \/ i = 4
  BY <1>4
<1>6. Allowed(plan) /\ CopiesFirst(plan)
  BY <1>1, <1>2, <1>3, <1>4, <1>5 DEF Allowed, CopiesFirst, Simple
<1> QED
  BY <1>6 DEF plan, first, commit, receipt

LEMMA ReceiptAllowed ==
  ASSUME NEW doc \in AnyDocument, NEW last, Simple(last)
  PROVE  LET plan == <<>> \o <<PublishReceipt(doc), last>>
         IN Allowed(plan) /\ CopiesFirst(plan)
<1> DEFINE receipt == PublishReceipt(doc)
           plan == <<>> \o <<receipt, last>>
<1>1. receipt \in AnyOp /\ Planned(receipt) /\ receipt.kind = "publish"
  BY ReceiptPlanned
<1> HIDE DEF receipt
<1>2. plan \in Seq(AnyOp) /\ Len(plan) = 2 /\ plan[1] = receipt /\ plan[2] = last
  BY <1>1 DEF Simple
<1> HIDE DEF plan
<1>3. \A i \in 1..Len(plan) : i = 1 \/ i = 2
  BY <1>2
<1>4. Allowed(plan) /\ CopiesFirst(plan)
  BY <1>1, <1>2, <1>3 DEF Allowed, CopiesFirst, Simple
<1> QED
  BY <1>4 DEF plan, receipt

LEMMA ReplacementAllowed ==
  ASSUME NEW f \in AnyFile, f.data.gen \in AuthorityGeneration,
         NEW doc \in AnyDocument, NEW last, Simple(last)
  PROVE  LET plan == <<Revalidate(doc), Publish(f.data, f), Commit(PrototypeToVersionTwo(doc), f)>>
                       \o <<PublishReceipt(doc), last>>
         IN Allowed(plan) /\ CopiesFirst(plan)
<1> DEFINE first == Revalidate(doc)
           copy == Publish(f.data, f)
           commit == Commit(PrototypeToVersionTwo(doc), f)
           receipt == PublishReceipt(doc)
           plan == <<first, copy, commit>> \o <<receipt, last>>
<1>1. Simple(first) /\ Simple(last)
  BY OthersPlanned
<1>2. copy \in AnyOp /\ Planned(copy) /\ copy.kind = "publish" /\ copy.name = BackupName(f.data)
  BY PublishPlanned
<1>3. commit \in AnyOp /\ Planned(commit) /\ commit.kind = "commit" /\ commit.expected = f
  BY CommitPlanned DEF PrototypeToVersionTwo
<1>4. receipt \in AnyOp /\ Planned(receipt) /\ receipt.kind = "publish"
  BY ReceiptPlanned
<1> HIDE DEF first, copy, commit, receipt
<1>5. /\ plan \in Seq(AnyOp) /\ Len(plan) = 5
      /\ plan[1] = first /\ plan[2] = copy /\ plan[3] = commit /\ plan[4] = receipt /\ plan[5] = last
  BY <1>1, <1>2, <1>3, <1>4 DEF Simple
<1> HIDE DEF plan
<1>6. \A i \in 1..Len(plan) : i = 1 \/ i = 2 \/ i = 3 \/ i = 4 \/ i = 5
  BY <1>5
<1>7. Allowed(plan) /\ CopiesFirst(plan)
  BY <1>1, <1>2, <1>3, <1>4, <1>5, <1>6 DEF Allowed, CopiesFirst, Simple
<1> QED
  BY <1>7 DEF plan, first, copy, commit, receipt

LEMMA OneOperation ==
  ASSUME NEW op, op \in AnyOp, Planned(op), op.kind \notin {"publish", "commit"}
  PROVE  Allowed(<<op>>) /\ CopiesFirst(<<op>>)
<1>1. <<op>> \in Seq(AnyOp) /\ Len(<<op>>) = 1 /\ <<op>>[1] = op
  OBVIOUS
<1> DEFINE plan == <<op>>
<1>2. plan \in Seq(AnyOp) /\ Len(plan) = 1 /\ plan[1] = op
  BY <1>1
<1> HIDE DEF plan
<1>3. Allowed(plan) /\ CopiesFirst(plan)
  BY <1>2 DEF Allowed, CopiesFirst
<1> QED
  BY <1>3 DEF plan

LEMMA SaveAllowed ==
  ASSUME NEW doc \in AnyDocument, NEW f \in AnyFile
  PROVE  Allowed(<<Commit(Payload("v2", doc), f), Verify("saved")>>)
<1> DEFINE commit == Commit(Payload("v2", doc), f)
           last == Verify("saved")
           plan == <<commit, last>>
<1>1. commit \in AnyOp /\ Planned(commit) /\ commit.kind = "commit"
  BY CommitPlanned
<1>2. Simple(last)
  BY OthersPlanned
<1> HIDE DEF commit, last
<1>3. plan \in Seq(AnyOp) /\ Len(plan) = 2 /\ plan[1] = commit /\ plan[2] = last
  BY <1>1, <1>2 DEF Simple
<1> HIDE DEF plan
<1>4. \A i \in 1..Len(plan) : i = 1 \/ i = 2
  BY <1>3
<1>5. Allowed(plan)
  BY <1>1, <1>2, <1>3, <1>4 DEF Allowed, Simple
<1> QED
  BY <1>5 DEF plan, commit, last

LEMMA ResetAllowed ==
  ASSUME NEW f \in AnyFile
  PROVE  LET plan == <<Destroy, Delete(f), Verify("reset_complete")>>
         IN Allowed(plan) /\ CopiesFirst(plan)
<1> DEFINE first == Destroy
           delete == Delete(f)
           last == Verify("reset_complete")
           plan == <<first, delete, last>>
<1>1. Simple(first) /\ Simple(last) /\ delete \in AnyOp /\ Planned(delete) /\ delete.kind = "delete"
  BY OthersPlanned
<1> HIDE DEF first, delete, last
<1>2. plan \in Seq(AnyOp) /\ Len(plan) = 3 /\ plan[1] = first /\ plan[2] = delete /\ plan[3] = last
  BY <1>1 DEF Simple
<1> HIDE DEF plan
<1>3. \A i \in 1..Len(plan) : i = 1 \/ i = 2 \/ i = 3
  BY <1>2
<1>4. Allowed(plan) /\ CopiesFirst(plan)
  BY <1>1, <1>2, <1>3 DEF Allowed, CopiesFirst, Simple
<1> QED
  BY <1>4 DEF plan, first, delete, last

\* The temporary that a recovery is about is there.
LEMMA OneTemporary ==
  ASSUME LifecycleInv, NEW explicit, CanRecoverTemporaries(Observed(explicit))
  PROVE  Temporaries(dir) # {}
<1> DEFINE o == Observed(explicit)
           names == {a.name : a \in ValidOf(o.artifacts, "temporary")}
<1>1. Cardinality(names) = 1
  BY DEF CanRecoverTemporaries
<1> HIDE DEF names
<1>2. names # {}
  BY <1>1, FS_EmptySet
<1>3. PICK a \in o.artifacts : a.name.kind = "temporary"
  BY <1>2 DEF names, ValidOf, OfKind
<1>4. a \in ReadManagedArtifacts(dir)
  BY <1>3, Seen
<1>5. a.name \in DOMAIN dir
  BY <1>4 DEF ReadManagedArtifacts, ReadManaged
<1> QED
  BY <1>3, <1>5 DEF Temporaries

LEMMA RecoveryPlanKeeps ==
  ASSUME LifecycleInv, NEW p \in Process, LockedRecovery(p)
  PROVE  LifecycleInv'
<1> DEFINE t == CHOOSE x \in Temporaries(dir) : TRUE
           plan == <<Recover(t)>>
<1>1. CanRecoverTemporaries(Observed(Explicit(p))) /\ Locked(p)
  BY DEF LockedRecovery
<1>2. t \in Temporaries(dir)
  BY <1>1, OneTemporary
<1>3. t \in AnyName /\ t.kind = "temporary"
  BY <1>2 DEF Temporaries, LifecycleInv, Media, Sound
<1>4. Allowed(plan) /\ CopiesFirst(plan)
  BY <1>3, OthersPlanned, OneOperation
<1>5. /\ DOMAIN job' = JobFields /\ job'.todo = plan /\ job'.at = "next"
      /\ job'.file = job.file /\ job'.temp = job.temp
      /\ UNCHANGED <<platform, world, lock, bounds>> /\ proc' = [proc EXCEPT ![p].pc = "running"]
  BY DEF LockedRecovery, LifecycleInv, Shapes, JobFields
<1> HIDE DEF plan
<1> QED
  BY <1>1, <1>4, <1>5, PlanKeeps

LEMMA MigrateKeeps ==
  ASSUME LifecycleInv, NEW p \in Process, MigrateLegacy(p) \/ PrepareRollback(p)
  PROVE  LifecycleInv'
<1>1. CASE MigrateLegacy(p)
  <2> DEFINE o == Observed(TRUE)
             plan == <<Publish(o.file.data, o.file), Commit(ToVersionTwo(o.file.data), o.file),
                       Verify("current")>>
  <2>1. /\ Locked(p) /\ o.authority \in {"v0", "v1"}
        /\ Run(p, plan) \/ \E code : Refuse(p, code)
    BY <1>1 DEF MigrateLegacy, Assessed
  <2>2. o.file \in AnyFile /\ o.file.data.gen \in AuthorityGeneration
    BY <2>1, Seen DEF AuthorityGeneration
  <2>3. o.file.data.doc \in AnyDocument
    BY <2>2 DEF AnyFile, AnyPayload
  <2> HIDE DEF o
  <2>4. Allowed(plan) /\ CopiesFirst(plan)
    BY <2>2, <2>3, ConversionAllowed, OthersPlanned DEF ToVersionTwo
  <2> HIDE DEF plan
  <2> QED
    BY <2>1, <2>4, RunKeeps, RefuseKeeps
<1>2. CASE PrepareRollback(p)
  <2> DEFINE o == Observed(FALSE)
             verify == <<Verify("rolled_back")>>
             plan == <<Publish(o.file.data, o.file), Commit(ToV060(o.file.data), o.file),
                       Verify("rolled_back")>>
  <2>1. /\ Locked(p)
        /\ Run(p, verify) \/ (o.authority = "v2" /\ Run(p, plan)) \/ \E code : Refuse(p, code)
    BY <1>2 DEF PrepareRollback, Assessed
  <2>2. Allowed(verify) /\ CopiesFirst(verify)
    <3>1. Simple(Verify("rolled_back"))
      BY OthersPlanned
    <3> QED
      BY <3>1, OneOperation DEF Simple
  <2>3. o.file \in AnyFile /\ (o.authority = "v2" => o.file.data.gen \in AuthorityGeneration)
    BY Seen DEF AuthorityGeneration
  <2>4. o.file.data.doc \in AnyDocument
    BY <2>3 DEF AnyFile, AnyPayload
  <2> HIDE DEF o
  <2>5. o.authority = "v2" => Allowed(plan) /\ CopiesFirst(plan)
    BY <2>3, <2>4, ConversionAllowed, OthersPlanned DEF ToV060
  <2> HIDE DEF plan, verify
  <2> QED
    BY <2>1, <2>2, <2>5, RunKeeps, RefuseKeeps
<1> QED
  BY <1>1, <1>2

LEMMA ImportKeeps ==
  ASSUME LifecycleInv, NEW p \in Process, ImportAbsentPrototype(p) \/ MigrateOrResumePrototype(p)
  PROVE  LifecycleInv'
<1> DEFINE o == Observed(TRUE)
           import == <<Revalidate(o.prototype), Commit(PrototypeToVersionTwo(o.prototype), NoFile),
                       PublishReceipt(o.prototype), Verify("imported")>>
           receipt == <<>> \o <<PublishReceipt(o.prototype), Verify("imported")>>
           replace == <<Revalidate(o.prototype), Publish(o.file.data, o.file),
                        Commit(PrototypeToVersionTwo(o.prototype), o.file)>>
                        \o <<PublishReceipt(o.prototype), Verify("imported")>>
<1>1. /\ o.file \in AnyFile /\ o.prototype \in AnyDocument
      /\ o.authority = "v2" => o.file.data.gen \in AuthorityGeneration
  BY Seen DEF AuthorityGeneration
<1>2. CASE ImportAbsentPrototype(p)
  <2>1. Locked(p) /\ (Run(p, import) \/ \E code : Refuse(p, code))
    BY <1>2 DEF ImportAbsentPrototype, Assessed
  <2> HIDE DEF o
  <2>2. Allowed(import) /\ CopiesFirst(import)
    BY <1>1, ImportAllowed, OthersPlanned
  <2> HIDE DEF import
  <2> QED
    BY <2>1, <2>2, RunKeeps, RefuseKeeps
<1>3. CASE MigrateOrResumePrototype(p)
  <2>1. /\ Locked(p) /\ o.authority = "v2"
        /\ Run(p, receipt) \/ Run(p, replace) \/ \E code : Refuse(p, code)
    BY <1>3 DEF MigrateOrResumePrototype, Assessed
  <2> HIDE DEF o
  <2>2. Allowed(receipt) /\ CopiesFirst(receipt) /\ Allowed(replace) /\ CopiesFirst(replace)
    BY <1>1, <2>1, ReceiptAllowed, ReplacementAllowed, OthersPlanned
  <2> HIDE DEF receipt, replace
  <2> QED
    BY <2>1, <2>2, RunKeeps, RefuseKeeps
<1> QED
  BY <1>2, <1>3

LEMMA ResetPlanKeeps ==
  ASSUME LifecycleInv, NEW p \in Process, FullReset(p)
  PROVE  LifecycleInv'
<1> DEFINE plan == <<Destroy, Delete(FileAt(dir, Authority)), Verify("reset_complete")>>
<1>1. CASE \E code : Refuse(p, code)
  BY <1>1, RefuseKeeps DEF FullReset, Assessed
<1>2. CASE ~ \E code : Refuse(p, code)
  <2>1. /\ proc' = [proc EXCEPT ![p].pc = "running"] /\ Locked(p)
        /\ job' = [job EXCEPT !.at = "next", !.orphaned = private = "present", !.todo = plan]
        /\ UNCHANGED <<platform, world, lock, bounds>>
    BY <1>2 DEF FullReset, Assessed
  <2>2. /\ DOMAIN job' = JobFields /\ job'.todo = plan /\ job'.at = "next"
        /\ job'.file = job.file /\ job'.temp = job.temp
    BY <2>1 DEF LifecycleInv, Shapes, JobFields
  <2>3. Allowed(plan) /\ CopiesFirst(plan)
    BY ResetAllowed, FileIsSound DEF LifecycleInv, Media
  <2> HIDE DEF plan
  <2> QED
    BY <2>1, <2>2, <2>3, PlanKeeps
<1> QED
  BY <1>1, <1>2

LEMMA SaveKeeps ==
  ASSUME LifecycleInv, NEW p \in Process, StoreSave(p)
  PROVE  LifecycleInv'
<1>1. Locked(p) /\ proc[p].command = "save"
  BY DEF StoreSave
<1>2. ASSUME NEW code, Refuse(p, code) PROVE LifecycleInv'
  BY <1>1, <1>2, RefuseKeeps
<1>3. ASSUME NEW doc \in Document,
             Run(p, <<Commit(Payload("v2", doc), proc[p].base), Verify("saved")>>)
      PROVE  LifecycleInv'
  <2> DEFINE plan == <<Commit(Payload("v2", doc), proc[p].base), Verify("saved")>>
  <2>1. Allowed(plan)
    BY SaveAllowed DEF LifecycleInv, Shapes, AnyDocument
  <2>2. /\ DOMAIN job' = JobFields /\ job'.todo = plan /\ job'.at = "next"
        /\ job'.file = job.file /\ job'.temp = job.temp
        /\ UNCHANGED <<platform, world, lock, bounds>> /\ proc' = [proc EXCEPT ![p].pc = "running"]
    BY <1>3 DEF Run, LifecycleInv, Shapes, JobFields
  <2> HIDE DEF plan
  <2> QED
    BY <1>1, <2>1, <2>2, PlanKeeps DEF Converting
<1> QED
  BY <1>2, <1>3 DEF StoreSave

LEMMA OtherPlansKeep ==
  ASSUME LifecycleInv, NEW p \in Process,
         RefuseMigration(p) \/ RollbackBlockedByTemporary(p) \/ RepairPermissions(p)
  PROVE  LifecycleInv'
BY RefuseKeeps DEF RefuseMigration, RollbackBlockedByTemporary, RepairPermissions, Assessed

LEMMA LookKeeps ==
  ASSUME LifecycleInv, NEW p \in Process,
         \/ Reassess(p) \/ DestroyPrivateCredentials(p) \/ RevalidatePrototype(p) \/ Postcondition(p)
  PROVE  LifecycleInv'
<1>1. ASSUME At(p, "next"), Still, NoChange, NEW code, Fail(p, code) PROVE LifecycleInv'
  BY <1>1, FailKeeps, MediaSteps DEF NoChange, LifecycleInv
<1>2. NoChange => Media' /\ BackupsStay
  BY MediaSteps DEF NoChange, LifecycleInv, BackupsStay
<1>3. CASE Reassess(p)
  <2> DEFINE r == [proc[p] EXCEPT !.pc = "locked"]
  <2>1. /\ UNCHANGED <<job, dir, durable, platform, lock, prototype, edits>> /\ lock = p
        /\ proc' = [proc EXCEPT ![p] = r] /\ job.todo = <<>>
    BY <1>3 DEF Reassess, Still, NoChange, At
  <2>2. DOMAIN proc' = Process /\ proc'[p] = r /\ (\A q \in Process \ {p} : proc'[q] = proc[q])
        /\ DOMAIN r = ProcFields /\ r.base = proc[p].base /\ r.pc = "locked" /\ r.held = proc[p].held
    BY <2>1 DEF LifecycleInv, Shapes, ProcFields
  <2>3. ~ proc[p].held
    BY <1>3 DEF LifecycleInv, Held, Reassess, At
  <2> HIDE DEF r
  <2>4. Held'
    BY <2>1, <2>2, <2>3 DEF LifecycleInv, Held
  <2>5. \A q \in Process : DOMAIN proc'[q] = ProcFields /\ proc'[q].base \in AnyFile
    BY <2>2 DEF LifecycleInv, Shapes
  <2>6. edits' \in {edits, edits + 1} /\ prototype' \in AnyDocument
    BY <2>1 DEF LifecycleInv, Shapes
  <2> QED
    BY <2>1, <2>2, <2>4, <2>5, <2>6, JobStays
<1>4. CASE DestroyPrivateCredentials(p)
  <2>1. /\ Working(p) /\ NoChange /\ Advance /\ UNCHANGED <<platform, parent, prototype, lock, commands, edits>>
        /\ job.todo # <<>> /\ Head1.kind = "destroy"
    BY <1>4 DEF DestroyPrivateCredentials, StartOf, At, Working
  <2> QED
    BY <1>2, <2>1, AdvanceStep
<1>5. CASE RevalidatePrototype(p)
  <2>1. ASSUME Advance PROVE LifecycleInv'
    BY <1>2, <1>5, <2>1, AdvanceKeeps DEF RevalidatePrototype, StartOf, At, Working
  <2> QED
    BY <1>1, <1>5, <2>1 DEF RevalidatePrototype, StartOf
<1>6. CASE Postcondition(p)
  BY <1>1, <1>6 DEF Postcondition
<1> QED
  BY <1>3, <1>4, <1>5, <1>6

-----------------------------------------------------------------------------
(* The theorems.                                                           *)

LEMMA InitLifecycle ==
  ASSUME Init
  PROVE  LifecycleInv
<1>1. Sound(dir)
  <2>1. CASE dir = <<>>
    BY <2>1 DEF Sound, Backups
  <2>2. CASE dir # <<>>
    <3>1. PICK s \in Sources : dir = [n \in {Authority} |-> [node |-> 1, data |-> s]]
      BY <2>2 DEF Init
    <3>2. s \in AnyPayload /\ s # Torn
      BY DEF Stored, Future, Payload, Torn, AnyPayload, AuthorityGeneration, AnyGeneration, AnyDocument
    <3> QED
      BY <3>1, <3>2, AuthorityName DEF Sound, AnyFile, Backups, Whole
  <2> QED
    BY <2>1, <2>2
<1>2. durable = {dir} /\ job = NoJob /\ proc = [p \in Process |-> Idle] /\ edits = 0
      /\ prototype \in AnyDocument
  BY DEF Init, AnyDocument
<1>3. /\ DOMAIN job = JobFields /\ job.todo = <<>> /\ job.file \in AnyFile
      /\ job.temp.kind = "none" /\ job.at = "none"
  BY <1>2, NoJobShape
<1>4. Len(job.todo) = 0 /\ job.todo \in Seq(AnyOp)
  BY <1>3
<1>5. Shapes /\ Held
  BY <1>2, <1>3, <1>4, Idles DEF Shapes, Held, Holding
<1>6. Plans /\ Backed
  BY <1>4 DEF Plans, Backed
<1>7. Position /\ Candidate /\ Stays
  BY <1>3 DEF Position, Candidate, Stays, Preparing, Installed
<1> QED
  BY <1>1, <1>2, <1>5, <1>6, <1>7 DEF LifecycleInv, Media

LEMMA NextLifecycle ==
  ASSUME LifecycleInv, [Next]_vars
  PROVE  LifecycleInv'
<1>1. ASSUME NEW p \in Process, Command(p) PROVE LifecycleInv'
  BY <1>1, LockKeeps, RecoveryPlanKeeps, MigrateKeeps, ImportKeeps, ResetPlanKeeps, SaveKeeps, OtherPlansKeep
     DEF Command
<1>2. ASSUME NEW p \in Process, Transaction(p) PROVE LifecycleInv'
  BY <1>2, StartKeeps, WriteKeeps, CheckKeeps, InstallKeeps, CallsKeep, DiscardKeeps, RecoverKeeps,
     ResetKeeps, LookKeeps DEF Transaction
<1>3. ASSUME NEW p \in Process, Failure(p) PROVE LifecycleInv'
  BY <1>3, FailuresKeep, LockKeeps DEF Failure
<1>4. CASE UNCHANGED vars
  <2>1. UNCHANGED <<job, dir, durable, platform, edits, prototype, proc, lock>>
    BY <1>4 DEF vars
  <2>2. Held'
    BY <2>1 DEF LifecycleInv, Held
  <2> QED
    BY <2>1, <2>2, JobStays DEF LifecycleInv, Shapes
<1> QED
  BY <1>1, <1>2, <1>3, <1>4, WorldKeeps DEF Next

\* What every later argument stands on: the candidate of an operation is behind no
\* final name before its installing call, and plans copy what they replace.
THEOREM LifecycleInvariance == Spec => []LifecycleInv
BY InitLifecycle, NextLifecycle, PTL DEF Spec

\* No name but a temporary one ever has incomplete bytes behind it, in no directory
\* a power loss may leave, for any number of interruptions (create_private,
\* publish_no_replace, replace).
THEOREM FinalNamesWholeHolds == Spec => []FinalNamesWhole
<1>1. LifecycleInv => FinalNamesWhole
  BY DEF LifecycleInv, Media, Sound, Whole, FinalNamesWhole
<1> QED
  BY <1>1, LifecycleInvariance, PTL

\* A reset that is interrupted anywhere never leaves an older backup without its
\* authority (delete_all_credentials).
THEOREM AuthorityDeletedLastHolds == Spec => []AuthorityDeletedLast
<1>1. LifecycleInv => AuthorityDeletedLast
  BY DEF LifecycleInv, Media, Sound, AuthorityDeletedLast
<1> QED
  BY <1>1, LifecycleInvariance, PTL

-----------------------------------------------------------------------------
(* What a step may never do.                                               *)

\* Commands look and plan; they change no file.
LEMMA CommandsLook ==
  ASSUME NEW p \in Process, Command(p)
  PROVE  UNCHANGED <<dir, durable>>
<1>1. CASE \/ (\E c \in Commands : Begin(p, c)) \/ Acquire(p) \/ LockTimeout(p) \/ UnsafeParent(p)
           \/ RepairParent(p) \/ Release(p) \/ ReleaseFails(p)
  BY <1>1 DEF Begin, Acquire, LockTimeout, UnsafeParent, Refused, RepairParent, Release, ReleaseFails,
              world
<1>2. (\E code : Refuse(p, code)) => UNCHANGED <<dir, durable>>
  BY DEF Refuse, world
<1>3. (\E plan : Run(p, plan)) => UNCHANGED <<dir, durable>>
  BY DEF Run, world
<1>4. CASE LockedRecovery(p) \/ FullReset(p)
  BY <1>2, <1>4 DEF LockedRecovery, FullReset, world
<1>5. CASE \/ MigrateLegacy(p) \/ ImportAbsentPrototype(p) \/ MigrateOrResumePrototype(p)
  BY <1>2, <1>3, <1>5 DEF MigrateLegacy, ImportAbsentPrototype, MigrateOrResumePrototype
<1>6. CASE \/ RefuseMigration(p) \/ PrepareRollback(p) \/ RollbackBlockedByTemporary(p)
           \/ StoreSave(p) \/ RepairPermissions(p)
  BY <1>2, <1>3, <1>6
     DEF RefuseMigration, PrepareRollback, RollbackBlockedByTemporary, StoreSave, RepairPermissions
<1> QED
  BY <1>1, <1>4, <1>5, <1>6 DEF Command

\* The calls that may put another file under the name of the authority.
LEMMA ReplacedBy ==
  ASSUME LifecycleInv, Next, edits' = edits, lock' = lock, lock # NoProcess,
         Authority \in DOMAIN dir, Authority \in DOMAIN dir', dir[Authority] # dir'[Authority]
  PROVE  /\ At(lock, "install") /\ lock \in Process /\ Replacing
         /\ dir' = Moved /\ durable' \subseteq durable \cup {Moved}
<1>1. ~ PowerLoss /\ ~ LegacyWrite /\ ~ EditPrototype
  BY DEF PowerLoss, LegacyWrite, EditPrototype, LifecycleInv, Shapes
<1>2. PICK p \in Process : Transaction(p) \/ Failure(p)
  BY <1>1, CommandsLook DEF Next
<1>3. ~ NoChange /\ ~ Harden
  BY DEF NoChange, Harden, PosixHarden, WindowsHarden
<1>4. \A n : n # Authority => ~ Change(Remove(dir, n))
  BY DEF Change, Remove
<1>5. ~ Change(Remove(dir, Authority))
  BY DEF Change, Remove
<1>6. \A n, f : n # Authority => ~ Change(Put(dir, n, f))
  BY DEF Change, Put
<1>7. job.temp # Authority
  BY AuthorityName DEF LifecycleInv, Shapes
<1>8. ~ (CreateCandidate /\ job.todo # <<>>)
  BY <1>6, AuthorityName DEF CreateCandidate, TemporaryName, Name
<1>9. ~ (\/ StartPublish(p) \/ StartCommit(p))
  BY <1>3, <1>8 DEF StartPublish, StartCommit, StartOf
<1>10. ~ Write(p)
  <2>1. ASSUME Write(p) PROVE Private(dir)
    BY <2>1 DEF Write, LifecycleInv, Candidate, Media, At, Preparing
  <2> QED
    BY <2>1, AuthorityName DEF Write, Private
<1>11. ~ (\/ RequireExpectedAuthority(p) \/ PosixUnlink(p) \/ HardenFinal(p) \/ Prove(p)
          \/ CleanPublished(p) \/ Settle(p) \/ RemoveCandidate(p) \/ Discarded(p))
  BY <1>3, <1>4, <1>5
     DEF RequireExpectedAuthority, PosixUnlink, HardenFinal, Prove, CleanPublished, Settle,
         RemoveCandidate, Discarded
<1>12. ~ (\/ RecoverOrDiscardTemporary(p) \/ Reassess(p) \/ DestroyPrivateCredentials(p)
          \/ StartReset(p) \/ DeleteCredentialArtifact(p) \/ DeleteAuthority(p) \/ Removed(p)
          \/ RequireResetEmpty(p) \/ RevalidatePrototype(p) \/ Postcondition(p))
  BY <1>3, <1>4, <1>5
     DEF RecoverOrDiscardTemporary, Reassess, DestroyPrivateCredentials, StartReset,
         DeleteCredentialArtifact, DeleteAuthority, Removed, RequireResetEmpty, RevalidatePrototype,
         Postcondition
<1>13. ~ (\/ WriteFails(p) \/ InstallFails(p) \/ UnlinkFails(p) \/ HardenFails(p) \/ CleanFails(p)
          \/ RemoveCandidateFails(p) \/ RecoverFails(p) \/ DestroyFails(p) \/ DeleteFails(p)
          \/ VerifierFails(p) \/ Die(p) \/ End(p))
  BY <1>3 DEF WriteFails, InstallFails, UnlinkFails, HardenFails, CleanFails, RemoveCandidateFails,
              RecoverFails, DestroyFails, DeleteFails, VerifierFails, Die, End, world, NoChange
<1>14. At(p, "install") => Head1.name = Authority \/ (Head1.kind = "publish" /\ Head1.name # Authority)
  BY HeadIsPlanned DEF LifecycleInv, Position, Planned, At, Preparing
<1>15. ~ PosixLink(p)
  BY <1>3, <1>6, <1>14 DEF PosixLink
<1>16. PosixReplace(p) \/ WindowsMove(p) \/ WindowsMoveUnproved(p)
  BY <1>2, <1>9, <1>10, <1>11, <1>12, <1>13, <1>15 DEF Transaction, Failure
<1>17. At(p, "install") /\ (Change(Moved) \/ WriteThrough(Moved))
  BY <1>3, <1>16 DEF PosixReplace, WindowsMove, WindowsMoveUnproved
<1>18. dir' = Moved /\ durable' \subseteq durable \cup {Moved}
  BY <1>17 DEF Change, WriteThrough
<1>19. Head1.name = Authority
  BY <1>7, <1>14, <1>17, <1>18 DEF Moved, Put, Remove
<1>20. Replacing
  BY <1>3, <1>16, <1>19 DEF PosixReplace, WindowsMove, WindowsMoveUnproved
<1> QED
  BY <1>17, <1>18, <1>20 DEF At

\* A converting command replaces nothing of which no exact copy was published,
\* also when a released writer changed it in between: no power loss leaves the new
\* authority without the copy (migrate_accounts, prepare_rollback).
THEOREM BackupBeforeReplaceHolds == Spec => BackupBeforeReplace
<1>1. ASSUME LifecycleInv, [Next]_vars, lock # NoProcess, Converting(proc[lock].command),
             edits' = edits, lock' = lock, Authority \in DOMAIN dir, Authority \in DOMAIN dir',
             dir[Authority] # dir'[Authority], NEW d \in durable', FileAt(d, Authority) = dir'[Authority]
      PROVE  BackupName(dir[Authority].data) \in DOMAIN d
  <2>1. Next
    BY <1>1 DEF vars
  <2>2. /\ At(lock, "install") /\ lock \in Process /\ Replacing
        /\ dir' = Moved /\ durable' \subseteq durable \cup {Moved}
    BY <1>1, <2>1, ReplacedBy
  <2>3. /\ Head1.kind = "commit" /\ Head1.expected # NoFile /\ dir[Authority] = Head1.expected
        /\ \A e \in durable : Private(e)
    BY <1>1, <2>2 DEF Replacing, LifecycleInv, Candidate, At, FileAt, Preparing
  <2> DEFINE copy == BackupName(dir[Authority].data)
  <2>4. copy \in DOMAIN dir
    <3>1. job.todo # <<>> /\ job.todo \in Seq(AnyOp)
      BY <1>1, <2>2 DEF LifecycleInv, Position, Shapes, At, Preparing
    <3>2. 1 \in 1..Len(job.todo) /\ Head1 = job.todo[1]
      BY <3>1 DEF Head1
    <3> QED
      BY <1>1, <2>2, <2>3, <3>2 DEF LifecycleInv, Backed, BackedUp
  <2>5. copy \in DOMAIN Moved /\ Moved[Authority] = job.file /\ job.file # NoFile
    <3>1. copy.kind = "backup"
      BY DEF BackupName, Name
    <3> HIDE DEF copy
    <3> QED
      BY <1>1, <2>2, <2>3, <2>4, <3>1, InstalledIsSound DEF Moved
  <2>6. CASE d = Moved
    BY <2>5, <2>6
  <2>7. CASE d # Moved
    <3>1. d \in durable /\ Private(d)
      BY <2>2, <2>3, <2>7
    <3>2. FileAt(d, Authority) = job.file
      BY <1>1, <2>2, <2>5
    <3> QED
      BY <2>5, <3>1, <3>2, AuthorityName DEF FileAt, Private
  <2> QED
    BY <2>6, <2>7
<1>2. LifecycleInv /\ [Next]_vars
        => [(/\ lock # NoProcess /\ Converting(proc[lock].command)
             /\ edits' = edits /\ lock' = lock
             /\ Authority \in DOMAIN dir /\ Authority \in DOMAIN dir'
             /\ dir[Authority] # dir'[Authority])
            => \A d \in durable' :
                 FileAt(d, Authority) = dir'[Authority] => BackupName(dir[Authority].data) \in DOMAIN d]_vars
  BY <1>1
<1> QED
  BY <1>2, LifecycleInvariance, PTL DEF Spec, BackupBeforeReplace

\* What a commit that was proved put there is what any power loss leaves, unless a
\* released writer came after a rollback (replace, create_absent, harden).
THEOREM CommitSurvivesPowerLossHolds == Spec => CommitSurvivesPowerLoss
<1>1. ASSUME LifecycleInv, [Next]_vars, job.at = "prove", job'.at = "next"
      PROVE  \A d \in durable' : Committed(d)
  <2>1. job' # job
    BY <1>1
  <2>2. NoJob.at = "none"
    BY DEF NoJob
  <2>3. CASE \E p \in Process : Command(p)
    <3>1. durable' = durable
      BY <2>3, CommandsLook
    <3> QED
      BY <1>1, <3>1 DEF LifecycleInv, Position, Stays, Installed
  <2>4. CASE \E p \in Process : Prove(p)
    BY <1>1, <2>4 DEF Prove, NoChange, LifecycleInv, Position, Stays, Installed
  <2>5. ASSUME NEW p \in Process, Transaction(p), ~ Prove(p) PROVE FALSE
    <3>1. ASSUME NEW step, At(p, step), step # "prove" PROVE FALSE
      BY <1>1, <3>1 DEF At
    <3> QED
      BY <2>5, <3>1 DEF Transaction, StartPublish, StartCommit, Write, RequireExpectedAuthority,
           PosixReplace, PosixLink, PosixUnlink, WindowsMove, HardenFinal, CleanPublished, Settle,
           RemoveCandidate, Discarded, RecoverOrDiscardTemporary, Reassess, DestroyPrivateCredentials,
           StartReset, DeleteCredentialArtifact, DeleteAuthority, Removed, RequireResetEmpty,
           RevalidatePrototype, Postcondition, StartOf
  <2>6. ASSUME NEW p \in Process, Failure(p) PROVE FALSE
    <3>1. ASSUME NEW step, At(p, step), step # "prove" PROVE FALSE
      BY <1>1, <3>1 DEF At
    <3>2. ~ Die(p) /\ ~ End(p)
      BY <1>1, <2>1, <2>2 DEF Die, End
    <3> QED
      BY <2>6, <3>1, <3>2 DEF Failure, WriteFails, InstallFails, WindowsMoveUnproved, UnlinkFails,
           HardenFails, CleanFails, RemoveCandidateFails, RecoverFails, DestroyFails, DeleteFails,
           VerifierFails, StartOf
  <2>7. ~ PowerLoss /\ ~ LegacyWrite /\ ~ EditPrototype
    BY <1>1, <2>1, <2>2 DEF PowerLoss, LegacyWrite, EditPrototype
  <2> QED
    BY <1>1, <2>1, <2>3, <2>4, <2>5, <2>6, <2>7 DEF Next, vars
<1>2. LifecycleInv /\ [Next]_vars
        => [(job.at = "prove" /\ job'.at = "next") => \A d \in durable' : Committed(d)]_vars
  BY <1>1
<1> QED
  BY <1>2, LifecycleInvariance, PTL DEF Spec, CommitSurvivesPowerLoss

\* A command that has not the lock, or only looks, leaves a running one alone.
LEMMA CommandsLeaveRunning ==
  ASSUME LifecycleInv, NEW q \in Process, Command(q), NEW p \in Process, proc[p].pc = "running"
  PROVE  proc'[p] = proc[p]
<1>1. DOMAIN proc = Process
  BY DEF LifecycleInv, Shapes
<1>2. ASSUME proc[q].pc # "running", NEW r, proc' = [proc EXCEPT ![q] = r] PROVE proc'[p] = proc[p]
  BY <1>1, <1>2
<1>3. CASE \/ (\E c \in Commands : Begin(q, c)) \/ Acquire(q) \/ LockTimeout(q) \/ UnsafeParent(q)
           \/ RepairParent(q) \/ Release(q) \/ ReleaseFails(q)
  BY <1>2, <1>3
     DEF Begin, Acquire, LockTimeout, UnsafeParent, Refused, RepairParent, Release, ReleaseFails
<1>4. ASSUME Locked(q), NEW code, Refuse(q, code) PROVE proc'[p] = proc[p]
  BY <1>1, <1>4 DEF Locked, Refuse, Finish
<1>5. ASSUME Locked(q), proc' = [proc EXCEPT ![q].pc = "running"] PROVE proc'[p] = proc[p]
  BY <1>1, <1>5 DEF Locked
<1>6. (\E plan : Run(q, plan)) => proc' = [proc EXCEPT ![q].pc = "running"]
  BY DEF Run
<1>7. CASE LockedRecovery(q) \/ FullReset(q)
  BY <1>4, <1>5, <1>7 DEF LockedRecovery, FullReset, Assessed
<1>8. CASE \/ MigrateLegacy(q) \/ ImportAbsentPrototype(q) \/ MigrateOrResumePrototype(q)
  BY <1>4, <1>5, <1>6, <1>8
     DEF MigrateLegacy, ImportAbsentPrototype, MigrateOrResumePrototype, Assessed
<1>9. CASE \/ RefuseMigration(q) \/ PrepareRollback(q) \/ RollbackBlockedByTemporary(q)
           \/ StoreSave(q) \/ RepairPermissions(q)
  BY <1>4, <1>5, <1>6, <1>9
     DEF RefuseMigration, PrepareRollback, RollbackBlockedByTemporary, StoreSave, RepairPermissions,
         Assessed
<1> QED
  BY <1>3, <1>7, <1>8, <1>9 DEF Command

\* A commit ends with a definite failure only by giving up its candidate.
LEMMA GivesUp ==
  ASSUME LifecycleInv, Next, NEW p \in Process, proc[p].pc = "running", proc'[p].pc = "releasing",
         job.todo # <<>>, Head1.kind = "commit", proc'[p].code # "DURABILITY_UNCERTAIN",
         job.file # NoFile
  PROVE  job.at \in {"discard", "discarded"} /\ durable' \subseteq durable
<1>1. DOMAIN proc = Process /\ DOMAIN proc[p] = ProcFields
  BY DEF LifecycleInv, Shapes
<1>2. proc' # proc /\ proc'[p] # proc[p] /\ proc'[p] # Idle
  BY DEF Idle
<1>3. ~ PowerLoss /\ ~ LegacyWrite /\ ~ EditPrototype
  BY <1>2 DEF PowerLoss, LegacyWrite, EditPrototype
<1>4. PICK q \in Process : Transaction(q) \/ Failure(q)
  BY <1>2, <1>3, CommandsLeaveRunning DEF Next
<1>5. ASSUME NEW code, Fail(q, code) PROVE q = p /\ proc'[p].code = code
  BY <1>1, <1>2, <1>5 DEF Fail, Finish, ProcFields
<1>6. ~ Fail(q, "DURABILITY_UNCERTAIN")
  BY <1>5
<1>7. ~ (\E next : Goto(next)) /\ ~ (\E code : Abandon(code)) /\ ~ Advance /\ ~ CreateCandidate
  BY <1>2 DEF Goto, Abandon, Advance, CreateCandidate
<1>8. \A kind : kind # "commit" => ~ StartOf(q, kind)
  BY DEF StartOf
<1>9. ~ (\/ StartPublish(q) \/ StartCommit(q) \/ Write(q) \/ RequireExpectedAuthority(q)
         \/ PosixReplace(q) \/ PosixLink(q) \/ PosixUnlink(q) \/ WindowsMove(q) \/ HardenFinal(q)
         \/ Prove(q) \/ CleanPublished(q) \/ Settle(q) \/ RemoveCandidate(q))
  BY <1>6, <1>7, <1>8
     DEF StartPublish, StartCommit, Write, RequireExpectedAuthority, PosixReplace, PosixLink,
         PosixUnlink, WindowsMove, HardenFinal, Prove, CleanPublished, Settle, RemoveCandidate
<1>10. ~ (At(q, "reset") \/ At(q, "removed"))
  BY DEF LifecycleInv, Position, At
<1>11. ~ (\/ RecoverOrDiscardTemporary(q) \/ DestroyPrivateCredentials(q) \/ StartReset(q)
          \/ DeleteCredentialArtifact(q) \/ DeleteAuthority(q) \/ Removed(q) \/ RequireResetEmpty(q)
          \/ RevalidatePrototype(q) \/ RecoverFails(q) \/ DestroyFails(q) \/ DeleteFails(q)
          \/ VerifierFails(q))
  BY <1>8, <1>10
     DEF RecoverOrDiscardTemporary, DestroyPrivateCredentials, StartReset, DeleteCredentialArtifact,
         DeleteAuthority, Removed, RequireResetEmpty, RevalidatePrototype, RecoverFails, DestroyFails,
         DeleteFails, VerifierFails
<1>12. ~ Reassess(q) /\ ~ Postcondition(q)
  BY DEF Reassess, Postcondition
<1>13. ~ (\/ WriteFails(q) \/ InstallFails(q) \/ WindowsMoveUnproved(q) \/ UnlinkFails(q)
          \/ HardenFails(q) \/ CleanFails(q))
  BY <1>6, <1>7
     DEF WriteFails, InstallFails, WindowsMoveUnproved, UnlinkFails, HardenFails, CleanFails
<1>14. ~ Die(q) /\ ~ End(q)
  BY <1>1, <1>2 DEF Die, End, Stop
<1>15. Discarded(q) \/ RemoveCandidateFails(q)
  BY <1>4, <1>9, <1>11, <1>12, <1>13, <1>14 DEF Transaction, Failure
<1>16. Harden => durable' \subseteq durable
  BY MediaSteps DEF LifecycleInv
<1> QED
  BY <1>15, <1>16 DEF Discarded, RemoveCandidateFails, At, NoChange

\* A commit that reports a definite failure installed nothing, in no directory a
\* power loss may leave: only the failures before the installing call, or those that
\* provably had no effect, are definite (ReplaceFailedError, DurabilityUncertainError).
THEOREM FailureIsTruthfulHolds == Spec => FailureIsTruthful
<1>1. ASSUME LifecycleInv, [Next]_vars, NEW p \in Process, proc[p].pc = "running",
             proc'[p].pc = "releasing", job.todo # <<>>, Head(job.todo).kind = "commit",
             job.file # NoFile, proc'[p].code # "DURABILITY_UNCERTAIN", NEW d \in durable'
      PROVE  FileAt(d, Authority) # job.file
  <2>1. Next
    BY <1>1 DEF vars
  <2>2. job.at \in {"discard", "discarded"} /\ durable' \subseteq durable
    BY <1>1, <2>1, GivesUp DEF Head1
  <2>3. Private(d)
    BY <1>1, <2>2 DEF LifecycleInv, Candidate, Preparing
  <2> QED
    BY <1>1, <2>3, AuthorityName DEF FileAt, Private
<1>2. LifecycleInv /\ [Next]_vars
        => [\A p \in Process :
              (/\ proc[p].pc = "running" /\ proc'[p].pc = "releasing"
               /\ job.todo # <<>> /\ Head(job.todo).kind = "commit" /\ job.file # NoFile
               /\ proc'[p].code # "DURABILITY_UNCERTAIN")
              => \A d \in durable' : FileAt(d, Authority) # job.file]_vars
  BY <1>1
<1> QED
  BY <1>2, LifecycleInvariance, PTL DEF Spec, FailureIsTruthful

-----------------------------------------------------------------------------
(* The temporary that an interruption leaves.                              *)

\* A temporary and the final name it was linked to.
HalfOf(t, n) ==
  /\ t.kind = "temporary"
  /\ \/ t.gen = "authority" /\ n.kind = "authority"
     \/ t.gen = "backup" /\ n.kind = "backup" /\ n.gen = "v0"
     \/ t.gen = "snapshot" /\ n.kind = "backup"
     \/ t.gen = "receipt" /\ n.kind = "receipt"

\* A location where a conversion or a write may begin.
Ready(d) ==
  IF Authority \in DOMAIN d THEN d[Authority].data.gen \in AuthorityGeneration
  ELSE Backups(d) = {}

\* What a directory holds of an interrupted command: one temporary at most, which
\* shares its inode with nothing but its final name, beside an authority that can
\* be read or none that anything else could stand for.
Interruptible(d) ==
  /\ \A t, u \in Temporaries(d) : t = u
  /\ \A m, n \in DOMAIN d :
       m # n /\ d[m].node = d[n].node => d[m] = d[n] /\ (HalfOf(m, n) \/ HalfOf(n, m))
  /\ \A n \in DOMAIN d \ {Authority} : n.kind \in {"backup", "receipt", "temporary"}
  /\ Temporaries(d) # {} => Ready(d)

\* As long as something is to be published or committed there is no temporary but
\* the candidate of the operation.
Preparable ==
  Pending =>
    /\ Ready(dir)
    /\ Temporaries(dir) \subseteq {job.temp}
    /\ job.at \notin Preparing \cup {"unlink", "harden", "clean"} => Temporaries(dir) = {}
    /\ job.at = "harden" /\ Head1.kind = "commit" => Temporaries(dir) = {}
    /\ job.at \in Preparing => HalfOf(job.temp, Head1.name)

Directories == \A d \in durable : Interruptible(d)

InterruptionInv ==
  /\ Directories
  /\ private \in {"absent", "present"}
  /\ Preparable

-----------------------------------------------------------------------------
(* Directories.                                                            *)

LEMMA FinalNames ==
  ASSUME NEW t, NEW n, HalfOf(t, n)
  PROVE  t.kind = "temporary" /\ n.kind # "temporary" /\ t # n
BY DEF HalfOf

LEMMA RemoveInterruptible ==
  ASSUME NEW d, Interruptible(d), NEW n, n # Authority \/ Temporaries(d) = {}
  PROVE  Interruptible(Remove(d, n)) /\ (n # Authority /\ Ready(d) => Ready(Remove(d, n)))
<1> DEFINE e == Remove(d, n)
<1>1. DOMAIN e = DOMAIN d \ {n} /\ \A m \in DOMAIN e : e[m] = d[m]
  BY DEF Remove
<1> HIDE DEF e
<1>2. Temporaries(e) \subseteq Temporaries(d) /\ Backups(e) \subseteq Backups(d)
  BY <1>1 DEF Temporaries, Backups
<1>3. n # Authority /\ Ready(d) => Ready(e)
  BY <1>1, <1>2 DEF Ready
<1>4. Interruptible(e)
  BY <1>1, <1>2, <1>3 DEF Interruptible
<1> QED
  BY <1>3, <1>4 DEF e

\* A file of its own under the name of a temporary, or of the authority.
LEMMA PutInterruptible ==
  ASSUME NEW d, Interruptible(d), NEW n, NEW f, \A m \in DOMAIN d : d[m].node # f.node,
         \/ n.kind = "temporary" /\ Temporaries(d) = {} /\ Ready(d)
         \/ n = Authority /\ f.data.gen \in AuthorityGeneration
  PROVE  Interruptible(Put(d, n, f)) /\ Ready(Put(d, n, f))
<1> DEFINE e == Put(d, n, f)
<1>1. DOMAIN e = DOMAIN d \cup {n} /\ e[n] = f /\ \A m \in DOMAIN d \ {n} : e[m] = d[m]
  BY DEF Put
<1> HIDE DEF e
<1>2. CASE n.kind = "temporary" /\ Temporaries(d) = {} /\ Ready(d)
  <2>1. n # Authority
    BY <1>2, AuthorityName
  <2>2. Backups(e) = Backups(d) /\ Temporaries(e) = {n}
    BY <1>1, <1>2 DEF Backups, Temporaries
  <2>3. Ready(e)
    BY <1>1, <1>2, <2>1, <2>2 DEF Ready
  <2>4. Interruptible(e)
    BY <1>1, <1>2, <2>2, <2>3 DEF Interruptible
  <2> QED
    BY <2>3, <2>4 DEF e
<1>3. CASE n = Authority /\ f.data.gen \in AuthorityGeneration
  <2>1. Temporaries(e) = Temporaries(d)
    BY <1>1, <1>3, AuthorityName DEF Temporaries
  <2>2. Ready(e)
    BY <1>1, <1>3 DEF Ready
  <2>3. Interruptible(e)
    BY <1>1, <1>3, <2>1, <2>2 DEF Interruptible
  <2> QED
    BY <2>2, <2>3 DEF e
<1> QED
  BY <1>2, <1>3

\* An installing call: the candidate gets its final name, beside its own or not.
LEMMA InstallInterruptible ==
  ASSUME NEW d, Interruptible(d), Ready(d), NEW t \in DOMAIN d, Temporaries(d) \subseteq {t},
         \A m \in DOMAIN d : d[m].node = d[t].node => m.kind = "temporary",
         NEW n, HalfOf(t, n), n.kind = "authority" => n = Authority /\ d[t].data.gen \in AuthorityGeneration,
         n.kind = "backup" => Authority \in DOMAIN d,
         NEW kept, \/ kept = d /\ n \notin DOMAIN d
                   \/ kept = Remove(d, t)
  PROVE  LET e == Put(kept, n, d[t])
         IN /\ Interruptible(e) /\ Ready(e)
            /\ Temporaries(e) = Temporaries(d) \cap DOMAIN kept
<1> DEFINE e == Put(kept, n, d[t])
<1>1. /\ DOMAIN kept \subseteq DOMAIN d /\ \A m \in DOMAIN kept : kept[m] = d[m]
      /\ \A m \in DOMAIN d : m # t => m \in DOMAIN kept
  BY DEF Remove
<1>2. DOMAIN e = DOMAIN kept \cup {n} /\ e[n] = d[t] /\ \A m \in DOMAIN kept \ {n} : e[m] = d[m]
  BY <1>1 DEF Put
<1>3. t.kind = "temporary" /\ n.kind # "temporary" /\ t # Authority
      /\ n.kind \in {"authority", "backup", "receipt"}
  BY AuthorityName DEF HalfOf
<1>4. kept = Remove(d, t) => t \notin DOMAIN kept
  BY DEF Remove
<1> HIDE DEF e
<1>5. \A m \in DOMAIN kept \ {n} : d[m].node = d[t].node => m = t
  BY <1>1, <1>3 DEF Temporaries
<1>6. Temporaries(e) = Temporaries(d) \cap DOMAIN kept
  BY <1>1, <1>2, <1>3 DEF Temporaries
<1>7. Ready(e)
  <2>1. CASE n = Authority
    BY <1>2, <2>1, AuthorityName DEF Ready
  <2>2. CASE n # Authority
    <3>1. Authority \in DOMAIN e <=> Authority \in DOMAIN d
      BY <1>1, <1>2, <1>3, <2>2
    <3>2. Authority \notin DOMAIN d => Backups(e) \subseteq Backups(d)
      BY <1>1, <1>2 DEF Backups
    <3> QED
      BY <1>1, <1>2, <1>3, <2>2, <3>1, <3>2 DEF Ready
  <2> QED
    BY <2>1, <2>2
<1>8. ASSUME NEW x \in DOMAIN e, NEW y \in DOMAIN e, x # y, e[x].node = e[y].node
      PROVE  e[x] = e[y] /\ (HalfOf(x, y) \/ HalfOf(y, x))
  <2>1. CASE x # n /\ y # n
    BY <1>1, <1>2, <1>8, <2>1 DEF Interruptible
  <2>2. CASE x = n
    <3>1. y = t /\ e[y] = d[t]
      BY <1>2, <1>5, <1>8, <2>2
    <3> QED
      BY <1>2, <2>2, <3>1
  <2>3. CASE y = n
    <3>1. x = t /\ e[x] = d[t]
      BY <1>2, <1>5, <1>8, <2>3
    <3> QED
      BY <1>2, <2>3, <3>1
  <2> QED
    BY <2>1, <2>2, <2>3
<1>9. \A m \in DOMAIN e \ {Authority} : m.kind \in {"backup", "receipt", "temporary"}
  BY <1>1, <1>2, <1>3 DEF Interruptible
<1>10. \A u, v \in Temporaries(e) : u = v
  BY <1>6 DEF Interruptible
<1>11. Interruptible(e)
  BY <1>7, <1>8, <1>9, <1>10 DEF Interruptible
<1> QED
  BY <1>6, <1>7, <1>11 DEF e

-----------------------------------------------------------------------------
(* What an assessment says of a directory.                                 *)

Codes == {"UNSAFE_PERMISSIONS", "FUTURE_SCHEMA", "INVALID_SCHEMA", "BACKUP_CONFLICT",
          "INTERRUPTED_ARTIFACTS", "LEGACY_WRITER_DETECTED", "ROLLBACK_PREPARED",
          "MIGRATION_REQUIRED", "PROTOTYPE_IMPORT_REQUIRED", "PROTOTYPE_IMPORTED", "CURRENT", "EMPTY"}

LessRank == {p \in Nat \X Nat : p[1] < p[2]}

\* The least of a set of priorities exists.
LEMMA LeastRank == ASSUME NEW I \in SUBSET Nat, I # {} PROVE \E x \in I : \A y \in I : x <= y
<1>1. OpToRel(<, Nat) = LessRank
  BY DEF OpToRel, LessRank
<1>2. IsWellFoundedOn(LessRank, Nat)
  BY <1>1, NatLessThanWellFounded
<1>3. PICK x \in I : \A y \in I : <<y, x>> \notin LessRank
  BY <1>2, WFMin
<1>4. ASSUME NEW y \in I PROVE x <= y
  <2>1. <<y, x>> \in Nat \X Nat /\ <<y, x>>[1] = y /\ <<y, x>>[2] = x
    OBVIOUS
  <2> QED BY <1>3, <2>1 DEF LessRank
<1> QED BY <1>4

LEMMA Priorities == \A c \in Codes : PassivePriority[c] \in Nat
BY DEF Codes, PassivePriority

LEMMA IssueCodes == ASSUME NEW o PROVE \A i \in Issues(o) : i.code \in Codes
<1>1. \A code, name : Issue(code, name).code = code
  BY DEF Issue
<1>2. \A i \in InterruptionIssues(o) : i.code = "INTERRUPTED_ARTIFACTS"
  BY <1>1 DEF InterruptionIssues
<1>3. \A a : ArtifactFailureIssue(a).code \in Codes
  BY <1>1 DEF ArtifactFailureIssue, Codes
<1>4. \A kind : AuthorityFailureIssue(kind).code \in Codes
  BY <1>1 DEF AuthorityFailureIssue, Codes
<1>5. GenerationZeroIssue(o) \in Codes /\ VersionTwoIssue(o) \in Codes
  BY DEF GenerationZeroIssue, VersionTwoIssue, Codes
<1>6. AbsentIssue(o).code \in Codes
  BY <1>1 DEF AbsentIssue, Codes
<1>7. LogicalIssue(o).code \in Codes
  <2>1. CASE o.authority \in {"v0", "v1", "v2", "absent"}
    BY <1>1, <1>5, <1>6, <2>1 DEF LogicalIssue, Codes
  <2>2. CASE o.authority \notin {"v0", "v1", "v2", "absent"}
    BY <1>4, <2>2 DEF LogicalIssue
  <2> QED
    BY <2>1, <2>2
<1> QED
  BY <1>2, <1>3, <1>7 DEF Issues, Codes

\* The code of an assessment is one of its issues, and no issue comes before it.
LEMMA AssessIs ==
  ASSUME NEW o
  PROVE  /\ \E i \in Issues(o) : Assess(o) = i.code
         /\ \A i \in Issues(o) : PassivePriority[Assess(o)] <= PassivePriority[i.code]
<1> DEFINE codes == {i.code : i \in Issues(o)}
           ranks == {PassivePriority[c] : c \in codes}
<1>1. codes \subseteq Codes
  BY IssueCodes
<1>2. LogicalIssue(o).code \in codes
  BY DEF Issues
<1>3. ranks \subseteq Nat /\ ranks # {}
  BY <1>1, <1>2, Priorities
<1>4. PICK least \in ranks : \A r \in ranks : least <= r
  BY <1>3, LeastRank
<1>5. \E c \in codes : \A other \in codes : PassivePriority[c] <= PassivePriority[other]
  BY <1>4
<1>6. Assess(o) \in codes /\ \A other \in codes : PassivePriority[Assess(o)] <= PassivePriority[other]
  BY <1>5 DEF Assess
<1> QED
  BY <1>6

Clear == {"LEGACY_WRITER_DETECTED", "ROLLBACK_PREPARED", "MIGRATION_REQUIRED",
          "PROTOTYPE_IMPORT_REQUIRED", "PROTOTYPE_IMPORTED", "CURRENT", "EMPTY"}

\* What an assessment must have found for a command to convert or to write.
LEMMA ClearIsReady ==
  ASSUME NEW explicit \in BOOLEAN, Assess(Observed(explicit)) \in Clear
  PROVE  Temporaries(dir) = {} /\ Ready(dir)
<1> DEFINE o == Observed(explicit)
<1>1. \A i \in Issues(o) : PassivePriority[i.code] > 90
  BY AssessIs, IssueCodes, Priorities DEF Clear, PassivePriority
<1>2. \A i \in Issues(o) : i.code \notin {"UNSAFE_PERMISSIONS", "FUTURE_SCHEMA", "INVALID_SCHEMA",
                                        "INTERRUPTED_ARTIFACTS"}
  BY <1>1 DEF PassivePriority
<1>3. \A code, name : Issue(code, name).code = code
  BY DEF Issue
<1>4. \A kind : AuthorityFailureIssue(kind).code \in {"UNSAFE_PERMISSIONS", "FUTURE_SCHEMA", "INVALID_SCHEMA"}
  BY <1>3 DEF AuthorityFailureIssue
<1>5. o.authority \in AuthorityGeneration \cup {"absent"}
  BY <1>2, <1>4 DEF Issues, LogicalIssue, AuthorityGeneration
<1>6. parent = "private"
  BY <1>5 DEF Observed, Inspect, AuthorityGeneration
<1>7. o.authority = ReadAuthority(dir) /\ o.artifacts = ReadManagedArtifacts(dir)
  BY <1>6 DEF Observed, Inspect
<1> HIDE DEF o
<1>8. \A n \in DOMAIN dir \ {Authority} : \E a \in o.artifacts : a.name = n
  <2> TAKE n \in DOMAIN dir \ {Authority}
  <2>1. ReadManaged(dir, n) \in o.artifacts
    BY <1>7 DEF ReadManagedArtifacts
  <2>2. ReadManaged(dir, n).name = n
    BY DEF ReadManaged
  <2> QED
    BY <2>1, <2>2
<1>9. OfKind(o.artifacts, "temporary") = {}
  BY <1>2, <1>3 DEF Issues, InterruptionIssues
<1>10. Temporaries(dir) = {}
  BY <1>8, <1>9, AuthorityName DEF Temporaries, OfKind
<1>11. CASE Authority \in DOMAIN dir
  <2>1. dir[Authority].data.gen \in AuthorityGeneration
    BY <1>5, <1>7, <1>11 DEF ReadAuthority, AuthorityGeneration
  <2> QED
    BY <1>10, <1>11, <2>1 DEF Ready
<1>12. CASE Authority \notin DOMAIN dir
  <2>1. o.authority = "absent"
    BY <1>7, <1>12 DEF ReadAuthority, Readable, LinkProof
  <2>2. OfKind(o.artifacts, "backup") = {}
    BY <1>2, <1>3, <2>1 DEF Issues, InterruptionIssues
  <2>3. Backups(dir) = {}
    BY <1>8, <2>2, AuthorityName DEF Backups, OfKind
  <2> QED
    BY <1>10, <1>12, <2>3 DEF Ready
<1> QED
  BY <1>11, <1>12

\* Names of one inode are the two halves of a publication.
LEMMA Halves ==
  ASSUME NEW d, Interruptible(d), NEW n \in DOMAIN d
  PROVE  \/ LinkCount(d, n) = 1
         \/ \E m \in DOMAIN d \ {n} :
              /\ LinkCount(d, n) = 2 /\ LinkCount(d, m) = 2 /\ d[m] = d[n]
              /\ HalfOf(m, n) \/ HalfOf(n, m)
              /\ \A k \in DOMAIN d : d[k].node = d[n].node => k = m \/ k = n
<1> DEFINE same == {m \in DOMAIN d : d[m].node = d[n].node}
<1>1. CASE same = {n}
  BY <1>1, FS_Singleton DEF LinkCount
<1>2. CASE same # {n}
  <2>1. PICK m \in same : m # n
    BY <1>2
  <2>2. d[m] = d[n] /\ (HalfOf(m, n) \/ HalfOf(n, m))
    BY <2>1 DEF Interruptible
  <2>3. ASSUME NEW k \in same, k # m, k # n PROVE FALSE
    <3>1. (HalfOf(k, n) \/ HalfOf(n, k)) /\ (HalfOf(k, m) \/ HalfOf(m, k))
      BY <2>1, <2>3 DEF Interruptible
    <3>2. \A t, u \in DOMAIN d : t.kind = "temporary" /\ u.kind = "temporary" => t = u
      BY DEF Interruptible, Temporaries
    <3> QED
      BY <2>1, <2>2, <2>3, <3>1, <3>2, FinalNames
  <2>4. same = {n} \cup {m}
    BY <2>1, <2>3
  <2>5. Cardinality(same) = 2
    <3>1. IsFiniteSet({n}) /\ Cardinality({n}) = 1
      BY FS_Singleton
    <3>2. Cardinality({n} \cup {m}) = Cardinality({n}) + 1
      BY <2>1, <3>1, FS_AddElement
    <3> QED
      BY <2>4, <3>1, <3>2
  <2>6. LinkCount(d, n) = 2 /\ LinkCount(d, m) = 2
    BY <2>1, <2>2, <2>5 DEF LinkCount
  <2> QED
    BY <2>1, <2>2, <2>4, <2>6
<1> QED
  BY <1>1, <1>2

LEMMA PublicationPair ==
  ASSUME NEW t, NEW n, HalfOf(t, n), t.gen = "snapshot" => n.gen = "v1"
  PROVE  IsPublicationPair(t, n)
BY DEF HalfOf, IsPublicationPair

\* Everything of such a directory can be read, unless it is the snapshot that no
\* table of pairs knows.
LEMMA AllReadable ==
  ASSUME NEW d, Interruptible(d),
         \A t \in Temporaries(d) : t.gen = "snapshot" => LinkProof(d, t) # "unsafe",
         NEW n \in DOMAIN d
  PROVE  Readable(d, n)
<1>1. CASE LinkCount(d, n) = 1
  BY <1>1 DEF Readable, LinkProof
<1>2. CASE LinkCount(d, n) # 1
  <2>1. PICK m \in DOMAIN d \ {n} :
              /\ LinkCount(d, n) = 2 /\ LinkCount(d, m) = 2 /\ d[m] = d[n]
              /\ HalfOf(m, n) \/ HalfOf(n, m)
              /\ \A k \in DOMAIN d : d[k].node = d[n].node => k = m \/ k = n
    BY <1>2, Halves
  <2>2. LinkPartners(d, n) \subseteq {m} /\ LinkPartners(d, m) \subseteq {n}
    BY <2>1 DEF LinkPartners
  <2>3. IsPublicationPair(m, n) \/ IsPublicationPair(n, m) => LinkPartners(d, n) = {m}
    BY <2>1, <2>2 DEF LinkPartners
  <2>4. IsPublicationPair(m, n) \/ IsPublicationPair(n, m) \/ LinkPartners(d, n) = {}
    BY <2>2 DEF LinkPartners
  <2>5. LinkPartners(d, n) = {m} => Readable(d, n)
    BY <2>1, FS_Singleton DEF Readable, LinkProof
  <2>6. CASE HalfOf(m, n)
    <3>1. CASE m.gen = "snapshot" /\ ~ IsPublicationPair(m, n)
      <4>1. LinkPartners(d, m) = {}
        <5>1. ~ IsPublicationPair(n, m)
          BY <2>6, FinalNames DEF IsPublicationPair
        <5> QED
          BY <2>2, <3>1, <5>1 DEF LinkPartners
      <4>2. LinkProof(d, m) = "unsafe"
        BY <2>1, <4>1, FS_EmptySet DEF LinkProof
      <4> QED
        BY <2>6, <3>1, <4>2, FinalNames DEF Temporaries
    <3>2. CASE m.gen # "snapshot" \/ IsPublicationPair(m, n)
      BY <2>3, <2>5, <2>6, <3>2, PublicationPair
    <3> QED
      BY <3>1, <3>2
  <2>7. CASE HalfOf(n, m)
    <3>1. CASE n.gen = "snapshot" /\ ~ IsPublicationPair(n, m)
      <4>1. ~ IsPublicationPair(m, n)
        BY <2>7, FinalNames DEF IsPublicationPair
      <4>2. LinkPartners(d, n) = {}
        BY <2>2, <3>1, <4>1 DEF LinkPartners
      <4>3. LinkProof(d, n) = "unsafe"
        BY <2>1, <4>2, FS_EmptySet DEF LinkProof
      <4> QED
        BY <2>7, <3>1, <4>3, FinalNames DEF Temporaries
    <3>2. CASE n.gen # "snapshot" \/ IsPublicationPair(n, m)
      BY <2>3, <2>5, <2>7, <3>2, PublicationPair
    <3> QED
      BY <3>1, <3>2
  <2> QED
    BY <2>1, <2>6, <2>7
<1> QED
  BY <1>1, <1>2

\* The one temporary that an interruption left can be resolved, whatever the next
\* command is.
LEMMA InterruptedIsResolvable ==
  ASSUME LifecycleInv, InterruptionInv, ~ UnrecognisedPublication, parent = "private",
         Temporaries(dir) # {}, NEW explicit \in BOOLEAN
  PROVE  CanRecoverTemporaries(Observed(explicit))
<1> DEFINE o == Observed(explicit)
<1>1. Interruptible(dir) /\ Sound(dir) /\ private # "interrupted"
  BY DEF LifecycleInv, Media, InterruptionInv, Directories
<1>2. PICK t \in DOMAIN dir : t.kind = "temporary" /\ \A n \in DOMAIN dir : n.kind = "temporary" => n = t
  BY <1>1 DEF Interruptible, Temporaries
<1>3. \A n \in DOMAIN dir : Readable(dir, n)
  BY <1>1, AllReadable DEF UnrecognisedPublication
<1>4. /\ o.authority = ReadAuthority(dir) /\ o.artifacts = ReadManagedArtifacts(dir)
      /\ o.private = private
  BY DEF Observed, Inspect
<1> HIDE DEF o
<1>5. \A n, p : n.kind = "temporary" => ValidateManagedArtifact(n, p) = "valid"
  BY DEF ValidateManagedArtifact
<1>6. \A n \in DOMAIN dir \ {Authority} : ValidateManagedArtifact(n, dir[n].data) = "valid"
  <2> TAKE n \in DOMAIN dir \ {Authority}
  <2>1. n.kind \in {"backup", "receipt", "temporary"} /\ Whole(n, dir[n].data)
    BY <1>1 DEF Interruptible, Sound
  <2>2. CASE n.kind = "temporary"
    BY <1>5, <2>2
  <2>3. CASE n.kind = "backup"
    BY <2>1, <2>3 DEF ValidateManagedArtifact, Whole
  <2>4. CASE n.kind = "receipt"
    BY <2>1, <2>4 DEF ValidateManagedArtifact, Whole
  <2> QED
    BY <2>1, <2>2, <2>3, <2>4
<1>7. \A a \in o.artifacts : a.state = "valid" /\ a.name \in DOMAIN dir \ {Authority}
  BY <1>3, <1>4, <1>6 DEF ReadManagedArtifacts, ReadManaged
<1>8. PICK a \in o.artifacts : a.name = t
  <2>1. t # Authority
    BY <1>2, AuthorityName
  <2>2. ReadManaged(dir, t) \in o.artifacts /\ ReadManaged(dir, t).name = t
    BY <1>2, <1>4, <2>1 DEF ReadManagedArtifacts, ReadManaged
  <2> QED
    BY <2>2
<1>9. /\ \A x \in OfKind(o.artifacts, "temporary") : x.name = t
      /\ a \in OfKind(o.artifacts, "temporary") /\ a \in ValidOf(o.artifacts, "temporary")
  BY <1>2, <1>7, <1>8 DEF OfKind, ValidOf
<1>10. Cardinality({x.name : x \in ValidOf(o.artifacts, "temporary")}) = 1
       /\ t \in {x.name : x \in ValidOf(o.artifacts, "temporary")}
  <2>1. {x.name : x \in ValidOf(o.artifacts, "temporary")} = {t}
    BY <1>8, <1>9 DEF ValidOf
  <2> QED
    BY <2>1, FS_Singleton
<1>11. \/ o.authority \in AuthorityGeneration
       \/ o.authority = "absent" /\ OfKind(o.artifacts, "backup") = {}
  <2>1. Ready(dir)
    BY <1>1 DEF Interruptible
  <2>2. CASE Authority \in DOMAIN dir
    BY <1>3, <1>4, <2>1, <2>2 DEF Ready, ReadAuthority
  <2>3. CASE Authority \notin DOMAIN dir
    <3>1. o.authority = "absent"
      BY <1>4, <2>3 DEF ReadAuthority, Readable, LinkProof
    <3> QED
      BY <1>7, <2>1, <2>3, <3>1 DEF Ready, Backups, OfKind
  <2> QED
    BY <2>2, <2>3
<1>12. \A code, name : Issue(code, name).code = code /\ Issue(code, name).name = name
  BY DEF Issue
<1>13. InterruptionIssues(o) # {} /\ \A i \in InterruptionIssues(o) : i.code = "INTERRUPTED_ARTIFACTS" /\ i.name = t
  <2>1. "absent" \notin AuthorityGeneration
    BY DEF AuthorityGeneration
  <2> QED
    BY <1>1, <1>4, <1>9, <1>11, <1>12, <2>1 DEF InterruptionIssues
<1>14. \/ LogicalIssue(o).code \in Clear
       \/ LogicalIssue(o).code = "INTERRUPTED_ARTIFACTS" /\ LogicalIssue(o).name = t
  <2>1. CASE o.authority \in AuthorityGeneration
    <3>1. GenerationZeroIssue(o) \in Clear /\ VersionTwoIssue(o) \in Clear
      BY DEF GenerationZeroIssue, VersionTwoIssue, Clear
    <3> QED
      BY <1>12, <2>1, <3>1 DEF LogicalIssue, AuthorityGeneration, Clear
  <2>2. CASE o.authority = "absent" /\ OfKind(o.artifacts, "backup") = {}
    <3>1. RecoveryArtifacts(o) = OfKind(o.artifacts, "temporary")
      BY <2>2 DEF RecoveryArtifacts
    <3> DEFINE named == CHOOSE x \in RecoveryArtifacts(o) :
                          OfKind(o.artifacts, "backup") = {} \/ x.name.kind = "backup"
    <3>2. \E x \in RecoveryArtifacts(o) : OfKind(o.artifacts, "backup") = {} \/ x.name.kind = "backup"
      BY <1>9, <2>2, <3>1
    <3>3. named.name = t
      BY <1>9, <3>1, <3>2
    <3>4. AbsentIssue(o) = Issue("INTERRUPTED_ARTIFACTS", named.name)
      BY <1>9, <3>1 DEF AbsentIssue
    <3> HIDE DEF named
    <3>5. LogicalIssue(o) = AbsentIssue(o)
      BY <2>2 DEF LogicalIssue
    <3> QED
      BY <1>12, <3>3, <3>4, <3>5
  <2> QED
    BY <1>11, <2>1, <2>2
<1>15. {x \in o.artifacts : x.state # "valid"} = {}
  BY <1>7
<1>16. \A i \in Issues(o) :
         i.code \in Clear \/ (i.code = "INTERRUPTED_ARTIFACTS" /\ i.name = t)
  BY <1>13, <1>14, <1>15 DEF Issues
<1>17. Assess(o) = "INTERRUPTED_ARTIFACTS"
  <2>1. PassivePriority[Assess(o)] <= 90 /\ \E i \in Issues(o) : Assess(o) = i.code
    <3>1. PICK i \in Issues(o) : i.code = "INTERRUPTED_ARTIFACTS"
      BY <1>13 DEF Issues
    <3> QED
      BY <3>1, AssessIs DEF PassivePriority
  <2>2. \A c \in Clear : ~ (PassivePriority[c] <= 90)
    BY DEF Clear, PassivePriority
  <2> QED
    BY <1>16, <2>1, <2>2
<1>18. \A i \in Issues(o) : i.code = "INTERRUPTED_ARTIFACTS" => i.name = t
  BY <1>16 DEF Clear
<1>19. CanRecoverTemporaries(o)
  BY <1>10, <1>17, <1>18 DEF CanRecoverTemporaries
<1> QED
  BY <1>19 DEF o

-----------------------------------------------------------------------------
(* What the steps do to it.                                                *)

LEMMA DirectorySteps ==
  ASSUME LifecycleInv, InterruptionInv
  PROVE  /\ Interruptible(dir) /\ Directories
         /\ NoChange => Directories'
         /\ Harden => Directories' /\ dir' = dir
         /\ \A d : Interruptible(d) /\ (Change(d) \/ WriteThrough(d)) => Directories' /\ dir' = d
         /\ dir' \in durable /\ durable' = {dir'} => Directories'
BY DEF LifecycleInv, Media, InterruptionInv, Directories, NoChange, Harden, PosixHarden, WindowsHarden,
       Change, WriteThrough

\* Nothing is to be published or committed.
LEMMA NothingPending ==
  ASSUME ~ Pending', Directories', private' \in {"absent", "present"}
  PROVE  InterruptionInv'
BY DEF InterruptionInv, Directories, Preparable

LEMMA EndedLeaves ==
  ASSUME LifecycleInv, InterruptionInv, job' = NoJob \/ job'.todo = <<>>, Directories', private' = private
  PROVE  InterruptionInv'
<1>1. Len(job'.todo) = 0
  BY NoJobShape
<1> QED
  BY <1>1, NothingPending DEF Pending, InterruptionInv

\* Between two operations there is no temporary.
LEMMA BetweenOperations ==
  ASSUME Directories', private' \in {"absent", "present"}, job'.at = "next",
         Pending' => Ready(dir') /\ Temporaries(dir') = {}
  PROVE  InterruptionInv'
BY DEF InterruptionInv, Directories, Preparable, Preparing

LEMMA AdvanceLeaves ==
  ASSUME LifecycleInv, InterruptionInv, Advance, job.todo # <<>>, Directories',
         private' \in {"absent", "present"},
         Pending => Ready(dir') /\ Temporaries(dir') = {}
  PROVE  InterruptionInv'
<1>1. job'.at = "next" /\ job'.todo = Tail(job.todo)
  BY DEF Advance, LifecycleInv, Shapes, JobFields
<1>2. job.todo \in Seq(AnyOp) /\ Len(job.todo) \in Nat /\ Len(job.todo) # 0
  BY DEF LifecycleInv, Shapes
<1>3. Len(job'.todo) = Len(job.todo) - 1
      /\ \A i \in 1..Len(job'.todo) : i + 1 \in 1..Len(job.todo) /\ job'.todo[i] = job.todo[i + 1]
  BY <1>1, <1>2
<1>4. Pending' => Pending
  BY <1>3 DEF Pending
<1> QED
  BY <1>1, <1>4, BetweenOperations

\* A call inside an operation.
LEMMA GotoLeaves ==
  ASSUME LifecycleInv, InterruptionInv, NEW next, Goto(next) \/ (\E code : Abandon(code) /\ next = "discard"),
         Directories', private' = private,
         Pending =>
           /\ Ready(dir') /\ Temporaries(dir') \subseteq {job.temp}
           /\ next \notin Preparing \cup {"unlink", "harden", "clean"} => Temporaries(dir') = {}
           /\ next = "harden" /\ Head1.kind = "commit" => Temporaries(dir') = {}
           /\ next \in Preparing => HalfOf(job.temp, Head1.name)
  PROVE  InterruptionInv'
<1>1. job'.at = next /\ job'.todo = job.todo /\ job'.temp = job.temp
  BY DEF Goto, Abandon, LifecycleInv, Shapes, JobFields
<1> QED
  BY <1>1 DEF InterruptionInv, Directories, Preparable, Pending, Head1

LEMMA FailLeaves ==
  ASSUME LifecycleInv, InterruptionInv, NEW p, NEW code, Fail(p, code), Still, Directories'
  PROVE  InterruptionInv'
BY EndedLeaves DEF Fail, Finish, Still

LEMMA HeadPending ==
  ASSUME LifecycleInv, job.todo # <<>>, Head1.kind \in {"publish", "commit"}
  PROVE  Pending
<1>1. 1 \in 1..Len(job.todo) /\ Head1 = job.todo[1]
  BY DEF LifecycleInv, Shapes, Head1
<1> QED
  BY <1>1 DEF Pending

\* The candidate of the operation at the head is created.
LEMMA CreateLeaves ==
  ASSUME LifecycleInv, InterruptionInv, NEW p \in Process,
         StartOf(p, "publish") \/ StartOf(p, "commit"), CreateCandidate, Still
  PROVE  InterruptionInv'
<1> PICK s \in Slot :
      /\ TemporaryName(Purpose(Head1), s) \notin DOMAIN dir
      /\ Change(Put(dir, TemporaryName(Purpose(Head1), s), [node |-> FreeNode, data |-> Torn]))
      /\ job' = [job EXCEPT !.at = "write", !.temp = TemporaryName(Purpose(Head1), s),
                            !.file = [[node |-> FreeNode, data |-> Torn] EXCEPT !.data = Head1.data]]
      /\ UNCHANGED proc /\ HasFreeNode
  BY DEF CreateCandidate
<1> DEFINE t == TemporaryName(Purpose(Head1), s)
           f == [node |-> FreeNode, data |-> Torn]
           e == Put(dir, t, f)
<1>1. job.todo # <<>> /\ Head1 \in AnyOp /\ Planned(Head1) /\ Head1.kind \in {"publish", "commit"}
      /\ job.at = "next"
  BY HeadIsPlanned DEF StartOf, At
<1>2. t.kind = "temporary" /\ HalfOf(t, Head1.name)
  <2>1. t.kind = "temporary" /\ t.gen = Purpose(Head1)
    BY DEF TemporaryName, Name
  <2>2. CASE Head1.kind = "commit"
    BY <1>1, <2>1, <2>2 DEF Purpose, HalfOf, Planned, Authority, Name
  <2>3. CASE Head1.kind = "publish" /\ Head1.name.kind = "receipt"
    BY <1>1, <2>1, <2>3 DEF Purpose, HalfOf, Planned
  <2>4. CASE Head1.kind = "publish" /\ Head1.name.kind = "backup" /\ Head1.name.gen = "v0"
    BY <2>1, <2>4 DEF Purpose, HalfOf
  <2>5. CASE Head1.kind = "publish" /\ Head1.name.kind = "backup" /\ Head1.name.gen # "v0"
    BY <2>1, <2>5 DEF Purpose, HalfOf
  <2> QED
    BY <1>1, <2>2, <2>3, <2>4, <2>5 DEF Planned
<1>3. Ready(dir) /\ Temporaries(dir) = {}
  BY <1>1, HeadPending DEF InterruptionInv, Preparable, Preparing
<1>4. f.node = FreeNode /\ dir \in durable
  BY DEF LifecycleInv, Media
<1>5. Interruptible(e) /\ Ready(e)
  BY <1>2, <1>3, <1>4, FreeNodes, PutInterruptible, DirectorySteps
<1>6. Temporaries(e) = {t}
  BY <1>2, <1>3 DEF Put, Temporaries
<1>7. /\ job'.at = "write" /\ job'.todo = job.todo /\ job'.temp = t /\ Change(e)
      /\ Head1' = Head1
  BY DEF LifecycleInv, Shapes, JobFields, Head1
<1> HIDE DEF t, f, e
<1>8. Directories' /\ dir' = e
  BY <1>5, <1>7, DirectorySteps
<1>9. Preparable'
  BY <1>2, <1>5, <1>6, <1>7, <1>8 DEF Preparable, Preparing
<1> QED
  BY <1>8, <1>9 DEF InterruptionInv, Directories, Still

LEMMA StartLeaves ==
  ASSUME LifecycleInv, InterruptionInv, NEW p \in Process, StartPublish(p) \/ StartCommit(p)
  PROVE  InterruptionInv'
<1>1. StartOf(p, "publish") \/ StartOf(p, "commit")
  BY DEF StartPublish, StartCommit
<1>2. Still
  BY DEF StartPublish, StartCommit
<1>3. ASSUME CreateCandidate PROVE InterruptionInv'
  BY <1>1, <1>2, <1>3, CreateLeaves
<1>4. ASSUME NEW code, Fail(p, code), NoChange PROVE InterruptionInv'
  BY <1>2, <1>4, FailLeaves, DirectorySteps
<1>5. ASSUME Advance, NoChange PROVE InterruptionInv'
  <2>1. job.at = "next" /\ job.todo # <<>>
    BY <1>1 DEF StartOf, At
  <2>2. Pending => Ready(dir') /\ Temporaries(dir') = {}
    BY <1>5, <2>1 DEF InterruptionInv, Preparable, Preparing, NoChange
  <2> QED
    BY <1>2, <1>5, <2>1, <2>2, AdvanceLeaves, DirectorySteps DEF InterruptionInv, Still
<1> QED
  BY <1>3, <1>4, <1>5 DEF StartPublish, StartCommit

LEMMA WriteLeaves ==
  ASSUME LifecycleInv, InterruptionInv, NEW p \in Process, Write(p)
  PROVE  InterruptionInv'
<1> DEFINE written(d) == [n \in DOMAIN d |-> IF d[n].node = job.file.node THEN job.file ELSE d[n]]
<1>1. /\ At(p, "write") /\ Still /\ Goto("check")
      /\ dir' = written(dir) /\ durable' = {written(d) : d \in durable}
  BY DEF Write
<1>2. /\ \A d \in durable : Private(d)
      /\ dir \in durable
  BY <1>1 DEF LifecycleInv, Candidate, Media, At, Preparing
<1>3. \A d \in durable :
        /\ DOMAIN written(d) = DOMAIN d
        /\ \A n \in DOMAIN d : /\ written(d)[n].node = d[n].node
                               /\ n.kind # "temporary" => written(d)[n] = d[n]
                               /\ d[n].node = job.file.node => written(d)[n] = job.file
                               /\ d[n].node # job.file.node => written(d)[n] = d[n]
  BY <1>2 DEF Private
<1> HIDE DEF written
<1>4. ASSUME NEW d \in durable
      PROVE  /\ Temporaries(written(d)) = Temporaries(d)
             /\ Ready(d) => Ready(written(d))
             /\ Interruptible(written(d))
  <2>1. Temporaries(written(d)) = Temporaries(d) /\ Backups(written(d)) = Backups(d)
    BY <1>3 DEF Temporaries, Backups
  <2>2. Ready(d) => Ready(written(d))
    BY <1>3, <2>1, AuthorityName DEF Ready
  <2>3. Interruptible(d)
    BY DEF InterruptionInv, Directories
  <2> QED
    BY <1>3, <2>1, <2>2, <2>3 DEF Interruptible
<1>5. Directories'
  BY <1>1, <1>4 DEF Directories
<1>6. Pending =>
           /\ Ready(dir') /\ Temporaries(dir') \subseteq {job.temp}
           /\ HalfOf(job.temp, Head1.name)
  BY <1>1, <1>2, <1>4 DEF InterruptionInv, Preparable, At, Preparing
<1> QED
  BY <1>1, <1>5, <1>6, GotoLeaves DEF Still, Preparing

LEMMA CheckLeaves ==
  ASSUME LifecycleInv, InterruptionInv, NEW p \in Process,
         RequireExpectedAuthority(p) \/ WriteFails(p)
  PROVE  InterruptionInv'
<1>1. /\ job.at \in {"write", "check"} /\ Still /\ NoChange
      /\ Goto("install") \/ \E code : Abandon(code)
  BY DEF RequireExpectedAuthority, WriteFails, At
<1>2. Pending =>
           /\ Ready(dir') /\ Temporaries(dir') \subseteq {job.temp}
           /\ HalfOf(job.temp, Head1.name)
  BY <1>1 DEF InterruptionInv, Preparable, Preparing, NoChange
<1> QED
  BY <1>1, <1>2, GotoLeaves, DirectorySteps DEF Still, Preparing

\* What an installing call leaves.
LEMMA InstalledIsInterruptible ==
  ASSUME LifecycleInv, InterruptionInv, NEW p \in Process, At(p, "install"),
         NEW kept, \/ kept = dir /\ Head1.name \notin DOMAIN dir
                   \/ kept = Remove(dir, job.temp)
  PROVE  LET e == Put(kept, Head1.name, dir[job.temp])
         IN /\ Interruptible(e) /\ Ready(e)
            /\ Temporaries(e) = Temporaries(dir) \cap DOMAIN kept
            /\ Temporaries(dir) \subseteq {job.temp} /\ Pending
<1>1. job.todo # <<>> /\ Head1.kind \in {"publish", "commit"} /\ Planned(Head1)
  BY HeadIsPlanned DEF LifecycleInv, Position, At, Preparing
<1>2. /\ job.temp \in DOMAIN dir /\ dir[job.temp] = job.file /\ job.file.data = Head1.data
      /\ Head1.name.kind = "backup" => Authority \in DOMAIN dir
  BY DEF LifecycleInv, Candidate, At
<1>3. \A m \in DOMAIN dir : dir[m].node = dir[job.temp].node => m.kind = "temporary"
  BY <1>2 DEF LifecycleInv, Candidate, Media, At, Preparing, Private
<1>4. Pending /\ Ready(dir) /\ Temporaries(dir) \subseteq {job.temp} /\ HalfOf(job.temp, Head1.name)
  BY <1>1, HeadPending DEF InterruptionInv, Preparable, Preparing, At
<1>5. Head1.name.kind = "authority" => Head1.name = Authority /\ dir[job.temp].data.gen \in AuthorityGeneration
  BY <1>1, <1>2 DEF Planned
<1>6. Interruptible(dir)
  BY DirectorySteps
<1> QED
  BY <1>2, <1>3, <1>4, <1>5, <1>6, InstallInterruptible

LEMMA InstallLeaves ==
  ASSUME LifecycleInv, InterruptionInv, NEW p \in Process,
         PosixReplace(p) \/ PosixLink(p) \/ WindowsMove(p)
  PROVE  InterruptionInv'
<1>1. At(p, "install") /\ Still
  BY DEF PosixReplace, PosixLink, WindowsMove
<1>2. ASSUME NEW code, Abandon(code), NoChange PROVE InterruptionInv'
  <2>1. Pending =>
           /\ Ready(dir') /\ Temporaries(dir') \subseteq {job.temp}
           /\ HalfOf(job.temp, Head1.name)
    BY <1>1, <1>2 DEF InterruptionInv, Preparable, Preparing, NoChange, At
  <2> QED
    BY <1>1, <1>2, <2>1, GotoLeaves, DirectorySteps DEF Still, Preparing
<1>3. ASSUME Change(Moved) \/ WriteThrough(Moved), Goto("harden") PROVE InterruptionInv'
  <2>1. /\ Interruptible(Moved) /\ Ready(Moved) /\ Temporaries(dir) \subseteq {job.temp}
        /\ Temporaries(Moved) = Temporaries(dir) \cap DOMAIN Remove(dir, job.temp)
    BY <1>1, InstalledIsInterruptible DEF Moved
  <2>2. Temporaries(Moved) = {}
    BY <2>1 DEF Remove
  <2>3. Directories' /\ dir' = Moved
    BY <1>3, <2>1, DirectorySteps
  <2> QED
    BY <1>1, <1>3, <2>1, <2>2, <2>3, GotoLeaves DEF Still, Preparing
<1>4. ASSUME Head1.name \notin DOMAIN dir, Change(Put(dir, Head1.name, dir[job.temp])),
             NEW next, next = IF Head1.kind = "commit" THEN "unlink" ELSE "harden", Goto(next)
      PROVE  InterruptionInv'
  <2> DEFINE e == Put(dir, Head1.name, dir[job.temp])
  <2>1. Interruptible(e) /\ Ready(e) /\ Temporaries(e) \subseteq {job.temp}
    BY <1>1, <1>4, InstalledIsInterruptible
  <2>2. Directories' /\ dir' = e
    BY <1>4, <2>1, DirectorySteps
  <2> HIDE DEF e
  <2>3. next \in {"unlink", "harden"} /\ (next = "harden" => Head1.kind # "commit")
    BY <1>4
  <2> QED
    BY <1>1, <1>4, <2>1, <2>2, <2>3, GotoLeaves DEF Still, Preparing
<1> QED
  BY <1>2, <1>3, <1>4 DEF PosixReplace, PosixLink, WindowsMove

\* The temporary of the operation is removed.
LEMMA TemporaryGone ==
  ASSUME LifecycleInv, InterruptionInv, Change(Remove(dir, job.temp))
  PROVE  /\ Directories'
         /\ Pending => Ready(dir') /\ Temporaries(dir') = {}
<1>1. job.temp # Authority
  BY AuthorityName DEF LifecycleInv, Shapes
<1>2. Interruptible(dir)
  BY DirectorySteps
<1>3. /\ Interruptible(Remove(dir, job.temp))
      /\ Ready(dir) => Ready(Remove(dir, job.temp))
  BY <1>1, <1>2, RemoveInterruptible
<1>4. Directories' /\ dir' = Remove(dir, job.temp)
  BY <1>3, DirectorySteps
<1> QED
  BY <1>3, <1>4 DEF InterruptionInv, Preparable, Temporaries, Remove

LEMMA CallsLeave ==
  ASSUME LifecycleInv, InterruptionInv, NEW p \in Process,
         \/ PosixUnlink(p) \/ HardenFinal(p) \/ Prove(p) \/ CleanPublished(p) \/ Settle(p)
         \/ RemoveCandidate(p) \/ Discarded(p)
  PROVE  InterruptionInv'
<1>1. Still
  BY DEF PosixUnlink, HardenFinal, Prove, CleanPublished, Settle, RemoveCandidate, Discarded
<1>2. CASE PosixUnlink(p) \/ CleanPublished(p)
  <2>1. /\ Change(Remove(dir, job.temp))
        /\ Goto("harden") \/ Goto("settle")
    BY <1>2 DEF PosixUnlink, CleanPublished
  <2> QED
    BY <1>1, <2>1, TemporaryGone, GotoLeaves DEF Still, Preparing
<1>3. CASE RemoveCandidate(p)
  <2>1. Change(Remove(dir, job.temp)) /\ Goto("discarded") /\ job.at = "discard"
    BY <1>3 DEF RemoveCandidate, At
  <2>2. Pending => HalfOf(job.temp, Head1.name)
    BY <2>1 DEF InterruptionInv, Preparable, Preparing
  <2> QED
    BY <1>1, <2>1, <2>2, TemporaryGone, GotoLeaves DEF Still, Preparing
<1>4. CASE HardenFinal(p)
  <2>1. Harden /\ job.at = "harden" /\ job.todo # <<>>
    BY <1>4 DEF HardenFinal, At, LifecycleInv, Position, Installed
  <2>2. Directories' /\ dir' = dir
    BY <2>1, DirectorySteps
  <2>3. Pending => /\ Ready(dir') /\ Temporaries(dir') \subseteq {job.temp}
                   /\ Head1.kind = "commit" => Temporaries(dir') = {}
    BY <2>1, <2>2 DEF InterruptionInv, Preparable
  <2>4. CASE Head1.kind = "commit"
    BY <1>1, <1>4, <2>2, <2>3, <2>4, GotoLeaves DEF HardenFinal, Still, Preparing
  <2>5. CASE Head1.kind # "commit" /\ job.temp \in DOMAIN dir
    BY <1>1, <1>4, <2>2, <2>3, <2>5, GotoLeaves DEF HardenFinal, Still, Preparing
  <2>6. CASE Head1.kind # "commit" /\ job.temp \notin DOMAIN dir
    <3>1. Pending => Temporaries(dir') = {}
      BY <2>2, <2>3, <2>6 DEF Temporaries
    <3> QED
      BY <1>1, <1>4, <2>1, <2>2, <2>3, <2>6, <3>1, AdvanceLeaves DEF HardenFinal, Still, InterruptionInv
  <2> QED
    BY <2>4, <2>5, <2>6
<1>5. CASE Prove(p) \/ Settle(p)
  <2>1. /\ job.at \in {"prove", "settle"} /\ job.todo # <<>>
        /\ NoChange \/ Harden
        /\ Advance \/ \E code : Fail(p, code)
    BY <1>5 DEF Prove, Settle, At, LifecycleInv, Position, Installed
  <2>2. Directories' /\ dir' = dir
    BY <2>1, DirectorySteps DEF NoChange
  <2>3. Pending => Ready(dir') /\ Temporaries(dir') = {}
    BY <2>1, <2>2 DEF InterruptionInv, Preparable, Preparing
  <2>4. CASE Advance
    BY <1>1, <2>1, <2>2, <2>3, <2>4, AdvanceLeaves DEF Still, InterruptionInv
  <2>5. CASE \E code : Fail(p, code)
    BY <1>1, <2>2, <2>5, FailLeaves
  <2> QED
    BY <2>1, <2>4, <2>5
<1>6. CASE Discarded(p)
  BY <1>1, <1>6, FailLeaves, DirectorySteps DEF Discarded
<1> QED
  BY <1>2, <1>3, <1>4, <1>5, <1>6

LEMMA FailuresLeave ==
  ASSUME LifecycleInv, InterruptionInv, NEW p \in Process,
         \/ InstallFails(p) \/ WindowsMoveUnproved(p) \/ UnlinkFails(p)
         \/ HardenFails(p) \/ CleanFails(p) \/ RemoveCandidateFails(p) \/ RecoverFails(p)
         \/ DestroyFails(p) \/ DeleteFails(p) \/ VerifierFails(p)
  PROVE  InterruptionInv'
<1>1. Still
  BY DEF InstallFails, WindowsMoveUnproved, UnlinkFails, HardenFails, CleanFails,
         RemoveCandidateFails, RecoverFails, DestroyFails, DeleteFails, VerifierFails
<1>2. CASE InstallFails(p)
  <2>1. At(p, "install") /\ NoChange /\ ((\E code : Abandon(code)) \/ (\E code : Fail(p, code)))
    BY <1>2 DEF InstallFails
  <2>2. Pending =>
           /\ Ready(dir') /\ Temporaries(dir') \subseteq {job.temp}
           /\ HalfOf(job.temp, Head1.name)
    BY <2>1 DEF InterruptionInv, Preparable, Preparing, NoChange, At
  <2>3. CASE \E code : Abandon(code)
    BY <1>1, <2>1, <2>2, <2>3, GotoLeaves, DirectorySteps DEF Still, Preparing
  <2>4. CASE \E code : Fail(p, code)
    BY <1>1, <2>1, <2>4, FailLeaves, DirectorySteps
  <2> QED
    BY <2>1, <2>3, <2>4
<1>3. CASE WindowsMoveUnproved(p)
  <2>1. At(p, "install") /\ WriteThrough(Moved) /\ Fail(p, "DURABILITY_UNCERTAIN")
    BY <1>3 DEF WindowsMoveUnproved
  <2>2. Interruptible(Moved)
    BY <2>1, InstalledIsInterruptible DEF Moved
  <2>3. Directories'
    BY <2>1, <2>2, DirectorySteps
  <2> QED
    BY <1>1, <2>1, <2>3, FailLeaves
<1>4. CASE ~ InstallFails(p) /\ ~ WindowsMoveUnproved(p)
  <2>1. NoChange /\ \E code : Fail(p, code)
    BY <1>4 DEF UnlinkFails, HardenFails, CleanFails, RemoveCandidateFails, RecoverFails,
                DestroyFails, DeleteFails, VerifierFails
  <2> QED
    BY <1>1, <2>1, FailLeaves, DirectorySteps
<1> QED
  BY <1>2, <1>3, <1>4

LEMMA RecoverLeaves ==
  ASSUME LifecycleInv, InterruptionInv, NEW p \in Process, RecoverOrDiscardTemporary(p)
  PROVE  InterruptionInv'
<1>1. Still /\ job.todo # <<>> /\ Head1.kind = "recover"
  BY DEF RecoverOrDiscardTemporary, StartOf
<1>2. ~ Pending /\ Head1.name # Authority /\ Interruptible(dir)
  BY <1>1, HeadIsPlanned, AuthorityName, DirectorySteps DEF Planned
<1>3. ASSUME NEW e, Fail(p, e), NoChange PROVE InterruptionInv'
  BY <1>1, <1>3, FailLeaves, DirectorySteps
<1>4. ASSUME Change(Remove(dir, Head1.name)), Goto("settle") PROVE InterruptionInv'
  <2>1. Interruptible(Remove(dir, Head1.name))
    BY <1>2, RemoveInterruptible
  <2>2. Directories'
    BY <1>4, <2>1, DirectorySteps
  <2> QED
    BY <1>1, <1>2, <1>4, <2>2, GotoLeaves DEF Still
<1> QED
  BY <1>3, <1>4 DEF RecoverOrDiscardTemporary

LEMMA ResetLeaves ==
  ASSUME LifecycleInv, InterruptionInv, NEW p \in Process,
         \/ StartReset(p) \/ DeleteCredentialArtifact(p) \/ DeleteAuthority(p) \/ Removed(p)
         \/ RequireResetEmpty(p)
  PROVE  InterruptionInv'
<1>1. Still /\ job.todo # <<>> /\ Head1.kind = "delete"
  BY DEF StartReset, DeleteCredentialArtifact, DeleteAuthority, Removed, RequireResetEmpty, StartOf,
         At, LifecycleInv, Position
<1>2. ~ Pending /\ Interruptible(dir) /\ private' \in {"absent", "present"}
  BY <1>1, HeadIsPlanned, DirectorySteps DEF InterruptionInv, Still
<1>3. ASSUME NoChange, NEW code, Fail(p, code) PROVE InterruptionInv'
  BY <1>1, <1>3, FailLeaves, DirectorySteps
<1>4. ASSUME NEW next, Goto(next), Directories' PROVE InterruptionInv'
  BY <1>1, <1>2, <1>4, GotoLeaves DEF Still
<1>5. CASE StartReset(p)
  BY <1>3, <1>4, <1>5, DirectorySteps DEF StartReset
<1>6. CASE DeleteCredentialArtifact(p)
  <2> PICK n \in CredentialArtifacts :
        /\ Change(Remove(dir, n)) /\ job' = [job EXCEPT !.at = "removed", !.mutated = TRUE]
    BY <1>6 DEF DeleteCredentialArtifact
  <2>1. Directories'
    <3>1. n # Authority
      BY AuthorityName DEF CredentialArtifacts, Temporaries, Backups
    <3>2. Interruptible(Remove(dir, n))
      BY <1>2, <3>1, RemoveInterruptible
    <3> QED
      BY <3>2, DirectorySteps
  <2>2. job'.todo = job.todo
    BY DEF LifecycleInv, Shapes, JobFields
  <2>3. ~ Pending'
    BY <1>2, <2>2 DEF Pending
  <2> QED
    BY <1>2, <2>1, <2>3, NothingPending
<1>7. CASE DeleteAuthority(p)
  <2>1. ASSUME Change(Remove(dir, Authority)),
               job' = [job EXCEPT !.at = "removed", !.mutated = TRUE, !.todo[1].expected = NoFile]
        PROVE  InterruptionInv'
    <3>1. Temporaries(dir) = {}
      BY <1>7 DEF DeleteAuthority, CredentialArtifacts
    <3>2. Interruptible(Remove(dir, Authority))
      BY <1>2, <3>1, RemoveInterruptible
    <3>3. Directories'
      BY <2>1, <3>2, DirectorySteps
    <3>4. job.todo \in Seq(AnyOp) /\ job'.todo = [job.todo EXCEPT ![1].expected = NoFile]
      BY <2>1 DEF LifecycleInv, Shapes, JobFields
    <3>5. /\ Len(job'.todo) = Len(job.todo)
          /\ \A i \in 1..Len(job.todo) : job'.todo[i].kind = job.todo[i].kind
      BY <3>4
    <3>6. ~ Pending'
      BY <1>2, <3>5 DEF Pending
    <3> QED
      BY <1>2, <3>3, <3>6, NothingPending
  <2> QED
    BY <1>3, <1>7, <2>1 DEF DeleteAuthority
<1>8. CASE Removed(p)
  BY <1>4, <1>8, DirectorySteps DEF Removed
<1>9. CASE RequireResetEmpty(p)
  <2>1. NoChange /\ (Advance \/ \E code : Fail(p, code))
    BY <1>9 DEF RequireResetEmpty
  <2>2. CASE Advance
    BY <1>1, <1>2, <2>1, <2>2, AdvanceLeaves, DirectorySteps
  <2> QED
    BY <1>3, <2>1, <2>2
<1> QED
  BY <1>5, <1>6, <1>7, <1>8, <1>9

LEMMA LookLeaves ==
  ASSUME LifecycleInv, InterruptionInv, NEW p \in Process,
         \/ Reassess(p) \/ DestroyPrivateCredentials(p) \/ RevalidatePrototype(p) \/ Postcondition(p)
  PROVE  InterruptionInv'
<1>1. Directories' /\ dir' = dir /\ job.at = "next"
  BY DirectorySteps DEF Reassess, DestroyPrivateCredentials, RevalidatePrototype, Postcondition, NoChange,
     StartOf, At
<1>2. Pending => Ready(dir') /\ Temporaries(dir') = {}
  BY <1>1 DEF InterruptionInv, Preparable, Preparing
<1>3. CASE Reassess(p)
  BY <1>1, <1>3, EndedLeaves DEF Reassess, Still
<1>4. CASE DestroyPrivateCredentials(p)
  BY <1>1, <1>2, <1>4, AdvanceLeaves DEF DestroyPrivateCredentials, StartOf
<1>5. CASE RevalidatePrototype(p)
  <2>1. CASE Advance
    BY <1>1, <1>2, <1>5, <2>1, AdvanceLeaves DEF RevalidatePrototype, StartOf, Still, InterruptionInv
  <2>2. CASE \E code : Fail(p, code)
    BY <1>1, <1>5, <2>2, FailLeaves DEF RevalidatePrototype
  <2> QED
    BY <1>5, <2>1, <2>2 DEF RevalidatePrototype
<1>6. CASE Postcondition(p)
  BY <1>1, <1>6, FailLeaves DEF Postcondition
<1> QED
  BY <1>3, <1>4, <1>5, <1>6

\* Plans are made only of what an assessment found clear.
LEMMA PlansLeave ==
  ASSUME LifecycleInv, InterruptionInv, NEW p \in Process,
         \/ LockedRecovery(p) \/ MigrateLegacy(p) \/ ImportAbsentPrototype(p)
         \/ MigrateOrResumePrototype(p) \/ RefuseMigration(p) \/ PrepareRollback(p)
         \/ RollbackBlockedByTemporary(p) \/ FullReset(p) \/ StoreSave(p) \/ RepairPermissions(p)
  PROVE  InterruptionInv'
<1>1. Directories' /\ dir' = dir
  BY CommandsLook, DirectorySteps DEF Command, NoChange
<1>2. ASSUME NEW code, Refuse(p, code) PROVE InterruptionInv'
  BY <1>1, <1>2, EndedLeaves DEF Refuse, Finish, world
<1>3. ASSUME NEW plan, Run(p, plan), NEW explicit \in BOOLEAN, Assess(Observed(explicit)) \in Clear
      PROVE  InterruptionInv'
  <2>1. job'.at = "next" /\ private' = private
    BY <1>3 DEF Run, world, LifecycleInv, Shapes, JobFields
  <2>2. Ready(dir') /\ Temporaries(dir') = {}
    BY <1>1, <1>3, ClearIsReady
  <2> QED
    BY <1>1, <2>1, <2>2, BetweenOperations DEF InterruptionInv
<1>4. CASE LockedRecovery(p)
  <2> DEFINE op == Recover(CHOOSE t \in Temporaries(dir) : TRUE)
  <2>1. job'.todo = <<op>> /\ private' = private
    BY <1>4 DEF LockedRecovery, world, LifecycleInv, Shapes, JobFields
  <2>2. op.kind = "recover"
    BY DEF Recover, Op
  <2> HIDE DEF op
  <2>3. ~ Pending'
    BY <2>1, <2>2 DEF Pending
  <2> QED
    BY <1>1, <2>1, <2>3, NothingPending DEF InterruptionInv
<1>5. CASE FullReset(p)
  <2>1. CASE \E code : Refuse(p, code)
    BY <1>2, <2>1
  <2>2. CASE ~ \E code : Refuse(p, code)
    <3> DEFINE first == Destroy
               second == Delete(FileAt(dir, Authority))
               third == Verify("reset_complete")
    <3>1. job'.todo = <<first, second, third>> /\ private' = private
      BY <1>5, <2>2 DEF FullReset, Assessed, world, LifecycleInv, Shapes, JobFields
    <3>2. /\ first.kind \notin {"publish", "commit"} /\ second.kind \notin {"publish", "commit"}
          /\ third.kind \notin {"publish", "commit"}
      BY DEF Destroy, Delete, Verify, Op
    <3> HIDE DEF first, second, third
    <3>3. ~ Pending'
      BY <3>1, <3>2 DEF Pending
    <3> QED
      BY <1>1, <3>1, <3>3, NothingPending DEF InterruptionInv
  <2> QED
    BY <2>1, <2>2
<1>6. CASE MigrateLegacy(p)
  <2>1. (\E code : Refuse(p, code)) \/ ((\E plan : Run(p, plan)) /\ Assess(Observed(TRUE)) \in Clear)
    BY <1>6 DEF MigrateLegacy, MigratableGenerationZero, Clear
  <2> QED
    BY <1>2, <1>3, <2>1
<1>7. CASE ImportAbsentPrototype(p)
  <2>1. (\E code : Refuse(p, code)) \/ ((\E plan : Run(p, plan)) /\ Assess(Observed(TRUE)) \in Clear)
    BY <1>7 DEF ImportAbsentPrototype, Clear
  <2> QED
    BY <1>2, <1>3, <2>1
<1>8. CASE MigrateOrResumePrototype(p)
  <2>1. (\E code : Refuse(p, code)) \/ ((\E plan : Run(p, plan)) /\ Assess(Observed(TRUE)) \in Clear)
    BY <1>8 DEF MigrateOrResumePrototype, CurrentVersionTwo, Clear
  <2> QED
    BY <1>2, <1>3, <2>1
<1>9. CASE PrepareRollback(p)
  <2>1. (\E code : Refuse(p, code)) \/ ((\E plan : Run(p, plan)) /\ Assess(Observed(FALSE)) \in Clear)
    BY <1>9 DEF PrepareRollback, CurrentVersionTwo, Clear
  <2> QED
    BY <1>2, <1>3, <2>1
<1>10. CASE StoreSave(p)
  <2>1. (\E code : Refuse(p, code)) \/ ((\E plan : Run(p, plan)) /\ Assess(Observed(FALSE)) \in Clear)
    BY <1>10 DEF StoreSave, WriteBlocked, CurrentVersionTwo, Clear
  <2> QED
    BY <1>2, <1>3, <2>1
<1>11. CASE RefuseMigration(p) \/ RollbackBlockedByTemporary(p) \/ RepairPermissions(p)
  BY <1>2, <1>11 DEF RefuseMigration, RollbackBlockedByTemporary, RepairPermissions
<1> QED
  BY <1>4, <1>5, <1>6, <1>7, <1>8, <1>9, <1>10, <1>11

LEMMA LocksLeave ==
  ASSUME LifecycleInv, InterruptionInv, NEW p \in Process,
         \/ (\E c \in Commands : Begin(p, c)) \/ Acquire(p) \/ LockTimeout(p) \/ UnsafeParent(p)
         \/ RepairParent(p) \/ Release(p) \/ ReleaseFails(p) \/ Die(p) \/ End(p)
  PROVE  InterruptionInv'
<1>1. UNCHANGED <<dir, durable, private>>
  BY DEF Begin, Acquire, LockTimeout, UnsafeParent, RepairParent, Release, ReleaseFails, Die, End,
         Refused, world
<1>2. Directories' /\ private' = private
  BY <1>1, DirectorySteps DEF NoChange
<1>3. job' = job \/ job' = NoJob \/ job'.todo = <<>>
  <2>1. Acquire(p) => job'.todo = <<>>
    BY NoJobShape DEF Acquire, JobFields
  <2> QED
    BY <2>1 DEF Begin, LockTimeout, UnsafeParent, RepairParent, Release, ReleaseFails, Die, End, Refused
<1>4. CASE job' = job
  BY <1>1, <1>4 DEF InterruptionInv, Directories, Preparable, Pending, Head1
<1> QED
  BY <1>2, <1>3, <1>4, EndedLeaves

LEMMA WorldLeaves ==
  ASSUME LifecycleInv, InterruptionInv, PowerLoss \/ LegacyWrite \/ EditPrototype
  PROVE  InterruptionInv'
<1>1. CASE PowerLoss
  BY <1>1, EndedLeaves, DirectorySteps DEF PowerLoss
<1>2. CASE LegacyWrite
  <2> PICK doc \in Representable :
        Change(Put(dir, Authority, [node |-> FreeNode, data |-> Payload("v0", doc)]))
    BY <1>2 DEF LegacyWrite
  <2> DEFINE f == [node |-> FreeNode, data |-> Payload("v0", doc)]
             e == Put(dir, Authority, f)
  <2>1. UNCHANGED <<job, private>> /\ HasFreeNode
    BY <1>2 DEF LegacyWrite
  <2>2. f.node = FreeNode /\ f.data.gen \in AuthorityGeneration /\ dir \in durable
    BY DEF Payload, AuthorityGeneration, LifecycleInv, Media
  <2>3. Interruptible(e) /\ Ready(e)
    BY <2>1, <2>2, FreeNodes, PutInterruptible, DirectorySteps
  <2>4. Temporaries(e) = Temporaries(dir)
    BY AuthorityName DEF Put, Temporaries
  <2>5. Change(e)
    OBVIOUS
  <2> HIDE DEF f, e
  <2>6. Directories' /\ dir' = e
    BY <2>3, <2>5, DirectorySteps
  <2> QED
    BY <2>1, <2>3, <2>4, <2>6 DEF InterruptionInv, Directories, Preparable, Pending, Head1
<1>3. CASE EditPrototype
  BY <1>3 DEF EditPrototype, InterruptionInv, Directories, Preparable, Pending, Head1
<1> QED
  BY <1>1, <1>2, <1>3

LEMMA InitInterruption ==
  ASSUME Init
  PROVE  InterruptionInv
<1>1. DOMAIN dir \subseteq {Authority}
  BY DEF Init
<1>2. Temporaries(dir) = {}
  BY <1>1, AuthorityName DEF Temporaries
<1>3. Interruptible(dir)
  BY <1>1, <1>2 DEF Interruptible
<1>4. Len(job.todo) = 0
  BY NoJobShape DEF Init
<1> QED
  BY <1>3, <1>4 DEF Init, InterruptionInv, Directories, Preparable, Pending

LEMMA NextInterruption ==
  ASSUME LifecycleInv, InterruptionInv, [Next]_vars
  PROVE  InterruptionInv'
<1>1. ASSUME NEW p \in Process, Command(p) PROVE InterruptionInv'
  BY <1>1, LocksLeave, PlansLeave DEF Command
<1>2. ASSUME NEW p \in Process, Transaction(p) PROVE InterruptionInv'
  BY <1>2, StartLeaves, WriteLeaves, CheckLeaves, InstallLeaves, CallsLeave, RecoverLeaves,
     ResetLeaves, LookLeaves DEF Transaction
<1>3. ASSUME NEW p \in Process, Failure(p) PROVE InterruptionInv'
  BY <1>3, FailuresLeave, CheckLeaves, LocksLeave DEF Failure
<1>4. CASE UNCHANGED vars
  BY <1>4 DEF vars, InterruptionInv, Directories, Preparable, Pending, Head1
<1> QED
  BY <1>1, <1>2, <1>3, <1>4, WorldLeaves DEF Next

\* Whatever interrupts a command, and whatever directory a power loss leaves, there
\* is one temporary at most, it shares its inode with nothing but the final name it
\* was linked to, and what can be read beside it says what it belongs to
\* (create_private, link and unlink of publish_no_replace and create_absent).
THEOREM InterruptionInvariance == Spec => []InterruptionInv
<1>1. Init => LifecycleInv /\ InterruptionInv
  BY InitLifecycle, InitInterruption
<1>2. LifecycleInv /\ InterruptionInv /\ [Next]_vars => (LifecycleInv /\ InterruptionInv)'
  BY NextLifecycle, NextInterruption
<1> QED
  BY <1>1, <1>2, PTL DEF Spec

\* The temporary that an interrupted command left never blocks the location for
\* good: once the lock is free and the parent private the next command resolves it,
\* unless it is the version two snapshot that no table of pairs knows
\* (_can_recover_temporaries, recover_or_discard_temporary).
THEOREM TemporaryResolvableHolds == Spec => []TemporaryResolvable
<1>1. LifecycleInv /\ InterruptionInv => TemporaryResolvable
  BY InterruptedIsResolvable DEF TemporaryResolvable, Resolvable
<1> QED
  BY <1>1, LifecycleInvariance, InterruptionInvariance, PTL

=============================================================================
