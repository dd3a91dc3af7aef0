-------------------------- MODULE LocationMoveTheorems --------------------------
(***************************************************************************)
(* What a move and a rollback keep for every set of accounts and however   *)
(* many commands, deaths and writes of released versions there are:        *)
(* MoveInv says what the work of the command and its journal hold at each  *)
(* step, DueInv which location has the credential in use.  The first holds *)
(* whatever bundles are lost; the second rests on the first, and on native *)
(* bundles that are not deleted by hand.                                   *)
(***************************************************************************)
EXTENDS LocationMove, FiniteSetTheorems, TLAPS

USE SelectionAssumption

(* A document as it may be stored, and the bundles of one location.        *)
Authority == [gen : {"absent", "v2", "v0"}, accounts : Accounts]
Bundles == [Owned -> Version]

-----------------------------------------------------------------------------
(* The state, command by command.                                          *)

\* What was written of a work that was prepared: every bundle it copies is
\* there, and none of the accounts it is for loses its bundle at the end.
WorkSound(w) ==
  /\ w.base \in Authority /\ w.target \in Authority
  /\ w.copies \subseteq Owned /\ w.displaced \subseteq Owned /\ w.files \in Bundles
  /\ \A l \in w.copies : w.files[l] > 0
  /\ OwnedPrivateHomes(w.target.accounts) \cap w.displaced = {}

\* A journal of a move says enough to bring the native location back to its
\* base or on to the target.
JournalSound(r) ==
  LET j == journal[r] IN
  j.kind = "migration" =>
    /\ WorkSound(j) /\ j.before \in Bundles
    /\ r \notin Lossy => \A l \in OwnedPrivateHomes(j.base.accounts) : j.before[l] > 0

DiskTyped ==
  /\ auth \in [LocationRole -> Authority]
  /\ bundles \in [LocationRole -> Bundles]
  /\ lineage \in [LocationRole -> SUBSET Accounts]
  /\ DOMAIN journal = LocationRole /\ journal = [r \in LocationRole |-> journal[r]]
  /\ \A r \in LocationRole : JournalSound(r)
  /\ \A r \in LocationRole : auth[r].gen = "absent" => auth[r].accounts = NoAccounts
  /\ auth["canonical"].gen # "v0"
  /\ issued \in Accounts
  /\ newest \in [kept : Accounts, due : Accounts]

\* An ordinary command has the released location in hand only in the current
\* generation.
CommandTyped ==
  /\ rt.pc \in {"idle", "loaded"}
  /\ rt.pc = "loaded" =>
       /\ rt.role \in LocationRole /\ rt.label \in Account /\ rt.base \in Version
       /\ rt.role = "compatibility" => rt.gen = "v2"

Previewing == {"pc", "kind", "from", "to", "replace", "rebased", "seen"}
Working == {"guard", "snapshot", "journal", "copies", "commit", "retire", "cleanup"}

LifecycleTyped ==
  /\ op.pc \in {"idle", "preview", "held", "prepare", "diverged"} \cup Working
  /\ "pc" \in DOMAIN op
  /\ op.pc # "idle" =>
       /\ Previewing \subseteq DOMAIN op
       /\ op.replace \in BOOLEAN /\ op.rebased \in BOOLEAN /\ op.seen \in Authority
       /\ \/ op.kind = "migrate" /\ op.from = "compatibility" /\ op.to = "canonical"
          \/ /\ op.kind = "rollback" /\ op.from = "canonical" /\ op.to = "compatibility"
             /\ op.rebased /\ ~ op.replace /\ op.pc \notin {"held", "diverged"}
  /\ op.pc \in Working => "work" \in DOMAIN op

\* What the command at work has prepared and how far it is: the bundles it does
\* not copy are there, all are there once it commits, what it displaces is
\* retained by then, and nobody else changes the native location meanwhile.
WorkInv ==
  /\ op.pc \in Working =>
       /\ WorkSound(op.work) /\ op.work.source = op.work.target.accounts
       /\ op.kind = "migrate" => op.work.target.gen = "v2"
       /\ op.kind = "rollback" => op.work.displaced = {} /\ op.work.target.gen = "v0"
       /\ op.work.base.gen # "v0"
       /\ op.work.base.gen = "absent" => op.work.base.accounts = NoAccounts
       /\ op.to \notin Lossy => \A l \in OwnedPrivateHomes(op.work.target.accounts) :
            bundles[op.to][l] > 0 \/ (op.pc # "commit" /\ l \in op.work.copies)
       /\ op.kind = "migrate" /\ op.pc \notin {"retire", "cleanup"} => auth["canonical"] = op.work.base
       /\ op.kind = "migrate" /\ op.pc \in {"retire", "cleanup"} => auth["canonical"] = op.work.target
  /\ (op.pc \in {"journal", "copies", "commit"} \/ (op.pc = "guard" /\ op.kind = "rollback"))
       /\ op.work.base.gen = "v2" => op.work.base.accounts \in lineage[op.to]
  /\ op.pc \in {"copies", "commit", "retire", "cleanup", "diverged"} => journal[op.to].kind = "migration"
  /\ op.pc \in {"prepare", "guard", "snapshot", "journal"} /\ op.kind = "migrate" =>
       journal["canonical"] = NoJournal

MoveInv ==
  /\ DiskTyped /\ CommandTyped /\ LifecycleTyped /\ WorkInv
  /\ AuthorityHasBundles /\ NewestIsRetained

-----------------------------------------------------------------------------
(* Who holds what is due.                                                  *)

Released(l) == auth["compatibility"].accounts[l]
Native(l) == auth["canonical"].accounts[l]

\* The released location has a credential of its own, which the native one has
\* never had: the two are told apart.
Apart(l) == Released(l) # Native(l) /\ \A s \in lineage["canonical"] : s[l] # Released(l)

\* No credential has a number that was not issued.
Stored ==
  \A l \in Account :
    /\ Released(l) <= issued[l] /\ Native(l) <= issued[l]
    /\ \A s \in lineage["canonical"] : s[l] <= issued[l]
Carried ==
  \A l \in Account :
    /\ op.pc # "idle" => op.seen.accounts[l] <= issued[l]
    /\ op.pc \in Working => op.work.target.accounts[l] <= issued[l]

\* What is due of an account is in the native location, or in a released one
\* that is told apart; and in the other location where one is not there.
Due ==
  /\ \A l \in Account : Native(l) >= newest.due[l] \/ Apart(l)
  /\ auth["compatibility"] = Absent => \A l \in Account : Native(l) >= newest.due[l]
  /\ auth["canonical"] = Absent => \A l \in Account : Released(l) >= newest.due[l]

\* What a move will commit is what is due, or the released location has changed
\* since and no longer holds it.
MoveDue ==
  op.pc \in Working \ {"retire", "cleanup"} /\ op.kind = "migrate" /\ ~ op.replace =>
    \A l \in Account : op.work.target.accounts[l] >= newest.due[l]
                       \/ (Apart(l) /\ Released(l) # op.work.target.accounts[l])

\* A rollback replaces what it has seen only by what is as new.
RollbackDue ==
  op.pc \notin {"idle", "retire", "cleanup"} /\ op.kind = "rollback" =>
    /\ auth["canonical"] # Absent
    /\ \A l \in Account : Released(l) = op.seen.accounts[l] => Native(l) >= newest.due[l]
    /\ op.pc \in Working => \A l \in Account : op.work.target.accounts[l] <= Native(l)

DueInv == Stored /\ Carried /\ Due /\ MoveDue /\ RollbackDue

-----------------------------------------------------------------------------
(* What the selection says.                                                *)

LEMMA AuthorityFacts ==
  /\ Version \subseteq Nat /\ 0 \in Version /\ NoAccounts \in Accounts
  /\ Absent \in Authority /\ Absent.accounts = NoAccounts /\ Absent.gen = "absent"
  /\ \A a \in Accounts : VersionTwo(a) \in Authority /\ GenerationZero(a) \in Authority
BY DEF Version, NoAccounts, Accounts, Absent, Authority, VersionTwo, GenerationZero

\* A prepared candidate is a current document, whole with its bundles.
LEMMA CandidateIs ==
  ASSUME NEW r \in LocationRole
  PROVE  LET c == AuthorityCandidate(View, r) IN
         /\ c.role = r /\ c.code = AssessmentCode(View, r)
         /\ c.prepared => /\ c.code = "CURRENT" /\ c.account = auth[r].accounts
                          /\ c.lineage = lineage[r] /\ PrivateAuthPrepared(View, r, "canonical")
         /\ c.code = "CURRENT" /\ PrivateAuthPrepared(View, r, "canonical") => c.prepared
         /\ c.prepared \in BOOLEAN
BY DEF AuthorityCandidate, View

LEMMA CodeIs ==
  ASSUME NEW r \in LocationRole, auth[r].gen \in {"absent", "v2", "v0"}
  PROVE  /\ AssessmentCode(View, r) = "CURRENT" <=> journal[r] = NoJournal /\ auth[r].gen = "v2"
         /\ AssessmentCode(View, r) = "EMPTY" => journal[r] = NoJournal /\ auth[r].gen = "absent"
BY DEF AssessmentCode, View

\* The authorities that are there, when both, one or none is.
LEMMA PresentIs ==
  LET C == AuthorityCandidate(View, "compatibility")
      N == AuthorityCandidate(View, "canonical")
      present == {c \in {C, N} : c.code # "EMPTY"}
  IN Now = IF present # {} THEN SelectAuthorities(present)
           ELSE SelectPrototype({c \in {PrototypeCandidate(View)} : c.code # "EMPTY"})
<1> DEFINE C == AuthorityCandidate(View, "compatibility")
           N == AuthorityCandidate(View, "canonical")
           present == {c \in {C, N} : c.code # "EMPTY"}
           P == PrototypeCandidate(View)
           prototypes == {c \in {P} : c.code # "EMPTY"}
<1>1. C.role = "compatibility" /\ N.role = "canonical" /\ P.role = "prototype"
  BY DEF AuthorityCandidate, PrototypeCandidate
<1>2. Observe(View) = IF present # {} THEN present ELSE prototypes
  <2>1. {AuthorityCandidate(View, role) : role \in LocationRole} = {C, N}
    BY DEF LocationRole
  <2> QED BY <2>1 DEF Observe
<1> HIDE DEF C, N, P
<1>3. CASE present # {}
  <2>1. {c \in present : c.role # "prototype"} = present
    BY <1>1
  <2> QED BY <1>2, <1>3, <2>1 DEF Now, Selection, SelectRuntimePersistence, C, N, P
<1>4. CASE present = {}
  <2>1. {c \in prototypes : c.role # "prototype"} = {} /\ prototypes \ {} = prototypes
    BY <1>1
  <2> QED BY <1>2, <1>4, <2>1 DEF Now, Selection, SelectRuntimePersistence, C, N, P
<1> QED BY <1>3, <1>4 DEF C, N, P

LEMMA SelectionIs ==
  LET C == AuthorityCandidate(View, "compatibility")
      N == AuthorityCandidate(View, "canonical")
  IN /\ C.code = "EMPTY" /\ N.code = "EMPTY" =>
          Now.code \in {"empty", "candidate_blocked", "prototype_only"}
          /\ (Now.code = "empty" => Now.role = "canonical")
     /\ C.code # "EMPTY" /\ N.code = "EMPTY" =>
          Now.code \in {"candidate_blocked", "partial", "compatibility_selected"}
          /\ (Now.code = "compatibility_selected" => Now.role = "compatibility" /\ C.prepared)
          /\ (C.prepared => Now.code # "partial")
     /\ C.code = "EMPTY" /\ N.code # "EMPTY" =>
          Now.code \in {"candidate_blocked", "partial", "canonical_selected"}
          /\ (Now.code = "canonical_selected" => Now.role = "canonical" /\ N.prepared)
     /\ C.code # "EMPTY" /\ N.code # "EMPTY" =>
          Now.code \in {"candidate_blocked", "partial", "canonical_selected", "equivalent_selected", "conflict"}
          /\ (Now.code \in {"canonical_selected", "equivalent_selected"} =>
                /\ Now.role = "canonical" /\ C.prepared /\ N.prepared
                /\ C.account \in N.lineage \/ C.account = N.account)
          /\ (Now.code = "partial" /\ C.prepared /\ N.prepared => C.account = N.account)
<1> DEFINE C == AuthorityCandidate(View, "compatibility")
           N == AuthorityCandidate(View, "canonical")
           present == {c \in {C, N} : c.code # "EMPTY"}
<1>1. C.role = "compatibility" /\ N.role = "canonical"
  BY DEF AuthorityCandidate
<1>2. Now = IF present # {} THEN SelectAuthorities(present)
            ELSE SelectPrototype({c \in {PrototypeCandidate(View)} : c.code # "EMPTY"})
  BY PresentIs
<1>0. /\ C.prepared => C.code = "CURRENT"
      /\ N.prepared => N.code = "CURRENT"
      /\ C.prepared \in BOOLEAN /\ N.prepared \in BOOLEAN
  BY CandidateIs DEF LocationRole
<1> HIDE DEF C, N
<1>3. CASE C.code = "EMPTY" /\ N.code = "EMPTY"
  <2>1. present = {}
    BY <1>3
  <2> QED BY <1>2, <1>3, <2>1 DEF SelectPrototype, Select, C, N
<1>4. CASE C.code # "EMPTY" /\ N.code = "EMPTY"
  <2>1. present = {C} /\ Cardinality({C}) = 1
    BY <1>4, FS_Singleton
  <2>2. (CHOOSE c \in {C} : TRUE) = C
    OBVIOUS
  <2>3. Now = SelectAuthorities({C})
    BY <1>2, <2>1
  <2> QED BY <1>1, <1>0, <1>4, <2>1, <2>2, <2>3
          DEF SelectAuthorities, BlockedSelection, IsBlockedCandidate, SchemaReadyCodes, PartialCodes, Select, C, N
<1>5. CASE C.code = "EMPTY" /\ N.code # "EMPTY"
  <2>1. present = {N} /\ Cardinality({N}) = 1
    BY <1>5, FS_Singleton
  <2>2. (CHOOSE c \in {N} : TRUE) = N
    OBVIOUS
  <2>3. Now = SelectAuthorities({N})
    BY <1>2, <2>1
  <2> QED BY <1>1, <1>0, <1>5, <2>1, <2>2, <2>3
          DEF SelectAuthorities, BlockedSelection, IsBlockedCandidate, SchemaReadyCodes, PartialCodes, Select, C, N
<1>6. CASE C.code # "EMPTY" /\ N.code # "EMPTY"
  <2>1. present = {C, N}
    BY <1>6
  <2>2. Cardinality({C, N}) = 2
    <3>1. C # N
      BY <1>1
    <3>2. Cardinality({C}) = 1 /\ IsFiniteSet({C})
      BY FS_Singleton
    <3>3. Cardinality({C} \cup {N}) = Cardinality({C}) + 1
      BY <3>1, <3>2, FS_AddElement
    <3>4. {C} \cup {N} = {C, N}
      OBVIOUS
    <3> QED BY <3>2, <3>3, <3>4
  <2>3. (CHOOSE c \in {C, N} : c.role = "compatibility") = C /\ (CHOOSE c \in {C, N} : c.role = "canonical") = N
    BY <1>1
  <2>4. Now = SelectAuthorities({C, N})
    BY <1>2, <2>1
  <2>5. CASE \E c \in {C, N} : IsBlockedCandidate(c)
    <3>1. {c \in {C, N} : IsBlockedCandidate(c)} # {}
      BY <2>5
    <3>2. Now.code = "candidate_blocked"
      BY <2>4, <3>1 DEF SelectAuthorities, BlockedSelection, Select
    <3> QED BY <1>6, <3>2 DEF C, N
  <2>6. CASE ~ \E c \in {C, N} : IsBlockedCandidate(c)
    <3>1. {c \in {C, N} : IsBlockedCandidate(c)} = {}
      BY <2>6
    <3>2. CASE \E c \in {C, N} : c.code \in PartialCodes \/ ~ c.prepared
      <4>1. Now = Select("partial", "none")
        BY <2>4, <3>1, <3>2 DEF SelectAuthorities
      <4>2. ~ (C.prepared /\ N.prepared)
        BY <1>0, <3>2 DEF PartialCodes
      <4> QED BY <1>6, <4>1, <4>2 DEF Select, C, N
    <3>3. CASE ~ \E c \in {C, N} : c.code \in PartialCodes \/ ~ c.prepared
      <4>1. Now = SelectAuthorityPair(C, N)
        BY <2>2, <2>3, <2>4, <3>1, <3>3 DEF SelectAuthorities
      <4>2. C.prepared /\ N.prepared
        BY <3>3
      <4> QED BY <1>6, <4>1, <4>2 DEF SelectAuthorityPair, Select, C, N
    <3> QED BY <3>2, <3>3
  <2> QED BY <2>5, <2>6
<1> QED BY <1>3, <1>4, <1>5, <1>6 DEF C, N

-----------------------------------------------------------------------------
(* What an action leaves alone.                                            *)

Roles == "compatibility" \in LocationRole /\ "canonical" \in LocationRole

LEMMA RolesAre == Roles /\ \A r \in LocationRole : r = "compatibility" \/ r = "canonical"
BY DEF Roles, LocationRole

\* The ready location, and what an ordinary command may rely on of it.
LEMMA ReadyIs ==
  ASSUME DiskTyped, IsReadySelection(Now)
  PROVE  /\ ReadyRole(Now) \in LocationRole
         /\ ReadyRole(Now) = "compatibility" => auth["compatibility"].gen = "v2"
<1> DEFINE C == AuthorityCandidate(View, "compatibility")
<1>1. C.prepared => auth["compatibility"].gen = "v2"
  BY CandidateIs, CodeIs, RolesAre DEF DiskTyped, Authority, Roles
<1>2. Now.role = "canonical" \/ (Now.role = "compatibility" /\ C.prepared)
  BY SelectionIs DEF IsReadySelection
<1> HIDE DEF C
<1> QED BY <1>1, <1>2, RolesAre DEF ReadyRole, Roles

LEMMA DiskStays ==
  ASSUME DiskTyped, AuthorityHasBundles, NewestIsRetained, UNCHANGED <<disk, issued, newest>>
  PROVE  DiskTyped' /\ AuthorityHasBundles' /\ NewestIsRetained'
<1>1. auth' = auth /\ bundles' = bundles /\ lineage' = lineage /\ journal' = journal
      /\ issued' = issued /\ newest' = newest
  BY DEF disk
<1>2. DiskTyped'
  BY <1>1 DEF DiskTyped, JournalSound
<1>3. AuthorityHasBundles'
  BY <1>1 DEF AuthorityHasBundles
<1>4. NewestIsRetained'
  BY <1>1 DEF NewestIsRetained
<1> QED BY <1>2, <1>3, <1>4

LEMMA AtRest ==
  ASSUME op' = Idle
  PROVE  LifecycleTyped' /\ WorkInv' /\ op'.pc = "idle"
<1>1. op'.pc = "idle" /\ "pc" \in DOMAIN op'
  BY DEF Idle
<1>2. LifecycleTyped'
  BY <1>1 DEF LifecycleTyped, Working
<1>3. WorkInv'
  BY <1>1 DEF WorkInv, Working
<1> QED BY <1>1, <1>2, <1>3

\* What a command at work relies on stays when nobody takes a bundle away.
LEMMA WorkStays ==
  ASSUME WorkInv, LifecycleTyped, UNCHANGED <<op, lineage, journal>>, auth'["canonical"] = auth["canonical"],
         \A r \in LocationRole \ Lossy : \A l \in Owned : bundles[r][l] > 0 => bundles'[r][l] > 0
  PROVE  WorkInv' /\ LifecycleTyped'
<1>1. LifecycleTyped'
  BY DEF LifecycleTyped
<1>2. op.pc \in Working => op.to \in LocationRole
  BY RolesAre DEF LifecycleTyped, Working, Roles
<1>3. op' = op /\ lineage' = lineage /\ journal' = journal
  OBVIOUS
<1>4. ASSUME op.pc \in Working, op.to \notin Lossy, NEW l \in OwnedPrivateHomes(op.work.target.accounts)
      PROVE  bundles'[op.to][l] > 0 \/ (op.pc # "commit" /\ l \in op.work.copies)
  <2>1. l \in Owned
    BY DEF OwnedPrivateHomes
  <2>2. bundles[op.to][l] > 0 \/ (op.pc # "commit" /\ l \in op.work.copies)
    BY <1>4 DEF WorkInv
  <2> QED BY <1>2, <1>4, <2>1, <2>2
<1>5. WorkInv'
  BY <1>3, <1>4 DEF WorkInv
<1> QED BY <1>1, <1>5

\* A command goes on to another step.
LEMMA Goes ==
  ASSUME LifecycleTyped, op.pc # "idle", NEW step, op' = [op EXCEPT !.pc = step]
  PROVE  /\ op'.pc = step /\ op'.kind = op.kind /\ op'.from = op.from /\ op'.to = op.to
         /\ op'.replace = op.replace /\ op'.rebased = op.rebased /\ op'.seen = op.seen
         /\ op.pc \in Working => op'.work = op.work
         /\ DOMAIN op' = DOMAIN op
BY DEF LifecycleTyped, Previewing

LEMMA GoesTyped ==
  ASSUME LifecycleTyped, op.pc # "idle", NEW step, op' = [op EXCEPT !.pc = step],
         step \in {"held", "prepare", "diverged"} \cup Working,
         step \in Working => op.pc \in Working,
         step \in {"held", "diverged"} => op.kind = "migrate"
  PROVE  LifecycleTyped'
<1>1. /\ op'.pc = step /\ op'.kind = op.kind /\ op'.from = op.from /\ op'.to = op.to
      /\ op'.replace = op.replace /\ op'.rebased = op.rebased /\ op'.seen = op.seen
      /\ DOMAIN op' = DOMAIN op
  BY Goes
<1>2. step # "idle" /\ step # "preview"
  BY DEF Working
<1> QED BY <1>1, <1>2 DEF LifecycleTyped

LEMMA SourceChangedKeeps ==
  ASSUME MoveInv, op.pc \in Working, SourceChanged, UNCHANGED <<disk, rt, issued, newest>>
  PROVE  MoveInv'
<1> USE DEF MoveInv
<1>0. op.pc # "idle"
  BY DEF Working
<1>1. DiskTyped' /\ AuthorityHasBundles' /\ NewestIsRetained' /\ CommandTyped'
  BY DiskStays DEF CommandTyped
<1>2. CASE op.rebased
  BY <1>1, <1>2, AtRest DEF SourceChanged
<1>3. CASE ~ op.rebased
  <2>1. op.kind = "migrate" /\ op.to = "canonical" /\ op.from = "compatibility"
    BY <1>0, <1>3 DEF LifecycleTyped
  <2>2. CASE journal[op.to] # NoJournal
    <3>1. op' = [op EXCEPT !.pc = "diverged"]
      BY <1>3, <2>2 DEF SourceChanged
    <3>2. op'.pc = "diverged" /\ op'.to = op.to
      BY <1>0, <3>1, Goes
    <3>3. LifecycleTyped'
      BY <1>0, <2>1, <3>1, GoesTyped
    <3>4. journal'[op.to].kind = "migration"
      BY <2>1, <2>2 DEF WorkInv, Working, disk
    <3>5. WorkInv'
      BY <3>2, <3>4 DEF WorkInv, Working
    <3> QED BY <1>1, <3>3, <3>5
  <2>3. CASE journal[op.to] = NoJournal
    <3>1. op' = [op EXCEPT !.pc = "prepare", !.rebased = TRUE]
      BY <1>3, <2>3 DEF SourceChanged
    <3>2. /\ op'.pc = "prepare" /\ op'.kind = op.kind /\ op'.to = op.to /\ op'.from = op.from
          /\ op'.replace = op.replace /\ op'.rebased = TRUE /\ op'.seen = op.seen /\ DOMAIN op' = DOMAIN op
      BY <1>0, <3>1 DEF LifecycleTyped, Previewing
    <3>3. LifecycleTyped'
      BY <1>0, <2>1, <3>2 DEF LifecycleTyped, Working
    <3>4. WorkInv'
      BY <2>1, <2>3, <3>2 DEF WorkInv, Working, disk
    <3> QED BY <1>1, <3>3, <3>4
  <2> QED BY <2>2, <2>3
<1> QED BY <1>2, <1>3

-----------------------------------------------------------------------------
(* The lifecycle command, step by step.                                    *)

LEMMA BeginMigrateKeeps == ASSUME MoveInv, NEW replace \in BOOLEAN, BeginMigrate(replace) PROVE MoveInv'
<1> USE DEF MoveInv
<1>1. DiskTyped' /\ AuthorityHasBundles' /\ NewestIsRetained' /\ CommandTyped'
  BY DiskStays DEF BeginMigrate, CommandTyped
<1>2. /\ op' = [pc |-> "preview", kind |-> "migrate", from |-> "compatibility", to |-> "canonical",
                replace |-> replace, rebased |-> FALSE, seen |-> auth["canonical"]]
      /\ auth["canonical"] \in Authority
  BY RolesAre DEF BeginMigrate, DiskTyped, Roles
<1>3. LifecycleTyped'
  BY <1>2 DEF LifecycleTyped, Previewing, Working
<1>4. WorkInv'
  BY <1>2 DEF WorkInv, Working
<1> QED BY <1>1, <1>3, <1>4

LEMMA BeginRollbackKeeps == ASSUME MoveInv, BeginRollback PROVE MoveInv'
<1> USE DEF MoveInv
<1>1. DiskTyped' /\ AuthorityHasBundles' /\ NewestIsRetained' /\ CommandTyped'
  BY DiskStays DEF BeginRollback, CommandTyped
<1>2. /\ op' = [pc |-> "preview", kind |-> "rollback", from |-> "canonical", to |-> "compatibility",
                replace |-> FALSE, rebased |-> TRUE, seen |-> auth["compatibility"]]
      /\ auth["compatibility"] \in Authority
  BY RolesAre DEF BeginRollback, DiskTyped, Roles
<1>3. LifecycleTyped'
  BY <1>2 DEF LifecycleTyped, Previewing, Working
<1>4. WorkInv'
  BY <1>2 DEF WorkInv, Working
<1> QED BY <1>1, <1>3, <1>4

LEMMA HoldKeeps == ASSUME MoveInv, HoldLocationState PROVE MoveInv'
<1> USE DEF MoveInv
<1>1. DiskTyped' /\ AuthorityHasBundles' /\ NewestIsRetained' /\ CommandTyped'
  BY DiskStays DEF HoldLocationState, CommandTyped
<1>2. CASE op.kind = "migrate"
  <2>1. op' = [op EXCEPT !.pc = "held"] /\ op.pc = "preview"
    BY <1>2 DEF HoldLocationState
  <2>2. LifecycleTyped'
    BY <1>2, <2>1, GoesTyped DEF Working
  <2>3. op'.pc = "held"
    BY <2>1, Goes
  <2> QED BY <1>1, <2>2, <2>3 DEF WorkInv, Working
<1>3. CASE op.kind # "migrate"
  <2>1. op' = [op EXCEPT !.pc = "prepare"] /\ op.pc = "preview"
    BY <1>3 DEF HoldLocationState
  <2>2. LifecycleTyped'
    BY <2>1, GoesTyped DEF Working
  <2>3. op'.pc = "prepare" /\ op'.kind # "migrate"
    BY <1>3, <2>1, Goes
  <2> QED BY <1>1, <2>2, <2>3 DEF WorkInv, Working
<1> QED BY <1>2, <1>3

LEMMA RefuseKeeps == ASSUME MoveInv, Refuse PROVE MoveInv'
<1> USE DEF MoveInv
<1>1. DiskTyped' /\ AuthorityHasBundles' /\ NewestIsRetained' /\ CommandTyped'
  BY DiskStays DEF Refuse, CommandTyped
<1>2. LifecycleTyped' /\ WorkInv'
  BY AtRest DEF Refuse, End
<1> QED BY <1>1, <1>2

\* A journal that is no longer, or is one that no ordinary command has written.
LEMMA JournalGone ==
  ASSUME DiskTyped, AuthorityHasBundles, NewestIsRetained, UNCHANGED <<auth, bundles, lineage, issued, newest>>,
         NEW r \in LocationRole, NEW j, j.kind \notin {"migration", "ordinary"},
         journal[r].kind # "ordinary", journal' = [journal EXCEPT ![r] = j]
  PROVE  DiskTyped' /\ AuthorityHasBundles' /\ NewestIsRetained'
<1>1. /\ DOMAIN journal' = LocationRole /\ journal' = [q \in LocationRole |-> journal'[q]]
      /\ journal'[r] = j /\ \A q \in LocationRole : q # r => journal'[q] = journal[q]
  BY DEF DiskTyped
<1>2. DiskTyped'
  BY <1>1 DEF DiskTyped, JournalSound
<1>3. AuthorityHasBundles'
  BY <1>1 DEF AuthorityHasBundles
<1>4. NewestIsRetained'
  BY DEF NewestIsRetained
<1> QED BY <1>2, <1>3, <1>4

LEMMA RecoverKeeps == ASSUME MoveInv, RecoverLocationTransaction PROVE MoveInv'
<1> USE DEF MoveInv
<1>1. op.pc = "held" /\ op.kind = "migrate" /\ op.pc # "idle"
  BY DEF RecoverLocationTransaction, LifecycleTyped
<1>2. CommandTyped'
  BY DEF RecoverLocationTransaction, CommandTyped
<1>3. CASE op' = Idle /\ UNCHANGED journal
  BY <1>2, <1>3, AtRest, DiskStays DEF RecoverLocationTransaction, disk
<1>4. ASSUME op' = [op EXCEPT !.pc = "prepare"], journal'["canonical"] = NoJournal
      PROVE  LifecycleTyped' /\ WorkInv'
  <2>1. op'.pc = "prepare"
    BY <1>1, <1>4, Goes
  <2>2. LifecycleTyped'
    BY <1>1, <1>4, GoesTyped DEF Working
  <2> QED BY <1>4, <2>1, <2>2 DEF WorkInv, Working
<1>5. CASE journal["canonical"] = NoJournal /\ op' = [op EXCEPT !.pc = "prepare"] /\ UNCHANGED journal
  BY <1>2, <1>4, <1>5, DiskStays DEF RecoverLocationTransaction, disk
<1>6. CASE /\ journal["canonical"].kind = "empty" /\ op' = [op EXCEPT !.pc = "prepare"]
           /\ journal' = [journal EXCEPT !["canonical"] = NoJournal]
  <2>1. NoJournal.kind = "none"
    BY DEF NoJournal
  <2>2. DiskTyped' /\ AuthorityHasBundles' /\ NewestIsRetained'
    BY <1>6, <2>1, JournalGone, RolesAre DEF RecoverLocationTransaction, Roles
  <2>3. journal'["canonical"] = NoJournal
    BY <1>6, RolesAre DEF DiskTyped, Roles
  <2> QED BY <1>2, <1>4, <1>6, <2>2, <2>3
<1> QED BY <1>3, <1>5, <1>6 DEF RecoverLocationTransaction, End

\* What is to be copied has a source, what is not is there.
LEMMA CopiesAre ==
  ASSUME DiskTyped, NEW from \in LocationRole, NEW to \in LocationRole, from # to,
         PrivateAuthPrepared(View, from, to)
  PROVE  LET copies == CopiesRequired(View, from, to) IN
         /\ copies \subseteq Owned /\ \A l \in copies : bundles[from][l] > 0
         /\ \A l \in OwnedPrivateHomes(auth[from].accounts) : bundles[to][l] > 0 \/ l \in copies
<1>1. \A l \in Owned : bundles[from][l] \in Nat /\ bundles[to][l] \in Nat
  BY AuthorityFacts DEF DiskTyped, Bundles
<1>2. \A l \in OwnedPrivateHomes(auth[from].accounts) : l \in Owned
  BY DEF OwnedPrivateHomes
<1>3. \A l \in OwnedPrivateHomes(auth[from].accounts) : bundles[from][l] > 0
  BY DEF PrivateAuthPrepared, PrepareAccount, ValidatedSource, View
<1> QED BY <1>1, <1>2, <1>3 DEF CopiesRequired, View

LEMMA PrepareMoveKeeps == ASSUME MoveInv, PrepareLocationWork PROVE MoveInv'
<1> USE DEF MoveInv
<1>1. DiskTyped' /\ AuthorityHasBundles' /\ NewestIsRetained' /\ CommandTyped'
  BY DiskStays DEF PrepareLocationWork, CommandTyped
<1>2. op.pc = "prepare" /\ op.kind = "migrate" /\ op.from = "compatibility" /\ op.to = "canonical"
  BY DEF PrepareLocationWork, LifecycleTyped
<1> DEFINE C == auth["compatibility"].accounts
           D == DisplacedPrivateBundles(EvidenceAccounts("canonical"), C)
           w == Work(C, VersionTwo(C), D)
<1>3. op' = [pc |-> "guard", kind |-> op.kind, from |-> op.from, to |-> op.to,
             replace |-> op.replace, rebased |-> op.rebased, seen |-> op.seen, work |-> w]
  BY DEF PrepareLocationWork
<1>4. PrivateAuthPrepared(View, "compatibility", "canonical")
  <2>1. PICK c \in EvidenceForRole(View, "compatibility") : c.prepared
    BY DEF PrepareLocationWork
  <2>2. c = AuthorityCandidate(View, "compatibility")
    <3>1. c \in Observe(View) /\ c.role = "compatibility"
      BY DEF EvidenceForRole
    <3>2. c = PrototypeCandidate(View) \/ \E r \in LocationRole : c = AuthorityCandidate(View, r)
      BY <3>1 DEF Observe
    <3>3. PrototypeCandidate(View).role = "prototype"
      BY DEF PrototypeCandidate
    <3> QED BY <3>1, <3>2, <3>3, CandidateIs
  <2> QED BY <2>1, <2>2, CandidateIs, RolesAre DEF Roles
<1>5. LET copies == CopiesRequired(View, "compatibility", "canonical") IN
      /\ copies \subseteq Owned /\ \A l \in copies : bundles["compatibility"][l] > 0
      /\ \A l \in OwnedPrivateHomes(C) : bundles["canonical"][l] > 0 \/ l \in copies
  BY <1>4, CopiesAre, RolesAre DEF Roles
<1>6. C \in Accounts /\ auth["canonical"] \in Authority /\ bundles["compatibility"] \in Bundles
  BY RolesAre DEF DiskTyped, Roles, Authority
<1>7. D \subseteq Owned /\ OwnedPrivateHomes(C) \cap D = {}
  BY DEF DisplacedPrivateBundles, OwnedPrivateHomes
<1> HIDE DEF C, D
<1>8. /\ w.source = C /\ w.target.accounts = C /\ w.target.gen = "v2" /\ w.base = auth["canonical"]
      /\ w.target \in Authority /\ w.displaced = D
      /\ w.copies = CopiesRequired(View, "compatibility", "canonical") /\ w.files = bundles["compatibility"]
  BY <1>2, <1>6, AuthorityFacts DEF Work, VersionTwo
<1> HIDE DEF w
<1>9. WorkSound(w)
  BY <1>5, <1>6, <1>7, <1>8 DEF WorkSound
<1>10. /\ op'.pc = "guard" /\ op'.kind = "migrate" /\ op'.to = "canonical" /\ op'.work = w
       /\ op'.from = "compatibility" /\ op'.replace = op.replace /\ op'.rebased = op.rebased /\ op'.seen = op.seen
       /\ Previewing \subseteq DOMAIN op' /\ "work" \in DOMAIN op' /\ "pc" \in DOMAIN op'
  BY <1>2, <1>3 DEF Previewing
<1>11. LifecycleTyped'
  BY <1>2, <1>10 DEF LifecycleTyped, Working
<1>12. auth' = auth /\ bundles' = bundles /\ journal' = journal /\ lineage' = lineage
  BY DEF PrepareLocationWork, disk
<1>13. auth["canonical"].gen # "v0" /\ (auth["canonical"].gen = "absent" => auth["canonical"].accounts = NoAccounts)
  BY RolesAre DEF DiskTyped, Roles
<1>14. journal["canonical"] = NoJournal
  BY <1>2 DEF WorkInv
<1>15. WorkInv'
  BY <1>5, <1>8, <1>9, <1>10, <1>12, <1>13, <1>14 DEF WorkInv, Working
<1> QED BY <1>1, <1>11, <1>15

LEMMA PrepareRollbackKeeps == ASSUME MoveInv, PrepareNativeRollback PROVE MoveInv'
<1> USE DEF MoveInv
<1>1. DiskTyped' /\ AuthorityHasBundles' /\ NewestIsRetained' /\ CommandTyped'
  BY DiskStays DEF PrepareNativeRollback, CommandTyped
<1>2. op.pc = "prepare" /\ op.kind = "rollback" /\ op.from = "canonical" /\ op.to = "compatibility"
  BY DEF PrepareNativeRollback, LifecycleTyped
<1> DEFINE S == EvidenceAccounts("canonical")
           w == [Work(S, GenerationZero(S), {}) EXCEPT !.copies = @ \cap OwnedPrivateHomes(S)]
           copies == CopiesRequired(View, "canonical", "compatibility")
<1>3. op' = [pc |-> "snapshot", kind |-> op.kind, from |-> op.from, to |-> op.to,
             replace |-> FALSE, rebased |-> TRUE, seen |-> op.seen, work |-> w]
  BY DEF PrepareNativeRollback
<1>4. /\ \A l \in copies \cap OwnedPrivateHomes(S) : l \in Owned /\ bundles["canonical"][l] > 0
      /\ \A l \in OwnedPrivateHomes(S) : bundles["compatibility"][l] > 0 \/ l \in copies
  <2>1. CASE AssessmentCode(View, "canonical") = "CURRENT"
    <3>1. PrivateAuthPrepared(View, "canonical", "compatibility") /\ S = auth["canonical"].accounts
      BY <2>1 DEF PrepareNativeRollback, EvidenceAccounts
    <3>2. "canonical" # "compatibility"
      OBVIOUS
    <3> QED BY <3>1, <3>2, CopiesAre, RolesAre DEF Roles
  <2>2. CASE AssessmentCode(View, "canonical") # "CURRENT"
    <3>1. OwnedPrivateHomes(S) = {}
      BY <2>2 DEF EvidenceAccounts, OwnedPrivateHomes, NoAccounts
    <3> QED BY <3>1
  <2> QED BY <2>1, <2>2
<1>5. S \in Accounts /\ auth["compatibility"] \in Authority /\ bundles["canonical"] \in Bundles
  BY RolesAre, AuthorityFacts DEF DiskTyped, Roles, Authority, EvidenceAccounts
<1>6. /\ auth["compatibility"].gen # "v0"
      /\ auth["compatibility"].gen = "absent" => auth["compatibility"].accounts = NoAccounts
  BY CodeIs, RolesAre DEF PrepareNativeRollback, DiskTyped, Roles, Authority
<1> HIDE DEF S
<1>7. /\ w.source = S /\ w.target = GenerationZero(S) /\ w.base = auth["compatibility"]
      /\ w.displaced = {} /\ w.files = bundles["canonical"] /\ w.copies = copies \cap OwnedPrivateHomes(S)
  BY <1>2 DEF Work
<1>8. w.target.accounts = S /\ w.target.gen = "v0" /\ w.target \in Authority
  BY <1>5, <1>7, AuthorityFacts DEF GenerationZero
<1> HIDE DEF w, copies
<1>9. WorkSound(w)
  BY <1>4, <1>5, <1>7, <1>8 DEF WorkSound
<1>10. /\ op'.pc = "snapshot" /\ op'.kind = "rollback" /\ op'.to = "compatibility" /\ op'.work = w
       /\ op'.from = "canonical" /\ op'.replace = FALSE /\ op'.rebased = TRUE /\ op'.seen = op.seen
       /\ Previewing \subseteq DOMAIN op' /\ "work" \in DOMAIN op' /\ "pc" \in DOMAIN op'
  BY <1>2, <1>3 DEF Previewing
<1>11. LifecycleTyped'
  BY <1>2, <1>10 DEF LifecycleTyped, Working
<1>12. auth' = auth /\ bundles' = bundles /\ journal' = journal /\ lineage' = lineage
  BY DEF PrepareNativeRollback, disk
<1>13. WorkInv'
  BY <1>4, <1>6, <1>7, <1>8, <1>9, <1>10, <1>12 DEF WorkInv, Working
<1> QED BY <1>1, <1>11, <1>13

LEMMA TakeGuardKeeps == ASSUME MoveInv, TakeSourceGuard PROVE MoveInv'
<1> USE DEF MoveInv
<1>1. op.pc = "guard" /\ op.pc \in Working /\ op.pc # "idle"
  BY DEF TakeSourceGuard, Working
<1>2. UNCHANGED <<disk, rt, issued, newest>>
  BY DEF TakeSourceGuard
<1>3. CASE SourceChanged
  BY <1>1, <1>2, <1>3, SourceChangedKeeps
<1>4. CASE ~ SourceChanged
  <2>1. DiskTyped' /\ AuthorityHasBundles' /\ NewestIsRetained' /\ CommandTyped'
    BY <1>2, DiskStays DEF CommandTyped
  <2>2. op' = [pc |-> IF op.kind = "migrate" THEN "snapshot" ELSE "journal",
               kind |-> op.kind, from |-> op.from, to |-> op.to, replace |-> op.replace,
               rebased |-> op.rebased, seen |-> op.seen, work |-> op.work,
               guard |-> SourceGuard(op.from, op.work.source)]
    BY <1>4 DEF TakeSourceGuard
  <2>3. /\ op'.pc = IF op.kind = "migrate" THEN "snapshot" ELSE "journal"
        /\ op'.kind = op.kind /\ op'.to = op.to /\ op'.from = op.from /\ op'.replace = op.replace
        /\ op'.rebased = op.rebased /\ op'.seen = op.seen /\ op'.work = op.work
        /\ Previewing \subseteq DOMAIN op' /\ "work" \in DOMAIN op' /\ "pc" \in DOMAIN op'
    BY <2>2 DEF Previewing
  <2>4. LifecycleTyped'
    BY <1>1, <2>3 DEF LifecycleTyped, Working
  <2>5. auth' = auth /\ bundles' = bundles /\ journal' = journal /\ lineage' = lineage
    BY <1>2 DEF disk
  <2>6. op.kind = "migrate" \/ op.kind = "rollback"
    BY <1>1 DEF LifecycleTyped
  <2>7. WorkInv'
    BY <1>1, <2>3, <2>5, <2>6 DEF WorkInv, Working
  <2> QED BY <2>1, <2>4, <2>7
<1> QED BY <1>3, <1>4

\* The documents of a location are kept, and more.
LEMMA LineageGrows ==
  ASSUME DiskTyped, AuthorityHasBundles, NewestIsRetained, UNCHANGED <<auth, bundles, journal, issued, newest>>,
         NEW r \in LocationRole, NEW more \in SUBSET Accounts,
         lineage' = [lineage EXCEPT ![r] = @ \cup more]
  PROVE  /\ DiskTyped' /\ AuthorityHasBundles' /\ NewestIsRetained'
         /\ lineage'[r] = lineage[r] \cup more /\ \A q \in LocationRole : lineage[q] \subseteq lineage'[q]
<1>1. /\ lineage' \in [LocationRole -> SUBSET Accounts] /\ lineage'[r] = lineage[r] \cup more
      /\ \A q \in LocationRole : lineage[q] \subseteq lineage'[q]
  BY DEF DiskTyped
<1>2. DiskTyped'
  BY <1>1 DEF DiskTyped, JournalSound
<1>3. AuthorityHasBundles'
  BY DEF AuthorityHasBundles
<1>4. NewestIsRetained'
  BY <1>1 DEF NewestIsRetained
<1> QED BY <1>1, <1>2, <1>3, <1>4

LEMMA PublishKeeps == ASSUME MoveInv, PublishSnapshots PROVE MoveInv'
<1> USE DEF MoveInv
<1>1. op.pc = "snapshot" /\ op.pc \in Working /\ op.pc # "idle" /\ op.to \in LocationRole
  BY RolesAre DEF PublishSnapshots, Working, LifecycleTyped, Roles
<1> DEFINE more == DisplacedSnapshot \cup RollbackLineage
           step == IF op.kind = "migrate" THEN "journal" ELSE "guard"
<1>2. /\ lineage' = [lineage EXCEPT ![op.to] = @ \cup more] /\ op' = [op EXCEPT !.pc = step]
      /\ UNCHANGED <<auth, bundles, journal, issued, newest, rt>>
  BY DEF PublishSnapshots
<1>3. more \in SUBSET Accounts
  BY <1>1 DEF DisplacedSnapshot, RollbackLineage, WorkInv, WorkSound, Authority
<1>4. op.work.base.gen = "v2" => op.work.base.accounts \in more
  BY DEF DisplacedSnapshot
<1> HIDE DEF more
<1>5. /\ DiskTyped' /\ AuthorityHasBundles' /\ NewestIsRetained'
      /\ lineage'[op.to] = lineage[op.to] \cup more
  BY <1>1, <1>2, <1>3, LineageGrows
<1>6. CommandTyped'
  BY <1>2 DEF CommandTyped
<1>7. /\ op'.pc = step /\ op'.kind = op.kind /\ op'.from = op.from /\ op'.to = op.to
      /\ op'.replace = op.replace /\ op'.rebased = op.rebased /\ op'.seen = op.seen /\ op'.work = op.work
  BY <1>1, <1>2, Goes
<1>8. /\ step \in Working
      /\ \/ step = "journal" /\ op.kind = "migrate"
         \/ step = "guard" /\ op.kind = "rollback"
  BY <1>1 DEF LifecycleTyped, Working
<1> HIDE DEF step
<1>9. LifecycleTyped'
  BY <1>1, <1>2, <1>8, GoesTyped DEF Working
<1>10. WorkInv'
  BY <1>1, <1>2, <1>4, <1>5, <1>7, <1>8 DEF WorkInv, Working
<1> QED BY <1>5, <1>6, <1>9, <1>10

LEMMA WriteJournalKeeps == ASSUME MoveInv, WriteJournal PROVE MoveInv'
<1> USE DEF MoveInv
<1>1. op.pc = "journal" /\ op.pc \in Working /\ op.pc # "idle" /\ op.to \in LocationRole
  BY RolesAre DEF WriteJournal, Working, LifecycleTyped, Roles
<1>2. UNCHANGED <<auth, bundles, lineage, rt, issued, newest>>
  BY DEF WriteJournal
<1>3. CommandTyped'
  BY <1>2 DEF CommandTyped
<1>4. CASE SourceChanged /\ UNCHANGED journal
  BY <1>1, <1>4, SourceChangedKeeps DEF WriteJournal, disk
<1>5. CASE End /\ UNCHANGED journal
  BY <1>2, <1>3, <1>5, AtRest, DiskStays DEF End, WriteJournal, disk
<1>6. CASE /\ journal[op.to] = NoJournal /\ auth[op.to] = op.work.base
           /\ journal' = [journal EXCEPT ![op.to] = MigrationJournal]
           /\ op' = [op EXCEPT !.pc = "copies"]
  <2> DEFINE j == MigrationJournal
  <2>1. /\ j.kind = "migration" /\ j.base = op.work.base /\ j.target = op.work.target
        /\ j.before = bundles[op.to] /\ j.copies = op.work.copies /\ j.files = op.work.files
        /\ j.displaced = op.work.displaced
    BY DEF MigrationJournal
  <2>2. WorkSound(j) /\ j.before \in Bundles
    BY <1>1, <2>1 DEF WorkInv, WorkSound, DiskTyped
  <2>3. op.to \notin Lossy => \A l \in OwnedPrivateHomes(j.base.accounts) : j.before[l] > 0
    <3>1. journal[op.to].kind # "ordinary"
      BY <1>6 DEF NoJournal
    <3> QED BY <1>1, <1>6, <2>1, <3>1 DEF AuthorityHasBundles
  <2> HIDE DEF j
  <2>4. /\ DOMAIN journal' = LocationRole /\ journal' = [q \in LocationRole |-> journal'[q]]
        /\ journal'[op.to] = j /\ \A q \in LocationRole : q # op.to => journal'[q] = journal[q]
    BY <1>1, <1>6 DEF DiskTyped, j
  <2>5. \A r \in LocationRole : JournalSound(r)'
    <3>1. ASSUME NEW r \in LocationRole, r # op.to PROVE JournalSound(r)'
      BY <1>2, <2>4, <3>1 DEF DiskTyped, JournalSound
    <3>2. ASSUME NEW r \in LocationRole, r = op.to PROVE JournalSound(r)'
      BY <2>1, <2>2, <2>3, <2>4, <3>2 DEF JournalSound
    <3> QED BY <3>1, <3>2
  <2>6. DiskTyped'
    BY <1>2, <2>4, <2>5 DEF DiskTyped
  <2>7. AuthorityHasBundles'
    <3>1. journal[op.to].kind # "ordinary"
      BY <1>6 DEF NoJournal
    <3> QED BY <1>1, <1>2, <2>4, <3>1 DEF AuthorityHasBundles
  <2>8. NewestIsRetained'
    BY <1>2 DEF NewestIsRetained
  <2>9. /\ op'.pc = "copies" /\ op'.kind = op.kind /\ op'.from = op.from /\ op'.to = op.to
        /\ op'.work = op.work
    BY <1>1, <1>6, Goes
  <2>10. LifecycleTyped'
    BY <1>1, <1>6, GoesTyped DEF Working
  <2>11. WorkInv'
    BY <1>1, <1>2, <2>1, <2>4, <2>9 DEF WorkInv, Working
  <2> QED BY <1>3, <2>6, <2>7, <2>8, <2>10, <2>11
<1> QED BY <1>4, <1>5, <1>6 DEF WriteJournal

LEMMA CopyKeeps == ASSUME MoveInv, CopyBundle PROVE MoveInv'
<1> USE DEF MoveInv
<1>1. op.pc = "copies" /\ op.pc \in Working /\ op.pc # "idle" /\ op.to \in LocationRole /\ WorkSound(op.work)
  BY RolesAre DEF CopyBundle, Working, LifecycleTyped, Roles, WorkInv
<1>2. UNCHANGED <<auth, lineage, journal, rt, issued, newest>>
  BY DEF CopyBundle
<1>3. CommandTyped'
  BY <1>2 DEF CommandTyped
<1>4. ASSUME NEW l \in Uncopied, bundles' = [bundles EXCEPT ![op.to][l] = op.work.files[l]], UNCHANGED op
      PROVE  MoveInv'
  <2>1. l \in Owned /\ op.work.files[l] \in Version /\ op.work.files[l] > 0
    BY <1>1 DEF Uncopied, WorkSound, Bundles
  <2>2. /\ bundles' \in [LocationRole -> Bundles]
        /\ \A r \in LocationRole, k \in Owned : bundles[r][k] > 0 => bundles'[r][k] > 0
    BY <1>1, <1>4, <2>1 DEF DiskTyped, Bundles
  <2>3. DiskTyped'
    BY <1>2, <2>2 DEF DiskTyped, JournalSound
  <2>4. AuthorityHasBundles'
    BY <1>2, <2>2 DEF AuthorityHasBundles, OwnedPrivateHomes
  <2>5. NewestIsRetained'
    BY <1>2 DEF NewestIsRetained
  <2>6. LifecycleTyped' /\ WorkInv'
    BY <1>2, <1>4, <2>2, WorkStays
  <2> QED BY <1>3, <2>3, <2>4, <2>5, <2>6
<1>5. CASE AllCopied /\ op' = [op EXCEPT !.pc = "commit"] /\ UNCHANGED bundles
  <2>1. DiskTyped' /\ AuthorityHasBundles' /\ NewestIsRetained'
    BY <1>5, DiskStays DEF CopyBundle, disk
  <2>2. /\ op'.pc = "commit" /\ op'.kind = op.kind /\ op'.from = op.from /\ op'.to = op.to
        /\ op'.work = op.work
    BY <1>1, <1>5, Goes
  <2>3. LifecycleTyped'
    BY <1>1, <1>5, GoesTyped DEF Working
  <2>4. \A l \in op.work.copies : bundles[op.to][l] > 0
    BY <1>1, <1>5 DEF AllCopied, Uncopied, WorkSound
  <2>5. WorkInv'
    BY <1>1, <1>2, <1>5, <2>2, <2>4 DEF WorkInv, Working
  <2> QED BY <1>3, <2>1, <2>3, <2>5
<1> QED BY <1>4, <1>5 DEF CopyBundle

LEMMA CommitKeeps == ASSUME MoveInv, CommitAuthority PROVE MoveInv'
<1> USE DEF MoveInv
<1>1. op.pc = "commit" /\ op.pc \in Working /\ op.pc # "idle" /\ op.to \in LocationRole /\ WorkSound(op.work)
  BY RolesAre DEF CommitAuthority, Working, LifecycleTyped, Roles, WorkInv
<1>2. UNCHANGED <<bundles, lineage, journal, rt, issued>>
  BY DEF CommitAuthority
<1>3. CASE SourceChanged /\ UNCHANGED <<auth, newest>>
  BY <1>1, <1>3, SourceChangedKeeps DEF CommitAuthority, disk
<1>4. CASE /\ auth[op.to] = op.work.base /\ auth' = [auth EXCEPT ![op.to] = op.work.target]
           /\ newest' = IF GivesUp THEN [newest EXCEPT !.due = op.work.target.accounts] ELSE newest
           /\ op' = [op EXCEPT !.pc = "retire"]
  <2> DEFINE w == op.work
  <2>1. /\ w.target \in Authority /\ w.target.accounts \in Accounts
        /\ \/ op.kind = "migrate" /\ op.to = "canonical" /\ w.target.gen = "v2"
           \/ op.kind = "rollback" /\ op.to = "compatibility" /\ w.target.gen = "v0"
    BY <1>1 DEF WorkSound, Authority, LifecycleTyped, WorkInv
  <2>2. \/ w.base.gen = "v2" /\ w.base.accounts \in lineage[op.to]
        \/ w.base.accounts = NoAccounts
    BY <1>1 DEF WorkInv, WorkSound, Authority
  <2>3. op.to \notin Lossy => \A l \in OwnedPrivateHomes(w.target.accounts) : bundles[op.to][l] > 0
    BY <1>1 DEF WorkInv
  <2> HIDE DEF w
  <2>4. /\ auth' \in [LocationRole -> Authority] /\ auth'[op.to] = w.target
        /\ \A q \in LocationRole : q # op.to => auth'[q] = auth[q]
    BY <1>1, <1>4, <2>1 DEF DiskTyped, w
  <2>5. newest' \in [kept : Accounts, due : Accounts] /\ newest'.kept = newest.kept
    BY <1>4, <2>1 DEF DiskTyped, w
  <2>6. DiskTyped'
    <3>1. \A r \in LocationRole : JournalSound(r)'
      BY <1>2 DEF DiskTyped, JournalSound
    <3>2. /\ \A r \in LocationRole : auth'[r].gen = "absent" => auth'[r].accounts = NoAccounts
          /\ auth'["canonical"].gen # "v0"
      BY <2>1, <2>4, RolesAre DEF DiskTyped, Roles
    <3> QED BY <1>2, <2>4, <2>5, <3>1, <3>2 DEF DiskTyped
  <2>7. AuthorityHasBundles'
    BY <1>2, <2>3, <2>4 DEF AuthorityHasBundles
  <2>8. NewestIsRetained'
    <3>1. ASSUME NEW l \in Account
          PROVE  \E r \in LocationRole : \/ auth'[r].accounts[l] >= newest.kept[l]
                                         \/ \E s \in lineage[r] : s[l] >= newest.kept[l]
      <4>1. PICK r \in LocationRole : \/ auth[r].accounts[l] >= newest.kept[l]
                                      \/ \E s \in lineage[r] : s[l] >= newest.kept[l]
        BY DEF NewestIsRetained
      <4>2. CASE r # op.to \/ \E s \in lineage[r] : s[l] >= newest.kept[l]
        BY <2>4, <4>1, <4>2
      <4>3. CASE r = op.to /\ auth[r].accounts[l] >= newest.kept[l]
        <5>1. w.base.accounts[l] >= newest.kept[l]
          BY <1>4, <4>3 DEF w
        <5>2. CASE w.base.accounts \in lineage[op.to]
          BY <1>1, <5>1, <5>2
        <5>3. CASE w.base.accounts = NoAccounts
          <6>1. 0 >= newest.kept[l] /\ newest.kept[l] \in Nat /\ w.target.accounts[l] \in Nat
            BY <2>1, <5>1, <5>3, AuthorityFacts DEF NoAccounts, DiskTyped, Accounts
          <6> QED BY <1>1, <2>4, <6>1
        <5> QED BY <2>2, <5>2, <5>3
      <4> QED BY <4>1, <4>2, <4>3
    <3> QED BY <1>2, <2>5, <3>1 DEF NewestIsRetained
  <2>9. /\ op'.pc = "retire" /\ op'.kind = op.kind /\ op'.from = op.from /\ op'.to = op.to
        /\ op'.work = op.work
    BY <1>1, <1>4, Goes
  <2>10. LifecycleTyped'
    BY <1>1, <1>4, GoesTyped DEF Working
  <2>11. WorkInv'
    BY <1>1, <1>2, <2>1, <2>3, <2>4, <2>9 DEF WorkInv, Working, w
  <2>12. CommandTyped'
    BY <1>2 DEF CommandTyped
  <2> QED BY <2>6, <2>7, <2>8, <2>10, <2>11, <2>12
<1> QED BY <1>3, <1>4 DEF CommitAuthority

LEMMA RetireKeeps == ASSUME MoveInv, RetireDisplaced PROVE MoveInv'
<1> USE DEF MoveInv
<1>1. op.pc = "retire" /\ op.pc \in Working /\ op.pc # "idle" /\ op.to \in LocationRole /\ WorkSound(op.work)
  BY RolesAre DEF RetireDisplaced, Working, LifecycleTyped, Roles, WorkInv
<1>2. UNCHANGED <<auth, journal, rt, issued, newest>>
  BY DEF RetireDisplaced
<1>3. CASE SourceChanged /\ UNCHANGED <<bundles, lineage>>
  BY <1>1, <1>3, SourceChangedKeeps DEF RetireDisplaced, disk
<1>4. CASE /\ bundles' = [bundles EXCEPT ![op.to] = Without(@, op.work.displaced)]
           /\ lineage' = [lineage EXCEPT ![op.to] = @ \cup TargetLineage(op.work.target)]
           /\ op' = [op EXCEPT !.pc = "cleanup"]
  <2>1. \/ op.kind = "migrate" /\ op.to = "canonical" /\ auth["canonical"] = op.work.target
        \/ op.kind = "rollback" /\ op.to = "compatibility" /\ op.work.displaced = {}
    BY <1>1 DEF LifecycleTyped, WorkInv
  <2>2. /\ bundles' \in [LocationRole -> Bundles]
        /\ \A l \in Owned : bundles'[op.to][l] = IF l \in op.work.displaced THEN 0 ELSE bundles[op.to][l]
        /\ \A q \in LocationRole : q # op.to => bundles'[q] = bundles[q]
    BY <1>1, <1>4, AuthorityFacts DEF DiskTyped, Without, Bundles
  <2>3. /\ lineage' \in [LocationRole -> SUBSET Accounts]
        /\ \A q \in LocationRole : lineage[q] \subseteq lineage'[q]
    BY <1>1, <1>4 DEF DiskTyped, TargetLineage, WorkSound, Authority
  <2>4. DiskTyped'
    BY <1>2, <2>2, <2>3 DEF DiskTyped, JournalSound
  <2>5. \A l \in OwnedPrivateHomes(op.work.target.accounts) : bundles'[op.to][l] = bundles[op.to][l]
    BY <1>1, <2>2 DEF WorkSound, OwnedPrivateHomes
  <2>6. \A l \in OwnedPrivateHomes(auth[op.to].accounts) : bundles'[op.to][l] = bundles[op.to][l]
    BY <2>1, <2>2, <2>5 DEF OwnedPrivateHomes
  <2>7. AuthorityHasBundles'
    BY <1>2, <2>2, <2>6 DEF AuthorityHasBundles
  <2>8. NewestIsRetained'
    BY <1>2, <2>3 DEF NewestIsRetained
  <2>9. /\ op'.pc = "cleanup" /\ op'.kind = op.kind /\ op'.from = op.from /\ op'.to = op.to
        /\ op'.work = op.work
    BY <1>1, <1>4, Goes
  <2>10. LifecycleTyped'
    BY <1>1, <1>4, GoesTyped DEF Working
  <2>11. WorkInv'
    BY <1>1, <1>2, <2>5, <2>9 DEF WorkInv, Working
  <2>12. CommandTyped'
    BY <1>2 DEF CommandTyped
  <2> QED BY <2>4, <2>7, <2>8, <2>10, <2>11, <2>12
<1> QED BY <1>3, <1>4 DEF RetireDisplaced

LEMMA CleanupKeeps == ASSUME MoveInv, CleanupTransaction PROVE MoveInv'
<1> USE DEF MoveInv
<1>1. op.pc = "cleanup" /\ op.pc \in Working /\ op.to \in LocationRole /\ journal[op.to].kind = "migration"
  BY RolesAre DEF CleanupTransaction, Working, LifecycleTyped, Roles, WorkInv
<1>2. CASE SourceChanged /\ UNCHANGED journal
  BY <1>1, <1>2, SourceChangedKeeps DEF CleanupTransaction, disk
<1>3. CASE journal' = [journal EXCEPT ![op.to] = NoJournal] /\ End
  <2>1. NoJournal.kind = "none"
    BY DEF NoJournal
  <2>2. DiskTyped' /\ AuthorityHasBundles' /\ NewestIsRetained'
    BY <1>1, <1>3, <2>1, JournalGone DEF CleanupTransaction
  <2>3. CommandTyped'
    BY DEF CleanupTransaction, CommandTyped
  <2> QED BY <1>3, <2>2, <2>3, AtRest DEF End
<1> QED BY <1>2, <1>3 DEF CleanupTransaction

\* The native location is brought to where its bundles are those of its document.
LEMMA ConvergeKeeps ==
  ASSUME MoveInv, op.pc = "diverged", UNCHANGED <<auth, rt, issued, newest>>,
         NEW kept \in Bundles, NEW snapshots \in SUBSET Accounts, Converge(kept, snapshots),
         "canonical" \notin Lossy => \A l \in OwnedPrivateHomes(auth["canonical"].accounts) : kept[l] > 0
  PROVE  MoveInv'
<1> USE DEF MoveInv
<1>1. /\ bundles' = [bundles EXCEPT !["canonical"] = kept]
      /\ lineage' = [lineage EXCEPT !["canonical"] = @ \cup snapshots]
      /\ journal' = [journal EXCEPT !["canonical"] = NoJournal]
      /\ op' = [op EXCEPT !.pc = "prepare", !.rebased = TRUE]
  BY DEF Converge
<1>2. op.pc # "idle" /\ op.kind = "migrate" /\ op.to = "canonical" /\ op.from = "compatibility"
  BY DEF LifecycleTyped
<1>3. /\ bundles' \in [LocationRole -> Bundles] /\ bundles'["canonical"] = kept
      /\ \A q \in LocationRole : q # "canonical" => bundles'[q] = bundles[q]
  BY <1>1, RolesAre DEF DiskTyped, Roles
<1>4. /\ lineage' \in [LocationRole -> SUBSET Accounts]
      /\ \A q \in LocationRole : lineage[q] \subseteq lineage'[q]
  BY <1>1, RolesAre DEF DiskTyped, Roles
<1>5. /\ DOMAIN journal' = LocationRole /\ journal' = [q \in LocationRole |-> journal'[q]]
      /\ journal'["canonical"] = NoJournal /\ \A q \in LocationRole : q # "canonical" => journal'[q] = journal[q]
  BY <1>1, RolesAre DEF DiskTyped, Roles
<1>6. NoJournal.kind = "none"
  BY DEF NoJournal
<1>7. DiskTyped'
  BY <1>3, <1>4, <1>5, <1>6 DEF DiskTyped, JournalSound
<1>8. AuthorityHasBundles'
  BY <1>3, <1>5, <1>6 DEF AuthorityHasBundles
<1>9. NewestIsRetained'
  BY <1>4 DEF NewestIsRetained
<1>10. /\ op'.pc = "prepare" /\ op'.kind = op.kind /\ op'.to = op.to /\ op'.from = op.from
       /\ op'.replace = op.replace /\ op'.rebased = TRUE /\ op'.seen = op.seen /\ DOMAIN op' = DOMAIN op
  BY <1>1, <1>2 DEF LifecycleTyped, Previewing
<1>11. LifecycleTyped'
  BY <1>2, <1>10 DEF LifecycleTyped, Working
<1>12. WorkInv'
  BY <1>2, <1>5, <1>10 DEF WorkInv, Working
<1>13. CommandTyped'
  BY DEF CommandTyped
<1> QED BY <1>7, <1>8, <1>9, <1>11, <1>12, <1>13

LEMMA ResolveKeeps == ASSUME MoveInv, ResolveLocationDivergence PROVE MoveInv'
<1> DEFINE j == journal["canonical"]
<1>1. op.pc = "diverged" /\ UNCHANGED <<auth, rt, issued, newest>>
  BY DEF ResolveLocationDivergence
<1>2. j.kind = "migration"
  BY <1>1 DEF MoveInv, WorkInv, LifecycleTyped
<1>3. /\ WorkSound(j) /\ j.before \in Bundles
      /\ "canonical" \notin Lossy => \A l \in OwnedPrivateHomes(j.base.accounts) : j.before[l] > 0
  BY <1>2, RolesAre DEF MoveInv, DiskTyped, JournalSound, Roles
<1>4. bundles["canonical"] \in Bundles /\ auth["canonical"] \in Authority
  BY RolesAre DEF MoveInv, DiskTyped, Roles
<1>5. TargetLineage(j.target) \in SUBSET Accounts /\ TargetLineage(j.base) \in SUBSET Accounts
  BY <1>3 DEF TargetLineage, WorkSound, Authority
<1>6. "canonical" \notin Lossy => \A l \in OwnedPrivateHomes(auth["canonical"].accounts) : bundles["canonical"][l] > 0
  <2>1. j.kind # "ordinary"
    BY <1>2
  <2> QED BY <2>1, RolesAre DEF MoveInv, AuthorityHasBundles, Roles
<1>7. CASE auth["canonical"] = j.target /\ Converge(EnsureTarget(j), TargetLineage(j.target))
  <2>1. /\ EnsureTarget(j) \in Bundles
        /\ \A l \in Owned : EnsureTarget(j)[l] = IF l \in j.displaced THEN 0 ELSE
             IF l \in j.copies THEN j.files[l] ELSE bundles["canonical"][l]
    BY <1>3, <1>4, AuthorityFacts DEF EnsureTarget, Without, Bundles, WorkSound
  <2>2. "canonical" \notin Lossy => \A l \in OwnedPrivateHomes(auth["canonical"].accounts) : EnsureTarget(j)[l] > 0
    BY <1>3, <1>6, <1>7, <2>1 DEF WorkSound, OwnedPrivateHomes
  <2> HIDE DEF j
  <2> QED BY <1>1, <1>5, <1>7, <2>1, <2>2, ConvergeKeeps
<1>8. CASE auth["canonical"] = j.base /\ Converge(RestoreBase(j), TargetLineage(j.base))
  <2>1. /\ RestoreBase(j) \in Bundles
        /\ \A l \in Owned : RestoreBase(j)[l] = IF l \in j.copies THEN j.before[l] ELSE bundles["canonical"][l]
    BY <1>3, <1>4 DEF RestoreBase, Bundles
  <2>2. "canonical" \notin Lossy => \A l \in OwnedPrivateHomes(auth["canonical"].accounts) : RestoreBase(j)[l] > 0
    BY <1>3, <1>6, <1>8, <2>1 DEF OwnedPrivateHomes
  <2> HIDE DEF j
  <2> QED BY <1>1, <1>5, <1>8, <2>1, <2>2, ConvergeKeeps
<1>9. CASE End /\ UNCHANGED <<bundles, lineage, journal>>
  BY <1>1, <1>9, AtRest, DiskStays DEF MoveInv, disk, End, ResolveLocationDivergence, CommandTyped
<1> QED BY <1>7, <1>8, <1>9 DEF ResolveLocationDivergence

-----------------------------------------------------------------------------
(* The other lifecycle commands.                                           *)

\* Nothing is at work.
LEMMA IdleStays == ASSUME op = Idle, UNCHANGED op PROVE LifecycleTyped' /\ WorkInv'
BY AtRest

LEMMA MigrateAccountsKeeps == ASSUME MoveInv, MigrateAccounts PROVE MoveInv'
<1> USE DEF MoveInv
<1>1. op = Idle /\ UNCHANGED <<bundles, lineage, journal, op, rt>>
  BY DEF MigrateAccounts
<1>2. LifecycleTyped' /\ WorkInv' /\ CommandTyped'
  BY <1>1, IdleStays DEF CommandTyped
<1>3. CASE auth' = [auth EXCEPT !["compatibility"].gen = "v2"] /\ UNCHANGED <<issued, newest>>
  <2>1. /\ auth' \in [LocationRole -> Authority] /\ auth'["canonical"] = auth["canonical"]
        /\ auth'["compatibility"].gen = "v2"
        /\ \A r \in LocationRole : auth'[r].accounts = auth[r].accounts
    BY <1>3, RolesAre DEF DiskTyped, Authority, Roles
  <2>2. DiskTyped'
    BY <1>1, <1>3, <2>1, RolesAre DEF DiskTyped, JournalSound
  <2>3. AuthorityHasBundles'
    BY <1>1, <2>1 DEF AuthorityHasBundles
  <2>4. NewestIsRetained'
    BY <1>1, <1>3, <2>1 DEF NewestIsRetained
  <2> QED BY <1>2, <2>2, <2>3, <2>4
<1>4. ASSUME NEW l \in Account \ Owned, issued[l] < MaxVersion,
             NEW version, version = [NoAccounts EXCEPT ![l] = issued[l] + 1],
             auth' = [auth EXCEPT !["canonical"] = VersionTwo(version)], newest' = Everywhere(version),
             issued' = [issued EXCEPT ![l] = @ + 1]
      PROVE  DiskTyped' /\ AuthorityHasBundles' /\ NewestIsRetained'
  <2>1. issued[l] + 1 \in Version
    BY <1>4 DEF DiskTyped, Accounts, Version
  <2>2. /\ version \in Accounts /\ issued' \in Accounts /\ OwnedPrivateHomes(version) = {}
        /\ \A k \in Account : version[k] \in Nat
    BY <1>4, <2>1, AuthorityFacts DEF Accounts, DiskTyped, OwnedPrivateHomes, NoAccounts
  <2>3. /\ auth' \in [LocationRole -> Authority] /\ auth'["compatibility"] = auth["compatibility"]
        /\ auth'["canonical"].gen = "v2" /\ auth'["canonical"].accounts = version
    BY <1>4, <2>2, AuthorityFacts, RolesAre DEF DiskTyped, VersionTwo, Roles
  <2>4. newest' \in [kept : Accounts, due : Accounts] /\ newest'.kept = version
    BY <1>4, <2>2 DEF Everywhere
  <2>5. DiskTyped'
    BY <1>1, <2>2, <2>3, <2>4, RolesAre DEF DiskTyped, JournalSound
  <2>6. AuthorityHasBundles'
    BY <1>1, <2>2, <2>3, RolesAre DEF AuthorityHasBundles
  <2>7. NewestIsRetained'
    BY <2>2, <2>3, <2>4, RolesAre DEF NewestIsRetained, Roles
  <2> QED BY <2>5, <2>6, <2>7
<1> QED BY <1>2, <1>3, <1>4 DEF MigrateAccounts

LEMMA RollbackInPlaceKeeps == ASSUME MoveInv, RollbackInPlace PROVE MoveInv'
<1> USE DEF MoveInv
<1>1. op = Idle /\ UNCHANGED <<bundles, journal, op, rt, issued, newest>>
  BY DEF RollbackInPlace
<1>2. LifecycleTyped' /\ WorkInv' /\ CommandTyped'
  BY <1>1, IdleStays DEF CommandTyped
<1>3. /\ auth' \in [LocationRole -> Authority] /\ auth'["canonical"] = auth["canonical"]
      /\ auth'["compatibility"].gen = "v0"
      /\ \A r \in LocationRole : auth'[r].accounts = auth[r].accounts
  BY RolesAre DEF DiskTyped, Authority, Roles, RollbackInPlace
<1>4. /\ lineage' \in [LocationRole -> SUBSET Accounts]
      /\ \A q \in LocationRole : lineage[q] \subseteq lineage'[q]
  BY RolesAre DEF DiskTyped, Authority, Roles, RollbackInPlace
<1>5. DiskTyped'
  BY <1>1, <1>3, <1>4, RolesAre DEF DiskTyped, JournalSound
<1>6. AuthorityHasBundles'
  BY <1>1, <1>3 DEF AuthorityHasBundles
<1>7. NewestIsRetained'
  BY <1>1, <1>3, <1>4 DEF NewestIsRetained
<1> QED BY <1>2, <1>5, <1>6, <1>7

LEMMA FullResetKeeps == ASSUME MoveInv, FullReset PROVE MoveInv'
<1> USE DEF MoveInv
<1>1. op = Idle /\ UNCHANGED <<journal, op, rt, issued>> /\ newest' = Everywhere(NoAccounts)
  BY DEF FullReset
<1>2. LifecycleTyped' /\ WorkInv' /\ CommandTyped'
  BY <1>1, IdleStays DEF CommandTyped
<1> DEFINE role == OperationRole(Now)
<1>3. /\ auth' = [auth EXCEPT ![role] = Absent]
      /\ bundles' = [bundles EXCEPT ![role] = [l \in Owned |-> 0]]
      /\ lineage' = [lineage EXCEPT ![role] = {}]
  BY DEF FullReset
<1> HIDE DEF role
<1>4. /\ auth' \in [LocationRole -> Authority]
      /\ \A r \in LocationRole : auth'[r] = IF r = role THEN Absent ELSE auth[r]
  BY <1>3, AuthorityFacts DEF DiskTyped
<1>5. /\ bundles' \in [LocationRole -> Bundles]
      /\ \A r \in LocationRole : r # role => bundles'[r] = bundles[r]
  BY <1>3, AuthorityFacts DEF DiskTyped, Bundles
<1>6. lineage' \in [LocationRole -> SUBSET Accounts]
  BY <1>3 DEF DiskTyped
<1>7. newest' \in [kept : Accounts, due : Accounts] /\ newest'.kept = NoAccounts
  BY <1>1, AuthorityFacts DEF Everywhere
<1>8. DiskTyped'
  BY <1>1, <1>4, <1>5, <1>6, <1>7, AuthorityFacts, RolesAre DEF DiskTyped, JournalSound, Roles
<1>9. AuthorityHasBundles'
  <2>1. OwnedPrivateHomes(Absent.accounts) = {}
    BY AuthorityFacts DEF OwnedPrivateHomes, NoAccounts
  <2> QED BY <1>1, <1>4, <1>5, <2>1 DEF AuthorityHasBundles
<1>10. NewestIsRetained'
  <2>1. \A l \in Account : newest'.kept[l] = 0
    BY <1>7 DEF NoAccounts
  <2>2. auth'["canonical"].accounts \in Accounts
    BY <1>4, RolesAre DEF Roles, Authority
  <2>3. \A l \in Account : auth'["canonical"].accounts[l] \in Nat
    BY <2>2, AuthorityFacts DEF Accounts
  <2> QED BY <2>1, <2>3, RolesAre DEF NewestIsRetained, Roles
<1> QED BY <1>2, <1>8, <1>9, <1>10

-----------------------------------------------------------------------------
(* Ordinary commands and interference.                                     *)

\* The credential of one account changes, with its bundle, in one location.
LEMMA AccountKeeps ==
  ASSUME MoveInv, UNCHANGED <<lineage, journal>>, NEW r \in LocationRole, NEW l \in Account,
         NEW v \in Version, NEW g \in {"v2", "v0"}, r = "canonical" => g = "v2",
         auth' = [auth EXCEPT ![r] = [gen |-> g, accounts |-> [@.accounts EXCEPT ![l] = v]]],
         bundles' = (IF l \in Owned THEN [bundles EXCEPT ![r][l] = v] ELSE bundles),
         newest' = Having(l, v), issued' \in Accounts
  PROVE  DiskTyped' /\ AuthorityHasBundles' /\ NewestIsRetained'
<1> USE DEF MoveInv
<1>1. /\ auth' \in [LocationRole -> Authority] /\ auth'[r].gen = g
      /\ \A k \in Account : auth'[r].accounts[k] = IF k = l THEN v ELSE auth[r].accounts[k]
      /\ \A q \in LocationRole : q # r => auth'[q] = auth[q]
  BY DEF DiskTyped, Authority, Accounts
<1>2. /\ bundles' \in [LocationRole -> Bundles]
      /\ \A k \in Owned : bundles'[r][k] = IF k = l THEN v ELSE bundles[r][k]
      /\ \A q \in LocationRole : q # r => bundles'[q] = bundles[q]
  BY DEF DiskTyped, Bundles
<1>3. /\ newest' \in [kept : Accounts, due : Accounts]
      /\ \A k \in Account : newest'.kept[k] = IF k = l THEN v ELSE newest.kept[k]
  BY DEF Having, DiskTyped, Accounts
<1>4. DiskTyped'
  BY <1>1, <1>2, <1>3 DEF DiskTyped, JournalSound
<1>5. AuthorityHasBundles'
  <2>1. Owned \subseteq Account
    BY SelectionAssumption
  <2>2. ASSUME NEW k \in OwnedPrivateHomes(auth'[r].accounts), r \notin Lossy
        PROVE  bundles'[r][k] > 0 \/ journal[r].kind = "ordinary"
    <3>1. k \in Owned /\ auth'[r].accounts[k] > 0
      BY <2>2 DEF OwnedPrivateHomes
    <3>2. CASE k = l
      BY <1>1, <1>2, <2>1, <3>1, <3>2
    <3>3. CASE k # l
      <4>1. k \in OwnedPrivateHomes(auth[r].accounts)
        BY <1>1, <2>1, <3>1, <3>3 DEF OwnedPrivateHomes
      <4> QED BY <1>2, <2>2, <3>1, <3>3, <4>1 DEF AuthorityHasBundles
    <3> QED BY <3>2, <3>3
  <2>3. ASSUME NEW q \in LocationRole \ Lossy, q # r, NEW k \in OwnedPrivateHomes(auth'[q].accounts)
        PROVE  bundles'[q][k] > 0 \/ journal[q].kind = "ordinary"
    BY <1>1, <1>2, <2>3 DEF AuthorityHasBundles
  <2> QED BY <2>2, <2>3 DEF AuthorityHasBundles
<1>6. NewestIsRetained'
  <2>1. ASSUME NEW k \in Account
        PROVE  \E q \in LocationRole : \/ auth'[q].accounts[k] >= newest'.kept[k]
                                       \/ \E s \in lineage[q] : s[k] >= newest'.kept[k]
    <3>1. CASE k = l
      <4>1. auth'[r].accounts[k] >= newest'.kept[k]
        BY <1>1, <1>3, <3>1, AuthorityFacts
      <4> QED BY <4>1
    <3>2. CASE k # l
      <4>1. PICK q \in LocationRole : \/ auth[q].accounts[k] >= newest.kept[k]
                                      \/ \E s \in lineage[q] : s[k] >= newest.kept[k]
        BY DEF NewestIsRetained
      <4>2. auth'[q].accounts[k] = auth[q].accounts[k]
        BY <1>1, <3>2
      <4> QED BY <1>3, <3>2, <4>1, <4>2
    <3> QED BY <3>1, <3>2
  <2> QED BY <2>1 DEF NewestIsRetained
<1> QED BY <1>4, <1>5, <1>6

\* Nothing has begun to work while an ordinary command has a location locked.
LEMMA NotAtWork ==
  ASSUME LifecycleTyped, ~ HoldsLocations, UNCHANGED op
  PROVE  LifecycleTyped' /\ WorkInv'
<1>1. LifecycleTyped'
  BY DEF LifecycleTyped
<1>2. op'.pc \in {"idle", "preview"}
  BY DEF HoldsLocations
<1> QED BY <1>1, <1>2 DEF WorkInv, Working

LEMMA NoCommand == ASSUME rt' = Resting PROVE CommandTyped'
BY DEF Resting, CommandTyped

LEMMA ComposeKeeps == ASSUME MoveInv, NEW l \in Account, ComposeAppContext(l) PROVE MoveInv'
<1> USE DEF MoveInv
<1>1. DiskTyped' /\ AuthorityHasBundles' /\ NewestIsRetained'
  BY DiskStays DEF ComposeAppContext
<1>2. LifecycleTyped' /\ WorkInv'
  <2>1. UNCHANGED <<op, lineage, journal, auth, bundles>>
    BY DEF ComposeAppContext, disk
  <2> QED BY <2>1, WorkStays
<1>3. CommandTyped'
  <2> DEFINE role == ReadyRole(Now)
  <2>1. role \in LocationRole /\ (role = "compatibility" => auth["compatibility"].gen = "v2")
    BY ReadyIs DEF ComposeAppContext
  <2>2. rt' = [pc |-> "loaded", role |-> role, label |-> l, gen |-> auth[role].gen,
               base |-> auth[role].accounts[l]]
    BY DEF ComposeAppContext
  <2> HIDE DEF role
  <2>3. auth[role].accounts[l] \in Version
    BY <2>1 DEF DiskTyped, Authority, Accounts
  <2> QED BY <2>1, <2>2, <2>3 DEF CommandTyped
<1> QED BY <1>1, <1>2, <1>3

\* The next credential of an account.
LEMMA NextCredential ==
  ASSUME DiskTyped, NEW l \in Account, issued[l] < MaxVersion
  PROVE  /\ issued[l] + 1 \in Version /\ issued[l] \in Nat
         /\ [issued EXCEPT ![l] = @ + 1] \in Accounts
BY DEF DiskTyped, Accounts, Version

LEMMA UpdateKeeps == ASSUME MoveInv, UpdateAccount PROVE MoveInv'
<1> USE DEF MoveInv
<1> DEFINE l == rt.label
<1>1. l \in Account /\ rt.role \in LocationRole
  BY DEF UpdateAccount, CommandTyped
<1>2. /\ issued[l] < MaxVersion /\ issued' = [issued EXCEPT ![l] = @ + 1]
      /\ newest' = Having(l, issued[l] + 1) /\ UNCHANGED <<lineage, journal, op>>
      /\ auth' = Committed(l, issued[l] + 1) /\ bundles' = Bundled(l, issued[l] + 1)
      /\ rt' = Resting /\ ~ HoldsLocations
  BY DEF UpdateAccount, Unchanged
<1>3. issued[l] + 1 \in Version /\ issued' \in Accounts
  BY <1>1, <1>2, NextCredential
<1> HIDE DEF l
<1>4. DiskTyped' /\ AuthorityHasBundles' /\ NewestIsRetained'
  <2>1. auth' = [auth EXCEPT ![rt.role] = [gen |-> "v2", accounts |-> [@.accounts EXCEPT ![l] = issued[l] + 1]]]
    BY <1>2 DEF Committed, VersionTwo
  <2>2. bundles' = IF l \in Owned THEN [bundles EXCEPT ![rt.role][l] = issued[l] + 1] ELSE bundles
    BY <1>2 DEF Bundled
  <2> DEFINE v == issued[l] + 1
  <2>3. v \in Version
    BY <1>3
  <2> HIDE DEF v
  <2> QED BY <1>1, <1>2, <1>3, <2>1, <2>2, <2>3, AccountKeeps DEF v
<1> QED BY <1>2, <1>4, NoCommand, NotAtWork

LEMMA RemoveKeeps == ASSUME MoveInv, RemoveAccount PROVE MoveInv'
<1> USE DEF MoveInv
<1> DEFINE l == rt.label
<1>1. l \in Account /\ rt.role \in LocationRole
  BY DEF RemoveAccount, CommandTyped
<1>2. /\ newest' = Having(l, 0) /\ UNCHANGED <<lineage, journal, op, issued>>
      /\ auth' = Committed(l, 0) /\ bundles' = Bundled(l, 0)
      /\ rt' = Resting /\ ~ HoldsLocations
  BY DEF RemoveAccount, Unchanged
<1> HIDE DEF l
<1>3. DiskTyped' /\ AuthorityHasBundles' /\ NewestIsRetained'
  <2>1. auth' = [auth EXCEPT ![rt.role] = [gen |-> "v2", accounts |-> [@.accounts EXCEPT ![l] = 0]]]
    BY <1>2 DEF Committed, VersionTwo
  <2>2. bundles' = IF l \in Owned THEN [bundles EXCEPT ![rt.role][l] = 0] ELSE bundles
    BY <1>2 DEF Bundled
  <2>3. issued' \in Accounts
    BY <1>2 DEF DiskTyped
  <2> QED BY <1>1, <1>2, <2>1, <2>2, <2>3, AuthorityFacts, AccountKeeps
<1> QED BY <1>2, <1>3, NoCommand, NotAtWork

LEMMA GiveUpKeeps == ASSUME MoveInv, GiveUp PROVE MoveInv'
<1> USE DEF MoveInv
<1>1. DiskTyped' /\ AuthorityHasBundles' /\ NewestIsRetained'
  BY DiskStays DEF GiveUp
<1> QED BY <1>1, NoCommand, NotAtWork DEF GiveUp

LEMMA LegacyWriteKeeps == ASSUME MoveInv, NEW l \in Account, LegacyWrite(l) PROVE MoveInv'
<1> USE DEF MoveInv
<1>1. /\ issued[l] < MaxVersion /\ issued' = [issued EXCEPT ![l] = @ + 1]
      /\ newest' = Having(l, issued[l] + 1) /\ UNCHANGED <<lineage, journal, op, rt>>
  BY DEF LegacyWrite
<1>2. issued[l] + 1 \in Version /\ issued' \in Accounts
  BY <1>1, NextCredential
<1> DEFINE v == issued[l] + 1
           c == "compatibility"
<1>3. auth' = [auth EXCEPT ![c] = [gen |-> "v0", accounts |-> [@.accounts EXCEPT ![l] = v]]]
  BY DEF LegacyWrite, GenerationZero
<1>4. bundles' = IF l \in Owned THEN [bundles EXCEPT ![c][l] = v] ELSE bundles
  BY DEF LegacyWrite
<1>5. c \in LocationRole /\ c # "canonical"
  BY RolesAre DEF Roles
<1>6. v \in Version /\ v > 0
  BY <1>1, <1>2, NextCredential
<1>7. newest' = Having(l, v)
  BY <1>1
<1> HIDE DEF v
<1>8. DiskTyped' /\ AuthorityHasBundles' /\ NewestIsRetained'
  BY <1>1, <1>2, <1>3, <1>4, <1>5, <1>6, <1>7, AccountKeeps
<1>9. LifecycleTyped' /\ WorkInv'
  <2>1. auth'["canonical"] = auth["canonical"]
    BY <1>3 DEF DiskTyped
  <2>2. \A r \in LocationRole, k \in Owned : bundles[r][k] > 0 => bundles'[r][k] > 0
    <3>1. CASE l \in Owned
      BY <1>4, <1>5, <1>6, <3>1 DEF DiskTyped, Bundles
    <3>2. CASE l \notin Owned
      BY <1>4, <3>2
    <3> QED BY <3>1, <3>2
  <2> QED BY <1>1, <2>1, <2>2, WorkStays
<1>10. CommandTyped'
  BY <1>1 DEF CommandTyped
<1> QED BY <1>8, <1>9, <1>10

\* Only bundles change, and only one goes: of a location whose bundles may.
LEMMA BundlesKeep ==
  ASSUME MoveInv, UNCHANGED <<auth, lineage, journal, op, rt, issued, newest>>,
         bundles' \in [LocationRole -> Bundles],
         \A r \in LocationRole \ Lossy : \A l \in Owned : bundles[r][l] > 0 => bundles'[r][l] > 0
  PROVE  MoveInv'
<1> USE DEF MoveInv
<1>1. DiskTyped'
  BY DEF DiskTyped, JournalSound
<1>2. AuthorityHasBundles'
  BY DEF AuthorityHasBundles, OwnedPrivateHomes
<1>3. NewestIsRetained'
  BY DEF NewestIsRetained
<1>4. LifecycleTyped' /\ WorkInv'
  BY WorkStays
<1>5. CommandTyped'
  BY DEF CommandTyped
<1> QED BY <1>1, <1>2, <1>3, <1>4, <1>5

LEMMA LegacyBundleKeeps == ASSUME MoveInv, NEW l \in Owned, LegacyBundle(l) PROVE MoveInv'
<1>1. issued[l] + 1 \in Version /\ issued[l] \in Nat
  BY NextCredential, SelectionAssumption DEF LegacyBundle, MoveInv
<1>2. bundles' = [bundles EXCEPT !["compatibility"][l] = issued[l] + 1]
  BY DEF LegacyBundle
<1>3. /\ bundles' \in [LocationRole -> Bundles]
      /\ \A r \in LocationRole, k \in Owned : bundles[r][k] > 0 => bundles'[r][k] > 0
  BY <1>1, <1>2, RolesAre DEF MoveInv, DiskTyped, Bundles, Roles
<1> QED BY <1>3, BundlesKeep DEF LegacyBundle

LEMMA LoseBundleKeeps ==
  ASSUME MoveInv, NEW r \in LocationRole, NEW l \in Owned, LoseBundle(r, l) PROVE MoveInv'
<1>1. bundles' = [bundles EXCEPT ![r][l] = 0] /\ r \in Lossy
  BY DEF LoseBundle
<1>2. /\ bundles' \in [LocationRole -> Bundles]
      /\ \A q \in LocationRole \ Lossy : bundles'[q] = bundles[q]
  BY <1>1, AuthorityFacts DEF MoveInv, DiskTyped, Bundles
<1> QED BY <1>2, BundlesKeep DEF LoseBundle

LEMMA UpdateDiesKeeps == ASSUME MoveInv, UpdateDies PROVE MoveInv'
<1> USE DEF MoveInv
<1> DEFINE l == rt.label
           r == rt.role
           j == [kind |-> "ordinary"]
<1>1. l \in Account /\ r \in LocationRole /\ l \in Owned
  BY DEF UpdateDies, CommandTyped
<1>2. /\ issued[l] < MaxVersion /\ issued' = [issued EXCEPT ![l] = @ + 1]
      /\ journal' = [journal EXCEPT ![r] = j]
      /\ UNCHANGED <<lineage, op>> /\ rt' = Resting /\ ~ HoldsLocations
      /\ bundles' \in {bundles, Bundled(l, issued[l] + 1)}
      /\ \/ auth' = auth /\ newest' = newest
         \/ auth' = Committed(l, issued[l] + 1) /\ newest' = Having(l, issued[l] + 1)
  BY DEF UpdateDies, Unchanged
<1>3. issued[l] + 1 \in Version /\ issued' \in Accounts
  BY <1>1, <1>2, NextCredential
<1> DEFINE v == issued[l] + 1
<1>13. v \in Version
  BY <1>3
<1>11. bundles' = bundles \/ bundles' = Bundled(l, v)
  BY <1>2
<1>12. \/ auth' = auth /\ newest' = newest
       \/ auth' = Committed(l, v) /\ newest' = Having(l, v)
  BY <1>2
<1> HIDE DEF l, r, v
<1>10. v \in Version /\ v \in Nat /\ v >= v
  BY <1>13, AuthorityFacts
<1>4. bundles' \in [LocationRole -> Bundles] /\ \A q \in LocationRole : q # r => bundles'[q] = bundles[q]
  <2>1. Bundled(l, v) = [bundles EXCEPT ![r][l] = v]
    BY <1>1 DEF Bundled, r
  <2>2. bundles \in [LocationRole -> [Owned -> Version]]
    BY DEF DiskTyped, Bundles
  <2>3. CASE bundles' = bundles
    BY <2>2, <2>3 DEF Bundles
  <2>4. CASE bundles' = [bundles EXCEPT ![r][l] = v]
    BY <1>1, <1>10, <2>2, <2>4 DEF Bundles
  <2> QED BY <1>11, <2>1, <2>3, <2>4
<1>5. /\ j.kind = "ordinary" /\ DOMAIN journal' = LocationRole
      /\ journal' = [q \in LocationRole |-> journal'[q]]
      /\ journal'[r] = j /\ \A q \in LocationRole : q # r => journal'[q] = journal[q]
  BY <1>1, <1>2 DEF DiskTyped
<1> HIDE DEF j
<1>6. /\ auth' \in [LocationRole -> Authority] /\ newest' \in [kept : Accounts, due : Accounts]
      /\ \A q \in LocationRole : q # r => auth'[q] = auth[q]
      /\ \A q \in LocationRole : auth'[q].gen = "absent" => auth'[q].accounts = NoAccounts
      /\ auth'["canonical"].gen # "v0"
      /\ \A k \in Account : \A q \in LocationRole :
           auth[q].accounts[k] >= newest.kept[k] =>
             \E p \in LocationRole : auth'[p].accounts[k] >= newest'.kept[k]
      /\ \A k \in Account : newest'.kept[k] = newest.kept[k] \/ auth'[r].accounts[k] >= newest'.kept[k]
  <2>1. CASE auth' = auth /\ newest' = newest
    BY <2>1 DEF DiskTyped
  <2>2. CASE auth' = Committed(l, v) /\ newest' = Having(l, v)
    <3>1. auth' = [auth EXCEPT ![r] = [gen |-> "v2", accounts |-> [@.accounts EXCEPT ![l] = v]]]
      BY <2>2 DEF Committed, VersionTwo, r
    <3>2. /\ auth' \in [LocationRole -> Authority] /\ auth'[r].gen = "v2"
          /\ \A k \in Account : auth'[r].accounts[k] = IF k = l THEN v ELSE auth[r].accounts[k]
          /\ \A q \in LocationRole : q # r => auth'[q] = auth[q]
      BY <1>1, <1>10, <3>1 DEF DiskTyped, Authority, Accounts
    <3>3. /\ newest' \in [kept : Accounts, due : Accounts]
          /\ \A k \in Account : newest'.kept[k] = IF k = l THEN v ELSE newest.kept[k]
      BY <1>1, <1>10, <2>2 DEF Having, DiskTyped, Accounts
    <3>5. ASSUME NEW k \in Account, NEW q \in LocationRole, auth[q].accounts[k] >= newest.kept[k]
          PROVE  \E p \in LocationRole : auth'[p].accounts[k] >= newest'.kept[k]
      <4>1. CASE k = l
        BY <1>1, <1>10, <3>2, <3>3, <4>1
      <4>2. CASE k # l
        <5>1. auth'[q].accounts[k] >= newest'.kept[k]
          BY <3>2, <3>3, <3>5, <4>2
        <5> QED BY <5>1
      <4> QED BY <4>1, <4>2
    <3>6. \A k \in Account : newest'.kept[k] = newest.kept[k] \/ auth'[r].accounts[k] >= newest'.kept[k]
      BY <1>10, <3>2, <3>3
    <3>7. /\ \A q \in LocationRole : auth'[q].gen = "absent" => auth'[q].accounts = NoAccounts
          /\ auth'["canonical"].gen # "v0"
      BY <1>1, <3>2, RolesAre DEF DiskTyped, Roles
    <3> QED BY <3>2, <3>3, <3>5, <3>6, <3>7
  <2> QED BY <1>12, <2>1, <2>2
<1>7. DiskTyped'
  <2>1. \A q \in LocationRole : JournalSound(q)'
    BY <1>5 DEF DiskTyped, JournalSound
  <2> QED BY <1>2, <1>3, <1>4, <1>5, <1>6, <2>1 DEF DiskTyped
<1>8. AuthorityHasBundles'
  BY <1>4, <1>5, <1>6 DEF AuthorityHasBundles
<1>9. NewestIsRetained'
  <2>1. ASSUME NEW k \in Account
        PROVE  \E q \in LocationRole : \/ auth'[q].accounts[k] >= newest'.kept[k]
                                       \/ \E s \in lineage[q] : s[k] >= newest'.kept[k]
    <3>1. CASE auth'[r].accounts[k] >= newest'.kept[k]
      BY <1>1, <3>1
    <3>2. CASE newest'.kept[k] = newest.kept[k]
      <4>1. PICK q \in LocationRole : \/ auth[q].accounts[k] >= newest.kept[k]
                                      \/ \E s \in lineage[q] : s[k] >= newest.kept[k]
        BY DEF NewestIsRetained
      <4> QED BY <1>6, <3>2, <4>1
    <3> QED BY <1>6, <3>1, <3>2
  <2> QED BY <1>2, <2>1 DEF NewestIsRetained
<1> QED BY <1>2, <1>7, <1>8, <1>9, NoCommand, NotAtWork

LEMMA CommandDiesKeeps == ASSUME MoveInv, CommandDies PROVE MoveInv'
<1> USE DEF MoveInv
<1>1. op' = Idle /\ UNCHANGED <<auth, bundles, lineage, rt, issued, newest>>
  BY DEF CommandDies, End
<1>2. LifecycleTyped' /\ WorkInv' /\ CommandTyped'
  BY <1>1, AtRest DEF CommandTyped
<1>3. CASE UNCHANGED journal
  BY <1>1, <1>2, <1>3, DiskStays DEF CommandDies, disk
<1>4. CASE /\ op.pc = "journal" /\ journal[op.to] = NoJournal
           /\ journal' = [journal EXCEPT ![op.to] = [kind |-> "empty"]]
  <2> DEFINE j == [kind |-> "empty"]
  <2>1. op.to \in LocationRole
    BY <1>4, RolesAre DEF LifecycleTyped, Roles
  <2>2. journal[op.to].kind = "none" /\ j.kind = "empty"
    BY <1>4 DEF NoJournal
  <2>3. DiskTyped' /\ AuthorityHasBundles' /\ NewestIsRetained'
    BY <1>1, <1>4, <2>1, <2>2, JournalGone
  <2> QED BY <1>2, <2>3
<1> QED BY <1>3, <1>4 DEF CommandDies

-----------------------------------------------------------------------------
(* The invariant of a move.                                                *)

LEMMA MoveInvInit == Init => MoveInv
<1> SUFFICES ASSUME Init PROVE MoveInv
  OBVIOUS
<1>1. PICK a, b \in [Account -> {0, 1}], gen \in {"v2", "v0"} :
        LET Doc(d, g) == IF d = NoAccounts THEN Absent ELSE [gen |-> g, accounts |-> d]
            Held(d) == [l \in Owned |-> d[l]]
            seen == [l \in Account |-> IF a[l] + b[l] > 0 THEN 1 ELSE 0]
        IN /\ a = NoAccounts => gen = "v2"
           /\ auth = Both(Doc(a, gen), Doc(b, "v2"))
           /\ bundles = Both(Held(a), Held(b))
           /\ lineage = Both({}, {})
           /\ journal = Both(NoJournal, NoJournal)
           /\ prototype \in IF a = NoAccounts THEN Prototypes ELSE {"EMPTY"}
           /\ op = Idle /\ rt = Resting
           /\ issued = seen /\ newest = Everywhere(seen)
           /\ updates = 0 /\ faults = 0
  BY Zenon DEF Init
<1> DEFINE Doc(d, g) == IF d = NoAccounts THEN Absent ELSE [gen |-> g, accounts |-> d]
           seen == [l \in Account |-> IF a[l] + b[l] > 0 THEN 1 ELSE 0]
           heldA == [l \in Owned |-> a[l]]
           heldB == [l \in Owned |-> b[l]]
<1>2. /\ a \in Accounts /\ b \in Accounts /\ seen \in Accounts
      /\ heldA \in Bundles /\ heldB \in Bundles
  <2>1. 0 \in Version /\ 1 \in Version
    BY SelectionAssumption DEF Version
  <2> QED BY <2>1, SelectionAssumption DEF Accounts, Bundles
<1>3. \A l \in Owned : l \in Account
  BY SelectionAssumption
<1>4. /\ Doc(a, gen) \in Authority /\ Doc(b, "v2") \in Authority
      /\ Doc(a, gen).accounts = a /\ Doc(b, "v2").accounts = b
      /\ Doc(a, gen).gen = "absent" => a = NoAccounts
      /\ Doc(b, "v2").gen = "absent" => b = NoAccounts
      /\ Doc(b, "v2").gen # "v0"
  BY <1>2, AuthorityFacts DEF Authority
<1> DEFINE A == Doc(a, gen)
           B == Doc(b, "v2")
<1>5. /\ A \in Authority /\ B \in Authority /\ A.accounts = a /\ B.accounts = b
      /\ A.gen = "absent" => a = NoAccounts
      /\ B.gen = "absent" => b = NoAccounts
      /\ B.gen # "v0"
  BY <1>4
<1>6. /\ auth = [r \in LocationRole |-> IF r = "canonical" THEN B ELSE A]
      /\ bundles = [r \in LocationRole |-> IF r = "canonical" THEN heldB ELSE heldA]
      /\ lineage = [r \in LocationRole |-> {}] /\ journal = [r \in LocationRole |-> NoJournal]
      /\ op = Idle /\ rt = Resting /\ issued = seen /\ newest.kept = seen
      /\ newest = [kept |-> seen, due |-> seen]
  BY <1>1 DEF Both, Everywhere
<1>7. /\ \A l \in Owned : heldA[l] = a[l] /\ heldB[l] = b[l]
      /\ \A l \in Account : seen[l] <= a[l] \/ seen[l] <= b[l]
  OBVIOUS
<1> HIDE DEF Doc, A, B, seen, heldA, heldB
<1>8. DiskTyped
  <2>1. \A r \in LocationRole : JournalSound(r)
    BY <1>6 DEF JournalSound, NoJournal
  <2>2. /\ auth \in [LocationRole -> Authority] /\ bundles \in [LocationRole -> Bundles]
        /\ lineage \in [LocationRole -> SUBSET Accounts]
        /\ DOMAIN journal = LocationRole /\ journal = [r \in LocationRole |-> journal[r]]
    BY <1>2, <1>5, <1>6
  <2>3. /\ \A r \in LocationRole : auth[r].gen = "absent" => auth[r].accounts = NoAccounts
        /\ auth["canonical"].gen # "v0"
    BY <1>5, <1>6, RolesAre DEF Roles
  <2>4. issued \in Accounts /\ newest \in [kept : Accounts, due : Accounts]
    BY <1>2, <1>6
  <2> QED BY <2>1, <2>2, <2>3, <2>4 DEF DiskTyped
<1>9. AuthorityHasBundles
  <2>1. \A r \in LocationRole : \A l \in OwnedPrivateHomes(auth[r].accounts) : bundles[r][l] = auth[r].accounts[l]
    BY <1>5, <1>6, <1>7, RolesAre DEF OwnedPrivateHomes
  <2> QED BY <2>1 DEF AuthorityHasBundles, OwnedPrivateHomes
<1>10. NewestIsRetained
  <2>1. \A l \in Account : seen[l] \in Nat /\ a[l] \in Nat /\ b[l] \in Nat
    BY <1>2, AuthorityFacts DEF Accounts
  <2>2. auth["canonical"].accounts = b /\ auth["compatibility"].accounts = a
    BY <1>5, <1>6, RolesAre DEF Roles
  <2> QED BY <1>6, <1>7, <2>1, <2>2, RolesAre DEF NewestIsRetained, Roles
<1>11. CommandTyped
  BY <1>6 DEF CommandTyped, Resting
<1>12. op.pc = "idle" /\ "pc" \in DOMAIN op
  BY <1>6 DEF Idle
<1>13. LifecycleTyped /\ WorkInv
  BY <1>12 DEF LifecycleTyped, WorkInv, Working
<1> QED BY <1>8, <1>9, <1>10, <1>11, <1>13 DEF MoveInv

LEMMA MoveInvStep == MoveInv /\ [Next]_vars => MoveInv'
<1> SUFFICES ASSUME MoveInv, [Next]_vars PROVE MoveInv'
  OBVIOUS
<1>1. CASE UNCHANGED vars
  <2>1. UNCHANGED <<disk, op, rt, issued, newest>> /\ UNCHANGED <<auth, bundles, lineage, journal, op>>
    BY <1>1 DEF vars, disk
  <2>2. DiskTyped' /\ AuthorityHasBundles' /\ NewestIsRetained'
    BY <2>1, DiskStays DEF MoveInv
  <2>3. WorkInv' /\ LifecycleTyped'
    BY <2>1, WorkStays DEF MoveInv
  <2> QED BY <2>1, <2>2, <2>3 DEF MoveInv, CommandTyped
<1>2. CASE \E replace \in BOOLEAN : BeginMigrate(replace)
  BY <1>2, BeginMigrateKeeps
<1>3. CASE BeginRollback \/ HoldLocationState \/ Refuse \/ RecoverLocationTransaction
  BY <1>3, BeginRollbackKeeps, HoldKeeps, RefuseKeeps, RecoverKeeps
<1>4. CASE PrepareLocationWork \/ PrepareNativeRollback \/ TakeSourceGuard \/ PublishSnapshots
  BY <1>4, PrepareMoveKeeps, PrepareRollbackKeeps, TakeGuardKeeps, PublishKeeps
<1>5. CASE WriteJournal \/ CopyBundle \/ CommitAuthority \/ RetireDisplaced
  BY <1>5, WriteJournalKeeps, CopyKeeps, CommitKeeps, RetireKeeps
<1>6. CASE CleanupTransaction \/ ResolveLocationDivergence
  BY <1>6, CleanupKeeps, ResolveKeeps
<1>7. CASE MigrateAccounts \/ RollbackInPlace \/ FullReset
  BY <1>7, MigrateAccountsKeeps, RollbackInPlaceKeeps, FullResetKeeps
<1>8. CASE \E l \in Account : ComposeAppContext(l)
  BY <1>8, ComposeKeeps
<1>9. CASE UpdateAccount \/ RemoveAccount \/ GiveUp \/ UpdateDies \/ CommandDies
  BY <1>9, UpdateKeeps, RemoveKeeps, GiveUpKeeps, UpdateDiesKeeps, CommandDiesKeeps
<1>10. CASE \E l \in Account : LegacyWrite(l)
  BY <1>10, LegacyWriteKeeps
<1>11. CASE \E l \in Owned : LegacyBundle(l)
  BY <1>11, LegacyBundleKeeps
<1>12. CASE \E r \in LocationRole, l \in Owned : LoseBundle(r, l)
  BY <1>12, LoseBundleKeeps
<1> QED BY <1>1, <1>2, <1>3, <1>4, <1>5, <1>6, <1>7, <1>8, <1>9, <1>10, <1>11, <1>12 DEF Next

(* Every step of migrate_locations, of the rollback, of the other lifecycle*)
(* commands and of all that interferes keeps the invariant                 *)
(* (persistence/migrations/service.py, credential_transactions.py).         *)
THEOREM MoveInvariance == Spec => []MoveInv
<1>1. Init => MoveInv
  BY MoveInvInit
<1>2. MoveInv /\ [Next]_vars => MoveInv'
  BY MoveInvStep
<1> QED BY <1>1, <1>2, PTL DEF Spec

(* commit_migration copies the bundles before the authority and retires    *)
(* only what the new document does not name, and both ways out of a        *)
(* divergence restore what they took: no document names a bundle that is   *)
(* not there.                                                              *)
THEOREM AuthorityHasBundlesHolds == Spec => []AuthorityHasBundles
<1>1. MoveInv => AuthorityHasBundles
  BY DEF MoveInv
<1> QED BY <1>1, MoveInvariance, PTL

(* publish_immutable comes before every replacement of a document: the     *)
(* newest credential is never only in what is being replaced.              *)
THEOREM NewestIsRetainedHolds == Spec => []NewestIsRetained
<1>1. MoveInv => NewestIsRetained
  BY DEF MoveInv
<1> QED BY <1>1, MoveInvariance, PTL

-----------------------------------------------------------------------------
(* The location in use holds what is due, where the bundles of the native  *)
(* location are not deleted by hand.                                       *)

LEMMA Numbers ==
  ASSUME MoveInv, NEW l \in Account
  PROVE  /\ Released(l) \in Nat /\ Native(l) \in Nat /\ issued[l] \in Nat /\ newest.due[l] \in Nat
         /\ \A s \in lineage["canonical"] : s[l] \in Nat
         /\ op.pc # "idle" => op.seen.accounts[l] \in Nat
         /\ op.pc \in Working => op.work.target.accounts[l] \in Nat
<1>1. \A a \in Accounts : a[l] \in Nat
  BY AuthorityFacts DEF Accounts
<1>2. /\ auth["compatibility"].accounts \in Accounts /\ auth["canonical"].accounts \in Accounts
      /\ issued \in Accounts /\ newest.due \in Accounts /\ lineage["canonical"] \subseteq Accounts
  BY RolesAre DEF MoveInv, DiskTyped, Authority, Roles
<1>3. op.pc # "idle" => op.seen.accounts \in Accounts
  BY DEF MoveInv, LifecycleTyped, Authority
<1>4. op.pc \in Working => op.work.target.accounts \in Accounts
  BY DEF MoveInv, WorkInv, WorkSound, Authority
<1> QED BY <1>1, <1>2, <1>3, <1>4 DEF Released, Native

\* Where a location is not there.
LEMMA EmptyIs ==
  ASSUME MoveInv, NEW r \in LocationRole, AssessmentCode(View, r) = "EMPTY"
  PROVE  auth[r] = Absent /\ auth[r].accounts = NoAccounts
<1>1. auth[r].gen = "absent" /\ auth[r] \in Authority
  BY CodeIs DEF MoveInv, DiskTyped, Authority
<1>2. auth[r].accounts = NoAccounts
  BY <1>1 DEF MoveInv, DiskTyped
<1> QED BY <1>1, <1>2 DEF Absent, Authority

LEMMA PreparedIs ==
  ASSUME MoveInv, NEW r \in LocationRole, AuthorityCandidate(View, r).prepared
  PROVE  /\ auth[r] # Absent
         /\ AuthorityCandidate(View, r).account = auth[r].accounts
         /\ AuthorityCandidate(View, r).lineage = lineage[r]
<1>1. auth[r].gen \in {"absent", "v2", "v0"}
  BY DEF MoveInv, DiskTyped, Authority
<1>2. /\ AuthorityCandidate(View, r).account = auth[r].accounts
      /\ AuthorityCandidate(View, r).lineage = lineage[r] /\ AssessmentCode(View, r) = "CURRENT"
  BY CandidateIs
<1> QED BY <1>1, <1>2, CodeIs DEF Absent

\* The native location has what is due when it is selected.
LEMMA NativeIsDue ==
  ASSUME MoveInv, Due, IsCompleted(Now)
  PROVE  auth["canonical"] # Absent /\ \A l \in Account : Native(l) >= newest.due[l]
<1> DEFINE C == AuthorityCandidate(View, "compatibility")
           N == AuthorityCandidate(View, "canonical")
<1>1. /\ N.prepared
      /\ \/ C.code = "EMPTY"
         \/ C.prepared /\ (C.account \in N.lineage \/ C.account = N.account)
  BY SelectionIs DEF IsCompleted
<1>2. /\ auth["canonical"] # Absent /\ N.account = auth["canonical"].accounts /\ N.lineage = lineage["canonical"]
      /\ C.prepared => C.account = auth["compatibility"].accounts
  BY <1>1, PreparedIs, RolesAre DEF Roles
<1>3. C.code = AssessmentCode(View, "compatibility")
  BY CandidateIs, RolesAre DEF Roles
<1>4. CASE C.code = "EMPTY"
  <2>1. auth["compatibility"] = Absent
    BY <1>3, <1>4, EmptyIs, RolesAre DEF Roles
  <2> QED BY <1>2, <2>1 DEF Due
<1> HIDE DEF C, N
<1>5. CASE C.prepared /\ (C.account \in N.lineage \/ C.account = N.account)
  <2>1. \A l \in Account : ~ Apart(l)
    BY <1>2, <1>5 DEF Apart, Released, Native
  <2> QED BY <1>2, <2>1 DEF Due
<1> QED BY <1>1, <1>4, <1>5

\* So does the released one.
LEMMA ReleasedIsDue ==
  ASSUME MoveInv, Due, Now.code = "compatibility_selected"
  PROVE  \A l \in Account : Released(l) >= newest.due[l]
<1>1. AuthorityCandidate(View, "canonical").code = "EMPTY"
  BY SelectionIs
<1>2. AssessmentCode(View, "canonical") = "EMPTY"
  BY <1>1, CandidateIs, RolesAre DEF Roles
<1>3. auth["canonical"] = Absent
  BY <1>2, EmptyIs, RolesAre DEF Roles
<1> QED BY <1>3 DEF Due

LEMMA SelectedHasDue == ASSUME MoveInv, Due PROVE SelectedIsNewest
<1> SUFFICES ASSUME IsReadySelection(Now), NEW l \in Account
             PROVE  auth[ReadyRole(Now)].accounts[l] >= newest.due[l]
  BY DEF SelectedIsNewest
<1> DEFINE C == AuthorityCandidate(View, "compatibility")
           N == AuthorityCandidate(View, "canonical")
<1>1. CASE IsCompleted(Now)
  <2>1. Now.role = "canonical"
    BY <1>1, SelectionIs DEF IsCompleted
  <2> QED BY <1>1, <2>1, NativeIsDue DEF ReadyRole, Native
<1>2. CASE Now.code = "compatibility_selected"
  <2>1. Now.role = "compatibility"
    BY <1>2, SelectionIs
  <2> QED BY <1>2, <2>1, ReleasedIsDue DEF ReadyRole, Released
<1>3. CASE Now.code = "empty"
  <2>1. Now.role = "canonical" /\ C.code = "EMPTY"
    BY <1>3, SelectionIs
  <2>2. AssessmentCode(View, "compatibility") = "EMPTY"
    BY <2>1, CandidateIs, RolesAre DEF Roles
  <2>3. auth["compatibility"] = Absent
    BY <2>2, EmptyIs, RolesAre DEF Roles
  <2> QED BY <2>1, <2>3 DEF Due, ReadyRole, Native
<1> QED BY <1>1, <1>2, <1>3 DEF IsReadySelection, IsCompleted

-----------------------------------------------------------------------------
(* What an action leaves as due.                                           *)

\* A location may retain its own document besides.
LEMMA DueStays ==
  ASSUME Stored, Due, UNCHANGED <<auth, newest, issued>>,
         \A s \in lineage'["canonical"] : s \in lineage["canonical"] \/ s = auth["canonical"].accounts
  PROVE  Stored' /\ Due' /\ \A l \in Account : Apart(l) => Apart(l)'
<1>1. \A l \in Account : Released(l)' = Released(l) /\ Native(l)' = Native(l)
  BY DEF Released, Native
<1>2. \A l \in Account : Apart(l) => Apart(l)'
  BY <1>1 DEF Apart, Native
<1>3. Stored'
  BY <1>1 DEF Stored, Native
<1>4. Due'
  BY <1>1, <1>2 DEF Due
<1> QED BY <1>2, <1>3, <1>4

\* The command goes on with what it has, or a move that has committed goes back.
LEMMA WorkDueStays ==
  ASSUME Carried, MoveDue, RollbackDue, UNCHANGED <<auth, newest, issued>>,
         \A l \in Account : Apart(l) => Apart(l)',
         op.pc # "idle", op'.pc # "idle",
         op'.kind = op.kind, op'.seen = op.seen, op'.replace = op.replace,
         op'.pc \in Working => op.pc \in Working /\ op'.work = op.work,
         op.pc \in {"retire", "cleanup"} =>
           op'.pc \in {"retire", "cleanup"} \/ (op.kind = "migrate" /\ op'.pc \notin Working)
  PROVE  Carried' /\ MoveDue' /\ RollbackDue'
<1>1. \A l \in Account : Released(l)' = Released(l) /\ Native(l)' = Native(l)
  BY DEF Released, Native
<1>2. Carried'
  BY DEF Carried
<1>3. MoveDue'
  BY <1>1 DEF MoveDue
<1>4. RollbackDue'
  BY <1>1 DEF RollbackDue
<1> QED BY <1>2, <1>3, <1>4

LEMMA RestDue == ASSUME op' = Idle PROVE Carried' /\ MoveDue' /\ RollbackDue'
<1>1. op'.pc = "idle"
  BY DEF Idle
<1> QED BY <1>1 DEF Carried, MoveDue, RollbackDue, Working

LEMMA SourceChangedDue ==
  ASSUME MoveInv, DueInv, SourceChanged, op.pc \in Working, UNCHANGED <<auth, lineage, newest, issued>>
  PROVE  DueInv'
<1>1. Stored' /\ Due' /\ \A l \in Account : Apart(l) => Apart(l)'
  BY DueStays DEF DueInv
<1>2. CASE op' = Idle
  BY <1>1, <1>2, RestDue DEF DueInv
<1>3. CASE op' = [op EXCEPT !.pc = "diverged"] \/ op' = [op EXCEPT !.pc = "prepare", !.rebased = TRUE]
  <2>1. op.pc # "idle" /\ Previewing \subseteq DOMAIN op
    BY DEF MoveInv, LifecycleTyped, Working
  <2>2. /\ op'.pc \in {"diverged", "prepare"} /\ op'.kind = op.kind /\ op'.seen = op.seen
        /\ op'.replace = op.replace
    BY <1>3, <2>1 DEF Previewing
  <2>3. op.kind = "migrate" \/ op.pc \notin {"retire", "cleanup"} \/ op' = Idle
    BY <2>1 DEF MoveInv, LifecycleTyped, SourceChanged
  <2>4. op'.pc # "idle" /\ op'.pc \notin Working
    BY <2>2 DEF Working
  <2>5. CASE op.kind = "migrate" \/ op.pc \notin {"retire", "cleanup"}
    BY <1>1, <2>1, <2>2, <2>4, <2>5, WorkDueStays DEF DueInv
  <2> QED BY <1>2, <2>3, <2>5
<1> QED BY <1>2, <1>3 DEF SourceChanged

\* The next credential of an account, or none, is committed in one location.
LEMMA AccountDue ==
  ASSUME MoveInv, DueInv, UNCHANGED <<lineage, op>>, NEW r \in LocationRole, NEW l \in Account,
         NEW v \in Version, NEW g \in {"v2", "v0"},
         auth' = [auth EXCEPT ![r] = [gen |-> g, accounts |-> [@.accounts EXCEPT ![l] = v]]],
         newest' = Having(l, v),
         \/ v = 0 /\ issued' = issued
         \/ v = issued[l] + 1 /\ issued' = [issued EXCEPT ![l] = @ + 1],
         r = "canonical" => op.pc \notin Working
  PROVE  DueInv'
<1> DEFINE c == "compatibility"
           n == "canonical"
<1>0. c \in LocationRole /\ n \in LocationRole /\ c # n /\ (r = c \/ r = n)
  BY RolesAre DEF Roles
<1>1. /\ \A k \in Account : auth'[r].accounts[k] = IF k = l THEN v ELSE auth[r].accounts[k]
      /\ \A q \in LocationRole : q # r => auth'[q] = auth[q]
      /\ auth'[r].gen # "absent"
  BY DEF MoveInv, DiskTyped, Authority, Accounts
<1>2. /\ newest'.due[l] = v
      /\ \A k \in Account : k # l => newest'.due[k] = newest.due[k]
  BY DEF Having, MoveInv, DiskTyped, Accounts
<1>3. /\ v = 0 \/ (v = issued[l] + 1 /\ issued'[l] = v)
      /\ \A k \in Account : k # l => issued'[k] = issued[k]
      /\ issued'[l] = issued[l] \/ issued'[l] = issued[l] + 1
      /\ v \in Nat
  BY AuthorityFacts DEF MoveInv, DiskTyped, Accounts
<1>4. auth'[r] # Absent
  BY <1>1 DEF Absent
<1>5. \A k \in Account : k # l => Released(k)' = Released(k) /\ Native(k)' = Native(k)
  BY <1>0, <1>1 DEF Released, Native
<1>6. \/ r = n /\ Native(l)' = v /\ Released(l)' = Released(l)
      \/ r = c /\ Released(l)' = v /\ Native(l)' = Native(l)
  BY <1>0, <1>1 DEF Released, Native
<1>7. \A k \in Account : k # l => (Apart(k) => Apart(k)')
  BY <1>5 DEF Apart
<1>8. /\ Released(l) \in Nat /\ Native(l) \in Nat /\ issued[l] \in Nat
      /\ \A s \in lineage[n] : s[l] \in Nat
      /\ op.pc # "idle" => op.seen.accounts[l] \in Nat
      /\ op.pc \in Working => op.work.target.accounts[l] \in Nat
  BY Numbers
<1>9. Stored'
  <2>1. ASSUME NEW k \in Account, k # l
        PROVE  /\ Released(k)' <= issued'[k] /\ Native(k)' <= issued'[k]
               /\ \A s \in lineage[n] : s[k] <= issued'[k]
    BY <1>3, <1>5, <2>1 DEF DueInv, Stored
  <2>2. /\ Released(l)' <= issued'[l] /\ Native(l)' <= issued'[l]
        /\ \A s \in lineage[n] : s[l] <= issued'[l]
    BY <1>3, <1>6, <1>8 DEF DueInv, Stored
  <2> QED BY <2>1, <2>2 DEF Stored
<1>10. Carried'
  <2>1. ASSUME NEW k \in Account, k # l
        PROVE  /\ op.pc # "idle" => op.seen.accounts[k] <= issued'[k]
               /\ op.pc \in Working => op.work.target.accounts[k] <= issued'[k]
    BY <1>3, <2>1 DEF DueInv, Carried
  <2>2. /\ op.pc # "idle" => op.seen.accounts[l] <= issued'[l]
        /\ op.pc \in Working => op.work.target.accounts[l] <= issued'[l]
    BY <1>3, <1>8 DEF DueInv, Carried
  <2> QED BY <2>1, <2>2 DEF Carried
\* A fresh credential is nowhere else.
<1>11. ASSUME r = c, v # 0
       PROVE  /\ Apart(l)'
              /\ op.pc # "idle" => op.seen.accounts[l] # v
              /\ op.pc \in Working => op.work.target.accounts[l] # v
  <2>1. v = issued[l] + 1 /\ Released(l)' = v /\ Native(l)' = Native(l)
    BY <1>0, <1>3, <1>6, <1>11
  <2>2. Native(l) <= issued[l] /\ \A s \in lineage[n] : s[l] <= issued[l]
    BY DEF DueInv, Stored
  <2>3. Apart(l)'
    BY <1>8, <2>1, <2>2 DEF Apart, Released
  <2>4. /\ op.pc # "idle" => op.seen.accounts[l] <= issued[l]
        /\ op.pc \in Working => op.work.target.accounts[l] <= issued[l]
    BY DEF DueInv, Carried
  <2> QED BY <1>8, <2>1, <2>3, <2>4
<1>12. Native(l)' >= newest'.due[l] \/ (r = c /\ v # 0)
  BY <1>2, <1>3, <1>6, <1>8
<1>13. Due'
  <2>1. \A k \in Account : Native(k)' >= newest'.due[k] \/ Apart(k)'
    BY <1>2, <1>5, <1>7, <1>11, <1>12 DEF DueInv, Due
  <2>2. ASSUME auth'[c] = Absent, NEW k \in Account PROVE Native(k)' >= newest'.due[k]
    <3>1. r = n /\ auth[c] = Absent
      BY <1>0, <1>1, <1>4, <2>2
    <3> QED BY <1>0, <1>2, <1>5, <1>12, <3>1 DEF DueInv, Due
  <2>3. ASSUME auth'[n] = Absent, NEW k \in Account PROVE Released(k)' >= newest'.due[k]
    <3>1. r = c /\ auth[n] = Absent
      BY <1>0, <1>1, <1>4, <2>3
    <3>2. Released(l)' >= newest'.due[l]
      BY <1>0, <1>2, <1>3, <1>6, <3>1
    <3> QED BY <1>2, <1>5, <3>1, <3>2 DEF DueInv, Due
  <2> QED BY <2>1, <2>2, <2>3 DEF Due
<1>14. MoveDue'
  <2> SUFFICES ASSUME op.pc \in Working \ {"retire", "cleanup"}, op.kind = "migrate", ~ op.replace,
                      NEW k \in Account
               PROVE  op.work.target.accounts[k] >= newest'.due[k]
                      \/ (Apart(k)' /\ Released(k)' # op.work.target.accounts[k])
    BY DEF MoveDue
  <2>1. r = c
    BY <1>0
  <2>2. CASE k # l
    BY <1>2, <1>5, <1>7, <2>2 DEF DueInv, MoveDue
  <2>3. CASE k = l /\ v # 0
    BY <1>0, <1>6, <1>11, <2>1, <2>3
  <2>4. CASE k = l /\ v = 0
    BY <1>2, <1>8, <2>4
  <2> QED BY <2>2, <2>3, <2>4
<1>15. RollbackDue'
  <2> SUFFICES ASSUME op.pc \notin {"idle", "retire", "cleanup"}, op.kind = "rollback"
               PROVE  /\ auth'[n] # Absent
                      /\ \A k \in Account : Released(k)' = op.seen.accounts[k] => Native(k)' >= newest'.due[k]
                      /\ op.pc \in Working => \A k \in Account : op.work.target.accounts[k] <= Native(k)'
    BY DEF RollbackDue
  <2>1. auth'[n] # Absent
    BY <1>0, <1>1, <1>4 DEF DueInv, RollbackDue
  <2>2. ASSUME NEW k \in Account, Released(k)' = op.seen.accounts[k] PROVE Native(k)' >= newest'.due[k]
    <3>1. CASE k # l
      BY <1>2, <1>5, <2>2, <3>1 DEF DueInv, RollbackDue
    <3>2. CASE k = l
      BY <1>0, <1>6, <1>11, <1>12, <2>2, <3>2
    <3> QED BY <3>1, <3>2
  <2>3. ASSUME op.pc \in Working, NEW k \in Account PROVE op.work.target.accounts[k] <= Native(k)'
    <3>1. r = c
      BY <1>0, <2>3
    <3>2. Native(k)' = Native(k)
      BY <1>0, <1>5, <1>6, <3>1
    <3> QED BY <2>3, <3>2 DEF DueInv, RollbackDue
  <2> QED BY <2>1, <2>2, <2>3
<1> QED BY <1>9, <1>10, <1>13, <1>14, <1>15 DEF DueInv

-----------------------------------------------------------------------------
(* Every action keeps what is due.                                         *)

LEMMA BeginDue ==
  ASSUME MoveInv, DueInv, BeginRollback \/ \E replace \in BOOLEAN : BeginMigrate(replace)
  PROVE  DueInv'
<1>1. UNCHANGED <<auth, lineage, newest, issued>> /\ op'.pc = "preview"
  BY DEF BeginRollback, BeginMigrate, disk
<1>2. Stored' /\ Due' /\ \A l \in Account : Released(l)' = Released(l) /\ Native(l)' = Native(l)
  BY <1>1, DueStays DEF DueInv, Released, Native
<1>3. op'.seen = auth["canonical"] \/ op'.seen = auth["compatibility"]
  BY DEF BeginRollback, BeginMigrate
<1>4. Carried'
  BY <1>1, <1>3 DEF Carried, Working, DueInv, Stored, Released, Native
<1>5. MoveDue'
  BY <1>1 DEF MoveDue, Working
<1>6. CASE \E replace \in BOOLEAN : BeginMigrate(replace)
  <2>1. op'.kind = "migrate"
    BY <1>6 DEF BeginMigrate
  <2>2. RollbackDue'
    BY <2>1 DEF RollbackDue
  <2> QED BY <1>2, <1>4, <1>5, <2>2 DEF DueInv
<1>7. CASE BeginRollback
  <2>1. auth["canonical"] # Absent /\ \A l \in Account : Native(l) >= newest.due[l]
    BY <1>7, NativeIsDue DEF BeginRollback, DueInv
  <2>2. RollbackDue'
    BY <1>1, <1>2, <2>1 DEF RollbackDue, Working
  <2> QED BY <1>2, <1>4, <1>5, <2>2 DEF DueInv
<1> QED BY <1>6, <1>7

\* Only the step changes.
LEMMA GoesDue ==
  ASSUME MoveInv, DueInv, op.pc # "idle", NEW step, op' = [op EXCEPT !.pc = step],
         step # "idle", step \in Working => op.pc \in Working,
         op.pc \in {"retire", "cleanup"} => step \in {"retire", "cleanup"},
         UNCHANGED <<auth, newest, issued>>,
         \A s \in lineage'["canonical"] : s \in lineage["canonical"] \/ s = auth["canonical"].accounts
  PROVE  DueInv'
<1>1. /\ op'.pc = step /\ op'.kind = op.kind /\ op'.seen = op.seen /\ op'.replace = op.replace
      /\ op.pc \in Working => op'.work = op.work
  BY Goes DEF MoveInv
<1>2. Stored' /\ Due' /\ \A l \in Account : Apart(l) => Apart(l)'
  BY DueStays DEF DueInv
<1> QED BY <1>1, <1>2, WorkDueStays DEF DueInv

LEMMA EndDue ==
  ASSUME DueInv, op' = Idle, UNCHANGED <<auth, lineage, newest, issued>>
  PROVE  DueInv'
BY DueStays, RestDue DEF DueInv

LEMMA HoldDue ==
  ASSUME MoveInv, DueInv, HoldLocationState \/ Refuse \/ RecoverLocationTransaction
  PROVE  DueInv'
<1>1. UNCHANGED <<auth, lineage, newest, issued>> /\ op.pc \in {"preview", "held", "prepare"}
  BY DEF HoldLocationState, Refuse, RecoverLocationTransaction, disk
<1>2. CASE op' = Idle
  BY <1>1, <1>2, EndDue
<1>3. ASSUME NEW step \in {"held", "prepare"}, op' = [op EXCEPT !.pc = step] PROVE DueInv'
  BY <1>1, <1>3, GoesDue DEF Working
<1> QED BY <1>2, <1>3 DEF HoldLocationState, Refuse, RecoverLocationTransaction, End

LEMMA PrepareMoveDue ==
  ASSUME "canonical" \notin Lossy, MoveInv, DueInv, PrepareLocationWork
  PROVE  DueInv'
<1>1. UNCHANGED <<auth, lineage, newest, issued>> /\ op.pc = "prepare" /\ op.kind = "migrate"
  BY DEF PrepareLocationWork, disk
<1>2. /\ op'.pc = "guard" /\ op'.kind = "migrate" /\ op'.seen = op.seen /\ op'.replace = op.replace
      /\ op'.work.target.accounts = auth["compatibility"].accounts
  BY <1>1 DEF PrepareLocationWork, Work, VersionTwo
<1>3. /\ Stored' /\ Due'
      /\ \A l \in Account : Released(l)' = Released(l) /\ Native(l)' = Native(l)
      /\ \A l \in Account : Apart(l) => Apart(l)'
  BY <1>1, DueStays DEF DueInv, Released, Native
<1>4. Carried'
  BY <1>1, <1>2 DEF Carried, DueInv, Stored, Released
<1>5. RollbackDue'
  BY <1>2 DEF RollbackDue
<1> DEFINE C == AuthorityCandidate(View, "compatibility")
           N == AuthorityCandidate(View, "canonical")
<1>6. C.prepared /\ C.code # "EMPTY"
  <2>1. PICK c \in EvidenceForRole(View, "compatibility") : c.prepared
    BY DEF PrepareLocationWork
  <2>2. c \in Observe(View) /\ c.role = "compatibility"
    BY <2>1 DEF EvidenceForRole
  <2>3. c = PrototypeCandidate(View) \/ \E r \in LocationRole : c = AuthorityCandidate(View, r)
    BY <2>2 DEF Observe
  <2>4. PrototypeCandidate(View).role = "prototype"
    BY DEF PrototypeCandidate
  <2>5. c = C
    BY <2>2, <2>3, <2>4, CandidateIs
  <2> QED BY <2>1, <2>5, CandidateIs, RolesAre DEF Roles
\* Without replacing a conflict, what is moved is what is due.
<1>7. ~ op.replace => \A l \in Account : Released(l) >= newest.due[l]
  <2> SUFFICES ASSUME ~ op.replace PROVE \A l \in Account : Released(l) >= newest.due[l]
    OBVIOUS
  <2>1. Now.code \in {"compatibility_selected", "partial"}
    BY DEF PrepareLocationWork, Movable
  <2>2. CASE Now.code = "compatibility_selected"
    BY <2>2, ReleasedIsDue DEF DueInv
  <2>3. CASE Now.code = "partial"
    <3>1. N.code # "EMPTY"
      BY <1>6, <2>3, SelectionIs
    <3>2. EvidenceForRole(View, "canonical") # {}
      <4>1. N \in Observe(View)
        BY <3>1, RolesAre DEF Observe, Roles
      <4>2. N.role = "canonical"
        BY CandidateIs, RolesAre DEF Roles
      <4> QED BY <4>1, <4>2 DEF EvidenceForRole
    <3>3. auth["canonical"] # Absent
      BY <3>2 DEF PrepareLocationWork
    <3>4. auth["canonical"].gen = "v2"
      <4>1. auth["canonical"] \in Authority
        BY RolesAre DEF MoveInv, DiskTyped, Roles
      <4>2. auth["canonical"].gen # "v0"
        BY DEF MoveInv, DiskTyped
      <4>3. auth["canonical"].gen = "absent" => auth["canonical"].accounts = NoAccounts
        BY RolesAre DEF MoveInv, DiskTyped, Roles
      <4> QED BY <3>3, <4>1, <4>2, <4>3 DEF Authority, Absent
    <3>5. journal["canonical"] = NoJournal
      BY <1>1 DEF MoveInv, WorkInv
    <3>6. \A l \in OwnedPrivateHomes(auth["canonical"].accounts) : bundles["canonical"][l] > 0
      <4>1. journal["canonical"].kind # "ordinary"
        BY <3>5 DEF NoJournal
      <4> QED BY <4>1, RolesAre DEF MoveInv, AuthorityHasBundles, Roles
    <3>7. AssessmentCode(View, "canonical") = "CURRENT"
      BY <3>4, <3>5, CodeIs, RolesAre DEF Roles
    <3>8. PrivateAuthPrepared(View, "canonical", "canonical")
      BY <3>6 DEF PrivateAuthPrepared, PrepareAccount, ValidatedSource, View
    <3>9. N.prepared
      BY <3>7, <3>8, CandidateIs, RolesAre DEF Roles
    <3>10. C.account = N.account
      BY <1>6, <2>3, <3>1, <3>9, SelectionIs
    <3>11. auth["compatibility"].accounts = auth["canonical"].accounts
      BY <1>6, <3>9, <3>10, PreparedIs, RolesAre DEF Roles
    <3> QED BY <3>11 DEF DueInv, Due, Apart, Released, Native
  <2> QED BY <2>1, <2>2, <2>3
<1>8. MoveDue'
  <2> SUFFICES ASSUME ~ op.replace, NEW l \in Account
               PROVE  op'.work.target.accounts[l] >= newest'.due[l]
    BY <1>2 DEF MoveDue
  <2> QED BY <1>1, <1>2, <1>7 DEF Released
<1> QED BY <1>3, <1>4, <1>5, <1>8 DEF DueInv

LEMMA PrepareRollbackDue == ASSUME MoveInv, DueInv, PrepareNativeRollback PROVE DueInv'
<1>1. UNCHANGED <<auth, lineage, newest, issued>> /\ op.pc = "prepare" /\ op.kind = "rollback"
  BY DEF PrepareNativeRollback, disk
<1> DEFINE S == EvidenceAccounts("canonical")
<1>2. /\ op'.pc = "snapshot" /\ op'.kind = "rollback" /\ op'.seen = op.seen
      /\ op'.work.target.accounts = S
  BY <1>1 DEF PrepareNativeRollback, Work, GenerationZero
<1>3. /\ Stored' /\ Due'
      /\ \A l \in Account : Released(l)' = Released(l) /\ Native(l)' = Native(l)
  BY <1>1, DueStays DEF DueInv, Released, Native
<1>4. ASSUME NEW l \in Account PROVE S[l] <= Native(l)
  <2>1. CASE S = auth["canonical"].accounts
    BY <2>1, Numbers DEF Native
  <2>2. CASE S = NoAccounts
    BY <2>2, Numbers DEF NoAccounts
  <2> QED BY <2>1, <2>2 DEF EvidenceAccounts
<1>5. S \in Accounts
  BY RolesAre, AuthorityFacts DEF MoveInv, DiskTyped, Roles, Authority, EvidenceAccounts
<1>6. \A l \in Account : S[l] \in Nat
  BY <1>5, AuthorityFacts DEF Accounts
<1> HIDE DEF S
<1>7. Carried'
  <2> SUFFICES ASSUME NEW l \in Account PROVE op'.seen.accounts[l] <= issued'[l] /\ op'.work.target.accounts[l] <= issued'[l]
    BY DEF Carried
  <2>1. op.seen.accounts[l] <= issued[l]
    BY <1>1 DEF DueInv, Carried
  <2>2. Native(l) <= issued[l] /\ Native(l) \in Nat /\ issued[l] \in Nat /\ S[l] \in Nat
    BY <1>6, Numbers DEF DueInv, Stored
  <2> QED BY <1>1, <1>2, <1>4, <2>1, <2>2
<1>8. MoveDue'
  BY <1>2 DEF MoveDue
<1>9. RollbackDue'
  BY <1>1, <1>2, <1>3, <1>4 DEF RollbackDue, DueInv
<1> QED BY <1>3, <1>7, <1>8, <1>9 DEF DueInv

LEMMA TakeGuardDue == ASSUME MoveInv, DueInv, TakeSourceGuard PROVE DueInv'
<1>1. UNCHANGED <<auth, lineage, newest, issued>> /\ op.pc = "guard"
  BY DEF TakeSourceGuard, disk
<1>2. CASE SourceChanged
  BY <1>1, <1>2, SourceChangedDue DEF Working
<1>3. CASE ~ SourceChanged
  <2>1. /\ op'.pc \in {"snapshot", "journal"} /\ op'.kind = op.kind /\ op'.seen = op.seen
        /\ op'.replace = op.replace /\ op'.work = op.work
    BY <1>3 DEF TakeSourceGuard
  <2>2. Stored' /\ Due' /\ \A l \in Account : Apart(l) => Apart(l)'
    BY <1>1, DueStays DEF DueInv
  <2> QED BY <1>1, <2>1, <2>2, WorkDueStays DEF DueInv, Working
<1> QED BY <1>2, <1>3

LEMMA PublishDue == ASSUME MoveInv, DueInv, PublishSnapshots PROVE DueInv'
<1>1. UNCHANGED <<auth, newest, issued>> /\ op.pc = "snapshot"
  BY DEF PublishSnapshots
<1>2. \/ op.kind = "migrate" /\ op.to = "canonical" /\ auth["canonical"] = op.work.base
      \/ op.kind = "rollback" /\ op.to = "compatibility"
  BY <1>1 DEF MoveInv, LifecycleTyped, WorkInv, Working
<1>3. \A s \in lineage'["canonical"] : s \in lineage["canonical"] \/ s = auth["canonical"].accounts
  BY <1>2, RolesAre DEF PublishSnapshots, DisplacedSnapshot, RollbackLineage, MoveInv, DiskTyped, Roles
<1>4. ASSUME NEW step \in {"journal", "guard"}, op' = [op EXCEPT !.pc = step] PROVE DueInv'
  BY <1>1, <1>3, <1>4, GoesDue DEF Working
<1> QED BY <1>4 DEF PublishSnapshots

LEMMA JournalAndCopyDue == ASSUME MoveInv, DueInv, WriteJournal \/ CopyBundle PROVE DueInv'
<1>1. UNCHANGED <<auth, lineage, newest, issued>> /\ op.pc \in {"journal", "copies"}
  BY DEF WriteJournal, CopyBundle
<1>2. CASE SourceChanged
  BY <1>1, <1>2, SourceChangedDue DEF Working
<1>3. CASE op' = Idle
  BY <1>1, <1>3, EndDue
<1>4. ASSUME NEW step \in {"copies", "commit"}, op' = [op EXCEPT !.pc = step] PROVE DueInv'
  BY <1>1, <1>4, GoesDue DEF Working
<1>5. CASE UNCHANGED op
  <2>1. Stored' /\ Due' /\ \A l \in Account : Apart(l) => Apart(l)'
    BY <1>1, DueStays DEF DueInv
  <2> QED BY <1>1, <1>5, <2>1, WorkDueStays DEF DueInv
<1> QED BY <1>2, <1>3, <1>4, <1>5 DEF WriteJournal, CopyBundle, End

LEMMA CommitDue == ASSUME MoveInv, DueInv, CommitAuthority PROVE DueInv'
<1>1. UNCHANGED <<lineage, issued>> /\ op.pc = "commit" /\ op.pc # "idle" /\ op.pc \in Working
  BY DEF CommitAuthority, Working
<1>2. CASE SourceChanged /\ UNCHANGED <<auth, newest>>
  BY <1>1, <1>2, SourceChangedDue DEF Working
<1>3. CASE /\ RequireSourceGuard /\ auth[op.to] = op.work.base
           /\ auth' = [auth EXCEPT ![op.to] = op.work.target]
           /\ newest' = IF GivesUp THEN [newest EXCEPT !.due = op.work.target.accounts] ELSE newest
           /\ op' = [op EXCEPT !.pc = "retire"]
  <2> DEFINE t == op.work.target
  <2>1. /\ op'.pc = "retire" /\ op'.kind = op.kind /\ op'.seen = op.seen /\ op'.work = op.work
    BY <1>1, <1>3, Goes DEF MoveInv
  <2>2. newest'.due = IF GivesUp THEN t.accounts ELSE newest.due
    BY <1>3 DEF MoveInv, DiskTyped
  <2>3. \A l \in Account : /\ t.accounts[l] \in Nat /\ Native(l) \in Nat /\ newest.due[l] \in Nat
                           /\ t.accounts[l] <= issued[l]
    BY <1>1, Numbers DEF DueInv, Carried
  <2>4. MoveDue' /\ RollbackDue'
    BY <2>1 DEF MoveDue, RollbackDue
  <2>5. Carried'
    BY <1>1, <2>1 DEF DueInv, Carried, Working
  <2>6. CASE op.kind = "migrate"
    <3>1. op.to = "canonical" /\ op.from = "compatibility" /\ t.gen = "v2"
      BY <1>1, <2>6 DEF MoveInv, LifecycleTyped, WorkInv
    <3>2. auth'["canonical"] = t /\ auth'["compatibility"] = auth["compatibility"]
      BY <1>3, <3>1, RolesAre DEF MoveInv, DiskTyped, Roles
    <3>3. \A l \in Account : Native(l)' = t.accounts[l] /\ Released(l)' = Released(l)
      BY <3>2 DEF Native, Released
    <3>4. auth["compatibility"] # Absent
      BY <1>3, <3>1 DEF RequireSourceGuard, GuardReadable
    <3>5. auth'["canonical"] # Absent
      BY <3>1, <3>2 DEF Absent
    <3>6. Stored'
      BY <1>1, <2>3, <3>3 DEF DueInv, Stored
    <3>7. ASSUME NEW l \in Account PROVE Native(l)' >= newest'.due[l] \/ Apart(l)'
      <4>1. CASE op.replace
        BY <2>2, <2>3, <3>3, <4>1 DEF GivesUp
      <4>2. CASE ~ op.replace
        <5>1. newest'.due = newest.due
          BY <2>2, <2>6, <4>2 DEF GivesUp
        <5>2. t.accounts[l] >= newest.due[l] \/ (Apart(l) /\ Released(l) # t.accounts[l])
          BY <1>1, <2>6, <4>2 DEF DueInv, MoveDue
        <5> QED BY <1>1, <3>3, <5>1, <5>2 DEF Apart
      <4> QED BY <4>1, <4>2
    <3>8. Due'
      BY <3>2, <3>4, <3>5, <3>7 DEF Due
    <3> QED BY <2>4, <2>5, <3>6, <3>8 DEF DueInv
  <2>7. CASE op.kind = "rollback"
    <3>1. op.to = "compatibility" /\ ~ op.replace /\ t.gen = "v0"
      BY <1>1, <2>7 DEF MoveInv, LifecycleTyped, WorkInv
    <3>2. auth'["compatibility"] = t /\ auth'["canonical"] = auth["canonical"]
      BY <1>3, <3>1, RolesAre DEF MoveInv, DiskTyped, Roles
    <3>3. \A l \in Account : Native(l)' = Native(l) /\ Released(l)' = t.accounts[l]
      BY <3>2 DEF Native, Released
    <3>4. /\ auth["canonical"] # Absent
          /\ \A l \in Account : Released(l) = op.seen.accounts[l] => Native(l) >= newest.due[l]
          /\ \A l \in Account : t.accounts[l] <= Native(l)
      BY <1>1, <2>7 DEF DueInv, RollbackDue
    <3>5. auth'["compatibility"] # Absent
      BY <3>1, <3>2 DEF Absent
    <3>6. Stored'
      BY <1>1, <2>3, <3>3 DEF DueInv, Stored
    <3>7. ASSUME NEW l \in Account PROVE Native(l)' >= newest'.due[l]
      <4>1. CASE op.seen # op.work.base
        BY <2>2, <2>3, <2>7, <3>3, <3>4, <4>1 DEF GivesUp
      <4>2. CASE op.seen = op.work.base
        <5>1. newest'.due = newest.due
          BY <2>2, <3>1, <4>2 DEF GivesUp
        <5>2. Released(l) = op.seen.accounts[l]
          BY <1>3, <3>1, <4>2 DEF Released
        <5> QED BY <3>3, <3>4, <5>1, <5>2
      <4> QED BY <4>1, <4>2
    <3>8. Due'
      BY <3>2, <3>4, <3>5, <3>7 DEF Due
    <3> QED BY <2>4, <2>5, <3>6, <3>8 DEF DueInv
  <2> QED BY <1>1, <2>6, <2>7 DEF MoveInv, LifecycleTyped
<1> QED BY <1>2, <1>3 DEF CommitAuthority

LEMMA RetireDue == ASSUME MoveInv, DueInv, RetireDisplaced PROVE DueInv'
<1>1. UNCHANGED <<auth, newest, issued>> /\ op.pc = "retire" /\ op.pc \in Working
  BY DEF RetireDisplaced, Working
<1>2. CASE SourceChanged /\ UNCHANGED lineage
  BY <1>1, <1>2, SourceChangedDue
<1>3. CASE /\ lineage' = [lineage EXCEPT ![op.to] = @ \cup TargetLineage(op.work.target)]
           /\ op' = [op EXCEPT !.pc = "cleanup"]
  <2>1. \/ op.kind = "migrate" /\ op.to = "canonical" /\ auth["canonical"] = op.work.target
        \/ op.kind = "rollback" /\ op.to = "compatibility"
    BY <1>1 DEF MoveInv, LifecycleTyped, WorkInv, Working
  <2>2. \A s \in lineage'["canonical"] : s \in lineage["canonical"] \/ s = auth["canonical"].accounts
    BY <1>3, <2>1, RolesAre DEF TargetLineage, MoveInv, DiskTyped, Roles
  <2> QED BY <1>1, <1>3, <2>2, GoesDue DEF Working
<1> QED BY <1>2, <1>3 DEF RetireDisplaced

LEMMA CleanupDue == ASSUME MoveInv, DueInv, CleanupTransaction PROVE DueInv'
<1>1. UNCHANGED <<auth, lineage, newest, issued>> /\ op.pc = "cleanup"
  BY DEF CleanupTransaction
<1>2. CASE SourceChanged
  BY <1>1, <1>2, SourceChangedDue DEF Working
<1>3. CASE op' = Idle
  BY <1>1, <1>3, EndDue
<1> QED BY <1>2, <1>3 DEF CleanupTransaction, End

LEMMA ResolveDue == ASSUME MoveInv, DueInv, ResolveLocationDivergence PROVE DueInv'
<1> DEFINE j == journal["canonical"]
<1>1. UNCHANGED <<auth, newest, issued>> /\ op.pc = "diverged"
  BY DEF ResolveLocationDivergence
<1>2. CASE op' = Idle /\ UNCHANGED lineage
  BY <1>1, <1>2, EndDue
<1>3. ASSUME NEW kept, NEW document, document = auth["canonical"],
             Converge(kept, TargetLineage(document))
      PROVE  DueInv'
  <2>1. \A s \in lineage'["canonical"] : s \in lineage["canonical"] \/ s = auth["canonical"].accounts
    BY <1>3, RolesAre DEF Converge, TargetLineage, MoveInv, DiskTyped, Roles
  <2>2. op' = [op EXCEPT !.pc = "prepare", !.rebased = TRUE]
    BY <1>3 DEF Converge
  <2>3. Previewing \subseteq DOMAIN op
    BY <1>1 DEF MoveInv, LifecycleTyped
  <2>4. /\ op'.pc = "prepare" /\ op'.kind = op.kind /\ op'.seen = op.seen /\ op'.replace = op.replace
    BY <2>2, <2>3 DEF Previewing
  <2>5. Stored' /\ Due' /\ \A l \in Account : Apart(l) => Apart(l)'
    BY <1>1, <2>1, DueStays DEF DueInv
  <2> QED BY <1>1, <2>4, <2>5, WorkDueStays DEF DueInv, Working
<1> HIDE DEF j
<1> QED BY <1>2, <1>3 DEF ResolveLocationDivergence, End, j

\* While nothing is at work, only the authorities matter.
LEMMA IdleDue ==
  ASSUME MoveInv, DueInv, op = Idle, UNCHANGED op, Stored', Due'
  PROVE  DueInv'
BY RestDue DEF DueInv

LEMMA MigrateAccountsDue == ASSUME MoveInv, DueInv, MigrateAccounts PROVE DueInv'
<1>1. op = Idle /\ UNCHANGED <<lineage, op>>
  BY DEF MigrateAccounts
<1>2. CASE /\ auth' = [auth EXCEPT !["compatibility"].gen = "v2"] /\ UNCHANGED <<issued, newest>>
           /\ auth["compatibility"].gen = "v0"
  <2>1. /\ auth'["canonical"] = auth["canonical"] /\ auth'["compatibility"].gen = "v2"
        /\ auth'["compatibility"].accounts = auth["compatibility"].accounts
    BY <1>2, RolesAre DEF MoveInv, DiskTyped, Roles, Authority
  <2>2. \A l \in Account : Released(l)' = Released(l) /\ Native(l)' = Native(l)
    BY <2>1 DEF Released, Native
  <2>3. Stored'
    BY <1>1, <1>2, <2>2 DEF DueInv, Stored
  <2>4. \A l \in Account : Apart(l) => Apart(l)'
    BY <1>1, <2>2 DEF Apart
  <2>5. auth'["compatibility"] # Absent
    BY <2>1 DEF Absent
  <2>6. Due'
    BY <1>2, <2>1, <2>2, <2>4, <2>5 DEF DueInv, Due
  <2> QED BY <1>1, <2>3, <2>6, IdleDue
<1>3. ASSUME NEW l \in Account \ Owned, issued[l] < MaxVersion,
             NEW version, version = [NoAccounts EXCEPT ![l] = issued[l] + 1],
             auth' = [auth EXCEPT !["canonical"] = VersionTwo(version)], newest' = Everywhere(version),
             issued' = [issued EXCEPT ![l] = @ + 1]
      PROVE  DueInv'
  <2>1. /\ auth'["canonical"].accounts = version /\ auth'["canonical"] # Absent
        /\ auth'["compatibility"] = auth["compatibility"]
    BY <1>3, RolesAre DEF MoveInv, DiskTyped, Roles, VersionTwo, Absent
  <2>2. /\ \A k \in Account : version[k] = IF k = l THEN issued[l] + 1 ELSE 0
        /\ \A k \in Account : issued'[k] = IF k = l THEN issued[l] + 1 ELSE issued[k]
        /\ newest'.due = version
    BY <1>3 DEF NoAccounts, Everywhere, MoveInv, DiskTyped, Accounts
  <2>3. \A k \in Account : /\ Released(k)' = Released(k) /\ Native(k)' = version[k]
                           /\ Released(k) \in Nat /\ issued[k] \in Nat
                           /\ \A s \in lineage["canonical"] : s[k] \in Nat
    BY <2>1, Numbers DEF Released, Native
  <2>4. Stored'
    <3> SUFFICES ASSUME NEW k \in Account
                 PROVE  /\ Released(k)' <= issued'[k] /\ Native(k)' <= issued'[k]
                        /\ \A s \in lineage["canonical"] : s[k] <= issued'[k]
      BY <1>1 DEF Stored
    <3>1. Released(k) <= issued[k] /\ \A s \in lineage["canonical"] : s[k] <= issued[k]
      BY DEF DueInv, Stored
    <3> QED BY <2>2, <2>3, <3>1
  <2>5. \A k \in Account : Native(k)' >= newest'.due[k]
    BY <2>2, <2>3
  <2>6. Due'
    BY <2>1, <2>5 DEF Due
  <2> QED BY <1>1, <2>4, <2>6, IdleDue
<1> QED BY <1>2, <1>3 DEF MigrateAccounts

LEMMA RollbackInPlaceDue == ASSUME MoveInv, DueInv, RollbackInPlace PROVE DueInv'
<1>1. op = Idle /\ UNCHANGED <<op, issued, newest>>
  BY DEF RollbackInPlace
<1>2. /\ auth'["canonical"] = auth["canonical"] /\ auth'["compatibility"].gen = "v0"
      /\ auth'["compatibility"].accounts = auth["compatibility"].accounts
      /\ lineage'["canonical"] = lineage["canonical"]
  BY RolesAre DEF RollbackInPlace, MoveInv, DiskTyped, Roles, Authority
<1>3. \A l \in Account : Released(l)' = Released(l) /\ Native(l)' = Native(l)
  BY <1>2 DEF Released, Native
<1>4. Stored'
  BY <1>1, <1>2, <1>3 DEF DueInv, Stored
<1>5. \A l \in Account : Apart(l) => Apart(l)'
  BY <1>2, <1>3 DEF Apart
<1>6. auth'["compatibility"] # Absent
  BY <1>2 DEF Absent
<1>7. Due'
  BY <1>1, <1>2, <1>3, <1>5, <1>6 DEF DueInv, Due
<1> QED BY <1>1, <1>4, <1>7, IdleDue

LEMMA FullResetDue == ASSUME MoveInv, DueInv, FullReset PROVE DueInv'
<1>1. op = Idle /\ UNCHANGED <<op, issued>> /\ newest' = Everywhere(NoAccounts)
  BY DEF FullReset
<1> DEFINE role == OperationRole(Now)
<1>2. /\ auth' = [auth EXCEPT ![role] = Absent]
      /\ lineage' = [lineage EXCEPT ![role] = {}]
  BY DEF FullReset
<1> HIDE DEF role
<1>3. /\ \A r \in LocationRole : auth'[r] = IF r = role THEN Absent ELSE auth[r]
      /\ \A r \in LocationRole : lineage'[r] \subseteq lineage[r]
  BY <1>2 DEF MoveInv, DiskTyped
<1>4. ASSUME NEW l \in Account
      PROVE  /\ Released(l)' = 0 \/ Released(l)' = Released(l)
             /\ Native(l)' = 0 \/ Native(l)' = Native(l)
             /\ newest'.due[l] = 0 /\ Released(l) \in Nat /\ Native(l) \in Nat /\ issued[l] \in Nat
  <2>1. newest'.due[l] = 0 /\ Absent.accounts[l] = 0
    BY <1>1 DEF Everywhere, NoAccounts, Absent
  <2>2. /\ Released(l)' = 0 \/ Released(l)' = Released(l)
        /\ Native(l)' = 0 \/ Native(l)' = Native(l)
    BY <1>3, <2>1, RolesAre DEF Released, Native, Roles
  <2> QED BY <2>1, <2>2, Numbers
<1>5. Stored'
  <2> SUFFICES ASSUME NEW l \in Account
               PROVE  /\ Released(l)' <= issued[l] /\ Native(l)' <= issued[l]
                      /\ \A s \in lineage'["canonical"] : s[l] <= issued[l]
    BY <1>1 DEF Stored
  <2>1. /\ Released(l) <= issued[l] /\ Native(l) <= issued[l]
        /\ \A s \in lineage["canonical"] : s[l] <= issued[l]
    BY DEF DueInv, Stored
  <2> QED BY <1>3, <1>4, <2>1, RolesAre DEF Roles
<1>6. Due'
  <2>1. \A l \in Account : Released(l)' >= newest'.due[l] /\ Native(l)' >= newest'.due[l]
    BY <1>4
  <2> QED BY <2>1 DEF Due
<1> QED BY <1>1, <1>5, <1>6, IdleDue

\* Nothing of the accounts changes, and the command stays as it is.
LEMMA NothingDue ==
  ASSUME MoveInv, DueInv, UNCHANGED <<auth, lineage, op, newest, issued>>
  PROVE  DueInv'
<1>1. Stored' /\ Due' /\ \A l \in Account : Apart(l) => Apart(l)'
  BY DueStays DEF DueInv
<1>2. \A l \in Account : Released(l)' = Released(l) /\ Native(l)' = Native(l)
  BY DEF Released, Native
<1>3. Carried' /\ MoveDue' /\ RollbackDue'
  BY <1>1, <1>2 DEF DueInv, Carried, MoveDue, RollbackDue
<1> QED BY <1>1, <1>3 DEF DueInv

LEMMA CommandDue == ASSUME MoveInv, DueInv, UpdateAccount \/ RemoveAccount PROVE DueInv'
<1> DEFINE l == rt.label
           r == rt.role
<1>1. l \in Account /\ r \in LocationRole /\ op.pc \notin Working
  BY DEF UpdateAccount, RemoveAccount, MoveInv, CommandTyped, Unchanged, HoldsLocations, Working
<1>2. UNCHANGED <<lineage, op>>
  BY DEF UpdateAccount, RemoveAccount
<1>3. CASE UpdateAccount
  <2> DEFINE v == issued[l] + 1
  <2>1. /\ v \in Version /\ v = issued[l] + 1 /\ issued' = [issued EXCEPT ![l] = @ + 1]
        /\ newest' = Having(l, v)
        /\ auth' = [auth EXCEPT ![r] = [gen |-> "v2", accounts |-> [@.accounts EXCEPT ![l] = v]]]
    BY <1>1, <1>3, NextCredential DEF UpdateAccount, Committed, VersionTwo, MoveInv
  <2> HIDE DEF v, l, r
  <2> QED BY <1>1, <1>2, <2>1, AccountDue
<1>4. CASE RemoveAccount
  <2>1. /\ 0 \in Version /\ issued' = issued /\ newest' = Having(l, 0)
        /\ auth' = [auth EXCEPT ![r] = [gen |-> "v2", accounts |-> [@.accounts EXCEPT ![l] = 0]]]
    BY <1>4, AuthorityFacts DEF RemoveAccount, Committed, VersionTwo
  <2> HIDE DEF l, r
  <2> QED BY <1>1, <1>2, <2>1, AccountDue
<1> QED BY <1>3, <1>4

LEMMA LegacyWriteDue == ASSUME MoveInv, DueInv, NEW l \in Account, LegacyWrite(l) PROVE DueInv'
<1> DEFINE v == issued[l] + 1
           c == "compatibility"
<1>1. /\ v \in Version /\ v = issued[l] + 1 /\ issued' = [issued EXCEPT ![l] = @ + 1]
      /\ newest' = Having(l, v) /\ UNCHANGED <<lineage, op>>
      /\ auth' = [auth EXCEPT ![c] = [gen |-> "v0", accounts |-> [@.accounts EXCEPT ![l] = v]]]
      /\ c \in LocationRole /\ c # "canonical"
  BY NextCredential, RolesAre DEF LegacyWrite, GenerationZero, MoveInv, Roles
<1> HIDE DEF v, c
<1> QED BY <1>1, AccountDue

\* A credential was issued and never stored in an authority.
LEMMA IssuedDue ==
  ASSUME MoveInv, DueInv, NEW l \in Account, UNCHANGED <<auth, lineage, op, newest>>,
         issued' = [issued EXCEPT ![l] = @ + 1]
  PROVE  DueInv'
<1>1. \A k \in Account : issued'[k] \in {issued[k], issued[k] + 1} /\ issued[k] \in Nat
  BY Numbers DEF MoveInv, DiskTyped, Accounts
<1>2. \A k \in Account : Released(k)' = Released(k) /\ Native(k)' = Native(k)
  BY DEF Released, Native
<1>3. Stored'
  <2> SUFFICES ASSUME NEW k \in Account
               PROVE  /\ Released(k) <= issued'[k] /\ Native(k) <= issued'[k]
                      /\ \A s \in lineage["canonical"] : s[k] <= issued'[k]
    BY <1>2 DEF Stored
  <2>1. /\ Released(k) <= issued[k] /\ Native(k) <= issued[k]
        /\ \A s \in lineage["canonical"] : s[k] <= issued[k]
    BY DEF DueInv, Stored
  <2> QED BY <1>1, <2>1, Numbers
<1>4. Carried'
  <2> SUFFICES ASSUME NEW k \in Account
               PROVE  /\ op.pc # "idle" => op.seen.accounts[k] <= issued'[k]
                      /\ op.pc \in Working => op.work.target.accounts[k] <= issued'[k]
    BY DEF Carried
  <2>1. /\ op.pc # "idle" => op.seen.accounts[k] <= issued[k]
        /\ op.pc \in Working => op.work.target.accounts[k] <= issued[k]
    BY DEF DueInv, Carried
  <2> QED BY <1>1, <2>1, Numbers
<1>5. \A k \in Account : Apart(k)' <=> Apart(k)
  BY <1>2 DEF Apart
<1>6. Due' /\ MoveDue' /\ RollbackDue'
  BY <1>2, <1>5 DEF DueInv, Due, MoveDue, RollbackDue
<1> QED BY <1>3, <1>4, <1>6 DEF DueInv

LEMMA UpdateDiesDue == ASSUME MoveInv, DueInv, UpdateDies PROVE DueInv'
<1> DEFINE l == rt.label
           r == rt.role
           v == issued[l] + 1
<1>1. l \in Account /\ r \in LocationRole /\ op.pc \notin Working
  BY DEF UpdateDies, MoveInv, CommandTyped, Unchanged, HoldsLocations, Working
<1>2. /\ v \in Version /\ v = issued[l] + 1 /\ issued' = [issued EXCEPT ![l] = @ + 1]
      /\ UNCHANGED <<lineage, op>>
      /\ \/ UNCHANGED <<auth, newest>>
         \/ /\ newest' = Having(l, v)
            /\ auth' = [auth EXCEPT ![r] = [gen |-> "v2", accounts |-> [@.accounts EXCEPT ![l] = v]]]
  BY <1>1, NextCredential DEF UpdateDies, Committed, VersionTwo, MoveInv
<1> HIDE DEF v, l, r
<1>3. CASE UNCHANGED <<auth, newest>>
  BY <1>1, <1>2, <1>3, IssuedDue
<1>4. CASE /\ newest' = Having(l, v)
           /\ auth' = [auth EXCEPT ![r] = [gen |-> "v2", accounts |-> [@.accounts EXCEPT ![l] = v]]]
  BY <1>1, <1>2, <1>4, AccountDue
<1> QED BY <1>2, <1>3, <1>4

LEMMA DueInit == Init => DueInv
<1> SUFFICES ASSUME Init PROVE DueInv
  OBVIOUS
<1>1. PICK a, b \in [Account -> {0, 1}], gen \in {"v2", "v0"} :
        LET Doc(d, g) == IF d = NoAccounts THEN Absent ELSE [gen |-> g, accounts |-> d]
            Held(d) == [l \in Owned |-> d[l]]
            seen == [l \in Account |-> IF a[l] + b[l] > 0 THEN 1 ELSE 0]
        IN /\ a = NoAccounts => gen = "v2"
           /\ auth = Both(Doc(a, gen), Doc(b, "v2"))
           /\ bundles = Both(Held(a), Held(b))
           /\ lineage = Both({}, {})
           /\ journal = Both(NoJournal, NoJournal)
           /\ prototype \in IF a = NoAccounts THEN Prototypes ELSE {"EMPTY"}
           /\ op = Idle /\ rt = Resting
           /\ issued = seen /\ newest = Everywhere(seen)
           /\ updates = 0 /\ faults = 0
  BY Zenon DEF Init
<1> DEFINE Doc(d, g) == IF d = NoAccounts THEN Absent ELSE [gen |-> g, accounts |-> d]
           seen == [l \in Account |-> IF a[l] + b[l] > 0 THEN 1 ELSE 0]
<1>2. /\ auth["compatibility"] = Doc(a, gen) /\ auth["canonical"] = Doc(b, "v2")
      /\ lineage["canonical"] = {} /\ op = Idle /\ issued = seen /\ newest.due = seen
  BY <1>1, RolesAre DEF Both, Everywhere, Roles
<1>3. /\ Doc(a, gen).accounts = a /\ Doc(b, "v2").accounts = b
      /\ Doc(a, gen) = Absent => a = NoAccounts
      /\ Doc(b, "v2") = Absent => b = NoAccounts
  BY DEF Absent
<1>4. ASSUME NEW l \in Account
      PROVE  /\ Released(l) = a[l] /\ Native(l) = b[l] /\ issued[l] = newest.due[l]
             /\ a[l] \in {0, 1} /\ b[l] \in {0, 1}
             /\ issued[l] = IF a[l] = 1 \/ b[l] = 1 THEN 1 ELSE 0
             /\ auth["compatibility"] = Absent => a[l] = 0
             /\ auth["canonical"] = Absent => b[l] = 0
  <2>1. Released(l) = a[l] /\ Native(l) = b[l] /\ issued[l] = newest.due[l]
    BY <1>2, <1>3 DEF Released, Native
  <2>2. a[l] \in {0, 1} /\ b[l] \in {0, 1}
    OBVIOUS
  <2>3. issued[l] = IF a[l] = 1 \/ b[l] = 1 THEN 1 ELSE 0
    BY <1>2, <2>2
  <2>4. /\ auth["compatibility"] = Absent => a[l] = 0
        /\ auth["canonical"] = Absent => b[l] = 0
    BY <1>2, <1>3 DEF NoAccounts
  <2> QED BY <2>1, <2>2, <2>3, <2>4
<1> HIDE DEF Doc, seen
<1>5. Stored
  BY <1>2, <1>4 DEF Stored
<1>6. Due
  <2>1. \A l \in Account : Native(l) >= newest.due[l] \/ Apart(l)
    BY <1>2, <1>4 DEF Apart
  <2> QED BY <1>4, <2>1 DEF Due
<1>7. op.pc = "idle"
  BY <1>2 DEF Idle
<1>8. Carried /\ MoveDue /\ RollbackDue
  BY <1>7 DEF Carried, MoveDue, RollbackDue, Working
<1> QED BY <1>5, <1>6, <1>8 DEF DueInv

LEMMA DueStep ==
  ASSUME "canonical" \notin Lossy, MoveInv, DueInv, [Next]_vars
  PROVE  DueInv'
<1>1. CASE UNCHANGED vars
  BY <1>1, NothingDue DEF vars
<1>2. CASE BeginRollback \/ \E replace \in BOOLEAN : BeginMigrate(replace)
  BY <1>2, BeginDue
<1>3. CASE HoldLocationState \/ Refuse \/ RecoverLocationTransaction
  BY <1>3, HoldDue
<1>4. CASE PrepareLocationWork \/ PrepareNativeRollback \/ TakeSourceGuard \/ PublishSnapshots
  BY <1>4, PrepareMoveDue, PrepareRollbackDue, TakeGuardDue, PublishDue
<1>5. CASE WriteJournal \/ CopyBundle \/ CommitAuthority \/ RetireDisplaced
  BY <1>5, JournalAndCopyDue, CommitDue, RetireDue
<1>6. CASE CleanupTransaction \/ ResolveLocationDivergence
  BY <1>6, CleanupDue, ResolveDue
<1>7. CASE MigrateAccounts \/ RollbackInPlace \/ FullReset
  BY <1>7, MigrateAccountsDue, RollbackInPlaceDue, FullResetDue
<1>8. CASE GiveUp \/ \E l \in Account : ComposeAppContext(l)
  BY <1>8, NothingDue DEF GiveUp, ComposeAppContext, disk
<1>9. CASE UpdateAccount \/ RemoveAccount \/ UpdateDies
  BY <1>9, CommandDue, UpdateDiesDue
<1>10. CASE CommandDies
  BY <1>10, EndDue DEF CommandDies, End
<1>11. CASE \E l \in Account : LegacyWrite(l)
  BY <1>11, LegacyWriteDue
<1>12. CASE \/ \E l \in Owned : LegacyBundle(l)
            \/ \E r \in LocationRole, l \in Owned : LoseBundle(r, l)
  BY <1>12, NothingDue DEF LegacyBundle, LoseBundle
<1> QED BY <1>1, <1>2, <1>3, <1>4, <1>5, <1>6, <1>7, <1>8, <1>9, <1>10, <1>11, <1>12 DEF Next

(* Whichever location _select_authority_pair gives to ordinary commands, it*)
(* has the newest credential of every account.  A native bundle deleted by *)
(* hand is outside it: the native location is then not prepared, and a     *)
(* partial selection lets an older document be moved over it.              *)
THEOREM SelectedIsNewestHolds ==
  ASSUME "canonical" \notin Lossy
  PROVE  Spec => []SelectedIsNewest
<1>1. Init => MoveInv /\ DueInv
  BY MoveInvInit, DueInit
<1>2. MoveInv /\ DueInv /\ [Next]_vars => (MoveInv /\ DueInv)'
  BY MoveInvStep, DueStep
<1>3. MoveInv /\ DueInv => SelectedIsNewest
  BY SelectedHasDue DEF DueInv
<1> QED BY <1>1, <1>2, <1>3, PTL DEF Spec
=============================================================================
