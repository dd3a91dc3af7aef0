--------------------------- MODULE LocationSelection ---------------------------
(***************************************************************************)
(* What the files of the released ("compatibility") and of the native      *)
(* ("canonical") account location say together: the evidence of each       *)
(* location, the plan for moving its Codex bundles, and the selection of   *)
(* the location every command works on (persistence/migrations/observer.py,*)
(* location.py, location_state.py, providers/codex/auth_migration.py).     *)
(* Every definition is a function of a view: the authorities, bundles,     *)
(* lineage snapshots and journals of both locations and the prototype.     *)
(***************************************************************************)
EXTENDS Naturals, FiniteSets

CONSTANTS
  Account,     \* labels of accounts
  Owned,       \* those whose Codex bundle lives below a Sidekick root
  MaxVersion   \* credentials an account may ever have; version 0 is no account

ASSUME SelectionAssumption == Owned \subseteq Account /\ MaxVersion \in Nat \ {0}

LocationRole == {"compatibility", "canonical"}
Version == 0 .. MaxVersion
Accounts == [Account -> Version]
NoAccounts == [l \in Account |-> 0]

(* An authority: its generation and the credential of every account.  The  *)
(* first credential of an account carries no last_refresh_at.              *)
Absent == [gen |-> "absent", accounts |-> NoAccounts]
VersionTwo(a) == [gen |-> "v2", accounts |-> a]
GenerationZero(a) == [gen |-> "v0", accounts |-> a]
Dated(version) == version > 1

NoJournal == [kind |-> "none"]

-----------------------------------------------------------------------------
(* Private bundles (auth_migration.py).                                    *)

(* Homes elsewhere, the provider's own among them, are left where they are.*)
OwnedPrivateHomes(accounts) == {l \in Owned : accounts[l] > 0}

(* A bundle is used when it is there and whole.                            *)
ValidatedSource(v, role, l) == v.bundles[role][l] > 0

(* A bundle at the destination is adopted when it is the same, and is      *)
(* otherwise a conflict.                                                   *)
TargetFailure(v, from, to, l) ==
  v.bundles[to][l] \notin {0, v.bundles[from][l]}

PrepareCopy(v, from, to, l) == ~ TargetFailure(v, from, to, l)

PrepareAccount(v, from, to, l) ==
  ValidatedSource(v, from, l) /\ (from = to \/ PrepareCopy(v, from, to, l))

(* One account that cannot be moved fails the whole preparation.           *)
PrivateAuthPrepared(v, from, to) ==
  \A l \in OwnedPrivateHomes(v.auth[from].accounts) : PrepareAccount(v, from, to, l)

CopiesRequired(v, from, to) ==
  {l \in OwnedPrivateHomes(v.auth[from].accounts) : v.bundles[to][l] = 0}

SemanticDigest(v, role) ==
  [l \in OwnedPrivateHomes(v.auth[role].accounts) |-> v.bundles[role][l]]

-----------------------------------------------------------------------------
(* Evidence of one location (observer.py).                                 *)

(* The passive code of a location: an unfinished private transaction comes *)
(* first; without an authority any leftover is one too.                    *)
AssessmentCode(v, role) ==
  CASE v.journal[role] # NoJournal                        -> "INTERRUPTED_ARTIFACTS"
    [] v.journal[role] = NoJournal /\ v.auth[role].gen = "absent" ->
         IF v.lineage[role] # {} \/ \E l \in Owned : v.bundles[role][l] > 0
         THEN "INTERRUPTED_ARTIFACTS" ELSE "EMPTY"
    [] v.journal[role] = NoJournal /\ v.auth[role].gen = "v0" ->
         CASE v.auth[role].accounts \in v.lineage[role] -> "ROLLBACK_PREPARED"
           [] v.lineage[role] = {}                      -> "MIGRATION_REQUIRED"
           [] OTHER                                     -> "LEGACY_WRITER_DETECTED"
    [] OTHER                                              -> "CURRENT"

(* Every location is read as if it were to be moved to the native one; only*)
(* a current document has digests.                                         *)
AuthorityCandidate(v, role) ==
  LET code == AssessmentCode(v, role)
      prepared == code = "CURRENT" /\ PrivateAuthPrepared(v, role, "canonical")
  IN [role     |-> role,
      code     |-> code,
      account  |-> IF code = "CURRENT" THEN v.auth[role].accounts ELSE NoAccounts,
      prepared |-> prepared,
      private  |-> IF prepared THEN SemanticDigest(v, role) ELSE <<>>,
      lineage  |-> IF code = "CURRENT" THEN v.lineage[role] ELSE {}]

PrototypeCandidate(v) ==
  [role |-> "prototype", code |-> v.prototype, account |-> NoAccounts, prepared |-> FALSE,
   private |-> <<>>, lineage |-> {}]

(* The prototype is looked at only when neither authority is there.        *)
Observe(v) ==
  LET authorities == {AuthorityCandidate(v, role) : role \in LocationRole}
      present == {c \in authorities : c.code # "EMPTY"}
  IN IF present # {} THEN present
     ELSE {c \in {PrototypeCandidate(v)} : c.code # "EMPTY"}

EvidenceForRole(v, role) == {c \in Observe(v) : c.role = role}

-----------------------------------------------------------------------------
(* Selection (location.py).                                                *)

PartialCodes == {"INTERRUPTED_ARTIFACTS", "LEGACY_WRITER_DETECTED"}
SchemaReadyCodes == {"EMPTY", "CURRENT"}

IsBlockedCandidate(c) ==
  IF c.role = "prototype" THEN c.code = "INVALID_SCHEMA"
  ELSE c.code \notin SchemaReadyCodes \cup PartialCodes

Select(code, role) == [code |-> code, role |-> role]

(* The older generation of the released location is named first.           *)
BlockedSelection(blocking) ==
  LET roles == {c.role : c \in blocking}
  IN Select("candidate_blocked",
            IF "compatibility" \in roles THEN "compatibility" ELSE CHOOSE r \in roles : TRUE)

(* Mutant: a native location is preferred, whatever it descends from.      *)
PreferCanonical(compatibility, canonical) == Select("canonical_selected", "canonical")

SelectAuthorityPair(compatibility, canonical) ==
  CASE compatibility.account # canonical.account ->
         IF compatibility.account \in canonical.lineage
         THEN Select("canonical_selected", "canonical")
         ELSE Select("conflict", "none")
    [] compatibility.account = canonical.account ->
         IF compatibility.private # canonical.private THEN Select("partial", "none")
         ELSE Select("equivalent_selected", "canonical")

(* The digests of both are there when every candidate is prepared.         *)
SelectAuthorities(authorities) ==
  LET blocking == {c \in authorities : IsBlockedCandidate(c)}
      Of(role) == CHOOSE c \in authorities : c.role = role
  IN CASE blocking # {} -> BlockedSelection(blocking)
       [] blocking = {} /\ \E c \in authorities : c.code \in PartialCodes \/ ~ c.prepared ->
            Select("partial", "none")
       [] OTHER ->
            IF Cardinality(authorities) = 2
            THEN SelectAuthorityPair(Of("compatibility"), Of("canonical"))
            ELSE LET c == CHOOSE c \in authorities : TRUE
                 IN Select(IF c.role = "compatibility" THEN "compatibility_selected"
                           ELSE "canonical_selected", c.role)

SelectPrototype(prototypes) ==
  CASE prototypes = {} -> Select("empty", "canonical")
    [] \E c \in prototypes : IsBlockedCandidate(c) -> Select("candidate_blocked", "prototype")
    [] OTHER -> Select("prototype_only", "prototype")

SelectRuntimePersistence(candidates) ==
  LET authorities == {c \in candidates : c.role # "prototype"}
  IN IF authorities # {} THEN SelectAuthorities(authorities)
     ELSE SelectPrototype(candidates \ authorities)

Selection(v) == SelectRuntimePersistence(Observe(v))

IsReadySelection(s) ==
  s.code \in {"empty", "compatibility_selected", "canonical_selected", "equivalent_selected"}

ReadyRole(s) == s.role

(* The location an explicit command may change; none for a conflict or a   *)
(* partial selection.                                                      *)
OperationRole(s) ==
  CASE IsReadySelection(s) -> ReadyRole(s)
    [] s.code = "prototype_only" -> "canonical"
    [] s.code = "candidate_blocked" -> IF s.role = "prototype" THEN "canonical" ELSE s.role
    [] OTHER -> "none"

-----------------------------------------------------------------------------
(* The assessment checks its own next command: what the observer suggests  *)
(* must be what the selection calls for, or its construction fails.        *)

MigrationJournalPresent(v) == v.journal["canonical"].kind = "migration"

LocationNextCommand(s) ==
  CASE s.code = "compatibility_selected" -> "migrate locations"
    [] s.code = "prototype_only"         -> "migrate accounts"
    [] OTHER                             -> "the candidate's"

ExpectedNextCommand(v, s) ==
  CASE s.code = "compatibility_selected" -> "migrate locations"
    [] s.code = "prototype_only"         -> "migrate accounts"
    [] s.code = "partial" /\ MigrationJournalPresent(v) -> "migrate locations"
    [] OTHER                             -> "the candidate's"

CanAssess(v) == LocationNextCommand(Selection(v)) = ExpectedNextCommand(v, Selection(v))

=============================================================================
