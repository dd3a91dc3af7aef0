------------------------------ MODULE Assessment ------------------------------
(***************************************************************************)
(* The read-only inventory of one account location and its reduction to    *)
(* one passive state (persistence/inventory.py, observations.py,           *)
(* assessment.py).  Everything here is a function of what is on disk.      *)
(***************************************************************************)
EXTENDS AuthorityFiles

(* The prototype file: absent, one document, or bytes no decoder accepts.  *)
NoPrototype == "none"
InvalidPrototype == "invalid"

-----------------------------------------------------------------------------
(* Inventory.                                                              *)

(* decode_authority on the readable bytes.                                 *)
ReadAuthority(d) ==
  CASE Authority \notin DOMAIN d -> "absent"
    [] Authority \in DOMAIN d /\ ~ Readable(d, Authority) -> "unsafe"
    [] Readable(d, Authority) /\ d[Authority].data.gen \in AuthorityGeneration \cup {"future"}
                                 -> d[Authority].data.gen
    [] OTHER                     -> "invalid"

(* A backup is valid when its bytes decode and digest to its name.         *)
ValidateManagedArtifact(n, p) ==
  CASE n.kind = "temporary" -> "valid"
    [] n.kind = "backup"    -> IF p = Payload(n.gen, n.doc) THEN "valid" ELSE "conflict"
    [] OTHER                -> IF ValidReceipt(n, p) THEN "valid" ELSE "invalid"

ReadManaged(d, n) ==
  [name  |-> n,
   state |-> IF Readable(d, n) THEN ValidateManagedArtifact(n, d[n].data) ELSE "unsafe"]

ReadManagedArtifacts(d) == {ReadManaged(d, n) : n \in DOMAIN d \ {Authority}}

OfKind(artifacts, kind) == {a \in artifacts : a.name.kind = kind}
ValidOf(artifacts, kind) == {a \in OfKind(artifacts, kind) : a.state = "valid"}

(* The prototype is looked at beside a version two authority only when an  *)
(* import of it is on record or asked for, and beside no authority only    *)
(* when nothing else could be the account data.                            *)
PrototypeEligible(kind, artifacts, private, explicit) ==
  CASE kind = "v2" /\ explicit ->
         \A a \in artifacts : a.state = "valid" /\ a.name.kind # "temporary"
    [] kind = "v2" /\ ~ explicit -> ValidOf(artifacts, "receipt") # {}
    [] kind = "absent" ->
         private = "absent" /\ OfKind(artifacts, "backup") \cup OfKind(artifacts, "temporary") = {}
    [] OTHER -> FALSE

(* inspect, and inspect_for_prototype_migration when explicit.  A parent   *)
(* open to others makes discovery itself unsafe.                           *)
Inspect(d, parent, prototype, private, explicit) ==
  LET safe == parent = "private"
      kind == IF safe THEN ReadAuthority(d) ELSE "unsafe"
      artifacts == IF safe THEN ReadManagedArtifacts(d) ELSE {}
  IN [authority |-> kind,
      file      |-> IF safe THEN FileAt(d, Authority) ELSE NoFile,
      artifacts |-> artifacts,
      prototype |-> IF PrototypeEligible(kind, artifacts, private, explicit)
                    THEN prototype ELSE NoPrototype,
      private   |-> private]

-----------------------------------------------------------------------------
(* Assessment: a set of issues, each a code and the name it is about, and  *)
(* the one of lowest priority.                                             *)

PassivePriority ==
  [UNSAFE_PERMISSIONS |-> 20, FUTURE_SCHEMA |-> 60, INVALID_SCHEMA |-> 70,
   BACKUP_CONFLICT |-> 80, INTERRUPTED_ARTIFACTS |-> 90, LEGACY_WRITER_DETECTED |-> 100,
   ROLLBACK_PREPARED |-> 110, MIGRATION_REQUIRED |-> 120,
   PROTOTYPE_IMPORT_REQUIRED |-> 130, PROTOTYPE_IMPORTED |-> 140, CURRENT |-> 150, EMPTY |-> 160]

NoName == Name("none", "none", NoDocument, 0)
Issue(code, name) == [code |-> code, name |-> name]

ArtifactFailureIssue(a) ==
  Issue(CASE a.state = "unsafe" -> "UNSAFE_PERMISSIONS"
          [] a.state # "unsafe" /\ a.name.kind = "backup" -> "BACKUP_CONFLICT"
          [] OTHER              -> "INVALID_SCHEMA", a.name)

AuthorityFailureIssue(kind) ==
  Issue(CASE kind = "unsafe" -> "UNSAFE_PERMISSIONS"
          [] kind = "future" -> "FUTURE_SCHEMA"
          [] OTHER           -> "INVALID_SCHEMA", NoName)

MatchingPrototypeReceipt(o) ==
  \E r \in ValidOf(o.artifacts, "receipt") : r.name.doc = o.prototype

PrototypeMatchesAuthority(o) ==
  /\ o.prototype \in Document
  /\ MatchingPrototypeReceipt(o)
  /\ PrototypeToVersionTwo(o.prototype) = o.file.data

VersionTwoSnapshots(o) == {a \in ValidOf(o.artifacts, "backup") : a.name.gen = "v2"}

(* A generation zero authority beside version two snapshots is the rollback*)
(* that was prepared, or the work of a released writer after it.           *)
GenerationZeroIssue(o) ==
  IF VersionTwoSnapshots(o) = {} THEN "MIGRATION_REQUIRED"
  ELSE IF \E s \in VersionTwoSnapshots(o) : ReversesTo(Payload("v2", s.name.doc), o.file.data)
       THEN "ROLLBACK_PREPARED"
  ELSE "LEGACY_WRITER_DETECTED"

VersionTwoIssue(o) ==
  IF PrototypeMatchesAuthority(o) THEN "PROTOTYPE_IMPORTED" ELSE "CURRENT"

RecoveryArtifacts(o) == OfKind(o.artifacts, "backup") \cup OfKind(o.artifacts, "temporary")

(* Without an authority every backup, temporary or private credential is   *)
(* an interrupted operation; the issue names one artifact when there is.   *)
AbsentIssue(o) ==
  CASE RecoveryArtifacts(o) # {} ->
         Issue("INTERRUPTED_ARTIFACTS", (CHOOSE a \in RecoveryArtifacts(o) :
           OfKind(o.artifacts, "backup") = {} \/ a.name.kind = "backup").name)
    [] RecoveryArtifacts(o) = {} /\ o.private = "present" -> Issue("INTERRUPTED_ARTIFACTS", NoName)
    [] OTHER ->
         Issue(CASE o.prototype = NoPrototype \/ MatchingPrototypeReceipt(o) -> "EMPTY"
                 [] o.prototype = InvalidPrototype -> "INVALID_SCHEMA"
                 [] OTHER -> "PROTOTYPE_IMPORT_REQUIRED", NoName)

LogicalIssue(o) ==
  CASE o.authority = "v0"     -> Issue(GenerationZeroIssue(o), NoName)
    [] o.authority = "v1"     -> Issue("MIGRATION_REQUIRED", NoName)
    [] o.authority = "v2"     -> Issue(VersionTwoIssue(o), NoName)
    [] o.authority = "absent" -> AbsentIssue(o)
    [] OTHER                  -> AuthorityFailureIssue(o.authority)

InterruptionIssues(o) ==
  {Issue("INTERRUPTED_ARTIFACTS", a.name) :
     a \in OfKind(o.artifacts, "temporary")
           \cup IF o.authority = "absent" THEN OfKind(o.artifacts, "backup") ELSE {}}
  \cup IF o.private = "interrupted" THEN {Issue("INTERRUPTED_ARTIFACTS", NoName)} ELSE {}

Issues(o) ==
  {LogicalIssue(o)} \cup InterruptionIssues(o)
  \cup {ArtifactFailureIssue(a) : a \in {x \in o.artifacts : x.state # "valid"}}

(* The code of an assessment is its first issue in priority order.         *)
Assess(o) ==
  LET codes == {i.code : i \in Issues(o)}
  IN CHOOSE c \in codes : \A other \in codes : PassivePriority[c] <= PassivePriority[other]

CurrentVersionTwo == {"CURRENT", "PROTOTYPE_IMPORTED"}
MigratableGenerationZero == {"MIGRATION_REQUIRED", "LEGACY_WRITER_DETECTED", "ROLLBACK_PREPARED"}
WriteBlocked(code) == code \notin CurrentVersionTwo \cup {"EMPTY"}
=============================================================================
