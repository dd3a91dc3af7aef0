--------------------------- MODULE AuthorityFiles ---------------------------
(***************************************************************************)
(* The managed names beside one account authority and what a reader makes  *)
(* of them (persistence/artifacts.py, filesystem_access.py, _recovery.py,  *)
(* _platform/posix_files.py).                                              *)
(*                                                                         *)
(* A directory is a function from the names it holds to files; a file is   *)
(* an inode number and the payload behind it, so two names of one inode    *)
(* are an interrupted link publication.  A payload is a schema generation  *)
(* and a document: bytes are abstracted to what decides which reader       *)
(* accepts them.  Content addressed names carry the payload they digest.   *)
(***************************************************************************)
EXTENDS Naturals, FiniteSets

CONSTANTS
  Document,      \* account documents
  NoDocument,    \* the document slot of names and payloads that have none
  Inode,         \* identities the filesystem can give to a file
  Slot,          \* the random tokens of temporary names
  Representable  \* documents that released v0.6.0 can hold

ASSUME FilesAssumption ==
  /\ NoDocument \notin Document
  /\ Inode \subseteq Nat /\ Slot \subseteq Nat \ {0}
  /\ Representable \subseteq Document

AuthorityGeneration == {"v0", "v1", "v2"}
ArtifactPurpose == {"authority", "backup", "snapshot", "receipt"}

Payload(gen, doc) == [gen |-> gen, doc |-> doc]
Stored == [gen : AuthorityGeneration, doc : Document]
(* Bytes of a candidate that was created and not yet written and synced.   *)
Torn == Payload("torn", NoDocument)
(* A schema newer than this program, as a later release leaves it.         *)
Future == Payload("future", NoDocument)

-----------------------------------------------------------------------------
(* Names: ArtifactGrammar.                                                 *)

Name(kind, gen, doc, slot) == [kind |-> kind, gen |-> gen, doc |-> doc, slot |-> slot]
Authority == Name("authority", "any", NoDocument, 0)
BackupName(p) == Name("backup", p.gen, p.doc, 0)
ReceiptName(doc) == Name("receipt", "receipt", doc, 0)
TemporaryName(purpose, slot) == Name("temporary", purpose, NoDocument, slot)

Present(d) == DOMAIN d
Put(d, n, f) == [m \in DOMAIN d \cup {n} |-> IF m = n THEN f ELSE d[m]]
Remove(d, n) == [m \in DOMAIN d \ {n} |-> d[m]]
Temporaries(d) == {n \in DOMAIN d : n.kind = "temporary"}
Backups(d) == {n \in DOMAIN d : n.kind = "backup"}

-----------------------------------------------------------------------------
(* Reading.  validate_file accepts one or two links; two links are a read  *)
(* only when exactly one other managed name is the other half of the same  *)
(* interrupted publication.                                                *)

LinkCount(d, n) == Cardinality({m \in DOMAIN d : d[m].node = d[n].node})

(* Mutant: the halves of an interrupted backup are strangers.              *)
IsPublicationPairButBackup(t, final) ==
  t.kind = "temporary" /\ t.gen = final.kind /\ t.gen \in {"authority", "receipt"}
(* What a temporary of each purpose becomes.  The table of the code knows  *)
(* a snapshot only as a version one snapshot.                              *)
IsPublicationPair(t, final) ==
  /\ t.kind = "temporary"
  /\ CASE t.gen = "authority" -> final.kind = "authority"
       [] t.gen = "backup"    -> final.kind = "backup" /\ final.gen = "v0"
       [] t.gen = "snapshot"  -> final.kind = "backup" /\ final.gen = "v1"
       [] t.gen = "receipt"   -> final.kind = "receipt"

LinkPartners(d, n) ==
  {m \in DOMAIN d \ {n} : /\ IsPublicationPair(n, m) \/ IsPublicationPair(m, n)
                          /\ LinkCount(d, n) = 2
                          /\ d[m] = d[n]}

(* "whole" is a plain file, "interrupted" one half of a publication that   *)
(* link and unlink left in two names, "unsafe" any other link count.       *)
LinkProof(d, n) ==
  IF n \notin DOMAIN d THEN "absent"
  ELSE IF LinkCount(d, n) = 1 THEN "whole"
  ELSE IF Cardinality(LinkPartners(d, n)) = 1 THEN "interrupted"
  ELSE "unsafe"

(* read_authority and read_managed accept an interrupted publication.      *)
Readable(d, n) == LinkProof(d, n) \in {"whole", "interrupted"}

(* _require_expected_authority and the proofs of a commit do not: the      *)
(* error they raise, or "none" with the file they saw.                     *)
CompleteReadError(d, n) ==
  CASE LinkProof(d, n) = "unsafe"      -> "UNSAFE_PERMISSIONS"
    [] LinkProof(d, n) = "interrupted" -> "INTERRUPTED_ARTIFACTS"
    [] OTHER                           -> "none"

NoFile == [node |-> 0, data |-> Torn]
FileAt(d, n) == IF n \in DOMAIN d THEN d[n] ELSE NoFile

(* The expectation of a commit or a reset: the fingerprint its caller read,*)
(* NoFile for AuthorityExpectation.ABSENT.                                 *)
ExpectationError(d, expected) ==
  IF CompleteReadError(d, Authority) # "none" THEN CompleteReadError(d, Authority)
  ELSE IF FileAt(d, Authority) # expected THEN "SOURCE_CHANGED"
  ELSE "none"

(* A failed replacement is a definite failure only when the source of the  *)
(* expectation is still there, or nothing is where nothing was.            *)
ReplacementMayHaveCommitted(d, expected) ==
  \/ Authority \in DOMAIN d /\ ~ Readable(d, Authority)
  \/ Authority \in DOMAIN d /\ FileAt(d, Authority) # expected
  \/ Authority \notin DOMAIN d /\ expected # NoFile

-----------------------------------------------------------------------------
(* Validation of the final half of an interrupted publication.             *)

ValidReceipt(n, p) == p = Payload("receipt", n.doc)
ValidBackup(n, p) == p = Payload(n.gen, n.doc) /\ n.gen \in {"v0", "v1"}
RecoveryError(n, p) ==
  CASE n.kind = "authority" /\ p.gen \notin AuthorityGeneration -> "INVALID_SCHEMA"
    [] n.kind = "receipt" /\ ~ ValidReceipt(n, p)                -> "INVALID_SCHEMA"
    [] n.kind = "backup" /\ ~ ValidBackup(n, p)                  -> "BACKUP_CONFLICT"
    [] OTHER                                                     -> "none"

-----------------------------------------------------------------------------
(* Conversions between generations (schemas.py, transforms.py): every      *)
(* older document has a version two form, a version two document has a     *)
(* released form only when v0.6.0 can represent it.                        *)
ToVersionTwo(p) == Payload("v2", p.doc)
ToV060(p) == Payload("v0", p.doc)
PrototypeToVersionTwo(doc) == Payload("v2", doc)
ReversesTo(snapshot, p) ==
  snapshot.gen = "v2" /\ snapshot.doc \in Representable /\ ToV060(snapshot) = p
=============================================================================
