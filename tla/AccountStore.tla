------------------------------ MODULE AccountStore ------------------------------
(***************************************************************************)
(* The account store (persistence/account_store.py): each command process  *)
(* loads the one account authority, works on its own copy, and commits     *)
(* under the account lock only if the authority file is still the one it   *)
(* loaded.  A Codex account also owns a private bundle, which the commit   *)
(* writes or displaces together with the authority.                        *)
(*                                                                         *)
(* Three kinds of command run over the store: one commit of a candidate    *)
(* made from the loaded copy (save, remove, rename, provider reset, plan   *)
(* and heartbeat metadata); the sweep of the maintenance and usage         *)
(* commands, which walks over a snapshot of the accounts while every       *)
(* refresh reopens the authority (maintenance.py, usage/service.py); and   *)
(* the target-only merge a refresh ends with.                              *)
(*                                                                         *)
(* A commit is one step here: CredentialTransaction shows how it is made   *)
(* atomic, CredentialRefresh how a refresh chooses its target.             *)
(***************************************************************************)
EXTENDS Naturals, FiniteSets

CONSTANTS
  Proc,       \* command processes
  Label,      \* account labels; each has its canonical private home
  Cred,       \* credentials
  Private,    \* Codex credentials: they come with a private bundle
  Rotating,   \* credentials the provider can refresh
  NoAccount,  \* what the authority holds for a label with no account
  None,       \* no home, no bundle
  MaxVersion  \* bound: generations of the authority file

ASSUME CredAssumption == Private \subseteq Rotating /\ Rotating \subseteq Cred
ASSUME NoneAssumption == None \notin Label /\ None \notin Cred
ASSUME NoAccountAssumption ==
  NoAccount \notin [cred : Cred, home : Label \cup {None}]
ASSUME MaxVersionAssumption == MaxVersion \in Nat \ {0}

VARIABLES
  accounts,  \* durable authority: the account of each label
  bundle,    \* durable: the credential in each label's canonical home
  version,   \* durable authority: the fingerprint of the file
  cache,     \* the accounts each process loaded
  base,      \* the fingerprint each process loaded, 0 before it has
  pc,        \* what each process does next
  work,      \* the part of its snapshot each sweep has not dealt with yet
  target,    \* the label each refresh is for
  expected,  \* the account each refresh exchanges the credential of
  retired    \* history: credentials the authority held and gave up

durable == <<accounts, bundle, version>>
loaded == <<cache, base>>
sweep == <<work, target, expected>>
vars == <<accounts, bundle, version, cache, base, pc, work, target, expected,
          retired>>

-----------------------------------------------------------------------------
(* Accounts. *)

\* codex_home is the home of the label the bundle was prepared for, which a
\* rename leaves as it is.
Account == [cred : Cred, home : Label \cup {None}]
AccountOrNone == Account \cup {NoAccount}
NoAccounts == [l \in Label |-> NoAccount]

Used(a) == {l \in Label : a[l] # NoAccount}
Held(a) == {a[l].cred : l \in Used(a)}

\* _canonical_private_accounts
References(a) == {a[l].home : l \in Used(a)} \ {None}
Owner(a, h) == CHOOSE l \in Used(a) : a[l].home = h
HomesUnique(a) ==
  \A l, m \in Used(a) : a[l].home = a[m].home /\ a[l].home # None => l = m

\* reject_duplicate_credential_ownership, part of every encoding
CredentialsUnique(a) == \A l, m \in Used(a) : a[l].cred = a[m].cred => l = m

\* A credential that no account has had before.
Fresh(c) == c \notin retired \cup Held(accounts)

Init ==
  /\ accounts \in [Label -> AccountOrNone]
  /\ \A l \in Used(accounts) :
       accounts[l].home = IF accounts[l].cred \in Private THEN l ELSE None
  /\ CredentialsUnique(accounts)
  /\ bundle = [h \in Label |-> IF h \in References(accounts)
                               THEN accounts[h].cred ELSE None]
  /\ version = 1
  /\ cache = [p \in Proc |-> NoAccounts]
  /\ base = [p \in Proc |-> 0]
  /\ pc = [p \in Proc |-> "idle"]
  /\ work = [p \in Proc |-> NoAccounts]
  /\ target = [p \in Proc |-> None]
  /\ expected = [p \in Proc |-> NoAccount]
  /\ retired = {}

-----------------------------------------------------------------------------
(* Committing a candidate: _commit_credentials. *)

\* Mutation: a fresh authority lends its fingerprint, not its accounts.
AdoptBaseline(p, a, v) ==
  /\ cache' = cache
  /\ base' = [base EXCEPT ![p] = v]

Adopt(p, a, v) ==
  /\ cache' = [cache EXCEPT ![p] = a]
  /\ base' = [base EXCEPT ![p] = v]

\* Mutation: only new private homes need a prepared bundle.
ProvenIntroduced(old, new, prepared) ==
  /\ HomesUnique(old) /\ HomesUnique(new)
  /\ prepared \subseteq References(new)
  /\ References(new) \ References(old) \subseteq prepared

\* Mutation: any private home may be referenced without a bundle.
ProvenAny(old, new, prepared) == prepared \subseteq References(new)

\* A private home is introduced, or its credential changed, only together with
\* the bundle prepared for it.
Proven(old, new, prepared) ==
  /\ HomesUnique(old) /\ HomesUnique(new)
  /\ prepared \subseteq References(new)
  /\ References(new) \ References(old) \subseteq prepared
  /\ {h \in References(old) \cap References(new) :
        old[Owner(old, h)].cred # new[Owner(new, h)].cred} \subseteq prepared

\* Mutation: the fingerprint is not compared again under the lock.
BaselineIgnored(p) == TRUE

BaselineMatches(p) == base[p] = version

\* The candidate can be encoded: every credential has one owner.
Encodable(new) == CredentialsUnique(new)

Acceptable(p, new, prepared) ==
  Encodable(new) /\ Proven(cache[p], new, prepared) /\ BaselineMatches(p)

\* The authority, its prepared bundles and its displaced bundles, together.
Install(new, prepared, displaced) ==
  /\ version < MaxVersion
  /\ version' = version + 1
  /\ accounts' = new
  /\ bundle' = [h \in Label |->
                  IF h \in prepared THEN new[Owner(new, h)].cred
                  ELSE IF h \in displaced THEN None ELSE bundle[h]]

Commit(p, new, prepared) ==
  /\ Acceptable(p, new, prepared)
  /\ Install(new, prepared, References(cache[p]) \ References(new))
  /\ Adopt(p, new, version + 1)

Exit(p) ==
  /\ pc' = [pc EXCEPT ![p] = "idle"]
  /\ work' = [work EXCEPT ![p] = NoAccounts]
  /\ target' = [target EXCEPT ![p] = None]
  /\ expected' = [expected EXCEPT ![p] = NoAccount]

\* A refused commit raises, and the command ends.
Refused(p, new, prepared) ==
  /\ ~Acceptable(p, new, prepared)
  /\ Exit(p)
  /\ UNCHANGED <<durable, loaded>>

-----------------------------------------------------------------------------
(* Opening the store. *)

Load(p) ==
  /\ pc[p] = "idle"
  /\ Adopt(p, accounts, version)
  /\ pc' = [pc EXCEPT ![p] = "ready"]
  /\ UNCHANGED <<durable, sweep>>

ReadFresh(p) ==
  /\ pc[p] = "ready"
  /\ Adopt(p, accounts, version)
  /\ UNCHANGED <<durable, pc, sweep>>

-----------------------------------------------------------------------------
(* Commands of one commit. *)

Command(p, new, prepared) ==
  /\ pc[p] = "ready"
  /\ \/ Commit(p, new, prepared) /\ UNCHANGED <<pc, sweep>>
     \/ Refused(p, new, prepared)

\* prepare_account finds its target home free, or owned by the account before.
TargetUsable(l, previous) ==
  IF previous # NoAccount /\ previous.home = l THEN bundle[l] # None
                                               ELSE bundle[l] = None

\* save and refresh_from_source: a new credential for a label, or the credential
\* another label holds moved to one that is free.
Save(p, l, previous, c) ==
  /\ \/ previous = l /\ Fresh(c)
     \/ /\ cache[p][previous] # NoAccount /\ cache[p][previous].cred = c
        /\ cache[p][l] = NoAccount
  /\ c \in Private => TargetUsable(l, cache[p][previous])
  /\ LET home == IF c \in Private THEN l ELSE None
         new == [cache[p] EXCEPT ![previous] = NoAccount,
                                 ![l] = [cred |-> c, home |-> home]]
     IN  Command(p, new, {home} \ {None})

Remove(p, l) ==
  /\ cache[p][l] # NoAccount
  /\ Command(p, [cache[p] EXCEPT ![l] = NoAccount], {})

Rename(p, l, m) ==
  /\ cache[p][l] # NoAccount /\ cache[p][m] = NoAccount
  /\ Command(p, [cache[p] EXCEPT ![l] = NoAccount, ![m] = cache[p][l]], {})

\* reset_provider: Codex accounts, or all the others.
ResetProvider(p, codex) ==
  LET mine == {l \in Used(cache[p]) : (cache[p][l].cred \in Private) = codex}
  IN  /\ mine # {}
      /\ Command(p, [l \in Label |-> IF l \in mine THEN NoAccount
                                                   ELSE cache[p][l]], {})

\* A plan set by hand, heartbeat settings and outcomes: only metadata changes.
PersistMetadata(p) == Used(cache[p]) # {} /\ Command(p, cache[p], {})

-----------------------------------------------------------------------------
(* The sweep of refresh_all and of the usage check. *)

BeginSweep(p) ==
  /\ pc[p] = "ready"
  /\ work' = [work EXCEPT ![p] = cache[p]]
  /\ pc' = [pc EXCEPT ![p] = "sweep"]
  /\ UNCHANGED <<durable, loaded, target, expected>>

\* The next account of the sweep.
NextOne(p, l) == pc[p] = "sweep" /\ work[p][l] # NoAccount

\* Go on with the rest of the snapshot.
Done(p, l) ==
  /\ pc' = [pc EXCEPT ![p] = "sweep"]
  /\ work' = [work EXCEPT ![p][l] = NoAccount]
  /\ target' = [target EXCEPT ![p] = None]
  /\ expected' = [expected EXCEPT ![p] = NoAccount]

\* After a refresh that succeeded, maintenance is done with the account and the
\* usage check goes on with the copy that was adopted.
Refreshed(p, l, account) ==
  \/ Done(p, l)
  \/ /\ pc' = [pc EXCEPT ![p] = "sweep"]
     /\ work' = [work EXCEPT ![p][l] = account]
     /\ target' = [target EXCEPT ![p] = None]
     /\ expected' = [expected EXCEPT ![p] = NoAccount]

\* The account is not due.
Skip(p, l) == NextOne(p, l) /\ Done(p, l) /\ UNCHANGED <<durable, loaded>>

\* persist_provider_update: the copy must still hold what was fetched with; when
\* the commit is refused, the usage check goes on as after a skip.
PersistProviderUpdate(p, l) ==
  /\ NextOne(p, l)
  /\ cache[p][l] = work[p][l]
  /\ Commit(p, cache[p], {})
  /\ Done(p, l)

\* A refresh reopens the authority before anything else.
Observe(p, l) ==
  /\ NextOne(p, l)
  /\ Adopt(p, accounts, version)
  /\ target' = [target EXCEPT ![p] = l]
  /\ expected' = [expected EXCEPT ![p] = accounts[l]]
  /\ pc' = [pc EXCEPT ![p] =
              IF l \in Used(accounts) /\ accounts[l].cred \in Rotating
              THEN "exchange" ELSE "record"]
  /\ UNCHANGED <<durable, work>>

Unchanged(p) == accounts[target[p]] = expected[p]

\* The target changed during the exchange: its new owner's account stands.
TargetChanged(p) ==
  /\ pc[p] = "exchange"
  /\ ~Unchanged(p)
  /\ Adopt(p, accounts, version)
  /\ \/ /\ accounts[target[p]] # NoAccount
        /\ Refreshed(p, target[p], accounts[target[p]])
     \/ /\ accounts[target[p]] = NoAccount
        /\ pc' = [pc EXCEPT ![p] = "record"]
        /\ UNCHANGED sweep
  /\ UNCHANGED durable

\* merge_credential_refresh of a success.  prepare_refresh makes the bundle in
\* the home of the label the account has now; nothing is displaced.
MergeSuccess(p, c) ==
  /\ pc[p] = "exchange"
  /\ Unchanged(p)
  /\ Fresh(c) /\ (c \in Private <=> expected[p].cred \in Private)
  /\ c \in Rotating
  /\ c \in Private => TargetUsable(target[p], expected[p])
  /\ LET l == target[p]
         home == IF c \in Private THEN l ELSE None
         new == [accounts EXCEPT ![l] = [cred |-> c, home |-> home]]
     IN  /\ Install(new, {home} \ {None}, {})
         /\ Adopt(p, new, version + 1)
         /\ Refreshed(p, l, new[l])

\* merge_credential_refresh of a failure: the mark is metadata of the account.
MergeFailure(p) ==
  /\ pc[p] = "exchange"
  /\ Unchanged(p)
  /\ Install(accounts, {}, {})
  /\ Adopt(p, accounts, version + 1)
  /\ pc' = [pc EXCEPT ![p] = "record"]
  /\ UNCHANGED sweep

\* The provider raised: nothing was merged.
ExchangeRaises(p) ==
  /\ pc[p] = "exchange"
  /\ pc' = [pc EXCEPT ![p] = "record"]
  /\ UNCHANGED <<durable, loaded, sweep>>

\* The refresh could not be persisted: no failure is recorded.
PersistenceFails(p) ==
  /\ pc[p] = "exchange"
  /\ Done(p, target[p])
  /\ UNCHANGED <<durable, loaded>>

\* _record_failed persists the account of the snapshot.  A refused commit ends
\* maintenance; the usage check reports it and goes on.
RecordFailed(p) ==
  /\ pc[p] = "record"
  /\ LET l == target[p]
         new == [cache[p] EXCEPT ![l] = work[p][l]]
     IN  \/ Commit(p, new, {}) /\ Done(p, l)
         \/ Refused(p, new, {})
         \/ /\ ~Acceptable(p, new, {})
            /\ Done(p, l)
            /\ UNCHANGED <<durable, loaded>>

\* maintain runs its heartbeats next, on a new snapshot.
EndSweep(p) ==
  /\ pc[p] = "sweep" /\ work[p] = NoAccounts
  /\ pc' = [pc EXCEPT ![p] = "ready"]
  /\ UNCHANGED <<durable, loaded, sweep>>

Leave(p) == pc[p] # "idle" /\ Exit(p) /\ UNCHANGED <<durable, loaded>>

-----------------------------------------------------------------------------
(* The specification. *)

OneCommit(p) ==
  \/ \E l \in Label :
       \/ Remove(p, l)
       \/ \E m \in Label : Rename(p, l, m)
       \/ \E m \in Label, c \in Cred : Save(p, l, m, c)
  \/ \E codex \in BOOLEAN : ResetProvider(p, codex)
  \/ PersistMetadata(p)

Sweep(p) ==
  \/ BeginSweep(p) \/ EndSweep(p)
  \/ \E l \in Label : Skip(p, l) \/ PersistProviderUpdate(p, l) \/ Observe(p, l)
  \/ TargetChanged(p) \/ MergeFailure(p) \/ ExchangeRaises(p)
  \/ PersistenceFails(p) \/ RecordFailed(p)
  \/ \E c \in Cred : MergeSuccess(p, c)

\* History: what the authority gave up.
Retire == retired' = retired \cup (Held(accounts) \ Held(accounts'))

Next ==
  /\ \E p \in Proc : Load(p) \/ ReadFresh(p) \/ OneCommit(p) \/ Sweep(p) \/ Leave(p)
  /\ Retire

Spec == Init /\ [][Next]_vars

-----------------------------------------------------------------------------
(* Properties. *)

TypeOK ==
  /\ accounts \in [Label -> AccountOrNone]
  /\ bundle \in [Label -> Cred \cup {None}]
  /\ version \in 1..MaxVersion
  /\ cache \in [Proc -> [Label -> AccountOrNone]]
  /\ base \in [Proc -> 0..MaxVersion]
  /\ pc \in [Proc -> {"idle", "ready", "sweep", "exchange", "record"}]
  /\ work \in [Proc -> [Label -> AccountOrNone]]
  /\ target \in [Proc -> Label \cup {None}]
  /\ expected \in [Proc -> AccountOrNone]
  /\ retired \subseteq Cred

\* A copy whose baseline is still the authority's is the authority, so that a
\* candidate made from it loses nothing (_adopt_fresh, _baseline_matches).
CopiesCurrent == \A p \in Proc : base[p] = version => cache[p] = accounts

\* Every private home an account refers to holds that account's credential, and
\* belongs to one account (_commit_credentials, merge_credential_refresh).
BundlesAgree ==
  /\ HomesUnique(accounts)
  /\ \A l \in Used(accounts) :
       accounts[l].home # None => bundle[accounts[l].home] = accounts[l].cred

\* What the change that p's commit makes to label l was decided from: the copy a
\* command loaded, or the account a refresh exchanged the credential of.  The
\* failure path of the sweep decides from its snapshot and puts that account back.
DecidedFrom(p, l, account) ==
  \/ pc[p] = "ready" /\ cache[p][l] = account
  \/ pc[p] = "exchange" /\ target[p] = l /\ expected[p] = account
  \/ pc[p] = "record" /\ target[p] = l

\* Nobody's update is lost: an account is changed only by a commit decided from that
\* very account, whatever other processes committed since it was read
\* (SourceChangedError).  The one exception is the account whose failed refresh
\* _record_failed records: NeverReturns shows what is lost there.
NoLostUpdate ==
  [][\A l \in Label : accounts'[l] # accounts[l] =>
       \E p \in Proc : base'[p] = version' /\ DecidedFrom(p, l, accounts[l])]_vars

\* A Codex credential that was rotated, replaced or removed never comes back: the
\* bundle a stale account would need was not prepared
\* (PrivateCredentialCollisionError).
PrivateNeverReturns == \A c \in Private \cap retired : c \notin Held(accounts)

-----------------------------------------------------------------------------
(* What the documentation says and the code does not do. *)

\* "A newer, removed, or renamed target is never overwritten or resurrected"
\* (docs/persistence-and-recovery.md): what the authority gave up never comes
\* back.  _record_failed persists the account of the snapshot after the refresh
\* adopted a newer baseline.
NeverReturns == \A c \in retired : c \notin Held(accounts)

\* "Remove provider accounts and their unreferenced private bundles"
\* (reset_provider_credentials): no private home survives the reset of Codex
\* accounts.  A refresh after a rename leaves the home of the old label behind.
ResetRemovesBundles ==
  [][(\E p \in Proc : ResetProvider(p, TRUE)) /\ version' # version
     => \A h \in Label : bundle'[h] = None]_vars

=============================================================================
