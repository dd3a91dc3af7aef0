-------------------------- MODULE AccountStoreTheorems --------------------------
(***************************************************************************)
(* What holds of the account store for every set of processes, labels and  *)
(* credentials: the authority and the private bundles agree, and no commit *)
(* loses another's.  The argument is the copy invariant: a process whose   *)
(* baseline still matches holds exactly the accounts of the authority.     *)
(* That no private credential comes back rests on a second one: wherever   *)
(* such a credential is, in a copy of whatever age, its home is with it.   *)
(***************************************************************************)
EXTENDS AccountStore, TLAPS

USE CredAssumption, NoneAssumption, NoAccountAssumption, MaxVersionAssumption

\* The inductive invariant: the store and its copies, and what the sweeps know.
StoreCoherent ==
  /\ accounts \in [Label -> AccountOrNone]
  /\ bundle \in [Label -> Cred \cup {None}]
  /\ version \in 1..MaxVersion
  /\ cache \in [Proc -> [Label -> AccountOrNone]]
  /\ base \in [Proc -> 0..MaxVersion]
  /\ \A p \in Proc : base[p] <= version
  /\ CopiesCurrent
  /\ CredentialsUnique(accounts)
  /\ BundlesAgree

SweepsCoherent ==
  /\ pc \in [Proc -> {"idle", "ready", "sweep", "exchange", "record"}]
  /\ work \in [Proc -> [Label -> AccountOrNone]]
  /\ target \in [Proc -> Label \cup {None}]
  /\ expected \in [Proc -> AccountOrNone]
  /\ retired \subseteq Cred
  /\ \A p \in Proc : pc[p] \in {"exchange", "record"} => target[p] \in Label
  /\ \A p \in Proc : pc[p] = "exchange" => expected[p] # NoAccount

Coherent == StoreCoherent /\ SweepsCoherent

-----------------------------------------------------------------------------
(* The store. *)

\* The owner of a private home is the account that refers to it.
LEMMA OwnerOf ==
  ASSUME NEW a \in [Label -> AccountOrNone], NEW l \in Used(a), HomesUnique(a),
         a[l].home # None
  PROVE  Owner(a, a[l].home) = l
BY DEF Owner, HomesUnique, Used

\* An account's credential and home are what their names say.
LEMMA AccountFields ==
  ASSUME NEW a \in [Label -> AccountOrNone], NEW l \in Used(a)
  PROVE  /\ l \in Label /\ a[l] \in Account
         /\ a[l].cred \in Cred /\ a[l].home \in Label \cup {None}
BY DEF Used, AccountOrNone, Account

\* Adopting accounts together with their own generation keeps copies current
\* (_adopt_fresh).
LEMMA Adopting ==
  ASSUME StoreCoherent, NEW p \in Proc, Adopt(p, accounts', version'),
         accounts' \in [Label -> AccountOrNone], version' \in 1..MaxVersion,
         \/ version' = version /\ accounts' = accounts
         \/ version' = version + 1
  PROVE  /\ cache' \in [Proc -> [Label -> AccountOrNone]]
         /\ base' \in [Proc -> 0..MaxVersion]
         /\ \A q \in Proc : base'[q] <= version'
         /\ CopiesCurrent'
BY DEF Adopt, StoreCoherent, CopiesCurrent

LEMMA Unadopted ==
  ASSUME StoreCoherent, UNCHANGED <<durable, loaded>>
  PROVE  StoreCoherent'
BY DEF StoreCoherent, CopiesCurrent, BundlesAgree, CredentialsUnique,
       HomesUnique, Used, durable, loaded

LEMMA AdoptedCurrent ==
  ASSUME StoreCoherent, NEW p \in Proc, UNCHANGED durable,
         Adopt(p, accounts, version)
  PROVE  StoreCoherent'
<1>1. /\ accounts' = accounts /\ bundle' = bundle /\ version' = version
      /\ Adopt(p, accounts', version')
  BY DEF durable, Adopt
<1>2. CredentialsUnique(accounts') /\ BundlesAgree'
  BY <1>1 DEF StoreCoherent, BundlesAgree, CredentialsUnique,
              HomesUnique, Used
<1> QED
  BY <1>1, <1>2, Adopting DEF StoreCoherent

\* A generation that keeps every account keeps the store coherent.
LEMMA Touched ==
  ASSUME StoreCoherent, NEW p \in Proc, Install(accounts, {}, {}),
         Adopt(p, accounts, version + 1)
  PROVE  StoreCoherent'
<1>1. /\ accounts' = accounts /\ version' = version + 1
      /\ bundle' = bundle /\ version' \in 1..MaxVersion
      /\ Adopt(p, accounts', version')
  BY DEF Install, Adopt, StoreCoherent
<1>2. CredentialsUnique(accounts') /\ BundlesAgree'
  BY <1>1 DEF StoreCoherent, BundlesAgree, CredentialsUnique,
              HomesUnique, Used
<1> QED
  BY <1>1, <1>2, Adopting DEF StoreCoherent

\* A candidate that _commit_credentials accepts leaves bundles and authority in
\* agreement.
LEMMA CommitAgrees ==
  ASSUME StoreCoherent, NEW p \in Proc, NEW new \in [Label -> AccountOrNone],
         NEW prepared \in SUBSET Label, Commit(p, new, prepared)
  PROVE  CredentialsUnique(accounts') /\ BundlesAgree'
<1>1. cache[p] = accounts
  BY DEF StoreCoherent, CopiesCurrent, Commit, Acceptable, BaselineMatches
<1>2. /\ accounts' = new
      /\ CredentialsUnique(new)
      /\ HomesUnique(accounts) /\ HomesUnique(new)
      /\ References(new) \ References(accounts) \subseteq prepared
      /\ {h \in References(accounts) \cap References(new) :
            accounts[Owner(accounts, h)].cred # new[Owner(new, h)].cred}
         \subseteq prepared
      /\ bundle' = [h \in Label |->
           IF h \in prepared THEN new[Owner(new, h)].cred
           ELSE IF h \in References(accounts) \ References(new) THEN None
           ELSE bundle[h]]
  BY <1>1 DEF Commit, Acceptable, Encodable, Proven, Install
<1>3. CredentialsUnique(accounts')
  BY <1>2 DEF CredentialsUnique, Used
<1>4. ASSUME NEW l \in Used(new), new[l].home # None
      PROVE  bundle'[new[l].home] = new[l].cred
  <2> DEFINE h == new[l].home
  <2>1. h \in Label /\ h \in References(new)
    BY <1>4, AccountFields DEF References
  <2>2. Owner(new, h) = l
    BY <1>2, <1>4, OwnerOf
  <2>3. CASE h \in prepared
    BY <1>2, <2>1, <2>2, <2>3
  <2>4. CASE h \notin prepared
    <3>1. h \in References(accounts)
      BY <1>2, <2>1, <2>4
    <3>2. PICK m \in Used(accounts) : accounts[m].home = h
      BY <3>1 DEF References
    <3>3. Owner(accounts, h) = m
      BY <1>2, <1>4, <3>2, OwnerOf DEF StoreCoherent
    <3>4. accounts[m].cred = new[l].cred
      BY <1>2, <2>1, <2>2, <2>4, <3>1, <3>3
    <3>5. bundle[h] = accounts[m].cred
      BY <1>4, <3>2 DEF StoreCoherent, BundlesAgree
    <3> QED
      BY <1>2, <2>1, <2>4, <3>4, <3>5
  <2> QED
    BY <2>3, <2>4
<1>5. HomesUnique(accounts')
  BY <1>2
<1> QED
  BY <1>2, <1>3, <1>4, <1>5 DEF BundlesAgree, Used

LEMMA Committed ==
  ASSUME StoreCoherent, NEW p \in Proc, NEW new \in [Label -> AccountOrNone],
         NEW prepared \in SUBSET Label, Commit(p, new, prepared)
  PROVE  StoreCoherent'
<1>1. CredentialsUnique(accounts') /\ BundlesAgree'
  BY CommitAgrees
<1>2. /\ accounts' = new /\ version' = version + 1 /\ version' \in 1..MaxVersion
      /\ Adopt(p, accounts', version')
  BY DEF Commit, Install, StoreCoherent
<1>3. bundle' \in [Label -> Cred \cup {None}]
  <2> SUFFICES ASSUME NEW h \in Label
               PROVE  bundle'[h] \in Cred \cup {None}
    BY DEF Commit, Install
  <2>1. CASE h \in prepared
    <3>1. PICK l \in Used(new) : new[l].home = h
      BY <2>1 DEF Commit, Acceptable, Proven, References
    <3>2. Owner(new, h) = l
      BY <3>1, OwnerOf DEF Commit, Acceptable, Proven
    <3> QED
      BY <2>1, <3>1, <3>2, AccountFields DEF Commit, Install
  <2>2. CASE h \notin prepared
    BY <2>2 DEF Commit, Install, StoreCoherent
  <2> QED
    BY <2>1, <2>2
<1> QED
  BY <1>1, <1>2, <1>3, Adopting DEF StoreCoherent

\* The merge of a rotated credential: its home was free or the account's own.
LEMMA Merged ==
  ASSUME Coherent, NEW p \in Proc, NEW c \in Cred, MergeSuccess(p, c)
  PROVE  StoreCoherent'
<1> DEFINE l == target[p]
           home == IF c \in Private THEN l ELSE None
           new == [accounts EXCEPT ![l] = [cred |-> c, home |-> home]]
<1>1. /\ l \in Used(accounts) /\ l \in Label /\ expected[p] = accounts[l]
      /\ Fresh(c) /\ (c \in Private => TargetUsable(l, accounts[l]))
  BY DEF MergeSuccess, Coherent, SweepsCoherent, Unchanged, Used
<1>2. /\ accounts' = new /\ version' = version + 1 /\ version' \in 1..MaxVersion
      /\ Adopt(p, accounts', version')
      /\ bundle' = [h \in Label |->
           IF h \in {home} \ {None} THEN new[Owner(new, h)].cred ELSE bundle[h]]
  BY DEF MergeSuccess, Install, Coherent, StoreCoherent
<1>3. new \in [Label -> AccountOrNone] /\ new[l] = [cred |-> c, home |-> home]
  BY <1>1 DEF Coherent, StoreCoherent, AccountOrNone, Account
<1>4. Used(new) = Used(accounts)
  BY <1>1, <1>3 DEF Used, Coherent, StoreCoherent, Account
<1>5. \A m \in Used(accounts) : m # l /\ home # None => accounts[m].home # home
  <2> SUFFICES ASSUME NEW m \in Used(accounts), m # l, home # None,
                      accounts[m].home = home
               PROVE  FALSE
    OBVIOUS
  <2>1. c \in Private /\ home = l /\ TargetUsable(l, accounts[l])
    BY <1>1
  <2>2. bundle[l] = accounts[m].cred /\ accounts[m].cred \in Cred
    BY <2>1, AccountFields DEF Coherent, StoreCoherent, BundlesAgree
  <2>3. accounts[l].home = l
    BY <1>1, <2>1, <2>2 DEF TargetUsable
  <2> QED
    BY <1>1, <2>1, <2>3 DEF Coherent, StoreCoherent, BundlesAgree, HomesUnique
<1>6. HomesUnique(new)
  <2> SUFFICES ASSUME NEW i \in Used(accounts), NEW j \in Used(accounts),
                      new[i].home = new[j].home, new[i].home # None
               PROVE  i = j
    BY <1>4 DEF HomesUnique
  <2>1. CASE i = l /\ j # l
    BY <2>1, <1>1, <1>3, <1>5, AccountFields DEF Coherent, StoreCoherent
  <2>2. CASE i # l /\ j = l
    BY <2>2, <1>1, <1>3, <1>5, AccountFields DEF Coherent, StoreCoherent
  <2>3. CASE i # l /\ j # l
    BY <2>3, AccountFields
       DEF Coherent, StoreCoherent, BundlesAgree, HomesUnique
  <2> QED
    BY <2>1, <2>2, <2>3
<1>7. CredentialsUnique(accounts')
  <2> SUFFICES ASSUME NEW i \in Used(accounts), NEW j \in Used(accounts),
                      new[i].cred = new[j].cred
               PROVE  i = j
    BY <1>2, <1>4 DEF CredentialsUnique, Used
  <2>1. \A m \in Used(accounts) : accounts[m].cred # c
    BY <1>1 DEF Fresh, Held
  <2>2. \A m \in Used(accounts) : m # l => new[m] = accounts[m]
    BY AccountFields DEF Coherent, StoreCoherent
  <2> QED
    BY <1>3, <2>1, <2>2 DEF Coherent, StoreCoherent, CredentialsUnique
<1>8. ASSUME NEW m \in Used(new), new[m].home # None
      PROVE  bundle'[new[m].home] = new[m].cred
  <2>1. new[m].home \in Label /\ Owner(new, new[m].home) = m
    BY <1>3, <1>6, <1>8, AccountFields, OwnerOf
  <2>2. CASE m = l
    BY <1>2, <1>3, <1>8, <2>1, <2>2
  <2>3. CASE m # l
    <3>1. new[m] = accounts[m] /\ m \in Used(accounts)
      BY <1>4, <2>3, AccountFields DEF Coherent, StoreCoherent
    <3>2. new[m].home # home
      BY <1>5, <1>8, <2>3, <3>1
    <3> QED
      BY <1>2, <1>8, <2>1, <3>1, <3>2 DEF Coherent, StoreCoherent, BundlesAgree
  <2> QED
    BY <2>2, <2>3
<1>9. BundlesAgree'
  BY <1>2, <1>6, <1>8 DEF BundlesAgree, HomesUnique, Used
<1>10. bundle' \in [Label -> Cred \cup {None}]
  <2> SUFFICES ASSUME NEW h \in Label
               PROVE  bundle'[h] \in Cred \cup {None}
    BY <1>2
  <2>1. CASE h = home
    BY <1>1, <1>2, <1>3, <1>4, <1>6, <2>1, OwnerOf
  <2>2. CASE h # home
    BY <1>2, <2>2 DEF Coherent, StoreCoherent
  <2> QED
    BY <2>1, <2>2
<1> QED
  BY <1>2, <1>3, <1>7, <1>9, <1>10, Adopting DEF Coherent, StoreCoherent

-----------------------------------------------------------------------------
(* The sweeps. *)

LEMMA Exits ==
  ASSUME SweepsCoherent, NEW p \in Proc, Exit(p), retired' \subseteq Cred
  PROVE  SweepsCoherent'
<1>1. NoAccounts \in [Label -> AccountOrNone] /\ NoAccount \in AccountOrNone
  BY DEF NoAccounts, AccountOrNone
<1> QED
  BY <1>1 DEF SweepsCoherent, Exit

LEMMA Continues ==
  ASSUME SweepsCoherent, NEW p \in Proc, NEW l \in Label, retired' \subseteq Cred,
         Done(p, l)
  PROVE  SweepsCoherent'
<1>1. NoAccount \in AccountOrNone
  BY DEF AccountOrNone
<1> QED
  BY <1>1 DEF SweepsCoherent, Done

LEMMA GoesOnRefreshed ==
  ASSUME SweepsCoherent, NEW p \in Proc, NEW l \in Label,
         NEW a \in AccountOrNone, retired' \subseteq Cred, Refreshed(p, l, a)
  PROVE  SweepsCoherent'
<1>1. NoAccount \in AccountOrNone
  BY DEF AccountOrNone
<1>2. PICK left \in {NoAccount, a} : work' = [work EXCEPT ![p][l] = left]
  BY DEF Refreshed, Done
<1>3. work' \in [Proc -> [Label -> AccountOrNone]]
  BY <1>1, <1>2 DEF SweepsCoherent
<1>4. pc' = [pc EXCEPT ![p] = "sweep"] /\ target' = [target EXCEPT ![p] = None]
      /\ expected' = [expected EXCEPT ![p] = NoAccount]
  BY DEF Refreshed, Done
<1> QED
  BY <1>1, <1>3, <1>4 DEF SweepsCoherent

LEMMA Records ==
  ASSUME SweepsCoherent, NEW p \in Proc, retired' \subseteq Cred,
         pc[p] = "exchange", pc' = [pc EXCEPT ![p] = "record"], UNCHANGED sweep
  PROVE  SweepsCoherent'
BY DEF SweepsCoherent, sweep

LEMMA Moves ==
  ASSUME SweepsCoherent, NEW p \in Proc, NEW step \in {"ready", "sweep"},
         retired' \subseteq Cred, pc' = [pc EXCEPT ![p] = step],
         UNCHANGED <<target, expected>>,
         work' \in [Proc -> [Label -> AccountOrNone]]
  PROVE  SweepsCoherent'
BY DEF SweepsCoherent

LEMMA Stays ==
  ASSUME SweepsCoherent, retired' \subseteq Cred, UNCHANGED <<pc, sweep>>
  PROVE  SweepsCoherent'
BY DEF SweepsCoherent, sweep

\* Only credentials are retired.
LEMMA Retires ==
  ASSUME Coherent, Retire
  PROVE  retired' \subseteq Cred
BY AccountFields DEF Coherent, StoreCoherent, SweepsCoherent, Retire, Held

-----------------------------------------------------------------------------
(* Every command. *)

\* A command that commits one candidate, or is refused.
LEMMA CommandCoherent ==
  ASSUME Coherent, Retire, NEW p \in Proc, NEW new \in [Label -> AccountOrNone],
         NEW prepared \in SUBSET Label, Command(p, new, prepared)
  PROVE  Coherent'
<1>1. retired' \subseteq Cred
  BY Retires
<1>2. CASE Commit(p, new, prepared) /\ UNCHANGED <<pc, sweep>>
  BY <1>1, <1>2, Committed, Stays DEF Coherent
<1>3. CASE Refused(p, new, prepared)
  BY <1>1, <1>3, Unadopted, Exits DEF Coherent, Refused
<1> QED
  BY <1>2, <1>3 DEF Command

\* save, remove, rename, provider reset and metadata.
LEMMA OneCommitCoherent ==
  ASSUME Coherent, Retire, NEW p \in Proc, OneCommit(p)
  PROVE  Coherent'
<1>1. /\ cache[p] \in [Label -> AccountOrNone] /\ NoAccount \in AccountOrNone
      /\ {} \in SUBSET Label
  BY DEF Coherent, StoreCoherent, AccountOrNone
<1>2. CASE \E l \in Label : Remove(p, l)
  BY <1>1, <1>2, CommandCoherent DEF Remove
<1>3. CASE \E l, m \in Label : Rename(p, l, m)
  BY <1>1, <1>3, CommandCoherent DEF Rename
<1>4. ASSUME NEW l \in Label, NEW m \in Label, NEW c \in Cred, Save(p, l, m, c)
      PROVE  Coherent'
  <2> DEFINE home == IF c \in Private THEN l ELSE None
             new == [cache[p] EXCEPT ![m] = NoAccount,
                                     ![l] = [cred |-> c, home |-> home]]
  <2>1. Command(p, new, {home} \ {None})
    BY <1>4 DEF Save
  <2>2. new \in [Label -> AccountOrNone] /\ {home} \ {None} \in SUBSET Label
    BY <1>1 DEF AccountOrNone, Account
  <2> QED
    BY <2>1, <2>2, CommandCoherent
<1>5. CASE \E codex \in BOOLEAN : ResetProvider(p, codex)
  <2>1. PICK codex \in BOOLEAN : ResetProvider(p, codex)
    BY <1>5
  <2> DEFINE mine == {l \in Used(cache[p]) : (cache[p][l].cred \in Private) = codex}
             new == [l \in Label |-> IF l \in mine THEN NoAccount ELSE cache[p][l]]
  <2>2. Command(p, new, {})
    BY <2>1 DEF ResetProvider
  <2>3. new \in [Label -> AccountOrNone]
    BY <1>1
  <2> QED
    BY <1>1, <2>2, <2>3, CommandCoherent
<1>6. CASE PersistMetadata(p)
  BY <1>1, <1>6, CommandCoherent DEF PersistMetadata
<1> QED
  BY <1>2, <1>3, <1>4, <1>5, <1>6 DEF OneCommit

\* The sweep and the refreshes it makes.
LEMMA SweepCoherent ==
  ASSUME Coherent, Retire, NEW p \in Proc, Sweep(p)
  PROVE  Coherent'
<1>1. /\ cache[p] \in [Label -> AccountOrNone] /\ NoAccount \in AccountOrNone
      /\ work[p] \in [Label -> AccountOrNone] /\ {} \in SUBSET Label
      /\ \A l \in Label : accounts[l] \in AccountOrNone
  BY DEF Coherent, StoreCoherent, SweepsCoherent, AccountOrNone
<1>2. retired' \subseteq Cred
  BY Retires
<1>3. CASE BeginSweep(p)
  <2>1. work' \in [Proc -> [Label -> AccountOrNone]]
    BY <1>1, <1>3 DEF BeginSweep, Coherent, SweepsCoherent
  <2> QED
    BY <1>2, <1>3, <2>1, Unadopted, Moves DEF BeginSweep, Coherent
<1>4. CASE EndSweep(p)
  <2>1. /\ work' \in [Proc -> [Label -> AccountOrNone]]
        /\ UNCHANGED <<target, expected>>
    BY <1>4 DEF EndSweep, Coherent, SweepsCoherent, sweep
  <2> QED
    BY <1>2, <1>4, <2>1, Unadopted, Moves DEF EndSweep, Coherent
<1>5. ASSUME NEW l \in Label, Skip(p, l)
      PROVE  Coherent'
  BY <1>2, <1>5, Unadopted, Continues DEF Skip, Coherent
<1>6. ASSUME NEW l \in Label, PersistProviderUpdate(p, l)
      PROVE  Coherent'
  BY <1>1, <1>2, <1>6, Committed, Continues DEF PersistProviderUpdate, Coherent
<1>7. ASSUME NEW l \in Label, Observe(p, l)
      PROVE  Coherent'
  <2>1. StoreCoherent'
    BY <1>7, AdoptedCurrent DEF Observe, Coherent
  <2>2. SweepsCoherent'
    <3> USE DEF Used
    <3> QED
      BY <1>1, <1>2, <1>7 DEF Observe, Coherent, SweepsCoherent
  <2> QED
    BY <2>1, <2>2 DEF Coherent
<1>8. CASE TargetChanged(p)
  <2>1. StoreCoherent'
    BY <1>8, AdoptedCurrent DEF TargetChanged, Coherent
  <2>2. target[p] \in Label
    BY <1>8 DEF TargetChanged, Coherent, SweepsCoherent
  <2>3. SweepsCoherent'
    BY <1>1, <1>2, <1>8, <2>2, GoesOnRefreshed, Records
       DEF TargetChanged, Coherent
  <2> QED
    BY <2>1, <2>3 DEF Coherent
<1>9. CASE MergeFailure(p)
  BY <1>2, <1>9, Touched, Records DEF MergeFailure, Coherent
<1>10. CASE ExchangeRaises(p)
  BY <1>2, <1>10, Unadopted, Records DEF ExchangeRaises, Coherent
<1>11. CASE PersistenceFails(p)
  <2>1. target[p] \in Label
    BY <1>11 DEF PersistenceFails, Coherent, SweepsCoherent
  <2> QED
    BY <1>2, <1>11, <2>1, Unadopted, Continues DEF PersistenceFails, Coherent
<1>12. CASE RecordFailed(p)
  <2> DEFINE l == target[p]
             new == [cache[p] EXCEPT ![l] = work[p][l]]
  <2>1. l \in Label
    BY <1>12 DEF RecordFailed, Coherent, SweepsCoherent
  <2>2. new \in [Label -> AccountOrNone]
    BY <1>1, <2>1
  <2>3. CASE Commit(p, new, {}) /\ Done(p, l)
    BY <1>1, <1>2, <2>1, <2>2, <2>3, Committed, Continues DEF Coherent
  <2>4. CASE Refused(p, new, {})
    BY <1>2, <2>4, Unadopted, Exits DEF Coherent, Refused
  <2>5. CASE Done(p, l) /\ UNCHANGED <<durable, loaded>>
    BY <1>2, <2>1, <2>5, Unadopted, Continues DEF Coherent
  <2> QED
    BY <1>12, <2>3, <2>4, <2>5 DEF RecordFailed
<1>13. ASSUME NEW c \in Cred, MergeSuccess(p, c)
       PROVE  Coherent'
  <2>1. StoreCoherent'
    BY <1>13, Merged
  <2>2. target[p] \in Label
    BY <1>13 DEF MergeSuccess, Coherent, SweepsCoherent
  <2>3. [cred |-> c, home |-> IF c \in Private THEN target[p] ELSE None]
          \in AccountOrNone
    BY <2>2 DEF AccountOrNone, Account
  <2>4. PICK a \in AccountOrNone : Refreshed(p, target[p], a)
    BY <1>13, <2>2, <2>3 DEF MergeSuccess, Coherent, StoreCoherent
  <2> QED
    BY <1>2, <2>1, <2>2, <2>4, GoesOnRefreshed DEF Coherent
<1> QED
  BY <1>3, <1>4, <1>5, <1>6, <1>7, <1>8, <1>9, <1>10, <1>11, <1>12, <1>13
     DEF Sweep

-----------------------------------------------------------------------------
(* The theorems. *)

LEMMA InitCoherent == Init => Coherent
<1> SUFFICES ASSUME Init
             PROVE  Coherent
  OBVIOUS
<1>1. NoAccounts \in [Label -> AccountOrNone] /\ NoAccount \in AccountOrNone
  BY DEF NoAccounts, AccountOrNone
<1>2. \A l \in Used(accounts) : accounts[l].home # None => accounts[l].home = l
  BY DEF Init, Used
<1>3. BundlesAgree
  BY <1>2, AccountFields DEF Init, BundlesAgree, HomesUnique, References
<1>4. bundle \in [Label -> Cred \cup {None}]
  <2> SUFFICES ASSUME NEW h \in References(accounts), h \in Label
               PROVE  accounts[h].cred \in Cred
    BY DEF Init
  <2>1. PICK l \in Used(accounts) : accounts[l].home = h
    BY DEF References
  <2>2. h = l
    BY <1>2, <2>1
  <2> QED
    BY <2>1, <2>2, AccountFields DEF Init
<1>5. StoreCoherent
  BY <1>1, <1>3, <1>4 DEF Init, StoreCoherent, CopiesCurrent
<1>6. SweepsCoherent
  BY <1>1 DEF Init, SweepsCoherent
<1> QED
  BY <1>5, <1>6 DEF Coherent

LEMMA NextCoherent == Coherent /\ [Next]_vars => Coherent'
<1> SUFFICES ASSUME Coherent, [Next]_vars
             PROVE  Coherent'
  OBVIOUS
<1>1. CASE UNCHANGED vars
  <2>1. /\ UNCHANGED <<durable, loaded>> /\ UNCHANGED <<pc, sweep>>
        /\ retired' \subseteq Cred
    BY <1>1 DEF vars, durable, loaded, sweep, Coherent, SweepsCoherent
  <2> QED
    BY <2>1, Unadopted, Stays DEF Coherent
<1>2. CASE Next
  <2>1. PICK p \in Proc :
          Load(p) \/ ReadFresh(p) \/ OneCommit(p) \/ Sweep(p) \/ Leave(p)
    BY <1>2 DEF Next
  <2>2. Retire /\ retired' \subseteq Cred
    BY <1>2, Retires DEF Next
  <2>3. CASE Load(p)
    <3>1. /\ UNCHANGED <<target, expected>>
          /\ work' \in [Proc -> [Label -> AccountOrNone]]
      BY <2>3 DEF Load, sweep, Coherent, SweepsCoherent
    <3> QED
      BY <2>2, <2>3, <3>1, AdoptedCurrent, Moves DEF Load, Coherent
  <2>4. CASE ReadFresh(p)
    BY <2>2, <2>4, AdoptedCurrent, Stays DEF ReadFresh, Coherent
  <2>5. CASE OneCommit(p)
    BY <2>2, <2>5, OneCommitCoherent
  <2>6. CASE Sweep(p)
    BY <2>2, <2>6, SweepCoherent
  <2>7. CASE Leave(p)
    BY <2>2, <2>7, Unadopted, Exits DEF Leave, Coherent
  <2> QED
    BY <2>1, <2>3, <2>4, <2>5, <2>6, <2>7
<1> QED
  BY <1>1, <1>2

\* In every reachable state the copies, the authority and the bundles are
\* coherent (_commit_credentials, merge_credential_refresh, read_fresh).
THEOREM StoreInvariance == Spec => []Coherent
BY InitCoherent, NextCoherent, PTL DEF Spec

\* Every variable keeps its type.
THEOREM StoreTypeCorrect == Spec => []TypeOK
<1>1. Coherent => TypeOK
  BY DEF Coherent, StoreCoherent, SweepsCoherent, TypeOK
<1> QED
  BY <1>1, StoreInvariance, PTL

\* A copy whose baseline is current is the authority, for any number of processes.
THEOREM CopiesCurrentHolds == Spec => []CopiesCurrent
<1>1. Coherent => CopiesCurrent
  BY DEF Coherent, StoreCoherent
<1> QED
  BY <1>1, StoreInvariance, PTL

\* Authority and private bundles always agree.
THEOREM BundlesAgreeHolds == Spec => []BundlesAgree
<1>1. Coherent => BundlesAgree
  BY DEF Coherent, StoreCoherent
<1> QED
  BY <1>1, StoreInvariance, PTL

-----------------------------------------------------------------------------
(* No lost update. *)

\* Every account the step changes, it changes by a commit decided from that account.
Justified ==
  \A l \in Label : accounts'[l] # accounts[l] =>
    \E p \in Proc : base'[p] = version' /\ DecidedFrom(p, l, accounts[l])

\* An accepted candidate replaces exactly the accounts it was made from.
LEMMA CommitReplaces ==
  ASSUME StoreCoherent, NEW p \in Proc, NEW new, NEW prepared,
         Commit(p, new, prepared)
  PROVE  cache[p] = accounts /\ accounts' = new
BY DEF StoreCoherent, CopiesCurrent, Commit, Acceptable, BaselineMatches, Install

\* A command of one commit leaves the authority, or installs its candidate there.
LEMMA CommandReplaces ==
  ASSUME StoreCoherent, NEW p \in Proc, NEW new, NEW prepared,
         Command(p, new, prepared)
  PROVE  \/ accounts' = accounts
         \/ cache[p] = accounts /\ accounts' = new
BY CommitReplaces DEF Command, Refused, durable

LEMMA UnchangedJustified ==
  ASSUME accounts' = accounts
  PROVE  Justified
BY DEF Justified

\* The baseline a committing process adopts is the generation it made.
LEMMA CommitterAdopts ==
  ASSUME StoreCoherent, NEW p \in Proc, Adopt(p, accounts', version')
  PROVE  base'[p] = version'
BY DEF StoreCoherent, Adopt

\* A command of one commit was decided from the copy it loaded.
LEMMA CommandJustified ==
  ASSUME StoreCoherent, NEW p \in Proc, NEW new, NEW prepared,
         Command(p, new, prepared)
  PROVE  Justified
<1>1. pc[p] = "ready"
  BY DEF Command
<1>2. CASE Commit(p, new, prepared)
  <2>1. cache[p] = accounts
    BY <1>2, CommitReplaces
  <2>2. Adopt(p, accounts', version')
    BY <1>2 DEF Commit, Install
  <2> QED
    BY <1>1, <2>1, <2>2, CommitterAdopts DEF Justified, DecidedFrom
<1>3. CASE Refused(p, new, prepared)
  BY <1>3, UnchangedJustified DEF Refused, durable
<1> QED
  BY <1>2, <1>3 DEF Command

LEMMA OneCommitJustified ==
  ASSUME StoreCoherent, NEW p \in Proc, OneCommit(p)
  PROVE  Justified
<1>1. PICK new, prepared : Command(p, new, prepared)
  BY DEF OneCommit, Remove, Rename, Save, ResetProvider, PersistMetadata
<1> QED
  BY <1>1, CommandJustified

\* A refresh changes its target, and only while that is what it was made for.
LEMMA SweepJustified ==
  ASSUME Coherent, NEW p \in Proc, Sweep(p)
  PROVE  Justified
<1> USE DEF Coherent
<1>1. CASE RecordFailed(p)
  <2> DEFINE new == [cache[p] EXCEPT ![target[p]] = work[p][target[p]]]
  <2>1. CASE accounts' = accounts
    BY <2>1, UnchangedJustified
  <2>2. CASE Commit(p, new, {})
    <3>1. accounts' = [accounts EXCEPT ![target[p]] = work[p][target[p]]]
      BY <2>2, CommitReplaces
    <3>2. Adopt(p, accounts', version')
      BY <2>2 DEF Commit, Install
    <3>3. \A l \in Label : accounts'[l] # accounts[l] => l = target[p]
      BY <3>1 DEF StoreCoherent
    <3>4. pc[p] = "record" /\ base'[p] = version'
      BY <1>1, <3>2, CommitterAdopts DEF RecordFailed
    <3> QED
      BY <3>3, <3>4 DEF Justified, DecidedFrom
  <2> QED
    BY <1>1, <2>1, <2>2 DEF RecordFailed, Refused, durable
<1>2. ASSUME NEW c \in Cred, MergeSuccess(p, c)
      PROVE  Justified
  <2>1. PICK x : /\ accounts' = [accounts EXCEPT ![target[p]] = x]
                 /\ Adopt(p, accounts', version')
    BY <1>2 DEF MergeSuccess, Install
  <2>2. \A l \in Label : accounts'[l] # accounts[l] => l = target[p]
    BY <2>1 DEF StoreCoherent
  <2>3. pc[p] = "exchange" /\ expected[p] = accounts[target[p]] /\ base'[p] = version'
    BY <1>2, <2>1, CommitterAdopts DEF MergeSuccess, Unchanged
  <2> QED
    BY <2>2, <2>3 DEF Justified, DecidedFrom
<1>3. ASSUME NEW l \in Label, PersistProviderUpdate(p, l)
      PROVE  accounts' = accounts
  BY <1>3, CommitReplaces DEF PersistProviderUpdate
<1>4. ASSUME NEW l \in Label, Skip(p, l) \/ Observe(p, l)
      PROVE  accounts' = accounts
  BY <1>4 DEF Skip, Observe, durable
<1>5. \/ BeginSweep(p) \/ EndSweep(p) \/ TargetChanged(p) \/ MergeFailure(p)
      \/ ExchangeRaises(p) \/ PersistenceFails(p)
      => accounts' = accounts
  BY DEF BeginSweep, EndSweep, TargetChanged, MergeFailure, ExchangeRaises,
         PersistenceFails, Install, durable
<1> QED
  BY <1>1, <1>2, <1>3, <1>4, <1>5, UnchangedJustified DEF Sweep

\* Nobody's update is lost, for any number of processes that hold copies of any age:
\* a command commits only over the accounts it loaded, and a refresh only over the
\* account it exchanged the credential of.  What the failure path does to its own
\* target is excepted (_commit_credentials, merge_credential_refresh).
THEOREM NoLostUpdateHolds == Spec => NoLostUpdate
<1>1. Coherent /\ [Next]_vars => [Justified]_vars
  <2> SUFFICES ASSUME Coherent, Next
               PROVE  Justified
    OBVIOUS
  <2>1. PICK p \in Proc :
          Load(p) \/ ReadFresh(p) \/ OneCommit(p) \/ Sweep(p) \/ Leave(p)
    BY DEF Next
  <2>2. CASE OneCommit(p)
    BY <2>2, OneCommitJustified DEF Coherent
  <2>3. CASE Sweep(p)
    BY <2>3, SweepJustified
  <2>4. CASE Load(p) \/ ReadFresh(p) \/ Leave(p)
    BY <2>4, UnchangedJustified DEF Load, ReadFresh, Leave, durable
  <2> QED
    BY <2>1, <2>2, <2>3, <2>4
<1> QED
  BY <1>1, StoreInvariance, PTL DEF Spec, NoLostUpdate, Justified

-----------------------------------------------------------------------------
(* No private credential returns. *)

\* A private credential is never without its home: the account of an older copy
\* therefore names a bundle, and _commit_credentials asks for that bundle.
HasHome(x) == x # NoAccount /\ x.cred \in Private => x.home # None
Homed(a) == \A l \in Label : HasHome(a[l])

CopiesHomed == \A p \in Proc : Homed(cache[p]) /\ Homed(work[p])

PrivateInv == Homed(accounts) /\ CopiesHomed /\ PrivateNeverReturns

\* What a step may bring: private credentials the authority has already, or that
\* it never had, each with its home.
BringsFresh ==
  /\ Homed(accounts')
  /\ \A c \in Private \cap Held(accounts') : c \in Held(accounts) \/ Fresh(c)

\* Where what a step leaves in a copy or in the rest of a sweep comes from.
Copied ==
  \A p \in Proc, l \in Label :
    /\ cache'[p][l] \in {cache[p][l], accounts'[l]}
    /\ work'[p][l] \in {work[p][l], NoAccount, cache[p][l], accounts'[l]}

LEMMA PrivateStep ==
  ASSUME PrivateInv, BringsFresh, Copied, Retire
  PROVE  PrivateInv'
<1>1. CopiesHomed'
  BY DEF PrivateInv, CopiesHomed, Copied, BringsFresh, Homed, HasHome
<1>2. PrivateNeverReturns'
  BY DEF PrivateInv, PrivateNeverReturns, BringsFresh, Retire, Fresh
<1>3. (Homed(accounts))'
  BY DEF BringsFresh, Homed
<1> QED
  BY <1>1, <1>2, <1>3 DEF PrivateInv

\* A generation whose accounts are all accounts of the last one.
LEMMA BringsNothing ==
  ASSUME PrivateInv,
         \A l \in Label :
           \/ accounts'[l] = NoAccount
           \/ \E m \in Label : accounts'[l] = accounts[m]
  PROVE  BringsFresh
<1>1. Homed(accounts')
  BY DEF PrivateInv, Homed, HasHome
<1>2. Held(accounts') \subseteq Held(accounts)
  BY DEF Held, Used
<1> QED
  BY <1>1, <1>2 DEF BringsFresh

LEMMA BringsSame ==
  ASSUME PrivateInv, accounts' = accounts
  PROVE  BringsFresh
BY BringsNothing

\* A generation with one new account, for a credential that is fresh or held.
LEMMA BringsOne ==
  ASSUME PrivateInv, NEW x, HasHome(x), x.cred \in Held(accounts) \/ Fresh(x.cred),
         \A l \in Label : accounts'[l] \in {accounts[l], NoAccount, x}
  PROVE  BringsFresh
<1>1. Homed(accounts')
  BY DEF PrivateInv, Homed, HasHome
<1>2. \A c \in Held(accounts') : c \in Held(accounts) \/ c = x.cred
  BY DEF Held, Used
<1> QED
  BY <1>1, <1>2 DEF BringsFresh

\* An account of an older copy, committed without a bundle: its home is still
\* referred to, with the same credential.
LEMMA BringsOld ==
  ASSUME Coherent, PrivateInv, NEW l \in Label,
         NEW x \in AccountOrNone, HasHome(x),
         accounts' = [accounts EXCEPT ![l] = x], Proven(accounts, accounts', {})
  PROVE  BringsFresh
<1>1. accounts' \in [Label -> AccountOrNone] /\ accounts'[l] = x
  BY DEF Coherent, StoreCoherent
<1>2. CASE x = NoAccount \/ x.cred \notin Private
  <2>1. Homed(accounts')
    BY <1>1 DEF PrivateInv, Homed, Coherent, StoreCoherent
  <2>2. \A c \in Private \cap Held(accounts') : c \in Held(accounts)
    BY <1>1, <1>2 DEF Held, Used, Coherent, StoreCoherent
  <2> QED
    BY <2>1, <2>2 DEF BringsFresh
<1>3. CASE x # NoAccount /\ x.cred \in Private
  <2>1. l \in Used(accounts') /\ x.home # None
    BY <1>1, <1>3 DEF Used, HasHome
  <2>2. x.home \in References(accounts') /\ x.home \in References(accounts)
    BY <1>1, <2>1 DEF References, Proven
  <2>3. Owner(accounts', x.home) = l
    BY <1>1, <2>1, OwnerOf DEF Proven
  <2>4. PICK m \in Used(accounts) : accounts[m].home = x.home
    BY <2>2 DEF References
  <2>5. Owner(accounts, x.home) = m
    BY <2>1, <2>4, OwnerOf DEF Proven, Coherent, StoreCoherent
  <2>6. accounts[m].cred = x.cred
    BY <1>1, <2>2, <2>3, <2>5 DEF Proven
  <2>7. x.cred \in Held(accounts)
    BY <2>4, <2>6 DEF Held
  <2>8. \A k \in Label : accounts'[k] \in {accounts[k], NoAccount, x}
    BY DEF Coherent, StoreCoherent
  <2> QED
    BY <2>7, <2>8, BringsOne
<1> QED
  BY <1>2, <1>3

\* Each way a step ends leaves only what was there, or what was adopted.
LEMMA AdoptCopies ==
  ASSUME Coherent, NEW p \in Proc, NEW v,
         \/ UNCHANGED loaded
         \/ Adopt(p, accounts, v) /\ accounts' = accounts
         \/ Adopt(p, accounts', v)
  PROVE  \A q \in Proc, l \in Label : cache'[q][l] \in {cache[q][l], accounts'[l]}
BY DEF Coherent, StoreCoherent, Adopt, loaded

LEMMA WorkCopies ==
  ASSUME Coherent, NEW p \in Proc, NEW l \in Label,
         \/ UNCHANGED work
         \/ Exit(p)
         \/ work' = [work EXCEPT ![p] = cache[p]]
         \/ Refreshed(p, l, accounts'[l])
  PROVE  \A q \in Proc, m \in Label :
           work'[q][m] \in {work[q][m], NoAccount, cache[q][m], accounts'[m]}
<1> USE DEF Coherent, SweepsCoherent
<1>1. CASE UNCHANGED work
  BY <1>1
<1>2. CASE Exit(p)
  BY <1>2 DEF Exit, NoAccounts
<1>3. CASE work' = [work EXCEPT ![p] = cache[p]]
  BY <1>3
<1>4. CASE Refreshed(p, l, accounts'[l])
  <2>1. CASE work' = [work EXCEPT ![p][l] = NoAccount]
    BY <2>1
  <2>2. CASE work' = [work EXCEPT ![p][l] = accounts'[l]]
    BY <2>2
  <2> QED
    BY <1>4, <2>1, <2>2 DEF Refreshed, Done
<1> QED
  BY <1>1, <1>2, <1>3, <1>4

LEMMA CommandCopies ==
  ASSUME Coherent, NEW p \in Proc, NEW new, NEW prepared, Command(p, new, prepared)
  PROVE  Copied
<1>1. CASE Commit(p, new, prepared) /\ UNCHANGED <<pc, sweep>>
  <2>1. Adopt(p, accounts', version + 1)
    BY <1>1 DEF Commit, Install
  <2> QED
    BY <1>1, <2>1, AdoptCopies DEF sweep, Copied
<1>2. CASE Refused(p, new, prepared)
  <2>1. CASE Label = {}
    BY <2>1 DEF Copied
  <2>2. CASE Label # {}
    BY <1>2, <2>2, AdoptCopies, WorkCopies DEF Refused, Copied
  <2> QED
    BY <2>1, <2>2
<1> QED
  BY <1>1, <1>2 DEF Command

LEMMA OneCommitPrivate ==
  ASSUME Coherent, PrivateInv, NEW p \in Proc, OneCommit(p)
  PROVE  BringsFresh /\ Copied
<1> USE DEF Coherent, StoreCoherent
<1>1. CASE \E l \in Label : Remove(p, l)
  <2>1. PICK l \in Label : Command(p, [cache[p] EXCEPT ![l] = NoAccount], {})
    BY <1>1 DEF Remove
  <2>2. accounts' = accounts \/ accounts' = [accounts EXCEPT ![l] = NoAccount]
    BY <2>1, CommandReplaces
  <2> QED
    BY <2>1, <2>2, CommandCopies, BringsNothing
<1>2. CASE \E l, m \in Label : Rename(p, l, m)
  <2>1. PICK l \in Label, m \in Label :
          Command(p, [cache[p] EXCEPT ![l] = NoAccount, ![m] = cache[p][l]], {})
    BY <1>2 DEF Rename
  <2>2. \/ accounts' = accounts
        \/ accounts' = [accounts EXCEPT ![l] = NoAccount, ![m] = accounts[l]]
    BY <2>1, CommandReplaces
  <2> QED
    BY <2>1, <2>2, CommandCopies, BringsNothing
<1>3. ASSUME NEW l \in Label, NEW m \in Label, NEW c \in Cred, Save(p, l, m, c)
      PROVE  BringsFresh /\ Copied
  <2> DEFINE x == [cred |-> c, home |-> IF c \in Private THEN l ELSE None]
  <2>1. /\ Command(p, [cache[p] EXCEPT ![m] = NoAccount, ![l] = x],
                   {x.home} \ {None})
        /\ \/ Fresh(c)
           \/ cache[p][m] # NoAccount /\ cache[p][m].cred = c
    BY <1>3 DEF Save
  <2>2. \/ accounts' = accounts
        \/ /\ cache[p] = accounts
           /\ accounts' = [accounts EXCEPT ![m] = NoAccount, ![l] = x]
    BY <2>1, CommandReplaces
  <2>3. HasHome(x) /\ x.cred = c /\ Copied
    BY <2>1, CommandCopies DEF HasHome
  <2>4. CASE accounts' = accounts
    BY <2>3, <2>4, BringsSame
  <2>5. CASE /\ cache[p] = accounts
             /\ accounts' = [accounts EXCEPT ![m] = NoAccount, ![l] = x]
    <3>1. x.cred \in Held(accounts) \/ Fresh(x.cred)
      BY <2>1, <2>3, <2>5 DEF Held, Used
    <3>2. \A k \in Label : accounts'[k] \in {accounts[k], NoAccount, x}
      BY <2>5
    <3> HIDE DEF x, Coherent, StoreCoherent
    <3> QED
      BY <2>3, <3>1, <3>2, BringsOne
  <2> QED
    BY <2>2, <2>4, <2>5
<1>4. CASE \E codex \in BOOLEAN : ResetProvider(p, codex)
  <2>1. PICK codex \in BOOLEAN : ResetProvider(p, codex)
    BY <1>4
  <2> DEFINE mine == {l \in Used(cache[p]) : (cache[p][l].cred \in Private) = codex}
             new == [l \in Label |-> IF l \in mine THEN NoAccount ELSE cache[p][l]]
  <2>2. Command(p, new, {})
    BY <2>1 DEF ResetProvider
  <2>3. \A l \in Label : new[l] \in {NoAccount, cache[p][l]}
    OBVIOUS
  <2> HIDE DEF new
  <2>4. \A l \in Label : accounts'[l] \in {NoAccount, accounts[l]}
    BY <2>2, <2>3, CommandReplaces
  <2> QED
    BY <2>2, <2>4, CommandCopies, BringsNothing
<1>5. CASE PersistMetadata(p)
  <2>1. Command(p, cache[p], {})
    BY <1>5 DEF PersistMetadata
  <2> QED
    BY <2>1, CommandReplaces, CommandCopies, BringsNothing
<1> QED
  BY <1>1, <1>2, <1>3, <1>4, <1>5 DEF OneCommit

LEMMA SweepPrivate ==
  ASSUME Coherent, PrivateInv, NEW p \in Proc, Sweep(p)
  PROVE  BringsFresh /\ Copied
<1>1. CASE RecordFailed(p)
  <2> DEFINE l == target[p]
             new == [cache[p] EXCEPT ![l] = work[p][l]]
  <2>1. l \in Label /\ work[p][l] \in AccountOrNone /\ HasHome(work[p][l])
    BY <1>1 DEF RecordFailed, Coherent, SweepsCoherent, PrivateInv, CopiesHomed,
                Homed
  <2>2. CASE Commit(p, new, {}) /\ Done(p, l)
    <3>1. /\ accounts' = [accounts EXCEPT ![l] = work[p][l]]
          /\ Proven(accounts, accounts', {}) /\ Adopt(p, accounts', version + 1)
      BY <2>2, CommitReplaces DEF Coherent, Commit, Acceptable
    <3>2. Refreshed(p, l, accounts'[l])
      BY <2>2 DEF Refreshed
    <3> QED
      BY <2>1, <3>1, <3>2, BringsOld, AdoptCopies, WorkCopies DEF Copied
  <2>3. CASE Refused(p, new, {}) \/ (Done(p, l) /\ UNCHANGED <<durable, loaded>>)
    <3>1. accounts' = accounts /\ UNCHANGED loaded
      BY <2>3 DEF Refused, durable
    <3>2. Exit(p) \/ Refreshed(p, l, accounts'[l])
      BY <2>3 DEF Refused, Refreshed
    <3> QED
      BY <2>1, <3>1, <3>2, BringsNothing, AdoptCopies, WorkCopies DEF Copied
  <2> QED
    BY <1>1, <2>2, <2>3 DEF RecordFailed
<1>2. ASSUME NEW c \in Cred, MergeSuccess(p, c)
      PROVE  BringsFresh /\ Copied
  <2> DEFINE l == target[p]
             x == [cred |-> c, home |-> IF c \in Private THEN l ELSE None]
  <2>1. l \in Label /\ accounts \in [Label -> AccountOrNone]
    BY <1>2 DEF MergeSuccess, Coherent, StoreCoherent, SweepsCoherent
  <2>2. /\ accounts' = [accounts EXCEPT ![l] = x] /\ Fresh(c)
        /\ Adopt(p, accounts', version + 1) /\ Refreshed(p, l, accounts'[l])
    BY <1>2 DEF MergeSuccess, Install
  <2>3. HasHome(x) /\ x.cred = c
    BY <2>1 DEF HasHome
  <2>4. \A k \in Label : accounts'[k] \in {accounts[k], NoAccount, x}
    BY <2>1, <2>2
  <2>5. BringsFresh
    <3> HIDE DEF x
    <3> QED
      BY <2>2, <2>3, <2>4, BringsOne
  <2> QED
    BY <2>1, <2>2, <2>5, AdoptCopies, WorkCopies DEF Copied
<1>3. ASSUME NEW l \in Label, PersistProviderUpdate(p, l)
      PROVE  BringsFresh /\ Copied
  <2>1. accounts' = accounts /\ Adopt(p, accounts', version + 1)
    BY <1>3, CommitReplaces DEF PersistProviderUpdate, Coherent, Commit, Install
  <2>2. Refreshed(p, l, accounts'[l])
    BY <1>3 DEF PersistProviderUpdate, Refreshed
  <2> QED
    BY <2>1, <2>2, BringsNothing, AdoptCopies, WorkCopies DEF Copied
<1>4. ASSUME NEW l \in Label, Skip(p, l) \/ Observe(p, l)
      PROVE  BringsFresh /\ Copied
  <2>1. /\ accounts' = accounts
        /\ UNCHANGED loaded \/ Adopt(p, accounts, version)
        /\ UNCHANGED work \/ Refreshed(p, l, accounts'[l])
    BY <1>4 DEF Skip, Observe, Refreshed, durable
  <2> QED
    BY <2>1, BringsNothing, AdoptCopies, WorkCopies DEF Copied
<1>5. CASE TargetChanged(p) \/ PersistenceFails(p)
  <2>1. target[p] \in Label
    BY <1>5 DEF TargetChanged, PersistenceFails, Coherent, SweepsCoherent
  <2>2. /\ accounts' = accounts
        /\ UNCHANGED loaded \/ Adopt(p, accounts, version)
        /\ UNCHANGED work \/ Refreshed(p, target[p], accounts'[target[p]])
    BY <1>5 DEF TargetChanged, PersistenceFails, Refreshed, durable, sweep
  <2> QED
    BY <2>1, <2>2, BringsNothing, AdoptCopies, WorkCopies DEF Copied
<1>6. CASE \/ BeginSweep(p) \/ EndSweep(p) \/ MergeFailure(p) \/ ExchangeRaises(p)
  <2>1. accounts' = accounts /\ (UNCHANGED loaded \/ Adopt(p, accounts, version + 1))
    BY <1>6 DEF BeginSweep, EndSweep, MergeFailure, ExchangeRaises, Install, durable
  <2>2. UNCHANGED work \/ work' = [work EXCEPT ![p] = cache[p]]
    BY <1>6 DEF BeginSweep, EndSweep, MergeFailure, ExchangeRaises, sweep
  <2>3. accounts' = accounts
    BY <1>6 DEF BeginSweep, EndSweep, MergeFailure, ExchangeRaises, Install, durable
  <2> QED
    BY <2>1, <2>2, <2>3, BringsNothing, AdoptCopies, WorkCopies DEF Copied
<1> QED
  BY <1>1, <1>2, <1>3, <1>4, <1>5, <1>6 DEF Sweep

\* A Codex credential that was rotated, replaced or removed never comes back, for
\* any number of processes with copies of any age and any interleaving of their
\* sweeps: the stale account a refresh records afterwards names a home whose
\* bundle it did not prepare (_record_failed, PrivateCredentialCollisionError).
THEOREM PrivateNeverReturnsHolds == Spec => []PrivateNeverReturns
<1>1. Init => PrivateInv
  <2>1. \A l \in Label : ~ (NoAccounts[l] # NoAccount)
    BY DEF NoAccounts
  <2> QED
    BY <2>1 DEF Init, PrivateInv, CopiesHomed, Homed, HasHome, Used,
                PrivateNeverReturns
<1>2. Coherent /\ PrivateInv /\ [Next]_vars => PrivateInv'
  <2> SUFFICES ASSUME Coherent, PrivateInv, [Next]_vars
               PROVE  PrivateInv'
    OBVIOUS
  <2>1. CASE UNCHANGED vars
    BY <2>1 DEF vars, PrivateInv, CopiesHomed, Homed, HasHome, PrivateNeverReturns,
                Held, Used
  <2>2. CASE Next
    <3>1. PICK p \in Proc :
            Load(p) \/ ReadFresh(p) \/ OneCommit(p) \/ Sweep(p) \/ Leave(p)
      BY <2>2 DEF Next
    <3>2. Retire
      BY <2>2 DEF Next
    <3>3. CASE OneCommit(p)
      BY <3>2, <3>3, OneCommitPrivate, PrivateStep
    <3>4. CASE Sweep(p)
      BY <3>2, <3>4, SweepPrivate, PrivateStep
    <3>5. CASE Load(p) \/ ReadFresh(p) \/ Leave(p)
      <4>1. accounts' = accounts /\ (UNCHANGED loaded \/ Adopt(p, accounts, version))
        BY <3>5 DEF Load, ReadFresh, Leave, durable
      <4>2. UNCHANGED work \/ Exit(p)
        BY <3>5 DEF Load, ReadFresh, Leave, sweep
      <4>3. Copied
        <5>1. CASE Label = {}
          BY <5>1 DEF Copied
        <5>2. CASE Label # {}
          BY <4>1, <4>2, <5>2, AdoptCopies, WorkCopies DEF Copied
        <5> QED
          BY <5>1, <5>2
      <4> QED
        BY <3>2, <4>1, <4>3, BringsNothing, PrivateStep
    <3> QED
      BY <3>1, <3>3, <3>4, <3>5
  <2> QED
    BY <2>1, <2>2
<1>3. PrivateInv => PrivateNeverReturns
  BY DEF PrivateInv
<1> QED
  BY <1>1, <1>2, <1>3, StoreInvariance, PTL DEF Spec

=============================================================================
