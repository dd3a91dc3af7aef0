-------------------------- MODULE CredentialChanges --------------------------
(***************************************************************************)
(* The commands that bring a credential into the store or out of it:       *)
(* `add`, `refresh <label>`, `codex login`, `codex export`, `claude        *)
(* setup-token` and `claude restore-setup-token` (credentials/service.py,  *)
(* codex.py, claude_*.py, with the provider code they call).  One command  *)
(* runs, from any state another may have left; between any two of its      *)
(* steps another process may commit to the store and the provider's own    *)
(* client may change a login on disk.                                       *)
(*                                                                         *)
(* A token is [owner, n]: who it authenticates, and which of his tokens it *)
(* is.  Of a refresh or id token only the owner matters.  A commit, with   *)
(* its private bundle, is one step (CredentialTransaction).  The private   *)
(* home of a label is named by it.                                         *)
(***************************************************************************)
EXTENDS Integers, Sequences, FiniteSets

CONSTANTS
  Label, Owner,
  Serial,      \* tells the tokens of an owner apart
  None,
  Ops,         \* the commands considered
  MaxChanges   \* steps of the other process, the clients and the user

ASSUME ChangesAssumption == MaxChanges \in Nat /\ None \notin Owner \cup Label

Home == {"default", "explicit", "target"}
Place == {"home file", "config file", "app data file", "keychain", "credential manager"}
Failure ==
  {"missing", "unreadable", "malformed", "expired", "mismatch", "rejected", "unsupported", "incomplete"}
Token == [owner : Owner, n : Serial]

Cred(kind, access, refresh, id, identity) ==
  [kind |-> kind, access |-> access, refresh |-> refresh, id |-> id, identity |-> identity, home |-> None]
Fails(failure) == Cred(failure, None, None, None, None)
Failed(cred) == cred.kind \in Failure
NoAuth == Fails("missing")
NoAccount == [cred |-> NoAuth, meta |-> 0]
Provider(cred) == IF cred.kind = "codex" THEN "codex" ELSE "claude"
Or(value, other) == IF value # None THEN value ELSE other

(* What the clients leave on disk.                                           *)
CodexAuth ==
  UNION {{Cred("codex", t, t.owner, t.owner, t.owner), Cred("codex", t, t.owner, None, t.owner),
          Cred("codex", t, None, None, t.owner)} : t \in Token}
ClaudeAuth ==
  UNION {{Cred("login", t, t.owner, None, t.owner), Cred("login", t, t.owner, None, None)} : t \in Token}
SetupToken(t) == Cred("setup", t, None, None, None)
AccessToken(t) == Cred("codex", t, None, None, t.owner)

VARIABLES
  accounts,      \* the authority
  privateHomes,  \* the private Codex home of each label
  homes,         \* the Codex homes of the user: auth.json and config.toml
  claude,        \* the logins of Claude Code, wherever it keeps them
  setupTokens,   \* setup tokens of the import-only prototype
  command,
  changes

changeVars == <<accounts, privateHomes, homes, claude, setupTokens, command, changes>>
stored == <<accounts, privateHomes, homes, claude, setupTokens>>

NoCommand ==
  [op |-> "none", at |-> "idle", source |-> "none", label |-> None, asked |-> None,
   force |-> FALSE, replace |-> FALSE, method |-> FALSE,
   cached |-> [l \in Label |-> NoAccount], detected |-> NoAuth, candidate |-> NoAccount,
   previous |-> None, seen |-> NoAuth, config |-> "absent", from |-> None,
   retried |-> FALSE]

(* Accounts of an older release do not say whose they are.                 *)
Undeclared == {[c EXCEPT !.identity = None] : c \in CodexAuth}
Saved(cred, l) == IF cred.kind = "codex" /\ None \notin {cred.refresh, cred.id, cred.identity}
                  THEN [cred EXCEPT !.home = l] ELSE cred

(* One account of each kind, and a label that is free.                     *)
ChangesInit ==
  \E first \in Label, cred \in CodexAuth \cup Undeclared \cup ClaudeAuth \cup {SetupToken(t) : t \in Token} :
    /\ accounts = [l \in Label |-> IF l = first THEN [cred |-> Saved(cred, l), meta |-> 1] ELSE NoAccount]
    /\ privateHomes = [l \in Label |-> IF accounts[l].cred.home = l THEN accounts[l].cred ELSE NoAuth]
    /\ homes = [h \in Home |-> [auth |-> NoAuth, config |-> "absent"]]
    /\ claude = [p \in Place |-> NoAuth] /\ setupTokens = [l \in Label |-> None]
    /\ command = NoCommand /\ changes = 0

-----------------------------------------------------------------------------
(* External: another process, the clients, the user.                       *)

(* A change commutes with every step that does not look at what it changes,*)
(* so it comes right before one that does.                                 *)
BeforeStore ==
  {"inspect", "commit", "prepare export", "reprove", "refresh first",
   "preview restore", "confirm", "commit restore", "reopen"}
BeforeHome ==
  {"resolve", "prepare", "snapshot", "prepare export", "export config", "reprove", "export auth", "prove export"}
Changes(steps) == command.at \in steps /\ changes < MaxChanges /\ changes' = changes + 1
InUse(h) == h \in {command.source, command.from} \/ (h = "default" /\ command.op = "export")

BundleOf(l, account) == IF account.cred.home = l THEN account.cred ELSE NoAuth
CommitsElsewhere(l, account) ==
  /\ accounts' = [accounts EXCEPT ![l] = account]
  /\ privateHomes' = [privateHomes EXCEPT ![l] = BundleOf(l, account)]
  /\ UNCHANGED <<homes, claude, setupTokens, command>> /\ Changes(BeforeStore)

RefreshElsewhere(l) ==
  /\ accounts[l].cred.refresh # None
  /\ \E n \in Serial \ {accounts[l].cred.access.n} :
       CommitsElsewhere(l, [accounts[l] EXCEPT !.cred.access.n = n])
ReplaceElsewhere(l) ==
  \E cred \in {c \in CodexAuth \cup ClaudeAuth : c.identity # None /\ (c.kind = "codex" => c.id # None)} :
    /\ accounts[l] # NoAccount /\ Provider(cred) = Provider(accounts[l].cred)
    /\ CommitsElsewhere(l, [accounts[l] EXCEPT !.cred = Saved(cred, l)])
DescribeElsewhere(l) ==
  accounts[l] # NoAccount /\ CommitsElsewhere(l, [accounts[l] EXCEPT !.meta = 2])
RemoveElsewhere(l) == accounts[l] # NoAccount /\ CommitsElsewhere(l, NoAccount)

ClientLogin(h) ==
  /\ InUse(h) /\ \E auth \in CodexAuth \cup {NoAuth, Fails("malformed")} : homes' = [homes EXCEPT ![h].auth = auth]
  /\ UNCHANGED <<accounts, privateHomes, claude, setupTokens, command>> /\ Changes(BeforeHome)
(* One login is enough: only the first place that has one is read, once.   *)
ClaudeLogin(p) ==
  /\ command.source = "claude" /\ \A q \in Place : claude[q] = NoAuth
  /\ \E login \in ClaudeAuth \cup {Fails("unreadable"), Fails("expired")} : claude' = [claude EXCEPT ![p] = login]
  /\ UNCHANGED <<accounts, privateHomes, homes, setupTokens, command>> /\ Changes({"resolve"})
EditConfig(h) ==
  /\ h = command.source /\ command.op = "export"
  /\ homes' = [homes EXCEPT ![h].config = "other"]
  /\ UNCHANGED <<accounts, privateHomes, claude, setupTokens, command>> /\ Changes(BeforeHome)
EditPrototype(l) ==
  /\ l = command.label /\ command.op = "restore"
  /\ \E t \in Token \cup {None} : setupTokens' = [setupTokens EXCEPT ![l] = t]
  /\ UNCHANGED <<accounts, privateHomes, homes, claude, command>> /\ Changes(BeforeStore)

-----------------------------------------------------------------------------
(* Policy.                                                                 *)

(* _replace_login                                                          *)
ReplaceLogin(current, incoming, replace) ==
  LET proven == IF current.identity # None /\ incoming.identity # None
                THEN current.identity = incoming.identity
                ELSE current.access = incoming.access
  IN IF ~replace /\ ~proven THEN Fails("mismatch")
     ELSE IF replace \/ incoming.identity # None THEN incoming
     ELSE [incoming EXCEPT !.identity = current.identity]

AuthorizeSetupToken(current, replace, method) ==
  current.kind = "setup" \/ (method /\ replace)

ApplyClaudeTransition(current, incoming, replace, method) ==
  CASE incoming.kind = "setup" ->
         IF AuthorizeSetupToken(current, replace, method) THEN incoming ELSE Fails("mismatch")
    [] incoming.kind = "login" /\ current.kind = "login" -> ReplaceLogin(current, incoming, replace)
    [] OTHER -> IF method /\ (incoming.identity = None \/ replace) THEN incoming ELSE Fails("mismatch")

IdentityProven(current, incoming) ==
  IF current.identity # None /\ incoming.identity # None
  THEN current.identity = incoming.identity
  ELSE current.access = incoming.access

CodexMerged(current, incoming, replace) ==
  IF replace THEN incoming
  ELSE [current EXCEPT !.access = incoming.access,
          !.refresh = Or(incoming.refresh, current.refresh),
          !.identity = Or(incoming.identity, current.identity),
          !.id = Or(incoming.id, current.id)]
(* Mutation: what the new login lacks is kept, whoever's it was.           *)
CodexMergedAlways(current, incoming, replace) ==
  [current EXCEPT !.access = incoming.access,
     !.refresh = Or(incoming.refresh, current.refresh),
     !.identity = Or(incoming.identity, current.identity),
     !.id = Or(incoming.id, current.id)]
MergeCodex(current, incoming, replace) == CodexMerged(current, incoming, replace)

ApplyDetected(current, incoming, replace, method) ==
  IF Provider(current) # Provider(incoming) THEN Fails("mismatch")
  ELSE IF Provider(current) = "claude" THEN ApplyClaudeTransition(current, incoming, replace, method)
  ELSE IF replace \/ IdentityProven(current, incoming) THEN MergeCodex(current, incoming, replace)
  ELSE Fails("mismatch")

(* find_by_token, generate_label                                           *)
HoldersOf(cached, cred) ==
  {l \in Label : /\ cached[l] # NoAccount /\ Provider(cached[l].cred) = Provider(cred)
                 /\ cached[l].cred.access = cred.access}
FindByToken(cached, cred) ==
  IF HoldersOf(cached, cred) = {} THEN None ELSE CHOOSE l \in HoldersOf(cached, cred) : TRUE
FreeLabels(cached) == {l \in Label : cached[l] = NoAccount}
GenerateLabel(cached) ==
  IF FreeLabels(cached) = {} THEN None ELSE CHOOSE l \in FreeLabels(cached) : TRUE

Plan(label, previous, account) == [label |-> label, previous |-> previous, account |-> account]
NoPlan(failure) == Plan(None, None, [NoAccount EXCEPT !.cred = Fails(failure)])
WithCred(account, cred) == [account EXCEPT !.cred = cred]
NewAccount(cred) == [cred |-> cred, meta |-> 0]

BuildSavePlan(cached, detected, label, force, replace) ==
  LET byToken == FindByToken(cached, detected)
      target == Or(label, Or(byToken, GenerateLabel(cached)))
      taken == target # None /\ cached[target] # NoAccount
      previous == IF byToken # None THEN byToken ELSE IF taken THEN target ELSE None
  IN IF target = None \/ (byToken # None /\ taken /\ target # byToken) THEN NoPlan("unsupported")
     ELSE IF byToken = None /\ taken /\ ~force THEN NoPlan("rejected")
     ELSE IF previous = None \/ (byToken = None /\ detected.kind # "setup")
     THEN Plan(target, previous, NewAccount(detected))
     ELSE Plan(target, previous,
            WithCred(cached[previous], ApplyDetected(cached[previous].cred, detected, replace, force)))

(* refresh_from_source and _codex_login_candidate                          *)
ImportPlan(cached, detected, label, replace, method) ==
  IF cached[label] = NoAccount THEN NoPlan("missing")
  ELSE Plan(label, label,
         WithCred(cached[label], ApplyDetected(cached[label].cred, detected, replace, method)))
LoginPlan(cached, detected, label, replace) ==
  IF cached[label] = NoAccount THEN Plan(label, None, NewAccount(detected))
  ELSE ImportPlan(cached, detected, label, replace, FALSE)

-----------------------------------------------------------------------------
(* A command starts: its process has loaded the store.                     *)

Begin(op, at, source, label) ==
  /\ command.at = "idle" /\ op \in Ops
  /\ \E force, replace, method \in BOOLEAN :
       command' = [NoCommand EXCEPT !.op = op, !.at = at, !.source = source, !.label = label, !.asked = label,
                     !.force = force /\ op \in {"add", "setup"},
                     !.replace = replace /\ op \in {"setup", "refresh", "login"},
                     !.method = method /\ op = "refresh", !.cached = accounts]
  /\ UNCHANGED <<stored, changes>>

Add(source) == \E label \in Label \cup {None} : Begin("add", "resolve", source, label)
Refresh(source) ==
  \E label \in Label : accounts[label] # NoAccount
    /\ (Provider(accounts[label].cred) = "codex") = (source \in Home) /\ Begin("refresh", "resolve", source, label)
Login(h) == \E label \in Label : Begin("login", "login home", h, label)
Export(h) == \E label \in Label : Begin("export", "validate target", h, label)
Setup == \E label \in Label \cup {None} : Begin("setup", "preview setup", "claude token", label)
Restore == \E label \in Label : Begin("restore", "preview restore", "none", label)

Step(at) == command.at = at /\ UNCHANGED changes
Ends == command' = [NoCommand EXCEPT !.at = "done"]
Goes(to) == command' = [command EXCEPT !.at = to]

(* Where Claude Code keeps a login depends on the platform, the same for a *)
(* whole run; a later place counts only when the earlier ones have none.   *)
FirstLogin(login, later) == IF login # NoAuth THEN login ELSE later
FromKeychain == claude["keychain"]
FromLinuxFiles == FirstLogin(claude["home file"], claude["config file"])
FromWindows ==
  FirstLogin(claude["home file"], FirstLogin(claude["app data file"], claude["credential manager"]))
DetectClaude == {FromKeychain, FromLinuxFiles, FromWindows}
ReadAuth(h) == homes[h].auth

(* CredentialService.resolve: one read of the source.                      *)
Reading(source) ==
  CASE source \in Home -> {ReadAuth(source)}
    [] source = "claude" -> DetectClaude
    [] source = "claude token" -> {SetupToken(t) : t \in Token}
    [] source = "codex token" -> {AccessToken(t) : t \in Token}

(* `add` asks for a token when its save says that something is missing.    *)
TokenSource(source) == IF source = "claude" THEN "claude token" ELSE "codex token"
Local(source) == source \in Home \cup {"claude"}
EndsMissing ==
  \/ Ends
  \/ /\ command.op = "add" /\ Local(command.source)
     /\ command' = [command EXCEPT !.at = "resolve", !.source = TokenSource(@), !.label = command.asked]

Resolve ==
  /\ Step("resolve") /\ UNCHANGED stored
  /\ \E detected \in Reading(command.source) :
       \/ detected = NoAuth /\ EndsMissing
       \/ detected # NoAuth /\ Failed(detected) /\ Ends
       \/ ~Failed(detected) /\ command' = [command EXCEPT !.at = "plan", !.detected = detected]

PlanOf(c) ==
  CASE c.op \in {"add", "setup"} -> BuildSavePlan(c.cached, c.detected, c.label, c.force, c.replace)
    [] c.op = "refresh" -> ImportPlan(c.cached, c.detected, c.label, c.replace, c.method)
    [] c.op = "login" -> LoginPlan(c.cached, c.detected, c.label, c.replace)

AfterPlan(plan, previous) ==
  IF /\ command.op \in {"add", "setup"}
     /\ plan.previous = None \/ previous.access # plan.account.cred.access \/ previous.kind # plan.account.cred.kind
  THEN "validate"
  ELSE IF plan.account.cred.kind = "codex" THEN "inspect" ELSE "commit"
MakePlan ==
  LET plan == PlanOf(command)
      previous == IF plan.previous = None THEN NoAuth ELSE command.cached[plan.previous].cred
  IN /\ Step("plan") /\ UNCHANGED stored
     /\ IF Failed(plan.account.cred) THEN Ends
        ELSE command' = [command EXCEPT !.at = AfterPlan(plan, previous), !.label = plan.label,
                           !.previous = plan.previous, !.candidate = plan.account]

(* _validate_new_account: only a rejection stops a save.                   *)
ValidateNewAccount ==
  /\ Step("validate") /\ UNCHANGED stored
  /\ Ends \/ Goes(IF command.candidate.cred.kind = "codex" THEN "inspect" ELSE "commit")

-----------------------------------------------------------------------------
(* CodexCredentialCoordinator.prepare_account                              *)

PreviousOwnsTarget(c) == c.previous # None /\ c.cached[c.previous].cred.home = c.label
BelongsTo(blob, cred) ==
  IF cred.identity # None THEN blob.identity = cred.identity ELSE blob.access = cred.access

InspectTarget ==
  LET present == privateHomes[command.label] # NoAuth
      owned == PreviousOwnsTarget(command)
  IN /\ Step("inspect") /\ UNCHANGED stored
     /\ IF owned /\ ~present THEN EndsMissing
        ELSE IF present /\ (~owned \/ ~BelongsTo(privateHomes[command.label], command.cached[command.previous].cred))
        THEN Ends
        ELSE command' = [command EXCEPT !.at = "prepare", !.seen = privateHomes[command.label]]

(* _prepared_auth_blob, _prepared_bundle_credentials                       *)
IdToken(cred, blob) == Or(cred.id, blob.id)
AccountId(cred) == Or(cred.identity, cred.access.owner)
Prepared(cred, blob, l) ==
  IF cred.refresh = None \/ IdToken(cred, blob) = None THEN Fails("incomplete")
  ELSE [cred EXCEPT !.home = l, !.id = IdToken(cred, blob), !.identity = AccountId(cred)]

SourceBelongs(blob, cred) == BelongsTo(blob, cred)

PreparedFrom(c, blob) ==
  IF blob # NoAuth /\ ~SourceBelongs(blob, c.candidate.cred) THEN Fails("mismatch")
  ELSE Prepared(c.candidate.cred, blob, c.label)

(* A second read of the source; a bare token takes the bundle instead.     *)
PreparePrivateBundle(c) ==
  LET blob == ReadAuth(c.source)
  IN IF blob # NoAuth /\ Failed(blob) THEN blob ELSE PreparedFrom(c, blob)
PrepareFromAuthBytes(c) == PreparedFrom(c, c.seen)
PrepareBundle(c) == IF c.source \in Home THEN PreparePrivateBundle(c) ELSE PrepareFromAuthBytes(c)
Optional(c) == c.source \notin Home /\ ~PreviousOwnsTarget(c)
PrepareAccountBundle ==
  LET prepared == PrepareBundle(command)
  IN /\ Step("prepare") /\ UNCHANGED stored
     /\ IF prepared.kind = "incomplete" /\ Optional(command)
        THEN command' = [command EXCEPT !.at = "commit", !.candidate.cred.home = None]
        ELSE IF Failed(prepared) THEN Ends
        ELSE command' = [command EXCEPT !.at = "commit", !.candidate.cred = prepared]

(* persist_credentials: the whole document is the one that was loaded, the *)
(* bundle the one that was inspected; homes no account names are removed.   *)
(* Mutation: only the account itself is compared.                          *)
NoBaseline == TRUE
StillCurrent == accounts = command.cached
BundleAsSeen == command.candidate.cred.home = None \/ privateHomes[command.label] = command.seen

Recorded ==
  [l \in Label |->
     IF l = command.label THEN command.candidate
     ELSE IF l = command.previous THEN NoAccount ELSE accounts[l]]
Commit ==
  /\ Step("commit") /\ UNCHANGED <<homes, claude, setupTokens>>
  /\ IF StillCurrent /\ BundleAsSeen
     THEN /\ accounts' = Recorded
          /\ privateHomes' = [l \in Label |-> BundleOf(l, accounts'[l])]
     ELSE UNCHANGED <<accounts, privateHomes>>
  /\ Ends

(* codex login: the config of an explicit home is made file-backed, then   *)
(* the client logs in there.                                               *)
FileAuthConfig(existing) == "file"
PrepareLoginHome ==
  /\ Step("login home") /\ UNCHANGED <<accounts, privateHomes, claude, setupTokens>>
  /\ \/ command.source = "default" /\ UNCHANGED homes /\ Goes("login")
     \/ /\ command.source # "default" /\ homes' = [homes EXCEPT ![command.source].config = FileAuthConfig(@)]
        /\ Goes("login")
RunLogin ==
  /\ Step("login") /\ UNCHANGED <<accounts, privateHomes, claude, setupTokens>>
  /\ \/ \E auth \in CodexAuth : homes' = [homes EXCEPT ![command.source].auth = auth] /\ Goes("resolve")
     \/ UNCHANGED homes /\ Ends

-----------------------------------------------------------------------------
(* codex export                                                            *)

ProtectedHomes(from) == {"default", from}
ValidateExportTarget ==
  LET account == command.cached[command.label]
  IN /\ Step("validate target") /\ UNCHANGED stored
     /\ \E from \in {None, "explicit"} :
          IF account = NoAccount \/ Provider(account.cred) # "codex" \/ command.source \in ProtectedHomes(from)
          THEN Ends
          ELSE command' = [command EXCEPT !.at = "snapshot", !.candidate = account, !.from = from]

(* validate_auth_bundle_owner                                              *)
OwnedBy(auth, cred) ==
  auth = NoAuth \/ (cred.identity # None /\ ~Failed(auth) /\ auth.identity = cred.identity)
(* Mutation: whatever is there is overwritten.                             *)
OwnedByAnyone(auth, cred) == TRUE
TargetOwner(auth, cred) == OwnedBy(auth, cred)

SnapshotTarget ==
  LET target == homes[command.source]
  IN /\ Step("snapshot") /\ UNCHANGED stored
     /\ IF ~TargetOwner(target.auth, command.candidate.cred) THEN Ends
        ELSE command' = [command EXCEPT !.at = "prepare export", !.seen = target.auth, !.config = target.config]

(* _source_homes, _matching_source_blob: the first home with a login must  *)
(* hold one of this account.                                               *)
SourceHomes(c) ==
  LET given == IF c.from = None THEN NoAuth ELSE homes[c.from].auth
      own == IF c.candidate.cred.home = None THEN NoAuth ELSE privateHomes[c.candidate.cred.home]
  IN FirstLogin(given, FirstLogin(own, homes["default"].auth))
MatchingSource(c) ==
  LET login == SourceHomes(c)
  IN IF Failed(login) \/ BelongsTo(login, c.candidate.cred) THEN login ELSE Fails("mismatch")
PrepareExportBundle(c) ==
  LET blob == MatchingSource(c)
  IN IF blob.kind \in Failure \ {"missing"} THEN blob ELSE Prepared(c.candidate.cred, blob, None)

PrepareExport ==
  LET prepared == PrepareExportBundle(command)
  IN /\ Step("prepare export") /\ UNCHANGED stored
     /\ IF ~Failed(prepared)
        THEN command' = [command EXCEPT !.at = "export config", !.detected = prepared]
        ELSE IF prepared.kind = "incomplete" /\ command.candidate.cred.refresh # None /\ ~command.retried
        THEN Goes("refresh first")
        ELSE Ends

(* The coordinator rotates the account of this label as it is by now, and  *)
(* completes it; the export starts again with what the store then has.     *)
RefreshFirst ==
  LET l == command.label
  IN /\ Step("refresh first") /\ UNCHANGED <<homes, claude, setupTokens>>
     /\ \/ Ends /\ UNCHANGED <<accounts, privateHomes>>
        \/ \E n \in Serial :
             LET account == accounts[l]
                 cred == Saved([account.cred EXCEPT !.access.n = n, !.id = account.cred.access.owner,
                                  !.identity = account.cred.access.owner], l)
             IN /\ account.cred.kind = "codex" /\ account.cred.refresh # None
                /\ n # account.cred.access.n
                /\ accounts' = [accounts EXCEPT ![l].cred = cred]
                /\ privateHomes' = [privateHomes EXCEPT ![l] = cred]
                /\ command' = [command EXCEPT !.at = "snapshot", !.retried = TRUE, !.cached = accounts',
                                  !.candidate = accounts'[l]]

CommitConfig ==
  /\ Step("export config") /\ UNCHANGED <<accounts, privateHomes, claude, setupTokens>>
  /\ IF homes[command.source].config # command.config THEN Ends /\ UNCHANGED homes
     ELSE homes' = [homes EXCEPT ![command.source].config = FileAuthConfig(@)] /\ Goes("reprove")
Reprove ==
  /\ Step("reprove") /\ UNCHANGED stored
  /\ IF PrepareExportBundle(command) = command.detected THEN Goes("export auth") ELSE Ends

TargetAsSeen == homes[command.source].auth = command.seen
CommitAuth ==
  /\ Step("export auth") /\ UNCHANGED <<accounts, privateHomes, claude, setupTokens>>
  /\ IF TargetAsSeen
     THEN homes' = [homes EXCEPT ![command.source].auth = command.detected] /\ Goes("prove export")
     ELSE Ends /\ UNCHANGED homes
ProveExport == Step("prove export") /\ UNCHANGED stored /\ Ends

-----------------------------------------------------------------------------
(* claude setup-token: authorised before the browser opens, saved like a   *)
(* pasted token.                                                           *)
PreviewSetup ==
  LET target == IF command.label = None THEN NoAccount ELSE command.cached[command.label]
  IN /\ Step("preview setup") /\ UNCHANGED stored
     /\ IF \/ target.cred.kind = "codex"
           \/ target.cred.kind = "login" /\ ~AuthorizeSetupToken(target.cred, command.replace, command.force)
        THEN Ends
        ELSE Goes("capture")
Capture == Step("capture") /\ UNCHANGED stored /\ (Ends \/ Goes("resolve"))

(* claude restore-setup-token                                              *)
PreviewRestore ==
  LET target == accounts[command.label]
      token == setupTokens[command.label]
  IN /\ Step("preview restore") /\ UNCHANGED stored
     /\ IF token = None \/ target = NoAccount \/ Provider(target.cred) # "claude" THEN Ends
        ELSE command' = [command EXCEPT !.at = "confirm", !.cached = accounts, !.detected = SetupToken(token),
                           !.candidate = target]

FreshTarget(c) == accounts[c.label]
(* Mutation: the account is the one the preview showed.                    *)
PreviewedTarget(c) == c.candidate
RestoreTarget(c) == FreshTarget(c)
RestoreConfirmed ==
  LET current == RestoreTarget(command)
  IN /\ Step("confirm") /\ UNCHANGED stored
     /\ \/ Ends
        \/ /\ accounts[command.label] # NoAccount /\ Provider(current.cred) = "claude"
           /\ command' = [command EXCEPT !.at = "verify", !.cached = accounts, !.seen = command.candidate.cred,
                             !.candidate = WithCred(current, command.detected)]
VerifyRestore == Step("verify") /\ UNCHANGED stored /\ (Ends \/ Goes("commit restore"))
CommitRestore ==
  /\ Step("commit restore") /\ UNCHANGED <<homes, claude, setupTokens, privateHomes>>
  /\ IF StillCurrent /\ setupTokens[command.label] = command.detected.access
     THEN accounts' = [accounts EXCEPT ![command.label] = command.candidate] /\ Goes("reopen")
     ELSE UNCHANGED accounts /\ Ends
Reopen == Step("reopen") /\ UNCHANGED stored /\ Ends

-----------------------------------------------------------------------------
ChangesNext ==
  \/ \E source \in {"default", "explicit", "claude", "claude token", "codex token"} : Add(source)
  \/ \E source \in {"default", "explicit", "claude"} : Refresh(source)
  \/ \E h \in {"default", "explicit"} : Login(h)
  \/ \E h \in Home : Export(h)
  \/ Setup \/ Restore
  \/ Resolve \/ MakePlan \/ ValidateNewAccount \/ InspectTarget \/ PrepareAccountBundle \/ Commit
  \/ PrepareLoginHome \/ RunLogin
  \/ ValidateExportTarget \/ SnapshotTarget \/ PrepareExport \/ RefreshFirst
  \/ CommitConfig \/ Reprove \/ CommitAuth \/ ProveExport
  \/ PreviewSetup \/ Capture
  \/ PreviewRestore \/ RestoreConfirmed \/ VerifyRestore \/ CommitRestore \/ Reopen
  \/ \E l \in Label : \/ RefreshElsewhere(l) \/ ReplaceElsewhere(l) \/ DescribeElsewhere(l)
                       \/ RemoveElsewhere(l) \/ EditPrototype(l)
  \/ \E h \in Home : ClientLogin(h) \/ EditConfig(h)
  \/ \E p \in Place : ClaudeLogin(p)

(* The tokens an account holds, and those of its private home, are of one  *)
(* person, whatever was logged in where while a command read its source    *)
(* twice; and the home is the account's own, with the same tokens.         *)
OneIdentity ==
  \A l \in Label :
    LET cred == accounts[l].cred
    IN /\ ~Failed(cred) => {cred.refresh, cred.id, cred.identity} \subseteq {None, cred.access.owner}
       /\ privateHomes[l] = BundleOf(l, accounts[l]) /\ cred.home \in {None, l}

(* A command never makes a label someone else's, nor turns its login into  *)
(* a setup token or back, unless its options allow that; another process   *)
(* may have changed the label since the command looked.                    *)
KeptIdentity(old, new) == {old.identity, new.identity} \cap Owner = {} \/ new.identity \in {None, old.identity} \/ old.identity = None
Authorized ==
  [][\A l \in Label :
       LET old == accounts[l].cred
           new == accounts'[l].cred
       IN command.at = "commit" /\ command'.at = "done" /\ ~Failed(old) /\ ~Failed(new) =>
            /\ KeptIdentity(old, new) \/ command.force \/ command.replace
            /\ old.kind = "login" /\ new.kind = "setup" => command.force /\ command.replace
            /\ old.kind = "setup" /\ new.kind = "login" => command.force \/ command.method]_changeVars

(* An export gives a home no other owner than the one it has, even when    *)
(* someone logs in there while it runs.                                    *)
ExportKeepsOwner ==
  [][\A h \in Home :
       command'.at = "prove export" /\ command.at = "export auth" /\ homes[h].auth # NoAuth =>
         homes'[h].auth.identity = homes[h].auth.identity]_changeVars

(* A restore changes the credential of its account and nothing else of it, *)
(* whatever changed while the user was asked.                              *)
RestoreKeepsTheRest ==
  [][command.at = "commit restore" /\ command'.at = "reopen" =>
       /\ accounts'[command.label].meta = accounts[command.label].meta
       /\ \A l \in Label \ {command.label} : accounts'[l] = accounts[l]]_changeVars

(* src/cli/commands/claude.py: "Only authentication for '{target}' will    *)
(* change from {preview.previous_authentication} to a setup token".        *)
RestoreReplacesWhatItShowed ==
  [][command.at = "commit restore" /\ command'.at = "reopen" =>
       accounts[command.label].cred.kind = command.seen.kind]_changeVars
=============================================================================
