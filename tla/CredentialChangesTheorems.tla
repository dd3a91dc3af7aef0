-------------------------- MODULE CredentialChangesTheorems --------------------------
(***************************************************************************)
(* The commands that change one credential, for every set of labels,       *)
(* people and tokens and any number of changes by others meanwhile.  The   *)
(* argument: every credential in the store, in a home, in a private home   *)
(* or in the hands of a command is of one person; a command joins parts of *)
(* two of them only after it has proved that they are the same person's;   *)
(* and what its options permitted when it planned still is what it         *)
(* replaces, since a commit needs the store it planned from.               *)
(***************************************************************************)
EXTENDS CredentialChanges, TLAPS

USE ChangesAssumption

-----------------------------------------------------------------------------
(* Credentials and accounts.                                               *)

AnyCred ==
  [kind : {"codex", "login", "setup"} \cup Failure, access : Token \cup {None},
   refresh : Owner \cup {None}, id : Owner \cup {None}, identity : Owner \cup {None},
   home : Label \cup {None}]

\* Every part of a credential is of the person of its access token; a Claude
\* login has no private home, and a setup token does not say whose it is.
Good(c) ==
  /\ c \in AnyCred
  /\ Failed(c) => c = Fails(c.kind)
  /\ ~Failed(c) => c.access \in Token /\ {c.refresh, c.id, c.identity} \subseteq {None, c.access.owner}
  /\ c.kind # "codex" => c.home = None
  /\ c.kind = "setup" => c.identity = None
Usable(c) == Good(c) /\ ~Failed(c)

GoodAccount(l, a) ==
  /\ a \in [cred : AnyCred, meta : Nat] /\ Good(a.cred) /\ a.cred.home \in {None, l}
  /\ a # NoAccount => ~Failed(a.cred)

\* What may replace a credential under the options of a command.
Permitted(old, new, force, replace, method) ==
  /\ force \/ replace \/ old.identity = None \/ new.identity = old.identity
       \/ (new.identity = None /\ new.kind # "codex")
  /\ old.kind = "login" /\ new.kind = "setup" => force /\ replace
  /\ old.kind = "setup" /\ new.kind = "login" => force \/ method

-----------------------------------------------------------------------------
(* The inductive invariant.                                                *)

Client(c) == Good(c) /\ c.home = None /\ c.kind # "setup"
Stored ==
  /\ DOMAIN accounts = Label /\ \A l \in Label : GoodAccount(l, accounts[l])
  /\ privateHomes = [l \in Label |-> BundleOf(l, accounts[l])]
  /\ DOMAIN homes = Home
  /\ \A h \in Home : DOMAIN homes[h] = {"auth", "config"} /\ Client(homes[h].auth)
  /\ DOMAIN claude = Place /\ \A p \in Place : Client(claude[p])
  /\ setupTokens \in [Label -> Token \cup {None}]

CommandFields ==
  {"op", "at", "source", "label", "asked", "force", "replace", "method", "cached", "detected",
   "candidate", "previous", "seen", "config", "from", "retried"}
Shape ==
  /\ DOMAIN command = CommandFields
  /\ command.label \in Label \cup {None} /\ command.asked \in Label \cup {None}
  /\ command.from \in {None, "explicit"} /\ command.previous \in Label \cup {None}
  /\ command.force \in BOOLEAN /\ command.replace \in BOOLEAN /\ command.method \in BOOLEAN
  /\ DOMAIN command.cached = Label /\ \A l \in Label : GoodAccount(l, command.cached[l])
  /\ command.candidate \in [cred : AnyCred, meta : Nat]

\* The steps of each command.
Choosing == {"resolve", "plan"}
Saving == {"validate", "inspect", "prepare", "commit"}
Exporting ==
  {"validate target", "snapshot", "prepare export", "refresh first", "export config", "reprove",
   "export auth"}
Restoring == {"preview restore", "confirm", "verify", "commit restore"}

Steps ==
  /\ command.at \in Choosing \cup Saving => command.op \in {"add", "setup", "refresh", "login"}
  /\ command.at \in Choosing /\ command.op \in {"refresh", "login"} => command.label \in Label
  /\ command.at \in {"login home", "login"} =>
       command.op = "login" /\ command.source \in Home /\ command.label \in Label
  /\ command.at = "resolve" =>
       \/ command.source \in Home \cup {"claude"}
       \/ command.source \in {"claude token", "codex token"} /\ command.op \in {"add", "setup"}
  /\ command.at = "capture" \/ command.at = "preview setup" =>
       command.op = "setup" /\ command.source = "claude token"
  /\ command.at \in Exporting => command.label \in Label /\ command.source \in Home
  /\ command.at \in Restoring => command.label \in Label

\* What a command has read, planned and prepared.
Read ==
  command.at = "plan" =>
    /\ Usable(command.detected) /\ command.detected.home = None
    /\ command.op \in {"refresh", "login"} => command.detected.kind # "setup"
Planned ==
  command.at \in Saving =>
    /\ command.label \in Label /\ Usable(command.candidate.cred)
    /\ ~Failed(command.cached[command.label].cred) =>
         Permitted(command.cached[command.label].cred, command.candidate.cred,
                   command.force, command.replace, command.method)
    /\ command.at \in {"inspect", "prepare"} => command.candidate.cred.kind = "codex"
    /\ command.at = "prepare" => Good(command.seen)
    /\ command.at = "commit" => command.candidate.cred.home \in {None, command.label}
Exported ==
  command.at \in Exporting \ {"validate target"} =>
    /\ GoodAccount(command.label, command.candidate) /\ Usable(command.candidate.cred)
    /\ command.candidate.cred.kind = "codex"
    /\ command.at \notin {"snapshot", "refresh first"} =>
         command.seen = NoAuth \/ (command.candidate.cred.identity # None
                                   /\ command.seen.identity = command.candidate.cred.identity)
    /\ command.at \in {"export config", "reprove", "export auth"} =>
         /\ Client(command.detected) /\ ~Failed(command.detected)
         /\ command.detected.identity = AccountId(command.candidate.cred)
Restored ==
  /\ command.at \in Restoring \ {"preview restore"} =>
       \E t \in Token : command.detected = SetupToken(t)
  /\ command.at \in {"verify", "commit restore"} =>
       /\ command.cached[command.label] # NoAccount
       /\ Provider(command.cached[command.label].cred) = "claude"
       /\ command.candidate = WithCred(command.cached[command.label], command.detected)

InHand == Shape /\ Steps /\ Read /\ Planned /\ Exported /\ Restored
ChangesInv == Stored /\ InHand

-----------------------------------------------------------------------------
(* What the providers and clients leave is of one person.                  *)

LEMMA FailsGood ==
  ASSUME NEW f \in Failure
  PROVE  Good(Fails(f)) /\ Failed(Fails(f)) /\ Fails(f).home = None /\ Fails(f).kind = f
BY DEF Good, AnyCred, Failed, Fails, Cred, Failure

LEMMA NoAuthGood == Good(NoAuth) /\ Failed(NoAuth) /\ NoAuth.home = None
BY FailsGood DEF NoAuth, Failure

LEMMA NoAccountGood == ASSUME NEW l PROVE GoodAccount(l, NoAccount) /\ Failed(NoAccount.cred)
BY NoAuthGood DEF GoodAccount, NoAccount, Good

LEMMA BundleGood ==
  ASSUME NEW l, NEW a, GoodAccount(l, a)
  PROVE  Good(BundleOf(l, a))
BY NoAuthGood DEF GoodAccount, BundleOf

LEMMA CredIsUsable ==
  ASSUME NEW kind \in {"codex", "login", "setup"}, NEW t \in Token,
         NEW refresh \in {None, t.owner}, NEW id \in {None, t.owner}, NEW identity \in {None, t.owner},
         kind = "setup" => identity = None
  PROVE  /\ Usable(Cred(kind, t, refresh, id, identity))
         /\ Cred(kind, t, refresh, id, identity).home = None
         /\ Cred(kind, t, refresh, id, identity).kind = kind
<1>1. t.owner \in Owner
  BY DEF Token
<1> QED BY <1>1 DEF Usable, Good, AnyCred, Failed, Cred, Failure

LEMMA CodexAuthUsable ==
  ASSUME NEW c \in CodexAuth PROVE Usable(c) /\ c.home = None /\ c.kind = "codex"
<1>1. PICK t \in Token : c \in {Cred("codex", t, t.owner, t.owner, t.owner),
                                Cred("codex", t, t.owner, None, t.owner),
                                Cred("codex", t, None, None, t.owner)}
  BY DEF CodexAuth
<1>2. \A refresh, id, identity \in {None, t.owner} :
        /\ Usable(Cred("codex", t, refresh, id, identity))
        /\ Cred("codex", t, refresh, id, identity).home = None
        /\ Cred("codex", t, refresh, id, identity).kind = "codex"
  BY CredIsUsable
<1> QED BY <1>1, <1>2

LEMMA ClaudeAuthUsable ==
  ASSUME NEW c \in ClaudeAuth PROVE Usable(c) /\ c.home = None /\ c.kind = "login"
<1>1. PICK t \in Token : c \in {Cred("login", t, t.owner, None, t.owner),
                                Cred("login", t, t.owner, None, None)}
  BY DEF ClaudeAuth
<1>2. \A refresh, id, identity \in {None, t.owner} :
        /\ Usable(Cred("login", t, refresh, id, identity))
        /\ Cred("login", t, refresh, id, identity).home = None
        /\ Cred("login", t, refresh, id, identity).kind = "login"
  BY CredIsUsable
<1> QED BY <1>1, <1>2

LEMMA TokensUsable ==
  ASSUME NEW t \in Token
  PROVE  /\ Usable(SetupToken(t)) /\ SetupToken(t).home = None /\ SetupToken(t).kind = "setup"
         /\ Usable(AccessToken(t)) /\ AccessToken(t).home = None
BY CredIsUsable DEF SetupToken, AccessToken

LEMMA UndeclaredUsable ==
  ASSUME NEW c \in Undeclared PROVE Usable(c) /\ c.home = None
<1>1. PICK d \in CodexAuth : c = [d EXCEPT !.identity = None]
  BY DEF Undeclared
<1>2. Usable(d) /\ d.home = None
  BY <1>1, CodexAuthUsable
<1> QED BY <1>1, <1>2 DEF Usable, Good, AnyCred, Failed, Failure

LEMMA SavedUsable ==
  ASSUME NEW l \in Label, NEW c, Usable(c), c.home \in {None, l}
  PROVE  Usable(Saved(c, l)) /\ Saved(c, l).home \in {None, l}
BY DEF Usable, Good, AnyCred, Failed, Failure, Saved

-----------------------------------------------------------------------------
(* The policy joins only what is the same person's.                        *)

LEMMA ProvenSameOwner ==
  ASSUME NEW c, NEW d, Usable(c), Usable(d), IdentityProven(c, d)
  PROVE  c.access.owner = d.access.owner
BY DEF Usable, Good, IdentityProven

LEMMA CodexMergedUsable ==
  ASSUME NEW c, NEW d, Usable(c), Usable(d), d.home = None, c.kind = "codex", d.kind = "codex",
         NEW replace \in BOOLEAN, replace \/ IdentityProven(c, d)
  PROVE  /\ Usable(MergeCodex(c, d, replace)) /\ MergeCodex(c, d, replace).kind = "codex"
         /\ ~replace /\ c.identity # None => MergeCodex(c, d, replace).identity = c.identity
<1>1. CASE replace
  BY <1>1 DEF MergeCodex, CodexMerged
<1>2. CASE ~replace
  <2> DEFINE m == MergeCodex(c, d, replace)
  <2>1. c.access.owner = d.access.owner
    BY <1>2, ProvenSameOwner
  <2>2. c \in AnyCred /\ d \in AnyCred /\ c.access \in Token /\ d.access \in Token
    BY DEF Usable, Good
  <2>3. /\ m \in AnyCred /\ m.kind = "codex" /\ m.access = d.access
        /\ m.refresh = Or(d.refresh, c.refresh) /\ m.identity = Or(d.identity, c.identity)
        /\ m.id = Or(d.id, c.id) /\ m.home = c.home
    <3>1. m = [c EXCEPT !.access = d.access, !.refresh = Or(d.refresh, c.refresh),
                        !.identity = Or(d.identity, c.identity), !.id = Or(d.id, c.id)]
      BY <1>2 DEF MergeCodex, CodexMerged
    <3>2. /\ Or(d.refresh, c.refresh) \in Owner \cup {None}
          /\ Or(d.identity, c.identity) \in Owner \cup {None} /\ Or(d.id, c.id) \in Owner \cup {None}
      BY <2>2 DEF AnyCred, Or
    <3> HIDE DEF m
    <3> QED BY <2>2, <3>1, <3>2 DEF AnyCred
  <2>4. {m.refresh, m.id, m.identity} \subseteq {None, m.access.owner}
    BY <2>1, <2>3 DEF Usable, Good, Or
  <2>5. c.identity # None => m.identity = c.identity
    BY <2>1, <2>3 DEF Usable, Good, Or
  <2>6. ~Failed(m)
    BY <2>3 DEF Failed, Failure
  <2>7. Usable(m) /\ m.kind = "codex" /\ (c.identity # None => m.identity = c.identity)
    <3> HIDE DEF m
    <3> QED BY <2>2, <2>3, <2>4, <2>5, <2>6 DEF Usable, Good
  <2> QED BY <2>7
<1> QED BY <1>1, <1>2

LEMMA ReplaceLoginUsable ==
  ASSUME NEW c, NEW d, Usable(c), Usable(d), c.kind = "login", d.kind = "login",
         NEW replace \in BOOLEAN, ~Failed(ReplaceLogin(c, d, replace))
  PROVE  /\ Usable(ReplaceLogin(c, d, replace)) /\ ReplaceLogin(c, d, replace).kind = "login"
         /\ ~replace /\ c.identity # None => ReplaceLogin(c, d, replace).identity = c.identity
<1>1. replace \/ IdentityProven(c, d)
  BY FailsGood DEF ReplaceLogin, IdentityProven, Failure
<1>2. CASE replace \/ d.identity # None
  BY <1>1, <1>2 DEF ReplaceLogin, IdentityProven
<1>3. CASE ~replace /\ d.identity = None
  <2>1. ReplaceLogin(c, d, replace) = [d EXCEPT !.identity = c.identity]
    BY <1>1, <1>3 DEF ReplaceLogin, IdentityProven
  <2>2. c.access = d.access
    BY <1>1, <1>3 DEF IdentityProven
  <2> QED BY <2>1, <2>2 DEF Usable, Good, AnyCred, Failed, Failure
<1> QED BY <1>2, <1>3

LEMMA ApplyDetectedUsable ==
  ASSUME NEW c, NEW d, Usable(c), Usable(d), d.home = None,
         NEW replace \in BOOLEAN, NEW method \in BOOLEAN, NEW force \in BOOLEAN,
         ~Failed(ApplyDetected(c, d, replace, method)), method => force \/ d.kind # "setup"
  PROVE  /\ Usable(ApplyDetected(c, d, replace, method))
         /\ Permitted(c, ApplyDetected(c, d, replace, method), force, replace, method)
<1> DEFINE r == ApplyDetected(c, d, replace, method)
<1>1. Provider(c) = Provider(d)
  BY FailsGood DEF ApplyDetected, Failure
<1>2. CASE c.kind = "codex"
  <2>1. d.kind = "codex" /\ r = MergeCodex(c, d, replace) /\ (replace \/ IdentityProven(c, d))
    BY <1>1, <1>2, FailsGood DEF ApplyDetected, Provider, Failure
  <2> QED BY <1>2, <2>1, CodexMergedUsable DEF Permitted
<1>3. CASE c.kind # "codex"
  <2>1. /\ d.kind \in {"login", "setup"} /\ c.kind \in {"login", "setup"}
        /\ r = ApplyClaudeTransition(c, d, replace, method)
    BY <1>1, <1>3 DEF ApplyDetected, Provider, Usable, Good, AnyCred, Failed
  <2>2. CASE d.kind = "setup"
    <3>1. AuthorizeSetupToken(c, replace, method) /\ r = d
      BY <2>1, <2>2, FailsGood DEF ApplyClaudeTransition, Failure
    <3> QED BY <2>2, <3>1 DEF AuthorizeSetupToken, Permitted, Usable, Good
  <2>3. CASE d.kind = "login" /\ c.kind = "login"
    <3>1. r = ReplaceLogin(c, d, replace)
      BY <2>1, <2>3 DEF ApplyClaudeTransition
    <3> QED BY <2>3, <3>1, ReplaceLoginUsable DEF Permitted
  <2>4. CASE d.kind = "login" /\ c.kind = "setup"
    <3>1. method /\ r = d
      BY <2>1, <2>4, FailsGood DEF ApplyClaudeTransition, Failure
    <3> QED BY <2>4, <3>1 DEF Permitted, Usable, Good
  <2> QED BY <2>1, <2>2, <2>3, <2>4
<1> QED BY <1>2, <1>3

-----------------------------------------------------------------------------
(* Plans.                                                                  *)

GoodPlan(cached, plan, force, replace, method) ==
  /\ plan.label \in Label /\ plan.previous \in Label \cup {None}
  /\ plan.account \in [cred : AnyCred, meta : Nat] /\ Usable(plan.account.cred)
  /\ ~Failed(cached[plan.label].cred) =>
       Permitted(cached[plan.label].cred, plan.account.cred, force, replace, method)

LEMMA FindByTokenFinds ==
  ASSUME NEW cached, NEW c, FindByToken(cached, c) # None
  PROVE  FindByToken(cached, c) \in Label /\ cached[FindByToken(cached, c)] # NoAccount
BY DEF FindByToken, HoldersOf

LEMMA GenerateLabelFree ==
  ASSUME NEW cached, GenerateLabel(cached) # None
  PROVE  GenerateLabel(cached) \in Label /\ cached[GenerateLabel(cached)] = NoAccount
BY DEF GenerateLabel, FreeLabels

LEMMA NoPlanFails == ASSUME NEW f \in Failure PROVE Failed(NoPlan(f).account.cred)
BY FailsGood DEF NoPlan, Plan, NoAccount

\* A plan that replaces an account with what was detected.
LEMMA AppliedPlanGood ==
  ASSUME NEW cached, \A l \in Label : GoodAccount(l, cached[l]),
         NEW label \in Label, NEW previous \in Label, cached[previous] # NoAccount,
         label = previous \/ cached[label] = NoAccount,
         NEW d, Usable(d), d.home = None,
         NEW replace \in BOOLEAN, NEW method \in BOOLEAN, NEW force \in BOOLEAN,
         method => force \/ d.kind # "setup",
         NEW plan,
         plan = Plan(label, previous,
                  WithCred(cached[previous], ApplyDetected(cached[previous].cred, d, replace, method))),
         ~Failed(plan.account.cred)
  PROVE  GoodPlan(cached, plan, force, replace, method)
<1> DEFINE r == ApplyDetected(cached[previous].cred, d, replace, method)
<1>1. cached[previous] \in [cred : AnyCred, meta : Nat] /\ Usable(cached[previous].cred)
  BY DEF GoodAccount, Usable
<1>2. /\ plan.label = label /\ plan.previous = previous
      /\ plan.account = [cached[previous] EXCEPT !.cred = r] /\ plan.account.cred = r
  BY <1>1 DEF Plan, WithCred
<1>3. Usable(r) /\ Permitted(cached[previous].cred, r, force, replace, method)
  BY <1>1, <1>2, ApplyDetectedUsable
<1>4. r \in AnyCred
  BY <1>3 DEF Usable, Good
<1> HIDE DEF r
<1>5. plan.account \in [cred : AnyCred, meta : Nat]
  BY <1>1, <1>2, <1>4
<1>6. ~Failed(cached[label].cred) => label = previous
  BY NoAccountGood
<1> QED BY <1>2, <1>3, <1>5, <1>6 DEF GoodPlan

\* A plan that makes a new account of what was detected.
LEMMA NewPlanGood ==
  ASSUME NEW cached, NEW label \in Label, NEW previous \in Label \cup {None},
         NEW d, Usable(d), NEW replace \in BOOLEAN, NEW method \in BOOLEAN, NEW force \in BOOLEAN,
         cached[label] = NoAccount \/ (force /\ d.kind # "setup"),
         NEW plan, plan = Plan(label, previous, NewAccount(d))
  PROVE  GoodPlan(cached, plan, force, replace, method)
BY NoAccountGood DEF GoodPlan, Plan, NewAccount, Permitted, Usable, Good

LEMMA BuildSavePlanGood ==
  ASSUME NEW cached, \A l \in Label : GoodAccount(l, cached[l]),
         NEW d, Usable(d), d.home = None, NEW label \in Label \cup {None},
         NEW force \in BOOLEAN, NEW replace \in BOOLEAN, NEW plan,
         plan = BuildSavePlan(cached, d, label, force, replace), ~Failed(plan.account.cred)
  PROVE  GoodPlan(cached, plan, force, replace, force)
<1> DEFINE byToken == FindByToken(cached, d)
           target == Or(label, Or(byToken, GenerateLabel(cached)))
           taken == target # None /\ cached[target] # NoAccount
           previous == IF byToken # None THEN byToken ELSE IF taken THEN target ELSE None
<1>1. Failed(NoPlan("unsupported").account.cred) /\ Failed(NoPlan("rejected").account.cred)
  BY NoPlanFails DEF Failure
<1>2. byToken # None => byToken \in Label /\ cached[byToken] # NoAccount
  BY FindByTokenFinds
<1>3. target # None => target \in Label
  BY <1>2, GenerateLabelFree DEF Or
<1>4. /\ target # None /\ ~(byToken # None /\ taken /\ target # byToken)
      /\ ~(byToken = None /\ taken /\ ~force)
  BY <1>1 DEF BuildSavePlan
<1>5. CASE previous = None \/ (byToken = None /\ d.kind # "setup")
  <2>1. plan = Plan(target, previous, NewAccount(d))
    BY <1>4, <1>5 DEF BuildSavePlan
  <2>2. previous \in Label \cup {None}
    BY <1>2, <1>3
  <2>3. cached[target] = NoAccount \/ (force /\ d.kind # "setup")
    BY <1>2, <1>3, <1>4, <1>5
  <2> HIDE DEF target, previous, byToken, taken
  <2> QED BY <1>3, <1>4, <2>1, <2>2, <2>3, NewPlanGood
<1>6. CASE ~(previous = None \/ (byToken = None /\ d.kind # "setup"))
  <2>1. plan = Plan(target, previous,
                 WithCred(cached[previous], ApplyDetected(cached[previous].cred, d, replace, force)))
    BY <1>4, <1>6 DEF BuildSavePlan
  <2>2. previous \in Label /\ cached[previous] # NoAccount
    BY <1>2, <1>3, <1>6
  <2>3. target = previous \/ cached[target] = NoAccount
    BY <1>4, <1>6
  <2> HIDE DEF target, previous, byToken, taken
  <2> QED BY <1>3, <1>4, <2>1, <2>2, <2>3, AppliedPlanGood
<1> QED BY <1>5, <1>6

LEMMA ImportPlanGood ==
  ASSUME NEW cached, \A l \in Label : GoodAccount(l, cached[l]),
         NEW d, Usable(d), d.home = None, d.kind # "setup", NEW label \in Label,
         NEW replace \in BOOLEAN, NEW method \in BOOLEAN, NEW force \in BOOLEAN, NEW plan,
         plan = ImportPlan(cached, d, label, replace, method), ~Failed(plan.account.cred)
  PROVE  GoodPlan(cached, plan, force, replace, method)
<1>1. cached[label] # NoAccount
  BY NoPlanFails DEF ImportPlan, Failure
<1>2. plan = Plan(label, label,
               WithCred(cached[label], ApplyDetected(cached[label].cred, d, replace, method)))
  BY <1>1 DEF ImportPlan
<1> QED BY <1>1, <1>2, AppliedPlanGood

LEMMA LoginPlanGood ==
  ASSUME NEW cached, \A l \in Label : GoodAccount(l, cached[l]),
         NEW d, Usable(d), d.home = None, d.kind # "setup", NEW label \in Label,
         NEW replace \in BOOLEAN, NEW method \in BOOLEAN, NEW force \in BOOLEAN, NEW plan,
         plan = LoginPlan(cached, d, label, replace), ~Failed(plan.account.cred)
  PROVE  GoodPlan(cached, plan, force, replace, method)
<1>1. CASE cached[label] = NoAccount
  BY <1>1, NewPlanGood DEF LoginPlan
<1>2. CASE cached[label] # NoAccount
  <2>1. PICK m \in BOOLEAN : ~m /\ plan = ImportPlan(cached, d, label, replace, m)
    BY <1>2 DEF LoginPlan
  <2>2. GoodPlan(cached, plan, force, replace, m)
    BY <2>1, ImportPlanGood
  <2> QED BY <2>1, <2>2 DEF GoodPlan, Permitted
<1> QED BY <1>1, <1>2

LEMMA PlanOfGood ==
  ASSUME ChangesInv, command.at = "plan", ~Failed(PlanOf(command).account.cred)
  PROVE  GoodPlan(command.cached, PlanOf(command), command.force, command.replace, command.method)
<1> DEFINE plan == PlanOf(command)
<1>1. /\ \A l \in Label : GoodAccount(l, command.cached[l])
      /\ Usable(command.detected) /\ command.detected.home = None
      /\ command.label \in Label \cup {None} /\ command.force \in BOOLEAN
      /\ command.replace \in BOOLEAN /\ command.method \in BOOLEAN
  BY DEF ChangesInv, InHand, Shape, Read
<1>2. /\ command.op \in {"add", "setup", "refresh", "login"}
      /\ command.op \in {"refresh", "login"} => command.label \in Label /\ command.detected.kind # "setup"
  BY DEF ChangesInv, InHand, Steps, Read, Choosing
<1>3. GoodPlan(command.cached, plan, command.force, command.replace, command.force)
        => GoodPlan(command.cached, plan, command.force, command.replace, command.method)
  BY <1>1 DEF GoodPlan, Permitted
<1>4. CASE command.op \in {"add", "setup"}
  <2>1. plan = BuildSavePlan(command.cached, command.detected, command.label, command.force, command.replace)
    BY <1>4 DEF PlanOf
  <2>2. GoodPlan(command.cached, plan, command.force, command.replace, command.force)
    BY <1>1, <2>1, BuildSavePlanGood
  <2> QED BY <1>1, <1>3, <2>2
<1>5. CASE command.op = "refresh"
  <2>1. plan = ImportPlan(command.cached, command.detected, command.label, command.replace, command.method)
    BY <1>5 DEF PlanOf
  <2> QED BY <1>1, <1>2, <1>5, <2>1, ImportPlanGood
<1>6. CASE command.op = "login"
  <2>1. plan = LoginPlan(command.cached, command.detected, command.label, command.replace)
    BY <1>6 DEF PlanOf
  <2> QED BY <1>1, <1>2, <1>6, <2>1, LoginPlanGood
<1> QED BY <1>2, <1>4, <1>5, <1>6

-----------------------------------------------------------------------------
(* Private bundles.                                                        *)

LEMMA BelongsKnows ==
  ASSUME NEW c, NEW blob, Usable(c), Good(blob), Failed(blob) \/ BelongsTo(blob, c)
  PROVE  blob.id \in {None, c.access.owner}
<1>1. CASE Failed(blob)
  BY <1>1 DEF Good, Fails, Cred
<1>2. CASE ~Failed(blob) /\ BelongsTo(blob, c)
  BY <1>2 DEF Good, Usable, BelongsTo
<1> QED BY <1>1, <1>2

LEMMA PreparedUsable ==
  ASSUME NEW c, Usable(c), c.kind = "codex", NEW l \in Label \cup {None}, NEW blob, Good(blob),
         Failed(blob) \/ BelongsTo(blob, c), ~Failed(Prepared(c, blob, l))
  PROVE  /\ Usable(Prepared(c, blob, l)) /\ Prepared(c, blob, l).home = l
         /\ Prepared(c, blob, l).kind = "codex"
         /\ Prepared(c, blob, l).identity = AccountId(c)
         /\ c.identity # None => Prepared(c, blob, l).identity = c.identity
<1> DEFINE r == Prepared(c, blob, l)
<1>1. c \in AnyCred /\ c.access \in Token /\ c.access.owner \in Owner
      /\ {c.refresh, c.id, c.identity} \subseteq {None, c.access.owner}
  BY DEF Usable, Good, Token
<1>2. r = [c EXCEPT !.home = l, !.id = IdToken(c, blob), !.identity = AccountId(c)]
  BY FailsGood DEF Prepared, Failure
<1>3. IdToken(c, blob) \in {None, c.access.owner} /\ AccountId(c) = c.access.owner
  BY <1>1, BelongsKnows DEF IdToken, AccountId, Or
<1> HIDE DEF r
<1>4. /\ r \in AnyCred /\ r.kind = "codex" /\ r.home = l /\ r.access = c.access
      /\ r.refresh = c.refresh /\ r.id = IdToken(c, blob) /\ r.identity = AccountId(c)
  BY <1>1, <1>2, <1>3 DEF AnyCred
<1>5. Usable(r)
  BY <1>1, <1>3, <1>4 DEF Usable, Good, Failed, Failure
<1>6. c.identity # None => r.identity = c.identity
  BY <1>1, <1>3, <1>4
<1> QED BY <1>4, <1>5, <1>6 DEF r

-----------------------------------------------------------------------------
(* A command begins and ends.                                              *)

LEMMA StoredStays == ASSUME Stored, UNCHANGED stored PROVE Stored'
BY DEF Stored, stored, Client

LEMMA InHandStays == ASSUME InHand, UNCHANGED command PROVE InHand'
<1>1. Shape'
  BY DEF InHand, Shape
<1>2. Steps'
  BY DEF InHand, Steps
<1>3. Read' /\ Planned'
  BY DEF InHand, Read, Planned
<1>4. Exported' /\ Restored'
  BY DEF InHand, Exported, Restored
<1> QED BY <1>1, <1>2, <1>3, <1>4 DEF InHand

\* Nothing is asked of a command that is over.
LEMMA RestsInHand ==
  ASSUME Shape', command'.at \in {"done", "prove export", "reopen"}
  PROVE  InHand'
BY DEF InHand, Steps, Read, Planned, Exported, Restored, Choosing, Saving, Exporting, Restoring

LEMMA EndsInHand == ASSUME Ends PROVE InHand'
<1>1. Shape'
  BY NoAccountGood DEF Ends, NoCommand, Shape, CommandFields, GoodAccount
<1>2. command'.at = "done"
  BY DEF Ends, NoCommand
<1> QED BY <1>1, <1>2, RestsInHand

LEMMA BeginShape ==
  ASSUME Stored, NEW op, NEW at, NEW source, NEW label \in Label \cup {None}, Begin(op, at, source, label)
  PROVE  /\ Shape' /\ Stored'
         /\ command'.op = op /\ command'.at = at /\ command'.source = source /\ command'.label = label
<1>1. Stored'
  BY StoredStays DEF Begin
<1>2. PICK force \in BOOLEAN, replace \in BOOLEAN, method \in BOOLEAN :
        command' = [NoCommand EXCEPT !.op = op, !.at = at, !.source = source, !.label = label, !.asked = label,
                     !.force = force /\ op \in {"add", "setup"},
                     !.replace = replace /\ op \in {"setup", "refresh", "login"},
                     !.method = method /\ op = "refresh", !.cached = accounts]
  BY DEF Begin
<1>3. /\ DOMAIN command' = CommandFields
      /\ command'.op = op /\ command'.at = at /\ command'.source = source
      /\ command'.label = label /\ command'.asked = label /\ command'.from = None
      /\ command'.previous = None /\ command'.cached = accounts /\ command'.candidate = NoAccount
      /\ command'.force \in BOOLEAN /\ command'.replace \in BOOLEAN /\ command'.method \in BOOLEAN
  BY <1>2 DEF NoCommand, CommandFields
<1>4. NoAccount \in [cred : AnyCred, meta : Nat]
  BY NoAccountGood DEF GoodAccount
<1> QED BY <1>1, <1>3, <1>4 DEF Shape, Stored

LEMMA BeginKeeps ==
  ASSUME ChangesInv, NEW op, NEW at, NEW source, NEW label \in Label \cup {None},
         Begin(op, at, source, label),
         \/ /\ op = "add" /\ at = "resolve"
            /\ source \in {"default", "explicit", "claude", "claude token", "codex token"}
         \/ /\ op = "refresh" /\ at = "resolve" /\ label \in Label
            /\ source \in {"default", "explicit", "claude"}
         \/ op = "login" /\ at = "login home" /\ label \in Label /\ source \in Home
         \/ op = "export" /\ at = "validate target" /\ label \in Label /\ source \in Home
         \/ op = "setup" /\ at = "preview setup" /\ source = "claude token"
         \/ op = "restore" /\ at = "preview restore" /\ label \in Label
  PROVE  ChangesInv'
<1>1. /\ Shape' /\ Stored' /\ command'.op = op /\ command'.at = at
      /\ command'.source = source /\ command'.label = label
  BY BeginShape DEF ChangesInv
<1>2. Steps'
  BY <1>1 DEF Steps, Choosing, Saving, Exporting, Restoring, Home
<1>3. Read' /\ Planned' /\ Exported' /\ Restored'
  BY <1>1 DEF Read, Planned, Exported, Restored, Saving, Exporting, Restoring
<1> QED BY <1>1, <1>2, <1>3 DEF ChangesInv, InHand

LEMMA BeginsKeep ==
  ASSUME ChangesInv,
         \/ \E source \in {"default", "explicit", "claude", "claude token", "codex token"} : Add(source)
         \/ \E source \in {"default", "explicit", "claude"} : Refresh(source)
         \/ \E h \in {"default", "explicit"} : Login(h)
         \/ \E h \in Home : Export(h)
         \/ Setup \/ Restore
  PROVE  ChangesInv'
<1>1. ASSUME NEW source \in {"default", "explicit", "claude", "claude token", "codex token"}, Add(source)
      PROVE  ChangesInv'
  BY <1>1, BeginKeeps DEF Add
<1>2. ASSUME NEW source \in {"default", "explicit", "claude"}, Refresh(source) PROVE ChangesInv'
  BY <1>2, BeginKeeps DEF Refresh
<1>3. ASSUME NEW h \in {"default", "explicit"}, Login(h) PROVE ChangesInv'
  BY <1>3, BeginKeeps DEF Login, Home
<1>4. ASSUME NEW h \in Home, Export(h) PROVE ChangesInv'
  BY <1>4, BeginKeeps DEF Export
<1>5. CASE Setup
  BY <1>5, BeginKeeps DEF Setup
<1>6. CASE Restore
  BY <1>6, BeginKeeps DEF Restore
<1> QED BY <1>1, <1>2, <1>3, <1>4, <1>5, <1>6

\* A step that only moves on.
LEMMA GoesShape ==
  ASSUME Shape, NEW to, Goes(to)
  PROVE  /\ Shape' /\ command'.at = to
         /\ \A f \in CommandFields \ {"at"} : command'[f] = command[f]
BY DEF Shape, Goes, CommandFields

-----------------------------------------------------------------------------
(* Reading a source and planning.                                          *)

LEMMA ReadingGood ==
  ASSUME Stored, NEW source, NEW d \in Reading(source),
         source \in Home \cup {"claude", "claude token", "codex token"}
  PROVE  Good(d) /\ d.home = None /\ (source \in Home \cup {"claude"} => d.kind # "setup")
<1>1. CASE source \in Home
  BY <1>1 DEF Reading, ReadAuth, Stored, Client, Home
<1>2. CASE source = "claude"
  <2>1. d \in {FromKeychain, FromLinuxFiles, FromWindows}
    BY <1>2 DEF Reading, DetectClaude, Home
  <2>2. \A p \in Place : Client(claude[p])
    BY DEF Stored
  <2>3. Client(d)
    BY <2>1, <2>2 DEF FromKeychain, FromLinuxFiles, FromWindows, FirstLogin, Place
  <2> QED BY <2>3 DEF Client
<1>3. CASE source \in {"claude token", "codex token"}
  <2>1. PICK t \in Token : d \in {SetupToken(t), AccessToken(t)}
    BY <1>3 DEF Reading, Home
  <2> QED BY <1>3, <2>1, TokensUsable DEF Usable, Home
<1> QED BY <1>1, <1>2, <1>3

LEMMA EndsMissingKeeps ==
  ASSUME InHand, EndsMissing
  PROVE  InHand'
<1>1. CASE Ends
  BY <1>1, EndsInHand
<1>2. CASE /\ command.op = "add" /\ Local(command.source)
           /\ command' = [command EXCEPT !.at = "resolve", !.source = TokenSource(@), !.label = command.asked]
  <2>1. /\ Shape' /\ command'.at = "resolve" /\ command'.op = "add"
        /\ command'.source \in {"claude token", "codex token"}
    BY <1>2 DEF InHand, Shape, CommandFields, TokenSource
  <2> QED BY <2>1 DEF InHand, Steps, Read, Planned, Exported, Restored, Choosing, Saving, Exporting, Restoring
<1> QED BY <1>1, <1>2 DEF EndsMissing

LEMMA ResolveKeeps == ASSUME ChangesInv, Resolve PROVE ChangesInv'
<1>1. Stored' /\ Stored /\ InHand /\ command.at = "resolve"
  BY StoredStays DEF ChangesInv, Resolve, Step
<1>2. PICK d \in Reading(command.source) :
        \/ d = NoAuth /\ EndsMissing
        \/ d # NoAuth /\ Failed(d) /\ Ends
        \/ ~Failed(d) /\ command' = [command EXCEPT !.at = "plan", !.detected = d]
  BY DEF Resolve
<1>3. CASE EndsMissing \/ Ends
  BY <1>1, <1>3, EndsMissingKeeps, EndsInHand DEF ChangesInv
<1>4. CASE ~Failed(d) /\ command' = [command EXCEPT !.at = "plan", !.detected = d]
  <2>1. Good(d) /\ d.home = None /\ (command.source \in Home \cup {"claude"} => d.kind # "setup")
    BY <1>1, ReadingGood DEF InHand, Steps
  <2>2. /\ Shape' /\ command'.at = "plan" /\ command'.op = command.op /\ command'.detected = d
        /\ command'.label = command.label
    BY <1>1, <1>4 DEF InHand, Shape, CommandFields
  <2>3. Steps' /\ Read'
    BY <1>1, <1>4, <2>1, <2>2
       DEF InHand, Steps, Read, Usable, Choosing, Saving, Exporting, Restoring
  <2>4. Planned' /\ Exported' /\ Restored'
    BY <2>2 DEF Planned, Exported, Restored, Saving, Exporting, Restoring
  <2> QED BY <1>1, <2>2, <2>3, <2>4 DEF ChangesInv, InHand
<1> QED BY <1>2, <1>3, <1>4

LEMMA MakePlanKeeps == ASSUME ChangesInv, MakePlan PROVE ChangesInv'
<1> DEFINE plan == PlanOf(command)
           previous == IF plan.previous = None THEN NoAuth ELSE command.cached[plan.previous].cred
<1>1. Stored' /\ InHand /\ command.at = "plan"
  BY StoredStays DEF ChangesInv, MakePlan, Step
<1>2. CASE Ends
  BY <1>1, <1>2, EndsInHand DEF ChangesInv
<1>3. CASE /\ ~Failed(plan.account.cred)
           /\ command' = [command EXCEPT !.at = AfterPlan(plan, previous), !.label = plan.label,
                           !.previous = plan.previous, !.candidate = plan.account]
  <2>1. GoodPlan(command.cached, plan, command.force, command.replace, command.method)
    BY <1>1, <1>3, PlanOfGood
  <2>2. /\ AfterPlan(plan, previous) \in {"validate", "inspect", "commit"}
        /\ AfterPlan(plan, previous) = "inspect" => plan.account.cred.kind = "codex"
        /\ AfterPlan(plan, previous) = "commit" => plan.account.cred.kind # "codex"
    BY DEF AfterPlan
  <2> HIDE DEF plan, previous
  <2>3. /\ command'.at = AfterPlan(plan, previous) /\ command'.label = plan.label
        /\ command'.previous = plan.previous /\ command'.candidate = plan.account
        /\ command'.op = command.op /\ command'.cached = command.cached
        /\ command'.force = command.force /\ command'.replace = command.replace
        /\ command'.method = command.method /\ command'.asked = command.asked
        /\ command'.from = command.from /\ DOMAIN command' = CommandFields
    BY <1>1, <1>3 DEF InHand, Shape, CommandFields
  <2>4. Shape'
    BY <1>1, <2>1, <2>3 DEF InHand, Shape, GoodPlan
  <2>5. Steps'
    BY <1>1, <2>2, <2>3 DEF InHand, Steps, Choosing, Saving, Exporting, Restoring
  <2>6. Planned'
    BY <2>1, <2>2, <2>3 DEF Planned, GoodPlan, Saving, Usable, Good
  <2>7. Read' /\ Exported' /\ Restored'
    BY <2>2, <2>3 DEF Read, Exported, Restored, Exporting, Restoring
  <2> QED BY <1>1, <2>4, <2>5, <2>6, <2>7 DEF ChangesInv, InHand
<1> QED BY <1>2, <1>3 DEF MakePlan

-----------------------------------------------------------------------------
(* Validating, inspecting and preparing.                                   *)

LEMMA ValidateKeeps == ASSUME ChangesInv, ValidateNewAccount PROVE ChangesInv'
<1>1. Stored' /\ InHand /\ command.at = "validate"
  BY StoredStays DEF ChangesInv, ValidateNewAccount, Step
<1>2. CASE Ends
  BY <1>1, <1>2, EndsInHand DEF ChangesInv
<1>3. ASSUME NEW to, Goes(to), to = IF command.candidate.cred.kind = "codex" THEN "inspect" ELSE "commit"
      PROVE  ChangesInv'
  <2>1. /\ Shape' /\ command'.at = to
        /\ \A f \in CommandFields \ {"at"} : command'[f] = command[f]
    BY <1>1, <1>3, GoesShape DEF InHand
  <2>2. /\ command'.op = command.op /\ command'.label = command.label
        /\ command'.cached = command.cached /\ command'.candidate = command.candidate
        /\ command'.force = command.force /\ command'.replace = command.replace
        /\ command'.method = command.method
    BY <2>1 DEF CommandFields
  <2>3. Steps'
    BY <1>1, <1>3, <2>1, <2>2 DEF InHand, Steps, Choosing, Saving, Exporting, Restoring
  <2>4. Planned'
    BY <1>1, <1>3, <2>1, <2>2 DEF InHand, Planned, Saving, Usable, Good
  <2>5. Read' /\ Exported' /\ Restored'
    BY <1>3, <2>1 DEF Read, Exported, Restored, Exporting, Restoring
  <2> QED BY <1>1, <2>1, <2>3, <2>4, <2>5 DEF ChangesInv, InHand
<1> QED BY <1>2, <1>3 DEF ValidateNewAccount

LEMMA PrivateHomeGood == ASSUME Stored, NEW l \in Label PROVE Good(privateHomes[l])
BY BundleGood DEF Stored

LEMMA InspectKeeps == ASSUME ChangesInv, InspectTarget PROVE ChangesInv'
<1>1. Stored /\ Stored' /\ InHand /\ command.at = "inspect"
  BY StoredStays DEF ChangesInv, InspectTarget, Step
<1>2. CASE EndsMissing \/ Ends
  BY <1>1, <1>2, EndsMissingKeeps, EndsInHand DEF ChangesInv
<1>3. CASE command' = [command EXCEPT !.at = "prepare", !.seen = privateHomes[command.label]]
  <2>1. command.label \in Label
    BY <1>1 DEF InHand, Planned, Saving
  <2>2. /\ command'.op = command.op /\ command'.label = command.label
        /\ command'.cached = command.cached /\ command'.candidate = command.candidate
        /\ command'.force = command.force /\ command'.replace = command.replace
        /\ command'.method = command.method /\ command'.at = "prepare"
        /\ command'.seen = privateHomes[command.label] /\ Shape'
    BY <1>1, <1>3 DEF InHand, Shape, CommandFields
  <2>3. Steps'
    BY <1>1, <2>2 DEF InHand, Steps, Choosing, Saving, Exporting, Restoring
  <2>4. Planned'
    BY <1>1, <2>1, <2>2, PrivateHomeGood DEF InHand, Planned, Saving
  <2>5. Read' /\ Exported' /\ Restored'
    BY <2>2 DEF Read, Exported, Restored, Exporting, Restoring
  <2> QED BY <1>1, <2>2, <2>3, <2>4, <2>5 DEF ChangesInv, InHand
<1> QED BY <1>2, <1>3 DEF InspectTarget

\* Whatever was read the second time, the bundle is of the candidate's person.
LEMMA PreparedFromUsable ==
  ASSUME NEW c, Usable(c.candidate.cred), c.candidate.cred.kind = "codex", c.label \in Label,
         NEW blob, Good(blob), ~Failed(PreparedFrom(c, blob))
  PROVE  LET r == PreparedFrom(c, blob)
         IN /\ Usable(r) /\ r.home = c.label /\ r.kind = "codex"
            /\ c.candidate.cred.identity # None => r.identity = c.candidate.cred.identity
<1>1. PreparedFrom(c, blob) = Prepared(c.candidate.cred, blob, c.label)
      /\ (Failed(blob) \/ BelongsTo(blob, c.candidate.cred))
  BY NoAuthGood, FailsGood DEF PreparedFrom, SourceBelongs, Failure
<1> QED BY <1>1, PreparedUsable

LEMMA PrepareBundleUsable ==
  ASSUME Stored, InHand, command.at = "prepare", ~Failed(PrepareBundle(command))
  PROVE  LET r == PrepareBundle(command)
         IN /\ Usable(r) /\ r.home = command.label /\ r.kind = "codex"
            /\ command.candidate.cred.identity # None => r.identity = command.candidate.cred.identity
<1>1. /\ command.label \in Label /\ Usable(command.candidate.cred)
      /\ command.candidate.cred.kind = "codex" /\ Good(command.seen)
  BY DEF InHand, Planned, Saving
<1>2. CASE command.source \in Home
  <2>1. Good(ReadAuth(command.source))
    BY <1>2 DEF Stored, Client, ReadAuth
  <2>2. PrepareBundle(command) = PreparedFrom(command, ReadAuth(command.source))
    BY <1>2 DEF PrepareBundle, PreparePrivateBundle
  <2> QED BY <1>1, <2>1, <2>2, PreparedFromUsable
<1>3. CASE command.source \notin Home
  BY <1>1, <1>3, PreparedFromUsable DEF PrepareBundle, PrepareFromAuthBytes
<1> QED BY <1>2, <1>3

\* What is known of a candidate whose bundle was prepared, or needs none.
LEMMA CandidateKeeps ==
  ASSUME ChangesInv, command.at = "prepare", UNCHANGED stored, NEW cred, Usable(cred),
         command' = [command EXCEPT !.at = "commit", !.candidate.cred = cred],
         cred.kind = "codex", cred.home \in {None, command.label},
         command.candidate.cred.identity # None => cred.identity = command.candidate.cred.identity
  PROVE  ChangesInv'
<1>1. Stored' /\ InHand
  BY StoredStays DEF ChangesInv
<1>2. /\ command.candidate \in [cred : AnyCred, meta : Nat] /\ cred \in AnyCred
      /\ DOMAIN command = CommandFields
  BY <1>1 DEF InHand, Shape, Usable, Good
<1>3. /\ command'.candidate \in [cred : AnyCred, meta : Nat] /\ command'.candidate.cred = cred
      /\ command'.op = command.op /\ command'.label = command.label
      /\ command'.cached = command.cached /\ command'.at = "commit"
      /\ command'.force = command.force /\ command'.replace = command.replace
      /\ command'.method = command.method
  BY <1>2 DEF CommandFields
<1>4. Shape'
  BY <1>1, <1>2, <1>3 DEF InHand, Shape, CommandFields
<1>5. Steps'
  BY <1>1, <1>3 DEF InHand, Steps, Choosing, Saving, Exporting, Restoring
<1>6. Planned'
  <2>1. /\ command.label \in Label
        /\ ~Failed(command.cached[command.label].cred) =>
             Permitted(command.cached[command.label].cred, command.candidate.cred,
                       command.force, command.replace, command.method)
        /\ command.candidate.cred.kind = "codex"
    BY <1>1 DEF InHand, Planned, Saving
  <2>2. ~Failed(command.cached[command.label].cred) =>
             Permitted(command.cached[command.label].cred, cred,
                       command.force, command.replace, command.method)
    BY <2>1 DEF Permitted
  <2> QED BY <1>3, <2>1, <2>2 DEF Planned
<1>7. Read' /\ Exported' /\ Restored'
  BY <1>3 DEF Read, Exported, Restored, Exporting, Restoring
<1> QED BY <1>1, <1>4, <1>5, <1>6, <1>7 DEF ChangesInv, InHand

LEMMA PrepareKeeps == ASSUME ChangesInv, PrepareAccountBundle PROVE ChangesInv'
<1> DEFINE prepared == PrepareBundle(command)
<1>1. Stored /\ Stored' /\ InHand /\ command.at = "prepare" /\ UNCHANGED stored
  BY StoredStays DEF ChangesInv, PrepareAccountBundle, Step
<1>2. CASE Ends
  BY <1>1, <1>2, EndsInHand DEF ChangesInv
<1>3. CASE command' = [command EXCEPT !.at = "commit", !.candidate.cred.home = None]
  <2> DEFINE cred == [command.candidate.cred EXCEPT !.home = None]
  <2>1. Usable(command.candidate.cred) /\ command.candidate.cred.kind = "codex"
    BY <1>1 DEF InHand, Planned, Saving
  <2>2. Usable(cred) /\ cred.kind = "codex" /\ cred.home = None
        /\ cred.identity = command.candidate.cred.identity
    BY <2>1 DEF Usable, Good, AnyCred, Failed, Failure
  <2>3. command' = [command EXCEPT !.at = "commit", !.candidate.cred = cred]
    BY <1>1, <1>3 DEF InHand, Shape, CommandFields
  <2> HIDE DEF cred
  <2> QED BY <1>1, <2>2, <2>3, CandidateKeeps
<1>4. CASE ~Failed(prepared) /\ command' = [command EXCEPT !.at = "commit", !.candidate.cred = prepared]
  <2>1. /\ Usable(prepared) /\ prepared.home = command.label /\ prepared.kind = "codex"
        /\ command.candidate.cred.identity # None => prepared.identity = command.candidate.cred.identity
    BY <1>1, <1>4, PrepareBundleUsable
  <2> HIDE DEF prepared
  <2> QED BY <1>1, <1>4, <2>1, CandidateKeeps
<1> QED BY <1>2, <1>3, <1>4 DEF PrepareAccountBundle

-----------------------------------------------------------------------------
(* Committing.                                                             *)

LEMMA CommitKeeps == ASSUME ChangesInv, Commit PROVE ChangesInv'
<1>1. Stored /\ InHand /\ command.at = "commit" /\ Ends /\ UNCHANGED <<homes, claude, setupTokens>>
  BY DEF ChangesInv, Commit, Step
<1>2. InHand'
  BY <1>1, EndsInHand
<1>3. CASE UNCHANGED <<accounts, privateHomes>>
  BY <1>1, <1>2, <1>3, StoredStays DEF ChangesInv, stored
<1>4. CASE accounts' = Recorded /\ privateHomes' = [l \in Label |-> BundleOf(l, accounts'[l])]
  <2>1. GoodAccount(command.label, command.candidate)
    BY <1>1 DEF InHand, Planned, Shape, GoodAccount, Usable, Saving
  <2>2. \A l \in Label : GoodAccount(l, Recorded[l])
    BY <1>1, <2>1, NoAccountGood DEF Recorded, Stored
  <2>3. DOMAIN Recorded = Label
    BY DEF Recorded
  <2>4. Stored'
    BY <1>1, <1>4, <2>2, <2>3 DEF Stored, Client
  <2> QED BY <1>2, <2>4 DEF ChangesInv
<1> QED BY <1>3, <1>4 DEF Commit

-----------------------------------------------------------------------------
(* The homes of the user.                                                  *)

LEMMA ConfigKeepsStored ==
  ASSUME Stored, NEW h, NEW config, homes' = [homes EXCEPT ![h].config = config],
         UNCHANGED <<accounts, privateHomes, claude, setupTokens>>
  PROVE  Stored'
<1>1. DOMAIN homes' = Home
  BY DEF Stored
<1>2. \A g \in Home : DOMAIN homes'[g] = {"auth", "config"} /\ homes'[g].auth = homes[g].auth
  BY DEF Stored
<1> QED BY <1>1, <1>2 DEF Stored, Client

LEMMA AuthKeepsStored ==
  ASSUME Stored, NEW h, NEW auth, Client(auth), homes' = [homes EXCEPT ![h].auth = auth],
         UNCHANGED <<accounts, privateHomes, claude, setupTokens>>
  PROVE  Stored'
<1>1. DOMAIN homes' = Home
  BY DEF Stored
<1>2. \A g \in Home : DOMAIN homes'[g] = {"auth", "config"} /\ homes'[g].auth \in {auth, homes[g].auth}
  BY DEF Stored
<1>3. \A g \in Home : Client(homes'[g].auth)
  BY <1>2 DEF Stored, Client
<1> QED BY <1>1, <1>2, <1>3 DEF Stored, Client

LEMMA PrepareLoginHomeKeeps == ASSUME ChangesInv, PrepareLoginHome PROVE ChangesInv'
<1>1. Stored /\ InHand /\ command.at = "login home" /\ Goes("login")
  BY DEF ChangesInv, PrepareLoginHome, Step
<1>2. Stored'
  BY <1>1, ConfigKeepsStored, StoredStays DEF PrepareLoginHome, stored
<1>3. /\ Shape' /\ command'.at = "login"
      /\ \A f \in CommandFields \ {"at"} : command'[f] = command[f]
  BY <1>1, GoesShape DEF InHand
<1>4. command'.op = command.op /\ command'.source = command.source /\ command'.label = command.label
  BY <1>3 DEF CommandFields
<1>5. Steps'
  BY <1>1, <1>3, <1>4 DEF InHand, Steps, Choosing, Saving, Exporting, Restoring
<1>6. Read' /\ Planned' /\ Exported' /\ Restored'
  BY <1>3 DEF Read, Planned, Exported, Restored, Saving, Exporting, Restoring
<1> QED BY <1>2, <1>3, <1>5, <1>6 DEF ChangesInv, InHand

LEMMA RunLoginKeeps == ASSUME ChangesInv, RunLogin PROVE ChangesInv'
<1>1. Stored /\ InHand /\ command.at = "login" /\ UNCHANGED <<accounts, privateHomes, claude, setupTokens>>
  BY DEF ChangesInv, RunLogin, Step
<1>2. CASE UNCHANGED homes /\ Ends
  BY <1>1, <1>2, StoredStays, EndsInHand DEF ChangesInv, stored
<1>3. ASSUME NEW auth \in CodexAuth, homes' = [homes EXCEPT ![command.source].auth = auth], Goes("resolve")
      PROVE  ChangesInv'
  <2>1. Client(auth)
    BY CodexAuthUsable DEF Client, Usable
  <2>2. Stored'
    BY <1>1, <1>3, <2>1, AuthKeepsStored
  <2>3. /\ Shape' /\ command'.at = "resolve"
        /\ \A f \in CommandFields \ {"at"} : command'[f] = command[f]
    BY <1>1, <1>3, GoesShape DEF InHand
  <2>4. command'.op = command.op /\ command'.source = command.source /\ command'.label = command.label
    BY <2>3 DEF CommandFields
  <2>5. Steps'
    BY <1>1, <2>3, <2>4 DEF InHand, Steps, Choosing, Saving, Exporting, Restoring
  <2>6. Read' /\ Planned' /\ Exported' /\ Restored'
    BY <2>3 DEF Read, Planned, Exported, Restored, Saving, Exporting, Restoring
  <2> QED BY <2>2, <2>3, <2>5, <2>6 DEF ChangesInv, InHand
<1> QED BY <1>1, <1>2, <1>3 DEF RunLogin

-----------------------------------------------------------------------------
(* codex export.                                                           *)

LEMMA ExportingKeeps ==
  ASSUME Stored', Shape', Exported', command'.at \in Exporting,
         command'.label \in Label, command'.source \in Home
  PROVE  ChangesInv'
<1>1. Steps'
  BY DEF Steps, Choosing, Saving, Exporting, Restoring
<1>2. Read' /\ Planned' /\ Restored'
  BY DEF Read, Planned, Restored, Saving, Exporting, Restoring
<1> QED BY <1>1, <1>2 DEF ChangesInv, InHand

\* A step of an export that only moves on.
LEMMA ExportGoes ==
  ASSUME Stored', InHand, NEW to, Goes(to),
         \/ command.at = "prepare export" /\ to = "refresh first"
         \/ command.at = "export config" /\ to = "reprove"
         \/ command.at = "reprove" /\ to = "export auth"
  PROVE  ChangesInv'
<1>1. /\ Shape' /\ command'.at = to
      /\ \A f \in CommandFields \ {"at"} : command'[f] = command[f]
  BY GoesShape DEF InHand
<1>2. /\ command'.source = command.source /\ command'.label = command.label
      /\ command'.candidate = command.candidate /\ command'.seen = command.seen
      /\ command'.detected = command.detected
  BY <1>1 DEF CommandFields
<1>3. command.label \in Label /\ command.source \in Home
  BY DEF InHand, Steps, Exporting
<1>4. Exported'
  BY <1>1, <1>2 DEF InHand, Exported, Exporting
<1> QED BY <1>1, <1>2, <1>3, <1>4, ExportingKeeps DEF Exporting

LEMMA ValidateExportTargetKeeps == ASSUME ChangesInv, ValidateExportTarget PROVE ChangesInv'
<1> DEFINE account == command.cached[command.label]
<1>1. Stored' /\ InHand /\ command.at = "validate target"
  BY StoredStays DEF ChangesInv, ValidateExportTarget, Step
<1>2. PICK from \in {None, "explicit"} :
        IF account = NoAccount \/ Provider(account.cred) # "codex" \/ command.source \in ProtectedHomes(from)
        THEN Ends
        ELSE command' = [command EXCEPT !.at = "snapshot", !.candidate = account, !.from = from]
  BY DEF ValidateExportTarget
<1>3. CASE Ends
  BY <1>1, <1>3, EndsInHand DEF ChangesInv
<1>4. CASE /\ account # NoAccount /\ Provider(account.cred) = "codex"
           /\ command' = [command EXCEPT !.at = "snapshot", !.candidate = account, !.from = from]
  <2>1. command.label \in Label /\ command.source \in Home
    BY <1>1 DEF InHand, Steps, Exporting
  <2>2. GoodAccount(command.label, account) /\ Usable(account.cred) /\ account.cred.kind = "codex"
    BY <1>1, <1>4, <2>1 DEF InHand, Shape, GoodAccount, Usable, Provider
  <2> HIDE DEF account
  <2>3. /\ command'.at = "snapshot" /\ command'.candidate = account
        /\ command'.label = command.label /\ command'.source = command.source /\ Shape'
    BY <1>1, <1>4, <2>2 DEF InHand, Shape, CommandFields, GoodAccount
  <2>4. Exported'
    BY <2>2, <2>3 DEF Exported
  <2> QED BY <1>1, <2>1, <2>3, <2>4, ExportingKeeps DEF Exporting
<1> QED BY <1>2, <1>3, <1>4

LEMMA SnapshotKeeps == ASSUME ChangesInv, SnapshotTarget PROVE ChangesInv'
<1> DEFINE target == homes[command.source]
<1>1. Stored /\ Stored' /\ InHand /\ command.at = "snapshot"
  BY StoredStays DEF ChangesInv, SnapshotTarget, Step
<1>2. CASE Ends
  BY <1>1, <1>2, EndsInHand DEF ChangesInv
<1>3. CASE /\ TargetOwner(target.auth, command.candidate.cred)
           /\ command' = [command EXCEPT !.at = "prepare export", !.seen = target.auth, !.config = target.config]
  <2>1. command.label \in Label /\ command.source \in Home
    BY <1>1 DEF InHand, Steps, Exporting
  <2>2. /\ command'.at = "prepare export" /\ command'.candidate = command.candidate
        /\ command'.seen = target.auth
        /\ command'.label = command.label /\ command'.source = command.source /\ Shape'
    BY <1>1, <1>3 DEF InHand, Shape, CommandFields
  <2>3. Exported'
    BY <1>1, <1>3, <2>2 DEF InHand, Exported, Exporting, TargetOwner, OwnedBy
  <2> QED BY <1>1, <2>1, <2>2, <2>3, ExportingKeeps DEF Exporting
<1> QED BY <1>2, <1>3 DEF SnapshotTarget

\* The login an export takes the id token from is of its account.
LEMMA MatchingSourceGood ==
  ASSUME Stored, InHand, command.at \in Exporting \ {"validate target"}
  PROVE  LET login == MatchingSource(command)
         IN Good(login) /\ (Failed(login) \/ BelongsTo(login, command.candidate.cred))
<1>1. Good(SourceHomes(command))
  <2>1. \A h \in Home : Good(homes[h].auth)
    BY DEF Stored, Client
  <2>2. command.from # None => command.from \in Home
    BY DEF InHand, Shape, Home
  <2>3. command.candidate.cred.home # None =>
          command.candidate.cred.home \in Label /\ Good(privateHomes[command.candidate.cred.home])
    <3>1. Good(command.candidate.cred)
      BY DEF InHand, Exported, Usable
    <3> QED BY <3>1, PrivateHomeGood DEF Good, AnyCred
  <2> QED BY <2>1, <2>2, <2>3, NoAuthGood DEF SourceHomes, FirstLogin, Home
<1> QED BY <1>1, FailsGood DEF MatchingSource, Failure

LEMMA PreparedToExport ==
  ASSUME NEW c, Usable(c), c.kind = "codex", NEW blob, Good(blob),
         Failed(blob) \/ BelongsTo(blob, c), ~Failed(Prepared(c, blob, None))
  PROVE  LET r == Prepared(c, blob, None) IN Client(r) /\ ~Failed(r) /\ r.identity = AccountId(c)
<1>1. /\ Usable(Prepared(c, blob, None)) /\ Prepared(c, blob, None).home = None
      /\ Prepared(c, blob, None).kind = "codex" /\ Prepared(c, blob, None).identity = AccountId(c)
  BY PreparedUsable
<1> QED BY <1>1 DEF Client, Usable

LEMMA PreparedExportUsable ==
  ASSUME Stored, InHand, command.at \in Exporting \ {"validate target"},
         ~Failed(PrepareExportBundle(command))
  PROVE  LET r == PrepareExportBundle(command)
         IN Client(r) /\ ~Failed(r) /\ r.identity = AccountId(command.candidate.cred)
<1> DEFINE blob == MatchingSource(command)
           cred == command.candidate.cred
<1>1. Good(blob) /\ (Failed(blob) \/ BelongsTo(blob, cred))
  BY MatchingSourceGood
<1>2. Usable(cred) /\ cred.kind = "codex"
  BY DEF InHand, Exported
<1>3. blob.kind \notin Failure \ {"missing"}
  BY DEF PrepareExportBundle, Failed
<1>4. PrepareExportBundle(command) = Prepared(cred, blob, None)
  BY <1>3 DEF PrepareExportBundle
<1> QED BY <1>1, <1>2, <1>4, PreparedToExport

LEMMA PrepareExportKeeps == ASSUME ChangesInv, PrepareExport PROVE ChangesInv'
<1> DEFINE prepared == PrepareExportBundle(command)
<1>1. Stored /\ Stored' /\ InHand /\ command.at = "prepare export"
  BY StoredStays DEF ChangesInv, PrepareExport, Step
<1>2. CASE Ends
  BY <1>1, <1>2, EndsInHand DEF ChangesInv
<1>3. CASE Goes("refresh first")
  BY <1>1, <1>3, ExportGoes DEF Exporting
<1>4. CASE ~Failed(prepared) /\ command' = [command EXCEPT !.at = "export config", !.detected = prepared]
  <2>1. Client(prepared) /\ ~Failed(prepared) /\ prepared.identity = AccountId(command.candidate.cred)
    BY <1>1, <1>4, PreparedExportUsable DEF Exporting
  <2> HIDE DEF prepared
  <2>2. command.label \in Label /\ command.source \in Home
    BY <1>1 DEF InHand, Steps, Exporting
  <2>3. /\ command'.at = "export config" /\ command'.candidate = command.candidate
        /\ command'.seen = command.seen /\ command'.detected = prepared
        /\ command'.label = command.label /\ command'.source = command.source /\ Shape'
    BY <1>1, <1>4 DEF InHand, Shape, CommandFields
  <2>4. Exported'
    BY <1>1, <2>1, <2>3 DEF InHand, Exported, Exporting, Client
  <2> QED BY <1>1, <2>2, <2>3, <2>4, ExportingKeeps DEF Exporting
<1> QED BY <1>2, <1>3, <1>4 DEF PrepareExport

LEMMA StoreKeepsStored ==
  ASSUME Stored, NEW l \in Label, NEW a, GoodAccount(l, a), accounts' = [accounts EXCEPT ![l] = a],
         privateHomes' = [privateHomes EXCEPT ![l] = BundleOf(l, a)],
         UNCHANGED <<homes, claude, setupTokens>>
  PROVE  Stored'
<1>1. DOMAIN accounts' = Label /\ \A k \in Label : accounts'[k] = IF k = l THEN a ELSE accounts[k]
  BY DEF Stored
<1>2. \A k \in Label : GoodAccount(k, accounts'[k])
  BY <1>1 DEF Stored
<1>3. privateHomes' = [k \in Label |-> BundleOf(k, accounts'[k])]
  BY <1>1 DEF Stored
<1> QED BY <1>1, <1>2, <1>3 DEF Stored, Client

LEMMA RotatedUsable ==
  ASSUME NEW c, Usable(c), NEW n \in Serial
  PROVE  LET r == [c EXCEPT !.access.n = n]
         IN /\ Usable(r) /\ r.home = c.home /\ r.kind = c.kind /\ r.refresh = c.refresh
            /\ r.access.owner = c.access.owner
<1> DEFINE token == [c.access EXCEPT !.n = n]
           r == [c EXCEPT !.access = token]
<1>1. c \in AnyCred /\ c.access \in Token
  BY DEF Usable, Good
<1>2. token \in Token /\ token.owner = c.access.owner
  BY <1>1 DEF Token
<1>3. r = [c EXCEPT !.access.n = n]
  BY <1>1 DEF AnyCred
<1> HIDE DEF token
<1>4. Usable(r) /\ r.home = c.home /\ r.kind = c.kind /\ r.refresh = c.refresh
      /\ r.access.owner = c.access.owner
  BY <1>1, <1>2 DEF Usable, Good, AnyCred, Failed, Failure
<1> HIDE DEF r
<1> QED BY <1>3, <1>4

\* The account a refresh leaves says whose it is and has all its tokens.
Completed(c, n, l) ==
  Saved([c EXCEPT !.access.n = n, !.id = c.access.owner, !.identity = c.access.owner], l)

LEMMA CompletedUsable ==
  ASSUME NEW l \in Label, NEW c, Usable(c), c.home \in {None, l}, c.kind = "codex",
         c.refresh # None, NEW n \in Serial
  PROVE  LET r == Completed(c, n, l) IN Usable(r) /\ r.home = l /\ r.kind = "codex"
<1> DEFINE r == Completed(c, n, l)
<1> DEFINE rotated == [c EXCEPT !.access.n = n]
<1>1. /\ Usable(rotated) /\ rotated.home = c.home /\ rotated.kind = "codex"
      /\ rotated.refresh = c.refresh /\ rotated.access.owner = c.access.owner
  BY RotatedUsable
<1>2. r = Saved([rotated EXCEPT !.id = c.access.owner, !.identity = c.access.owner], l)
  BY DEF Usable, Good, AnyCred, Completed
<1> HIDE DEF rotated, r
<1>3. c.access.owner \in Owner
  BY DEF Usable, Good, Token
<1> DEFINE named == [rotated EXCEPT !.id = c.access.owner, !.identity = c.access.owner]
<1>4. /\ Usable(named) /\ named.kind = "codex" /\ named.home \in {None, l}
      /\ None \notin {named.refresh, named.id, named.identity}
  BY <1>1, <1>3 DEF Usable, Good, AnyCred, Failed, Failure
<1>5. r = Saved(named, l)
  BY <1>2
<1> HIDE DEF named
<1>6. r = [named EXCEPT !.home = l]
  BY <1>4, <1>5 DEF Saved
<1>7. Usable(r) /\ r.home = l /\ r.kind = "codex"
  BY <1>4, <1>6 DEF Usable, Good, AnyCred, Failed, Failure
<1> QED BY <1>7 DEF r

LEMMA RefreshFirstKeeps == ASSUME ChangesInv, RefreshFirst PROVE ChangesInv'
<1> DEFINE l == command.label
           account == accounts[l]
<1>1. /\ Stored /\ InHand /\ command.at = "refresh first" /\ UNCHANGED <<homes, claude, setupTokens>>
      /\ l \in Label /\ command.source \in Home
  BY DEF ChangesInv, RefreshFirst, Step, InHand, Steps, Exporting
<1>2. CASE Ends /\ UNCHANGED <<accounts, privateHomes>>
  BY <1>1, <1>2, StoredStays, EndsInHand DEF ChangesInv, stored
<1>3. ASSUME NEW n \in Serial, NEW cred,
             cred = Saved([account.cred EXCEPT !.access.n = n, !.id = account.cred.access.owner,
                             !.identity = account.cred.access.owner], l),
             account.cred.kind = "codex", account.cred.refresh # None,
             accounts' = [accounts EXCEPT ![l].cred = cred],
             privateHomes' = [privateHomes EXCEPT ![l] = cred],
             command' = [command EXCEPT !.at = "snapshot", !.retried = TRUE, !.cached = accounts',
                           !.candidate = accounts'[l]]
      PROVE  ChangesInv'
  <2> DEFINE new == [account EXCEPT !.cred = cred]
  <2>1. account \in [cred : AnyCred, meta : Nat] /\ Usable(account.cred) /\ account.cred.home \in {None, l}
    BY <1>1, <1>3 DEF Stored, GoodAccount, Usable, Failed, Failure
  <2>2. Usable(cred) /\ cred.home = l /\ cred.kind = "codex"
    <3>1. /\ cred = Completed(account.cred, n, l) /\ account.cred.kind = "codex"
          /\ account.cred.refresh # None /\ l \in Label
      BY <1>1, <1>3 DEF Completed
    <3> HIDE DEF account, l
    <3> QED BY <2>1, <3>1, CompletedUsable
  <2>3. GoodAccount(l, new) /\ BundleOf(l, new) = cred /\ new.cred = cred
    BY <2>1, <2>2 DEF GoodAccount, BundleOf, Usable, Good
  <2>4. accounts' = [accounts EXCEPT ![l] = new] /\ accounts'[l] = new
    BY <1>1, <1>3 DEF Stored
  <2> HIDE DEF new
  <2>5. Stored'
    BY <1>1, <1>3, <2>3, <2>4, StoreKeepsStored
  <2>6. /\ command'.at = "snapshot" /\ command'.candidate = new
        /\ command'.label = l /\ command'.source = command.source /\ command'.cached = accounts'
    BY <1>1, <1>3, <2>4 DEF InHand, Shape, CommandFields
  <2>7. Shape'
    BY <1>1, <1>3, <2>3, <2>5, <2>6 DEF InHand, Shape, CommandFields, GoodAccount, Stored
  <2>8. Exported'
    BY <2>2, <2>3, <2>6 DEF Exported
  <2> HIDE DEF l
  <2> QED BY <1>1, <2>5, <2>6, <2>7, <2>8, ExportingKeeps DEF Exporting
<1> QED BY <1>2, <1>3 DEF RefreshFirst

LEMMA CommitConfigKeeps == ASSUME ChangesInv, CommitConfig PROVE ChangesInv'
<1>1. Stored /\ InHand /\ command.at = "export config" /\ UNCHANGED <<accounts, privateHomes, claude, setupTokens>>
  BY DEF ChangesInv, CommitConfig, Step
<1>2. CASE Ends /\ UNCHANGED homes
  BY <1>1, <1>2, StoredStays, EndsInHand DEF ChangesInv, stored
<1>3. CASE homes' = [homes EXCEPT ![command.source].config = FileAuthConfig(@)] /\ Goes("reprove")
  <2>1. Stored'
    BY <1>1, <1>3, ConfigKeepsStored
  <2> QED BY <1>1, <1>3, <2>1, ExportGoes
<1> QED BY <1>2, <1>3 DEF CommitConfig

LEMMA ReproveKeeps == ASSUME ChangesInv, Reprove PROVE ChangesInv'
<1>1. Stored' /\ InHand /\ command.at = "reprove"
  BY StoredStays DEF ChangesInv, Reprove, Step
<1> QED BY <1>1, ExportGoes, EndsInHand DEF Reprove, ChangesInv

\* What a step that is over for this invariant leaves.
LEMMA GoesToRest ==
  ASSUME InHand, NEW to \in {"prove export", "reopen"}, Goes(to)
  PROVE  InHand'
BY GoesShape, RestsInHand DEF InHand

LEMMA CommitAuthKeeps == ASSUME ChangesInv, CommitAuth PROVE ChangesInv'
<1>1. Stored /\ InHand /\ command.at = "export auth" /\ UNCHANGED <<accounts, privateHomes, claude, setupTokens>>
  BY DEF ChangesInv, CommitAuth, Step
<1>2. CASE Ends /\ UNCHANGED homes
  BY <1>1, <1>2, StoredStays, EndsInHand DEF ChangesInv, stored
<1>3. CASE homes' = [homes EXCEPT ![command.source].auth = command.detected] /\ Goes("prove export")
  <2>1. Client(command.detected)
    BY <1>1 DEF InHand, Exported, Exporting
  <2>2. Stored'
    BY <1>1, <1>3, <2>1, AuthKeepsStored
  <2> QED BY <1>1, <1>3, <2>2, GoesToRest DEF ChangesInv
<1> QED BY <1>2, <1>3 DEF CommitAuth

LEMMA ProveExportKeeps == ASSUME ChangesInv, ProveExport PROVE ChangesInv'
BY StoredStays, EndsInHand DEF ProveExport, Step, ChangesInv

-----------------------------------------------------------------------------
(* claude setup-token and restore-setup-token.                             *)

LEMMA PreviewSetupKeeps == ASSUME ChangesInv, PreviewSetup PROVE ChangesInv'
<1>1. Stored' /\ InHand /\ command.at = "preview setup"
  BY StoredStays DEF ChangesInv, PreviewSetup, Step
<1>2. CASE Ends
  BY <1>1, <1>2, EndsInHand DEF ChangesInv
<1>3. CASE Goes("capture")
  <2>1. /\ Shape' /\ command'.at = "capture"
        /\ \A f \in CommandFields \ {"at"} : command'[f] = command[f]
    BY <1>1, <1>3, GoesShape DEF InHand
  <2>2. command'.op = command.op /\ command'.source = command.source
    BY <2>1 DEF CommandFields
  <2>3. Steps'
    BY <1>1, <2>1, <2>2 DEF InHand, Steps, Choosing, Saving, Exporting, Restoring
  <2>4. Read' /\ Planned' /\ Exported' /\ Restored'
    BY <2>1 DEF Read, Planned, Exported, Restored, Saving, Exporting, Restoring
  <2> QED BY <1>1, <2>1, <2>3, <2>4 DEF ChangesInv, InHand
<1> QED BY <1>2, <1>3 DEF PreviewSetup

LEMMA CaptureKeeps == ASSUME ChangesInv, Capture PROVE ChangesInv'
<1>1. Stored' /\ InHand /\ command.at = "capture"
  BY StoredStays DEF ChangesInv, Capture, Step
<1>2. CASE Ends
  BY <1>1, <1>2, EndsInHand DEF ChangesInv
<1>3. CASE Goes("resolve")
  <2>1. /\ Shape' /\ command'.at = "resolve"
        /\ \A f \in CommandFields \ {"at"} : command'[f] = command[f]
    BY <1>1, <1>3, GoesShape DEF InHand
  <2>2. command'.op = command.op /\ command'.source = command.source
    BY <2>1 DEF CommandFields
  <2>3. Steps'
    BY <1>1, <2>1, <2>2 DEF InHand, Steps, Choosing, Saving, Exporting, Restoring
  <2>4. Read' /\ Planned' /\ Exported' /\ Restored'
    BY <2>1 DEF Read, Planned, Exported, Restored, Saving, Exporting, Restoring
  <2> QED BY <1>1, <2>1, <2>3, <2>4 DEF ChangesInv, InHand
<1> QED BY <1>2, <1>3 DEF Capture

LEMMA RestoringKeeps ==
  ASSUME Stored', Shape', Restored', command'.at \in Restoring, command'.label \in Label
  PROVE  ChangesInv'
<1>1. Steps'
  BY DEF Steps, Choosing, Saving, Exporting, Restoring
<1>2. Read' /\ Planned' /\ Exported'
  BY DEF Read, Planned, Exported, Saving, Exporting, Restoring
<1> QED BY <1>1, <1>2 DEF ChangesInv, InHand

LEMMA PreviewRestoreKeeps == ASSUME ChangesInv, PreviewRestore PROVE ChangesInv'
<1> DEFINE target == accounts[command.label]
           token == setupTokens[command.label]
<1>1. Stored /\ Stored' /\ InHand /\ command.at = "preview restore" /\ command.label \in Label
  BY StoredStays DEF ChangesInv, PreviewRestore, Step, InHand, Steps, Restoring
<1>2. CASE Ends
  BY <1>1, <1>2, EndsInHand DEF ChangesInv
<1>3. CASE /\ token # None
           /\ command' = [command EXCEPT !.at = "confirm", !.cached = accounts, !.detected = SetupToken(token),
                           !.candidate = target]
  <2>1. token \in Token /\ target \in [cred : AnyCred, meta : Nat]
    BY <1>1, <1>3 DEF Stored, GoodAccount
  <2>2. /\ command'.at = "confirm" /\ command'.label = command.label
        /\ command'.detected = SetupToken(token) /\ command'.cached = accounts
        /\ command'.candidate = target
    BY <1>1, <1>3 DEF InHand, Shape, CommandFields
  <2>3. Shape'
    BY <1>1, <1>3, <2>1, <2>2 DEF InHand, Shape, CommandFields, Stored
  <2>4. Restored'
    BY <2>1, <2>2 DEF Restored
  <2> QED BY <1>1, <2>2, <2>3, <2>4, RestoringKeeps DEF Restoring
<1> QED BY <1>2, <1>3 DEF PreviewRestore

LEMMA RestoreConfirmedKeeps == ASSUME ChangesInv, RestoreConfirmed PROVE ChangesInv'
<1> DEFINE current == accounts[command.label]
<1>1. Stored /\ Stored' /\ InHand /\ command.at = "confirm" /\ command.label \in Label
  BY StoredStays DEF ChangesInv, RestoreConfirmed, Step, InHand, Steps, Restoring
<1>2. CASE Ends
  BY <1>1, <1>2, EndsInHand DEF ChangesInv
<1>3. CASE /\ current # NoAccount /\ Provider(current.cred) = "claude"
           /\ command' = [command EXCEPT !.at = "verify", !.cached = accounts, !.seen = command.candidate.cred,
                             !.candidate = WithCred(current, command.detected)]
  <2>1. PICK t \in Token : command.detected = SetupToken(t)
    BY <1>1 DEF InHand, Restored, Restoring
  <2>2. WithCred(current, command.detected) \in [cred : AnyCred, meta : Nat]
    BY <1>1, <2>1, TokensUsable DEF Stored, GoodAccount, WithCred, Usable, Good
  <2>3. /\ command'.at = "verify" /\ command'.label = command.label
        /\ command'.detected = command.detected /\ command'.cached = accounts
        /\ command'.candidate = WithCred(current, command.detected)
    BY <1>1, <1>3 DEF InHand, Shape, CommandFields
  <2>4. Shape'
    BY <1>1, <1>3, <2>2, <2>3 DEF InHand, Shape, CommandFields, Stored
  <2>5. Restored'
    BY <1>3, <2>1, <2>3 DEF Restored
  <2> QED BY <1>1, <2>3, <2>4, <2>5, RestoringKeeps DEF Restoring
<1> QED BY <1>2, <1>3 DEF RestoreConfirmed, RestoreTarget, FreshTarget

LEMMA VerifyRestoreKeeps == ASSUME ChangesInv, VerifyRestore PROVE ChangesInv'
<1>1. Stored' /\ InHand /\ command.at = "verify" /\ command.label \in Label
  BY StoredStays DEF ChangesInv, VerifyRestore, Step, InHand, Steps, Restoring
<1>2. CASE Ends
  BY <1>1, <1>2, EndsInHand DEF ChangesInv
<1>3. CASE Goes("commit restore")
  <2>1. /\ Shape' /\ command'.at = "commit restore"
        /\ \A f \in CommandFields \ {"at"} : command'[f] = command[f]
    BY <1>1, <1>3, GoesShape DEF InHand
  <2>2. /\ command'.label = command.label /\ command'.detected = command.detected
        /\ command'.cached = command.cached /\ command'.candidate = command.candidate
    BY <2>1 DEF CommandFields
  <2>3. Restored'
    BY <1>1, <2>1, <2>2 DEF InHand, Restored, Restoring
  <2> QED BY <1>1, <2>1, <2>2, <2>3, RestoringKeeps DEF Restoring
<1> QED BY <1>2, <1>3 DEF VerifyRestore

LEMMA CommitRestoreKeeps == ASSUME ChangesInv, CommitRestore PROVE ChangesInv'
<1> DEFINE l == command.label
<1>1. /\ Stored /\ InHand /\ command.at = "commit restore" /\ l \in Label
      /\ UNCHANGED <<homes, claude, setupTokens, privateHomes>>
  BY DEF ChangesInv, CommitRestore, Step, InHand, Steps, Restoring
<1>2. CASE UNCHANGED accounts /\ Ends
  BY <1>1, <1>2, StoredStays, EndsInHand DEF ChangesInv, stored
<1>3. CASE StillCurrent /\ accounts' = [accounts EXCEPT ![l] = command.candidate] /\ Goes("reopen")
  <2>1. PICK t \in Token : command.detected = SetupToken(t)
    BY <1>1 DEF InHand, Restored, Restoring
  <2>2. /\ accounts[l] # NoAccount /\ Provider(accounts[l].cred) = "claude"
        /\ command.candidate = WithCred(accounts[l], SetupToken(t))
    BY <1>1, <1>3, <2>1 DEF InHand, Restored, StillCurrent
  <2>3. GoodAccount(l, accounts[l]) /\ accounts[l].cred.home = None
    BY <1>1, <2>2 DEF Stored, GoodAccount, Good, Provider
  <2>4. /\ command.candidate \in [cred : AnyCred, meta : Nat] /\ command.candidate.cred = SetupToken(t)
        /\ Usable(SetupToken(t)) /\ SetupToken(t).home = None
    BY <1>1, <2>2, <2>3, TokensUsable DEF WithCred, GoodAccount, InHand, Shape
  <2>5. GoodAccount(l, command.candidate)
    BY <2>4 DEF GoodAccount, Usable
  <2>6. BundleOf(l, command.candidate) = BundleOf(l, accounts[l])
    BY <1>1, <2>3, <2>4 DEF BundleOf
  <2>7. privateHomes' = [privateHomes EXCEPT ![l] = BundleOf(l, command.candidate)]
    BY <1>1, <2>6 DEF Stored
  <2>8. Stored'
    BY <1>1, <1>3, <2>5, <2>7, StoreKeepsStored
  <2> QED BY <1>1, <1>3, <2>8, GoesToRest DEF ChangesInv
<1> QED BY <1>2, <1>3 DEF CommitRestore

LEMMA ReopenKeeps == ASSUME ChangesInv, Reopen PROVE ChangesInv'
BY StoredStays, EndsInHand DEF Reopen, Step, ChangesInv

-----------------------------------------------------------------------------
(* Meanwhile: another process, the clients, the user.                      *)

LEMMA CommitsElsewhereKeeps ==
  ASSUME ChangesInv, NEW l \in Label, NEW a, GoodAccount(l, a), CommitsElsewhere(l, a)
  PROVE  ChangesInv'
BY StoreKeepsStored, InHandStays DEF CommitsElsewhere, ChangesInv

LEMMA RefreshElsewhereKeeps == ASSUME ChangesInv, NEW l \in Label, RefreshElsewhere(l) PROVE ChangesInv'
<1>1. GoodAccount(l, accounts[l]) /\ Usable(accounts[l].cred)
  BY DEF ChangesInv, Stored, RefreshElsewhere, GoodAccount, Usable, Good, Fails, Cred
<1>2. PICK n \in Serial : CommitsElsewhere(l, [accounts[l] EXCEPT !.cred.access.n = n])
  BY DEF RefreshElsewhere
<1> DEFINE cred == [accounts[l].cred EXCEPT !.access.n = n]
           new == [accounts[l] EXCEPT !.cred = cred]
<1>3. new = [accounts[l] EXCEPT !.cred.access.n = n]
  BY <1>1 DEF GoodAccount
<1>4. CommitsElsewhere(l, new)
  BY <1>2, <1>3
<1>5. Usable(cred) /\ cred.home = accounts[l].cred.home
  BY <1>1, RotatedUsable
<1> HIDE DEF cred
<1>6. GoodAccount(l, new)
  BY <1>1, <1>5 DEF GoodAccount, Usable, Good
<1> HIDE DEF new
<1> QED BY <1>4, <1>6, CommitsElsewhereKeeps

LEMMA ReplaceElsewhereKeeps == ASSUME ChangesInv, NEW l \in Label, ReplaceElsewhere(l) PROVE ChangesInv'
<1>1. PICK c \in CodexAuth \cup ClaudeAuth : CommitsElsewhere(l, [accounts[l] EXCEPT !.cred = Saved(c, l)])
  BY DEF ReplaceElsewhere
<1>2. Usable(Saved(c, l)) /\ Saved(c, l).home \in {None, l}
  BY SavedUsable, CodexAuthUsable, ClaudeAuthUsable
<1>3. GoodAccount(l, accounts[l])
  BY DEF ChangesInv, Stored
<1>4. GoodAccount(l, [accounts[l] EXCEPT !.cred = Saved(c, l)])
  BY <1>2, <1>3 DEF GoodAccount, Usable, Good
<1> QED BY <1>1, <1>4, CommitsElsewhereKeeps

LEMMA DescribeElsewhereKeeps == ASSUME ChangesInv, NEW l \in Label, DescribeElsewhere(l) PROVE ChangesInv'
<1>1. GoodAccount(l, [accounts[l] EXCEPT !.meta = 2])
  BY DEF ChangesInv, Stored, GoodAccount, DescribeElsewhere
<1> QED BY <1>1, CommitsElsewhereKeeps DEF DescribeElsewhere

LEMMA MeanwhileKeeps ==
  ASSUME ChangesInv,
         \/ \E l \in Label : \/ RefreshElsewhere(l) \/ ReplaceElsewhere(l) \/ DescribeElsewhere(l)
                              \/ RemoveElsewhere(l) \/ EditPrototype(l)
         \/ \E h \in Home : ClientLogin(h) \/ EditConfig(h)
         \/ \E p \in Place : ClaudeLogin(p)
  PROVE  ChangesInv'
<1>1. ASSUME NEW l \in Label, RemoveElsewhere(l) PROVE ChangesInv'
  BY <1>1, NoAccountGood, CommitsElsewhereKeeps DEF RemoveElsewhere
<1>2. ASSUME NEW l \in Label, EditPrototype(l) PROVE ChangesInv'
  <2>1. Stored'
    BY <1>2 DEF EditPrototype, ChangesInv, Stored, Client
  <2> QED BY <1>2, <2>1, InHandStays DEF EditPrototype, ChangesInv
<1>3. ASSUME NEW h \in Home, ClientLogin(h) PROVE ChangesInv'
  <2>1. PICK auth \in CodexAuth \cup {NoAuth, Fails("malformed")} : homes' = [homes EXCEPT ![h].auth = auth]
    BY <1>3 DEF ClientLogin
  <2>2. Client(auth)
    BY CodexAuthUsable, NoAuthGood, FailsGood DEF Client, Usable, Failure, NoAuth
  <2>3. Stored'
    BY <1>3, <2>1, <2>2, AuthKeepsStored DEF ClientLogin, ChangesInv
  <2> QED BY <1>3, <2>3, InHandStays DEF ClientLogin, ChangesInv
<1>4. ASSUME NEW h \in Home, EditConfig(h) PROVE ChangesInv'
  BY <1>4, ConfigKeepsStored, InHandStays DEF EditConfig, ChangesInv
<1>5. ASSUME NEW p \in Place, ClaudeLogin(p) PROVE ChangesInv'
  <2>1. PICK login \in ClaudeAuth \cup {Fails("unreadable"), Fails("expired")} : claude' = [claude EXCEPT ![p] = login]
    BY <1>5 DEF ClaudeLogin
  <2>2. Client(login)
    BY ClaudeAuthUsable, FailsGood DEF Client, Usable, Failure
  <2>3. Stored'
    BY <1>5, <2>1, <2>2 DEF ClaudeLogin, ChangesInv, Stored, Client
  <2> QED BY <1>5, <2>3, InHandStays DEF ClaudeLogin, ChangesInv
<1> QED BY <1>1, <1>2, <1>3, <1>4, <1>5, RefreshElsewhereKeeps, ReplaceElsewhereKeeps, DescribeElsewhereKeeps

-----------------------------------------------------------------------------
(* The invariant.                                                          *)

LEMMA ChangesInitInv == ASSUME ChangesInit PROVE ChangesInv
<1>1. PICK first \in Label, cred \in CodexAuth \cup Undeclared \cup ClaudeAuth \cup {SetupToken(t) : t \in Token} :
        /\ accounts = [l \in Label |-> IF l = first THEN [cred |-> Saved(cred, l), meta |-> 1] ELSE NoAccount]
        /\ privateHomes = [l \in Label |-> IF accounts[l].cred.home = l THEN accounts[l].cred ELSE NoAuth]
        /\ homes = [h \in Home |-> [auth |-> NoAuth, config |-> "absent"]]
        /\ claude = [p \in Place |-> NoAuth] /\ setupTokens = [l \in Label |-> None]
        /\ command = NoCommand
  BY DEF ChangesInit
<1>2. Usable(cred) /\ cred.home = None
  BY CodexAuthUsable, UndeclaredUsable, ClaudeAuthUsable, TokensUsable
<1>3. \A l \in Label : GoodAccount(l, accounts[l])
  <2>1. ASSUME NEW l \in Label PROVE GoodAccount(l, [cred |-> Saved(cred, l), meta |-> 1])
    BY <1>2, SavedUsable DEF GoodAccount, Usable, Good
  <2> QED BY <1>1, <2>1, NoAccountGood
<1>4. Client(NoAuth)
  BY NoAuthGood DEF Client, NoAuth, Fails, Cred
<1>5. Stored
  BY <1>1, <1>3, <1>4 DEF Stored, BundleOf
<1>6. Shape
  BY <1>1, NoAccountGood DEF NoCommand, Shape, CommandFields, GoodAccount
<1>7. command.at = "idle"
  BY <1>1 DEF NoCommand
<1>8. Steps /\ Read /\ Planned /\ Exported /\ Restored
  BY <1>7 DEF Steps, Read, Planned, Exported, Restored, Choosing, Saving, Exporting, Restoring
<1> QED BY <1>5, <1>6, <1>8 DEF ChangesInv, InHand

\* The steps of a command that has begun.
CommandStep ==
  \/ Resolve \/ MakePlan \/ ValidateNewAccount \/ InspectTarget \/ PrepareAccountBundle \/ Commit
  \/ PrepareLoginHome \/ RunLogin
  \/ ValidateExportTarget \/ SnapshotTarget \/ PrepareExport \/ RefreshFirst
  \/ CommitConfig \/ Reprove \/ CommitAuth \/ ProveExport
  \/ PreviewSetup \/ Capture
  \/ PreviewRestore \/ RestoreConfirmed \/ VerifyRestore \/ CommitRestore \/ Reopen
Begins ==
  \/ \E source \in {"default", "explicit", "claude", "claude token", "codex token"} : Add(source)
  \/ \E source \in {"default", "explicit", "claude"} : Refresh(source)
  \/ \E h \in {"default", "explicit"} : Login(h)
  \/ \E h \in Home : Export(h)
  \/ Setup \/ Restore
Meanwhile ==
  \/ \E l \in Label : \/ RefreshElsewhere(l) \/ ReplaceElsewhere(l) \/ DescribeElsewhere(l)
                       \/ RemoveElsewhere(l) \/ EditPrototype(l)
  \/ \E h \in Home : ClientLogin(h) \/ EditConfig(h)
  \/ \E p \in Place : ClaudeLogin(p)

LEMMA WhoSteps == ASSUME ChangesNext PROVE Begins \/ CommandStep \/ Meanwhile
BY DEF ChangesNext, Begins, CommandStep, Meanwhile

LEMMA CommandStepKeeps == ASSUME ChangesInv, CommandStep PROVE ChangesInv'
BY ResolveKeeps, MakePlanKeeps, ValidateKeeps, InspectKeeps, PrepareKeeps, CommitKeeps,
   PrepareLoginHomeKeeps, RunLoginKeeps, ValidateExportTargetKeeps, SnapshotKeeps,
   PrepareExportKeeps, RefreshFirstKeeps, CommitConfigKeeps, ReproveKeeps, CommitAuthKeeps,
   ProveExportKeeps, PreviewSetupKeeps, CaptureKeeps, PreviewRestoreKeeps,
   RestoreConfirmedKeeps, VerifyRestoreKeeps, CommitRestoreKeeps, ReopenKeeps
   DEF CommandStep

LEMMA ChangesStep == ASSUME ChangesInv, [ChangesNext]_changeVars PROVE ChangesInv'
<1>1. CASE UNCHANGED changeVars
  BY <1>1, StoredStays, InHandStays DEF ChangesInv, changeVars, stored
<1>2. CASE ChangesNext
  <2>1. CASE Begins
    BY <2>1, BeginsKeep DEF Begins
  <2>2. CASE Meanwhile
    BY <2>2, MeanwhileKeeps DEF Meanwhile
  <2> QED BY <1>2, <2>1, <2>2, WhoSteps, CommandStepKeeps
<1> QED BY <1>1, <1>2

ChangesSpec == ChangesInit /\ [][ChangesNext]_changeVars

\* Whatever a command has in hand, and whatever is stored, is of one person,
\* and what it will commit is what its options permit of what it loaded
\* (src/src/sidekick_usages/credentials/service.py and the policies it calls).
THEOREM ChangesInvariance == ChangesSpec => []ChangesInv
<1>1. ChangesInit => ChangesInv
  BY ChangesInitInv
<1>2. ChangesInv /\ [ChangesNext]_changeVars => ChangesInv'
  BY ChangesStep
<1> QED BY <1>1, <1>2, PTL DEF ChangesSpec

\* The tokens of an account, and those of its private home, are of one person,
\* however often a command reads a source that changes under it.
THEOREM OneIdentityHolds == ChangesSpec => []OneIdentity
<1>1. ChangesInv => OneIdentity
  BY DEF ChangesInv, Stored, OneIdentity, GoodAccount, Good
<1> QED BY <1>1, ChangesInvariance, PTL

-----------------------------------------------------------------------------
(* What a step may do.                                                     *)

\* Only its own step takes a command on; what others do leaves it alone.
LEMMA MeanwhileLeavesCommand == ASSUME Meanwhile PROVE UNCHANGED command
BY DEF Meanwhile, RefreshElsewhere, ReplaceElsewhere, DescribeElsewhere, RemoveElsewhere,
       CommitsElsewhere, EditPrototype, ClientLogin, EditConfig, ClaudeLogin

LEMMA BeginsAtIdle == ASSUME Begins PROVE command.at = "idle"
BY DEF Begins, Add, Refresh, Login, Export, Setup, Restore, Begin

LEMMA WhichStep ==
  ASSUME [ChangesNext]_changeVars, command.at # command'.at
  PROVE  /\ command.at = "commit" => Commit
         /\ command.at = "export auth" => CommitAuth
         /\ command.at = "commit restore" => CommitRestore
<1>1. Begins \/ CommandStep
  BY WhoSteps, MeanwhileLeavesCommand DEF changeVars
<1>2. command.at # "idle" => CommandStep
  BY <1>1, BeginsAtIdle
<1>3. ASSUME CommandStep
      PROVE  \/ Commit \/ CommitAuth \/ CommitRestore
             \/ command.at \notin {"commit", "export auth", "commit restore"}
  BY <1>3
     DEF CommandStep, Step, Resolve, MakePlan, ValidateNewAccount, InspectTarget,
         PrepareAccountBundle, PrepareLoginHome, RunLogin, ValidateExportTarget, SnapshotTarget,
         PrepareExport, RefreshFirst, CommitConfig, Reprove, ProveExport, PreviewSetup, Capture,
         PreviewRestore, RestoreConfirmed, VerifyRestore, Reopen
<1>4. /\ Commit => command.at = "commit" 
      /\ CommitAuth => command.at = "export auth"
      /\ CommitRestore => command.at = "commit restore"
  BY DEF Commit, CommitAuth, CommitRestore, Step
<1> QED BY <1>2, <1>3, <1>4

LEMMA CommitIsPermitted ==
  ASSUME ChangesInv, Commit, NEW l \in Label,
         ~Failed(accounts[l].cred), ~Failed(accounts'[l].cred)
  PROVE  \/ accounts'[l] = accounts[l]
         \/ Permitted(accounts[l].cred, accounts'[l].cred, command.force, command.replace, command.method)
<1>1. command.at = "commit"
  BY DEF Commit, Step
<1>2. CASE UNCHANGED accounts
  BY <1>2
<1>3. CASE StillCurrent /\ accounts' = Recorded
  <2>1. accounts'[l] = IF l = command.label THEN command.candidate
                       ELSE IF l = command.previous THEN NoAccount ELSE accounts[l]
    BY <1>3 DEF Recorded
  <2>2. CASE l = command.label
    BY <1>1, <1>3, <2>1, <2>2 DEF ChangesInv, InHand, Planned, Saving, StillCurrent
  <2> QED BY <2>1, <2>2, NoAccountGood
<1> QED BY <1>2, <1>3 DEF Commit

\* A command never makes a label someone else's, nor turns its login into a
\* setup token or back, unless its options allow that: a commit needs the store
\* the plan was made from (CredentialService and persist_credentials).
THEOREM AuthorizedHolds == ChangesSpec => Authorized
<1> DEFINE Allowed ==
      \A l \in Label :
        LET old == accounts[l].cred
            new == accounts'[l].cred
        IN command.at = "commit" /\ command'.at = "done" /\ ~Failed(old) /\ ~Failed(new) =>
             /\ KeptIdentity(old, new) \/ command.force \/ command.replace
             /\ old.kind = "login" /\ new.kind = "setup" => command.force /\ command.replace
             /\ old.kind = "setup" /\ new.kind = "login" => command.force \/ command.method
<1>1. ChangesInv /\ [ChangesNext]_changeVars => Allowed
  <2> SUFFICES ASSUME ChangesInv, [ChangesNext]_changeVars, NEW l \in Label,
                      command.at = "commit", command'.at = "done",
                      ~Failed(accounts[l].cred), ~Failed(accounts'[l].cred)
               PROVE  LET old == accounts[l].cred
                          new == accounts'[l].cred
                      IN /\ KeptIdentity(old, new) \/ command.force \/ command.replace
                         /\ old.kind = "login" /\ new.kind = "setup" => command.force /\ command.replace
                         /\ old.kind = "setup" /\ new.kind = "login" => command.force \/ command.method
    OBVIOUS
  <2>1. \/ accounts'[l] = accounts[l]
        \/ Permitted(accounts[l].cred, accounts'[l].cred, command.force, command.replace, command.method)
    BY WhichStep, CommitIsPermitted
  <2> QED BY <2>1 DEF Permitted, KeptIdentity
<1>2. ChangesSpec => [][Allowed]_changeVars
  BY <1>1, ChangesInvariance, PTL DEF ChangesSpec
<1> QED BY <1>2 DEF Authorized

\* An export gives a home no other owner than the one it has, even when someone
\* logs in there while it runs (validate_auth_bundle_owner in credentials/codex.py,
\* and the target it compares before it writes).
THEOREM ExportKeepsOwnerHolds == ChangesSpec => ExportKeepsOwner
<1> DEFINE Kept ==
      \A h \in Home :
        command'.at = "prove export" /\ command.at = "export auth" /\ homes[h].auth # NoAuth =>
          homes'[h].auth.identity = homes[h].auth.identity
<1>1. ChangesInv /\ [ChangesNext]_changeVars => Kept
  <2> SUFFICES ASSUME ChangesInv, [ChangesNext]_changeVars, NEW h \in Home,
                      command'.at = "prove export", command.at = "export auth", homes[h].auth # NoAuth
               PROVE  homes'[h].auth.identity = homes[h].auth.identity
    OBVIOUS
  <2>1. CommitAuth
    BY WhichStep
  <2>2. TargetAsSeen /\ homes' = [homes EXCEPT ![command.source].auth = command.detected]
    BY <2>1 DEF CommitAuth, Ends, NoCommand
  <2>3. CASE h # command.source
    BY <2>2, <2>3 DEF ChangesInv, Stored
  <2>4. CASE h = command.source
    <3>1. /\ command.seen.identity = command.candidate.cred.identity
          /\ command.candidate.cred.identity # None
          /\ command.detected.identity = AccountId(command.candidate.cred)
      BY <2>2, <2>4 DEF ChangesInv, InHand, Exported, Exporting, TargetAsSeen
    <3>2. homes'[h].auth = command.detected
      BY <2>2, <2>4 DEF ChangesInv, Stored
    <3> QED BY <2>2, <2>4, <3>1, <3>2 DEF AccountId, Or, TargetAsSeen
  <2> QED BY <2>3, <2>4
<1>2. ChangesSpec => [][Kept]_changeVars
  BY <1>1, ChangesInvariance, PTL DEF ChangesSpec
<1> QED BY <1>2 DEF ExportKeepsOwner

\* A restore changes the credential of its account and nothing else of it,
\* whatever changed while the user was asked (credentials/claude_restore.py).
THEOREM RestoreKeepsTheRestHolds == ChangesSpec => RestoreKeepsTheRest
<1> DEFINE Kept ==
      command.at = "commit restore" /\ command'.at = "reopen" =>
        /\ accounts'[command.label].meta = accounts[command.label].meta
        /\ \A l \in Label \ {command.label} : accounts'[l] = accounts[l]
<1>1. ChangesInv /\ [ChangesNext]_changeVars => Kept
  <2> SUFFICES ASSUME ChangesInv, [ChangesNext]_changeVars,
                      command.at = "commit restore", command'.at = "reopen"
               PROVE  /\ accounts'[command.label].meta = accounts[command.label].meta
                      /\ \A l \in Label \ {command.label} : accounts'[l] = accounts[l]
    OBVIOUS
  <2>1. CommitRestore
    BY WhichStep
  <2>2. StillCurrent /\ accounts' = [accounts EXCEPT ![command.label] = command.candidate]
    BY <2>1 DEF CommitRestore, Ends, NoCommand
  <2>3. /\ command.label \in Label
        /\ command.candidate = WithCred(accounts[command.label], command.detected)
    BY <2>2 DEF ChangesInv, InHand, Steps, Restored, Restoring, StillCurrent
  <2>4. DOMAIN accounts = Label /\ GoodAccount(command.label, accounts[command.label])
    BY <2>3 DEF ChangesInv, Stored
  <2> QED BY <2>2, <2>3, <2>4 DEF WithCred, GoodAccount
<1>2. ChangesSpec => [][Kept]_changeVars
  BY <1>1, ChangesInvariance, PTL DEF ChangesSpec
<1> QED BY <1>2 DEF RestoreKeepsTheRest
=============================================================================
