--------------------------------- MODULE Sweeps ---------------------------------
(***************************************************************************)
(* The commands that go over all saved accounts: the usage check           *)
(* (usage/service.py) and maintenance, which refreshes what is due         *)
(* (maintenance.py) and then warms usage windows (heartbeat/service.py).   *)
(* Each works from the accounts it loaded, while other commands and the    *)
(* operator change the store; a refresh in the middle of a sweep reopens   *)
(* the store, so that later accounts are older than the baseline.          *)
(*                                                                         *)
(* The refresh of one account (credentials/refresh.py) is one step here;   *)
(* CredentialRefresh has its inside, AccountStore the store's.             *)
(***************************************************************************)
EXTENDS Integers, FiniteSets

CONSTANTS
  Label,             \* in store order
  Usage, Maintain,   \* processes of either kind
  MaxSweeps,         \* bound on the sweeps of a behaviour
  MaxChanges         \* bound on what other commands do meanwhile

ASSUME SweepsAssumption == Label \subseteq Nat /\ Usage \cap Maintain = {} /\ {MaxSweeps, MaxChanges} \subseteq Nat

Process == Usage \cup Maintain
Provider == {"claude", "codex"}
SupportedTargets(r) == IF r.provider = "codex" THEN {"standard", "spark"} ELSE {"standard"}
DefaultTargets == {"standard"}

(* An account: whose login it is and how often it rotated, what the        *)
(* provider told of it (plan, account identity), whether its last refresh  *)
(* failed, and its heartbeat: opted in, targets ({} for the defaults),     *)
(* targets whose reset is known, and the last status.                      *)
Nobody == [provider |-> "none"]
NewAccount(provider, owner) ==
  [provider |-> provider, owner |-> owner, cred |-> 0, told |-> {}, failed |-> FALSE,
   enabled |-> FALSE, targets |-> {}, warm |-> {}, beat |-> "none"]

VARIABLES
  saved, version,  \* the authority and its fingerprint
  sweep,           \* what each process knows
  changes

vars == <<saved, version, sweep, changes>>

NotStarted ==
  [pc |-> "start", cache |-> <<>>, base |-> 0, copies |-> <<>>, todo |-> {}, label |-> "none",
   account |-> Nobody, expected |-> Nobody, provider |-> "none", retry |-> TRUE,
   targets |-> {}, target |-> "none", asked |-> "none", failed |-> {}, result |-> "none"]

Init ==
  /\ saved \in [Label -> {Nobody, [NewAccount("claude", 1) EXCEPT !.enabled = TRUE],
                           [NewAccount("codex", 1) EXCEPT !.enabled = TRUE,
                                                          !.targets = {"standard", "spark"}]}]
  /\ \E l \in Label : saved[l].provider = "codex"
  /\ Cardinality({l \in Label : saved[l].provider = "codex"}) = 1
  /\ version = 0 /\ changes = 0 /\ sweep = [p \in Process |-> NotStarted]

-----------------------------------------------------------------------------
(* A record with these fields, and the others as they were.                *)
With(fields, r) ==
  [f \in DOMAIN fields \cup DOMAIN r |-> IF f \in DOMAIN fields THEN fields[f] ELSE r[f]]

Puts(p, fields) == sweep' = [sweep EXCEPT ![p] = With(fields, @)]
Goes(p, pc) == Puts(p, [pc |-> pc])
Next1(p) == [pc |-> "next", label |-> "none", account |-> Nobody, expected |-> Nobody,
             provider |-> "none", retry |-> TRUE, targets |-> {}, target |-> "none",
             asked |-> "none"]
Store(l, r) == saved' = [saved EXCEPT ![l] = r] /\ version' = version + 1 /\ UNCHANGED changes
Unchanged == UNCHANGED <<saved, version, changes>>
LabelsOf(accounts) == {l \in DOMAIN accounts : accounts[l] # Nobody}

(* AccountStore.persist: the loaded accounts with this one replaced, and   *)
(* only over the baseline they were loaded from.                           *)
SourceChanged(p) == version # sweep[p].base

Persists(p, r, then, otherwise) ==
  IF SourceChanged(p)
  THEN Unchanged /\ Puts(p, otherwise)
  ELSE LET candidate == [sweep[p].cache EXCEPT ![sweep[p].label] = r]
       IN /\ saved' = candidate /\ version' = version + 1 /\ UNCHANGED changes
          /\ Puts(p, With(then, [cache |-> candidate, base |-> version + 1]))

Aborts == [pc |-> "done", result |-> "persistence_error"]

-----------------------------------------------------------------------------
Begin(p) ==
  /\ sweep[p].pc = "start" /\ Cardinality({q \in Process : sweep[q].pc # "start"}) < MaxSweeps
  /\ Puts(p, [pc |-> "next", cache |-> saved, base |-> version, copies |-> saved,
             todo |-> LabelsOf(saved)])
  /\ Unchanged

(* Accounts are taken in store order.                                     *)
IsNext(p, l) == l \in sweep[p].todo /\ \A k \in sweep[p].todo : l <= k

(* usage _check_account: the expiry of the loaded copy decides.            *)
CheckAccount(u, l) ==
  LET account == sweep[u].copies[l]
      Taken(pc) == [pc |-> pc, label |-> l, account |-> account,
                    provider |-> account.provider, todo |-> sweep[u].todo \ {l}]
  IN /\ sweep[u].pc = "next" /\ IsNext(u, l)
     /\ \/ Puts(u, [todo |-> sweep[u].todo \ {l}])   \* invalid expiry
        \/ Puts(u, Taken("refresh"))                 \* expired, or nearly
        \/ Puts(u, Taken("fetch"))
     /\ Unchanged

(* maintenance refresh_account: an expired login is not refreshed, a fresh *)
(* token is skipped, an account without a refresh token fails.             *)
RefreshAccount(m, l) ==
  LET Taken(pc) == [pc |-> pc, label |-> l, account |-> sweep[m].copies[l],
                    todo |-> sweep[m].todo \ {l}]
  IN /\ sweep[m].pc = "next" /\ IsNext(m, l)
     /\ \/ Puts(m, [todo |-> sweep[m].todo \ {l}])
        \/ Puts(m, Taken("refresh"))
        \/ Puts(m, Taken("failed"))
     /\ Unchanged

(* The coordinator, by label: it works on what is saved now and leaves the *)
(* process with what is saved then.  A login expired for good is a         *)
(* rejection that changes nothing.                                         *)
Adopts(p, pc) ==
  Puts(p, [pc |-> pc, cache |-> saved', base |-> version',
           failed |-> sweep[p].failed \ {k \in LabelsOf(saved') : ~ saved'[k].failed}])

Coordinator(p) ==
  LET l == sweep[p].label
      current == saved[l]
      refreshed == IF p \in Usage THEN "refreshed" ELSE "next"
      gaveUp == IF p \in Usage THEN "refused" ELSE "next"
  IN /\ sweep[p].pc = "refresh"
     /\ \/ Unchanged /\ Goes(p, gaveUp)                       \* PersistenceError, login expired
        \/ Unchanged /\ current = Nobody /\ Adopts(p, gaveUp)
        \/ Unchanged /\ current # Nobody /\ sweep[p].cache[l] # Nobody
           /\ current.cred > sweep[p].cache[l].cred
           /\ Adopts(p, refreshed)                            \* another process did it
        \/ /\ current # Nobody
           /\ Store(l, [current EXCEPT !.cred = @ + 1, !.failed = FALSE])
           /\ Adopts(p, refreshed)
        \/ Unchanged /\ Adopts(p, "failed")         \* nothing proven
        \/ /\ current # Nobody
           /\ Store(l, [current EXCEPT !.failed = TRUE])
           /\ Adopts(p, "failed")

(* _record_failed: the account as the sweep has it, marked failed.  The    *)
(* usage check reports a persistence error for the account; maintenance    *)
(* ends with it.                                                           *)
RecordFailed(p) ==
  /\ sweep[p].pc = "failed"
  /\ Persists(p, [sweep[p].account EXCEPT !.failed = TRUE],
              [pc |-> IF p \in Usage THEN "refused" ELSE "next",
               failed |-> sweep[p].failed \cup {sweep[p].label}],
              IF p \in Usage THEN [pc |-> "refused"] ELSE Aborts)

-----------------------------------------------------------------------------
(* The usage check after a refresh, and its requests.                      *)

UsesRefreshed(u) ==
  LET current == sweep[u].cache[sweep[u].label]
  IN /\ sweep[u].pc = "refreshed"
     /\ IF current = Nobody \/ current.provider # sweep[u].account.provider
        THEN Goes(u, "refused")
        ELSE Puts(u, [pc |-> "fetch", account |-> current])
     /\ Unchanged
(* Mutation: whatever the label holds after the refresh is used.           *)
UsesAnyRefreshed(u) ==
  LET current == sweep[u].cache[sweep[u].label]
  IN /\ sweep[u].pc = "refreshed"
     /\ IF current = Nobody THEN Goes(u, "refused")
        ELSE Puts(u, [pc |-> "fetch", account |-> current])
     /\ Unchanged
Refresh(u) == UsesRefreshed(u)

Found == {{}, {"plan", "identity"}}

(* _fetch: the request, its answer, and what the provider told.  A refused *)
(* token is refreshed once; an identity that does not match is an end.     *)
FetchUsage(u) ==
  /\ sweep[u].pc = "fetch"
  /\ Puts(u, [pc |-> "answer", asked |-> sweep[u].provider])
  /\ Unchanged

HandleAuthentication(u) ==
  IF sweep[u].retry THEN Puts(u, [pc |-> "refresh", retry |-> FALSE]) ELSE Goes(u, "refused")

Answer(u) ==
  /\ sweep[u].pc = "answer"
  /\ \/ HandleAuthentication(u)
     \/ Goes(u, "refused")
     \/ \E found \in Found :
          LET account == [sweep[u].account EXCEPT !.told = @ \cup found]
          IN Puts(u, [pc |-> IF account = sweep[u].account THEN "refused" ELSE "update",
                     account |-> account, expected |-> sweep[u].account])
  /\ Unchanged

(* persist_provider_update: only over the credentials and the plan that    *)
(* the provider was asked about.                                           *)
PersistProviderUpdate(u) ==
  LET current == sweep[u].cache[sweep[u].label]
      expected == sweep[u].expected
      Same(r) == <<r.provider, r.owner, r.cred, r.told>>
  IN /\ sweep[u].pc = "update"
     /\ IF current = Nobody \/ Same(current) # Same(expected)
        THEN Unchanged /\ Goes(u, "refused")
        ELSE Persists(u, [current EXCEPT !.told = sweep[u].account.told],
                      [pc |-> "refused"], [pc |-> "refused"])
(* Mutation: the account that was asked about is persisted as it is.       *)
PersistAccount(u) ==
  /\ sweep[u].pc = "update"
  /\ Persists(u, sweep[u].account, [pc |-> "refused"], [pc |-> "refused"])
Update(u) == PersistProviderUpdate(u)

EndAccount(u) ==
  /\ sweep[u].pc = "refused" /\ Puts(u, Next1(u)) /\ Unchanged

EndUsage(u) ==
  /\ sweep[u].pc = "next" /\ sweep[u].todo = {} /\ Goes(u, "done") /\ Unchanged

-----------------------------------------------------------------------------
(* heartbeat_all, with the accounts as the refreshes left them.            *)

HeartbeatAll(m) ==
  /\ sweep[m].pc = "next" /\ sweep[m].todo = {}
  /\ Puts(m, [pc |-> "beats", copies |-> sweep[m].cache, todo |-> LabelsOf(sweep[m].cache)])
  /\ Unchanged
(* Mutation: with the accounts as they were when the sweep began.          *)
HeartbeatInitial(m) ==
  /\ sweep[m].pc = "next" /\ sweep[m].todo = {}
  /\ Puts(m, [pc |-> "beats", todo |-> LabelsOf(sweep[m].copies)])
  /\ Unchanged
BeginBeats(m) == HeartbeatAll(m)

(* _selected_target_ids: the configured targets, or the default one.       *)
TargetsOf(r) == IF r.targets = {} THEN DefaultTargets ELSE r.targets
SelectTargets(m, l) ==
  /\ sweep[m].pc = "beats" /\ IsNext(m, l)
  /\ Puts(m, [pc |-> "targets", label |-> l, account |-> sweep[m].copies[l],
             targets |-> TargetsOf(sweep[m].copies[l]), todo |-> sweep[m].todo \ {l}])
  /\ Unchanged

Beaten(m, r) == Persists(m, r, [pc |-> "targets", account |-> r, target |-> "none"], Aborts)
Records(m, t, status) ==
  LET r == [sweep[m].account EXCEPT !.beat = status]
  IN Persists(m, r, [targets |-> sweep[m].targets \ {t}, account |-> r], Aborts)

(* heartbeat_account, up to the request: an account that is opted out and  *)
(* a target whose reset is known and still to come need nothing.           *)
Skips(m, t) == Puts(m, [targets |-> sweep[m].targets \ {t}]) /\ Unchanged
TargetReset(m, t) == t \in sweep[m].account.warm /\ Skips(m, t)

(* A failed refresh, an invalid or an expired token.                       *)
AuthBlocker(m, t) == Records(m, t, "failed")
UnsupportedTarget(m, t) ==
  t \notin SupportedTargets(sweep[m].account) /\ Records(m, t, "failed")

HeartbeatAccount(m, t) ==
  LET account == sweep[m].account
  IN /\ sweep[m].pc = "targets" /\ t \in sweep[m].targets
     /\ \/ ~ account.enabled /\ Skips(m, t)
        \/ account.enabled /\ AuthBlocker(m, t)
        \/ /\ account.enabled /\ ~ account.failed
           /\ \/ Records(m, t, "unsupported")
              \/ UnsupportedTarget(m, t)
              \/ TargetReset(m, t)
              \/ /\ t \in SupportedTargets(account)
                 /\ Puts(m, [pc |-> "inspect", target |-> t, asked |-> account.provider,
                            targets |-> sweep[m].targets \ {t}])
                 /\ Unchanged

(* provider.run: inspect the window, and warm it unless it is active.  A   *)
(* Codex request tells the identity of an account that was saved without.  *)
Warmed(m, r) == [r EXCEPT !.beat = "active", !.warm = @ \cup {sweep[m].target}]

InspectWindow(m) ==
  /\ sweep[m].pc = "inspect"
  /\ \E told \in {{}, {"identity"}} :
       LET account == [sweep[m].account EXCEPT !.told = @ \cup told]
       IN \/ Beaten(m, Warmed(m, account))
          \/ Beaten(m, [account EXCEPT !.beat = "failed"])
          \/ Puts(m, [pc |-> "warm", account |-> account]) /\ Unchanged

WarmWindow(m) ==
  /\ sweep[m].pc = "warm"
  /\ \/ Beaten(m, Warmed(m, sweep[m].account))
     \/ Beaten(m, [sweep[m].account EXCEPT !.beat = "failed"])

EndTargets(m) ==
  /\ sweep[m].pc = "targets" /\ sweep[m].targets = {}
  /\ Puts(m, [pc |-> "beats", label |-> "none", account |-> Nobody]) /\ Unchanged

EndMaintain(m) ==
  /\ sweep[m].pc = "beats" /\ sweep[m].todo = {} /\ Goes(m, "done") /\ Unchanged

-----------------------------------------------------------------------------
(* Other commands, which load, change and commit: the operator's, and the  *)
(* refreshes of other sweeps.                                              *)

Operator(l, r) ==
  /\ changes < MaxChanges /\ changes' = changes + 1
  /\ \E p \in Process : sweep[p].pc \notin {"start", "done"}
  /\ saved' = [saved EXCEPT ![l] = r] /\ version' = version + 1 /\ UNCHANGED sweep

RefreshedElsewhere(l) ==
  /\ saved[l] # Nobody
  /\ \/ Operator(l, [saved[l] EXCEPT !.cred = @ + 1, !.failed = FALSE])
     \/ Operator(l, [saved[l] EXCEPT !.failed = TRUE])

SaveLogin(l) ==
  \E provider \in Provider :
    LET owner == IF saved[l] = Nobody THEN 1 ELSE 3 - saved[l].owner
        cred == IF saved[l] = Nobody THEN 0 ELSE saved[l].cred + 1
    IN Operator(l, [NewAccount(provider, owner) EXCEPT !.cred = cred])

\* A Codex login over an account replaces its credential and keeps the rest of it,
\* the mark of a failed refresh too.
LoginCodex(l) ==
  /\ saved[l].provider = "codex"
  /\ \E owner \in {saved[l].owner, 3 - saved[l].owner} :
       Operator(l, [saved[l] EXCEPT !.cred = @ + 1, !.owner = owner])

RemoveAccount(l) == saved[l] # Nobody /\ Operator(l, Nobody)

(* heartbeat enable and disable, of all or of one target.                  *)
EnableHeartbeat(l) ==
  /\ saved[l] # Nobody
  /\ \/ Operator(l, [saved[l] EXCEPT !.enabled = TRUE, !.targets = {}])
     \/ \E t \in SupportedTargets(saved[l]) :
          Operator(l, [saved[l] EXCEPT !.enabled = TRUE, !.targets = TargetsOf(saved[l]) \cup {t}])

DisableHeartbeat(l) ==
  /\ saved[l] # Nobody
  /\ \/ Operator(l, [saved[l] EXCEPT !.enabled = FALSE])
     \/ \E t \in SupportedTargets(saved[l]) :
          LET left == TargetsOf(saved[l]) \ {t}
          IN Operator(l, [saved[l] EXCEPT !.targets = left, !.enabled = @ /\ left # {}])

Next ==
  \/ \E p \in Process : Begin(p) \/ Coordinator(p) \/ RecordFailed(p)
  \/ \E u \in Usage :
       \/ \E l \in Label : CheckAccount(u, l)
       \/ Refresh(u) \/ FetchUsage(u) \/ Answer(u) \/ Update(u) \/ EndAccount(u) \/ EndUsage(u)
  \/ \E m \in Maintain :
       \/ \E l \in Label : RefreshAccount(m, l) \/ SelectTargets(m, l)
       \/ \E t \in {"standard", "spark"} : HeartbeatAccount(m, t)
       \/ BeginBeats(m) \/ InspectWindow(m) \/ WarmWindow(m) \/ EndTargets(m) \/ EndMaintain(m)
  \/ \E l \in Label :
       \/ RefreshedElsewhere(l) \/ SaveLogin(l) \/ LoginCodex(l) \/ RemoveAccount(l)
       \/ EnableHeartbeat(l) \/ DisableHeartbeat(l)

Spec == Init /\ [][Next]_vars

-----------------------------------------------------------------------------
(* What a provider told of an account is saved only with the login that    *)
(* was asked about: an update and a heartbeat change nothing else, neither *)
(* of that account (its rotated credentials, the operator's opt-out) nor   *)
(* of another, however old the copies of the sweep are.                    *)
Rest(r, fields) == [f \in DOMAIN r \ fields |-> r[f]]
KeepsTheRest ==
  [][\A p \in Process, l \in Label :
       sweep'[p] # sweep[p] /\ saved'[l] # saved[l] =>
         /\ sweep[p].pc = "update" =>
              /\ l = sweep[p].label
              /\ Rest(saved'[l], {"told"}) = Rest(saved[l], {"told"})
         /\ sweep[p].pc \in {"targets", "inspect", "warm"} =>
              /\ l = sweep[p].label
              /\ Rest(saved'[l], {"told", "beat", "warm"}) = Rest(saved[l], {"told", "beat", "warm"})]_vars

(* The token of an account is only ever sent to its own provider, also     *)
(* when the label changed hands while it was refreshed.                    *)
AskedOwnProvider ==
  \A p \in Process : sweep[p].pc \in {"answer", "inspect", "warm"} => sweep[p].asked = sweep[p].account.provider

(* Docs: heartbeat does not run for accounts whose last refresh failed. An *)
(* account whose failure this sweep recorded is not warmed by it, unless a *)
(* later refresh found that another process had succeeded.                 *)
NoBeatAfterFailure ==
  \A m \in Maintain : sweep[m].pc \in {"inspect", "warm"} => sweep[m].label \notin sweep[m].failed
=============================================================================
