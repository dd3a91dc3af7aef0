----------------------------- MODULE SweepsTheorems -----------------------------
(***************************************************************************)
(* What the sweeps over the saved accounts keep, for every set of labels   *)
(* and processes and any number of changes meanwhile.  The argument: while *)
(* the baseline of a sweep is still the store's, its copy is the store;    *)
(* and from the first heartbeat on, the account it works on and those it   *)
(* still has to do differ from that copy in nothing but what a heartbeat   *)
(* itself writes.                                                          *)
(***************************************************************************)
EXTENDS Sweeps, TLAPS

Fields ==
  {"pc", "cache", "base", "copies", "todo", "label", "account", "expected", "provider", "retry",
   "targets", "target", "asked", "failed", "result"}
AccountFields ==
  {"provider", "owner", "cred", "told", "failed", "enabled", "targets", "warm", "beat"}

IsAccount(r) == DOMAIN r = AccountFields
IsStore(accounts) ==
  DOMAIN accounts = Label /\ \A l \in Label : accounts[l] = Nobody \/ IsAccount(accounts[l])

\* The fields a heartbeat leaves alone are the same.
SameRest(r, s) == \A f \in AccountFields \ {"told", "beat", "warm"} : r[f] = s[f]

Beating == {"targets", "inspect", "warm"}

\* What a process that has begun holds.
Holds(k) ==
  /\ IsStore(k.cache) /\ IsStore(k.copies)
  /\ k.todo \subseteq {l \in Label : k.copies[l] # Nobody}
  /\ k.pc \notin {"next", "beats", "done"} => k.label \in Label /\ IsAccount(k.account)

\* The accounts it has marked failed are marked in its copy.
Marked(k) == \A l \in k.failed \cap Label : k.cache[l] = Nobody \/ k.cache[l].failed

\* Whom the token of the account belongs to, and who is asked.
Owned(p, k) ==
  /\ k.pc \in {"refreshed", "fetch", "answer", "update"} => p \in Usage
  /\ p \in Usage /\ k.pc \in {"refresh", "refreshed", "fetch", "answer"} =>
       k.provider = k.account.provider
  /\ k.pc \in {"answer", "inspect", "warm"} => k.asked = k.account.provider

\* A heartbeat sweep, and the account it beats for.
Beats(k) ==
  /\ k.pc \in Beating \cup {"beats"} => \A l \in k.todo : k.copies[l] = k.cache[l]
  /\ k.pc \in Beating =>
       k.label \notin k.todo /\ k.cache[k.label] # Nobody /\ SameRest(k.account, k.cache[k.label])
  /\ k.pc \in {"inspect", "warm"} => ~ k.account.failed

Knows(p, k) ==
  /\ DOMAIN k = Fields
  /\ k.pc = "start" => k.failed = {}
  /\ k.pc # "start" => Holds(k) /\ Marked(k) /\ Owned(p, k) /\ Beats(k)

\* A copy whose baseline is still the store's is the store.
Current(p) ==
  sweep[p].pc # "start" =>
    sweep[p].base <= version /\ (sweep[p].base = version => sweep[p].cache = saved)

SweepsInv ==
  /\ version \in Nat /\ IsStore(saved)
  /\ DOMAIN sweep = Process
  /\ \A p \in Process : Knows(p, sweep[p]) /\ sweep[p].base \in Nat /\ Current(p)


-----------------------------------------------------------------------------
(* What a step changes. *)

\* A process that sets these fields, and no other.
Changed(n, k, fields) ==
  /\ DOMAIN n = Fields
  /\ \A f \in DOMAIN fields : n[f] = fields[f]
  /\ \A f \in Fields \ DOMAIN fields : n[f] = k[f]

OthersStay(p) == DOMAIN sweep' = Process /\ \A q \in Process \ {p} : sweep'[q] = sweep[q]

LEMMA WithChanges ==
  ASSUME NEW k, DOMAIN k = Fields, NEW fields, DOMAIN fields \subseteq Fields
  PROVE  Changed(With(fields, k), k, fields)
BY DEF With, Changed

LEMMA PutsChanges ==
  ASSUME SweepsInv, NEW p \in Process, NEW fields, DOMAIN fields \subseteq Fields,
         Puts(p, fields)
  PROVE  OthersStay(p) /\ Changed(sweep'[p], sweep[p], fields)
<1>1. sweep'[p] = With(fields, sweep[p]) /\ OthersStay(p)
  BY DEF Puts, SweepsInv, OthersStay
<1>2. DOMAIN sweep[p] = Fields
  BY DEF SweepsInv, Knows
<1> QED
  BY <1>1, <1>2, WithChanges

\* The generation stays, or is the next one, with accounts of the right shape.
StoreMoves ==
  /\ version' \in Nat /\ IsStore(saved')
  /\ \/ saved' = saved /\ version' = version
     \/ version' = version + 1

LEMMA StepKeeps ==
  ASSUME SweepsInv, NEW p \in Process, OthersStay(p), StoreMoves,
         Knows(p, sweep'[p]), sweep'[p].base \in Nat, (Current(p))'
  PROVE  SweepsInv'
<1>1. \A q \in Process \ {p} : (Current(q))' /\ sweep'[q].base \in Nat
  BY DEF SweepsInv, OthersStay, StoreMoves, Current
<1> QED
  BY <1>1 DEF SweepsInv, OthersStay, StoreMoves

\* A step of one process that leaves the store, and its own copy of it.
LEMMA QuietStep ==
  ASSUME SweepsInv, NEW p \in Process, OthersStay(p), Unchanged,
         sweep[p].pc # "start", sweep'[p].pc # "start",
         sweep'[p].cache = sweep[p].cache, sweep'[p].base = sweep[p].base,
         Knows(p, sweep'[p])
  PROVE  SweepsInv'
<1>1. StoreMoves
  BY DEF Unchanged, StoreMoves, SweepsInv
<1>2. sweep'[p].base \in Nat /\ (Current(p))'
  BY DEF SweepsInv, Current, Unchanged
<1> QED
  BY <1>1, <1>2, StepKeeps

\* A process that takes the store as it is after the step.
LEMMA AdoptingStep ==
  ASSUME SweepsInv, NEW p \in Process, OthersStay(p), StoreMoves,
         sweep'[p].cache = saved', sweep'[p].base = version',
         Knows(p, sweep'[p])
  PROVE  SweepsInv'
<1>1. sweep'[p].base \in Nat /\ (Current(p))'
  BY DEF StoreMoves, Current
<1> QED
  BY <1>1, StepKeeps

\* persist is refused, or replaces one account of the store as it is.
LEMMA PersistsChanges ==
  ASSUME SweepsInv, NEW p \in Process, NEW r, NEW then, NEW otherwise,
         sweep[p].pc # "start", sweep[p].label \in Label, IsAccount(r),
         DOMAIN then \subseteq Fields \ {"cache", "base"}, DOMAIN otherwise \subseteq Fields,
         Persists(p, r, then, otherwise)
  PROVE  /\ OthersStay(p) /\ StoreMoves
         /\ \/ Unchanged /\ Changed(sweep'[p], sweep[p], otherwise)
            \/ /\ sweep[p].cache = saved
               /\ saved' = [saved EXCEPT ![sweep[p].label] = r]
               /\ version' = version + 1
               /\ Changed(sweep'[p], [sweep[p] EXCEPT !.cache = saved', !.base = version'],
                          then)
<1>1. CASE SourceChanged(p)
  <2>1. Unchanged /\ Puts(p, otherwise)
    BY <1>1 DEF Persists
  <2>2. StoreMoves
    BY <2>1 DEF Unchanged, StoreMoves, SweepsInv
  <2> QED
    BY <2>1, <2>2, PutsChanges
<1>2. CASE ~ SourceChanged(p)
  <2> DEFINE candidate == [sweep[p].cache EXCEPT ![sweep[p].label] = r]
             copy == [cache |-> candidate, base |-> version + 1]
  <2>1. sweep[p].cache = saved
    BY <1>2 DEF SourceChanged, SweepsInv, Current
  <2>2. saved' = candidate /\ version' = version + 1 /\ Puts(p, With(then, copy))
    BY <1>2 DEF Persists
  <2>3. DOMAIN copy = {"cache", "base"} /\ copy.cache = saved' /\ copy.base = version'
    BY <2>2
  <2> HIDE DEF copy
  <2>4. /\ DOMAIN With(then, copy) = DOMAIN then \cup {"cache", "base"}
        /\ \A f \in DOMAIN then : With(then, copy)[f] = then[f]
        /\ With(then, copy).cache = saved' /\ With(then, copy).base = version'
    BY <2>3 DEF With
  <2>5. OthersStay(p) /\ Changed(sweep'[p], sweep[p], With(then, copy))
    BY <2>2, <2>4, PutsChanges DEF Fields
  <2>6. DOMAIN sweep[p] = Fields
    BY DEF SweepsInv, Knows
  <2>7. Changed(sweep'[p], [sweep[p] EXCEPT !.cache = saved', !.base = version'], then)
    BY <2>4, <2>5, <2>6 DEF Changed, Fields
  <2>8. StoreMoves
    BY <2>1, <2>2 DEF StoreMoves, SweepsInv, IsStore
  <2> QED
    BY <2>1, <2>2, <2>5, <2>7, <2>8
<1> QED
  BY <1>1, <1>2

-----------------------------------------------------------------------------
(* The usage check and the refreshes. *)

LEMMA BeginKeeps ==
  ASSUME SweepsInv, NEW p \in Process, Begin(p)
  PROVE  SweepsInv'
<1> DEFINE k == sweep[p]
           n == sweep'[p]
           fields == [pc |-> "next", cache |-> saved, base |-> version, copies |-> saved,
                      todo |-> LabelsOf(saved)]
<1>1. Puts(p, fields) /\ Unchanged /\ k.pc = "start"
  BY DEF Begin
<1>2. OthersStay(p) /\ Changed(n, k, fields)
  BY <1>1, PutsChanges DEF Fields
<1>3. /\ n.pc = "next" /\ n.cache = saved /\ n.base = version /\ n.copies = saved
      /\ n.todo = {l \in Label : saved[l] # Nobody} /\ n.failed = {} /\ DOMAIN n = Fields
  BY <1>1, <1>2 DEF Changed, Fields, LabelsOf, SweepsInv, IsStore, Knows
<1>4. Knows(p, n)
  BY <1>3 DEF Knows, SweepsInv, Holds, Marked, Owned, Beats, Beating, IsStore
<1>5. StoreMoves /\ n.cache = saved' /\ n.base = version'
  BY <1>1, <1>3 DEF Unchanged, StoreMoves, SweepsInv
<1> QED
  BY <1>2, <1>4, <1>5, AdoptingStep

\* A step that changes none of what the copy and the baseline say.
LEMMA GoesKeeps ==
  ASSUME SweepsInv, NEW p \in Process, NEW pc, Goes(p, pc), Unchanged,
         sweep[p].pc # "start",
         pc \in {"refused", "done"} \/ (pc = "next" /\ p \in Maintain),
         pc = "refused" => sweep[p].pc \notin {"next", "beats", "done"}
  PROVE  SweepsInv'
<1>1. OthersStay(p) /\ Changed(sweep'[p], sweep[p], [pc |-> pc])
  BY PutsChanges DEF Goes, Fields
<1>2. /\ sweep'[p].pc = pc
      /\ \A f \in Fields \ {"pc"} : sweep'[p][f] = sweep[p][f]
      /\ DOMAIN sweep'[p] = Fields
  BY <1>1 DEF Changed
<1>3. Knows(p, sweep'[p])
  BY <1>2 DEF Knows, SweepsInv, Holds, Marked, Owned, Beats, Beating, Fields
<1> QED
  BY <1>1, <1>2, <1>3, QuietStep DEF Fields

\* The next account is taken, or passed over.
LEMMA TakesKeeps ==
  ASSUME SweepsInv, NEW p \in Process, NEW l \in Label,
         \/ p \in Usage /\ CheckAccount(p, l)
         \/ p \in Maintain /\ RefreshAccount(p, l)
  PROVE  SweepsInv'
<1> DEFINE k == sweep[p]
           n == sweep'[p]
<1>1. k.pc = "next" /\ l \in k.todo /\ Unchanged
  BY DEF CheckAccount, RefreshAccount, IsNext
<1>2. /\ Holds(k) /\ Marked(k) /\ Owned(p, k) /\ Beats(k) /\ DOMAIN k = Fields
      /\ IsAccount(k.copies[l])
  BY <1>1 DEF SweepsInv, Knows, Holds, IsStore
<1>3. CASE Puts(p, [todo |-> k.todo \ {l}])
  <2>1. OthersStay(p) /\ Changed(n, k, [todo |-> k.todo \ {l}])
    BY <1>3, PutsChanges DEF Fields
  <2>2. /\ n.todo = k.todo \ {l} /\ DOMAIN n = Fields
        /\ \A f \in Fields \ {"todo"} : n[f] = k[f]
    BY <2>1 DEF Changed
  <2>3. Knows(p, n)
    BY <1>1, <1>2, <2>2 DEF Knows, Holds, Marked, Owned, Beats, Beating, Fields
  <2> QED
    BY <1>1, <2>1, <2>2, <2>3, QuietStep DEF Fields
<1>4. ASSUME NEW pc \in {"refresh", "fetch"}, p \in Usage,
             Puts(p, [pc |-> pc, label |-> l, account |-> k.copies[l],
                      provider |-> k.copies[l].provider, todo |-> k.todo \ {l}])
      PROVE  SweepsInv'
  <2> DEFINE fields == [pc |-> pc, label |-> l, account |-> k.copies[l],
                        provider |-> k.copies[l].provider, todo |-> k.todo \ {l}]
  <2>1. OthersStay(p) /\ Changed(n, k, fields)
    BY <1>4, PutsChanges DEF Fields
  <2>2. /\ n.pc = pc /\ n.label = l /\ n.account = k.copies[l]
        /\ n.provider = n.account.provider /\ n.todo = k.todo \ {l} /\ DOMAIN n = Fields
        /\ n.cache = k.cache /\ n.copies = k.copies /\ n.failed = k.failed /\ n.base = k.base
    BY <2>1 DEF Changed, Fields
  <2>3. Knows(p, n)
    BY <1>1, <1>2, <1>4, <2>2 DEF Knows, Holds, Marked, Owned, Beats, Beating
  <2> QED
    BY <1>1, <1>4, <2>1, <2>2, <2>3, QuietStep
<1>5. ASSUME NEW pc \in {"refresh", "failed"}, p \in Maintain,
             Puts(p, [pc |-> pc, label |-> l, account |-> k.copies[l],
                      todo |-> k.todo \ {l}])
      PROVE  SweepsInv'
  <2> DEFINE fields == [pc |-> pc, label |-> l, account |-> k.copies[l],
                        todo |-> k.todo \ {l}]
  <2>1. OthersStay(p) /\ Changed(n, k, fields)
    BY <1>5, PutsChanges DEF Fields
  <2>2. /\ n.pc = pc /\ n.label = l /\ n.account = k.copies[l]
        /\ n.todo = k.todo \ {l} /\ DOMAIN n = Fields
        /\ n.cache = k.cache /\ n.copies = k.copies /\ n.failed = k.failed /\ n.base = k.base
    BY <2>1 DEF Changed, Fields
  <2>3. p \notin Usage
    BY <1>5, SweepsAssumption
  <2>4. Knows(p, n)
    BY <1>1, <1>2, <1>5, <2>2, <2>3 DEF Knows, Holds, Marked, Owned, Beats, Beating
  <2> QED
    BY <1>1, <1>5, <2>1, <2>2, <2>4, QuietStep
<1> QED
  BY <1>3, <1>4, <1>5 DEF CheckAccount, RefreshAccount

\* The coordinator leaves the process with the accounts as they are then.
LEMMA AdoptsKeeps ==
  ASSUME SweepsInv, NEW p \in Process, sweep[p].pc = "refresh", StoreMoves,
         NEW pc \in {"failed", "next", "refused", "refreshed"}, Adopts(p, pc),
         pc = "refreshed" => p \in Usage
  PROVE  SweepsInv'
<1> DEFINE k == sweep[p]
           n == sweep'[p]
           fields == [pc |-> pc, cache |-> saved', base |-> version',
                      failed |-> k.failed \ {l \in LabelsOf(saved') : ~ saved'[l].failed}]
<1>1. OthersStay(p) /\ Changed(n, k, fields)
  BY PutsChanges DEF Adopts, Fields
<1>2. /\ n.pc = pc /\ n.cache = saved' /\ n.base = version' /\ DOMAIN n = Fields
      /\ n.failed = k.failed \ {l \in LabelsOf(saved') : ~ saved'[l].failed}
      /\ \A f \in Fields \ {"pc", "cache", "base", "failed"} : n[f] = k[f]
  BY <1>1 DEF Changed, Fields
<1>3. /\ n.copies = k.copies /\ n.todo = k.todo /\ n.label = k.label
      /\ n.account = k.account /\ n.provider = k.provider
  BY <1>2 DEF Fields
<1>4. Marked(n)
  BY <1>2 DEF Marked, LabelsOf, StoreMoves, IsStore
<1>5. Holds(k) /\ Owned(p, k)
  BY DEF SweepsInv, Knows
<1>6. Holds(n) /\ Owned(p, n) /\ Beats(n)
  BY <1>2, <1>3, <1>5 DEF Holds, Owned, Beats, Beating, StoreMoves
<1>7. Knows(p, n)
  BY <1>2, <1>4, <1>6 DEF Knows
<1> QED
  BY <1>1, <1>2, <1>7, AdoptingStep

LEMMA CoordinatorKeeps ==
  ASSUME SweepsInv, NEW p \in Process, Coordinator(p)
  PROVE  SweepsInv'
<1> DEFINE k == sweep[p]
           current == saved[k.label]
           gaveUp == IF p \in Usage THEN "refused" ELSE "next"
           refreshed == IF p \in Usage THEN "refreshed" ELSE "next"
<1>1. k.pc = "refresh" /\ k.label \in Label
  BY DEF Coordinator, SweepsInv, Knows, Holds
<1>2. CASE Unchanged /\ Goes(p, gaveUp)
  BY <1>1, <1>2, GoesKeeps DEF Process
<1>3. ASSUME Unchanged, NEW pc \in {"failed", "next", "refused", "refreshed"}, Adopts(p, pc),
             pc = "refreshed" => p \in Usage
      PROVE  SweepsInv'
  <2>1. StoreMoves
    BY <1>3 DEF Unchanged, StoreMoves, SweepsInv
  <2> QED
    BY <1>1, <1>3, <2>1, AdoptsKeeps
<1>4. ASSUME NEW r, NEW pc \in {"failed", "next", "refreshed"}, Adopts(p, pc),
             IsAccount(r), Store(k.label, r), pc = "refreshed" => p \in Usage
      PROVE  SweepsInv'
  <2>1. StoreMoves
    BY <1>1, <1>4 DEF Store, StoreMoves, SweepsInv, IsStore
  <2> QED
    BY <1>1, <1>4, <2>1, AdoptsKeeps
<1>5. current # Nobody =>
        /\ IsAccount([current EXCEPT !.cred = @ + 1, !.failed = FALSE])
        /\ IsAccount([current EXCEPT !.failed = TRUE])
  BY <1>1 DEF SweepsInv, IsStore, IsAccount
<1>6. /\ gaveUp \in {"next", "refused"} /\ refreshed \in {"next", "refreshed"}
      /\ refreshed = "refreshed" => p \in Usage
  OBVIOUS
<1> HIDE DEF gaveUp, refreshed
<1> QED
  BY <1>2, <1>3, <1>4, <1>5, <1>6 DEF Coordinator, gaveUp, refreshed

LEMMA RecordFailedKeeps ==
  ASSUME SweepsInv, NEW p \in Process, RecordFailed(p)
  PROVE  SweepsInv'
<1> DEFINE k == sweep[p]
           n == sweep'[p]
           r == [k.account EXCEPT !.failed = TRUE]
           then == [pc |-> IF p \in Usage THEN "refused" ELSE "next",
                    failed |-> k.failed \cup {k.label}]
           otherwise == IF p \in Usage THEN [pc |-> "refused"] ELSE Aborts
<1>1. k.pc = "failed" /\ Persists(p, r, then, otherwise)
  BY DEF RecordFailed
<1>2. Holds(k) /\ Marked(k) /\ DOMAIN k = Fields /\ k.label \in Label /\ IsAccount(k.account)
  BY <1>1 DEF SweepsInv, Knows, Holds
<1>3. IsAccount(r) /\ r.failed /\ r # Nobody
  BY <1>2 DEF IsAccount, AccountFields, Nobody
<1>4. /\ OthersStay(p) /\ StoreMoves
      /\ \/ Unchanged /\ Changed(n, k, otherwise)
         \/ /\ k.cache = saved /\ saved' = [saved EXCEPT ![k.label] = r]
            /\ version' = version + 1
            /\ Changed(n, [k EXCEPT !.cache = saved', !.base = version'], then)
  BY <1>1, <1>2, <1>3, PersistsChanges DEF Fields, Aborts
<1>5. CASE Unchanged /\ Changed(n, k, otherwise)
  <2>1. /\ n.pc = IF p \in Usage THEN "refused" ELSE "done"
        /\ DOMAIN n = Fields /\ \A f \in Fields \ {"pc", "result"} : n[f] = k[f]
    BY <1>5 DEF Changed, Aborts, Fields
  <2>2. Knows(p, n)
    BY <1>1, <1>2, <2>1 DEF Knows, Holds, Marked, Owned, Beats, Beating, Fields
  <2> QED
    BY <1>1, <1>4, <1>5, <2>1, <2>2, QuietStep DEF Fields
<1>6. CASE /\ k.cache = saved /\ saved' = [saved EXCEPT ![k.label] = r]
           /\ version' = version + 1
           /\ Changed(n, [k EXCEPT !.cache = saved', !.base = version'], then)
  <2>1. /\ n.pc = IF p \in Usage THEN "refused" ELSE "next"
        /\ n.failed = k.failed \cup {k.label}
        /\ DOMAIN n = Fields /\ n.cache = saved' /\ n.base = version'
        /\ n.copies = k.copies /\ n.todo = k.todo /\ n.label = k.label
        /\ n.account = k.account
    <3>1. /\ DOMAIN then = {"pc", "failed"}
          /\ then.pc = IF p \in Usage THEN "refused" ELSE "next"
          /\ then.failed = k.failed \cup {k.label}
      OBVIOUS
    <3> HIDE DEF then, k, n
    <3>2. /\ DOMAIN n = Fields /\ n.cache = saved' /\ n.base = version'
          /\ \A f \in Fields \ {"pc", "failed", "cache", "base"} : n[f] = k[f]
      BY <1>2, <1>6, <3>1 DEF Changed, Fields
    <3> QED
      BY <1>6, <3>1, <3>2 DEF Changed, Fields
  <2>2. \A l \in Label : saved'[l] = IF l = k.label THEN r ELSE saved[l]
    BY <1>6 DEF SweepsInv, IsStore
  <2> HIDE DEF r
  <2>3. Marked(n)
    BY <1>2, <1>3, <1>6, <2>1, <2>2 DEF Marked
  <2>4. Holds(n) /\ Owned(p, n) /\ Beats(n)
    BY <1>2, <1>4, <2>1 DEF Holds, Owned, Beats, Beating, StoreMoves
  <2> QED
    BY <1>4, <2>1, <2>3, <2>4, AdoptingStep DEF Knows
<1> QED
  BY <1>4, <1>5, <1>6

\* The usage check of one account, up to what it learns of it.
LEMMA UsageKeeps ==
  ASSUME SweepsInv, NEW p \in Usage,
         Refresh(p) \/ FetchUsage(p) \/ Answer(p) \/ EndAccount(p) \/ EndUsage(p)
  PROVE  SweepsInv'
<1> DEFINE k == sweep[p]
           n == sweep'[p]
<1>1. /\ p \in Process /\ DOMAIN k = Fields /\ k.pc # "start" /\ Unchanged
      /\ Holds(k) /\ Marked(k) /\ Owned(p, k) /\ Beats(k)
  BY DEF Process, SweepsInv, Knows, Refresh, UsesRefreshed, FetchUsage, Answer, EndAccount,
         EndUsage
<1>2. CASE Refresh(p)
  <2> DEFINE current == k.cache[k.label]
  <2>1. k.pc = "refreshed" /\ k.label \in Label
    BY <1>1, <1>2 DEF Refresh, UsesRefreshed, Holds
  <2>2. CASE Goes(p, "refused")
    BY <1>1, <2>1, <2>2, GoesKeeps
  <2>3. CASE /\ current # Nobody /\ current.provider = k.account.provider
             /\ Puts(p, [pc |-> "fetch", account |-> current])
    <3>1. OthersStay(p) /\ Changed(n, k, [pc |-> "fetch", account |-> current])
      BY <1>1, <2>3, PutsChanges DEF Fields
    <3>2. /\ n.pc = "fetch" /\ n.account = current /\ DOMAIN n = Fields
          /\ \A f \in Fields \ {"pc", "account"} : n[f] = k[f]
      BY <3>1 DEF Changed
    <3>3. IsAccount(current)
      BY <1>1, <2>1, <2>3 DEF Holds, IsStore
    <3>4. Knows(p, n)
      BY <1>1, <2>1, <2>3, <3>2, <3>3
         DEF Knows, Holds, Marked, Owned, Beats, Beating, Fields
    <3> QED
      BY <1>1, <3>1, <3>2, <3>4, QuietStep DEF Fields
  <2> QED
    BY <1>2, <2>2, <2>3 DEF Refresh, UsesRefreshed
<1>3. CASE FetchUsage(p)
  <2>1. OthersStay(p) /\ Changed(n, k, [pc |-> "answer", asked |-> k.provider])
    BY <1>1, <1>3, PutsChanges DEF FetchUsage, Fields
  <2>2. /\ n.pc = "answer" /\ n.asked = k.provider /\ DOMAIN n = Fields
        /\ \A f \in Fields \ {"pc", "asked"} : n[f] = k[f]
    BY <2>1 DEF Changed
  <2>3. Knows(p, n)
    BY <1>1, <1>3, <2>2
       DEF FetchUsage, Knows, Holds, Marked, Owned, Beats, Beating, Fields
  <2> QED
    BY <1>1, <2>1, <2>2, <2>3, QuietStep DEF Fields
<1>4. CASE Answer(p)
  <2>1. k.pc = "answer"
    BY <1>4 DEF Answer
  <2>2. CASE Goes(p, "refused")
    BY <1>1, <2>1, <2>2, GoesKeeps
  <2>3. CASE Puts(p, [pc |-> "refresh", retry |-> FALSE])
    <3>1. OthersStay(p) /\ Changed(n, k, [pc |-> "refresh", retry |-> FALSE])
      BY <1>1, <2>3, PutsChanges DEF Fields
    <3>2. /\ n.pc = "refresh" /\ DOMAIN n = Fields
          /\ \A f \in Fields \ {"pc", "retry"} : n[f] = k[f]
      BY <3>1 DEF Changed
    <3>3. Knows(p, n)
      BY <1>1, <2>1, <3>2 DEF Knows, Holds, Marked, Owned, Beats, Beating, Fields
    <3> QED
      BY <1>1, <3>1, <3>2, <3>3, QuietStep DEF Fields
  <2>4. ASSUME NEW found, NEW pc \in {"refused", "update"},
               Puts(p, [pc |-> pc, account |-> [k.account EXCEPT !.told = @ \cup found],
                        expected |-> k.account])
        PROVE  SweepsInv'
    <3> DEFINE account == [k.account EXCEPT !.told = @ \cup found]
               fields == [pc |-> pc, account |-> account, expected |-> k.account]
    <3>1. OthersStay(p) /\ Changed(n, k, fields)
      BY <1>1, <2>4, PutsChanges DEF Fields
    <3>2. /\ n.pc = pc /\ n.account = account /\ DOMAIN n = Fields
          /\ \A f \in Fields \ {"pc", "account", "expected"} : n[f] = k[f]
      BY <3>1 DEF Changed
    <3>3. IsAccount(account)
      BY <1>1, <2>1 DEF Holds, IsAccount
    <3> HIDE DEF account
    <3>4. Knows(p, n)
      BY <1>1, <2>1, <3>2, <3>3 DEF Knows, Holds, Marked, Owned, Beats, Beating, Fields
    <3> QED
      BY <1>1, <3>1, <3>2, <3>4, QuietStep DEF Fields
  <2> QED
    BY <1>4, <2>2, <2>3, <2>4 DEF Answer, HandleAuthentication
<1>5. CASE EndAccount(p)
  <2>1. OthersStay(p) /\ Changed(n, k, Next1(p))
    BY <1>1, <1>5, PutsChanges DEF EndAccount, Next1, Fields
  <2>2. /\ n.pc = "next" /\ DOMAIN n = Fields /\ n.cache = k.cache /\ n.copies = k.copies
        /\ n.base = k.base /\ n.todo = k.todo /\ n.failed = k.failed
    BY <2>1 DEF Changed, Next1, Fields
  <2>3. Knows(p, n)
    BY <1>1, <2>2 DEF Knows, Holds, Marked, Owned, Beats, Beating
  <2> QED
    BY <1>1, <2>1, <2>2, <2>3, QuietStep
<1>6. CASE EndUsage(p)
  BY <1>1, <1>6, GoesKeeps DEF EndUsage
<1> QED
  BY <1>2, <1>3, <1>4, <1>5, <1>6

\* What the provider told is saved with the account as the copy has it.
LEMMA UpdateKeeps ==
  ASSUME SweepsInv, NEW p \in Usage, Update(p)
  PROVE  SweepsInv'
<1> DEFINE k == sweep[p]
           n == sweep'[p]
           current == k.cache[k.label]
           r == [current EXCEPT !.told = k.account.told]
<1>1. /\ p \in Process /\ DOMAIN k = Fields /\ k.pc = "update" /\ k.label \in Label
      /\ Holds(k) /\ Marked(k)
  BY DEF Process, SweepsInv, Knows, Update, PersistProviderUpdate, Holds
<1>2. CASE Unchanged /\ Goes(p, "refused")
  BY <1>1, <1>2, GoesKeeps
<1>3. CASE /\ current # Nobody
           /\ Persists(p, r, [pc |-> "refused"], [pc |-> "refused"])
  <2>1. IsAccount(r) /\ r # Nobody /\ r.failed = current.failed
    BY <1>1, <1>3 DEF Holds, IsStore, IsAccount, AccountFields, Nobody
  <2> HIDE DEF r
  <2>2. /\ OthersStay(p) /\ StoreMoves
        /\ \/ Unchanged /\ Changed(n, k, [pc |-> "refused"])
           \/ /\ k.cache = saved /\ saved' = [saved EXCEPT ![k.label] = r]
              /\ Changed(n, [k EXCEPT !.cache = saved', !.base = version'],
                         [pc |-> "refused"])
    BY <1>1, <1>3, <2>1, PersistsChanges DEF Fields
  <2>3. CASE Unchanged /\ Changed(n, k, [pc |-> "refused"])
    <3>1. /\ n.pc = "refused" /\ DOMAIN n = Fields
          /\ \A f \in Fields \ {"pc"} : n[f] = k[f]
      BY <2>3 DEF Changed
    <3>2. Knows(p, n)
      BY <1>1, <3>1 DEF Knows, Holds, Marked, Owned, Beats, Beating, Fields
    <3> QED
      BY <1>1, <2>2, <2>3, <3>1, <3>2, QuietStep DEF Fields
  <2>4. CASE /\ k.cache = saved /\ saved' = [saved EXCEPT ![k.label] = r]
             /\ Changed(n, [k EXCEPT !.cache = saved', !.base = version'],
                        [pc |-> "refused"])
    <3>1. /\ n.pc = "refused" /\ DOMAIN n = Fields /\ n.cache = saved' /\ n.base = version'
          /\ \A f \in Fields \ {"pc", "cache", "base"} : n[f] = k[f]
      <4> HIDE DEF k, n
      <4> QED
        BY <1>1, <2>4 DEF Changed, Fields
    <3>2. \A l \in Label : saved'[l] = IF l = k.label THEN r ELSE saved[l]
      BY <2>4 DEF SweepsInv, IsStore
    <3>3. Marked(n)
      BY <1>1, <1>3, <2>1, <2>4, <3>1, <3>2 DEF Marked, Fields
    <3>4. Holds(n) /\ Owned(p, n) /\ Beats(n)
      BY <1>1, <2>2, <3>1 DEF Holds, Owned, Beats, Beating, StoreMoves, Fields
    <3> QED
      BY <1>1, <2>2, <3>1, <3>3, <3>4, AdoptingStep DEF Knows
  <2> QED
    BY <2>2, <2>3, <2>4
<1> QED
  BY <1>2, <1>3 DEF Update, PersistProviderUpdate

-----------------------------------------------------------------------------
(* The heartbeats. *)

LEMMA HeartbeatAllKeeps ==
  ASSUME SweepsInv, NEW p \in Maintain, BeginBeats(p)
  PROVE  SweepsInv'
<1> DEFINE k == sweep[p]
           n == sweep'[p]
           fields == [pc |-> "beats", copies |-> k.cache, todo |-> LabelsOf(k.cache)]
<1>1. /\ p \in Process /\ p \notin Usage /\ k.pc = "next" /\ Unchanged
      /\ Holds(k) /\ Marked(k) /\ Puts(p, fields)
  BY SweepsAssumption DEF Process, SweepsInv, Knows, BeginBeats, HeartbeatAll
<1>2. OthersStay(p) /\ Changed(n, k, fields)
  BY <1>1, PutsChanges DEF Fields
<1>3. /\ n.pc = "beats" /\ n.copies = k.cache /\ n.todo = LabelsOf(k.cache)
      /\ DOMAIN n = Fields /\ n.cache = k.cache /\ n.base = k.base /\ n.failed = k.failed
  BY <1>2 DEF Changed, Fields
<1>4. Knows(p, n)
  BY <1>1, <1>3 DEF Knows, Holds, Marked, Owned, Beats, Beating, LabelsOf, IsStore
<1> QED
  BY <1>1, <1>2, <1>3, <1>4, QuietStep

LEMMA SelectTargetsKeeps ==
  ASSUME SweepsInv, NEW p \in Maintain, NEW l \in Label, SelectTargets(p, l)
  PROVE  SweepsInv'
<1> DEFINE k == sweep[p]
           n == sweep'[p]
           fields == [pc |-> "targets", label |-> l, account |-> k.copies[l],
                      targets |-> TargetsOf(k.copies[l]), todo |-> k.todo \ {l}]
<1>1. /\ p \in Process /\ p \notin Usage /\ k.pc = "beats" /\ Unchanged /\ l \in k.todo
      /\ Holds(k) /\ Marked(k) /\ Beats(k) /\ Puts(p, fields)
  BY SweepsAssumption DEF Process, SweepsInv, Knows, SelectTargets, IsNext
<1>2. OthersStay(p) /\ Changed(n, k, fields)
  BY <1>1, PutsChanges DEF Fields
<1>3. /\ n.pc = "targets" /\ n.label = l /\ n.account = k.copies[l]
      /\ n.todo = k.todo \ {l} /\ n.copies = k.copies
      /\ DOMAIN n = Fields /\ n.cache = k.cache /\ n.base = k.base /\ n.failed = k.failed
  <2> HIDE DEF k, n
  <2> QED
    BY <1>2 DEF Changed, Fields
<1>4. IsAccount(k.copies[l]) /\ k.copies[l] = k.cache[l] /\ k.copies[l] # Nobody
  BY <1>1 DEF Holds, IsStore, Beats
<1>5. Knows(p, n)
  BY <1>1, <1>3, <1>4 DEF Knows, Holds, Marked, Owned, Beats, Beating, SameRest
<1> QED
  BY <1>1, <1>2, <1>3, <1>5, QuietStep

\* What a heartbeat learns is saved, or the sweep ends.
LEMMA BeatPersists ==
  ASSUME SweepsInv, NEW p \in Maintain, sweep[p].pc \in Beating,
         NEW r, IsAccount(r), SameRest(r, sweep[p].account),
         NEW then, {"account"} \subseteq DOMAIN then,
         DOMAIN then \subseteq {"pc", "account", "target", "targets"}, then.account = r,
         IF "pc" \in DOMAIN then THEN then.pc = "targets" ELSE sweep[p].pc = "targets",
         Persists(p, r, then, Aborts)
  PROVE  SweepsInv'
<1> DEFINE k == sweep[p]
           n == sweep'[p]
<1>1. /\ p \in Process /\ p \notin Usage /\ k.pc # "start" /\ DOMAIN k = Fields
      /\ Holds(k) /\ Marked(k) /\ Beats(k) /\ k.label \in Label
  BY SweepsAssumption DEF Process, SweepsInv, Knows, Holds, Beating
<1>2. r # Nobody
  BY DEF IsAccount, AccountFields, Nobody
<1>3. /\ OthersStay(p) /\ StoreMoves
      /\ \/ Unchanged /\ Changed(n, k, Aborts)
         \/ /\ k.cache = saved /\ saved' = [saved EXCEPT ![k.label] = r]
            /\ Changed(n, [k EXCEPT !.cache = saved', !.base = version'], then)
  BY <1>1, PersistsChanges DEF Fields, Aborts
<1>4. CASE Unchanged /\ Changed(n, k, Aborts)
  <2>1. /\ n.pc = "done" /\ DOMAIN n = Fields
        /\ \A f \in Fields \ {"pc", "result"} : n[f] = k[f]
    BY <1>4 DEF Changed, Aborts
  <2>2. Knows(p, n)
    BY <1>1, <2>1 DEF Knows, Holds, Marked, Owned, Beats, Beating, Fields
  <2> QED
    BY <1>1, <1>3, <1>4, <2>1, <2>2, QuietStep DEF Fields
<1>5. CASE /\ k.cache = saved /\ saved' = [saved EXCEPT ![k.label] = r]
           /\ Changed(n, [k EXCEPT !.cache = saved', !.base = version'], then)
  <2>1. /\ n.pc = "targets" /\ n.account = r /\ DOMAIN n = Fields
        /\ n.cache = saved' /\ n.base = version'
        /\ n.copies = k.copies /\ n.todo = k.todo /\ n.label = k.label
        /\ n.failed = k.failed
    <3> HIDE DEF k, n
    <3> DEFINE adopted == [k EXCEPT !.cache = saved', !.base = version']
    <3>1. /\ adopted.cache = saved' /\ adopted.base = version'
          /\ \A f \in Fields \ {"cache", "base"} : adopted[f] = k[f]
      BY <1>1 DEF Fields
    <3> HIDE DEF adopted
    <3>2. Changed(n, adopted, then)
      BY <1>5 DEF adopted
    <3>3. /\ DOMAIN n = Fields /\ n.account = r /\ n.cache = saved' /\ n.base = version'
          /\ n.copies = k.copies /\ n.todo = k.todo /\ n.label = k.label
          /\ n.failed = k.failed
      BY <3>1, <3>2 DEF Changed, Fields
    <3>4. n.pc = "targets"
      BY <1>1, <1>5 DEF Changed, Fields, k
    <3> QED
      BY <3>3, <3>4
  <2>2. \A l \in Label : saved'[l] = IF l = k.label THEN r ELSE saved[l]
    BY <1>5 DEF SweepsInv, IsStore
  <2>3. k.label \notin k.todo /\ k.cache[k.label].failed = r.failed
        /\ k.cache[k.label] # Nobody
    BY <1>1 DEF Beats, SameRest, AccountFields
  <2>4. Marked(n)
    BY <1>1, <1>2, <1>5, <2>1, <2>2, <2>3 DEF Marked
  <2>5. Holds(n) /\ Owned(p, n)
    BY <1>1, <1>3, <2>1 DEF Holds, Owned, Beating, StoreMoves
  <2>6. Beats(n)
    BY <1>1, <1>2, <1>5, <2>1, <2>2, <2>3 DEF Beats, Beating, SameRest, Holds
  <2> QED
    BY <1>1, <1>3, <2>1, <2>4, <2>5, <2>6, AdoptingStep DEF Knows
<1> QED
  BY <1>3, <1>4, <1>5

\* What a heartbeat saves of the account differs from it in nothing else.
LEMMA BeatenAccount ==
  ASSUME NEW r, IsAccount(r), NEW told, NEW status, NEW reset
  PROVE  \A s \in {[r EXCEPT !.told = told], [r EXCEPT !.beat = status],
                   [r EXCEPT !.beat = status, !.warm = reset],
                   [[r EXCEPT !.told = told] EXCEPT !.beat = status],
                   [[r EXCEPT !.told = told] EXCEPT !.beat = status, !.warm = reset]} :
           IsAccount(s) /\ SameRest(s, r)
BY DEF IsAccount, SameRest, AccountFields

\* One target: nothing to do, a status to record, or a request to its provider.
LEMMA HeartbeatAccountKeeps ==
  ASSUME SweepsInv, NEW p \in Maintain, NEW t \in {"standard", "spark"},
         HeartbeatAccount(p, t)
  PROVE  SweepsInv'
<1> DEFINE k == sweep[p]
           n == sweep'[p]
<1>1. /\ p \in Process /\ p \notin Usage /\ k.pc = "targets" /\ DOMAIN k = Fields
      /\ Holds(k) /\ Marked(k) /\ Beats(k) /\ IsAccount(k.account)
  BY SweepsAssumption DEF Process, SweepsInv, Knows, HeartbeatAccount, Holds
<1>2. CASE Skips(p, t)
  <2>1. Unchanged /\ OthersStay(p) /\ Changed(n, k, [targets |-> k.targets \ {t}])
    BY <1>1, <1>2, PutsChanges DEF Skips, Fields
  <2>2. DOMAIN n = Fields /\ \A f \in Fields \ {"targets"} : n[f] = k[f]
    BY <2>1 DEF Changed
  <2>3. Knows(p, n)
    BY <1>1, <2>2 DEF Knows, Holds, Marked, Owned, Beats, Beating, Fields
  <2> QED
    BY <1>1, <2>1, <2>2, <2>3, QuietStep DEF Fields
<1>3. ASSUME NEW status, Records(p, t, status)
      PROVE  SweepsInv'
  <2> DEFINE r == [k.account EXCEPT !.beat = status]
             then == [targets |-> k.targets \ {t}, account |-> r]
  <2>1. Persists(p, r, then, Aborts)
    BY <1>3 DEF Records
  <2>2. IsAccount(r) /\ SameRest(r, k.account)
    BY <1>1, BeatenAccount
  <2>3. DOMAIN then = {"targets", "account"} /\ then.account = r
    OBVIOUS
  <2> HIDE DEF r, then
  <2> QED
    BY <1>1, <2>1, <2>2, <2>3, BeatPersists DEF Beating
<1>4. CASE /\ ~ k.account.failed /\ Unchanged
           /\ Puts(p, [pc |-> "inspect", target |-> t, asked |-> k.account.provider,
                       targets |-> k.targets \ {t}])
  <2> DEFINE fields == [pc |-> "inspect", target |-> t, asked |-> k.account.provider,
                        targets |-> k.targets \ {t}]
  <2>1. OthersStay(p) /\ Changed(n, k, fields)
    BY <1>1, <1>4, PutsChanges DEF Fields
  <2>2. /\ n.pc = "inspect" /\ n.asked = k.account.provider /\ DOMAIN n = Fields
        /\ \A f \in Fields \ {"pc", "target", "asked", "targets"} : n[f] = k[f]
    BY <2>1 DEF Changed
  <2>3. Knows(p, n)
    BY <1>1, <1>4, <2>2 DEF Knows, Holds, Marked, Owned, Beats, Beating, Fields
  <2> QED
    BY <1>1, <1>4, <2>1, <2>2, <2>3, QuietStep DEF Fields
<1> QED
  BY <1>2, <1>3, <1>4 DEF HeartbeatAccount, AuthBlocker, UnsupportedTarget, TargetReset

\* The window is inspected, and warmed.
LEMMA WindowKeeps ==
  ASSUME SweepsInv, NEW p \in Maintain, InspectWindow(p) \/ WarmWindow(p)
  PROVE  SweepsInv'
<1> DEFINE k == sweep[p]
           n == sweep'[p]
<1>1. /\ p \in Process /\ p \notin Usage /\ k.pc \in {"inspect", "warm"} /\ DOMAIN k = Fields
      /\ Holds(k) /\ Marked(k) /\ Beats(k) /\ Owned(p, k) /\ IsAccount(k.account)
  BY SweepsAssumption
     DEF Process, SweepsInv, Knows, InspectWindow, WarmWindow, Holds
<1>2. ASSUME NEW r, IsAccount(r), SameRest(r, k.account), Beaten(p, r)
      PROVE  SweepsInv'
  <2> DEFINE then == [pc |-> "targets", account |-> r, target |-> "none"]
  <2>1. Persists(p, r, then, Aborts)
    BY <1>2 DEF Beaten
  <2>2. /\ DOMAIN then = {"pc", "account", "target"} /\ then.account = r
        /\ then.pc = "targets"
    OBVIOUS
  <2> HIDE DEF then
  <2> QED
    BY <1>1, <1>2, <2>1, <2>2, BeatPersists DEF Beating
<1>3. ASSUME NEW told, k.pc = "inspect", Unchanged,
             Puts(p, [pc |-> "warm", account |-> [k.account EXCEPT !.told = told]])
      PROVE  SweepsInv'
  <2> DEFINE r == [k.account EXCEPT !.told = told]
  <2>1. OthersStay(p) /\ Changed(n, k, [pc |-> "warm", account |-> r])
    BY <1>1, <1>3, PutsChanges DEF Fields
  <2>2. IsAccount(r) /\ SameRest(r, k.account)
    BY <1>1, BeatenAccount
  <2>3. /\ n.pc = "warm" /\ n.account = r /\ DOMAIN n = Fields
        /\ \A f \in Fields \ {"pc", "account"} : n[f] = k[f]
    BY <2>1 DEF Changed
  <2>4. r.failed = k.account.failed /\ r.provider = k.account.provider
    BY <2>2 DEF SameRest, AccountFields
  <2> HIDE DEF r
  <2>5. Owned(p, n) /\ Holds(n) /\ Marked(n)
    BY <1>1, <1>3, <2>2, <2>3, <2>4 DEF Holds, Marked, Owned, Fields
  <2>6. Beats(n)
    BY <1>1, <1>3, <2>2, <2>3, <2>4 DEF Beats, Beating, SameRest, Fields
  <2> QED
    BY <1>1, <1>3, <2>1, <2>3, <2>5, <2>6, QuietStep DEF Knows, Fields
<1>4. CASE InspectWindow(p)
  <2>1. PICK told : LET account == [k.account EXCEPT !.told = @ \cup told]
                    IN \/ Beaten(p, Warmed(p, account))
                       \/ Beaten(p, [account EXCEPT !.beat = "failed"])
                       \/ Puts(p, [pc |-> "warm", account |-> account]) /\ Unchanged
    BY <1>4 DEF InspectWindow
  <2> DEFINE account == [k.account EXCEPT !.told = @ \cup told]
  <2>2. /\ IsAccount(Warmed(p, account)) /\ SameRest(Warmed(p, account), k.account)
        /\ IsAccount([account EXCEPT !.beat = "failed"])
        /\ SameRest([account EXCEPT !.beat = "failed"], k.account)
    BY <1>1, BeatenAccount DEF Warmed
  <2>3. k.pc = "inspect"
    BY <1>4 DEF InspectWindow
  <2> QED
    BY <1>2, <1>3, <2>1, <2>2, <2>3
<1>5. CASE WarmWindow(p)
  <2>1. /\ IsAccount(Warmed(p, k.account)) /\ SameRest(Warmed(p, k.account), k.account)
        /\ IsAccount([k.account EXCEPT !.beat = "failed"])
        /\ SameRest([k.account EXCEPT !.beat = "failed"], k.account)
    BY <1>1, BeatenAccount DEF Warmed
  <2> QED
    BY <1>2, <1>5, <2>1 DEF WarmWindow
<1> QED
  BY <1>4, <1>5

LEMMA EndsKeep ==
  ASSUME SweepsInv, NEW p \in Maintain, EndTargets(p) \/ EndMaintain(p)
  PROVE  SweepsInv'
<1> DEFINE k == sweep[p]
           n == sweep'[p]
           fields == [pc |-> "beats", label |-> "none", account |-> Nobody]
<1>1. /\ p \in Process /\ p \notin Usage /\ k.pc # "start" /\ DOMAIN k = Fields /\ Unchanged
      /\ Holds(k) /\ Marked(k) /\ Beats(k)
  BY SweepsAssumption DEF Process, SweepsInv, Knows, EndTargets, EndMaintain
<1>2. CASE EndTargets(p)
  <2>1. OthersStay(p) /\ Changed(n, k, fields)
    BY <1>1, <1>2, PutsChanges DEF EndTargets, Fields
  <2>2. /\ n.pc = "beats" /\ DOMAIN n = Fields
        /\ \A f \in Fields \ {"pc", "label", "account"} : n[f] = k[f]
    BY <2>1 DEF Changed
  <2>3. Knows(p, n)
    BY <1>1, <1>2, <2>2
       DEF EndTargets, Knows, Holds, Marked, Owned, Beats, Beating, Fields
  <2> QED
    BY <1>1, <2>1, <2>2, <2>3, QuietStep DEF Fields
<1>3. CASE EndMaintain(p)
  BY <1>1, <1>3, GoesKeeps DEF EndMaintain
<1> QED
  BY <1>2, <1>3

-----------------------------------------------------------------------------
(* Every step. *)

\* Another command commits: every baseline is then an older one.
LEMMA OperatorKeeps ==
  ASSUME SweepsInv, NEW l \in Label, NEW r, r = Nobody \/ IsAccount(r), Operator(l, r)
  PROVE  SweepsInv'
<1>1. IsStore(saved') /\ version' \in Nat /\ UNCHANGED sweep
  BY DEF SweepsInv, Operator, IsStore
<1>2. \A p \in Process : (Current(p))'
  BY DEF SweepsInv, Operator, Current
<1> QED
  BY <1>1, <1>2 DEF SweepsInv

LEMMA ElsewhereKeeps ==
  ASSUME SweepsInv, NEW l \in Label,
         \/ RefreshedElsewhere(l) \/ SaveLogin(l) \/ LoginCodex(l) \/ RemoveAccount(l)
         \/ EnableHeartbeat(l) \/ DisableHeartbeat(l)
  PROVE  SweepsInv'
<1>1. saved[l] = Nobody \/ IsAccount(saved[l])
  BY DEF SweepsInv, IsStore
<1>2. ASSUME NEW r, r = Nobody \/ IsAccount(r), Operator(l, r)
      PROVE  SweepsInv'
  BY <1>2, OperatorKeeps
<1>3. CASE RefreshedElsewhere(l)
  BY <1>1, <1>2, <1>3 DEF RefreshedElsewhere, IsAccount
<1>4. CASE SaveLogin(l)
  <2>1. PICK provider, owner, cred :
          Operator(l, [NewAccount(provider, owner) EXCEPT !.cred = cred])
    BY <1>4 DEF SaveLogin
  <2>2. IsAccount([NewAccount(provider, owner) EXCEPT !.cred = cred])
    BY DEF IsAccount, AccountFields, NewAccount
  <2> QED
    BY <1>2, <2>1, <2>2
<1>9. CASE LoginCodex(l)
  <2>1. PICK owner : Operator(l, [saved[l] EXCEPT !.cred = @ + 1, !.owner = owner])
    BY <1>9 DEF LoginCodex
  <2>2. saved[l].provider = "codex"
    BY <1>9 DEF LoginCodex
  <2>3. IsAccount(saved[l])
    BY <1>1, <2>2 DEF Nobody
  <2>4. IsAccount([saved[l] EXCEPT !.cred = @ + 1, !.owner = owner])
    BY <2>3 DEF IsAccount
  <2> QED
    BY <1>2, <2>1, <2>4
<1>5. CASE RemoveAccount(l)
  BY <1>2, <1>5 DEF RemoveAccount
<1>6. ASSUME NEW targets, NEW enabled,
             Operator(l, [saved[l] EXCEPT !.enabled = enabled, !.targets = targets]),
             saved[l] # Nobody
      PROVE  SweepsInv'
  BY <1>1, <1>2, <1>6 DEF IsAccount
<1>7. CASE EnableHeartbeat(l)
  BY <1>6, <1>7 DEF EnableHeartbeat
<1>8. CASE DisableHeartbeat(l)
  BY <1>1, <1>2, <1>8 DEF DisableHeartbeat, IsAccount
<1> QED
  BY <1>3, <1>4, <1>5, <1>7, <1>8, <1>9

LEMMA InitSweeps == Init => SweepsInv
<1> SUFFICES ASSUME Init
             PROVE  SweepsInv
  OBVIOUS
<1>1. \A provider, owner : IsAccount(NewAccount(provider, owner))
  BY DEF IsAccount, AccountFields, NewAccount
<1>2. \A r \in {Nobody, [NewAccount("claude", 1) EXCEPT !.enabled = TRUE],
                [NewAccount("codex", 1) EXCEPT !.enabled = TRUE,
                                               !.targets = {"standard", "spark"}]} :
        r = Nobody \/ IsAccount(r)
  BY <1>1 DEF IsAccount
<1>3. IsStore(saved)
  BY <1>2 DEF Init, IsStore
<1>4. DOMAIN NotStarted = Fields /\ NotStarted.pc = "start" /\ NotStarted.failed = {}
      /\ NotStarted.base = 0
  BY DEF NotStarted, Fields
<1> QED
  BY <1>3, <1>4 DEF Init, SweepsInv, Knows, Current

LEMMA NextSweeps == SweepsInv /\ [Next]_vars => SweepsInv'
<1> SUFFICES ASSUME SweepsInv, [Next]_vars
             PROVE  SweepsInv'
  OBVIOUS
<1>1. CASE UNCHANGED vars
  BY <1>1 DEF vars, SweepsInv, Current
<1>2. ASSUME NEW p \in Process, Begin(p) \/ Coordinator(p) \/ RecordFailed(p)
      PROVE  SweepsInv'
  BY <1>2, BeginKeeps, CoordinatorKeeps, RecordFailedKeeps
<1>3. ASSUME NEW u \in Usage,
             \/ \E l \in Label : CheckAccount(u, l)
             \/ Refresh(u) \/ FetchUsage(u) \/ Answer(u) \/ Update(u) \/ EndAccount(u)
             \/ EndUsage(u)
      PROVE  SweepsInv'
  <2>1. CASE \E l \in Label : CheckAccount(u, l)
    <3>1. PICK l \in Label : CheckAccount(u, l)
      BY <2>1
    <3>2. u \in Process
      BY DEF Process
    <3> QED
      BY <3>1, <3>2, TakesKeeps
  <2>2. CASE Refresh(u) \/ FetchUsage(u) \/ Answer(u) \/ EndAccount(u) \/ EndUsage(u)
    BY <2>2, UsageKeeps
  <2>3. CASE Update(u)
    BY <2>3, UpdateKeeps
  <2> QED
    BY <1>3, <2>1, <2>2, <2>3
<1>4. ASSUME NEW m \in Maintain,
             \/ \E l \in Label : RefreshAccount(m, l) \/ SelectTargets(m, l)
             \/ \E t \in {"standard", "spark"} : HeartbeatAccount(m, t)
             \/ BeginBeats(m) \/ InspectWindow(m) \/ WarmWindow(m) \/ EndTargets(m)
             \/ EndMaintain(m)
      PROVE  SweepsInv'
  BY <1>4, TakesKeeps, SelectTargetsKeeps, HeartbeatAccountKeeps, HeartbeatAllKeeps,
     WindowKeeps, EndsKeep DEF Process
<1>5. CASE \E l \in Label :
             \/ RefreshedElsewhere(l) \/ SaveLogin(l) \/ LoginCodex(l) \/ RemoveAccount(l)
             \/ EnableHeartbeat(l) \/ DisableHeartbeat(l)
  BY <1>5, ElsewhereKeeps
<1> QED
  BY <1>1, <1>2, <1>3, <1>4, <1>5 DEF Next

-----------------------------------------------------------------------------
(* The theorems. *)

\* A sweep whose baseline is current holds the store, and differs from it in no
\* more than a heartbeat writes (usage/service.py, heartbeat/service.py).
THEOREM SweepsInvariance == Spec => []SweepsInv
BY InitSweeps, NextSweeps, PTL DEF Spec

\* The token of an account is only ever sent to its own provider, whatever login
\* the label was given while it was refreshed, for any number of labels and sweeps.
THEOREM AskedOwnProviderHolds == Spec => []AskedOwnProvider
<1>1. SweepsInv => AskedOwnProvider
  BY DEF SweepsInv, Knows, Owned, AskedOwnProvider
<1> QED
  BY <1>1, SweepsInvariance, PTL

\* Maintenance never warms the window of an account whose failed refresh it has
\* recorded, unless it then found it refreshed: heartbeats go by the copy that the
\* refreshes left behind (heartbeat_all, _auth_blocker).
THEOREM NoBeatAfterFailureHolds == Spec => []NoBeatAfterFailure
<1>1. SweepsInv => NoBeatAfterFailure
  <2> SUFFICES ASSUME SweepsInv, NEW m \in Maintain, sweep[m].pc \in {"inspect", "warm"}
               PROVE  sweep[m].label \notin sweep[m].failed
    BY DEF NoBeatAfterFailure
  <2>1. Holds(sweep[m]) /\ Marked(sweep[m]) /\ Beats(sweep[m])
    BY DEF SweepsInv, Knows, Process
  <2>2. ~ sweep[m].cache[sweep[m].label].failed /\ sweep[m].cache[sweep[m].label] # Nobody
    BY <2>1 DEF Beats, Beating, SameRest, AccountFields
  <2> QED
    BY <2>1, <2>2 DEF Marked, Holds
<1> QED
  BY <1>1, SweepsInvariance, PTL

\* A step of one process leaves the others where they are.
LEMMA Frames ==
  ASSUME SweepsInv, NEW p \in Process
  PROVE  /\ \A fields : Puts(p, fields) => OthersStay(p)
         /\ \A r, then, otherwise : Persists(p, r, then, otherwise) => OthersStay(p)
<1>1. \A fields : Puts(p, fields) => OthersStay(p)
  BY DEF Puts, SweepsInv, OthersStay
<1> QED
  BY <1>1 DEF Persists

LEMMA AnyStays ==
  ASSUME SweepsInv, NEW p \in Process, Begin(p) \/ Coordinator(p) \/ RecordFailed(p)
  PROVE  OthersStay(p) /\ sweep[p].pc \in {"start", "refresh", "failed"}
BY Frames DEF Begin, Coordinator, RecordFailed, Adopts, Goes

LEMMA UsageStays ==
  ASSUME SweepsInv, NEW p \in Usage,
         \/ \E l \in Label : CheckAccount(p, l)
         \/ Refresh(p) \/ FetchUsage(p) \/ Answer(p) \/ Update(p) \/ EndAccount(p)
         \/ EndUsage(p)
  PROVE  OthersStay(p) /\ (Update(p) \/ saved' = saved)
<1>1. p \in Process
  BY DEF Process
<1>2. CASE \E l \in Label : CheckAccount(p, l)
  BY <1>1, <1>2, Frames DEF CheckAccount, Unchanged
<1>3. CASE Refresh(p) \/ FetchUsage(p) \/ EndAccount(p) \/ EndUsage(p)
  BY <1>1, <1>3, Frames
     DEF Refresh, UsesRefreshed, FetchUsage, EndAccount, EndUsage, Goes, Unchanged
<1>4. CASE Answer(p)
  BY <1>1, <1>4, Frames DEF Answer, HandleAuthentication, Goes, Unchanged
<1>5. CASE Update(p)
  BY <1>1, <1>5, Frames DEF Update, PersistProviderUpdate, Goes
<1> QED
  BY <1>2, <1>3, <1>4, <1>5

LEMMA MaintainStays ==
  ASSUME SweepsInv, NEW p \in Maintain,
         \/ \E l \in Label : RefreshAccount(p, l) \/ SelectTargets(p, l)
         \/ \E t \in {"standard", "spark"} : HeartbeatAccount(p, t)
         \/ BeginBeats(p) \/ InspectWindow(p) \/ WarmWindow(p) \/ EndTargets(p)
         \/ EndMaintain(p)
  PROVE  /\ OthersStay(p)
         /\ \/ \E t \in {"standard", "spark"} : HeartbeatAccount(p, t)
            \/ InspectWindow(p) \/ WarmWindow(p) \/ saved' = saved
<1>1. p \in Process
  BY DEF Process
<1>2. CASE \E l \in Label : RefreshAccount(p, l) \/ SelectTargets(p, l)
  BY <1>1, <1>2, Frames DEF RefreshAccount, SelectTargets, Unchanged
<1>3. CASE \E t \in {"standard", "spark"} : HeartbeatAccount(p, t)
  BY <1>1, <1>3, Frames
     DEF HeartbeatAccount, Skips, AuthBlocker, UnsupportedTarget, TargetReset, Records
<1>4. CASE InspectWindow(p) \/ WarmWindow(p)
  BY <1>1, <1>4, Frames DEF InspectWindow, WarmWindow, Beaten
<1>5. CASE BeginBeats(p) \/ EndTargets(p) \/ EndMaintain(p)
  BY <1>1, <1>5, Frames
     DEF BeginBeats, HeartbeatAll, EndTargets, EndMaintain, Goes, Unchanged
<1> QED
  BY <1>2, <1>3, <1>4, <1>5

\* Who writes the store when a process moves on from one of the steps that
\* KeepsTheRest speaks of: that process, with its update or its heartbeat.
LEMMA Writes ==
  ASSUME SweepsInv, Next, NEW p \in Process, sweep'[p] # sweep[p], saved' # saved,
         sweep[p].pc \in {"update", "targets", "inspect", "warm"}
  PROVE  \/ p \in Usage /\ Update(p)
         \/ /\ p \in Maintain
            /\ \/ \E t \in {"standard", "spark"} : HeartbeatAccount(p, t)
               \/ InspectWindow(p) \/ WarmWindow(p)
<1>1. ~ \E l \in Label :
          \/ RefreshedElsewhere(l) \/ SaveLogin(l) \/ LoginCodex(l) \/ RemoveAccount(l)
          \/ EnableHeartbeat(l) \/ DisableHeartbeat(l)
  BY DEF RefreshedElsewhere, SaveLogin, LoginCodex, RemoveAccount, EnableHeartbeat, DisableHeartbeat,
         Operator
<1>2. \A q \in Process : OthersStay(q) => q = p
  BY DEF OthersStay
<1>3. ~ \E q \in Process : Begin(q) \/ Coordinator(q) \/ RecordFailed(q)
  BY <1>2, AnyStays
<1>4. CASE \E u \in Usage :
             \/ \E l \in Label : CheckAccount(u, l)
             \/ Refresh(u) \/ FetchUsage(u) \/ Answer(u) \/ Update(u) \/ EndAccount(u)
             \/ EndUsage(u)
  BY <1>2, <1>4, UsageStays DEF Process
<1>5. CASE \E m \in Maintain :
             \/ \E l \in Label : RefreshAccount(m, l) \/ SelectTargets(m, l)
             \/ \E t \in {"standard", "spark"} : HeartbeatAccount(m, t)
             \/ BeginBeats(m) \/ InspectWindow(m) \/ WarmWindow(m) \/ EndTargets(m)
             \/ EndMaintain(m)
  BY <1>2, <1>5, MaintainStays DEF Process
<1> QED
  BY <1>1, <1>3, <1>4, <1>5 DEF Next

\* The store keeps all accounts but one, and of that one these fields.
Keeps(p, fields) ==
  \A l \in Label : saved'[l] # saved[l] =>
    l = sweep[p].label /\ Rest(saved'[l], fields) = Rest(saved[l], fields)

LEMMA UpdateKeepsTheRest ==
  ASSUME SweepsInv, NEW p \in Usage, Update(p)
  PROVE  Keeps(p, {"told"})
<1> DEFINE k == sweep[p]
           current == k.cache[k.label]
           r == [current EXCEPT !.told = k.account.told]
<1>1. p \in Process /\ k.pc = "update" /\ k.label \in Label /\ Holds(k)
  BY DEF Process, SweepsInv, Knows, Update, PersistProviderUpdate, Holds
<1>2. CASE saved' = saved
  BY <1>2 DEF Keeps
<1>3. CASE /\ current # Nobody
           /\ Persists(p, r, [pc |-> "refused"], [pc |-> "refused"])
  <2>1. saved' = saved \/ (k.cache = saved /\ saved' = [saved EXCEPT ![k.label] = r])
    BY <1>1, <1>3 DEF Persists, Unchanged, SourceChanged, SweepsInv, Current
  <2>2. Rest(r, {"told"}) = Rest(current, {"told"})
    BY DEF Rest
  <2> HIDE DEF r
  <2> QED
    BY <1>1, <1>2, <2>1, <2>2 DEF Keeps, SweepsInv, IsStore
<1> QED
  BY <1>2, <1>3 DEF Update, PersistProviderUpdate, Unchanged

LEMMA BeatKeepsTheRest ==
  ASSUME SweepsInv, NEW p \in Maintain,
         \/ \E t \in {"standard", "spark"} : HeartbeatAccount(p, t)
         \/ InspectWindow(p) \/ WarmWindow(p)
  PROVE  Keeps(p, {"told", "beat", "warm"})
<1> DEFINE k == sweep[p]
<1>1. /\ p \in Process /\ k.pc \in Beating /\ k.label \in Label
      /\ Holds(k) /\ Beats(k) /\ IsAccount(k.account)
  BY DEF Process, SweepsInv, Knows, HeartbeatAccount, InspectWindow, WarmWindow, Holds,
         Beating
<1>2. CASE saved' = saved
  BY <1>2 DEF Keeps
<1>3. ASSUME NEW r, NEW then, IsAccount(r), SameRest(r, k.account),
             Persists(p, r, then, Aborts)
      PROVE  Keeps(p, {"told", "beat", "warm"})
  <2>1. saved' = saved \/ (k.cache = saved /\ saved' = [saved EXCEPT ![k.label] = r])
    BY <1>1, <1>3 DEF Persists, Unchanged, SourceChanged, SweepsInv, Current, Beating
  <2>2. IsAccount(k.cache[k.label]) /\ SameRest(r, k.cache[k.label])
    BY <1>1, <1>3 DEF Holds, IsStore, Beats, SameRest
  <2>3. Rest(r, {"told", "beat", "warm"}) = Rest(k.cache[k.label], {"told", "beat", "warm"})
    BY <1>3, <2>2 DEF Rest, SameRest, IsAccount
  <2> QED
    BY <1>1, <1>2, <2>1, <2>3 DEF Keeps, SweepsInv, IsStore
<1>4. ASSUME NEW t \in {"standard", "spark"}, HeartbeatAccount(p, t)
      PROVE  Keeps(p, {"told", "beat", "warm"})
  <2>1. CASE \E status : Records(p, t, status)
    <3>1. PICK status : Records(p, t, status)
      BY <2>1
    <3>2. /\ IsAccount([k.account EXCEPT !.beat = status])
          /\ SameRest([k.account EXCEPT !.beat = status], k.account)
      BY <1>1, BeatenAccount
    <3> QED
      BY <1>3, <3>1, <3>2 DEF Records
  <2> QED
    BY <1>2, <1>4, <2>1
       DEF HeartbeatAccount, AuthBlocker, UnsupportedTarget, TargetReset, Skips, Unchanged
<1>5. CASE InspectWindow(p) \/ WarmWindow(p)
  <2>1. \/ saved' = saved
        \/ \E told :
             LET account == [k.account EXCEPT !.told = told]
             IN Beaten(p, Warmed(p, account)) \/ Beaten(p, [account EXCEPT !.beat = "failed"])
        \/ Beaten(p, Warmed(p, k.account)) \/ Beaten(p, [k.account EXCEPT !.beat = "failed"])
    BY <1>5 DEF InspectWindow, WarmWindow, Unchanged
  <2>2. ASSUME NEW told
        PROVE  LET account == [k.account EXCEPT !.told = told]
               IN /\ IsAccount(Warmed(p, account)) /\ SameRest(Warmed(p, account), k.account)
                  /\ IsAccount([account EXCEPT !.beat = "failed"])
                  /\ SameRest([account EXCEPT !.beat = "failed"], k.account)
    BY <1>1, BeatenAccount DEF Warmed
  <2>3. /\ IsAccount(Warmed(p, k.account)) /\ SameRest(Warmed(p, k.account), k.account)
        /\ IsAccount([k.account EXCEPT !.beat = "failed"])
        /\ SameRest([k.account EXCEPT !.beat = "failed"], k.account)
    BY <1>1, BeatenAccount DEF Warmed
  <2> QED
    BY <1>2, <1>3, <2>1, <2>2, <2>3 DEF Beaten
<1> QED
  BY <1>4, <1>5

\* What a provider told of an account is saved with nothing else changed, neither
\* of that account nor of another, however old the copies of the sweep are and
\* however many commands commit meanwhile (persist_provider_update, heartbeat_all).
THEOREM KeepsTheRestHolds == Spec => KeepsTheRest
<1> DEFINE Kept ==
      \A p \in Process, l \in Label :
        sweep'[p] # sweep[p] /\ saved'[l] # saved[l] =>
          /\ sweep[p].pc = "update" =>
               /\ l = sweep[p].label
               /\ Rest(saved'[l], {"told"}) = Rest(saved[l], {"told"})
          /\ sweep[p].pc \in {"targets", "inspect", "warm"} =>
               /\ l = sweep[p].label
               /\ Rest(saved'[l], {"told", "beat", "warm"}) =
                    Rest(saved[l], {"told", "beat", "warm"})
<1>1. SweepsInv /\ [Next]_vars => [Kept]_vars
  <2> SUFFICES ASSUME SweepsInv, Next, NEW p \in Process, NEW l \in Label,
                      sweep'[p] # sweep[p], saved'[l] # saved[l],
                      sweep[p].pc \in {"update", "targets", "inspect", "warm"}
               PROVE  /\ l = sweep[p].label
                      /\ sweep[p].pc = "update" =>
                           Rest(saved'[l], {"told"}) = Rest(saved[l], {"told"})
                      /\ sweep[p].pc # "update" =>
                           Rest(saved'[l], {"told", "beat", "warm"}) =
                             Rest(saved[l], {"told", "beat", "warm"})
    OBVIOUS
  <2>1. \/ p \in Usage /\ Update(p)
        \/ /\ p \in Maintain
           /\ \/ \E t \in {"standard", "spark"} : HeartbeatAccount(p, t)
              \/ InspectWindow(p) \/ WarmWindow(p)
    BY Writes
  <2>2. CASE p \in Usage /\ Update(p)
    BY <2>2, UpdateKeepsTheRest DEF Keeps, Update, PersistProviderUpdate
  <2>3. CASE /\ p \in Maintain
             /\ \/ \E t \in {"standard", "spark"} : HeartbeatAccount(p, t)
                \/ InspectWindow(p) \/ WarmWindow(p)
    BY <2>3, BeatKeepsTheRest DEF Keeps, HeartbeatAccount, InspectWindow, WarmWindow
  <2> QED
    BY <2>1, <2>2, <2>3
<1> QED
  BY <1>1, SweepsInvariance, PTL DEF Spec, KeepsTheRest

=============================================================================
