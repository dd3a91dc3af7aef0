-------------------------------- MODULE Activity --------------------------------
(***************************************************************************)
(* Token activity of Codex accounts (usage/activity.py) over the durable   *)
(* snapshots of persistence/activity_snapshots.py.  Several usage checks   *)
(* run at once; each samples its reference time when it starts and gets to *)
(* its accounts, one after the other, some time later.                     *)
(*                                                                         *)
(* Saved accounts are numbered in store order.  Two labels may hold logins *)
(* of one provider account, and so share its snapshot.                     *)
(***************************************************************************)
EXTENDS Integers, FiniteSetsExt, TLC

CONSTANTS
  Check,      \* usage checks
  Accounts,   \* how many accounts were ever saved at a time
  Saved,      \* how many of them when each check loaded the store
  Identity,   \* stable provider accounts
  Profiles,   \* what a profile may report: lifetime total and verified earliest date
  MaxTotal,   \* _MAX_TOKEN_COUNT
  MaxClock

NoCheck == "nobody"

ASSUME ActivityAssumption ==
  /\ Accounts \in Nat /\ Saved \in [Check -> 0..Accounts] /\ MaxTotal \in Nat /\ MaxClock \in Nat
  /\ \A r \in Profiles : r.total \in 0..MaxTotal
  /\ NoCheck \notin Check

Unknown == -1
NoSnapshot == [total |-> Unknown, since |-> Unknown, at |-> Unknown]
Snapshot(s, t) == [total |-> s.total, since |-> s.since, at |-> t]
VARIABLES
  clock, identityOf,
  snapshots,  \* the durable document
  damaged,    \* it cannot be decoded, or read safely
  lock,       \* who holds the snapshot lock
  check       \* what each usage check knows

activityVars == <<clock, identityOf, snapshots, damaged, lock, check>>

Selected(c) == 1..Saved[c]
NoDocument == [i \in Identity |-> NoSnapshot]
Idle ==
  [pc |-> "idle", at |-> 0, next |-> 1, reading |-> NoSnapshot, document |-> NoDocument,
   shown |-> [a \in 1..Accounts |-> NoSnapshot], first |-> NoDocument,
   read |-> {}, refused |-> {}, troubled |-> FALSE,
   report |-> [kind |-> "none", total |-> 0, since |-> Unknown]]

ActivityInit ==
  /\ clock = 0 /\ identityOf \in [1..Accounts -> Identity]
  /\ snapshots = NoDocument
  /\ damaged = FALSE /\ lock = NoCheck
  /\ check = [c \in Check |-> Idle]

Set(c, changes) ==
  check' = [check EXCEPT ![c] =
              [f \in DOMAIN check[c] |-> IF f \in DOMAIN changes THEN changes[f] ELSE check[c][f]]]
Account(c) == check[c].next
IdentityAt(c) == identityOf[Account(c)]

-----------------------------------------------------------------------------
(* collect: once every account was checked, over the selected accounts in  *)
(* their order.  An account is eligible for a request unless its check     *)
(* ended in an authentication, identity, expiry or persistence failure.    *)

Start(c) ==
  /\ check[c].pc = "idle"
  /\ Set(c, [pc |-> "account", at |-> clock, first |-> snapshots])
  /\ UNCHANGED <<clock, identityOf, snapshots, damaged, lock>>

(* What the account contributes, and the next account.                     *)
Contributes(c, s, problem) ==
  Set(c, [pc |-> "account", next |-> Account(c) + 1, reading |-> NoSnapshot,
          document |-> NoDocument, shown |-> [check[c].shown EXCEPT ![Account(c)] = s],
          troubled |-> check[c].troubled \/ problem # "none"])

(* load: reads without the lock.                                           *)
Load(c, problem) ==
  IF damaged
  THEN Set(c, [pc |-> "account", next |-> Account(c) + 1,
               refused |-> check[c].refused \cup {Account(c)}, troubled |-> TRUE])
  ELSE Contributes(c, snapshots[IdentityAt(c)], problem)

(* Mutation: a failed request ends the account without its snapshot.       *)
LoadForgotten(c, problem) ==
  IF problem = "none" THEN Load(c, problem) ELSE Contributes(c, NoSnapshot, problem)
LoadSnapshot(c, problem) == Load(c, problem)

ReadAccount(c) ==
  /\ check[c].pc = "account" /\ Account(c) \in Selected(c)
  /\ \/ LoadSnapshot(c, "none")     \* not eligible, or no activity yet
     \/ LoadSnapshot(c, "request")  \* a typed failure, or a wrong scope
     \/ \E s \in Profiles :
          Set(c, [pc |-> "save", reading |-> Snapshot(s, check[c].at),
                  read |-> check[c].read \cup {Account(c)}])
  /\ UNCHANGED <<clock, identityOf, snapshots, damaged, lock>>

-----------------------------------------------------------------------------
(* save: read, merge and commit under the lock of the snapshot document.   *)

(* An older reading never replaces a newer one; a date once verified       *)
(* outlives a reading without one unless the total fell.                   *)
Merge(current, incoming) ==
  IF current = NoSnapshot THEN incoming
  ELSE IF incoming.at <= current.at THEN current
  ELSE IF incoming.since = Unknown /\ incoming.total >= current.total
       THEN [incoming EXCEPT !.since = current.since]
       ELSE incoming
Merged(current, incoming) == Merge(current, incoming)

Conflict(current, incoming) == incoming.at = current.at /\ incoming # current

AcquireOrGiveUp(c) ==
  /\ check[c].pc = "save"
  /\ \/ lock = NoCheck /\ lock' = c
        /\ IF damaged
           THEN Set(c, [pc |-> "failed"])
           ELSE Set(c, [pc |-> "commit", document |-> snapshots])
     \/ lock # NoCheck /\ Set(c, [pc |-> "failed"]) /\ UNCHANGED lock
  /\ UNCHANGED <<clock, identityOf, snapshots, damaged>>

(* Mutation: another process may be saving.                                *)
AcquireUnlocked(c) ==
  /\ check[c].pc = "save"
  /\ IF damaged THEN Set(c, [pc |-> "failed"])
     ELSE Set(c, [pc |-> "commit", document |-> snapshots])
  /\ UNCHANGED <<clock, identityOf, snapshots, damaged, lock>>
SaveBegins(c) == AcquireOrGiveUp(c)

Commit(c) ==
  LET current == check[c].document[IdentityAt(c)]
      effective == Merged(current, check[c].reading)
      document == [check[c].document EXCEPT ![IdentityAt(c)] = effective]
  IN /\ check[c].pc = "commit"
     /\ lock' = IF lock = c THEN NoCheck ELSE lock
     /\ \/ Conflict(current, check[c].reading) /\ Set(c, [pc |-> "failed"]) /\ UNCHANGED snapshots
        \/ /\ ~ Conflict(current, check[c].reading)
           /\ \/ /\ snapshots' = document /\ Contributes(c, effective, "none")
              \/ /\ document # check[c].document
                 /\ snapshots' \in {snapshots, document}  \* refused, or not proven durable
                 /\ Set(c, [pc |-> "failed"])
     /\ UNCHANGED <<clock, identityOf, damaged>>

(* A reading that could not be saved still counts in this check.           *)
SaveFails(c) ==
  /\ check[c].pc = "failed" /\ Contributes(c, check[c].reading, "snapshot")
  /\ lock' = IF lock = c THEN NoCheck ELSE lock
  /\ UNCHANGED <<clock, identityOf, snapshots, damaged>>

-----------------------------------------------------------------------------
(* The total of a provider: covered accounts in order, an account that     *)
(* would exceed the boundary left out and reported.                        *)

Covered(c) ==
  LET total[n \in 0..Saved[c]] ==
        IF n = 0 THEN [sum |-> 0, of |-> {}]
        ELSE LET before == total[n - 1]  s == check[c].shown[n]
             IN IF s = NoSnapshot \/ s.total > MaxTotal - before.sum THEN before
                ELSE [sum |-> before.sum + s.total, of |-> before.of \cup {n}]
  IN total[Saved[c]]

Report(c) ==
  LET covered == Covered(c).of
      dates == {check[c].shown[a].since : a \in covered}
      excess == \E a \in Selected(c) \ covered : check[c].shown[a] # NoSnapshot
  IN [kind  |-> IF covered = Selected(c) THEN "complete"
                ELSE IF covered # {} THEN "partial"
                ELSE IF check[c].troubled \/ excess THEN "failed" ELSE "unavailable",
      total |-> Covered(c).sum,
      since |-> IF covered = {} \/ Unknown \in dates THEN Unknown ELSE Min(dates)]

Finish(c) ==
  /\ check[c].pc = "account" /\ Account(c) \notin Selected(c)
  /\ Set(c, [pc |-> "done", report |-> Report(c)])
  /\ UNCHANGED <<clock, identityOf, snapshots, damaged, lock>>

Tick ==
  /\ clock < MaxClock /\ clock' = clock + 1
  /\ UNCHANGED <<identityOf, snapshots, damaged, lock, check>>

(* External: the document is damaged, or its permissions, and later repaired. *)
Damage ==
  /\ damaged' = ~ damaged /\ lock = NoCheck
  /\ UNCHANGED <<clock, identityOf, snapshots, lock, check>>

ActivityNext ==
  \/ \E c \in Check : Start(c) \/ ReadAccount(c) \/ SaveBegins(c) \/ Commit(c)
                      \/ SaveFails(c) \/ Finish(c)
  \/ Tick \/ Damage

-----------------------------------------------------------------------------
(* The last authoritative value of an account is never lost, never gets    *)
(* older, and keeps its verified date while its total does not fall,       *)
(* whatever checks overlap and whichever saves last.                       *)
SnapshotsAdvance ==
  [][\A i \in Identity :
       snapshots[i] # NoSnapshot =>
         /\ snapshots'[i].at >= snapshots[i].at
         /\ snapshots'[i].at = snapshots[i].at => snapshots'[i] = snapshots[i]
         /\ snapshots[i].since # Unknown /\ snapshots'[i].total >= snapshots[i].total
              => snapshots'[i].since # Unknown]_activityVars

(* A check shows an account nothing older than what was durable when the   *)
(* check began, and nothing older than its own start where it got an       *)
(* answer: a rejected request does not erase the last value.               *)
ShownNotStale ==
  \A c \in Check : check[c].pc = "done" =>
    \A a \in Selected(c) \ check[c].refused :
      check[c].shown[a].at >= IF a \in check[c].read THEN check[c].at
                              ELSE check[c].first[identityOf[a]].at
=============================================================================
