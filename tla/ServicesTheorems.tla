---------------------------- MODULE ServicesTheorems ----------------------------
(***************************************************************************)
(* What runs around the store, one component after the other: they share   *)
(* no variable.                                                            *)
(*                                                                         *)
(* HttpRetry: an operation that may be done once is done at most once, for *)
(* every number of attempts, every budget and every timeout: neither the   *)
(* attempt limit nor the clock is what protects it.  As long as such an    *)
(* operation goes on, nothing it sent can have been carried out: whatever  *)
(* may have been carried out ends it.                                      *)
(*                                                                         *)
(* Activity: the durable activity of an account only moves forward, and no *)
(* check shows an account older than it was when the check began, for      *)
(* every number of usage checks, accounts and identities, and whatever     *)
(* providers report.  Only the holder of the snapshot lock has a document  *)
(* in hand, and that document is the durable one, so that the merge        *)
(* compares what it is about to replace; what a check showed of the        *)
(* accounts it is done with was no older when it read it.                  *)
(*                                                                         *)
(* Scheduler: a verdict of quiescence is true, for crontabs of every       *)
(* length and any number of commands and failing tools.  What runs by      *)
(* itself is run by a tool the host has, and every tool the host has is    *)
(* asked; a job of the crontab keeps a marker beside it, also when a block *)
(* is cut out between two others, so that the search for markers finds it; *)
(* and what was found absent earlier has not started since.                *)
(* What install and uninstall write keeps the user's lines, in their order:*)
(* cutting the one block of a well-marked crontab moves what follows it    *)
(* three places back, and the block appended holds no line of the user's.  *)
(*                                                                         *)
(* LocalActivity: what a collection reports lies between what had happened *)
(* when it began and what has happened when it ends, for any number of     *)
(* transcripts, lines and days. Claude Code only appends, and a transcript *)
(* is retired only when the cache covers it: so the cache that was read,   *)
(* the transcripts that were counted and those that are left hold          *)
(* everything that had happened, and no event twice.                       *)
(***************************************************************************)
EXTENDS HttpRetry, Activity, Scheduler, LocalActivity, WellFoundedInduction,
        FiniteSetTheorems, TLAPS

-----------------------------------------------------------------------------
(* HTTP: one operation.                                                    *)

\* Still going on, an operation that may be done once has not been done.
OnceInv ==
  /\ processed \in Nat
  /\ operation \in HttpOperation
  /\ operation \in SingleUse => processed <= 1
  /\ operation \in SingleUse /\ pc # "done" => processed = 0

\* The policies of what may be done once: an answer that is lost, and a
\* failure of the server, are final (_POLICIES in http/retry.py).
LEMMA SingleUsePolicy ==
  ASSUME NEW o \in SingleUse
  PROVE  ~ Policy[o].ambiguous_transport /\ ~ Policy[o].server_status
  BY DEF SingleUse, Policy, HttpOperation

\* Where a policy does not allow another attempt, the operation ends.
LEMMA NotRetriedEnds ==
  ASSUME NEW may \in BOOLEAN, NEW after, NEW result, ~ may, RetryOr(may, after, result)
  PROVE  pc' = "done"
  BY DEF RetryOr, RetryDelay, Ended

\* An attempt leaves the operation what it is, and is made when one is sent.
LEMMA SentOperation ==
  ASSUME Sent
  PROVE  pc = "sent" /\ operation' = operation
  BY DEF Sent

\* The invariant holds at first.
LEMMA OnceInit == RetryInit => OnceInv
  BY DEF RetryInit, OnceInv, HttpOperation, SingleUse

\* Every step of the client and of the provider keeps the invariant.
LEMMA OnceStep == OnceInv /\ [RetryNext]_retryVars => OnceInv'
<1> SUFFICES ASSUME OnceInv, [RetryNext]_retryVars PROVE OnceInv'
  OBVIOUS
<1> USE DEF OnceInv
<1>1. CASE UNCHANGED retryVars
  BY <1>1 DEF retryVars
<1>2. ASSUME NEW m \in Methods, NEW o \in HttpOperation, Call(m, o)
      PROVE  OnceInv'
  BY <1>2 DEF Call
<1>3. CASE BeginAttempt
  BY <1>3 DEF BeginAttempt, MayAttempt, Ended
<1>4. CASE Exhausted
  BY <1>4 DEF Exhausted, Ended
<1>5. CASE ProvenConnect
  <2>1. operation' = operation /\ pc = "sent" /\ processed' = processed
    BY <1>5, SentOperation DEF ProvenConnect
  <2> QED BY <2>1
<1>6. CASE LostAnswer
  <2>1. /\ operation' = operation /\ pc = "sent"
        /\ processed' \in {processed, processed + 1}
    BY <1>6, SentOperation DEF LostAnswer, Ambiguous, Processed
  <2>2. ASSUME operation \in SingleUse PROVE pc' = "done"
    <3>1. RetryOr(Policy[operation].ambiguous_transport, NoDelay, "transport")
      BY <1>6 DEF LostAnswer, Ambiguous
    <3>2. Policy[operation].ambiguous_transport \in BOOLEAN
      BY DEF Policy
    <3> QED BY <2>2, <3>1, <3>2, SingleUsePolicy, NotRetriedEnds
  <2> QED BY <2>1, <2>2
<1>7. CASE Terminal
  <2>1. operation' = operation /\ pc = "sent" /\ processed' = processed
    BY <1>7, SentOperation DEF Terminal
  <2> QED BY <2>1
<1>8. CASE RateLimited
  <2>1. operation' = operation /\ pc = "sent" /\ processed' = processed
    BY <1>8, SentOperation DEF RateLimited
  <2> QED BY <2>1
<1>9. CASE ServerFailure
  <2>1. PICK raw \in RetryAfters \cup {NoDelay}, retryable \in BOOLEAN, rejects \in BOOLEAN :
          /\ Sent /\ Processed
          /\ RetryOr(Policy[operation].server_status /\ retryable /\ ~ rejects,
                     ParseRetryAfter(raw), "server")
    BY <1>9 DEF ServerFailure
  <2>2. /\ operation' = operation /\ pc = "sent"
        /\ processed' \in {processed, processed + 1}
    BY <2>1, SentOperation DEF Processed
  <2>3. ASSUME operation \in SingleUse PROVE pc' = "done"
    <3> DEFINE may == Policy[operation].server_status /\ retryable /\ ~ rejects
    <3>1. may \in BOOLEAN /\ ~ may
      BY <2>3, SingleUsePolicy DEF Policy
    <3>2. RetryOr(may, ParseRetryAfter(raw), "server")
      BY <2>1
    <3> HIDE DEF may
    <3> QED BY <3>1, <3>2, NotRetriedEnds
  <2> QED BY <2>2, <2>3
<1>10. CASE SuccessBody
  <2>1. operation' = operation /\ pc = "sent" /\ processed' = processed + 1
    BY <1>10, SentOperation DEF SuccessBody
  <2>2. ASSUME operation \in SingleUse PROVE pc' = "done"
    <3>1. \/ pc' = "done"
          \/ RetryOr(Policy[operation].ambiguous_transport, NoDelay, "transport")
      BY <1>10 DEF SuccessBody, Ended
    <3>2. Policy[operation].ambiguous_transport \in BOOLEAN
      BY DEF Policy
    <3> QED BY <2>2, <3>1, <3>2, SingleUsePolicy, NotRetriedEnds
  <2> QED BY <2>1, <2>2
<1>11. CASE Rejected
  <2>1. operation' = operation /\ pc = "sent" /\ processed' = processed
    BY <1>11, SentOperation DEF Rejected
  <2> QED BY <2>1
<1>12. CASE Sleep
  BY <1>12 DEF Sleep
<1>13. CASE Close
  BY <1>13 DEF Close, request
<1>14. CASE ProxyChanges
  BY <1>14 DEF ProxyChanges, request
<1> QED
  BY <1>1, <1>2, <1>3, <1>4, <1>5, <1>6, <1>7, <1>8, <1>9, <1>10, <1>11, <1>12, <1>13, <1>14
  DEF RetryNext

\* The invariant holds of every behaviour of the client.
THEOREM RetryInvariance == RetrySpec => []OnceInv
  BY OnceInit, OnceStep, PTL DEF RetrySpec

\* A refresh, and the request that warms a window, is carried out at most once
\* whatever is lost, delayed or retried (http/retry.py).
THEOREM CarriedOutOnceHolds == RetrySpec => []CarriedOutOnce
<1>1. OnceInv => CarriedOutOnce
  BY DEF OnceInv, CarriedOutOnce
<1> QED BY <1>1, RetryInvariance, PTL
-----------------------------------------------------------------------------
(* Activity: the checks of usage.                                          *)

\* A value of one account, or that there is none.
IsReading(s) ==
  /\ s = [total |-> s.total, since |-> s.since, at |-> s.at]
  /\ s.total \in Int /\ s.at \in Int /\ s.at >= Unknown

Fields == {"pc", "at", "next", "reading", "document", "shown", "first", "read", "refused",
           "troubled", "report"}

\* A check keeps its shape, and what it read is a value of an account.
Knows(k) ==
  /\ DOMAIN k = Fields
  /\ k.at \in Nat /\ IsReading(k.reading)

\* The document a check is about to replace is the durable one, and it alone
\* may replace it.
Holds(c) == check[c].pc = "commit" => lock = c /\ check[c].document = snapshots

AdvanceInv ==
  /\ clock \in Nat
  /\ DOMAIN snapshots = Identity /\ \A i \in Identity : IsReading(snapshots[i])
  /\ DOMAIN check = Check
  /\ \A c \in Check : Knows(check[c]) /\ Holds(c)

\* One value follows another as SnapshotsAdvance says.
Advances(old, new) ==
  old # NoSnapshot =>
    /\ new.at >= old.at
    /\ new.at = old.at => new = old
    /\ old.since # Unknown /\ new.total >= old.total => new.since # Unknown

-----------------------------------------------------------------------------
\* The merge of a reading never goes back (_merge in activity_snapshots.py).
LEMMA MergeAdvances ==
  ASSUME NEW old, NEW new, IsReading(old), IsReading(new)
  PROVE  IsReading(Merged(old, new)) /\ Advances(old, Merged(old, new))
  BY DEF IsReading, Advances, Merged, Merge, NoSnapshot, Unknown

\* What a check sets changes the fields that are named and no others.
LEMMA SetFields ==
  ASSUME NEW c \in Check, NEW changes, DOMAIN check = Check, Set(c, changes),
         DOMAIN changes \subseteq DOMAIN check[c]
  PROVE  /\ DOMAIN check' = Check
         /\ DOMAIN check'[c] = DOMAIN check[c]
         /\ \A f \in DOMAIN changes : check'[c][f] = changes[f]
         /\ \A f \in DOMAIN check[c] \ DOMAIN changes : check'[c][f] = check[c][f]
         /\ \A d \in Check \ {c} : check'[d] = check[d]
<1>1. /\ DOMAIN check' = Check
      /\ check'[c] = [f \in DOMAIN check[c] |->
                        IF f \in DOMAIN changes THEN changes[f] ELSE check[c][f]]
      /\ \A d \in Check \ {c} : check'[d] = check[d]
  BY DEF Set
<1> QED BY <1>1

\* A reading that was saved, or could not be, makes place for the next account.
LEMMA ContributesKeeps ==
  ASSUME AdvanceInv, NEW c \in Check, NEW s, NEW problem, Contributes(c, s, problem)
  PROVE  /\ DOMAIN check' = Check /\ \A d \in Check \ {c} : check'[d] = check[d]
         /\ Knows(check'[c]) /\ check'[c].pc # "commit"
<1> DEFINE changes ==
      [pc |-> "account", next |-> Account(c) + 1, reading |-> NoSnapshot,
       document |-> NoDocument, shown |-> [check[c].shown EXCEPT ![Account(c)] = s],
       troubled |-> check[c].troubled \/ problem # "none"]
<1>1. Set(c, changes)
  BY DEF Contributes
<1>2. DOMAIN changes = {"pc", "next", "reading", "document", "shown", "troubled"}
  OBVIOUS
<1>3. changes.pc = "account" /\ IsReading(changes.reading)
  BY DEF IsReading, NoSnapshot, Unknown
<1>4. DOMAIN check[c] = Fields /\ DOMAIN check = Check /\ check[c].at \in Nat
  BY DEF AdvanceInv, Knows
<1> HIDE DEF changes
<1>5. /\ DOMAIN check' = Check /\ DOMAIN check'[c] = Fields
      /\ \A f \in DOMAIN changes : check'[c][f] = changes[f]
      /\ \A f \in DOMAIN check[c] \ DOMAIN changes : check'[c][f] = check[c][f]
      /\ \A d \in Check \ {c} : check'[d] = check[d]
  BY <1>1, <1>2, <1>4, SetFields DEF Fields
<1>6. check'[c].pc = "account" /\ check'[c].reading = changes.reading /\ check'[c].at = check[c].at
  BY <1>2, <1>3, <1>4, <1>5 DEF Fields
<1> QED BY <1>3, <1>4, <1>5, <1>6 DEF Knows

\* A check that only sets what is not its reading and does not take a document
\* in hand keeps its shape.
LEMMA SetKeeps ==
  ASSUME AdvanceInv, NEW c \in Check, NEW changes, Set(c, changes),
         DOMAIN changes \subseteq Fields, "pc" \in DOMAIN changes,
         "at" \notin DOMAIN changes \/ changes.at \in Nat,
         "reading" \notin DOMAIN changes \/ IsReading(changes.reading)
  PROVE  /\ DOMAIN check' = Check /\ \A d \in Check \ {c} : check'[d] = check[d]
         /\ Knows(check'[c]) /\ check'[c].pc = changes.pc
         /\ "document" \in DOMAIN changes => check'[c].document = changes.document
<1>1. DOMAIN check[c] = Fields /\ DOMAIN check = Check /\ Knows(check[c])
  BY DEF AdvanceInv, Knows
<1>2. /\ DOMAIN check' = Check /\ DOMAIN check'[c] = Fields
      /\ \A f \in DOMAIN changes : check'[c][f] = changes[f]
      /\ \A f \in Fields \ DOMAIN changes : check'[c][f] = check[c][f]
      /\ \A d \in Check \ {c} : check'[d] = check[d]
  BY <1>1, SetFields
<1>3. check'[c].at \in Nat
  BY <1>1, <1>2 DEF Knows, Fields
<1>4. IsReading(check'[c].reading)
  BY <1>1, <1>2 DEF Knows, Fields
<1> QED BY <1>2, <1>3, <1>4 DEF Knows

\* The invariant holds at first.
LEMMA AdvanceInit == ActivityInit => AdvanceInv
<1> SUFFICES ASSUME ActivityInit PROVE AdvanceInv
  OBVIOUS
<1>1. IsReading(NoSnapshot)
  BY DEF IsReading, NoSnapshot, Unknown
<1>2. Knows(Idle) /\ Idle.pc = "idle"
  BY <1>1 DEF Knows, Idle, Fields
<1> QED BY <1>1, <1>2 DEF ActivityInit, AdvanceInv, Holds, NoDocument

\* A check that does not take a document in hand leaves the invariant of the
\* others as it was, whatever it does to a lock that was its own or free.
LEMMA OthersKeep ==
  ASSUME AdvanceInv, NEW c \in Check, clock' = clock, snapshots' = snapshots,
         DOMAIN check' = Check, \A d \in Check \ {c} : check'[d] = check[d],
         Knows(check'[c]), check'[c].pc # "commit",
         lock' = lock \/ lock \in {c, NoCheck}
  PROVE  AdvanceInv'
<1>1. \A d \in Check \ {c} : Knows(check'[d]) /\ (Holds(d))'
  BY ActivityAssumption DEF AdvanceInv, Holds, Knows
<1> QED BY <1>1 DEF AdvanceInv, Holds, Knows, IsReading

LEMMA StartKeeps == ASSUME AdvanceInv, NEW c \in Check, Start(c) PROVE AdvanceInv'
<1> DEFINE changes == [pc |-> "account", at |-> clock, first |-> snapshots]
<1>1. Set(c, changes) /\ UNCHANGED <<clock, identityOf, snapshots, damaged, lock>>
  BY DEF Start
<1>2. /\ DOMAIN changes = {"pc", "at", "first"}
      /\ changes.pc = "account" /\ changes.at \in Nat
  BY DEF AdvanceInv
<1> HIDE DEF changes
<1>3. /\ DOMAIN check' = Check /\ \A d \in Check \ {c} : check'[d] = check[d]
      /\ Knows(check'[c]) /\ check'[c].pc = "account"
  BY <1>1, <1>2, SetKeeps DEF Fields
<1> QED BY <1>1, <1>3, OthersKeep

LEMMA LoadKeeps ==
  ASSUME AdvanceInv, NEW c \in Check, NEW problem, LoadSnapshot(c, problem),
         UNCHANGED <<clock, identityOf, snapshots, damaged, lock>>
  PROVE  AdvanceInv'
<1>1. CASE damaged
  <2> DEFINE changes ==
        [pc |-> "account", next |-> Account(c) + 1,
         refused |-> check[c].refused \cup {Account(c)}, troubled |-> TRUE]
  <2>1. Set(c, changes)
    BY <1>1 DEF LoadSnapshot, Load
  <2>2. DOMAIN changes = {"pc", "next", "refused", "troubled"} /\ changes.pc = "account"
    OBVIOUS
  <2> HIDE DEF changes
  <2>3. /\ DOMAIN check' = Check /\ \A d \in Check \ {c} : check'[d] = check[d]
        /\ Knows(check'[c]) /\ check'[c].pc = "account"
    BY <2>1, <2>2, SetKeeps DEF Fields
  <2> QED BY <2>3, OthersKeep
<1>2. CASE ~ damaged
  <2>1. Contributes(c, snapshots[IdentityAt(c)], problem)
    BY <1>2 DEF LoadSnapshot, Load
  <2>2. /\ DOMAIN check' = Check /\ \A d \in Check \ {c} : check'[d] = check[d]
        /\ Knows(check'[c]) /\ check'[c].pc # "commit"
    BY <2>1, ContributesKeeps
  <2> QED BY <2>2, OthersKeep
<1> QED BY <1>1, <1>2

LEMMA ReadAccountKeeps == ASSUME AdvanceInv, NEW c \in Check, ReadAccount(c) PROVE AdvanceInv'
<1>1. UNCHANGED <<clock, identityOf, snapshots, damaged, lock>>
  BY DEF ReadAccount
<1>2. CASE LoadSnapshot(c, "none")
  BY <1>1, <1>2, LoadKeeps
<1>3. CASE LoadSnapshot(c, "request")
  BY <1>1, <1>3, LoadKeeps
<1>4. ASSUME NEW s \in Profiles,
             Set(c, [pc |-> "save", reading |-> Snapshot(s, check[c].at),
                     read |-> check[c].read \cup {Account(c)}])
      PROVE  AdvanceInv'
  <2> DEFINE changes == [pc |-> "save", reading |-> Snapshot(s, check[c].at),
                         read |-> check[c].read \cup {Account(c)}]
  <2>1. check[c].at \in Nat
    BY DEF AdvanceInv, Knows
  <2>2. IsReading(Snapshot(s, check[c].at))
    BY <2>1, ActivityAssumption DEF IsReading, Snapshot, Unknown
  <2>3. DOMAIN changes = {"pc", "reading", "read"} /\ changes.pc = "save" /\ IsReading(changes.reading)
    BY <2>2
  <2>4. Set(c, changes)
    BY <1>4
  <2> HIDE DEF changes
  <2>5. /\ DOMAIN check' = Check /\ \A d \in Check \ {c} : check'[d] = check[d]
        /\ Knows(check'[c]) /\ check'[c].pc = "save"
    BY <2>3, <2>4, SetKeeps DEF Fields
  <2> QED BY <1>1, <2>5, OthersKeep
<1> QED BY <1>2, <1>3, <1>4 DEF ReadAccount

\* Who takes the free lock takes the durable document in hand.
LEMMA SaveBeginsKeeps == ASSUME AdvanceInv, NEW c \in Check, SaveBegins(c) PROVE AdvanceInv'
<1>1. UNCHANGED <<clock, identityOf, snapshots, damaged>>
  BY DEF SaveBegins, AcquireOrGiveUp
<1>2. CASE Set(c, [pc |-> "failed"]) /\ (lock' = lock \/ lock = NoCheck)
  <2> DEFINE changes == [pc |-> "failed"]
  <2>1. DOMAIN changes = {"pc"} /\ changes.pc = "failed"
    OBVIOUS
  <2>2. Set(c, changes)
    BY <1>2
  <2> HIDE DEF changes
  <2>3. /\ DOMAIN check' = Check /\ \A d \in Check \ {c} : check'[d] = check[d]
        /\ Knows(check'[c]) /\ check'[c].pc = "failed"
    BY <2>1, <2>2, SetKeeps DEF Fields
  <2> QED BY <1>1, <1>2, <2>3, OthersKeep
<1>3. CASE lock = NoCheck /\ lock' = c /\ Set(c, [pc |-> "commit", document |-> snapshots])
  <2> DEFINE changes == [pc |-> "commit", document |-> snapshots]
  <2>1. /\ DOMAIN changes = {"pc", "document"}
        /\ changes.pc = "commit" /\ changes.document = snapshots
    OBVIOUS
  <2>2. Set(c, changes)
    BY <1>3
  <2> HIDE DEF changes
  <2>3. /\ DOMAIN check' = Check /\ \A d \in Check \ {c} : check'[d] = check[d]
        /\ Knows(check'[c]) /\ check'[c].document = snapshots
    BY <2>1, <2>2, SetKeeps DEF Fields
  <2>4. \A d \in Check \ {c} : Knows(check'[d]) /\ (Holds(d))'
    BY <1>3, <2>3, ActivityAssumption DEF AdvanceInv, Holds, Knows
  <2>5. (Holds(c))'
    BY <1>1, <1>3, <2>3 DEF Holds
  <2> QED BY <1>1, <2>3, <2>4, <2>5 DEF AdvanceInv
<1> QED BY <1>2, <1>3 DEF SaveBegins, AcquireOrGiveUp

\* What a save does to the durable document: nothing, or the value of one
\* identity advances.
LEMMA CommitKeeps ==
  ASSUME AdvanceInv, NEW c \in Check, Commit(c)
  PROVE  AdvanceInv' /\ \A i \in Identity : Advances(snapshots[i], snapshots'[i])
<1> DEFINE current == check[c].document[IdentityAt(c)]
           effective == Merged(current, check[c].reading)
           document == [check[c].document EXCEPT ![IdentityAt(c)] = effective]
<1>1. lock = c /\ check[c].document = snapshots /\ IsReading(check[c].reading)
  BY DEF Commit, AdvanceInv, Holds, Knows
<1>2. /\ clock' = clock /\ lock' = NoCheck /\ snapshots' \in {snapshots, document}
      /\ \/ Set(c, [pc |-> "failed"])
         \/ Contributes(c, effective, "none")
  BY <1>1 DEF Commit
<1>3. /\ DOMAIN check' = Check /\ \A d \in Check \ {c} : check'[d] = check[d]
      /\ Knows(check'[c]) /\ check'[c].pc # "commit"
  <2>1. CASE Set(c, [pc |-> "failed"])
    <3> DEFINE changes == [pc |-> "failed"]
    <3>1. DOMAIN changes = {"pc"} /\ changes.pc = "failed"
      OBVIOUS
    <3>2. Set(c, changes)
      BY <2>1
    <3> HIDE DEF changes
    <3> QED BY <3>1, <3>2, SetKeeps DEF Fields
  <2>2. CASE Contributes(c, effective, "none")
    BY <2>2, ContributesKeeps
  <2> QED BY <1>2, <2>1, <2>2
<1>4. \A i \in Identity : IsReading(snapshots[i]) /\ Advances(snapshots[i], snapshots[i])
  BY DEF AdvanceInv, IsReading, Advances
<1>5. IdentityAt(c) \in Identity => IsReading(effective) /\ Advances(current, effective)
  BY <1>1, <1>4, MergeAdvances
<1>6. /\ DOMAIN snapshots = Identity /\ DOMAIN document = Identity
      /\ \A i \in Identity : document[i] = IF i = IdentityAt(c) THEN effective ELSE snapshots[i]
  BY <1>1 DEF AdvanceInv
<1>7. \A i \in Identity : IsReading(document[i]) /\ Advances(snapshots[i], document[i])
  BY <1>1, <1>4, <1>5, <1>6
<1> HIDE DEF document, effective, current
<1>8. /\ DOMAIN snapshots' = Identity
      /\ \A i \in Identity : IsReading(snapshots'[i]) /\ Advances(snapshots[i], snapshots'[i])
  BY <1>2, <1>4, <1>6, <1>7
<1>9. \A d \in Check \ {c} : Knows(check'[d]) /\ (Holds(d))'
  BY <1>1, <1>3 DEF AdvanceInv, Holds, Knows
<1>10. (Holds(c))'
  BY <1>3 DEF Holds
<1>11. clock \in Nat
  BY DEF AdvanceInv
<1>12. AdvanceInv'
  BY <1>2, <1>3, <1>8, <1>9, <1>10, <1>11 DEF AdvanceInv, IsReading
<1> QED BY <1>8, <1>12

LEMMA SaveFailsKeeps == ASSUME AdvanceInv, NEW c \in Check, SaveFails(c) PROVE AdvanceInv'
<1>1. /\ Contributes(c, check[c].reading, "snapshot")
      /\ lock' = lock \/ lock = c
      /\ UNCHANGED <<clock, identityOf, snapshots, damaged>>
  BY DEF SaveFails
<1>2. /\ DOMAIN check' = Check /\ \A d \in Check \ {c} : check'[d] = check[d]
      /\ Knows(check'[c]) /\ check'[c].pc # "commit"
  BY <1>1, ContributesKeeps
<1> QED BY <1>1, <1>2, OthersKeep

LEMMA FinishKeeps == ASSUME AdvanceInv, NEW c \in Check, Finish(c) PROVE AdvanceInv'
<1> DEFINE changes == [pc |-> "done", report |-> Report(c)]
<1>1. Set(c, changes) /\ UNCHANGED <<clock, identityOf, snapshots, damaged, lock>>
  BY DEF Finish
<1>2. DOMAIN changes = {"pc", "report"} /\ changes.pc = "done"
  OBVIOUS
<1> HIDE DEF changes
<1>3. /\ DOMAIN check' = Check /\ \A d \in Check \ {c} : check'[d] = check[d]
      /\ Knows(check'[c]) /\ check'[c].pc = "done"
  BY <1>1, <1>2, SetKeeps DEF Fields
<1> QED BY <1>1, <1>3, OthersKeep

-----------------------------------------------------------------------------
\* Every step keeps the invariant, and no step makes a durable value go back.
LEMMA AdvanceStep ==
  AdvanceInv /\ [ActivityNext]_activityVars
    => AdvanceInv' /\ \A i \in Identity : Advances(snapshots[i], snapshots'[i])
<1> SUFFICES ASSUME AdvanceInv, [ActivityNext]_activityVars
             PROVE  AdvanceInv' /\ \A i \in Identity : Advances(snapshots[i], snapshots'[i])
  OBVIOUS
<1>1. ASSUME NEW c \in Check, Commit(c)
      PROVE  AdvanceInv' /\ \A i \in Identity : Advances(snapshots[i], snapshots'[i])
  BY <1>1, CommitKeeps
<1>2. snapshots' = snapshots => \A i \in Identity : Advances(snapshots[i], snapshots'[i])
  BY DEF AdvanceInv, IsReading, Advances
<1>3. ASSUME NEW c \in Check, Start(c) \/ ReadAccount(c) \/ SaveBegins(c) \/ SaveFails(c) \/ Finish(c)
      PROVE  AdvanceInv' /\ snapshots' = snapshots
  <2>1. AdvanceInv'
    BY <1>3, StartKeeps, ReadAccountKeeps, SaveBeginsKeeps, SaveFailsKeeps, FinishKeeps
  <2>2. snapshots' = snapshots
    BY <1>3 DEF Start, ReadAccount, SaveBegins, AcquireOrGiveUp, SaveFails, Finish
  <2> QED BY <2>1, <2>2
<1>4. CASE Tick
  BY <1>2, <1>4 DEF Tick, AdvanceInv, Knows, Holds, IsReading
<1>5. CASE Damage
  BY <1>2, <1>5 DEF Damage, AdvanceInv, Knows, Holds, IsReading
<1>6. CASE UNCHANGED activityVars
  BY <1>2, <1>6 DEF activityVars, AdvanceInv, Knows, Holds, IsReading
<1> QED BY <1>1, <1>2, <1>3, <1>4, <1>5, <1>6 DEF ActivityNext

\* The invariant holds of every behaviour of the usage checks.
THEOREM ActivityInvariance == ActivityInit /\ [][ActivityNext]_activityVars => []AdvanceInv
<1>1. AdvanceInv /\ [ActivityNext]_activityVars => AdvanceInv'
  BY AdvanceStep
<1> QED BY <1>1, AdvanceInit, PTL

\* A durable value of an account is never lost, gets no older, and keeps its
\* verified date while its total does not fall (_merge and save in
\* persistence/activity_snapshots.py).
THEOREM SnapshotsAdvanceHolds ==
  ActivityInit /\ [][ActivityNext]_activityVars => SnapshotsAdvance
<1>1. AdvanceInv /\ [ActivityNext]_activityVars
        => [\A i \in Identity :
              snapshots[i] # NoSnapshot =>
                /\ snapshots'[i].at >= snapshots[i].at
                /\ snapshots'[i].at = snapshots[i].at => snapshots'[i] = snapshots[i]
                /\ snapshots[i].since # Unknown /\ snapshots'[i].total >= snapshots[i].total
                     => snapshots'[i].since # Unknown]_activityVars
  BY AdvanceStep DEF Advances
<1> QED BY <1>1, ActivityInvariance, PTL DEF SnapshotsAdvance

-----------------------------------------------------------------------------
(* What a check shows.                                                     *)

\* The accounts a check is done with are those before the next one; of the one
\* in hand it has an answer, from its own start, while it saves.
Saving == {"save", "commit", "failed"}
Due(c, a) == IF a \in check[c].read THEN check[c].at ELSE check[c].first[identityOf[a]].at
Shows(c, a) == check[c].shown[a].at \in Int /\ check[c].shown[a].at >= Due(c, a)
Fresh(c) ==
  /\ check[c].next \in Nat \ {0}
  /\ DOMAIN check[c].shown = 1..Accounts
  /\ \A a \in check[c].read :
       a \in 1..(check[c].next - 1) \/ (a = check[c].next /\ check[c].pc \in Saving)
  /\ check[c].pc \in Saving =>
       check[c].next \in check[c].read \cap Selected(c) /\ check[c].reading.at = check[c].at
  /\ check[c].pc = "idle" => check[c].next = 1
  /\ check[c].pc # "idle" =>
       \A i \in Identity : check[c].first[i].at \in Int /\ check[c].first[i].at <= snapshots[i].at
  /\ \A a \in 1..(check[c].next - 1) : a \in check[c].refused \/ Shows(c, a)
  /\ check[c].pc = "done" => check[c].next \notin Selected(c)
FreshInv == identityOf \in [1..Accounts -> Identity] /\ \A c \in Check : Fresh(c)

\* Time and identities as a step of one check finds and leaves them.
Later ==
  /\ identityOf' = identityOf
  /\ \A i \in Identity : snapshots[i].at \in Int /\ snapshots'[i].at \in Int
                         /\ snapshots'[i].at >= snapshots[i].at

LEMMA LaterHolds ==
  ASSUME AdvanceInv, [ActivityNext]_activityVars
  PROVE  Later
<1>1. AdvanceInv' /\ \A i \in Identity : Advances(snapshots[i], snapshots'[i])
  BY AdvanceStep
<1>2. \A i \in Identity : snapshots'[i].at >= snapshots[i].at
  BY <1>1 DEF AdvanceInv, Advances, IsReading, NoSnapshot, Unknown
<1>3. \A i \in Identity : snapshots[i].at \in Int /\ snapshots'[i].at \in Int
  BY <1>1 DEF AdvanceInv, IsReading
<1>4. identityOf' = identityOf
  BY DEF ActivityNext, activityVars, Start, ReadAccount, SaveBegins, AcquireOrGiveUp, Commit,
         SaveFails, Finish, Tick, Damage
<1> QED BY <1>2, <1>3, <1>4 DEF Later

\* A check that does not move stays fresh.
LEMMA RestStaysFresh ==
  ASSUME FreshInv, Later, NEW d \in Check, check'[d] = check[d]
  PROVE  Fresh(d)'
<1>1. Fresh(d)
  BY DEF FreshInv
<1>2. \A a \in 1..(check[d].next - 1) : Shows(d, a) => Shows(d, a)'
  BY DEF Shows, Due, Later
<1>3. check[d].pc # "idle" =>
        \A i \in Identity : check[d].first[i].at \in Int /\ check[d].first[i].at <= snapshots'[i].at
  BY <1>1 DEF Fresh, Later
<1> QED BY <1>1, <1>2, <1>3 DEF Fresh, Later

\* What an account contributes has to be what is due of it.
LEMMA ContributesStaysFresh ==
  ASSUME AdvanceInv, FreshInv, Later, NEW c \in Check, NEW s, NEW problem,
         Contributes(c, s, problem), check[c].pc \in Saving \cup {"account"},
         Account(c) \in Selected(c), s.at \in Int, s.at >= Due(c, Account(c))
  PROVE  Fresh(c)'
<1> DEFINE changes ==
      [pc |-> "account", next |-> Account(c) + 1, reading |-> NoSnapshot,
       document |-> NoDocument, shown |-> [check[c].shown EXCEPT ![Account(c)] = s],
       troubled |-> check[c].troubled \/ problem # "none"]
<1>1. Set(c, changes)
  BY DEF Contributes
<1>2. DOMAIN changes = {"pc", "next", "reading", "document", "shown", "troubled"}
  OBVIOUS
<1>3. /\ changes.pc = "account" /\ changes.next = check[c].next + 1
      /\ changes.shown = [check[c].shown EXCEPT ![check[c].next] = s]
  BY DEF Account
<1>4. DOMAIN check[c] = Fields /\ DOMAIN check = Check
  BY DEF AdvanceInv, Knows
<1> HIDE DEF changes
<1>5. /\ \A f \in DOMAIN changes : check'[c][f] = changes[f]
      /\ \A f \in Fields \ DOMAIN changes : check'[c][f] = check[c][f]
  BY <1>1, <1>2, <1>4, SetFields DEF Fields
<1>6. /\ check'[c].pc = "account" /\ check'[c].next = check[c].next + 1
      /\ check'[c].shown = [check[c].shown EXCEPT ![check[c].next] = s]
      /\ check'[c].at = check[c].at /\ check'[c].first = check[c].first
      /\ check'[c].read = check[c].read /\ check'[c].refused = check[c].refused
  BY <1>2, <1>3, <1>5 DEF Fields
<1>7. Fresh(c) /\ check[c].next \in 1..Accounts /\ check[c].next \in Nat \ {0}
  BY ActivityAssumption DEF FreshInv, Fresh, Account, Selected
<1>8. \A a \in 1..Accounts : check'[c].shown[a] = IF a = check[c].next THEN s ELSE check[c].shown[a]
  BY <1>6, <1>7 DEF Fresh
<1>9. \A a : Due(c, a)' = Due(c, a)
  BY <1>6 DEF Due, Later
<1>10. ASSUME NEW a \in 1..(check'[c].next - 1) PROVE a \in check'[c].refused \/ Shows(c, a)'
  <2>1. a \in 1..Accounts
    BY <1>6, <1>7, <1>10, ActivityAssumption
  <2>2. CASE a = check[c].next
    BY <1>8, <1>9, <2>1, <2>2 DEF Shows, Account
  <2>3. CASE a # check[c].next
    <3>1. a \in 1..(check[c].next - 1)
      BY <1>6, <1>7, <1>10, <2>3
    <3>2. a \in check[c].refused \/ Shows(c, a)
      BY <1>7, <3>1 DEF Fresh
    <3> QED BY <1>6, <1>8, <1>9, <2>1, <2>3, <3>2 DEF Shows
  <2> QED BY <2>2, <2>3
<1>11. \A i \in Identity : check'[c].first[i].at \in Int /\ check'[c].first[i].at <= snapshots'[i].at
  BY <1>6, <1>7 DEF Fresh, Later, Saving
<1>12. \A a \in check'[c].read : a \in 1..(check'[c].next - 1)
  BY <1>6, <1>7 DEF Fresh
<1>13. DOMAIN check'[c].shown = 1..Accounts /\ check'[c].next \in Nat \ {0}
  BY <1>6, <1>7 DEF Fresh
<1> QED BY <1>6, <1>10, <1>11, <1>12, <1>13 DEF Fresh, Saving

LEMMA FreshInit == ActivityInit => FreshInv
<1> SUFFICES ASSUME ActivityInit PROVE FreshInv
  OBVIOUS
<1>1. ASSUME NEW c \in Check PROVE Fresh(c)
  <2>1. check[c] = Idle
    BY DEF ActivityInit
  <2> QED BY <2>1 DEF Fresh, Idle, Saving
<1> QED BY <1>1 DEF FreshInv, ActivityInit

LEMMA StartStaysFresh ==
  ASSUME AdvanceInv, FreshInv, Later, NEW c \in Check, Start(c)
  PROVE  Fresh(c)'
<1> DEFINE changes == [pc |-> "account", at |-> clock, first |-> snapshots]
<1>1. Set(c, changes) /\ check[c].pc = "idle"
  BY DEF Start
<1>2. /\ DOMAIN changes = {"pc", "at", "first"}
      /\ changes.pc = "account" /\ changes.first = snapshots
  OBVIOUS
<1>3. DOMAIN check[c] = Fields /\ DOMAIN check = Check
  BY DEF AdvanceInv, Knows
<1> HIDE DEF changes
<1>4. /\ \A f \in DOMAIN changes : check'[c][f] = changes[f]
      /\ \A f \in Fields \ DOMAIN changes : check'[c][f] = check[c][f]
  BY <1>1, <1>2, <1>3, SetFields DEF Fields
<1>5. /\ check'[c].pc = "account" /\ check'[c].first = snapshots
      /\ check'[c].next = check[c].next /\ check'[c].shown = check[c].shown
      /\ check'[c].read = check[c].read
  BY <1>2, <1>4 DEF Fields
<1>6. Fresh(c) /\ check[c].next = 1
  BY <1>1 DEF FreshInv, Fresh
<1> QED BY <1>1, <1>5, <1>6 DEF Fresh, Saving, Later

LEMMA LoadStaysFresh ==
  ASSUME AdvanceInv, FreshInv, Later, NEW c \in Check, NEW problem, LoadSnapshot(c, problem),
         check[c].pc = "account", Account(c) \in Selected(c)
  PROVE  Fresh(c)'
<1>1. Fresh(c) /\ check[c].next \in 1..Accounts
  <2>1. Fresh(c)
    BY DEF FreshInv
  <2>2. check[c].next \in 1..Saved[c]
    BY DEF Account, Selected
  <2>3. Saved[c] \in 0..Accounts /\ Accounts \in Nat
    BY ActivityAssumption
  <2> QED
    BY <2>1, <2>2, <2>3
<1>2. CASE damaged
  <2> DEFINE changes ==
        [pc |-> "account", next |-> Account(c) + 1,
         refused |-> check[c].refused \cup {Account(c)}, troubled |-> TRUE]
  <2>1. Set(c, changes)
    BY <1>2 DEF LoadSnapshot, Load
  <2>2. /\ DOMAIN changes = {"pc", "next", "refused", "troubled"} /\ changes.pc = "account"
        /\ changes.next = check[c].next + 1
        /\ changes.refused = check[c].refused \cup {check[c].next}
    BY DEF Account
  <2>3. DOMAIN check[c] = Fields /\ DOMAIN check = Check
    BY DEF AdvanceInv, Knows
  <2> HIDE DEF changes
  <2>4. /\ \A f \in DOMAIN changes : check'[c][f] = changes[f]
        /\ \A f \in Fields \ DOMAIN changes : check'[c][f] = check[c][f]
    BY <2>1, <2>2, <2>3, SetFields DEF Fields
  <2>5. /\ check'[c].pc = "account" /\ check'[c].next = check[c].next + 1
        /\ check'[c].refused = check[c].refused \cup {check[c].next}
        /\ check'[c].shown = check[c].shown /\ check'[c].at = check[c].at
        /\ check'[c].first = check[c].first /\ check'[c].read = check[c].read
    BY <2>2, <2>4 DEF Fields
  <2>6. \A a \in 1..(check[c].next - 1) : Shows(c, a) => Shows(c, a)'
    BY <2>5 DEF Shows, Due, Later
  <2>7. \A a \in 1..(check'[c].next - 1) : a = check[c].next \/ a \in 1..(check[c].next - 1)
    BY <1>1, <2>5 DEF Fresh
  <2>8. \A a \in 1..(check'[c].next - 1) : a \in check'[c].refused \/ Shows(c, a)'
    BY <1>1, <2>5, <2>6, <2>7 DEF Fresh
  <2>9. \A i \in Identity : check'[c].first[i].at \in Int /\ check'[c].first[i].at <= snapshots'[i].at
    BY <1>1, <2>5 DEF Fresh, Later
  <2>10. \A a \in check'[c].read : a \in 1..(check'[c].next - 1)
    BY <1>1, <2>5 DEF Fresh, Saving
  <2>11. DOMAIN check'[c].shown = 1..Accounts /\ check'[c].next \in Nat \ {0}
    BY <1>1, <2>5 DEF Fresh
  <2> QED BY <2>5, <2>8, <2>9, <2>10, <2>11 DEF Fresh, Saving
<1>3. CASE ~ damaged
  <2>1. Contributes(c, snapshots[IdentityAt(c)], problem)
    BY <1>3 DEF LoadSnapshot, Load
  <2>2. IdentityAt(c) \in Identity /\ Account(c) \notin check[c].read
    BY <1>1 DEF FreshInv, IdentityAt, Account, Fresh, Saving
  <2>3. snapshots[IdentityAt(c)].at \in Int /\ snapshots[IdentityAt(c)].at >= Due(c, Account(c))
    BY <1>1, <2>2 DEF Due, Fresh, IdentityAt, Later
  <2> QED BY <2>1, <2>3, ContributesStaysFresh
<1> QED BY <1>2, <1>3

LEMMA ReadStaysFresh ==
  ASSUME AdvanceInv, FreshInv, Later, NEW c \in Check, ReadAccount(c)
  PROVE  Fresh(c)'
<1>1. check[c].pc = "account" /\ Account(c) \in Selected(c) /\ Fresh(c)
  BY DEF ReadAccount, FreshInv
<1>2. CASE LoadSnapshot(c, "none")
  BY <1>1, <1>2, LoadStaysFresh
<1>3. CASE LoadSnapshot(c, "request")
  BY <1>1, <1>3, LoadStaysFresh
<1>4. ASSUME NEW s \in Profiles,
             Set(c, [pc |-> "save", reading |-> Snapshot(s, check[c].at),
                     read |-> check[c].read \cup {Account(c)}])
      PROVE  Fresh(c)'
  <2> DEFINE changes == [pc |-> "save", reading |-> Snapshot(s, check[c].at),
                         read |-> check[c].read \cup {Account(c)}]
  <2>1. Set(c, changes)
    BY <1>4
  <2>2. /\ DOMAIN changes = {"pc", "reading", "read"} /\ changes.pc = "save"
        /\ changes.reading.at = check[c].at /\ changes.read = check[c].read \cup {check[c].next}
    BY DEF Snapshot, Account
  <2>3. DOMAIN check[c] = Fields /\ DOMAIN check = Check
    BY DEF AdvanceInv, Knows
  <2> HIDE DEF changes
  <2>4. /\ \A f \in DOMAIN changes : check'[c][f] = changes[f]
        /\ \A f \in Fields \ DOMAIN changes : check'[c][f] = check[c][f]
    BY <2>1, <2>2, <2>3, SetFields DEF Fields
  <2>5. /\ check'[c].pc = "save" /\ check'[c].reading.at = check[c].at
        /\ check'[c].read = check[c].read \cup {check[c].next} /\ check'[c].next = check[c].next
        /\ check'[c].shown = check[c].shown /\ check'[c].at = check[c].at
        /\ check'[c].first = check[c].first /\ check'[c].refused = check[c].refused
    BY <2>2, <2>4 DEF Fields
  <2>6. \A a \in 1..(check[c].next - 1) : Shows(c, a) => Shows(c, a)'
    <3>1. \A a \in 1..(check[c].next - 1) : a # check[c].next
      BY <1>1 DEF Fresh
    <3> QED BY <2>5, <3>1 DEF Shows, Due, Later
  <2>7. \A i \in Identity : check'[c].first[i].at \in Int /\ check'[c].first[i].at <= snapshots'[i].at
    BY <1>1, <2>5 DEF Fresh, Later
  <2>8. \A a \in 1..(check'[c].next - 1) : a \in check'[c].refused \/ Shows(c, a)'
    BY <1>1, <2>5, <2>6 DEF Fresh
  <2>9. check'[c].next \in check'[c].read \cap Selected(c)
    BY <1>1, <2>5 DEF Account
  <2>10. \A a \in check'[c].read : a \in 1..(check'[c].next - 1) \/ a = check'[c].next
    BY <1>1, <2>5 DEF Fresh, Saving
  <2> QED BY <1>1, <2>5, <2>7, <2>8, <2>9, <2>10 DEF Fresh, Saving, Selected
<1> QED BY <1>2, <1>3, <1>4 DEF ReadAccount

\* A step within the save of an account moves the program counter and the
\* document in hand.
LEMMA SaveStaysFresh ==
  ASSUME AdvanceInv, FreshInv, Later, NEW c \in Check, NEW changes, Set(c, changes),
         check[c].pc \in Saving, changes.pc \in Saving,
         "pc" \in DOMAIN changes, DOMAIN changes \subseteq {"pc", "document"}
  PROVE  Fresh(c)'
<1>1. DOMAIN check[c] = Fields /\ DOMAIN check = Check /\ Fresh(c)
  BY DEF AdvanceInv, Knows, FreshInv
<1>2. /\ \A f \in DOMAIN changes : check'[c][f] = changes[f]
      /\ \A f \in Fields \ DOMAIN changes : check'[c][f] = check[c][f]
  BY <1>1, SetFields DEF Fields
<1>3. /\ check'[c].pc \in Saving /\ check'[c].reading = check[c].reading
      /\ check'[c].read = check[c].read /\ check'[c].next = check[c].next
      /\ check'[c].shown = check[c].shown /\ check'[c].at = check[c].at
      /\ check'[c].first = check[c].first /\ check'[c].refused = check[c].refused
  BY <1>2 DEF Fields
<1>4. \A a \in 1..(check[c].next - 1) : Shows(c, a) => Shows(c, a)'
  BY <1>3 DEF Shows, Due, Later
<1>5. \A i \in Identity : check'[c].first[i].at \in Int /\ check'[c].first[i].at <= snapshots'[i].at
  BY <1>1, <1>3 DEF Fresh, Later, Saving
<1> QED BY <1>1, <1>3, <1>4, <1>5 DEF Fresh, Saving, Selected

LEMMA SaveBeginsStaysFresh ==
  ASSUME AdvanceInv, FreshInv, Later, NEW c \in Check, SaveBegins(c)
  PROVE  Fresh(c)'
<1>1. check[c].pc \in Saving
  BY DEF SaveBegins, AcquireOrGiveUp, Saving
<1>2. CASE Set(c, [pc |-> "failed"])
  <2> DEFINE changes == [pc |-> "failed"]
  <2>1. Set(c, changes) /\ DOMAIN changes = {"pc"} /\ changes.pc \in Saving
    BY <1>2 DEF Saving
  <2> HIDE DEF changes
  <2> QED BY <1>1, <2>1, SaveStaysFresh
<1>3. CASE Set(c, [pc |-> "commit", document |-> snapshots])
  <2> DEFINE changes == [pc |-> "commit", document |-> snapshots]
  <2>1. Set(c, changes) /\ DOMAIN changes = {"pc", "document"} /\ changes.pc \in Saving
    BY <1>3 DEF Saving
  <2> HIDE DEF changes
  <2> QED BY <1>1, <2>1, SaveStaysFresh
<1> QED BY <1>2, <1>3 DEF SaveBegins, AcquireOrGiveUp

\* A merge is no older than what came in.
LEMMA MergeIsFresh ==
  ASSUME NEW current, NEW incoming, IsReading(current), IsReading(incoming)
  PROVE  Merged(current, incoming).at \in Int /\ Merged(current, incoming).at >= incoming.at
BY DEF IsReading, Merged, Merge, NoSnapshot, Unknown

LEMMA CommitStaysFresh ==
  ASSUME AdvanceInv, FreshInv, Later, NEW c \in Check, Commit(c)
  PROVE  Fresh(c)'
<1> DEFINE effective == Merged(check[c].document[IdentityAt(c)], check[c].reading)
<1>1. check[c].pc \in Saving /\ Fresh(c)
  BY DEF Commit, Saving, FreshInv
<1>2. CASE Set(c, [pc |-> "failed"])
  <2> DEFINE changes == [pc |-> "failed"]
  <2>1. Set(c, changes) /\ DOMAIN changes = {"pc"} /\ changes.pc \in Saving
    BY <1>2 DEF Saving
  <2> HIDE DEF changes
  <2> QED BY <1>1, <2>1, SaveStaysFresh
<1>3. CASE Contributes(c, effective, "none")
  <2>1. Account(c) \in Selected(c) /\ Due(c, Account(c)) = check[c].reading.at
    BY <1>1 DEF Fresh, Account, Due
  <2>2. IdentityAt(c) \in Identity
    BY <2>1, ActivityAssumption DEF FreshInv, IdentityAt, Selected, Account
  <2>3. IsReading(check[c].document[IdentityAt(c)]) /\ IsReading(check[c].reading)
    BY <2>2 DEF AdvanceInv, Holds, Knows, Commit
  <2>4. effective.at \in Int /\ effective.at >= check[c].reading.at
    BY <2>3, MergeIsFresh
  <2> HIDE DEF effective
  <2> QED BY <1>1, <1>3, <2>1, <2>4, ContributesStaysFresh
<1> QED BY <1>2, <1>3 DEF Commit

LEMMA SaveFailsStaysFresh ==
  ASSUME AdvanceInv, FreshInv, Later, NEW c \in Check, SaveFails(c)
  PROVE  Fresh(c)'
<1>1. check[c].pc \in Saving /\ Contributes(c, check[c].reading, "snapshot") /\ Fresh(c)
  BY DEF SaveFails, Saving, FreshInv
<1>2. /\ Account(c) \in Selected(c) /\ Due(c, Account(c)) = check[c].reading.at
      /\ check[c].reading.at \in Int
  BY <1>1 DEF Fresh, Account, Due, AdvanceInv, Knows, IsReading
<1> QED BY <1>1, <1>2, ContributesStaysFresh

LEMMA FinishStaysFresh ==
  ASSUME AdvanceInv, FreshInv, Later, NEW c \in Check, Finish(c)
  PROVE  Fresh(c)'
<1> DEFINE changes == [pc |-> "done", report |-> Report(c)]
<1>1. Set(c, changes) /\ check[c].pc = "account" /\ check[c].next \notin Selected(c) /\ Fresh(c)
  BY DEF Finish, Account, FreshInv
<1>2. DOMAIN changes = {"pc", "report"} /\ changes.pc = "done"
  OBVIOUS
<1>3. DOMAIN check[c] = Fields /\ DOMAIN check = Check
  BY DEF AdvanceInv, Knows
<1> HIDE DEF changes
<1>4. /\ \A f \in DOMAIN changes : check'[c][f] = changes[f]
      /\ \A f \in Fields \ DOMAIN changes : check'[c][f] = check[c][f]
  BY <1>1, <1>2, <1>3, SetFields DEF Fields
<1>5. /\ check'[c].pc = "done" /\ check'[c].read = check[c].read
      /\ check'[c].next = check[c].next /\ check'[c].shown = check[c].shown
      /\ check'[c].at = check[c].at /\ check'[c].first = check[c].first
      /\ check'[c].refused = check[c].refused
  BY <1>2, <1>4 DEF Fields
<1>6. \A a \in 1..(check[c].next - 1) : Shows(c, a) => Shows(c, a)'
  BY <1>5 DEF Shows, Due, Later
<1>7. \A i \in Identity : check'[c].first[i].at \in Int /\ check'[c].first[i].at <= snapshots'[i].at
  BY <1>1, <1>5 DEF Fresh, Later
<1> QED BY <1>1, <1>5, <1>6, <1>7 DEF Fresh, Saving, Selected

LEMMA FreshStep == AdvanceInv /\ FreshInv /\ [ActivityNext]_activityVars => FreshInv'
<1> SUFFICES ASSUME AdvanceInv, FreshInv, [ActivityNext]_activityVars PROVE FreshInv'
  OBVIOUS
<1>1. Later
  BY LaterHolds
<1>2. ASSUME NEW c \in Check, Fresh(c)', \A d \in Check \ {c} : check'[d] = check[d]
      PROVE  FreshInv'
  <2>1. \A d \in Check \ {c} : Fresh(d)'
    BY <1>1, <1>2, RestStaysFresh
  <2> QED BY <1>1, <1>2, <2>1 DEF FreshInv, Later
<1>3. ASSUME NEW c \in Check,
             \/ Start(c) \/ ReadAccount(c) \/ SaveBegins(c)
             \/ Commit(c) \/ SaveFails(c) \/ Finish(c)
      PROVE  FreshInv'
  <2>1. Fresh(c)'
    BY <1>1, <1>3, StartStaysFresh, ReadStaysFresh, SaveBeginsStaysFresh, CommitStaysFresh,
       SaveFailsStaysFresh, FinishStaysFresh
  <2>2. \A d \in Check \ {c} : check'[d] = check[d]
    BY <1>3 DEF AdvanceInv, Start, ReadAccount, SaveBegins, AcquireOrGiveUp, Commit, SaveFails, Finish,
                LoadSnapshot, Load, Contributes, Set
  <2> QED BY <1>2, <2>1, <2>2
<1>4. CASE Tick \/ Damage \/ UNCHANGED activityVars
  <2>1. check' = check
    BY <1>4 DEF Tick, Damage, activityVars
  <2>2. \A d \in Check : Fresh(d)'
    BY <1>1, <2>1, RestStaysFresh
  <2> QED BY <1>1, <2>2 DEF FreshInv, Later
<1> QED BY <1>3, <1>4 DEF ActivityNext

\* A check shows an account nothing older than what was durable when it began,
\* and nothing older than its own start where the provider answered, though
\* requests are rejected, saves fail and other checks save meanwhile (collect
\* in usage/activity.py).
THEOREM ShownNotStaleHolds == ActivityInit /\ [][ActivityNext]_activityVars => []ShownNotStale
<1>1. FreshInv => ShownNotStale
  <2> SUFFICES ASSUME FreshInv, NEW c \in Check, check[c].pc = "done",
                      NEW a \in Selected(c) \ check[c].refused
               PROVE  check[c].shown[a].at >= Due(c, a)
    BY DEF ShownNotStale, Due
  <2>1. Fresh(c) /\ a \in 1..(check[c].next - 1)
    BY ActivityAssumption DEF FreshInv, Fresh, Selected
  <2> QED BY <2>1 DEF Fresh, Shows
<1> QED BY <1>1, ActivityInvariance, FreshInit, FreshStep, PTL
-----------------------------------------------------------------------------
(* Sequences.                                                              *)

\* What a concatenation has at each place.
LEMMA ConcatIs ==
  ASSUME NEW S, NEW s \in Seq(S), NEW t \in Seq(S)
  PROVE  /\ s \o t \in Seq(S) /\ Len(s \o t) = Len(s) + Len(t)
         /\ \A i \in 1..(Len(s) + Len(t)) : (s \o t)[i] = IF i <= Len(s) THEN s[i] ELSE t[i - Len(s)]
OBVIOUS

\* What is left of a sequence when a part of it is taken out.
Without(text, b, e) == SubSeq(text, 1, b - 1) \o SubSeq(text, e + 1, Len(text))

LEMMA WithoutIs ==
  ASSUME NEW S, NEW text \in Seq(S), NEW b \in 1..Len(text), NEW e \in 1..Len(text), b < e
  PROVE  /\ Without(text, b, e) \in Seq(S) /\ Len(Without(text, b, e)) = Len(text) - (e - b + 1)
         /\ \A i \in 1..Len(Without(text, b, e)) :
              Without(text, b, e)[i] = IF i < b THEN text[i] ELSE text[i + (e - b + 1)]
<1> DEFINE n == Len(text)
           s == SubSeq(text, 1, b - 1)
           t == SubSeq(text, e + 1, n)
           r == Without(text, b, e)
           d == e - b + 1
<1>1. n \in Nat /\ d \in Nat /\ (b - 1) + (n - e) = n - d
  OBVIOUS
<1>2. s \in Seq(S) /\ Len(s) = b - 1 /\ \A i \in 1..(b - 1) : s[i] = text[i]
  OBVIOUS
<1>3. t \in Seq(S) /\ Len(t) = n - e /\ \A i \in 1..(n - e) : t[i] = text[e + i]
  OBVIOUS
<1>4. r = s \o t /\ n = Len(text) /\ d = e - b + 1
  BY DEF Without
<1> HIDE DEF r, s, t, d, n
<1>5. Len(s) + Len(t) = n - d
  BY <1>1, <1>2, <1>3
<1>6. /\ r \in Seq(S) /\ Len(r) = n - d
      /\ \A i \in 1..(n - d) : r[i] = IF i <= b - 1 THEN s[i] ELSE t[i - (b - 1)]
  <2>1. /\ s \o t \in Seq(S) /\ Len(s \o t) = Len(s) + Len(t)
        /\ \A i \in 1..(Len(s) + Len(t)) : (s \o t)[i] = IF i <= Len(s) THEN s[i] ELSE t[i - Len(s)]
    BY <1>2, <1>3, ConcatIs
  <2> QED BY <1>2, <1>4, <1>5, <2>1
<1>7. ASSUME NEW i \in 1..(n - d), i < b PROVE r[i] = text[i]
  <2>1. i \in 1..(b - 1) /\ i <= b - 1
    BY <1>1, <1>7
  <2>2. r[i] = s[i]
    BY <1>6, <2>1
  <2>3. s[i] = text[i]
    BY <1>2, <2>1
  <2> QED BY <2>2, <2>3
<1>8. ASSUME NEW i \in 1..(n - d), ~(i < b) PROVE r[i] = text[i + d]
  <2> DEFINE k == i - (b - 1)
  <2>1. k \in 1..(n - e) /\ e + k = i + d /\ ~(i <= b - 1)
    BY <1>1, <1>4, <1>8
  <2>2. r[i] = t[k]
    BY <1>6, <2>1
  <2> HIDE DEF k
  <2>3. t[k] = text[e + k]
    BY <1>3, <2>1
  <2> QED BY <2>1, <2>2, <2>3
<1>9. \A i \in 1..Len(r) : r[i] = IF i < b THEN text[i] ELSE text[i + d]
  BY <1>6, <1>7, <1>8
<1> QED BY <1>4, <1>6, <1>9 DEF r

-----------------------------------------------------------------------------
(* Scheduler: the state, and what is true of it.                           *)

USE SchedulerAssumption

\* A line of the crontab, and the steps of a daemon command.
Line == Entry \cup {"begin", "job", "end"}
Steps ==
  {"idle", "write service", "write timer", "reload", "enable", "disable", "unlink service",
   "unlink timer", "reload last", "list", "write", "write plist", "bootstrap", "kickstart",
   "bootout", "unlink plist", "register", "unregister"}
Commanding ==
  [op : {"none", "install", "uninstall"}, backend : Backends \cup {"none"}, at : Steps,
   text : Seq(Line), listed : BOOLEAN]
SystemdKnows == [loaded : BOOLEAN, enabled : BOOLEAN, active : BOOLEAN]
Assessed ==
  [left : Seq(Backends), states : Seq({"absent", "installed", "unassessable"}),
   verdict : {"none", "running", "quiescent", "write blocked"}]
SchedulerTyped ==
  /\ host \in Hosts
  /\ files \subseteq {"service", "timer", "plist"}
  /\ systemd \in SystemdKnows
  /\ launchd \in BOOLEAN /\ task \in BOOLEAN
  /\ crontab \in Seq(Line)
  /\ daemon \in Commanding
  /\ assessment \in Assessed

\* What runs by itself is run by a scheduler the host has; a job of the crontab
\* is told from the user's lines by a marker.
Held ==
  /\ Marked(crontab) /\ Marked(daemon.text)
  /\ systemd.enabled \/ systemd.active \/ daemon.at = "enable" => Present("systemd")
  /\ First(crontab, "job") # 0 \/ daemon.at = "write" => Present("cron")
  /\ launchd => Present("launchd")
  /\ task => Present("task-scheduler")

\* What was observed to be absent is not running, unless the schedule has
\* changed since; what is left to assess is the rest of the list.
Assessing ==
  LET states == assessment.states
      left == assessment.left
  IN /\ assessment.verdict # "running" => left = <<>>
     /\ assessment.verdict = "running" =>
          /\ Len(states) + Len(left) = Len(ApplicableBackends)
          /\ \A i \in 1..Len(left) : left[i] = ApplicableBackends[Len(states) + i]
          /\ ~touched => \A i \in 1..Len(states) : states[i] = "absent" => ~Running(ApplicableBackends[i])
     /\ assessment.verdict = "quiescent" /\ ~touched => \A b \in Backends : ~Running(b)

SchedulerInv == SchedulerTyped /\ Held /\ Assessing

-----------------------------------------------------------------------------
(* The text of a crontab.                                                  *)

\* The least of a set of numbers exists: what SelectInSeq chooses.
LessNat == {p \in Nat \X Nat : p[1] < p[2]}

LEMMA LessNatWellFounded == IsWellFoundedOn(LessNat, Nat)
<1>1. OpToRel(<, Nat) = LessNat
  BY DEF OpToRel, LessNat
<1> QED BY <1>1, NatLessThanWellFounded

LEMMA Least == ASSUME NEW I \in SUBSET Nat, I # {} PROVE \E x \in I : \A y \in I : x <= y
<1>1. PICK x \in I : \A y \in I : <<y, x>> \notin LessNat
  BY LessNatWellFounded, WFMin
<1>2. ASSUME NEW y \in I PROVE x <= y
  <2>1. <<y, x>> \in Nat \X Nat /\ <<y, x>>[1] = y /\ <<y, x>>[2] = x
    OBVIOUS
  <2>2. ~(y < x)
    BY <1>1, <2>1 DEF LessNat
  <2> QED BY <2>2
<1> QED BY <1>2

\* First finds the first line that is the mark.
LEMMA FirstIs ==
  ASSUME NEW S, NEW text \in Seq(S), NEW mark
  PROVE \/ First(text, mark) = 0 /\ \A i \in 1..Len(text) : text[i] # mark
        \/ /\ First(text, mark) \in 1..Len(text) /\ text[First(text, mark)] = mark
           /\ \A i \in 1..Len(text) : text[i] = mark => First(text, mark) <= i
<1> DEFINE I == {i \in 1..Len(text) : text[i] = mark}
<1>1. First(text, mark) = IF I # {} THEN CHOOSE x \in I : \A y \in I : x =< y ELSE 0
  BY DEF First, SelectInSeq, Min
<1>2. I \in SUBSET Nat
  OBVIOUS
<1>3. I # {} => \E x \in I : \A y \in I : x =< y
  <2> HIDE DEF I
  <2> QED BY <1>2, Least
<1> QED BY <1>1, <1>3

\* Marked, line by line.
LEMMA MarkedIs ==
  ASSUME NEW S, NEW text \in Seq(S)
  PROVE  Marked(text) <=>
           \A i \in 1..Len(text) : text[i] = "job" =>
             \/ i - 1 \in 1..Len(text) /\ text[i - 1] = "begin"
             \/ i + 1 \in 1..Len(text) /\ text[i + 1] = "end"
<1>1. DOMAIN text = 1..Len(text)
  OBVIOUS
<1> QED BY <1>1 DEF Marked

\* Where a job is left, one of the markers _observe_cron looks for is.
LEMMA MarkedJobHasMarker ==
  ASSUME NEW text \in Seq(Line), Marked(text), First(text, "job") # 0
  PROVE  First(text, "begin") # 0 \/ First(text, "end") # 0
<1>1. PICK i \in 1..Len(text) : text[i] = "job"
  BY FirstIs
<1>2. \E j \in 1..Len(text) : text[j] = "begin" \/ text[j] = "end"
  BY <1>1, MarkedIs
<1> QED BY <1>2, FirstIs

\* What cutting a block out leaves, line by line (_remove_marked_block).
LEMMA CutIs ==
  ASSUME NEW text \in Seq(Line), NEW b, NEW e, b = First(text, "begin"), e = First(text, "end"),
         ~(b = 0 \/ e = 0 \/ e < b)
  PROVE  /\ b \in 1..Len(text) /\ e \in 1..Len(text) /\ text[b] = "begin" /\ text[e] = "end" /\ b < e
         /\ Cut(text) = Without(text, b, e)
<1>1. b \in 1..Len(text) /\ e \in 1..Len(text) /\ text[b] = "begin" /\ text[e] = "end" /\ b < e
  <2>1. b = 0 \/ (b \in 1..Len(text) /\ text[b] = "begin")
    BY FirstIs
  <2>2. e = 0 \/ (e \in 1..Len(text) /\ text[e] = "end")
    BY FirstIs
  <2> QED BY <2>1, <2>2
<1>2. Cut(text) = Without(text, b, e)
  BY DEF Cut, Without
<1> QED BY <1>1, <1>2

\* What is left of a crontab when a block is cut out of it has its markers.
LEMMA CutMarked ==
  ASSUME NEW text \in Seq(Line), Marked(text)
  PROVE  Cut(text) \in Seq(Line) /\ Marked(Cut(text))
<1> DEFINE b == First(text, "begin")
           e == First(text, "end")
           n == Len(text)
           r == Without(text, b, e)
           d == e - b + 1
<1>1. CASE b = 0 \/ e = 0 \/ e < b
  BY <1>1 DEF Cut
<1>2. CASE ~(b = 0 \/ e = 0 \/ e < b)
  <2> HIDE DEF b, e
  <2>1. b \in 1..n /\ e \in 1..n /\ text[b] = "begin" /\ text[e] = "end" /\ b < e
    BY <1>2, CutIs DEF b, e
  <2>2. Cut(text) = r
    BY <1>2, CutIs DEF b, e
  <2>3. n \in Nat /\ d \in Nat /\ d = e - b + 1 /\ b + d = e + 1
    <3>1. n \in Nat /\ b \in 1..n /\ e \in 1..n /\ b < e
      BY <2>1
    <3> HIDE DEF n
    <3> QED BY <3>1
  <2>4. /\ r \in Seq(Line) /\ Len(r) = n - d
        /\ \A i \in 1..Len(r) : r[i] = IF i < b THEN text[i] ELSE text[i + d]
    BY <2>1, WithoutIs
  <2> HIDE DEF d, n, r
  <2>5. ASSUME NEW i \in 1..Len(r), r[i] = "job"
        PROVE  \/ i - 1 \in 1..Len(r) /\ r[i - 1] = "begin"
               \/ i + 1 \in 1..Len(r) /\ r[i + 1] = "end"
    <3>1. \A j \in 1..n : text[j] = "job" =>
            (j - 1 \in 1..n /\ text[j - 1] = "begin") \/ (j + 1 \in 1..n /\ text[j + 1] = "end")
      BY MarkedIs DEF n
    <3>2. CASE i < b
      <4>1. i \in 1..n /\ text[i] = "job"
        <5>1. i \in Nat \ {0} /\ n \in Nat /\ b \in 1..n
          BY <2>1, <2>3, <2>4
        <5>2. i \in 1..n
          BY <3>2, <5>1
        <5>3. r[i] = text[i]
          BY <2>4, <3>2
        <5> QED BY <2>5, <5>2, <5>3
      <4>2. CASE i - 1 \in 1..n /\ text[i - 1] = "begin"
        <5>1. i \in Nat /\ b \in Nat /\ Len(r) \in Nat
          BY <2>1, <2>4
        <5>2. i - 1 \in 1..Len(r) /\ i - 1 < b
          BY <3>2, <4>2, <5>1
        <5> QED BY <2>4, <4>2, <5>2
      <4>3. CASE i + 1 \in 1..n /\ text[i + 1] = "end"
        <5>1. i + 1 # b
          BY <2>1, <4>3
        <5>2. b \in Nat /\ e \in Nat /\ e <= n /\ b < e
          BY <2>1, <2>3
        <5>3. i + 1 \in 1..Len(r) /\ i + 1 < b
          BY <2>3, <2>4, <3>2, <5>1, <5>2
        <5> QED BY <2>4, <4>3, <5>3
      <4> QED BY <3>1, <4>1, <4>2, <4>3
    <3>3. CASE i >= b
      <4>0. i \in 1..(n - d)
        BY <2>4, <2>5
      <4>1. i + d \in 1..n /\ text[i + d] = "job"
        <5>1. i + d \in 1..n
          BY <2>3, <4>0
        <5>2. r[i] = text[i + d]
          BY <2>1, <2>4, <3>3
        <5> QED BY <2>5, <5>1, <5>2
      <4>2. CASE (i + d) - 1 \in 1..n /\ text[(i + d) - 1] = "begin"
        <5>1. (i + d) - 1 # e
          BY <2>1, <4>2
        <5>2. i - 1 >= b /\ i - 1 \in 1..Len(r) /\ (i - 1) + d = (i + d) - 1
          BY <2>1, <2>3, <2>4, <3>3, <5>1
        <5> QED BY <2>1, <2>4, <4>2, <5>2
      <4>3. CASE (i + d) + 1 \in 1..n /\ text[(i + d) + 1] = "end"
        <5>1. i + 1 \in 1..Len(r) /\ ~(i + 1 < b) /\ (i + 1) + d = (i + d) + 1
          BY <2>1, <2>3, <2>4, <3>3, <4>3
        <5> QED BY <2>4, <4>3, <5>1
      <4> QED BY <3>1, <4>1, <4>2, <4>3
    <3> QED BY <2>1, <2>3, <3>2, <3>3
  <2>6. Marked(r)
    BY <2>4, <2>5, MarkedIs
  <2> QED BY <2>2, <2>4, <2>6
<1> QED BY <1>1, <1>2

LEMMA BlockMarked ==
  ASSUME NEW text \in Seq(Line), Marked(text)
  PROVE  text \o CronBlock \in Seq(Line) /\ Marked(text \o CronBlock)
<1> DEFINE r == text \o CronBlock
           n == Len(text)
<1>1. CronBlock \in Seq(Line) /\ Len(CronBlock) = 3 /\ CronBlock[1] = "begin"
      /\ CronBlock[2] = "job" /\ CronBlock[3] = "end"
  BY DEF CronBlock, Line
<1>2. /\ r \in Seq(Line) /\ Len(r) = n + 3 /\ \A i \in 1..n : r[i] = text[i]
      /\ r[n + 1] = "begin" /\ r[n + 2] = "job" /\ r[n + 3] = "end"
  <2> HIDE DEF CronBlock
  <2>1. /\ r \in Seq(Line) /\ Len(r) = n + 3
        /\ \A i \in 1..(n + 3) : r[i] = IF i <= n THEN text[i] ELSE CronBlock[i - n]
    <3>1. Len(text) + Len(CronBlock) = n + 3
      BY <1>1
    <3>2. /\ r \in Seq(Line) /\ Len(r) = Len(text) + Len(CronBlock)
          /\ \A i \in 1..(Len(text) + Len(CronBlock)) :
               r[i] = IF i <= Len(text) THEN text[i] ELSE CronBlock[i - Len(text)]
      BY <1>1, ConcatIs
    <3> QED BY <3>1, <3>2
  <2>2. n \in Nat
    OBVIOUS
  <2> HIDE DEF r, n
  <2>3. \A i \in 1..n : r[i] = text[i]
    BY <2>1, <2>2
  <2>4. ASSUME NEW k \in {1, 2, 3} PROVE r[n + k] = CronBlock[k]
    <3>1. n + k \in 1..(n + 3) /\ ~(n + k <= n) /\ (n + k) - n = k
      BY <2>2
    <3> QED BY <2>1, <3>1
  <2> QED BY <1>1, <2>1, <2>3, <2>4
<1> HIDE DEF r
<1>3. ASSUME NEW i \in 1..Len(r), r[i] = "job"
      PROVE  \/ i - 1 \in 1..Len(r) /\ r[i - 1] = "begin"
             \/ i + 1 \in 1..Len(r) /\ r[i + 1] = "end"
  <2>1. CASE i \in 1..n
    <3>1. \/ i - 1 \in 1..n /\ text[i - 1] = "begin"
          \/ i + 1 \in 1..n /\ text[i + 1] = "end"
      BY <1>2, <1>3, <2>1, MarkedIs
    <3>2. n \in Nat
      OBVIOUS
    <3> HIDE DEF n
    <3> QED BY <1>2, <3>1, <3>2
  <2>2. CASE i > n
    BY <1>2, <1>3, <2>2
  <2> QED BY <2>1, <2>2
<1>4. Marked(r)
  BY <1>2, <1>3, MarkedIs
<1> QED BY <1>2, <1>4 DEF r

\* What install and uninstall write is marked if what they read was.
LEMMA UpdatedMarked ==
  ASSUME NEW text \in Seq(Line), Marked(text), NEW op
  PROVE  Updated(op, text) \in Seq(Line) /\ Marked(Updated(op, text))
BY CutMarked, BlockMarked DEF Updated, ReplaceMarkedBlock, RemoveMarkedBlock

LEMMA EmptyMarked ==
  ASSUME NEW S, NEW text \in Seq(S), Len(text) = 0
  PROVE  Marked(text) /\ First(text, "job") = 0
<1>1. \A i \in 1..Len(text) : FALSE
  OBVIOUS
<1>2. Marked(text)
  BY <1>1, MarkedIs
<1>3. First(text, "job") = 0
  BY <1>1, FirstIs
<1> QED BY <1>2, <1>3

\* A text has the lines that it has.
LEMMA SameAsItself ==
  ASSUME NEW text
  PROVE  SameUserLines(text, text)
<1> DEFINE from == {i \in DOMAIN text : text[i] \in Entry}
           place == [i \in from |-> i]
<1>1. place \in [from -> from]
  OBVIOUS
<1>2. from = {place[i] : i \in from}
  OBVIOUS
<1> QED
  BY <1>1, <1>2 DEF SameUserLines

\* The block that is appended is no line of the user's.
LEMMA BlockKeepsLines ==
  ASSUME NEW old, NEW text \in Seq(Line), SameUserLines(old, text)
  PROVE  SameUserLines(old, text \o CronBlock)
<1> DEFINE new == text \o CronBlock
           to == {j \in DOMAIN text : text[j] \in Entry}
           ends == {j \in DOMAIN new : new[j] \in Entry}
<1>1. CronBlock \in Seq(Line) /\ Len(CronBlock) = 3 /\ \A i \in 1..3 : CronBlock[i] \notin Entry
  BY DEF CronBlock, Line
<1>2. /\ new \in Seq(Line) /\ Len(new) = Len(text) + 3
      /\ \A i \in 1..(Len(text) + 3) : new[i] = IF i <= Len(text) THEN text[i] ELSE CronBlock[i - Len(text)]
  <2> HIDE DEF CronBlock
  <2>1. Len(text) + Len(CronBlock) = Len(text) + 3
    BY <1>1
  <2> QED
    BY <1>1, <2>1, ConcatIs
<1>3. DOMAIN text = 1..Len(text) /\ DOMAIN new = 1..(Len(text) + 3) /\ Len(text) \in Nat
  BY <1>2
<1> HIDE DEF new
<1>4. \A j \in 1..Len(text) : new[j] = text[j]
  BY <1>2, <1>3
<1>5. \A j \in DOMAIN new : j \in 1..Len(text) \/ new[j] \notin Entry
  <2> SUFFICES ASSUME NEW j \in DOMAIN new, j \notin 1..Len(text) PROVE new[j] \notin Entry
    OBVIOUS
  <2>1. j - Len(text) \in 1..3 /\ new[j] = CronBlock[j - Len(text)]
    BY <1>2, <1>3
  <2> QED
    BY <1>1, <2>1
<1>6. ends = to /\ \A j \in to : new[j] = text[j]
  BY <1>3, <1>4, <1>5
<1> DEFINE from == {i \in DOMAIN old : old[i] \in Entry}
<1>7. PICK place \in [from -> to] :
        /\ \A i \in from : text[place[i]] = old[i]
        /\ \A i, j \in from : i < j => place[i] < place[j]
        /\ to = {place[i] : i \in from}
  BY DEF SameUserLines
<1>8. /\ place \in [from -> ends] /\ ends = {place[i] : i \in from}
      /\ \A i \in from : new[place[i]] = old[i]
      /\ \A i, j \in from : i < j => place[i] < place[j]
  BY <1>6, <1>7
<1>9. SameUserLines(old, new)
  BY <1>8 DEF SameUserLines
<1> QED
  BY <1>9 DEF new

\* Cutting leaves the lines of a crontab that the program alone has marked.
LEMMA CutKeepsLines ==
  ASSUME NEW text \in Seq(Line), WellMarked(text)
  PROVE  SameUserLines(text, Cut(text))
<1> DEFINE n == Len(text)
<1>1. DOMAIN text = 1..n /\ n \in Nat
  OBVIOUS
<1>2. CASE \A i \in DOMAIN text : text[i] \in Entry
  <2>1. First(text, "begin") = 0
    BY <1>1, <1>2, FirstIs
  <2>2. Cut(text) = text
    BY <2>1 DEF Cut
  <2> QED
    BY <2>2, SameAsItself
<1>3. ASSUME NEW b \in DOMAIN text, b + 2 \in DOMAIN text, SubSeq(text, b, b + 2) = CronBlock,
             \A j \in DOMAIN text \ (b .. (b + 2)) : text[j] \in Entry
      PROVE  SameUserLines(text, Cut(text))
  <2>1. text[b] = "begin" /\ text[b + 1] = "job" /\ text[b + 2] = "end" /\ b + 1 \in 1..n
    <3>1. b \in 1..n /\ b + 2 \in 1..n
      BY <1>1, <1>3
    <3> DEFINE s == SubSeq(text, b, b + 2)
    <3>2. s[1] = text[b] /\ s[2] = text[b + 1] /\ s[3] = text[b + 2]
      BY <3>1
    <3>3. CronBlock[1] = "begin" /\ CronBlock[2] = "job" /\ CronBlock[3] = "end"
      BY DEF CronBlock
    <3>4. s = CronBlock
      BY <1>3
    <3>5. b + 1 \in 1..n
      BY <1>1, <3>1
    <3> HIDE DEF s
    <3> QED
      BY <3>2, <3>3, <3>4, <3>5
  <2>2. \A j \in 1..n : (text[j] = "begin" => j = b) /\ (text[j] = "end" => j = b + 2)
    <3> SUFFICES ASSUME NEW j \in 1..n, text[j] \in {"begin", "end"}
                 PROVE  (text[j] = "begin" => j = b) /\ (text[j] = "end" => j = b + 2)
      OBVIOUS
    <3>1. text[j] \notin Entry
      OBVIOUS
    <3>2. j \in b .. (b + 2)
      BY <1>1, <1>3, <3>1
    <3>3. j = b \/ j = b + 1 \/ j = b + 2
      BY <1>1, <3>2
    <3> QED
      BY <2>1, <3>3
  <2>3. First(text, "begin") = b /\ First(text, "end") = b + 2
    BY <1>1, <1>3, <2>1, <2>2, FirstIs
  <2> DEFINE r == Without(text, b, b + 2)
  <2>0. Cut(text) = r
    <3>1. ~(b = 0 \/ b + 2 = 0 \/ b + 2 < b)
      BY <1>1, <1>3
    <3> QED
      BY <2>3, <3>1, CutIs
  <2>4. /\ r \in Seq(Line) /\ Len(r) = n - 3
        /\ \A i \in 1..Len(r) : r[i] = IF i < b THEN text[i] ELSE text[i + 3]
    <3> DEFINE e == b + 2
    <3>1. e - b + 1 = 3 /\ b < e /\ b \in 1..n /\ e \in 1..n /\ r = Without(text, b, e)
      BY <1>1, <1>3
    <3> HIDE DEF e, r
    <3>2. /\ Without(text, b, e) \in Seq(Line) /\ Len(Without(text, b, e)) = n - (e - b + 1)
          /\ \A i \in 1..Len(Without(text, b, e)) :
               Without(text, b, e)[i] = IF i < b THEN text[i] ELSE text[i + (e - b + 1)]
      <4>1. b \in 1..Len(text) /\ e \in 1..Len(text) /\ b < e /\ n = Len(text)
        BY <3>1
      <4> HIDE DEF n
      <4>2. Without(text, b, e) \in Seq(Line) /\ Len(Without(text, b, e)) = Len(text) - (e - b + 1)
        BY <4>1, WithoutIs
      <4>3. \A i \in 1..Len(Without(text, b, e)) :
              Without(text, b, e)[i] = IF i < b THEN text[i] ELSE text[i + (e - b + 1)]
        BY <4>1, WithoutIs
      <4> QED BY <4>1, <4>2, <4>3
    <3>3. /\ r \in Seq(Line) /\ Len(r) = n - (e - b + 1)
          /\ \A i \in 1..Len(r) : r[i] = IF i < b THEN text[i] ELSE text[i + (e - b + 1)]
      BY <3>1, <3>2
    <3> QED
      BY <3>1, <3>3
  <2> DEFINE from == {i \in DOMAIN text : text[i] \in Entry}
             to == {j \in DOMAIN r : r[j] \in Entry}
             place == [i \in from |-> IF i < b THEN i ELSE i - 3]
  <2>5. DOMAIN r = 1..(n - 3)
    BY <2>4
  <2> HIDE DEF r
  <2>6. \A i \in from : i \in 1..n /\ (i < b \/ i > b + 2)
    BY <1>1, <1>3, <2>1
  <2>7. ASSUME NEW i \in from PROVE place[i] \in to /\ r[place[i]] = text[i]
    <3>1. CASE i < b
      <4>1. i \in 1..(n - 3)
        BY <1>1, <1>3, <2>6, <3>1
      <4>2. r[i] = text[i]
        BY <2>4, <3>1, <4>1
      <4> QED
        BY <2>5, <3>1, <4>1, <4>2
    <3>2. CASE i > b + 2
      <4>1. i - 3 \in 1..(n - 3) /\ ~ (i - 3 < b) /\ (i - 3) + 3 = i /\ ~ (i < b)
        BY <1>1, <1>3, <2>6, <3>2
      <4>2. r[i - 3] = text[i]
        BY <2>4, <4>1
      <4> QED
        BY <2>5, <4>1, <4>2
    <3> QED
      BY <2>6, <3>1, <3>2
  <2>8. \A i, j \in from : i < j => place[i] < place[j]
    BY <1>1, <1>3, <2>6
  <2>9. ASSUME NEW j \in to PROVE \E i \in from : place[i] = j
    <3>1. j \in 1..(n - 3) /\ r[j] \in Entry
      BY <2>5
    <3>2. CASE j < b
      <4>1. r[j] = text[j] /\ j \in 1..n
        BY <1>1, <2>4, <3>1, <3>2
      <4> QED
        BY <1>1, <3>1, <3>2, <4>1
    <3>3. CASE ~ (j < b)
      <4>1. r[j] = text[j + 3]
        BY <2>4, <3>1, <3>3
      <4>2. j + 3 \in 1..n /\ ~ (j + 3 < b) /\ (j + 3) - 3 = j
        BY <1>1, <3>1, <3>3
      <4> QED
        BY <1>1, <3>1, <4>1, <4>2
    <3> QED
      BY <3>2, <3>3
  <2>10. place \in [from -> to]
    BY <2>7
  <2>11. to = {place[i] : i \in from}
    <3> HIDE DEF place, from, to
    <3> QED
      BY <2>7, <2>9
  <2>12. \A i \in from : r[place[i]] = text[i]
    BY <2>7
  <2> HIDE DEF place
  <2>13. SameUserLines(text, r)
    BY <2>8, <2>10, <2>11, <2>12 DEF SameUserLines
  <2> QED
    BY <2>0, <2>13
<1> QED
  BY <1>2, <1>3 DEF WellMarked

\* So do install and uninstall.
LEMMA UpdatedKeepsLines ==
  ASSUME NEW text \in Seq(Line), Marked(text), WellMarked(text), NEW op
  PROVE  SameUserLines(text, Updated(op, text))
<1>1. Cut(text) \in Seq(Line) /\ SameUserLines(text, Cut(text))
  BY CutMarked, CutKeepsLines
<1>2. SameUserLines(text, Cut(text) \o CronBlock)
  BY <1>1, BlockKeepsLines
<1> QED
  BY <1>1, <1>2 DEF Updated, ReplaceMarkedBlock, RemoveMarkedBlock

-----------------------------------------------------------------------------
(* What a daemon command does.                                             *)

\* A command that ends, fails or goes on to its next step.
LEMMA AtRestTyped == AtRest \in Commanding /\ AtRest.at = "idle" /\ Marked(AtRest.text)
<1>1. AtRest.text \in Seq(Line) /\ Len(AtRest.text) = 0
  BY DEF AtRest
<1> QED BY <1>1, EmptyMarked DEF AtRest, Commanding, Steps

LEMMA GoesToTyped ==
  ASSUME SchedulerTyped, NEW to \in Steps, GoesTo(to)
  PROVE  daemon' \in Commanding /\ daemon'.at = to /\ daemon'.text = daemon.text
BY DEF SchedulerTyped, Commanding, GoesTo

LEMMA CompletesTyped ==
  ASSUME NEW exit, Completes(exit)
  PROVE  daemon' \in Commanding /\ daemon'.at = "idle" /\ Marked(daemon'.text)
BY AtRestTyped DEF Completes

LEMMA ToolMissingKeeps == ASSUME SchedulerTyped, Held, ToolMissing PROVE SchedulerTyped' /\ Held'
<1>1. daemon' \in Commanding /\ daemon'.at = "idle" /\ Marked(daemon'.text)
  BY CompletesTyped DEF ToolMissing
<1>2. SchedulerTyped'
  BY <1>1 DEF SchedulerTyped, ToolMissing, schedule, bounds
<1>3. Held'
  BY <1>1 DEF Held, SchedulerTyped, ToolMissing, schedule, Present
<1> QED BY <1>2, <1>3

LEMMA WriteServiceKeeps == ASSUME SchedulerTyped, Held, WriteService PROVE SchedulerTyped' /\ Held'
<1>1. daemon' \in Commanding /\ daemon'.at = "write timer" /\ Marked(daemon'.text)
  BY GoesToTyped DEF WriteService, At, Steps, Held
<1>2. SchedulerTyped'
  BY <1>1 DEF SchedulerTyped, WriteService, At
<1>3. Held'
  BY <1>1 DEF Held, SchedulerTyped, WriteService, At, Present
<1> QED BY <1>2, <1>3

LEMMA WriteTimerKeeps == ASSUME SchedulerTyped, Held, WriteTimer PROVE SchedulerTyped' /\ Held'
<1>1. daemon' \in Commanding /\ daemon'.at = "reload" /\ Marked(daemon'.text)
  BY GoesToTyped DEF WriteTimer, At, Steps, Held
<1>2. SchedulerTyped'
  BY <1>1 DEF SchedulerTyped, WriteTimer, At
<1>3. Held'
  BY <1>1 DEF Held, SchedulerTyped, WriteTimer, At, Present
<1> QED BY <1>2, <1>3

LEMMA ReloadKeeps == ASSUME SchedulerTyped, Held, Reload PROVE SchedulerTyped' /\ Held'
<1>1. daemon' \in Commanding /\ daemon'.at = "enable" /\ Marked(daemon'.text)
  BY GoesToTyped DEF Reload, At, Steps, Held
<1>2. SchedulerTyped'
  BY <1>1 DEF SchedulerTyped, Reload, SystemdKnows, Reloaded, At
<1>3. Held'
  BY <1>1 DEF Held, SchedulerTyped, Reload, SystemdKnows, Reloaded, At, Present
<1> QED BY <1>2, <1>3

LEMMA EnableKeeps == ASSUME SchedulerTyped, Held, Enable PROVE SchedulerTyped' /\ Held'
<1>1. daemon' \in Commanding /\ daemon'.at = "idle" /\ Marked(daemon'.text)
  BY CompletesTyped DEF Enable
<1>2. systemd' \in SystemdKnows
  <2>1. CASE systemd' = [loaded |-> TRUE, enabled |-> TRUE, active |-> TRUE]
    BY <2>1 DEF SystemdKnows
  <2>2. CASE UNCHANGED systemd
    BY <2>2 DEF SchedulerTyped
  <2> QED BY <2>1, <2>2 DEF Enable
<1>3. SchedulerTyped'
  BY <1>1, <1>2 DEF SchedulerTyped, Enable, At
<1>4. Held'
  BY <1>1 DEF Held, Enable, At, Present
<1> QED BY <1>3, <1>4

LEMMA DisableKeeps == ASSUME SchedulerTyped, Held, Disable PROVE SchedulerTyped' /\ Held'
<1>1. daemon' \in Commanding /\ daemon'.at = "unlink service" /\ Marked(daemon'.text)
  BY GoesToTyped DEF Disable, At, Steps, Held
<1>2. SchedulerTyped'
  BY <1>1 DEF SchedulerTyped, Disable, SystemdKnows, At
<1>3. Held'
  BY <1>1 DEF Held, SchedulerTyped, Disable, SystemdKnows, At, Present
<1> QED BY <1>2, <1>3

LEMMA UnlinkServiceKeeps == ASSUME SchedulerTyped, Held, UnlinkService PROVE SchedulerTyped' /\ Held'
<1>1. daemon' \in Commanding /\ daemon'.at = "unlink timer" /\ Marked(daemon'.text)
  BY GoesToTyped DEF UnlinkService, At, Steps, Held
<1>2. SchedulerTyped'
  BY <1>1 DEF SchedulerTyped, UnlinkService, At
<1>3. Held'
  BY <1>1 DEF Held, SchedulerTyped, UnlinkService, At, Present
<1> QED BY <1>2, <1>3

LEMMA UnlinkTimerKeeps == ASSUME SchedulerTyped, Held, UnlinkTimer PROVE SchedulerTyped' /\ Held'
<1>1. daemon' \in Commanding /\ daemon'.at = "reload last" /\ Marked(daemon'.text)
  BY GoesToTyped DEF UnlinkTimer, At, Steps, Held
<1>2. SchedulerTyped'
  BY <1>1 DEF SchedulerTyped, UnlinkTimer, At
<1>3. Held'
  BY <1>1 DEF Held, SchedulerTyped, UnlinkTimer, At, Present
<1> QED BY <1>2, <1>3

LEMMA ReloadLastKeeps == ASSUME SchedulerTyped, Held, ReloadLast PROVE SchedulerTyped' /\ Held'
<1>1. daemon' \in Commanding /\ daemon'.at = "idle" /\ Marked(daemon'.text)
  BY CompletesTyped DEF ReloadLast
<1>2. SchedulerTyped'
  BY <1>1 DEF SchedulerTyped, ReloadLast, SystemdKnows, Reloaded, At
<1>3. Held'
  BY <1>1 DEF Held, SchedulerTyped, ReloadLast, SystemdKnows, Reloaded, At, Present
<1> QED BY <1>2, <1>3

LEMMA ListCrontabKeeps == ASSUME SchedulerTyped, Held, ListCrontab PROVE SchedulerTyped' /\ Held'
<1>1. PICK text \in {crontab, <<>>}, listed \in BOOLEAN :
        daemon' = [daemon EXCEPT !.at = "write", !.text = text, !.listed = listed]
  <2>1. CASE daemon' = [daemon EXCEPT !.at = "write", !.text = crontab]
    <3>1. daemon' = [daemon EXCEPT !.at = "write", !.text = crontab, !.listed = daemon.listed]
          /\ daemon.listed \in BOOLEAN
      BY <2>1 DEF SchedulerTyped, Commanding
    <3> QED BY <3>1
  <2>2. CASE daemon' = [daemon EXCEPT !.at = "write", !.text = <<>>, !.listed = FALSE]
    BY <2>2
  <2> QED BY <2>1, <2>2 DEF ListCrontab
<1>2. text \in Seq(Line) /\ Marked(text)
  <2>1. <<>> \in Seq(Line) /\ Len(<<>>) = 0
    OBVIOUS
  <2> QED BY <1>1, <2>1, EmptyMarked DEF SchedulerTyped, Held
<1>3. daemon' \in Commanding /\ daemon'.at = "write" /\ Marked(daemon'.text)
  BY <1>1, <1>2 DEF SchedulerTyped, Commanding, Steps
<1>4. SchedulerTyped'
  BY <1>3 DEF SchedulerTyped, ListCrontab, schedule, At
<1>5. Held'
  BY <1>3 DEF Held, ListCrontab, schedule, At, Present
<1> QED BY <1>4, <1>5

LEMMA WriteCrontabKeeps == ASSUME SchedulerTyped, Held, WriteCrontab PROVE SchedulerTyped' /\ Held'
<1>1. daemon' \in Commanding /\ daemon'.at = "idle" /\ Marked(daemon'.text)
  BY CompletesTyped DEF WriteCrontab
<1>2. crontab' \in Seq(Line) /\ Marked(crontab')
  <2>1. CASE crontab' = Updated(daemon.op, daemon.text)
    <3>1. daemon.text \in Seq(Line) /\ Marked(daemon.text)
      BY DEF SchedulerTyped, Held, Commanding
    <3> QED BY <2>1, <3>1, UpdatedMarked
  <2>2. CASE UNCHANGED crontab
    BY <2>2 DEF SchedulerTyped, Held
  <2> QED BY <2>1, <2>2 DEF WriteCrontab
<1>3. SchedulerTyped'
  BY <1>1, <1>2 DEF SchedulerTyped, WriteCrontab, At
<1>4. Held'
  BY <1>1, <1>2 DEF Held, WriteCrontab, At, Present
<1> QED BY <1>3, <1>4

LEMMA WritePlistKeeps == ASSUME SchedulerTyped, Held, WritePlist PROVE SchedulerTyped' /\ Held'
<1>1. daemon' \in Commanding /\ daemon'.at = "bootstrap" /\ Marked(daemon'.text)
  BY GoesToTyped DEF WritePlist, At, Steps, Held
<1>2. SchedulerTyped'
  BY <1>1 DEF SchedulerTyped, WritePlist, At
<1>3. Held'
  BY <1>1 DEF Held, SchedulerTyped, WritePlist, At, Present
<1> QED BY <1>2, <1>3

LEMMA BootstrapKeeps == ASSUME SchedulerTyped, Held, Bootstrap PROVE SchedulerTyped' /\ Held'
<1>1. daemon' \in Commanding /\ daemon'.at = "kickstart" /\ Marked(daemon'.text)
  BY GoesToTyped DEF Bootstrap, At, Steps, Held
<1>2. SchedulerTyped'
  BY <1>1 DEF SchedulerTyped, Bootstrap, At
<1>3. Held'
  BY <1>1 DEF Held, SchedulerTyped, Bootstrap, At, Present
<1> QED BY <1>2, <1>3

LEMMA KickstartKeeps == ASSUME SchedulerTyped, Held, Kickstart PROVE SchedulerTyped' /\ Held'
<1>1. daemon' \in Commanding /\ daemon'.at = "idle" /\ Marked(daemon'.text)
  BY CompletesTyped DEF Kickstart
<1>2. SchedulerTyped'
  BY <1>1 DEF SchedulerTyped, Kickstart, schedule, At
<1>3. Held'
  BY <1>1 DEF Held, SchedulerTyped, Kickstart, schedule, At, Present
<1> QED BY <1>2, <1>3

LEMMA BootoutKeeps == ASSUME SchedulerTyped, Held, Bootout PROVE SchedulerTyped' /\ Held'
<1>1. daemon' \in Commanding /\ daemon'.at = "unlink plist" /\ Marked(daemon'.text)
  BY GoesToTyped DEF Bootout, At, Steps, Held
<1>2. SchedulerTyped'
  BY <1>1 DEF SchedulerTyped, Bootout, At
<1>3. Held'
  BY <1>1 DEF Held, SchedulerTyped, Bootout, At, Present
<1> QED BY <1>2, <1>3

LEMMA UnlinkPlistKeeps == ASSUME SchedulerTyped, Held, UnlinkPlist PROVE SchedulerTyped' /\ Held'
<1>1. daemon' \in Commanding /\ daemon'.at = "idle" /\ Marked(daemon'.text)
  BY CompletesTyped DEF UnlinkPlist
<1>2. SchedulerTyped'
  BY <1>1 DEF SchedulerTyped, UnlinkPlist, At
<1>3. Held'
  BY <1>1 DEF Held, SchedulerTyped, UnlinkPlist, At, Present
<1> QED BY <1>2, <1>3

LEMMA RegisterKeeps == ASSUME SchedulerTyped, Held, Register PROVE SchedulerTyped' /\ Held'
<1>1. daemon' \in Commanding /\ daemon'.at = "idle" /\ Marked(daemon'.text)
  BY CompletesTyped DEF Register
<1>2. SchedulerTyped'
  BY <1>1 DEF SchedulerTyped, Register, At
<1>3. Held'
  BY <1>1 DEF Held, SchedulerTyped, Register, At, Present
<1> QED BY <1>2, <1>3

LEMMA UnregisterKeeps == ASSUME SchedulerTyped, Held, Unregister PROVE SchedulerTyped' /\ Held'
<1>1. daemon' \in Commanding /\ daemon'.at = "idle" /\ Marked(daemon'.text)
  BY CompletesTyped DEF Unregister
<1>2. SchedulerTyped'
  BY <1>1 DEF SchedulerTyped, Unregister, At
<1>3. Held'
  BY <1>1 DEF Held, SchedulerTyped, Unregister, At, Present
<1> QED BY <1>2, <1>3

\* A command starts with a step of the backend it was given (DaemonManager).
LEMMA StartCommandKeeps ==
  ASSUME SchedulerTyped, Held, NEW op \in {"install", "uninstall"}, NEW b \in Backends \cup {"auto"},
         StartCommand(op, b)
  PROVE  SchedulerTyped' /\ Held'
<1>1. AutoBackend \in Backends
  BY DEF AutoBackend, Backends
<1>2. PICK c \in Backends : daemon' = [AtRest EXCEPT !.op = op, !.backend = c, !.at = FirstStep(op, c)]
  BY <1>1 DEF StartCommand
<1>3. FirstStep(op, c) \in Steps \ {"enable", "write"}
  BY DEF FirstStep, Backends, Steps
<1>4. daemon' \in Commanding /\ daemon'.at = FirstStep(op, c) /\ Marked(daemon'.text)
  BY <1>2, <1>3, AtRestTyped DEF Commanding
<1>5. SchedulerTyped'
  BY <1>4 DEF SchedulerTyped, StartCommand, schedule
<1>6. Held'
  BY <1>3, <1>4 DEF Held, StartCommand, schedule, Present
<1> QED BY <1>5, <1>6

\* A step of the daemon, which leaves the assessment alone.
DaemonStep ==
  \/ \E op \in {"install", "uninstall"}, b \in Backends \cup {"auto"} : StartCommand(op, b)
  \/ ToolMissing
  \/ WriteService \/ WriteTimer \/ Reload \/ Enable
  \/ Disable \/ UnlinkService \/ UnlinkTimer \/ ReloadLast
  \/ ListCrontab \/ WriteCrontab
  \/ WritePlist \/ Bootstrap \/ Kickstart \/ Bootout \/ UnlinkPlist
  \/ Register \/ Unregister

LEMMA DaemonStepKeeps ==
  ASSUME SchedulerTyped, Held, DaemonStep
  PROVE  SchedulerTyped' /\ Held' /\ UNCHANGED <<host, assessment>>
<1>1. SchedulerTyped' /\ Held'
  BY StartCommandKeeps, ToolMissingKeeps, WriteServiceKeeps, WriteTimerKeeps, ReloadKeeps, EnableKeeps,
     DisableKeeps, UnlinkServiceKeeps, UnlinkTimerKeeps, ReloadLastKeeps, ListCrontabKeeps,
     WriteCrontabKeeps, WritePlistKeeps, BootstrapKeeps, KickstartKeeps, BootoutKeeps,
     UnlinkPlistKeeps, RegisterKeeps, UnregisterKeeps
     DEF DaemonStep
<1>2. UNCHANGED <<host, assessment>>
  BY DEF DaemonStep, At, StartCommand, ToolMissing, WriteService, WriteTimer, Reload, Enable, Disable,
         UnlinkService, UnlinkTimer, ReloadLast, ListCrontab, WriteCrontab, WritePlist, Bootstrap,
         Kickstart, Bootout, UnlinkPlist, Register, Unregister
<1> QED BY <1>1, <1>2

-----------------------------------------------------------------------------
(* The user.                                                               *)

\* The user leaves each job one of its markers.
LEMMA EditCrontabKeeps ==
  ASSUME SchedulerTyped, Held, EditCrontab
  PROVE  SchedulerTyped' /\ Held' /\ UNCHANGED <<host, assessment>>
<1>1. crontab' \in Seq(Line)
  <2>1. ASSUME NEW e \in Entry, crontab' \in {Append(crontab, e), <<e>> \o crontab} PROVE crontab' \in Seq(Line)
    <3>1. crontab \in Seq(Line) /\ e \in Line
      BY DEF SchedulerTyped, Line
    <3>2. Append(crontab, e) \in Seq(Line) /\ <<e>> \in Seq(Line)
      BY <3>1
    <3>3. <<e>> \o crontab \in Seq(Line)
      BY <3>1, <3>2, ConcatIs
    <3> QED BY <2>1, <3>2, <3>3
  <2>2. ASSUME NEW i \in DOMAIN crontab, crontab' = RemoveAt(crontab, i) PROVE crontab' \in Seq(Line)
    BY <2>2 DEF SchedulerTyped, RemoveAt
  <2> QED BY <2>1, <2>2 DEF EditCrontab
<1>2. Marked(crontab') /\ Present("cron")
  BY DEF EditCrontab
<1>3. SchedulerTyped'
  BY <1>1 DEF SchedulerTyped, EditCrontab
<1>4. Held'
  BY <1>2 DEF Held, EditCrontab, Present
<1> QED BY <1>3, <1>4 DEF EditCrontab

\* The schedulers a host has are those that are assessed.
LEMMA HostTools ==
  ASSUME host \in Hosts
  PROVE  /\ host.system = "Darwin" => Present("launchd")
         /\ Present("systemd") => HasUserSystemd
         /\ \A b \in Backends : Present(b) => \E i \in 1..Len(ApplicableBackends) : ApplicableBackends[i] = b
<1>1. CASE host = [system |-> "Linux", wsl |-> TRUE, tools |-> {"systemd", "cron", "task-scheduler"}]
  <2>1. ApplicableBackends = <<"systemd", "cron", "task-scheduler">>
    BY <1>1 DEF ApplicableBackends
  <2> QED BY <1>1, <2>1 DEF Present, HasUserSystemd
<1>2. CASE host.system = "Linux" /\ ~host.wsl /\ host.tools \subseteq {"systemd", "cron"}
  <2>1. ApplicableBackends = <<"systemd", "cron">>
    BY <1>2 DEF ApplicableBackends
  <2> QED BY <1>2, <2>1 DEF Present, HasUserSystemd
<1>3. CASE host = [system |-> "Darwin", wsl |-> FALSE, tools |-> {"launchd", "cron"}]
  <2>1. ApplicableBackends = <<"launchd", "cron">>
    BY <1>3 DEF ApplicableBackends
  <2> QED BY <1>3, <2>1 DEF Present, HasUserSystemd
<1>4. CASE host = [system |-> "Windows", wsl |-> FALSE, tools |-> {"task-scheduler"}]
  <2>1. ApplicableBackends = <<"task-scheduler">>
    BY <1>4 DEF ApplicableBackends
  <2> QED BY <1>4, <2>1 DEF Present, HasUserSystemd
<1> QED BY <1>1, <1>2, <1>3, <1>4 DEF Hosts

\* A session loads what the scheduler of the host finds, and no other.
LEMMA NewSessionKeeps ==
  ASSUME SchedulerTyped, Held, NewSession
  PROVE  SchedulerTyped' /\ Held' /\ UNCHANGED host
<1>1. daemon' \in Commanding /\ daemon'.at = "idle" /\ Marked(daemon'.text)
  BY AtRestTyped DEF NewSession
<1>2. assessment' \in Assessed
  BY DEF NewSession, Unassessed, Assessed
<1>3. /\ systemd' \in SystemdKnows /\ launchd' \in BOOLEAN
      /\ (systemd'.enabled => systemd.enabled) /\ (systemd'.active => systemd.enabled)
  BY DEF NewSession, SystemdKnows, SchedulerTyped, Whole
<1>4. launchd' => Present("launchd")
  BY HostTools DEF NewSession, SchedulerTyped
<1>5. SchedulerTyped'
  BY <1>1, <1>2, <1>3 DEF SchedulerTyped, NewSession
<1>6. Held'
  BY <1>1, <1>3, <1>4 DEF Held, NewSession, Present
<1> QED BY <1>5, <1>6 DEF NewSession

-----------------------------------------------------------------------------
(* The assessment.                                                         *)

\* Who runs depends on nothing but the schedule and the host.
LEMMA RunningStays ==
  ASSUME UNCHANGED schedule, UNCHANGED host
  PROVE  (\A b \in Backends : Running(b)' = Running(b)) /\ ApplicableBackends' = ApplicableBackends
<1>1. ASSUME NEW b \in Backends PROVE Running(b)' = Running(b)
  BY DEF schedule, Running, Backends
<1> QED BY <1>1 DEF ApplicableBackends

\* The lists of _applicable_backends.
LEMMA ApplicableTyped ==
  ASSUME host \in Hosts
  PROVE  ApplicableBackends \in Seq(Backends) /\ Len(ApplicableBackends) \in Nat \ {0}
<1>1. ApplicableBackends \in {<<"systemd", "cron", "task-scheduler">>, <<"systemd", "cron">>,
                              <<"launchd", "cron">>, <<"task-scheduler">>}
  <2>1. \/ host.wsl /\ host.system = "Linux"
        \/ ~host.wsl /\ host.system \in {"Linux", "Darwin", "Windows"}
    BY DEF Hosts
  <2> QED BY <2>1 DEF ApplicableBackends
<1>2. /\ <<"systemd", "cron", "task-scheduler">> \in Seq(Backends)
      /\ <<"systemd", "cron">> \in Seq(Backends) /\ <<"launchd", "cron">> \in Seq(Backends)
      /\ <<"task-scheduler">> \in Seq(Backends)
  BY DEF Backends
<1>3. CASE ApplicableBackends = <<"systemd", "cron", "task-scheduler">>
  BY <1>2, <1>3
<1>4. CASE ApplicableBackends = <<"systemd", "cron">>
  BY <1>2, <1>4
<1>5. CASE ApplicableBackends = <<"launchd", "cron">>
  BY <1>2, <1>5
<1>6. CASE ApplicableBackends = <<"task-scheduler">>
  BY <1>2, <1>6
<1> QED BY <1>1, <1>3, <1>4, <1>5, <1>6

\* What is assessed and what is left add up.
LEMMA SumBounds ==
  ASSUME NEW m \in Nat, NEW n \in Nat, NEW total \in Nat, m + n = total
  PROVE  /\ m <= total
         /\ n > 0 => m + 1 <= total /\ (m + 1) + (n - 1) = total
         /\ \A i \in 1..(n - 1) : i + 1 \in 1..n /\ m + (i + 1) = m + 1 + i
OBVIOUS

\* The two parts of an assessment are sequences.
LEMMA AssessedTyped ==
  ASSUME SchedulerTyped
  PROVE  /\ assessment.states \in Seq({"absent", "installed", "unassessable"})
         /\ assessment.left \in Seq(Backends)
         /\ Len(assessment.states) \in Nat /\ Len(assessment.left) \in Nat
<1>1. /\ assessment.states \in Seq({"absent", "installed", "unassessable"})
      /\ assessment.left \in Seq(Backends)
  BY Zenon DEF SchedulerTyped, Assessed
<1> QED BY <1>1

\* A backend that is found to be absent is not running.
LEMMA AbsentIsNotRunning ==
  ASSUME SchedulerTyped, Held, NEW b \in Backends, Inspect(b) = "absent"
  PROVE  ~Running(b)
<1>1. CASE b = "systemd"
  <2>1. SystemdSeen = "absent"
    BY <1>1 DEF Inspect, ObserveSystemd
  <2>2. CASE ~HasUserSystemd
    BY <1>1, <2>2, HostTools DEF SchedulerTyped, Held, Running
  <2>3. CASE HasUserSystemd
    BY <1>1, <2>1, <2>3 DEF SystemdSeen, StateOf, Running
  <2> QED BY <2>2, <2>3
<1>2. CASE b = "cron"
  <2>1. First(crontab, "begin") = 0 /\ First(crontab, "end") = 0
    BY <1>2 DEF Inspect, ObserveCron, StateOf
  <2>2. First(crontab, "job") = 0
    BY <2>1, MarkedJobHasMarker DEF SchedulerTyped, Held
  <2> QED BY <1>2, <2>2 DEF Running
<1>3. CASE b = "launchd"
  BY <1>3 DEF Inspect, ObserveLaunchd, StateOf, Running
<1>4. CASE b = "task-scheduler"
  BY <1>4 DEF Inspect, ObserveTaskScheduler, StateOf, Running
<1> QED BY <1>1, <1>2, <1>3, <1>4 DEF Backends

\* The schedule has changed since the assessment began, or has not.
Touches == touched' = (schedule' # schedule \/ (touched /\ (assessment.verdict = "running" \/ assessment' = assessment)))

\* Who leaves the assessment alone leaves it true.
LEMMA AssessingStays ==
  ASSUME SchedulerTyped, Assessing, UNCHANGED <<host, assessment>>,
         ~touched' => ~touched /\ UNCHANGED schedule
  PROVE  Assessing'
<1>1. ApplicableBackends' = ApplicableBackends
  BY DEF ApplicableBackends
<1>2. CASE touched'
  BY <1>1, <1>2 DEF Assessing
<1>3. CASE ~touched'
  <2>1. ~touched /\ UNCHANGED schedule
    BY <1>3
  <2>2. \A b \in Backends : Running(b)' = Running(b)
    BY <2>1, RunningStays
  <2>3. \A i \in 1..Len(ApplicableBackends) : ApplicableBackends[i] \in Backends
    BY ApplicableTyped DEF SchedulerTyped
  <2>4. assessment.verdict = "running" => Len(assessment.states) <= Len(ApplicableBackends)
    <3>1. Len(assessment.states) \in Nat /\ Len(assessment.left) \in Nat
      BY AssessedTyped
    <3>2. assessment.verdict = "running" =>
            Len(assessment.states) + Len(assessment.left) = Len(ApplicableBackends)
      BY DEF Assessing
    <3>3. Len(ApplicableBackends) \in Nat
      BY ApplicableTyped DEF SchedulerTyped
    <3> QED BY <3>1, <3>2, <3>3, SumBounds
  <2>5. assessment.verdict = "running" =>
          \A i \in 1..Len(assessment.states) : Running(ApplicableBackends[i])' = Running(ApplicableBackends[i])
    <3>1. Len(assessment.states) \in Nat /\ Len(ApplicableBackends) \in Nat
      BY ApplicableTyped, AssessedTyped DEF SchedulerTyped
    <3>2. ASSUME assessment.verdict = "running", NEW i \in 1..Len(assessment.states)
          PROVE  ApplicableBackends[i] \in Backends
      BY <2>3, <2>4, <3>1, <3>2
    <3> QED BY <1>1, <2>2, <3>2
  <2> QED BY <1>1, <2>1, <2>2, <2>5 DEF Assessing
<1> QED BY <1>2, <1>3

\* An assessment begins with every backend left and none found absent.
LEMMA BeginAssessKeeps ==
  ASSUME SchedulerTyped, Held, BeginAssess, Touches
  PROVE  SchedulerTyped' /\ Held' /\ Assessing'
<1>1. /\ assessment' = [left |-> ApplicableBackends, states |-> <<>>, verdict |-> "running"]
      /\ UNCHANGED <<host, schedule, daemon>>
  BY DEF BeginAssess
<1>2. assessment' \in Assessed
  <2>1. <<>> \in Seq({"absent", "installed", "unassessable"}) /\ ApplicableBackends \in Seq(Backends)
    BY ApplicableTyped DEF SchedulerTyped
  <2>2. "running" \in {"none", "running", "quiescent", "write blocked"}
    OBVIOUS
  <2> QED BY <1>1, <2>1, <2>2, Zenon DEF Assessed
<1>3. SchedulerTyped'
  BY <1>1, <1>2 DEF SchedulerTyped, schedule
<1>4. Held'
  BY <1>1 DEF Held, schedule, Present
<1>5. Assessing'
  <2>1. ApplicableBackends' = ApplicableBackends
    BY <1>1, RunningStays
  <2>2. Len(assessment'.states) = 0 /\ assessment'.left = ApplicableBackends
    BY <1>1
  <2>3. Len(ApplicableBackends) \in Nat
    BY ApplicableTyped DEF SchedulerTyped
  <2> QED BY <1>1, <2>1, <2>2, <2>3 DEF Assessing
<1> QED BY <1>3, <1>4, <1>5

\* One backend more is assessed: absent only when it does not run.
LEMMA AssessBackendKeeps ==
  ASSUME SchedulerTyped, Held, Assessing, AssessBackend, Touches
  PROVE  SchedulerTyped' /\ Held' /\ Assessing'
<1> DEFINE states == assessment.states
           left == assessment.left
           b == Head(left)
<1>1. /\ left # <<>> /\ UNCHANGED <<host, schedule, daemon>>
      /\ Observed(Inspect(b)) \/ Observed("unassessable")
  BY DEF AssessBackend
<1>2. PICK s : (s = Inspect(b) \/ s = "unassessable") /\ Observed(s)
  BY <1>1
<1>3. /\ states \in Seq({"absent", "installed", "unassessable"}) /\ left \in Seq(Backends)
      /\ Len(states) \in Nat /\ Len(left) \in Nat /\ Len(left) > 0
      /\ b \in Backends /\ b = left[1]
  BY <1>1, AssessedTyped
<1>4. s \in {"absent", "installed", "unassessable"}
  BY <1>2, <1>3 DEF Inspect, ObserveSystemd, SystemdSeen, ObserveCron, ObserveLaunchd,
     ObserveTaskScheduler, StateOf, Backends
<1>5. assessment' = [assessment EXCEPT !.left = Tail(left), !.states = Append(states, s)]
  BY <1>2 DEF Observed
<1>6. /\ assessment.verdict = "running" /\ Len(states) + Len(left) = Len(ApplicableBackends)
      /\ \A i \in 1..Len(left) : left[i] = ApplicableBackends[Len(states) + i]
  BY <1>1 DEF Assessing, SchedulerTyped, Assessed
<1>7. /\ assessment'.left = Tail(left) /\ assessment'.states = Append(states, s)
      /\ assessment'.verdict = "running" /\ assessment' \in Assessed
  <2>1. Tail(left) \in Seq(Backends) /\ Append(states, s) \in Seq({"absent", "installed", "unassessable"})
    BY <1>3, <1>4
  <2> QED BY <1>5, <1>6, <2>1 DEF SchedulerTyped, Assessed
<1>8. SchedulerTyped'
  BY <1>1, <1>7 DEF SchedulerTyped, schedule
<1>9. Held'
  BY <1>1 DEF Held, schedule, Present
<1>10. Assessing'
  <2>1. ApplicableBackends' = ApplicableBackends /\ \A c \in Backends : Running(c)' = Running(c)
    BY <1>1, RunningStays
  <2>2. /\ Len(Tail(left)) = Len(left) - 1 /\ \A i \in 1..(Len(left) - 1) : Tail(left)[i] = left[i + 1]
        /\ Len(Append(states, s)) = Len(states) + 1
        /\ \A i \in 1..(Len(states) + 1) :
             Append(states, s)[i] = IF i <= Len(states) THEN states[i] ELSE s
    BY <1>1, <1>3, <1>4
  <2>3. ~touched' => ~touched
    BY <1>6 DEF Touches
  <2>4. b = ApplicableBackends[Len(states) + 1]
    <3>1. 1 \in 1..Len(left)
      BY <1>3
    <3> QED BY <1>3, <1>6, <3>1
  <2>5. s = "absent" => ~Running(b)
    BY <1>2, <1>3, AbsentIsNotRunning
  <2>a. Len(ApplicableBackends) \in Nat
    BY ApplicableTyped DEF SchedulerTyped
  <2>b. /\ Len(states) + 1 <= Len(ApplicableBackends)
        /\ Len(states) + 1 + (Len(left) - 1) = Len(ApplicableBackends)
        /\ \A i \in 1..Len(left) - 1 : i + 1 \in 1..Len(left) /\ Len(states) + (i + 1) = Len(states) + 1 + i
    BY <1>3, <1>6, <2>a, SumBounds
  <2>6. \A i \in 1..Len(left) - 1 : Tail(left)[i] = ApplicableBackends[Len(states) + 1 + i]
    <3>1. ASSUME NEW i \in 1..Len(left) - 1 PROVE Tail(left)[i] = ApplicableBackends[Len(states) + 1 + i]
      <4>1. i + 1 \in 1..Len(left) /\ Len(states) + (i + 1) = Len(states) + 1 + i
        BY <2>b, <3>1
      <4>2. left[i + 1] = ApplicableBackends[Len(states) + (i + 1)]
        BY <1>6, <4>1
      <4> QED BY <2>2, <4>1, <4>2
    <3> QED BY <3>1
  <2>7. ASSUME ~touched', NEW i \in 1..(Len(states) + 1), Append(states, s)[i] = "absent"
        PROVE  ~Running(ApplicableBackends[i])' /\ ApplicableBackends[i] \in Backends
    <3>1. Len(states) + 1 <= Len(ApplicableBackends)
      BY <2>b
    <3>2. ApplicableBackends[i] \in Backends
      BY <1>3, <3>1, ApplicableTyped DEF SchedulerTyped
    <3>3. CASE i <= Len(states)
      <4>1. states[i] = "absent" /\ i \in 1..Len(states)
        BY <1>3, <2>2, <2>7, <3>3
      <4>2. ~Running(ApplicableBackends[i])
        BY <1>6, <2>3, <2>7, <4>1 DEF Assessing
      <4> QED BY <2>1, <3>2, <4>2
    <3>4. CASE i > Len(states)
      <4>1. i = Len(states) + 1 /\ s = "absent"
        BY <1>3, <2>2, <2>7, <3>4
      <4> QED BY <2>1, <2>4, <2>5, <3>2, <4>1
    <3> QED BY <1>3, <3>3, <3>4
  <2> HIDE DEF states, left, b
  <2>8. Len(assessment'.states) = Len(states) + 1 /\ Len(assessment'.left) = Len(left) - 1
        /\ Len(states) + 1 + (Len(left) - 1) = Len(ApplicableBackends)
    BY <1>7, <2>2, <2>b
  <2> QED BY <1>7, <2>1, <2>6, <2>7, <2>8 DEF Assessing
<1> QED BY <1>8, <1>9, <1>10

\* A verdict of quiescence has asked all a host can run, and what the host has
\* no tool for does not run.
LEMMA DecideKeeps ==
  ASSUME SchedulerTyped, Held, Assessing, Decide, Touches
  PROVE  SchedulerTyped' /\ Held' /\ Assessing'
<1> DEFINE states == assessment.states
<1>1. /\ assessment.verdict = "running" /\ assessment.left = <<>> /\ UNCHANGED <<host, schedule, daemon>>
      /\ assessment' = [assessment EXCEPT !.states = <<>>,
           !.verdict = IF Quiescent(states) THEN "quiescent" ELSE "write blocked"]
  BY DEF Decide
<1>2. /\ assessment'.left = <<>> /\ assessment' \in Assessed
      /\ assessment'.verdict = IF Quiescent(states) THEN "quiescent" ELSE "write blocked"
  <2>1. <<>> \in Seq({"absent", "installed", "unassessable"})
    OBVIOUS
  <2>2. PICK v \in {"quiescent", "write blocked"} :
          v = IF Quiescent(states) THEN "quiescent" ELSE "write blocked"
    OBVIOUS
  <2>3. assessment' = [assessment EXCEPT !.states = <<>>, !.verdict = v]
    BY <1>1, <2>2
  <2>4. assessment' \in Assessed
    BY <2>1, <2>3 DEF SchedulerTyped, Assessed
  <2>5. assessment'.left = <<>> /\ assessment'.verdict = v
    BY <1>1, <2>3 DEF SchedulerTyped, Assessed
  <2> QED BY <2>2, <2>4, <2>5
<1>3. SchedulerTyped'
  BY <1>1, <1>2 DEF SchedulerTyped, schedule
<1>4. Held'
  BY <1>1 DEF Held, schedule, Present
<1>5. ASSUME assessment'.verdict = "quiescent", ~touched', NEW b \in Backends PROVE ~Running(b)'
  <2>a. Quiescent(states)
    BY <1>2, <1>5
  <2>b. ~touched
    BY <1>1, <1>5 DEF Touches
  <2>c. Running(b)' = Running(b)
    BY <1>1, RunningStays
  <2>1. ~touched /\ Quiescent(states) /\ Running(b)' = Running(b)
    BY <2>a, <2>b, <2>c
  <2>2. Len(states) = Len(ApplicableBackends) /\ \A i \in 1..Len(states) : states[i] = "absent"
    <3>1. Len(assessment.left) = 0 /\ DOMAIN states = 1..Len(states)
      BY <1>1, AssessedTyped
    <3>2. Len(states) + Len(assessment.left) = Len(ApplicableBackends) /\ Len(states) \in Nat
      BY <1>1, AssessedTyped DEF Assessing
    <3> QED BY <2>1, <3>1, <3>2 DEF Quiescent
  <2>3. \A i \in 1..Len(ApplicableBackends) : ~Running(ApplicableBackends[i])
    BY <1>1, <2>1, <2>2 DEF Assessing
  <2>4. CASE Present(b)
    BY <2>1, <2>3, <2>4, HostTools DEF SchedulerTyped
  <2>5. CASE ~Present(b)
    BY <2>1, <2>5 DEF Held, Running, Backends
  <2> QED BY <2>4, <2>5
<1>6. Assessing'
  BY <1>2, <1>5 DEF Assessing
<1> QED BY <1>3, <1>4, <1>6

-----------------------------------------------------------------------------
(* The invariant.                                                          *)

\* A host before anything is installed.
LEMMA SchedulerInitInv == ASSUME SchedulerInit PROVE SchedulerInv
<1>1. crontab \in Seq(Line) /\ Marked(crontab) /\ First(crontab, "job") = 0
  <2>1. CASE crontab = <<>>
    <3>1. crontab \in Seq(Line) /\ Len(crontab) = 0
      BY <2>1
    <3> QED BY <3>1, EmptyMarked
  <2>2. CASE crontab = <<CHOOSE e \in Entry : TRUE>>
    <3>1. PICK e \in Entry : crontab = <<e>>
      BY <2>2
    <3>2. crontab \in Seq(Line) /\ Len(crontab) = 1 /\ crontab[1] = e /\ e # "job"
      BY <3>1 DEF Line
    <3>3. \A i \in 1..Len(crontab) : crontab[i] # "job"
      BY <3>2
    <3> QED BY <3>2, <3>3, MarkedIs, FirstIs
  <2> QED BY <2>1, <2>2 DEF SchedulerInit
<1>2. SchedulerTyped
  <2>1. NotLoaded \in SystemdKnows
    BY DEF NotLoaded, SystemdKnows
  <2>2. <<>> \in Seq(Backends) /\ <<>> \in Seq({"absent", "installed", "unassessable"})
    OBVIOUS
  <2>3. Unassessed \in Assessed
    BY <2>2 DEF Unassessed, Assessed
  <2> QED BY <1>1, <2>1, <2>3, AtRestTyped DEF SchedulerInit, SchedulerTyped
<1>3. Held
  BY <1>1, AtRestTyped DEF SchedulerInit, Held, NotLoaded
<1>4. Assessing
  BY DEF SchedulerInit, Assessing, Unassessed
<1> QED BY <1>2, <1>3, <1>4 DEF SchedulerInv

\* Each step of a command, of an assessment and of the user.
LEMMA SchedulerStepKeeps ==
  ASSUME SchedulerInv, [SchedulerNext]_schedulerVars
  PROVE  SchedulerInv'
<1> USE DEF SchedulerInv
<1>1. CASE UNCHANGED schedulerVars
  <2>1. SchedulerTyped'
    BY <1>1 DEF SchedulerTyped, schedulerVars, schedule
  <2>2. Held'
    BY <1>1 DEF Held, Present, schedulerVars, schedule
  <2>3. UNCHANGED <<host, schedule, assessment, touched>>
    BY <1>1 DEF schedulerVars
  <2>4. ApplicableBackends' = ApplicableBackends /\ \A c \in Backends : Running(c)' = Running(c)
    BY <2>3, RunningStays
  <2>5. Assessing'
    BY <2>3, AssessingStays
  <2> QED BY <2>1, <2>2, <2>5
<1>2. CASE SchedulerNext
  <2>1. Touches
    BY <1>2 DEF SchedulerNext, Touches
  <2>2. CASE DaemonStep \/ EditCrontab
    <3>1. UNCHANGED <<host, assessment>> /\ SchedulerTyped' /\ Held'
      BY <2>2, DaemonStepKeeps, EditCrontabKeeps
    <3>2. ~touched' => ~touched /\ UNCHANGED schedule
      BY <2>1, <3>1 DEF Touches
    <3> QED BY <3>1, <3>2, AssessingStays
  <2>3. CASE NewSession
    <3>1. Assessing'
      BY <2>3 DEF NewSession, Unassessed, Assessing
    <3> QED BY <2>3, <3>1, NewSessionKeeps
  <2>4. CASE BeginAssess \/ AssessBackend \/ Decide
    BY <2>1, <2>4, BeginAssessKeeps, AssessBackendKeeps, DecideKeeps
  <2> QED BY <1>2, <2>2, <2>3, <2>4 DEF SchedulerNext, SchedulerStep, DaemonStep
<1> QED BY <1>1, <1>2

\* The scheduler by itself, as it starts and as it goes on.
SchedulerSpec == SchedulerInit /\ [][SchedulerNext]_schedulerVars

\* Whatever install, uninstall and their tools do, and fail to do, half way
\* (daemon.py), what runs by itself is run by a tool of the host, each job of
\* the crontab keeps a marker, and what an assessment that still goes on found
\* absent does not run unless the schedule has changed since it began
\* (assess_scheduler_quiescence).
THEOREM SchedulerInvariance == SchedulerSpec => []SchedulerInv
<1>1. SchedulerInit => SchedulerInv
  BY SchedulerInitInv
<1>2. SchedulerInv /\ [SchedulerNext]_schedulerVars => SchedulerInv'
  BY SchedulerStepKeeps
<1> QED BY <1>1, <1>2, PTL DEF SchedulerSpec

\* A migration that was told no scheduler would start maintenance was told the
\* truth: as long as nothing changed since the assessment began, none runs, not
\* one of the four backends, installed by halves or reported as removed
\* (SchedulerQuiescenceAssessment in scheduler_quiescence.py).
THEOREM QuiescentIsTrueHolds == SchedulerSpec => []QuiescentIsTrue
<1>1. SchedulerInv => QuiescentIsTrue
  BY DEF SchedulerInv, Assessing, QuiescentIsTrue
<1> QED BY <1>1, SchedulerInvariance, PTL

\* A step that is not of the user's and changes the crontab writes what install or
\* uninstall makes of the text that was listed.
LEMMA OnlyWriteCrontab ==
  ASSUME SchedulerTyped, edits \in Nat, [SchedulerNext]_schedulerVars
  PROVE  \/ crontab' = crontab
         \/ edits' # edits
         \/ crontab' = Updated(daemon.op, daemon.text)
<1>1. CASE UNCHANGED schedulerVars
  BY <1>1 DEF schedulerVars, schedule
<1>2. CASE DaemonStep
  BY <1>2 DEF DaemonStep, StartCommand, ToolMissing, WriteService, WriteTimer, Reload, Enable, Disable,
         UnlinkService, UnlinkTimer, ReloadLast, ListCrontab, WriteCrontab, WritePlist, Bootstrap,
         Kickstart, Bootout, UnlinkPlist, Register, Unregister, schedule
<1>3. CASE BeginAssess \/ AssessBackend \/ Decide
  BY <1>3 DEF BeginAssess, AssessBackend, Decide, schedule
<1>4. CASE EditCrontab \/ NewSession
  <2>1. edits' = edits + 1
    BY <1>4 DEF EditCrontab, NewSession
  <2> QED
    BY <2>1
<1> QED
  BY <1>1, <1>2, <1>3, <1>4 DEF SchedulerNext, SchedulerStep, DaemonStep

\* The user's edits are counted.
LEMMA EditsCounted ==
  /\ SchedulerInit => edits \in Nat
  /\ edits \in Nat /\ [SchedulerNext]_schedulerVars => edits' \in Nat
<1>1. SchedulerInit => edits \in Nat
  BY DEF SchedulerInit
<1>2. ASSUME edits \in Nat, [SchedulerNext]_schedulerVars PROVE edits' \in Nat
  <2>1. edits' = edits \/ edits' = edits + 1
    BY <1>2 DEF SchedulerNext, SchedulerStep, schedulerVars, StartCommand, ToolMissing, WriteService,
         WriteTimer, Reload, Enable, Disable, UnlinkService, UnlinkTimer, ReloadLast, ListCrontab,
         WriteCrontab, WritePlist, Bootstrap, Kickstart, Bootout, UnlinkPlist, Register, Unregister,
         BeginAssess, AssessBackend, Decide, EditCrontab, NewSession, At, bounds
  <2> QED
    BY <1>2, <2>1
<1> QED
  BY <1>1, <1>2

\* What install and uninstall write holds every line of the user's, in order, in a
\* crontab of any length that the program alone has marked, was listed and has not
\* been edited since (CronBackend in daemon.py).
THEOREM KeepsUserLinesHolds == SchedulerSpec => KeepsUserLines
<1>1. SchedulerSpec => [](SchedulerInv /\ edits \in Nat)
  <2>1. SchedulerInit => edits \in Nat
    BY EditsCounted
  <2>2. edits \in Nat /\ [SchedulerNext]_schedulerVars => (edits \in Nat)'
    BY EditsCounted
  <2> QED
    BY <2>1, <2>2, SchedulerInvariance, PTL DEF SchedulerSpec
<1>2. SchedulerInv /\ edits \in Nat /\ [SchedulerNext]_schedulerVars =>
        [daemon.at = "write" /\ daemon.listed /\ daemon.text = crontab /\ WellMarked(crontab)
           => SameUserLines(crontab, crontab') \/ edits' # edits]_schedulerVars
  <2> SUFFICES ASSUME SchedulerInv, edits \in Nat, [SchedulerNext]_schedulerVars,
                      daemon.text = crontab, WellMarked(crontab), edits' = edits
               PROVE  SameUserLines(crontab, crontab')
    OBVIOUS
  <2>1. crontab \in Seq(Line) /\ Marked(crontab)
    BY DEF SchedulerInv, SchedulerTyped, Held
  <2>2. CASE crontab' = crontab
    BY <2>2, SameAsItself
  <2>3. CASE crontab' = Updated(daemon.op, crontab)
    BY <2>1, <2>3, UpdatedKeepsLines
  <2> QED
    BY <2>2, <2>3, OnlyWriteCrontab DEF SchedulerInv
<1> QED
  BY <1>1, <1>2, PTL DEF KeepsUserLines, SchedulerSpec

-----------------------------------------------------------------------------
\* Claude's local activity: one collection beside Claude Code.

\* The state of Claude Code and of the collection.
LocalLine == [day : Nat, kind : LineKind]
CacheState == [boundary : Int, total : Nat, first : Int]
LocalResult == {"none", "summary", "malformed", "unreadable", "unavailable"}
ReadingState ==
  [pc : {"idle", "cache", "files", "collect", "done"}, today : Nat, cache : CacheState,
   left : SUBSET Transcript, total : Nat, since : Int, before : Nat, result : LocalResult]
LocalTyped ==
  /\ day \in Nat /\ present \in SUBSET Transcript
  /\ lines \in [Transcript -> Seq(LocalLine)]
  /\ unfinished \in [Transcript -> LocalLine \cup {NoLine}]
  /\ cache \in CacheState
  /\ cacheKind \in {"valid", "unreadable", "malformed"}
  /\ reading \in ReadingState

\* The day of an event, what happened before a day, and what the transcripts of a
\* period hold.
DayOf(e) == lines[e[1]][e[2]].day
Before(b) == {e \in Events : DayOf(e) < b}
Since(among, b, until) == {e \in Events : e[1] \in among /\ b <= DayOf(e) /\ DayOf(e) <= until}

\* Claude Code appends: what is being written belongs to today, and no line is
\* younger than the last one.
Appended ==
  \A f \in Transcript :
    /\ unfinished[f] # NoLine => unfinished[f].day = day
    /\ \A i \in DOMAIN lines[f] : lines[f][i].day <= lines[f][Len(lines[f])].day /\ lines[f][i].day <= day

\* A cache counts exactly what happened before the day that it names.
Counts(c) ==
  /\ c.total = Cardinality(Before(c.boundary))
  /\ c.first # NoDate => /\ \A e \in Before(c.boundary) : c.first <= DayOf(e)
                         /\ c.first < c.boundary

\* What is not on disk any more is in the cache.
Retained(b) ==
  \A f \in Transcript \ present :
    unfinished[f] = NoLine /\ \A i \in DOMAIN lines[f] : lines[f][i].day < b

Cached == IsFiniteSet(Events) /\ cache.boundary <= day /\ Counts(cache) /\ Retained(cache.boundary)

\* What a collection has counted, and what is left for it to count, is all that had
\* happened when it began, and each event once.
CollectedBy(r) ==
  LET b == r.cache.boundary IN
  /\ r.pc \in {"cache", "files", "collect"} => r.today <= day
  /\ r.pc \in {"idle", "cache", "files"} => r.total = 0 /\ r.since = NoDate
  /\ r.pc \in {"cache", "files"} => r.before <= Cardinality(Before(r.today + 1))
  /\ r.pc \in {"files", "collect"} => b <= r.today /\ Counts(r.cache) /\ Retained(b)
  /\ r.pc = "collect" =>
       /\ r.before <= r.cache.total + r.total + Cardinality(Since(r.left, b, r.today))
       /\ r.total <= Cardinality({e \in Events : /\ e[1] \notin r.left /\ b <= DayOf(e)
                                                 /\ r.since # NoDate /\ r.since <= DayOf(e)})
  /\ r.pc = "done" /\ r.result = "summary" =>
       /\ r.before <= r.total
       /\ r.total <= Cardinality({e \in Events : r.since = NoDate \/ r.since <= DayOf(e)})
Collected == CollectedBy(reading)

\* The inductive invariant.
LocalInv == LocalTyped /\ Appended /\ Cached /\ Collected

\* A collection beside Claude Code.
LocalSpec == LocalInit /\ [][LocalNext]_localVars

\* A line has a day.
LEMMA LinesHaveDays ==
  ASSUME LocalTyped
  PROVE  \A f \in Transcript : \A i \in DOMAIN lines[f] : lines[f][i] \in LocalLine /\ lines[f][i].day \in Nat
<1> SUFFICES ASSUME NEW f \in Transcript, NEW i \in DOMAIN lines[f]
             PROVE  lines[f][i] \in LocalLine /\ lines[f][i].day \in Nat
  OBVIOUS
<1>1. lines[f] \in Seq(LocalLine)
  BY DEF LocalTyped
<1>2. lines[f][i] \in LocalLine
  BY <1>1
<1> QED
  BY <1>2 DEF LocalLine

\* An event is a line that counts, by its file and its place there.
LEMMA EventsAre ==
  ASSUME LocalTyped
  PROVE  /\ \A f \in Transcript : \A i \in DOMAIN lines[f] : Happened(f, i) => <<f, i>> \in Events
         /\ \A e \in Events :
              /\ e[1] \in Transcript /\ e[2] \in DOMAIN lines[e[1]] /\ e = <<e[1], e[2]>>
              /\ Happened(e[1], e[2]) /\ DayOf(e) \in Nat
<1>1. ASSUME NEW f \in Transcript, NEW i \in DOMAIN lines[f], Happened(f, i) PROVE <<f, i>> \in Events
  BY <1>1 DEF Events
<1>2. ASSUME NEW e \in Events
      PROVE  /\ e[1] \in Transcript /\ e[2] \in DOMAIN lines[e[1]] /\ e = <<e[1], e[2]>>
             /\ Happened(e[1], e[2]) /\ DayOf(e) \in Nat
  <2>1. PICK f \in Transcript : \E i \in DOMAIN lines[f] : e = <<f, i>> /\ Happened(f, i)
    BY <1>2 DEF Events
  <2>2. PICK i \in DOMAIN lines[f] : e = <<f, i>> /\ Happened(f, i)
    BY <2>1
  <2>3. e[1] = f /\ e[2] = i
    BY <2>2
  <2>4. lines[f][i] \in LocalLine
    BY <2>2 DEF LocalTyped
  <2>5. DayOf(e) \in Nat
    BY <2>3, <2>4 DEF DayOf, LocalLine
  <2> QED
    BY <2>2, <2>3, <2>5
<1> QED
  BY <1>1, <1>2

\* Nothing that happened is forgotten, and what happens belongs to today.
Grows ==
  /\ Events \subseteq Events' /\ IsFiniteSet(Events')
  /\ \A e \in Events : lines'[e[1]][e[2]].day = lines[e[1]][e[2]].day
  /\ \A e \in Events' : lines'[e[1]][e[2]].day \in Nat
  /\ \A e \in Events' \ Events : lines'[e[1]][e[2]].day = day

\* Where no line is added, nothing happens.
LEMMA NoLines ==
  ASSUME LocalInv, lines' = lines
  PROVE  Grows /\ Events' = Events
<1>1. Events' = Events
  BY DEF Events, Happened
<1> QED
  BY <1>1, EventsAre DEF Grows, LocalInv, Cached, DayOf

\* A line that is ended happens today.
LEMMA LineIsAdded ==
  ASSUME LocalInv, NEW f \in Transcript, EndLine(f)
  PROVE  Grows
<1> DEFINE n == Len(lines[f]) + 1
<1>1. /\ lines[f] \in Seq(LocalLine) /\ unfinished[f] \in LocalLine /\ unfinished[f].day = day
      /\ DOMAIN lines = Transcript /\ DOMAIN lines[f] = 1..Len(lines[f])
  BY DEF LocalInv, LocalTyped, Appended, EndLine
<1>2. /\ \A g \in Transcript \ {f} : lines'[g] = lines[g]
      /\ lines'[f] = Append(lines[f], unfinished[f])
  BY <1>1 DEF EndLine
<1>3. /\ DOMAIN lines'[f] = DOMAIN lines[f] \cup {n}
      /\ \A i \in DOMAIN lines[f] : lines'[f][i] = lines[f][i] /\ i # n
      /\ lines'[f][n] = unfinished[f]
  BY <1>1, <1>2
<1> HIDE DEF n
<1>4. \A e : e \in Events <=> \E g \in Transcript : \E i \in DOMAIN lines[g] : e = <<g, i>> /\ Happened(g, i)
  BY DEF Events
<1>5. \A e : e \in Events' <=>
               \E g \in Transcript : \E i \in DOMAIN lines'[g] :
                 e = <<g, i>> /\ (lines'[g][i].kind = "assistant" \/ (lines'[g][i].kind = "sidechain" /\ g \in SubagentFile))
  BY DEF Events, Happened
<1>6. Events \subseteq Events'
  <2> SUFFICES ASSUME NEW e \in Events PROVE e \in Events'
    OBVIOUS
  <2>1. PICK g \in Transcript : \E i \in DOMAIN lines[g] : e = <<g, i>> /\ Happened(g, i)
    BY <1>4
  <2>2. PICK i \in DOMAIN lines[g] : e = <<g, i>> /\ Happened(g, i)
    BY <2>1
  <2>3. i \in DOMAIN lines'[g] /\ lines'[g][i] = lines[g][i]
    BY <1>2, <1>3
  <2> QED
    BY <1>5, <2>2, <2>3 DEF Happened
<1>7. \A e \in Events' : e \in Events \/ e = <<f, n>>
  BY <1>2, <1>3, <1>4, <1>5 DEF Happened
<1>8. Events' = Events \/ Events' = Events \cup {<<f, n>>}
  BY <1>6, <1>7
<1>9. IsFiniteSet(Events) /\ IsFiniteSet(Events \cup {<<f, n>>})
  BY FS_AddElement DEF LocalInv, Cached
<1>10. \A e \in Events : e[1] \in Transcript /\ e[2] \in DOMAIN lines[e[1]] /\ DayOf(e) \in Nat
  BY EventsAre DEF LocalInv
<1>11. \A e \in Events : lines'[e[1]][e[2]] = lines[e[1]][e[2]]
  <2> SUFFICES ASSUME NEW e \in Events PROVE lines'[e[1]][e[2]] = lines[e[1]][e[2]]
    OBVIOUS
  <2>1. CASE e[1] = f
    BY <1>3, <1>10, <2>1
  <2>2. CASE e[1] # f
    BY <1>2, <1>10, <2>2
  <2> QED
    BY <2>1, <2>2
<1>12. lines'[<<f, n>>[1]][<<f, n>>[2]].day = day /\ day \in Nat
  BY <1>1, <1>3 DEF LocalInv, LocalTyped
<1> QED
  BY <1>6, <1>7, <1>8, <1>9, <1>10, <1>11, <1>12 DEF Grows, DayOf

\* What is counted of the past stays, and more events are never fewer.
LEMMA CountsGrow ==
  ASSUME LocalInv, Grows
  PROVE  /\ \A b \in Int : b <= day =>
              {e \in Events' : lines'[e[1]][e[2]].day < b} = {e \in Events : lines[e[1]][e[2]].day < b}
         /\ \A S, T : S \subseteq T /\ T \subseteq Events' =>
              Cardinality(S) <= Cardinality(T) /\ Cardinality(S) \in Nat /\ Cardinality(T) \in Nat
<1>1. ASSUME NEW S, NEW T, S \subseteq T, T \subseteq Events'
      PROVE  Cardinality(S) <= Cardinality(T) /\ Cardinality(S) \in Nat /\ Cardinality(T) \in Nat
  <2>1. IsFiniteSet(T) /\ IsFiniteSet(S)
    BY <1>1, FS_Subset DEF Grows
  <2> QED
    BY <1>1, <2>1, FS_Subset, FS_CardinalityType
<1>2. day \in Nat
  BY DEF LocalInv, LocalTyped
<1>3. \A b \in Int : b <= day =>
        {e \in Events' : lines'[e[1]][e[2]].day < b} = {e \in Events : lines[e[1]][e[2]].day < b}
  BY <1>2 DEF Grows
<1> QED
  BY <1>1, <1>3

\* What a collection knows stays true while Claude Code goes on, as long as what it
\* has not read stays on disk.
LEMMA CollectedGrows ==
  ASSUME LocalInv, Grows, reading' = reading, day' \in Nat, day <= day',
         reading.pc \in {"files", "collect"} =>
           \A f \in Transcript \ present' :
             unfinished'[f] = NoLine /\ \A i \in DOMAIN lines'[f] : lines'[f][i].day < reading.cache.boundary
  PROVE  Collected'
<1> DEFINE b == reading.cache.boundary
           C(n) == {e \in Events : lines[e[1]][e[2]].day < n}
           D(n) == {e \in Events' : lines'[e[1]][e[2]].day < n}
<1>1. /\ reading.today \in Nat /\ reading.cache.total \in Nat /\ reading.total \in Nat /\ reading.before \in Nat
      /\ b \in Int /\ reading.cache.first \in Int /\ reading.since \in Int /\ day \in Nat
  BY DEF LocalInv, LocalTyped, ReadingState, CacheState
<1>2. reading'.cache.boundary = b
  OBVIOUS
<1>3. \A S : S \subseteq Events' => Cardinality(S) \in Nat
  BY FS_Subset, FS_CardinalityType DEF Grows
<1>4. \A S : S \subseteq Events => Cardinality(S) \in Nat
  BY <1>3 DEF Grows
<1>5. /\ reading.pc \in {"cache", "files", "collect"} => reading.today <= day'
      /\ reading.pc \in {"idle", "cache", "files"} => reading.total = 0 /\ reading.since = NoDate
  BY <1>1 DEF LocalInv, Collected, CollectedBy
<1>6. reading.pc \in {"cache", "files"} =>
        reading.before <= Cardinality(D(reading.today + 1))
  <2>1. Cardinality(C(reading.today + 1)) <= Cardinality(D(reading.today + 1))
    <3>1. C(reading.today + 1) \subseteq D(reading.today + 1) /\ D(reading.today + 1) \subseteq Events'
      BY DEF Grows
    <3> HIDE DEF C, D
    <3> QED
      BY <3>1, CountsGrow
  <2>2. C(reading.today + 1) = Before(reading.today + 1)
    BY DEF Before, DayOf
  <2>3. Cardinality(C(reading.today + 1)) \in Nat /\ Cardinality(D(reading.today + 1)) \in Nat
    BY <1>3, <1>4
  <2>4. reading.pc \in {"cache", "files"} =>
          reading.before <= Cardinality(C(reading.today + 1))
    BY <2>2 DEF LocalInv, Collected, CollectedBy
  <2> HIDE DEF C, D
  <2> QED
    BY <1>1, <2>1, <2>3, <2>4
<1>7. reading.pc \in {"files", "collect"} =>
        /\ b <= reading.today
        /\ reading.cache.total = Cardinality(D(b))
        /\ reading.cache.first # NoDate => /\ \A e \in D(b) : reading.cache.first <= lines'[e[1]][e[2]].day
                                           /\ reading.cache.first < b
  <2> SUFFICES ASSUME reading.pc \in {"files", "collect"} PROVE
        /\ b <= reading.today
        /\ reading.cache.total = Cardinality(D(b))
        /\ reading.cache.first # NoDate => /\ \A e \in D(b) : reading.cache.first <= lines'[e[1]][e[2]].day
                                           /\ reading.cache.first < b
    OBVIOUS
  <2>1. b <= reading.today /\ b <= day /\ Counts(reading.cache)
    BY <1>1 DEF LocalInv, Collected, CollectedBy
  <2>2. D(b) = C(b) /\ C(b) = Before(b)
    BY <1>1, <2>1, CountsGrow DEF Before, DayOf
  <2>3. \A e \in C(b) : lines'[e[1]][e[2]].day = lines[e[1]][e[2]].day
    BY DEF Grows
  <2> QED
    BY <2>1, <2>2, <2>3 DEF Counts, DayOf
<1>8. reading.pc = "collect" =>
        /\ reading.before <= reading.cache.total + reading.total
             + Cardinality({e \in Events' : e[1] \in reading.left /\ b <= lines'[e[1]][e[2]].day /\ lines'[e[1]][e[2]].day <= reading.today})
        /\ reading.total <= Cardinality({e \in Events' : /\ e[1] \notin reading.left /\ b <= lines'[e[1]][e[2]].day
                                             /\ reading.since # NoDate /\ reading.since <= lines'[e[1]][e[2]].day})
  <2> DEFINE L == {e \in Events : e[1] \in reading.left /\ b <= lines[e[1]][e[2]].day /\ lines[e[1]][e[2]].day <= reading.today}
             M == {e \in Events' : e[1] \in reading.left /\ b <= lines'[e[1]][e[2]].day /\ lines'[e[1]][e[2]].day <= reading.today}
             T == {e \in Events : e[1] \notin reading.left /\ b <= lines[e[1]][e[2]].day /\ reading.since # NoDate /\ reading.since <= lines[e[1]][e[2]].day}
             V == {e \in Events' : e[1] \notin reading.left /\ b <= lines'[e[1]][e[2]].day /\ reading.since # NoDate /\ reading.since <= lines'[e[1]][e[2]].day}
  <2>1. L = Since(reading.left, b, reading.today)
    BY DEF Since, DayOf
  <2>2. T = {e \in Events : e[1] \notin reading.left /\ b <= DayOf(e) /\ reading.since # NoDate /\ reading.since <= DayOf(e)}
    BY DEF DayOf
  <2>3. Cardinality(L) <= Cardinality(M) /\ Cardinality(T) <= Cardinality(V)
    <3>1. L \subseteq M /\ T \subseteq V /\ M \subseteq Events' /\ V \subseteq Events'
      BY DEF Grows
    <3> HIDE DEF L, M, T, V
    <3> QED
      BY <3>1, CountsGrow
  <2>4. Cardinality(L) \in Nat /\ Cardinality(M) \in Nat /\ Cardinality(T) \in Nat /\ Cardinality(V) \in Nat
    BY <1>3, <1>4
  <2>5. reading.pc = "collect" => reading.before <= reading.cache.total + reading.total + Cardinality(L) /\ reading.total <= Cardinality(T)
    BY <2>1, <2>2 DEF LocalInv, Collected, CollectedBy
  <2> HIDE DEF L, M, T, V, b
  <2>6. reading.pc = "collect" => reading.before <= reading.cache.total + reading.total + Cardinality(M) /\ reading.total <= Cardinality(V)
    BY <1>1, <2>3, <2>4, <2>5
  <2> QED
    BY <2>6 DEF M, V, b
<1>9. reading.pc = "done" /\ reading.result = "summary" =>
        /\ reading.before <= reading.total
        /\ reading.total <= Cardinality({e \in Events' : reading.since = NoDate \/ reading.since <= lines'[e[1]][e[2]].day})
  <2> DEFINE T == {e \in Events : reading.since = NoDate \/ reading.since <= lines[e[1]][e[2]].day}
             V == {e \in Events' : reading.since = NoDate \/ reading.since <= lines'[e[1]][e[2]].day}
  <2>1. T = {e \in Events : reading.since = NoDate \/ reading.since <= DayOf(e)}
    BY DEF DayOf
  <2>2. Cardinality(T) <= Cardinality(V) /\ Cardinality(T) \in Nat /\ Cardinality(V) \in Nat
    <3>1. T \subseteq V /\ V \subseteq Events'
      BY DEF Grows
    <3> HIDE DEF T, V
    <3> QED
      BY <3>1, CountsGrow
  <2>3. reading.pc = "done" /\ reading.result = "summary" => reading.before <= reading.total /\ reading.total <= Cardinality(T)
    BY <2>1 DEF LocalInv, Collected, CollectedBy
  <2> HIDE DEF T, V
  <2>4. reading.pc = "done" /\ reading.result = "summary" => reading.before <= reading.total /\ reading.total <= Cardinality(V)
    BY <1>1, <2>2, <2>3
  <2> QED
    BY <2>4 DEF V
<1> HIDE DEF C
<1> QED
  BY <1>5, <1>6, <1>7, <1>8, <1>9 DEF Collected, CollectedBy, Before, Since, Counts, Retained, DayOf

\* So does the cache of Claude Code, as long as it is left alone.
LEMMA CacheGrows ==
  ASSUME LocalInv, Grows, cache' = cache, day' \in Nat, day <= day',
         \A f \in Transcript \ present' :
           unfinished'[f] = NoLine /\ \A i \in DOMAIN lines'[f] : lines'[f][i].day < cache.boundary
  PROVE  Cached'
<1> DEFINE b == cache.boundary
           C == {e \in Events : lines[e[1]][e[2]].day < b}
           D == {e \in Events' : lines'[e[1]][e[2]].day < b}
<1>1. b \in Int /\ day \in Nat /\ b <= day /\ Counts(cache)
  BY DEF LocalInv, LocalTyped, ReadingState, CacheState, Cached
<1>2. D = C /\ C = Before(b)
  BY <1>1, CountsGrow DEF Before, DayOf
<1>3. \A e \in C : lines'[e[1]][e[2]].day = lines[e[1]][e[2]].day
  BY DEF Grows
<1>4. /\ cache.total = Cardinality(D)
      /\ cache.first # NoDate => (\A e \in D : cache.first <= lines'[e[1]][e[2]].day) /\ cache.first < b
  BY <1>1, <1>2, <1>3 DEF Counts, DayOf
<1>5. b <= day'
  BY <1>1
<1> HIDE DEF C
<1> QED
  BY <1>4, <1>5 DEF Cached, Counts, Before, Retained, DayOf, Grows

-----------------------------------------------------------------------------
\* Claude Code, one action after the other.

\* A line that is begun is no event yet.
LEMMA BeginLineKeeps ==
  ASSUME LocalInv, NEW f \in Transcript, NEW kind \in LineKind, BeginLine(f, kind)
  PROVE  LocalInv'
<1> DEFINE line == [day |-> day, kind |-> kind]
<1>1. /\ lines' = lines /\ day' = day /\ cache' = cache /\ reading' = reading /\ cacheKind' = cacheKind
      /\ present' = present \cup {f} /\ unfinished' = [unfinished EXCEPT ![f] = line]
  BY DEF BeginLine
<1>2. line \in LocalLine /\ line.day = day
  BY DEF LocalInv, LocalTyped, LocalLine
<1> HIDE DEF line
<1>3. unfinished'[f] = line /\ \A g \in Transcript \ {f} : unfinished'[g] = unfinished[g]
  BY <1>1 DEF LocalInv, LocalTyped
<1>4. LocalTyped'
  BY <1>1, <1>2 DEF LocalInv, LocalTyped
<1>5. Appended'
  BY <1>1, <1>2, <1>3 DEF LocalInv, Appended
<1>6. Grows
  BY <1>1, NoLines
<1>7. day \in Nat /\ \A g \in Transcript \ present' : g \in Transcript \ present /\ unfinished'[g] = unfinished[g]
  BY <1>1, <1>3 DEF LocalInv, LocalTyped
<1>8. Cached'
  BY <1>1, <1>6, <1>7, CacheGrows DEF LocalInv, Cached, Retained
<1>9. Collected'
  BY <1>1, <1>6, <1>7, CollectedGrows DEF LocalInv, Collected, CollectedBy, Retained
<1> QED
  BY <1>4, <1>5, <1>8, <1>9 DEF LocalInv

\* A transcript that is being written is on disk, and its line is of today.
LEMMA EndLineKeeps ==
  ASSUME LocalInv, NEW f \in Transcript, EndLine(f)
  PROVE  LocalInv'
<1>1. /\ lines' = [lines EXCEPT ![f] = Append(lines[f], unfinished[f])]
      /\ unfinished' = [unfinished EXCEPT ![f] = NoLine]
      /\ unfinished[f] # NoLine
      /\ day' = day /\ cache' = cache /\ reading' = reading /\ present' = present /\ cacheKind' = cacheKind
  BY DEF EndLine
<1>2. lines[f] \in Seq(LocalLine) /\ unfinished[f] \in LocalLine /\ unfinished[f].day = day /\ day \in Nat
  BY <1>1 DEF LocalInv, LocalTyped, Appended
<1>3. /\ Append(lines[f], unfinished[f]) \in Seq(LocalLine) /\ NoLine \in LocalLine \cup {NoLine}
      /\ Len(Append(lines[f], unfinished[f])) = Len(lines[f]) + 1
      /\ DOMAIN lines[f] = 1..Len(lines[f]) /\ DOMAIN Append(lines[f], unfinished[f]) = 1..(Len(lines[f]) + 1)
      /\ \A i \in 1..Len(lines[f]) : Append(lines[f], unfinished[f])[i] = lines[f][i]
      /\ Append(lines[f], unfinished[f])[Len(lines[f]) + 1] = unfinished[f]
  BY <1>2
<1>4. /\ lines'[f] = Append(lines[f], unfinished[f]) /\ unfinished'[f] = NoLine
      /\ \A g \in Transcript \ {f} : lines'[g] = lines[g] /\ unfinished'[g] = unfinished[g]
  BY <1>1 DEF LocalInv, LocalTyped
<1>5. LocalTyped'
  <2>1. lines' \in [Transcript -> Seq(LocalLine)]
    BY <1>1, <1>3 DEF LocalInv, LocalTyped
  <2>2. unfinished' \in [Transcript -> LocalLine \cup {NoLine}]
    BY <1>1, <1>3 DEF LocalInv, LocalTyped
  <2> QED
    BY <1>1, <2>1, <2>2 DEF LocalInv, LocalTyped
<1>6. Appended'
  <2>1. ASSUME NEW i \in DOMAIN lines'[f]
        PROVE  lines'[f][i].day <= lines'[f][Len(lines'[f])].day /\ lines'[f][i].day <= day
    <3>1. lines'[f][Len(lines'[f])].day = day
      BY <1>2, <1>3, <1>4
    <3>2. i \in 1..Len(lines[f]) \/ i = Len(lines[f]) + 1
      BY <1>2, <1>3, <1>4
    <3>3. lines'[f][i].day <= day
      BY <1>2, <1>3, <1>4, <3>2 DEF LocalInv, Appended
    <3> QED
      BY <3>1, <3>3
  <2>2. ASSUME NEW g \in Transcript \ {f}
        PROVE  /\ unfinished'[g] # NoLine => unfinished'[g].day = day'
               /\ \A i \in DOMAIN lines'[g] : lines'[g][i].day <= lines'[g][Len(lines'[g])].day /\ lines'[g][i].day <= day'
    BY <1>1, <1>4 DEF LocalInv, Appended
  <2> QED
    BY <1>1, <1>4, <2>1, <2>2 DEF Appended
<1>7. Grows
  BY LineIsAdded
<1>8. \A g \in Transcript \ present' : g \in Transcript \ present /\ unfinished'[g] = unfinished[g] /\ lines'[g] = lines[g]
  BY <1>1, <1>4 DEF LocalInv, Cached, Retained
<1>9. Cached'
  BY <1>1, <1>2, <1>7, <1>8, CacheGrows DEF LocalInv, Cached, Retained
<1>10. Collected'
  BY <1>1, <1>2, <1>7, <1>8, CollectedGrows DEF LocalInv, Collected, CollectedBy, Retained
<1> QED
  BY <1>5, <1>6, <1>9, <1>10 DEF LocalInv

\* A new day begins when no line is being written.
LEMMA MidnightKeeps ==
  ASSUME LocalInv, Midnight
  PROVE  LocalInv'
<1>1. /\ lines' = lines /\ day' = day + 1 /\ cache' = cache /\ reading' = reading /\ present' = present /\ cacheKind' = cacheKind
      /\ unfinished' = unfinished /\ \A f \in Transcript : unfinished[f] = NoLine
  BY DEF Midnight
<1>2. day \in Nat /\ day' \in Nat /\ day <= day'
  BY <1>1 DEF LocalInv, LocalTyped
<1>3. LocalTyped'
  BY <1>1, <1>2 DEF LocalInv, LocalTyped
<1>4. \A f \in Transcript : \A i \in DOMAIN lines[f] : lines[f][i].day \in Nat
  BY LinesHaveDays DEF LocalInv
<1>5. Appended'
  BY <1>1, <1>2, <1>4 DEF LocalInv, Appended
<1>6. Grows
  BY <1>1, NoLines
<1>7. Cached'
  BY <1>1, <1>2, <1>6, CacheGrows DEF LocalInv, Cached, Retained
<1>8. Collected'
  BY <1>1, <1>2, <1>6, CollectedGrows DEF LocalInv, Collected, CollectedBy, Retained
<1> QED
  BY <1>3, <1>5, <1>7, <1>8 DEF LocalInv

\* The cache that replaces another one counts every event before its day once, and
\* what is not on disk happened before the day of the one that it replaces.
LEMMA RecomputeKeeps ==
  ASSUME LocalInv, Recompute
  PROVE  LocalInv'
<1> DEFINE covered == {e \in Events : lines[e[1]][e[2]].day < day}
           days == {lines[e[1]][e[2]].day : e \in covered}
           first == IF covered = {} THEN NoDate ELSE Min(days)
<1>1. PICK known \in BOOLEAN :
        /\ cache' = [boundary |-> day, total |-> Cardinality(covered), first |-> IF known THEN first ELSE NoDate]
        /\ cache.boundary < day
        /\ lines' = lines /\ day' = day /\ present' = present /\ unfinished' = unfinished /\ reading' = reading /\ cacheKind' = "valid"
  BY DEF Recompute
<1>2. day \in Nat /\ \A e \in Events : lines[e[1]][e[2]].day \in Nat
  BY EventsAre DEF LocalInv, LocalTyped, DayOf
<1>3. IsFiniteSet(covered) /\ Cardinality(covered) \in Nat
  BY FS_Subset, FS_CardinalityType DEF LocalInv, Cached
<1>4. first \in Int /\ (first # NoDate => (\A e \in covered : first <= lines[e[1]][e[2]].day) /\ first < day)
  <2>1. CASE covered = {}
    BY <2>1 DEF NoDate
  <2>2. CASE covered # {}
    <3>1. days \in SUBSET Nat /\ days # {} /\ \A d \in days : d < day
      BY <1>2, <2>2
    <3>2. PICK x \in days : \A y \in days : x <= y
      <4> HIDE DEF days
      <4> QED
        BY <3>1, Least
    <3>3. Min(days) \in days /\ \A y \in days : Min(days) <= y
      <4> HIDE DEF days
      <4> QED
        BY <3>2 DEF Min
    <3> QED
      BY <1>2, <2>2, <3>1, <3>3
  <2> QED
    BY <2>1, <2>2
<1>5. Events' = Events /\ Grows
  BY <1>1, NoLines
<1>6. covered = Before(day) /\ covered = {e \in Events' : lines'[e[1]][e[2]].day < day}
  BY <1>1, <1>5 DEF Before, DayOf
<1> HIDE DEF covered, first
<1>7. /\ cache'.boundary = day /\ cache'.total = Cardinality(covered) /\ cache'.first \in {first, NoDate}
      /\ cache' \in CacheState
  BY <1>1, <1>2, <1>3, <1>4 DEF NoDate, CacheState
<1>8. LocalTyped'
  BY <1>1, <1>7 DEF LocalInv, LocalTyped
<1>9. Appended'
  BY <1>1 DEF LocalInv, Appended
<1>10. Cached'
  <2>1. IsFiniteSet(Events') /\ cache'.boundary <= day'
    BY <1>1, <1>2, <1>5, <1>7 DEF LocalInv, Cached
  <2>2. cache'.first # NoDate => /\ \A e \in covered : cache'.first <= lines'[e[1]][e[2]].day
                                 /\ cache'.first < cache'.boundary
    BY <1>1, <1>4, <1>7
  <2>3. \A f \in Transcript \ present' :
          unfinished'[f] = NoLine /\ \A i \in DOMAIN lines'[f] : lines'[f][i].day < cache'.boundary
    <3>1. \A f \in Transcript : \A i \in DOMAIN lines[f] : lines[f][i].day \in Nat
      BY LinesHaveDays DEF LocalInv
    <3>2. cache.boundary \in Int
      BY DEF LocalInv, LocalTyped, ReadingState, CacheState
    <3> QED
      BY <1>1, <1>2, <1>7, <3>1, <3>2 DEF LocalInv, Cached, Retained
  <2> QED
    BY <1>6, <1>7, <2>1, <2>2, <2>3 DEF Cached, Counts, Before, Retained, DayOf
<1>11. Collected'
  BY <1>1, <1>2, <1>5, CollectedGrows DEF LocalInv, Collected, CollectedBy, Retained
<1> QED
  BY <1>8, <1>9, <1>10, <1>11 DEF LocalInv

\* A damaged cache is still known for what it was.
LEMMA CacheDamagedKeeps ==
  ASSUME LocalInv, CacheDamaged
  PROVE  LocalInv'
<1>1. /\ lines' = lines /\ day' = day /\ cache' = cache /\ reading' = reading /\ present' = present
      /\ unfinished' = unfinished /\ cacheKind' \in {"unreadable", "malformed"}
  BY DEF CacheDamaged
<1>2. LocalTyped' /\ Appended' /\ day \in Nat
  BY <1>1 DEF LocalInv, LocalTyped, Appended
<1>3. Grows
  BY <1>1, NoLines
<1>4. Cached'
  BY <1>1, <1>2, <1>3, CacheGrows DEF LocalInv, Cached, Retained
<1>5. Collected'
  BY <1>1, <1>2, <1>3, CollectedGrows DEF LocalInv, Collected, CollectedBy, Retained
<1> QED
  BY <1>2, <1>4, <1>5 DEF LocalInv

\* What is removed is older than the cache, and than the one a collection read.
LEMMA RetireKeeps ==
  ASSUME LocalInv, NEW f \in Transcript, Retire(f)
  PROVE  LocalInv'
<1>1. /\ lines' = lines /\ day' = day /\ cache' = cache /\ reading' = reading /\ unfinished' = unfinished /\ cacheKind' = cacheKind
      /\ present' = present \ {f} /\ lines[f] # <<>> /\ unfinished[f] = NoLine
      /\ Modified(f) < cache.boundary
      /\ reading.pc \in {"files", "collect"} => Modified(f) < reading.cache.boundary
  BY DEF Retire
<1>2. LocalTyped' /\ Appended' /\ day \in Nat
  BY <1>1 DEF LocalInv, LocalTyped, Appended
<1>3. Grows
  BY <1>1, NoLines
<1>4. lines[f] \in Seq(LocalLine) /\ cache.boundary \in Int /\ reading.cache.boundary \in Int
  BY DEF LocalInv, LocalTyped, ReadingState, CacheState
<1>5. /\ Len(lines[f]) \in DOMAIN lines[f] /\ Modified(f) = lines[f][Len(lines[f])].day
      /\ \A i \in DOMAIN lines[f] : lines[f][i].day \in Nat
  BY <1>1, <1>4, LinesHaveDays DEF Modified, LocalInv
<1>6. \A i \in DOMAIN lines[f] : lines[f][i].day <= Modified(f)
  BY <1>5 DEF LocalInv, Appended
<1>7. \A n \in Int : Modified(f) < n => \A i \in DOMAIN lines[f] : lines[f][i].day < n
  BY <1>5, <1>6
<1>8. \A g \in Transcript \ present' : g = f \/ g \in Transcript \ present
  BY <1>1
<1>9. Cached'
  BY <1>1, <1>2, <1>3, <1>4, <1>7, <1>8, CacheGrows DEF LocalInv, Cached, Retained
<1>10. Collected'
  BY <1>1, <1>2, <1>3, <1>4, <1>7, <1>8, CollectedGrows DEF LocalInv, Collected, CollectedBy, Retained
<1> QED
  BY <1>2, <1>9, <1>10 DEF LocalInv

-----------------------------------------------------------------------------
\* One collection, one step after the other.

\* While Claude Code stands still, what a collection comes to know is compared with
\* what had happened already.
LEMMA OnlyReading ==
  ASSUME LocalInv, UNCHANGED claudeCode, NEW r, reading' = r, CollectedBy(r),
         r \in ReadingState
  PROVE  LocalInv'
<1>1. /\ lines' = lines /\ day' = day /\ cache' = cache /\ present' = present
      /\ unfinished' = unfinished /\ cacheKind' = cacheKind
  BY DEF claudeCode
<1>2. LocalTyped' /\ Appended' /\ day \in Nat
  BY <1>1 DEF LocalInv, LocalTyped, Appended
<1>3. Events' = Events /\ Grows
  BY <1>1, NoLines
<1>4. Cached'
  BY <1>1, <1>2, <1>3, CacheGrows DEF LocalInv, Cached, Retained
<1>5. Collected'
  BY <1>1, <1>3 DEF Collected, CollectedBy, Before, Since, Counts, Retained, DayOf
<1> QED
  BY <1>2, <1>4, <1>5 DEF LocalInv

\* A collection that ends without a summary says nothing.
LEMMA EndsKeeps ==
  ASSUME LocalInv, UNCHANGED claudeCode, NEW result \in LocalResult, result # "summary", Ends(result)
  PROVE  LocalInv'
<1> DEFINE r == [reading EXCEPT !.pc = "done", !.result = result]
<1>1. /\ r.pc = "done" /\ r.result = result
      /\ r \in ReadingState
  BY DEF LocalInv, LocalTyped, ReadingState, CacheState
<1>2. reading' = r
  BY DEF Ends
<1> HIDE DEF r
<1>3. CollectedBy(r)
  BY <1>1 DEF CollectedBy
<1> QED
  BY <1>1, <1>2, <1>3, OnlyReading

\* Cardinalities of what happened.
LEMMA EventSets ==
  ASSUME LocalInv
  PROVE  /\ \A S : S \subseteq Events => IsFiniteSet(S) /\ Cardinality(S) \in Nat
         /\ \A S, T : S \subseteq T /\ T \subseteq Events => Cardinality(S) <= Cardinality(T)
         /\ \A S, T, U : S \subseteq Events /\ T \subseteq Events /\ U \subseteq S \cup T =>
              Cardinality(U) <= Cardinality(S) + Cardinality(T)
         /\ \A S, T, U : S \cap T = {} /\ S \cup T \subseteq U /\ U \subseteq Events =>
              Cardinality(S) + Cardinality(T) <= Cardinality(U)
<1>1. IsFiniteSet(Events)
  BY DEF LocalInv, Cached
<1>2. ASSUME NEW S, S \subseteq Events PROVE IsFiniteSet(S) /\ Cardinality(S) \in Nat
  BY <1>1, <1>2, FS_Subset, FS_CardinalityType
<1>3. ASSUME NEW S, NEW T, S \subseteq T, T \subseteq Events PROVE Cardinality(S) <= Cardinality(T)
  BY <1>2, <1>3, FS_Subset
<1>4. ASSUME NEW S, NEW T, S \subseteq Events, T \subseteq Events
      PROVE  /\ Cardinality(S \cup T) = Cardinality(S) + Cardinality(T) - Cardinality(S \cap T)
             /\ Cardinality(S) \in Nat /\ Cardinality(T) \in Nat /\ Cardinality(S \cap T) \in Nat
             /\ Cardinality(S \cup T) \in Nat
  <2>1. IsFiniteSet(S) /\ IsFiniteSet(T)
    BY <1>2, <1>4
  <2>2. Cardinality(S \cup T) = Cardinality(S) + Cardinality(T) - Cardinality(S \cap T)
    BY <2>1, FS_Union
  <2>3. S \cap T \subseteq Events /\ S \cup T \subseteq Events
    BY <1>4
  <2> QED
    BY <1>2, <1>4, <2>2, <2>3
<1>5. ASSUME NEW S, NEW T, NEW U, S \subseteq Events, T \subseteq Events, U \subseteq S \cup T
      PROVE  Cardinality(U) <= Cardinality(S) + Cardinality(T)
  <2>1. S \cup T \subseteq Events /\ U \subseteq Events
    BY <1>5
  <2>2. Cardinality(U) <= Cardinality(S \cup T) /\ Cardinality(U) \in Nat
    BY <1>2, <1>3, <1>5, <2>1
  <2>3. /\ Cardinality(S \cup T) = Cardinality(S) + Cardinality(T) - Cardinality(S \cap T)
        /\ Cardinality(S) \in Nat /\ Cardinality(T) \in Nat /\ Cardinality(S \cap T) \in Nat
        /\ Cardinality(S \cup T) \in Nat
    BY <1>4, <1>5
  <2> QED
    BY <2>2, <2>3
<1>6. ASSUME NEW S, NEW T, NEW U, S \cap T = {}, S \cup T \subseteq U, U \subseteq Events
      PROVE  Cardinality(S) + Cardinality(T) <= Cardinality(U)
  <2>1. S \subseteq Events /\ T \subseteq Events
    BY <1>6
  <2>2. Cardinality(S \cup T) <= Cardinality(U) /\ Cardinality(U) \in Nat
    BY <1>2, <1>3, <1>6
  <2>3. Cardinality(S \cap T) = 0
    BY <1>6, FS_EmptySet
  <2>4. /\ Cardinality(S \cup T) = Cardinality(S) + Cardinality(T) - Cardinality(S \cap T)
        /\ Cardinality(S) \in Nat /\ Cardinality(T) \in Nat /\ Cardinality(S \cup T) \in Nat
    BY <1>4, <2>1
  <2> QED
    BY <2>2, <2>3, <2>4
<1> QED
  BY <1>2, <1>3, <1>5, <1>6

\* Nothing happened after today.
LEMMA NothingLater ==
  ASSUME LocalInv
  PROVE  day \in Nat /\ \A e \in Events : DayOf(e) \in Nat /\ DayOf(e) <= day
  BY EventsAre DEF LocalInv, LocalTyped, Appended, DayOf

\* Everything that happened is from today or before.
LEMMA SampleKeeps ==
  ASSUME LocalInv, Sample
  PROVE  LocalInv'
<1> DEFINE r == [reading EXCEPT !.pc = "cache", !.today = day, !.before = EventCount]
<1>1. reading.pc = "idle" /\ reading' = r /\ UNCHANGED claudeCode
  BY DEF Sample
<1>2. Events = Before(day + 1)
  BY NothingLater DEF Before
<1>3. EventCount \in Nat /\ EventCount = Cardinality(Before(day + 1)) /\ day \in Nat
  BY <1>2, EventSets, NothingLater DEF EventCount
<1>4. /\ r.pc = "cache" /\ r.today = day /\ r.before = EventCount /\ r.total = reading.total /\ r.since = reading.since
      /\ r \in ReadingState
  BY <1>3 DEF LocalInv, LocalTyped, ReadingState, CacheState
<1> HIDE DEF r
<1>5. r.total = 0 /\ r.since = NoDate
  BY <1>1, <1>4 DEF LocalInv, Collected, CollectedBy
<1>6. r.before <= Cardinality(Before(r.today + 1)) /\ r.today <= day
  BY <1>3, <1>4
<1>7. CollectedBy(r)
  BY <1>4, <1>5, <1>6 DEF CollectedBy
<1> QED
  BY <1>1, <1>4, <1>7, OnlyReading

\* A valid cache of the future is refused.
LEMMA LoadCacheKeeps ==
  ASSUME LocalInv, LoadCache
  PROVE  LocalInv'
<1> DEFINE r == [reading EXCEPT !.pc = "files", !.cache = cache]
<1>1. reading.pc = "cache" /\ UNCHANGED claudeCode
  BY DEF LoadCache
<1>2. CASE cacheKind # "valid" /\ Ends(cacheKind)
  <2>1. cacheKind = "valid" \/ cacheKind = "unreadable" \/ cacheKind = "malformed"
    BY DEF LocalInv, LocalTyped
  <2>2. cacheKind \in LocalResult
    BY <1>2, <2>1 DEF LocalResult
  <2>3. cacheKind # "summary"
    BY <2>1
  <2> QED
    BY <1>1, <1>2, <2>2, <2>3, EndsKeeps
<1>3. CASE Ends("malformed")
  <2>1. "malformed" \in LocalResult /\ "malformed" # "summary"
    BY DEF LocalResult
  <2> QED
    BY <1>1, <1>3, <2>1, EndsKeeps
<1>4. CASE cache.boundary <= reading.today /\ reading' = r
  <2>1. /\ r.pc = "files" /\ r.cache = cache /\ r.today = reading.today /\ r.total = reading.total
        /\ r.since = reading.since /\ r.before = reading.before
        /\ r \in ReadingState
    BY DEF LocalInv, LocalTyped, ReadingState, CacheState
  <2> HIDE DEF r
  <2>2. /\ r.today <= day /\ r.total = 0 /\ r.since = NoDate
        /\ r.before <= Cardinality(Before(r.today + 1))
    BY <1>1, <2>1 DEF LocalInv, Collected, CollectedBy
  <2>3. r.cache.boundary <= r.today /\ Counts(r.cache) /\ Retained(r.cache.boundary)
    BY <1>4, <2>1 DEF LocalInv, Cached
  <2>4. CollectedBy(r)
    BY <2>1, <2>2, <2>3 DEF CollectedBy
  <2> QED
    BY <1>1, <1>4, <2>1, <2>4, OnlyReading
<1> QED
  BY <1>2, <1>3, <1>4 DEF LoadCache

\* What had happened when the collection began is in the cache that it read, or in a
\* transcript that it finds.
LEMMA ActivityFilesKeeps ==
  ASSUME LocalInv, ActivityFiles
  PROVE  LocalInv'
<1> DEFINE r == [reading EXCEPT !.pc = "collect", !.left = present]
           b == reading.cache.boundary
<1>1. reading.pc = "files" /\ UNCHANGED claudeCode
  BY DEF ActivityFiles
<1>2. CASE Ends("unreadable") \/ Ends("unavailable")
  <2>1. /\ "unreadable" \in LocalResult /\ "unreadable" # "summary"
        /\ "unavailable" \in LocalResult /\ "unavailable" # "summary"
    BY DEF LocalResult
  <2>2. CASE Ends("unreadable")
    BY <1>1, <2>1, <2>2, EndsKeeps
  <2>3. CASE Ends("unavailable")
    BY <1>1, <2>1, <2>3, EndsKeeps
  <2> QED
    BY <1>2, <2>2, <2>3
<1>3. CASE reading' = r
  <2>1. /\ r.pc = "collect" /\ r.cache = reading.cache /\ r.today = reading.today /\ r.total = reading.total
        /\ r.since = reading.since /\ r.before = reading.before /\ r.left = present
        /\ r \in ReadingState
    BY DEF LocalInv, LocalTyped, ReadingState, CacheState
  <2> HIDE DEF r
  <2>2. /\ r.today <= day /\ r.total = 0 /\ r.since = NoDate
        /\ r.before <= Cardinality(Before(r.today + 1))
        /\ b <= r.today /\ Counts(r.cache) /\ Retained(b)
    BY <1>1, <2>1 DEF LocalInv, Collected, CollectedBy
  <2>3. Before(r.today + 1) \subseteq Before(b) \cup Since(present, b, r.today)
    <3> SUFFICES ASSUME NEW e \in Events, DayOf(e) < r.today + 1, ~ DayOf(e) < b
                 PROVE  e[1] \in present /\ b <= DayOf(e) /\ DayOf(e) <= r.today
      BY DEF Before, Since
    <3>1. DayOf(e) \in Nat /\ r.today \in Nat /\ b \in Int
      BY <2>1, NothingLater DEF LocalInv, LocalTyped, ReadingState, CacheState
    <3>2. e[1] \in Transcript /\ e[2] \in DOMAIN lines[e[1]]
      BY EventsAre DEF LocalInv
    <3>3. e[1] \in present
      BY <2>2, <3>2 DEF Retained, DayOf
    <3> QED
      BY <3>1, <3>3
  <2>4. Before(b) \subseteq Events /\ Since(present, b, r.today) \subseteq Events /\ Before(r.today + 1) \subseteq Events
    BY DEF Before, Since
  <2>5. /\ Cardinality(Before(r.today + 1)) <= Cardinality(Before(b)) + Cardinality(Since(present, b, r.today))
        /\ Cardinality(Before(b)) \in Nat /\ Cardinality(Since(present, b, r.today)) \in Nat
        /\ Cardinality(Before(r.today + 1)) \in Nat
    BY <2>3, <2>4, EventSets
  <2>6. r.before <= r.cache.total + r.total + Cardinality(Since(r.left, r.cache.boundary, r.today))
    <3>1. r.cache.total = Cardinality(Before(b)) /\ r.before \in Nat
      <4>1. r.cache.boundary = b
        BY <2>1
      <4> HIDE DEF b
      <4> QED
        BY <2>1, <2>2, <4>1 DEF Counts, ReadingState
    <3> QED
      BY <2>1, <2>2, <2>5, <3>1
  <2>7. r.total <= Cardinality({e \in Events : /\ e[1] \notin r.left /\ r.cache.boundary <= DayOf(e)
                                               /\ r.since # NoDate /\ r.since <= DayOf(e)})
    <3> DEFINE T == {e \in Events : /\ e[1] \notin r.left /\ r.cache.boundary <= DayOf(e)
                                    /\ r.since # NoDate /\ r.since <= DayOf(e)}
    <3>1. T \subseteq Events
      OBVIOUS
    <3> HIDE DEF T
    <3>2. Cardinality(T) \in Nat
      BY <3>1, EventSets
    <3>3. r.total <= Cardinality(T)
      BY <2>2, <3>2
    <3> QED
      BY <3>3 DEF T
  <2>8. CollectedBy(r)
    BY <2>1, <2>2, <2>6, <2>7 DEF CollectedBy
  <2> QED
    BY <1>1, <1>3, <2>1, <2>8, OnlyReading
<1> QED
  BY <1>2, <1>3 DEF ActivityFiles

\* The earlier of two dates, of which either may be missing.
LEMMA EarlierIs ==
  ASSUME NEW a \in Int, NEW b \in Int
  PROVE  /\ Earlier(a, b) \in Int
         /\ a # NoDate => Earlier(a, b) # NoDate /\ Earlier(a, b) <= a
         /\ b # NoDate => Earlier(a, b) # NoDate /\ Earlier(a, b) <= b
<1>1. Min({a, b}) \in {a, b} /\ Min({a, b}) <= a /\ Min({a, b}) <= b
  <2>1. \E x \in {a, b} : \A y \in {a, b} : x <= y
    <3>1. a <= b \/ b <= a
      OBVIOUS
    <3>2. CASE a <= b
      BY <3>2
    <3>3. CASE b <= a
      BY <3>3
    <3> QED
      BY <3>1, <3>2, <3>3
  <2> QED
    BY <2>1 DEF Min
<1> QED
  BY <1>1 DEF Earlier, NoDate

\* What happened in a period in one transcript, and the first day that is found there.
Theirs(f, b, until) == {e \in Events : e[1] = f /\ b <= DayOf(e) /\ DayOf(e) <= until}
FirstDay(f, b, until) ==
  IF EventsIn(f, b, until) = {} THEN NoDate ELSE Min({lines[f][i].day : i \in EventsIn(f, b, until)})

\* What a collection finds in a transcript is what happened there in its period.
LEMMA FoundAre ==
  ASSUME LocalInv, NEW f \in Transcript, NEW b \in Int, NEW until \in Nat
  PROVE  /\ IsFiniteSet(EventsIn(f, b, until))
         /\ Cardinality(EventsIn(f, b, until)) = Cardinality(Theirs(f, b, until))
         /\ FirstDay(f, b, until) \in Int
         /\ \A e \in Theirs(f, b, until) :
              FirstDay(f, b, until) # NoDate /\ FirstDay(f, b, until) <= DayOf(e)
<1> DEFINE found == EventsIn(f, b, until)
           theirs == {e \in Events : e[1] = f /\ b <= DayOf(e) /\ DayOf(e) <= until}
           days == {lines[f][i].day : i \in found}
           first == IF found = {} THEN NoDate ELSE Min(days)
           g == [i \in found |-> <<f, i>>]
<1>1. \A i \in found : /\ i \in DOMAIN lines[f] /\ Happened(f, i) /\ b <= lines[f][i].day /\ lines[f][i].day <= until
                       /\ <<f, i>> \in Events /\ lines[f][i].day \in Nat
  BY EventsAre, LinesHaveDays DEF EventsIn, Included, Happened, LocalInv
<1>2. \A i \in found : <<f, i>> \in theirs
  <2> SUFFICES ASSUME NEW i \in found PROVE <<f, i>> \in theirs
    OBVIOUS
  <2>1. <<f, i>>[1] = f /\ <<f, i>>[2] = i
    OBVIOUS
  <2> QED
    BY <1>1, <2>1 DEF DayOf
<1>3. \A e \in theirs : e[2] \in found /\ e = <<f, e[2]>> /\ DayOf(e) = lines[f][e[2]].day
  BY EventsAre DEF EventsIn, Included, Happened, DayOf, LocalInv
<1>4. IsFiniteSet(theirs)
  <2>1. theirs \subseteq Events
    OBVIOUS
  <2> HIDE DEF theirs
  <2> QED
    BY <2>1, EventSets
<1> HIDE DEF found, theirs
<1>5. g \in Injection(found, theirs)
  BY <1>2 DEF Injection, IsInjective
<1>6. g \in Surjection(found, theirs)
  BY <1>2, <1>3 DEF Surjection
<1> HIDE DEF g
<1>7. IsFiniteSet(found) /\ Cardinality(found) = Cardinality(theirs)
  BY <1>4, <1>5, <1>6, FS_Injection
<1>8. found # {} => Min(days) \in Nat /\ \A i \in found : Min(days) <= lines[f][i].day
  <2> SUFFICES ASSUME found # {} PROVE Min(days) \in Nat /\ \A i \in found : Min(days) <= lines[f][i].day
    OBVIOUS
  <2>1. days \in SUBSET Nat /\ days # {} /\ \A i \in found : lines[f][i].day \in days
    BY <1>1
  <2> HIDE DEF days
  <2>2. PICK x \in days : \A y \in days : x <= y
    BY <2>1, Least
  <2>3. Min(days) \in days /\ \A y \in days : Min(days) <= y
    BY <2>2 DEF Min
  <2> QED
    BY <2>1, <2>3
<1>9. first \in Int /\ \A e \in theirs : first # NoDate /\ first <= DayOf(e)
  <2>1. CASE found = {}
    BY <1>3, <2>1 DEF NoDate
  <2>2. CASE found # {}
    <3>1. Min(days) \in Nat /\ \A i \in found : Min(days) <= lines[f][i].day
      BY <1>8, <2>2
    <3>2. first = Min(days)
      BY <2>2
    <3> HIDE DEF first, days
    <3> QED
      BY <1>3, <3>1, <3>2 DEF NoDate
  <2> QED
    BY <2>1, <2>2
<1> QED
  BY <1>7, <1>9 DEF found, theirs, Theirs, FirstDay

\* A transcript that is left out holds nothing of the period.
LEMMA NothingInOlder ==
  ASSUME LocalInv, NEW f \in Transcript, NEW b \in Int, b <= day, Modified(f) < b
  PROVE  \A e \in Events : e[1] = f => DayOf(e) < b
<1>1. day \in Nat
  BY NothingLater
<1>2. unfinished[f] = NoLine
  BY <1>1 DEF Modified, LocalInv, Appended
<1>3. ASSUME NEW e \in Events, e[1] = f PROVE DayOf(e) < b
  <2>1. e[2] \in DOMAIN lines[f] /\ DayOf(e) = lines[f][e[2]].day
    BY <1>3, EventsAre DEF LocalInv, DayOf
  <2>2. lines[f] \in Seq(LocalLine)
    BY DEF LocalInv, LocalTyped
  <2>3. lines[f] # <<>> /\ Len(lines[f]) \in DOMAIN lines[f]
    BY <2>1, <2>2
  <2>4. Modified(f) = lines[f][Len(lines[f])].day
    BY <1>2, <2>3 DEF Modified
  <2>5. DayOf(e) <= Modified(f) /\ DayOf(e) \in Nat /\ Modified(f) \in Nat
    BY <2>1, <2>3, <2>4, LinesHaveDays DEF LocalInv, Appended
  <2> QED
    BY <2>5
<1> QED
  BY <1>3

\* What a collection had counted it still counts, and what it counts now it had not.
LEMMA CollectLiveKeeps ==
  ASSUME LocalInv, CollectLive
  PROVE  LocalInv'
<1> DEFINE b == reading.cache.boundary
<1>1. reading.pc = "collect" /\ UNCHANGED claudeCode
  BY DEF CollectLive
<1>2. PICK f \in reading.left : Collect(f)
  BY DEF CollectLive, CollectFile
<1>3. /\ f \in Transcript /\ b \in Int /\ reading.today \in Nat /\ reading.total \in Nat /\ reading.since \in Int
      /\ reading.before \in Nat /\ reading.cache.total \in Nat /\ reading.left \in SUBSET Transcript
  BY <1>2 DEF LocalInv, LocalTyped, ReadingState, CacheState
<1> DEFINE found == EventsIn(f, b, reading.today)
           earliest == FirstDay(f, b, reading.today)
           theirs == Theirs(f, b, reading.today)
           rest == reading.left \ {f}
           skip == [reading EXCEPT !.left = reading.left \ {f}]
           take == [reading EXCEPT !.left = reading.left \ {f}, !.total = reading.total + Cardinality(found),
                                   !.since = Earlier(reading.since, earliest)]
           Done(among, since) == {e \in Events : /\ e[1] \notin among /\ b <= DayOf(e)
                                                 /\ since # NoDate /\ since <= DayOf(e)}
           L == Since(reading.left, b, reading.today)
           R == Since(rest, b, reading.today)
           T == Done(reading.left, reading.since)
           Kept(r) == /\ r.pc = "collect" /\ r.today = reading.today /\ r.cache = reading.cache
                      /\ r.before = reading.before /\ r.left = rest /\ r \in ReadingState
<1>4. /\ reading.today <= day /\ b <= reading.today /\ Counts(reading.cache) /\ Retained(b)
      /\ reading.before <= reading.cache.total + reading.total + Cardinality(L)
      /\ reading.total <= Cardinality(T)
  BY <1>1 DEF LocalInv, Collected, CollectedBy
<1>5. day \in Nat /\ b <= day
  BY <1>3, <1>4, NothingLater
<1>6. /\ L \subseteq Events /\ R \subseteq Events /\ T \subseteq Events /\ theirs \subseteq Events
      /\ \A since : Done(rest, since) \subseteq Events
  BY DEF Since, Theirs
<1>7. /\ Cardinality(L) \in Nat /\ Cardinality(R) \in Nat /\ Cardinality(T) \in Nat /\ Cardinality(theirs) \in Nat
      /\ \A since : Cardinality(Done(rest, since)) \in Nat
  <2> HIDE DEF L, R, T, theirs, Done
  <2> QED
    BY <1>6, EventSets
<1>8. ASSUME NEW r, Kept(r),
             r.before <= r.cache.total + r.total + Cardinality(R),
             r.total <= Cardinality(Done(rest, r.since))
      PROVE  CollectedBy(r)
  <2>1. r.cache.boundary = b
    BY <1>8
  <2>2. r.total <= Cardinality({e \in Events : /\ e[1] \notin r.left /\ r.cache.boundary <= DayOf(e)
                                               /\ r.since # NoDate /\ r.since <= DayOf(e)})
    BY <1>8, <2>1
  <2>3. r.before <= r.cache.total + r.total + Cardinality(Since(r.left, r.cache.boundary, r.today))
    BY <1>8, <2>1
  <2>4. r.today <= day /\ r.cache.boundary <= r.today /\ Counts(r.cache) /\ Retained(r.cache.boundary)
    BY <1>4, <1>8
  <2> QED
    BY <1>8, <2>2, <2>3, <2>4 DEF CollectedBy
<1>9. CASE Ends("unreadable") \/ Ends("malformed")
  <2>1. /\ "unreadable" \in LocalResult /\ "unreadable" # "summary"
        /\ "malformed" \in LocalResult /\ "malformed" # "summary"
    BY DEF LocalResult
  <2>2. CASE Ends("unreadable")
    BY <1>1, <2>1, <2>2, EndsKeeps
  <2>3. CASE Ends("malformed")
    BY <1>1, <2>1, <2>3, EndsKeeps
  <2> QED
    BY <1>9, <2>2, <2>3
<1>10. CASE Modified(f) < b /\ reading' = skip
  <2>1. Kept(skip) /\ skip.total = reading.total /\ skip.since = reading.since
    BY <1>1, <1>3 DEF LocalInv, LocalTyped, ReadingState, CacheState
  <2>2. \A e \in Events : e[1] = f => DayOf(e) < b /\ DayOf(e) \in Nat
    BY <1>3, <1>5, <1>10, NothingInOlder, NothingLater
  <2>3. L = R
    BY <1>3, <2>2 DEF Since
  <2>4. T \subseteq Done(rest, reading.since)
    OBVIOUS
  <2>5. Cardinality(T) <= Cardinality(Done(rest, reading.since))
    <3> HIDE DEF T, Done
    <3> QED
      BY <1>6, <2>4, EventSets
  <2> HIDE DEF skip, L, R, T, Done
  <2>6. skip.before <= skip.cache.total + skip.total + Cardinality(R)
    BY <1>4, <2>1, <2>3
  <2>7. skip.total <= Cardinality(Done(rest, skip.since))
    <3>1. /\ Cardinality(Done(rest, reading.since)) \in Nat /\ Cardinality(T) \in Nat
          /\ Cardinality(theirs) \in Nat
      BY <1>7
    <3>2. skip.total <= Cardinality(Done(rest, reading.since))
      BY <1>3, <1>4, <2>1, <2>5, <3>1
    <3> QED
      BY <2>1, <3>2
  <2>8. CollectedBy(skip)
    BY <1>8, <2>1, <2>6, <2>7
  <2> QED
    BY <1>1, <1>10, <2>1, <2>8, OnlyReading
<1>11. CASE reading' = take
  <2> DEFINE since == Earlier(reading.since, earliest)
  <2>1. /\ IsFiniteSet(found) /\ Cardinality(found) = Cardinality(theirs) /\ earliest \in Int
        /\ \A e \in theirs : earliest # NoDate /\ earliest <= DayOf(e)
    BY <1>3, FoundAre
  <2>2. /\ since \in Int
        /\ reading.since # NoDate => since # NoDate /\ since <= reading.since
        /\ earliest # NoDate => since # NoDate /\ since <= earliest
    <3> HIDE DEF earliest
    <3> QED
      BY <1>3, <2>1, EarlierIs
  <2> HIDE DEF since, earliest, found
  <2>3. Kept(take) /\ take.total = reading.total + Cardinality(theirs) /\ take.since = since
    <3>1. reading.total + Cardinality(theirs) \in Nat
      BY <1>3, <1>7
    <3> HIDE DEF theirs
    <3> QED
      BY <1>1, <1>3, <2>1, <2>2, <3>1 DEF LocalInv, LocalTyped, ReadingState, since
  <2>4. L \subseteq R \cup theirs
    BY DEF Since, Theirs
  <2>5. \A e \in Events : DayOf(e) \in Nat
    BY NothingLater
  <2>6. T \cap theirs = {} /\ T \cup theirs \subseteq Done(rest, since)
    <3>1. T \cap theirs = {}
      BY <1>2 DEF Theirs
    <3>2. T \subseteq Done(rest, since)
      BY <1>3, <2>2, <2>5
    <3>3. theirs \subseteq Done(rest, since)
      BY <2>1, <2>2, <2>5 DEF Theirs
    <3> QED
      BY <3>1, <3>2, <3>3
  <2> HIDE DEF take, L, R, T, Done, theirs
  <2>7. /\ Cardinality(L) <= Cardinality(R) + Cardinality(theirs)
        /\ Cardinality(T) + Cardinality(theirs) <= Cardinality(Done(rest, since))
    BY <1>6, <2>4, <2>6, EventSets
  <2>8. take.before <= take.cache.total + take.total + Cardinality(R)
    BY <1>3, <1>4, <1>7, <2>3, <2>7
  <2>9. take.total <= Cardinality(Done(rest, take.since))
    <3>1. /\ Cardinality(Done(rest, since)) \in Nat /\ Cardinality(T) \in Nat
          /\ Cardinality(theirs) \in Nat
      BY <1>7
    <3>2. take.total <= Cardinality(Done(rest, since))
      BY <1>3, <1>4, <2>3, <2>7, <3>1
    <3> QED
      BY <2>3, <3>2
  <2>10. CollectedBy(take)
    BY <1>8, <2>3, <2>8, <2>9
  <2> QED
    BY <1>1, <1>11, <2>3, <2>10, OnlyReading
<1> QED
  BY <1>2, <1>9, <1>10, <1>11 DEF Collect, FirstDay

\* The summary adds what the cache covers to what was collected: no event is in
\* both, and the date it shows is that of an event, or missing.
LEMMA SummarizeKeeps ==
  ASSUME LocalInv, Summarize
  PROVE  LocalInv'
<1> DEFINE b == reading.cache.boundary
           since == IF reading.cache = NoCache THEN reading.since
                    ELSE IF reading.cache.first # NoDate THEN reading.cache.first
                    ELSE IF reading.cache.total = 0 THEN reading.since ELSE NoDate
           total == reading.total + reading.cache.total
           r == [reading EXCEPT !.pc = "done", !.result = "summary", !.total = total, !.since = since]
           S == {e \in Events : since = NoDate \/ since <= DayOf(e)}
           T == {e \in Events : /\ e[1] \notin reading.left /\ b <= DayOf(e)
                                /\ reading.since # NoDate /\ reading.since <= DayOf(e)}
           C == Before(b)
<1>1. reading.pc = "collect" /\ reading.left = {} /\ reading' = r /\ UNCHANGED claudeCode
  BY DEF Summarize
<1>2. /\ b \in Int /\ reading.total \in Nat /\ reading.since \in Int /\ reading.before \in Nat
      /\ reading.cache.total \in Nat /\ reading.cache.first \in Int
  BY DEF LocalInv, LocalTyped, ReadingState, CacheState
<1>3. /\ reading.cache.total = Cardinality(C)
      /\ reading.cache.first # NoDate => (\A e \in C : reading.cache.first <= DayOf(e)) /\ reading.cache.first < b
      /\ reading.before <= reading.cache.total + reading.total + Cardinality(Since(reading.left, b, reading.today))
      /\ reading.total <= Cardinality(T)
  BY <1>1 DEF LocalInv, Collected, CollectedBy, Counts
<1>4. total \in Nat /\ since \in Int
  BY <1>2 DEF NoDate
<1>5. /\ r.pc = "done" /\ r.result = "summary" /\ r.total = total /\ r.since = since /\ r.before = reading.before
      /\ r \in ReadingState
  <2> HIDE DEF total, since
  <2> QED
    BY <1>4 DEF LocalInv, LocalTyped, ReadingState, LocalResult
<1>6. reading.before <= total
  <2>1. Since(reading.left, b, reading.today) = {}
    BY <1>1 DEF Since
  <2>2. Cardinality(Since(reading.left, b, reading.today)) = 0
    BY <2>1, FS_EmptySet
  <2> QED
    BY <1>2, <1>3, <2>2
<1>7. S \subseteq Events /\ T \subseteq Events /\ C \subseteq Events /\ \A e \in Events : DayOf(e) \in Nat
  BY NothingLater DEF Before
<1>8. Cardinality(S) \in Nat /\ Cardinality(T) \in Nat /\ Cardinality(C) \in Nat
  <2> HIDE DEF S, T, C
  <2> QED
    BY <1>7, EventSets
<1>9. T \cap C = {}
  BY <1>2, <1>7 DEF Before
<1>10. total <= Cardinality(S)
  <2>1. CASE reading.cache.total = 0 /\ since = reading.since
    <3>1. T \subseteq S
      BY <2>1
    <3> HIDE DEF S, T, since
    <3>2. Cardinality(T) <= Cardinality(S)
      BY <1>7, <3>1, EventSets
    <3> QED
      BY <1>2, <1>3, <1>8, <2>1, <3>2
  <2>2. CASE reading.cache.first # NoDate /\ since = reading.cache.first
    <3>1. T \cup C \subseteq S
      BY <1>2, <1>3, <1>7, <2>2 DEF Before
    <3> HIDE DEF S, T, C, since
    <3>2. Cardinality(T) + Cardinality(C) <= Cardinality(S)
      BY <1>7, <1>9, <3>1, EventSets
    <3> QED
      BY <1>2, <1>3, <1>8, <3>2
  <2>3. CASE since = NoDate
    <3>1. T \cup C \subseteq S
      BY <2>3 DEF Before
    <3> HIDE DEF S, T, C, since
    <3>2. Cardinality(T) + Cardinality(C) <= Cardinality(S)
      BY <1>7, <1>9, <3>1, EventSets
    <3> QED
      BY <1>2, <1>3, <1>8, <3>2
  <2>4. reading.cache = NoCache => reading.cache.total = 0
    BY DEF NoCache
  <2> QED
    BY <2>1, <2>2, <2>3, <2>4
<1>11. CollectedBy(r)
  <2>1. r.total <= Cardinality({e \in Events : r.since = NoDate \/ r.since <= DayOf(e)})
    <3> HIDE DEF r, total, since
    <3> QED
      BY <1>5, <1>10
  <2> HIDE DEF r, total, since
  <2> QED
    BY <1>5, <1>6, <2>1 DEF CollectedBy
<1> HIDE DEF r
<1> QED
  BY <1>1, <1>5, <1>11, OnlyReading

-----------------------------------------------------------------------------

\* The invariant holds at first, and every step keeps it.
LEMMA LocalInitInv == LocalInit => LocalInv
<1> SUFFICES ASSUME LocalInit PROVE LocalInv
  OBVIOUS
<1>1. /\ day = 0 /\ present = MainFile /\ lines = [f \in Transcript |-> <<>>]
      /\ unfinished = [f \in Transcript |-> NoLine] /\ cache = NoCache /\ cacheKind = "valid"
      /\ reading = NotReading
  BY DEF LocalInit
<1>2. NoCache \in CacheState /\ NotReading \in ReadingState
  BY DEF NoCache, CacheState, NotReading, ReadingState, LocalResult, NoDate
<1>3. LocalTyped
  BY <1>1, <1>2 DEF LocalTyped, Transcript
<1>4. Events = {}
  <2>1. \A f \in Transcript : DOMAIN lines[f] = {}
    BY <1>1
  <2> QED
    BY <2>1 DEF Events
<1>5. \A f \in Transcript : unfinished[f] = NoLine /\ DOMAIN lines[f] = {}
  BY <1>1
<1>6. Appended
  BY <1>5 DEF Appended
<1>7. \A b : Before(b) = {} /\ Cardinality(Before(b)) = 0
  BY <1>4, FS_EmptySet DEF Before
<1>8. Cached
  BY <1>1, <1>4, <1>5, <1>7, FS_EmptySet DEF Cached, Counts, Retained, NoCache, NoDate
<1>9. Collected
  BY <1>1 DEF Collected, CollectedBy, NotReading
<1> QED
  BY <1>3, <1>6, <1>8, <1>9 DEF LocalInv

LEMMA LocalNextInv == LocalInv /\ [LocalNext]_localVars => LocalInv'
<1> SUFFICES ASSUME LocalInv, [LocalNext]_localVars PROVE LocalInv'
  OBVIOUS
<1>1. CASE UNCHANGED localVars
  <2>1. UNCHANGED claudeCode /\ reading' = reading
    BY <1>1 DEF localVars, claudeCode
  <2>2. CollectedBy(reading) /\ reading \in ReadingState
    BY DEF LocalInv, Collected, LocalTyped
  <2> QED
    BY <2>1, <2>2, OnlyReading
<1>2. ASSUME NEW f \in Transcript, NEW kind \in LineKind, BeginLine(f, kind) PROVE LocalInv'
  BY <1>2, BeginLineKeeps
<1>3. ASSUME NEW f \in Transcript, EndLine(f) \/ Retire(f) PROVE LocalInv'
  BY <1>3, EndLineKeeps, RetireKeeps
<1>4. CASE Midnight
  BY <1>4, MidnightKeeps
<1>5. CASE Recompute
  BY <1>5, RecomputeKeeps
<1>6. CASE CacheDamaged
  BY <1>6, CacheDamagedKeeps
<1>7. CASE Sample
  BY <1>7, SampleKeeps
<1>8. CASE LoadCache
  BY <1>8, LoadCacheKeeps
<1>9. CASE ActivityFiles
  BY <1>9, ActivityFilesKeeps
<1>10. CASE CollectLive
  BY <1>10, CollectLiveKeeps
<1>11. CASE Summarize
  BY <1>11, SummarizeKeeps
<1>12. MainFile \subseteq Transcript /\ SubagentFile \subseteq Transcript /\ {"assistant", "sidechain"} \subseteq LineKind
  BY DEF Transcript, LineKind
<1> QED
  BY <1>1, <1>2, <1>3, <1>4, <1>5, <1>6, <1>7, <1>8, <1>9, <1>10, <1>11, <1>12 DEF LocalNext

\* Throughout every collection, whatever is appended, recomputed, damaged or retired
\* meanwhile: the cache that was read, the transcripts counted and those still to be
\* counted hold everything that had happened when it began, and nothing twice
\* (ClaudeActivity.read and _collect_live in providers/claude/activity.py).
THEOREM LocalInvariance == LocalSpec => []LocalInv
  BY LocalInitInv, LocalNextInv, PTL DEF LocalSpec

\* What a collection reports lies between what had been written when it began and
\* what has been written when it ends, and when it counts all of that, the date that
\* it shows is not after any of it (ClaudeActivity.read in providers/claude/activity.py), for
\* any number of transcripts, lines and days.
THEOREM LocalBetweenHolds == LocalSpec => []LocalBetween
<1>1. LocalInv => LocalBetween
  <2> SUFFICES ASSUME LocalInv, reading.pc = "done", reading.result = "summary"
               PROVE  /\ reading.before <= reading.total /\ reading.total <= EventCount
                      /\ reading.since # NoDate /\ reading.total = EventCount
                           => \A d \in EventDays : reading.since <= d
    BY DEF LocalBetween
  <2> DEFINE S == {e \in Events : reading.since = NoDate \/ reading.since <= DayOf(e)}
  <2>1. reading.before <= reading.total /\ reading.total <= Cardinality(S) /\ reading.total \in Nat
    BY DEF LocalInv, Collected, CollectedBy, LocalTyped, ReadingState
  <2>2. S \subseteq Events /\ IsFiniteSet(Events)
    BY DEF LocalInv, Cached
  <2>3. Cardinality(S) \in Nat /\ EventCount \in Nat /\ Cardinality(S) <= EventCount
    <3> HIDE DEF S
    <3> QED
      BY <2>2, EventSets DEF EventCount
  <2>4. Cardinality(S) = EventCount => S = Events
    <3> HIDE DEF S
    <3> QED
      BY <2>2, FS_Subset DEF EventCount
  <2>5. reading.total <= EventCount
    <3> HIDE DEF S
    <3> QED
      BY <2>1, <2>3
  <2>6. ASSUME reading.since # NoDate, reading.total = EventCount, NEW d \in EventDays
        PROVE  reading.since <= d
    <3>1. PICK e \in Events : d = lines[e[1]][e[2]].day
      BY <2>6 DEF EventDays
    <3>2. e \in S
      <4> HIDE DEF S
      <4> QED
        BY <2>1, <2>3, <2>4, <2>6
    <3> QED
      BY <2>6, <3>1, <3>2 DEF DayOf
  <2> QED
    BY <2>1, <2>5, <2>6
<1> QED
  BY <1>1, LocalInvariance, PTL
=============================================================================
