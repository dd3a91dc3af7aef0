------------------------------ MODULE LocalActivity ------------------------------
(***************************************************************************)
(* Claude's local token activity (providers/claude/activity.py): the       *)
(* historical cache of Claude Code plus what its transcripts hold since    *)
(* the day of that cache, read while Claude Code goes on writing both.     *)
(*                                                                         *)
(* Claude Code is external.  It appends whole lines, one at a time, to a   *)
(* main or a subagent transcript; older releases also leave a sidechain    *)
(* copy of a subagent's line in the main one.  Its cache covers the days   *)
(* before the date it names.  An event counts as one token.                *)
(***************************************************************************)
EXTENDS Integers, Sequences, FiniteSetsExt

CONSTANTS
  MainFile, SubagentFile,  \* transcripts
  MaxLines,                \* lines Claude Code writes
  MaxDay

ASSUME LocalAssumption == {MaxLines, MaxDay} \subseteq Nat /\ MainFile # {}

Transcript == MainFile \cup SubagentFile
LineKind == {"assistant", "sidechain", "other", "broken"}
NoCache == [boundary |-> -1, total |-> 0, first |-> -1]
NoLine == [day |-> -1, kind |-> "other"]
NoDate == -1

VARIABLES
  day,         \* the UTC date
  present,     \* transcripts on disk
  lines,       \* their complete lines
  unfinished,  \* the line being written to each
  cache,       \* stats-cache.json
  cacheKind,   \* "valid", or not regular, readable or decodable
  reading      \* one collection

localVars == <<day, present, lines, unfinished, cache, cacheKind, reading>>
claudeCode == <<day, present, lines, unfinished, cache, cacheKind>>

Modified(f) ==
  IF unfinished[f] # NoLine THEN unfinished[f].day
  ELSE IF lines[f] = <<>> THEN 0 ELSE lines[f][Len(lines[f])].day

(* _included_event: assistant records in [boundary, today], sidechain      *)
(* copies only where they are the original.                                *)
Included(f, line, boundary, until) ==
  /\ line.kind = "assistant" \/ (line.kind = "sidechain" /\ f \in SubagentFile)
  /\ boundary <= line.day /\ line.day <= until

EventsIn(f, boundary, until) ==
  {i \in DOMAIN lines[f] : Included(f, lines[f][i], boundary, until)}

(* What really happened: every event once.                                 *)
Happened(f, i) ==
  lines[f][i].kind = "assistant" \/ (lines[f][i].kind = "sidechain" /\ f \in SubagentFile)
Events == UNION {{<<f, i>> : i \in {j \in DOMAIN lines[f] : Happened(f, j)}} : f \in Transcript}
EventCount == Cardinality(Events)
EventDays == {lines[e[1]][e[2]].day : e \in Events}

NotReading == [pc |-> "idle", today |-> 0, cache |-> NoCache, left |-> {}, total |-> 0,
               since |-> NoDate, before |-> 0, result |-> "none"]

LocalInit ==
  /\ day = 0 /\ present = MainFile
  /\ lines = [f \in Transcript |-> <<>>] /\ unfinished = [f \in Transcript |-> NoLine]
  /\ cache = NoCache /\ cacheKind = "valid" /\ reading = NotReading

-----------------------------------------------------------------------------
(* External: Claude Code.                                                  *)

LinesWritten ==
  LET count[S \in SUBSET Transcript] ==
        IF S = {} THEN 0
        ELSE LET f == CHOOSE g \in S : TRUE
             IN count[S \ {f}] + Len(lines[f]) + (IF unfinished[f] = NoLine THEN 0 ELSE 1)
  IN count[Transcript]

BeginLine(f, kind) ==
  /\ unfinished[f] = NoLine /\ LinesWritten < MaxLines /\ reading.pc # "done"
  /\ f \in present \/ lines[f] = <<>>
  /\ present' = present \cup {f}
  /\ unfinished' = [unfinished EXCEPT ![f] = [day |-> day, kind |-> kind]]
  /\ UNCHANGED <<day, lines, cache, cacheKind, reading>>

EndLine(f) ==
  /\ unfinished[f] # NoLine
  /\ lines' = [lines EXCEPT ![f] = Append(@, unfinished[f])]
  /\ unfinished' = [unfinished EXCEPT ![f] = NoLine]
  /\ UNCHANGED <<day, present, cache, cacheKind, reading>>

Midnight ==
  /\ day < MaxDay /\ reading.pc # "done" /\ day' = day + 1 /\ \A f \in Transcript : unfinished[f] = NoLine
  /\ UNCHANGED <<present, lines, unfinished, cache, cacheKind, reading>>

(* The cache is replaced as a whole; its first session may not be known.   *)
Recompute ==
  LET covered == {e \in Events : lines[e[1]][e[2]].day < day}
      first == IF covered = {} THEN NoDate ELSE Min({lines[e[1]][e[2]].day : e \in covered})
  IN /\ cache.boundary < day /\ reading.pc # "done"
     /\ \E known \in BOOLEAN :
          cache' = [boundary |-> day, total |-> Cardinality(covered),
                    first |-> IF known THEN first ELSE NoDate]
     /\ cacheKind' = "valid" /\ UNCHANGED <<day, present, lines, unfinished, reading>>

CacheDamaged ==
  /\ cacheKind = "valid" /\ cache # NoCache /\ cacheKind' \in {"unreadable", "malformed"}
  /\ UNCHANGED <<day, present, lines, unfinished, cache, reading>>

(* A transcript is retained long after the cache covers it.                *)
Retire(f) ==
  /\ reading.pc # "done" /\ f \in present /\ lines[f] # <<>> /\ unfinished[f] = NoLine
  /\ Modified(f) < cache.boundary
  /\ reading.pc \in {"files", "collect"} => Modified(f) < reading.cache.boundary
  /\ reading.pc # "cache" /\ present' = present \ {f}
  /\ UNCHANGED <<day, lines, unfinished, cache, cacheKind, reading>>

-----------------------------------------------------------------------------
(* ClaudeActivity.read                                                     *)

Ends(result) == reading' = [reading EXCEPT !.pc = "done", !.result = result]

Sample ==
  /\ reading.pc = "idle"
  /\ reading' = [reading EXCEPT !.pc = "cache", !.today = day, !.before = EventCount]
  /\ UNCHANGED claudeCode

LoadCache ==
  /\ reading.pc = "cache"
  /\ \/ cacheKind # "valid" /\ Ends(cacheKind)
     \/ cacheKind = "valid" /\ cache.boundary > reading.today /\ Ends("malformed")
     \/ /\ cacheKind = "valid" /\ cache.boundary <= reading.today
        /\ reading' = [reading EXCEPT !.pc = "files", !.cache = cache]
  /\ UNCHANGED claudeCode

ActivityFiles ==
  /\ reading.pc = "files"
  /\ \/ Ends("unreadable")
     \/ reading.cache = NoCache /\ present = {} /\ Ends("unavailable")
     \/ /\ reading.cache # NoCache \/ present # {}
        /\ reading' = [reading EXCEPT !.pc = "collect", !.left = present]
  /\ UNCHANGED claudeCode

Earlier(a, b) == IF a = NoDate THEN b ELSE IF b = NoDate THEN a ELSE Min({a, b})

(* One file, as long as it was when it was opened: the line that is still  *)
(* being written is left out.  A file last modified before the boundary is *)
(* not opened.                                                             *)
Collect(f) ==
  LET boundary == reading.cache.boundary
      found == EventsIn(f, boundary, reading.today)
      earliest == IF found = {} THEN NoDate ELSE Min({lines[f][i].day : i \in found})
  IN \/ f \notin present /\ Ends("unreadable")
     \/ f \in present /\ Ends("unreadable")
     \/ /\ f \in present /\ Modified(f) < boundary
        /\ reading' = [reading EXCEPT !.left = @ \ {f}]
     \/ /\ f \in present /\ Modified(f) >= boundary
        /\ \/ (\E i \in DOMAIN lines[f] : lines[f][i].kind = "broken") /\ Ends("malformed")
           \/ /\ \A i \in DOMAIN lines[f] : lines[f][i].kind # "broken"
              /\ reading' = [reading EXCEPT !.left = @ \ {f}, !.total = @ + Cardinality(found),
                                            !.since = Earlier(@, earliest)]

(* Mutation: a file of the day of the cache is skipped as well.            *)
CollectNewer(f) ==
  LET boundary == reading.cache.boundary
      found == EventsIn(f, boundary, reading.today)
  IN reading' = [reading EXCEPT !.left = @ \ {f},
                                !.total = IF Modified(f) <= boundary THEN @ ELSE @ + Cardinality(found)]
CollectFile(f) == Collect(f)

CollectLive ==
  /\ reading.pc = "collect"
  /\ \E f \in reading.left : CollectFile(f)
  /\ UNCHANGED claudeCode

Summarize ==
  /\ reading.pc = "collect" /\ reading.left = {}
  /\ reading' =
       [reading EXCEPT !.pc = "done", !.result = "summary",
          !.total = @ + reading.cache.total,
          !.since = IF reading.cache = NoCache THEN @
                    ELSE IF reading.cache.first # NoDate THEN reading.cache.first
                    ELSE IF reading.cache.total = 0 THEN @ ELSE NoDate]
  /\ UNCHANGED claudeCode

LocalNext ==
  \/ \E f \in MainFile, kind \in LineKind : BeginLine(f, kind)
  \/ \E f \in SubagentFile, kind \in {"assistant", "sidechain"} : BeginLine(f, kind)
  \/ \E f \in Transcript : EndLine(f) \/ Retire(f)
  \/ Midnight \/ Recompute \/ CacheDamaged
  \/ Sample \/ LoadCache \/ ActivityFiles \/ CollectLive \/ Summarize

-----------------------------------------------------------------------------
(* What is reported lies between what had been written when the collection *)
(* began and what has been written when it ends, each event once, whatever *)
(* Claude Code appends, recomputes or retires meanwhile; and when it is    *)
(* all that has been written, the date that is shown is not after any of   *)
(* it.                                                                     *)
LocalBetween ==
  reading.pc = "done" /\ reading.result = "summary" =>
    /\ reading.before <= reading.total /\ reading.total <= EventCount
    /\ reading.since # NoDate /\ reading.total = EventCount
         => \A d \in EventDays : reading.since <= d
=============================================================================
