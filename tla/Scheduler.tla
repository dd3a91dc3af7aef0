------------------------------ MODULE Scheduler ------------------------------
(***************************************************************************)
(* Scheduled maintenance: `daemon install` and `daemon uninstall` drive    *)
(* one scheduler of the host (daemon.py), while a migration asks whether   *)
(* any scheduler that can coexist there would start maintenance            *)
(* (scheduler_quiescence.py).  The user edits the crontab and starts new   *)
(* sessions meanwhile, and any tool may fail.                              *)
(*                                                                         *)
(* A crontab is the sequence of its lines: the user's, and "begin", "job", *)
(* "end" of the marked block.  No crontab is the empty one: both list as   *)
(* no text.  systemd, launchd, cron and the Task Scheduler are external.   *)
(***************************************************************************)
EXTENDS Integers, Sequences, SequencesExt

CONSTANTS
  Entry,        \* lines of the user's own
  MaxCommands, MaxFailures, MaxEdits, MaxCrontab

ASSUME SchedulerAssumption ==
  /\ {MaxCommands, MaxFailures, MaxEdits, MaxCrontab} \subseteq Nat
  /\ Entry # {} /\ Entry \cap {"begin", "job", "end"} = {}

Backends == {"systemd", "cron", "launchd", "task-scheduler"}

VARIABLES
  host,
  files,       \* unit files and the property list, in the home directory
  systemd,     \* what the user's systemd knows of the timer
  launchd,     \* the agent is loaded in the user's domain
  task,        \* the task is registered
  crontab,
  daemon,      \* the daemon command that runs
  reported,    \* what the last one said
  assessment,  \* the assessment of quiescence that runs, or its verdict
  touched,     \* history: the schedule has changed since that began
  commands, failures, edits

schedule == <<files, systemd, launchd, task, crontab>>
bounds == <<commands, failures, edits>>
schedulerVars == <<host, schedule, daemon, reported, assessment, touched, bounds>>

Hosts ==
  {[system |-> "Linux", wsl |-> TRUE, tools |-> {"systemd", "cron", "task-scheduler"}],
   [system |-> "Linux", wsl |-> FALSE, tools |-> {"systemd", "cron"}],
   [system |-> "Linux", wsl |-> FALSE, tools |-> {"cron"}],
   [system |-> "Linux", wsl |-> FALSE, tools |-> {"systemd"}],
   [system |-> "Darwin", wsl |-> FALSE, tools |-> {"launchd", "cron"}],
   [system |-> "Windows", wsl |-> FALSE, tools |-> {"task-scheduler"}]}

HasUserSystemd == host.system = "Linux" /\ "systemd" \in host.tools

AutoBackend ==
  CASE host.wsl \/ host.system = "Windows" -> "task-scheduler"
    [] host.system = "Darwin" -> "launchd"
    [] HasUserSystemd /\ ~host.wsl -> "systemd"
    [] OTHER -> "cron"

AtRest == [op |-> "none", backend |-> "none", at |-> "idle", text |-> <<>>, listed |-> TRUE]
Silent == [op |-> "none", backend |-> "none", exit |-> "none"]
Unassessed == [left |-> <<>>, states |-> <<>>, verdict |-> "none"]
NotLoaded == [loaded |-> FALSE, enabled |-> FALSE, active |-> FALSE]

SchedulerInit ==
  /\ host \in Hosts
  /\ files = {} /\ systemd = NotLoaded /\ launchd = FALSE /\ task = FALSE
  /\ crontab \in {<<>>, <<CHOOSE e \in Entry : TRUE>>}
  /\ daemon = AtRest /\ reported = Silent
  /\ assessment = Unassessed /\ touched = FALSE
  /\ commands = 0 /\ failures = 0 /\ edits = 0

-----------------------------------------------------------------------------
(* The text of a crontab.                                                  *)

First(text, mark) == SelectInSeq(text, LAMBDA line : line = mark)

(* _remove_marked_block: from the first begin to the first end, or nothing *)
(* when one of them is missing or they are the wrong way round.            *)
Cut(text) ==
  LET b == First(text, "begin")
      e == First(text, "end")
  IN IF b = 0 \/ e = 0 \/ e < b THEN text ELSE SubSeq(text, 1, b - 1) \o SubSeq(text, e + 1, Len(text))

(* Mutation: the block is taken to reach the end of the file.              *)
CutToTheEnd(text) ==
  LET b == First(text, "begin") IN IF b = 0 THEN text ELSE SubSeq(text, 1, b - 1)
RemoveMarkedBlock(text) == Cut(text)

CronBlock == <<"begin", "job", "end">>
ReplaceMarkedBlock(text) == RemoveMarkedBlock(text) \o CronBlock
Updated(op, text) == IF op = "install" THEN ReplaceMarkedBlock(text) ELSE RemoveMarkedBlock(text)

(* A crontab the program alone has marked: one whole block at most.        *)
WellMarked(text) ==
  \/ \A i \in DOMAIN text : text[i] \in Entry
  \/ \E i \in DOMAIN text :
       /\ i + 2 \in DOMAIN text /\ SubSeq(text, i, i + 2) = CronBlock
       /\ \A j \in DOMAIN text \ (i .. (i + 2)) : text[j] \in Entry
(* Every job has a marker of its own left: the user deletes one of the two. *)
Marked(text) ==
  \A i \in DOMAIN text : text[i] = "job" =>
    \/ i - 1 \in DOMAIN text /\ text[i - 1] = "begin"
    \/ i + 1 \in DOMAIN text /\ text[i + 1] = "end"
(* The lines of the user's that a text holds are those of the other one, in *)
(* their order.                                                            *)
SameUserLines(old, new) ==
  LET from == {i \in DOMAIN old : old[i] \in Entry}
      to == {j \in DOMAIN new : new[j] \in Entry}
  IN \E place \in [from -> to] :
       /\ \A i \in from : new[place[i]] = old[i]
       /\ \A i, j \in from : i < j => place[i] < place[j]
       /\ to = {place[i] : i \in from}

-----------------------------------------------------------------------------
(* A daemon command.                                                       *)

FirstStep(op, b) ==
  CASE b = "systemd" -> IF op = "install" THEN "write service" ELSE "disable"
    [] b = "cron" -> "list"
    [] b = "launchd" -> IF op = "install" THEN "write plist" ELSE "bootout"
    [] b = "task-scheduler" -> IF op = "install" THEN "register" ELSE "unregister"

StartCommand(op, requested) ==
  LET b == IF requested = "auto" THEN AutoBackend ELSE requested
  IN /\ daemon.at = "idle" /\ commands < MaxCommands /\ commands' = commands + 1
     /\ daemon' = [AtRest EXCEPT !.op = op, !.backend = b, !.at = FirstStep(op, b)]
     /\ UNCHANGED <<host, schedule, reported, assessment, failures, edits>>

Completes(exit) ==
  daemon' = AtRest /\ reported' = [op |-> daemon.op, backend |-> daemon.backend, exit |-> exit]
GoesTo(to) == daemon' = [daemon EXCEPT !.at = to] /\ UNCHANGED reported
At(step) == daemon.at = step /\ UNCHANGED <<host, assessment, commands, edits>>
Present(b) == b \in host.tools
Errs == failures < MaxFailures /\ failures' = failures + 1
Succeeds == UNCHANGED failures

(* SystemCommandRunner.run raises when there is no such tool.              *)
ToolMissing ==
  /\ daemon.at \in {"reload", "disable", "list", "bootstrap", "bootout", "register", "unregister"}
  /\ ~Present(daemon.backend) /\ Completes("raised")
  /\ UNCHANGED <<host, schedule, assessment, bounds>>

(* SystemdBackend                                                          *)
WriteService ==
  /\ At("write service") /\ files' = files \cup {"service"} /\ GoesTo("write timer")
  /\ UNCHANGED <<systemd, launchd, task, crontab, failures>>
WriteTimer ==
  /\ At("write timer") /\ files' = files \cup {"timer"} /\ GoesTo("reload")
  /\ UNCHANGED <<systemd, launchd, task, crontab, failures>>
Reloaded == systemd' = [systemd EXCEPT !.loaded = {"service", "timer"} \subseteq files]
Reload ==
  /\ At("reload") /\ Present("systemd") /\ GoesTo("enable")
  /\ \/ Succeeds /\ Reloaded
     \/ Errs /\ UNCHANGED systemd
  /\ UNCHANGED <<files, launchd, task, crontab>>
Enable ==
  /\ At("enable")
  /\ \/ Succeeds /\ systemd' = [loaded |-> TRUE, enabled |-> TRUE, active |-> TRUE] /\ Completes("success")
     \/ Errs /\ UNCHANGED systemd /\ Completes("scheduler error")
  /\ UNCHANGED <<files, launchd, task, crontab>>
Disable ==
  /\ At("disable") /\ Present("systemd")
  /\ \/ Succeeds /\ systemd' = [systemd EXCEPT !.enabled = FALSE, !.active = FALSE] /\ GoesTo("unlink service")
     \/ Errs /\ UNCHANGED systemd /\ GoesTo("unlink service")
  /\ UNCHANGED <<files, launchd, task, crontab>>
UnlinkService ==
  /\ At("unlink service") /\ files' = files \ {"service"} /\ GoesTo("unlink timer")
  /\ UNCHANGED <<systemd, launchd, task, crontab, failures>>

UnlinkTimer ==
  /\ At("unlink timer") /\ files' = files \ {"timer"} /\ GoesTo("reload last")
  /\ UNCHANGED <<systemd, launchd, task, crontab, failures>>
ReloadLast ==
  /\ At("reload last")
  /\ \/ Succeeds /\ Reloaded /\ Completes("success")
     \/ Errs /\ UNCHANGED systemd /\ Completes("scheduler error")
  /\ UNCHANGED <<files, launchd, task, crontab>>

(* CronBackend: whatever made the listing fail, the crontab counts as      *)
(* empty.                                                                  *)
ListCrontab ==
  /\ At("list") /\ Present("cron") /\ UNCHANGED reported
  /\ \/ Succeeds /\ daemon' = [daemon EXCEPT !.at = "write", !.text = crontab]
     \/ Errs /\ daemon' = [daemon EXCEPT !.at = "write", !.text = <<>>, !.listed = FALSE]
  /\ UNCHANGED schedule
WriteCrontab ==
  /\ At("write")
  /\ \/ Succeeds /\ crontab' = Updated(daemon.op, daemon.text) /\ Completes("success")
     \/ Errs /\ UNCHANGED crontab /\ Completes("scheduler error")
  /\ UNCHANGED <<files, systemd, launchd, task>>

(* LaunchdBackend: only kickstart tells whether the agent is loaded.       *)
WritePlist ==
  /\ At("write plist") /\ files' = files \cup {"plist"} /\ GoesTo("bootstrap")
  /\ UNCHANGED <<systemd, launchd, task, crontab, failures>>
Bootstrap ==
  /\ At("bootstrap") /\ Present("launchd") /\ GoesTo("kickstart")
  /\ \/ Succeeds /\ launchd' = TRUE
     \/ Errs /\ UNCHANGED launchd
  /\ UNCHANGED <<files, systemd, task, crontab>>

Kickstart ==
  /\ At("kickstart")
  /\ \/ Succeeds /\ launchd /\ Completes("success")
     \/ Succeeds /\ ~launchd /\ Completes("scheduler error")
     \/ Errs /\ Completes("scheduler error")
  /\ UNCHANGED schedule
Bootout ==
  /\ At("bootout") /\ Present("launchd")
  /\ \/ Succeeds /\ launchd' = FALSE /\ GoesTo("unlink plist")
     \/ Errs /\ UNCHANGED launchd /\ GoesTo("unlink plist")
  /\ UNCHANGED <<files, systemd, task, crontab>>
UnlinkPlist ==
  /\ At("unlink plist") /\ files' = files \ {"plist"} /\ Completes("success")
  /\ UNCHANGED <<systemd, launchd, task, crontab, failures>>

(* TaskSchedulerBackend: one script; removal continues silently.           *)
Register ==
  /\ At("register") /\ Present("task-scheduler")
  /\ \/ Succeeds /\ task' = TRUE /\ Completes("success")
     \/ Errs /\ UNCHANGED task /\ Completes("scheduler error")
  /\ UNCHANGED <<files, systemd, launchd, crontab>>
Unregister ==
  /\ At("unregister") /\ Present("task-scheduler")
  /\ \/ Succeeds /\ task' = FALSE /\ Completes("success")
     \/ Errs /\ UNCHANGED task /\ (Completes("success") \/ Completes("scheduler error"))
  /\ UNCHANGED <<files, systemd, launchd, crontab>>

-----------------------------------------------------------------------------
(* assess_scheduler_quiescence, one backend after the other.               *)

ApplicableBackends ==
  CASE host.wsl -> <<"systemd", "cron", "task-scheduler">>
    [] host.system = "Linux" /\ ~host.wsl -> <<"systemd", "cron">>
    [] host.system = "Darwin" -> <<"launchd", "cron">>
    [] host.system = "Windows" -> <<"task-scheduler">>

StateOf(installed) == IF installed THEN "installed" ELSE "absent"

SystemdSeen ==
  IF ~HasUserSystemd THEN "absent"
  ELSE StateOf(systemd.loaded \/ systemd.enabled \/ systemd.active)
ObserveSystemd == IF files \cap {"service", "timer"} # {} THEN "installed" ELSE SystemdSeen

(* Mutation: the listed property list is all that is asked.                *)
ObservePlist == StateOf("plist" \in files)
ObserveLaunchd == IF "plist" \in files THEN "installed" ELSE StateOf(launchd)
ObserveCron == StateOf(First(crontab, "begin") # 0 \/ First(crontab, "end") # 0)
ObserveTaskScheduler == StateOf(task)

(* Files in the home decide before any probe does.                         *)
Probed(b) ==
  CASE b = "systemd" -> HasUserSystemd /\ files \cap {"service", "timer"} = {}
    [] b = "launchd" -> "plist" \notin files
    [] OTHER -> TRUE
Inspect(b) ==
  CASE b = "systemd" -> ObserveSystemd
    [] b = "cron" -> ObserveCron
    [] b = "launchd" -> ObserveLaunchd
    [] b = "task-scheduler" -> ObserveTaskScheduler

BeginAssess ==
  /\ assessment.left = <<>> /\ assessment.verdict # "running"
  /\ assessment' = [left |-> ApplicableBackends, states |-> <<>>, verdict |-> "running"]
  /\ UNCHANGED <<host, schedule, daemon, reported, bounds>>

Observed(state) ==
  assessment' = [assessment EXCEPT !.left = Tail(@), !.states = Append(@, state)]
AssessBackend ==
  LET b == Head(assessment.left)
  IN /\ assessment.left # <<>>
     /\ \/ Probed(b) /\ b \in host.tools /\ Succeeds /\ Observed(Inspect(b))
        \/ ~Probed(b) /\ Succeeds /\ Observed(Inspect(b))
        \/ Probed(b) /\ b \notin host.tools /\ Succeeds /\ Observed("unassessable")
        \/ Probed(b) /\ b \in host.tools /\ Errs /\ Observed("unassessable")
     /\ UNCHANGED <<host, schedule, daemon, reported, commands, edits>>

Quiescent(states) == states # <<>> /\ \A i \in DOMAIN states : states[i] = "absent"
Decide ==
  /\ assessment.verdict = "running" /\ assessment.left = <<>>
  /\ assessment' = [assessment EXCEPT !.states = <<>>,
       !.verdict = IF Quiescent(assessment.states) THEN "quiescent" ELSE "write blocked"]
  /\ UNCHANGED <<host, schedule, daemon, reported, bounds>>

-----------------------------------------------------------------------------
(* The user: an entry is added before or after what is there, a line or a  *)
(* marker is deleted, a new session starts.                                *)

EditCrontab ==
  /\ Present("cron") /\ edits < MaxEdits /\ edits' = edits + 1
  /\ \/ \E e \in Entry :
          /\ Len(crontab) < MaxCrontab
          /\ crontab' \in {Append(crontab, e), <<e>> \o crontab}
     \/ \E i \in DOMAIN crontab : crontab[i] # "job" /\ crontab' = RemoveAt(crontab, i)
  /\ Marked(crontab')
  /\ UNCHANGED <<host, files, systemd, launchd, task, daemon, reported, assessment, commands, failures>>

Whole(names) == names \subseteq files
NewSession ==
  /\ edits < MaxEdits /\ edits' = edits + 1
  /\ systemd' = [loaded |-> Whole({"service", "timer"}), enabled |-> systemd.enabled /\ Whole({"timer"}),
                 active |-> systemd.enabled /\ Whole({"service", "timer"})]
  /\ launchd' = (host.system = "Darwin" /\ Whole({"plist"}))
  /\ daemon' = AtRest /\ reported' = Silent
  /\ assessment' = Unassessed
  /\ UNCHANGED <<host, files, task, crontab, commands, failures>>

-----------------------------------------------------------------------------
SchedulerStep ==
  \/ \E op \in {"install", "uninstall"}, b \in Backends \cup {"auto"} : StartCommand(op, b)
  \/ ToolMissing
  \/ WriteService \/ WriteTimer \/ Reload \/ Enable
  \/ Disable \/ UnlinkService \/ UnlinkTimer \/ ReloadLast
  \/ ListCrontab \/ WriteCrontab
  \/ WritePlist \/ Bootstrap \/ Kickstart \/ Bootout \/ UnlinkPlist
  \/ Register \/ Unregister
  \/ BeginAssess \/ AssessBackend \/ Decide
  \/ EditCrontab \/ NewSession

SchedulerNext ==
  /\ SchedulerStep
  /\ touched' = (schedule' # schedule \/ (touched /\ (assessment.verdict = "running" \/ assessment' = assessment)))

(* Maintenance would start by itself.                                      *)
Running(b) ==
  CASE b = "systemd" -> systemd.active
    [] b = "cron" -> First(crontab, "job") # 0
    [] b = "launchd" -> launchd
    [] b = "task-scheduler" -> task

(* A verdict of quiescence is true of every scheduler of the host as long  *)
(* as nothing has changed since the assessment began: not one left running *)
(* by a command that failed half way, or said it had removed it.           *)
QuiescentIsTrue ==
  assessment.verdict = "quiescent" /\ ~touched => \A b \in Backends : ~Running(b)

(* What install and uninstall write keeps every line of the user's, in     *)
(* order, when the crontab could be listed, was marked by the program      *)
(* alone and has not been edited since.                                    *)
KeepsUserLines ==
  [][daemon.at = "write" /\ daemon.listed /\ daemon.text = crontab /\ WellMarked(crontab)
       => SameUserLines(crontab, crontab') \/ edits' # edits]_schedulerVars

(* docs/token-maintenance.md:228 "Uninstall removes only the               *)
(* sidekick-marked block."                                                 *)
UninstallRemovesOnlyItsBlock ==
  [][daemon.at = "write" /\ daemon.op = "uninstall" /\ edits' = edits /\ WellMarked(crontab)
       => SameUserLines(crontab, crontab')]_schedulerVars
=============================================================================
