---------------------------- MODULE Installation ----------------------------
(***************************************************************************)
(* serverops-install: the managed block in the user's Codex configuration, *)
(* the per-user scheduled task and the uninstallation (installer/cli.py,   *)
(* installer/codex_config.py, broker/task_scheduler.py).                   *)
(*                                                                         *)
(* Installers of several versions run at the same time as an editor that   *)
(* rewrites or deletes the configuration and someone who puts a task of    *)
(* the same name there.  Nothing locks the file or the task: the code      *)
(* compares before it replaces.  What changes between its last comparison  *)
(* and its replacement cannot be seen by it; raced records that this       *)
(* happened.                                                               *)
(***************************************************************************)
EXTENDS Naturals, FiniteSets

CONSTANTS Installers,   \* the serverops-install processes
          Versions,     \* package versions
          CommandLines, \* the command lines they are started with
          Absent,
          MaxForeign    \* bound on foreign changes

VARIABLES codex,        \* config.toml of Codex: Absent or [text, breaks, valid, entry]
          backup,       \* config.toml.codex-serverops-mcp.backup
          task,         \* the scheduled task: Absent, "unmanaged" or the version it starts
          data,         \* "kept", "partly" or "removed"
          ipc, cmd,     \* what each installer does next, and its command line
          change,       \* its planned change: [previous, updated]
          had,          \* had_previous
          result,       \* what it printed, with the state it printed it in
          raced,        \* ghost: a change fell between a comparison and a replacement
          theirs,       \* ghost: what the others wrote last: [codex, task]
          changes

installVars == <<codex, backup, task, data, ipc, cmd, change, had, result,
                 raced, theirs, changes>>
system == <<codex, backup, task, data>>
others == <<theirs, changes>>

(* The text around the block, its line breaks (a removal also strips the   *)
(* outer ones), whether it is TOML, and the serverops entry: none, one     *)
(* without markers, several or malformed markers, or the version of the    *)
(* managed block.                                                          *)
Entries == {"none", "unmarked", "ambiguous"} \union Versions
CodexFile == [text : 0..MaxForeign, breaks : {"crlf", "lf", "stripped"}, valid : BOOLEAN, entry : Entries]
Blank == [text |-> 0, breaks |-> "lf", valid |-> TRUE, entry |-> "none"]
Commands == [name : {"codex-config", "remove", "broker-task", "update", "uninstall"},
             version : Versions, apply : BOOLEAN, remove_data : BOOLEAN]

(* --remove-data is an option of uninstall alone. *)
ASSUME CommandLinesAssumption ==
    CommandLines \subseteq {c \in Commands : c.remove_data => c.name = "uninstall"}
ASSUME InstallNames ==
    /\ Absent \notin CodexFile \union Versions \union {"unmanaged"} /\ MaxForeign \in Nat
    /\ Versions \intersect {"unmanaged", "none", "unmarked", "ambiguous"} = {}

Parses(f) == f = Absent \/ f.valid
Content(f) == IF f = Absent THEN Blank ELSE f

(* Path.read_text turns CRLF into LF, and what was read is written as bytes. *)
ReadText(f) == IF f # Absent /\ f.breaks = "crlf" THEN [f EXCEPT !.breaks = "lf"] ELSE f

(* The steps after a comparison and before the replacement it is meant for. *)
Window == {"replace", "validate", "restore", "delete", "register", "registered"}
BackupWindow == {"compare again", "replace", "validate", "restore"}
Races(p) == raced' = (raced \/ \E q \in Installers \ {p} : ipc[q] \in Window)
Everyone_races == raced' = (raced \/ \E q \in Installers : ipc[q] \in Window)

Step(p, to) == ipc' = [ipc EXCEPT ![p] = to]
EndedWith(p, status, f, d) ==
    /\ Step(p, "ended")
    /\ result' = [result EXCEPT ![p] = [status |-> status, codex |-> f, task |-> task, data |-> d,
                                        theirs |-> theirs.codex]]
Ended(p, status) == EndedWith(p, status, codex, data)
Quiet == UNCHANGED <<system, raced>>

---------------------------------------------------------------------------
(* _managed_span and the entry of the parsed document. *)
Refusal(f) == ~Parses(f) \/ Content(f).entry \in {"unmarked", "ambiguous"}
Updated(f, c) ==
    IF c.name = "codex-config" THEN [Content(f) EXCEPT !.entry = c.version]
    ELSE [Content(f) EXCEPT !.entry = "none", !.breaks = "stripped"]
CodexCommand(c) == c.name \in {"codex-config", "remove", "uninstall"}

(* plan_codex_config_change: an unmarked or ambiguous entry is refused. *)
Plan(p) ==
    LET c == cmd[p] IN
    /\ ipc[p] = "plan" /\ CodexCommand(c)
    /\ \/ Refusal(codex) /\ Ended(p, "refused") /\ UNCHANGED change
       \/ /\ ~Refusal(codex)
          /\ change' = [change EXCEPT ![p] =
                [previous |-> ReadText(codex),
                 updated |-> IF Content(codex).entry = "none" /\ c.name # "codex-config"
                             THEN ReadText(codex) ELSE Updated(ReadText(codex), c)]]
          /\ \/ c.name = "uninstall" /\ task = "unmanaged" /\ Ended(p, "refused")
             \/ /\ ~(c.name = "uninstall" /\ task = "unmanaged")
                /\ IF c.apply THEN Step(p, "confirm") /\ UNCHANGED result ELSE Ended(p, "preview")
    /\ Quiet /\ UNCHANGED <<cmd, had, others>>

(* managed_block refuses a version it cannot pin, a wheel or a Python      *)
(* executable that does not match; an unreadable file is refused too.      *)
PlanFails(p) ==
    /\ ipc[p] = "plan" /\ CodexCommand(cmd[p]) /\ Ended(p, "refused")
    /\ Quiet /\ UNCHANGED <<cmd, change, had, others>>

(* _confirm_or_raise; uninstall asks the broker to shut down next. *)
Confirm(p) ==
    /\ ipc[p] = "confirm"
    /\ \/ Ended(p, "not applied")
       \/ /\ Step(p, CASE cmd[p].name = "uninstall" -> "shutdown" [] cmd[p].name = "broker-task" -> "inspect"
                       [] OTHER -> "compare")
          /\ UNCHANGED result
    /\ Quiet /\ UNCHANGED <<cmd, change, had, others>>

(* _shutdown_broker: an unavailable broker is fine, another error is not. *)
ShutdownBroker(p) ==
    /\ ipc[p] = "shutdown"
    /\ \/ Step(p, "inspect") /\ UNCHANGED result
       \/ Ended(p, "failed")
    /\ Quiet /\ UNCHANGED <<cmd, change, had, others>>

---------------------------------------------------------------------------
(* _assert_current: the file reads as the one the preview was made from. *)
Current(p) == ReadText(codex) = change[p].previous

(* apply_codex_config_change up to the first write. *)
Compare(p) ==
    /\ ipc[p] = "compare"
    /\ \/ ~Current(p) /\ Ended(p, "changed")
       \/ Current(p) /\ change[p].updated # change[p].previous /\ Step(p, "backup") /\ UNCHANGED result
       \/ /\ Current(p) /\ change[p].updated = change[p].previous
          /\ IF cmd[p].remove_data THEN Step(p, "rmtree") /\ UNCHANGED result ELSE Ended(p, "updated")
    /\ Quiet /\ UNCHANGED <<cmd, change, had, others>>

Backup(p) ==
    /\ ipc[p] = "backup"
    /\ had' = [had EXCEPT ![p] = codex # Absent]
    /\ \/ /\ backup' = IF codex # Absent THEN Content(change[p].previous) ELSE backup
          /\ raced' = (raced \/ \E q \in Installers \ {p} : ipc[q] \in BackupWindow)
          /\ Step(p, "compare again") /\ UNCHANGED result
       \/ UNCHANGED <<backup, raced>> /\ Ended(p, "rolled back") \* OSError
    /\ UNCHANGED <<codex, task, data, cmd, change, others>>

(* A mutant: the comparison is not made again. *)
CompareAgain_trusting(p) ==
    /\ ipc[p] = "compare again" /\ Step(p, "replace")
    /\ Quiet /\ UNCHANGED <<cmd, change, had, result, others>>

(* The staged file is written and parsed; the comparison is made again. *)
CompareAgain(p) ==
    /\ ipc[p] = "compare again"
    /\ \/ Current(p) /\ Step(p, "replace") /\ UNCHANGED result
       \/ Ended(p, "rolled back")                              \* changed, or OSError
    /\ Quiet /\ UNCHANGED <<cmd, change, had, others>>

Replace(p) ==
    /\ ipc[p] = "replace"
    /\ \/ /\ codex' = change[p].updated /\ Step(p, "validate") /\ Races(p) /\ UNCHANGED result
       \/ UNCHANGED <<codex, raced>> /\ Ended(p, "rolled back")
    /\ UNCHANGED <<backup, task, data, cmd, change, had, others>>

(* The replaced file is read and parsed once more. *)
Validate(p) ==
    /\ ipc[p] = "validate"
    /\ \/ /\ codex # Absent /\ Parses(codex)
          /\ IF cmd[p].remove_data THEN Step(p, "rmtree") /\ UNCHANGED result ELSE Ended(p, "updated")
       \/ Step(p, "restore") /\ UNCHANGED result               \* missing, not TOML, or OSError
    /\ Quiet /\ UNCHANGED <<cmd, change, had, others>>

(* A mutant: the failure is reported and the replaced file left. *)
Restore_forgotten(p) ==
    /\ ipc[p] = "restore" /\ Ended(p, "rolled back")
    /\ Quiet /\ UNCHANGED <<cmd, change, had, others>>

Restore(p) ==
    /\ ipc[p] = "restore"
    /\ \/ LET previous == IF had[p] THEN backup ELSE Absent
          IN codex' = previous /\ EndedWith(p, "rolled back", previous, data)
       \/ UNCHANGED codex /\ Ended(p, "rollback incomplete")
    /\ Races(p) /\ UNCHANGED <<backup, task, data, cmd, change, had, others>>

(* remove_local_data: shutil.rmtree may stop at a file in use, or be killed. *)
Interrupted == IF data = "kept" THEN {"kept", "partly"} ELSE {data}
RemoveData(p) ==
    /\ ipc[p] = "rmtree"
    /\ \/ data' = "removed" /\ EndedWith(p, "updated", codex, "removed")
       \/ data' \in Interrupted /\ Ended(p, "failed")
    /\ UNCHANGED <<codex, backup, task, raced, cmd, change, had, others>>

---------------------------------------------------------------------------
Managed(t) == t \in Versions            \* _managed_definition

(* inspect_compatible: no task, or one pinned to the expected runtime. *)
inspect_compatible(t, v) == t \in {Absent, v}

(* _configure_broker_task and update: the task is inspected first. *)
PlanTask(p) ==
    LET c == cmd[p] IN
    /\ ipc[p] = "plan" /\ ~CodexCommand(c)
    /\ \/ task = "unmanaged" /\ Ended(p, "refused")
       \/ /\ task # "unmanaged" /\ c.name = "update"
          /\ Ended(p, IF inspect_compatible(task, c.version) THEN "updated" ELSE "refused")
       \/ /\ task # "unmanaged" /\ c.name = "broker-task"
          /\ IF c.apply THEN Step(p, "confirm") /\ UNCHANGED result ELSE Ended(p, "preview")
    /\ Quiet /\ UNCHANGED <<cmd, change, had, others>>

(* register and remove inspect the task again before they act on its name. *)
Inspect(p) ==
    /\ ipc[p] = "inspect"
    /\ \/ task = "unmanaged" /\ Ended(p, "refused")
       \/ task # "unmanaged" /\ cmd[p].name = "broker-task" /\ Step(p, "register") /\ UNCHANGED result
       \/ /\ task # "unmanaged" /\ cmd[p].name = "uninstall" /\ UNCHANGED result
          /\ Step(p, IF task = Absent THEN "compare" ELSE "delete")
       \/ Ended(p, "failed")                                   \* BrokerTaskUnavailable
    /\ Quiet /\ UNCHANGED <<cmd, change, had, others>>

DeleteTask(p) ==
    /\ ipc[p] = "delete"
    /\ \/ task # Absent /\ task' = Absent /\ Step(p, "compare") /\ Races(p) /\ UNCHANGED result
       \/ UNCHANGED <<task, raced>> /\ Ended(p, "failed")
    /\ UNCHANGED <<codex, backup, data, cmd, change, had, others>>

RegisterTask(p) ==
    /\ ipc[p] = "register"
    /\ \/ task' = cmd[p].version /\ Step(p, "registered") /\ Races(p) /\ UNCHANGED result
       \/ UNCHANGED <<task, raced>> /\ Ended(p, "failed")
    /\ UNCHANGED <<codex, backup, data, cmd, change, had, others>>

Registered(p) ==
    /\ ipc[p] = "registered"
    /\ Ended(p, IF Managed(task) THEN "updated" ELSE "failed")
    /\ Quiet /\ UNCHANGED <<cmd, change, had, others>>

---------------------------------------------------------------------------
(* Codex or its user writes or deletes the configuration; an entry without *)
(* markers may be theirs.                                                  *)
EditCodex(f) ==
    /\ changes < MaxForeign /\ changes' = changes + 1
    /\ codex' = f /\ theirs' = [theirs EXCEPT !.codex = f] /\ Everyone_races
    /\ UNCHANGED <<backup, task, data, ipc, cmd, change, had, result>>

(* Another program registers or removes a task of the same name. *)
ChangeTask(t) ==
    /\ changes < MaxForeign /\ changes' = changes + 1
    /\ task' = t /\ theirs' = [theirs EXCEPT !.task = t] /\ Everyone_races
    /\ UNCHANGED <<codex, backup, data, ipc, cmd, change, had, result>>

(* An installer is killed; its staged files stay behind. *)
Killed(p) ==
    /\ ipc[p] \notin {"ended", "plan"} /\ Ended(p, "killed")
    /\ data' \in IF ipc[p] = "rmtree" THEN Interrupted ELSE {data}
    /\ UNCHANGED <<codex, backup, task, raced, cmd, change, had, others>>

---------------------------------------------------------------------------
Rewritten == {Absent} \union {[text |-> changes + 1, breaks |-> "crlf", valid |-> e = Content(codex).entry => v, entry |-> e] :
                  v \in BOOLEAN, e \in {Content(codex).entry, "unmarked", "ambiguous"}}

(* What the user writes ends its lines as Windows does; the installer reads *)
(* a file of other line breaks in the same way and loses less of it.        *)
InitInstall ==
    /\ codex \in {Absent} \union [text : {0}, breaks : {"crlf"}, valid : {TRUE},
                                  entry : {"none", "unmarked"} \union Versions]
    /\ task \in {Absent, "unmanaged"} \union Versions
    /\ backup = Absent /\ data = "kept"
    /\ ipc = [p \in Installers |-> "plan"]
    /\ cmd \in [Installers -> CommandLines]
    /\ change = [p \in Installers |-> [previous |-> Absent, updated |-> Absent]]
    /\ had = [p \in Installers |-> FALSE]
    /\ result = [p \in Installers |-> [status |-> "none"]]
    /\ raced = FALSE /\ changes = 0
    /\ theirs = [codex |-> codex, task |-> task]

run(p) == Plan(p) \/ PlanFails(p) \/ PlanTask(p) \/ Confirm(p) \/ ShutdownBroker(p) \/ Compare(p)
          \/ Backup(p) \/ CompareAgain(p) \/ Replace(p) \/ Validate(p) \/ Restore(p) \/ RemoveData(p)
          \/ Inspect(p) \/ DeleteTask(p) \/ RegisterTask(p) \/ Registered(p) \/ Killed(p)

InstallNext ==
    \/ \E p \in Installers : run(p)
    \/ \E f \in Rewritten : EditCodex(f)
    \/ \E t \in {Absent, "unmanaged"} : ChangeTask(t)

InstallSpec == InitInstall /\ [][InstallNext]_installVars

---------------------------------------------------------------------------
(* LocalChecker._codex_config: what the check says of the file. *)
_codex_config(f, v) ==
    CASE f = Absent -> "missing"
      [] f # Absent /\ (~f.valid \/ f.entry = "ambiguous") -> "invalid"
      [] f # Absent /\ f.valid /\ f.entry \in {"none", "unmarked"} -> "unmanaged"
      [] OTHER -> IF f.entry = v THEN "pass" ELSE "version_mismatch"

(* What an installer may not change: the text up to its line breaks, its faults *)
(* and a foreign entry.                                                         *)
Foreign(f) == [text |-> Content(f).text, valid |-> Content(f).valid,
               entry |-> IF Content(f).entry \in {"unmarked", "ambiguous"} THEN Content(f).entry ELSE "none"]

InstallTypeOK ==
    /\ codex \in CodexFile \union {Absent} /\ backup \in CodexFile \union {Absent}
    /\ task \in {Absent, "unmanaged"} \union Versions /\ data \in {"kept", "partly", "removed"}
    /\ cmd \in [Installers -> Commands] /\ had \in [Installers -> BOOLEAN]

(* Unless a change falls between a comparison and a replacement, what the  *)
(* user wrote around the block, but for its line breaks, an entry of his   *)
(* own and a task that is not managed survive every installation, removal, *)
(* failure and rollback.                                                   *)
ForeignSurvives ==
    ~raced => /\ Foreign(codex) = Foreign(theirs.codex)
              /\ theirs.task = "unmanaged" => task = "unmanaged"

(* What an installer printed was so when it printed it: an update left the *)
(* pin the check accepts, a removal left none, a rollback left the file as *)
(* it read it unless another one wrote it; and uninstall removed the data  *)
(* last, so that one that fails or is refused earlier leaves it.           *)
InstallerReportsAreTrue ==
    /\ ~raced => \A p \in Installers :
         LET r == result[p]  c == cmd[p]  rest == Installers \ {p} IN
           /\ r.status = "updated" =>
                CASE c.name = "codex-config" -> _codex_config(r.codex, c.version) = "pass"
                  [] c.name = "remove" -> _codex_config(r.codex, c.version) \in {"missing", "unmanaged"}
                  [] c.name = "broker-task" -> r.task = c.version
                  [] c.name = "update" -> r.task \in {Absent, c.version}
                  [] OTHER -> /\ c.remove_data => r.data = "removed"
                              /\ Managed(r.task) => \E q \in rest : cmd[q].name = "broker-task"
           /\ r.status = "rolled back" =>
                \E f \in {change[p].previous, r.theirs} \union {change[q].updated : q \in rest} :
                    Content(ReadText(r.codex)) = Content(ReadText(f))
    /\ data # "kept" => \E p \in Installers : cmd[p].remove_data /\ ipc[p] = "ended"
                                             /\ result[p].status \in {"updated", "failed", "killed"}
=============================================================================
