---------------------------- MODULE ProfileSetup ----------------------------
(***************************************************************************)
(* Local profile setup: the status record of each setup request, written   *)
(* by the MCP server that polls it and by the setup process that serves    *)
(* it, and the profile file the setup windows of one user share.           *)
(*                                                                         *)
(* A region under the inter-process lock of the profile file is one step.  *)
(* A region may raise before it writes (lock timeout, unreadable file,     *)
(* failed write) or after the file was replaced (securing the new file).   *)
(* The record has no lock: every load and every replacement is a step.     *)
(* The encoding is canonical, so two files have the same content hash      *)
(* exactly when they hold the same profiles.                               *)
(***************************************************************************)
EXTENDS Naturals

CONSTANTS
  Requests,   \* setup requests, each served by one process
  Profiles,   \* profile names
  Expiring,   \* bound: the requests that may outlive their thirty minutes
  MaxTries,   \* bound: the operations started in one window
  None        \* no profile, no request, no report

ASSUME NoneAssumption == None \notin Requests
ASSUME ExpiringAssumption == Expiring \subseteq Requests
ASSUME TriesAssumption == MaxTries \in Nat

VARIABLES
  record,     \* the status in each request's file, "absent" before create
  poll,       \* the MCP server's expire_if_needed
  due,        \* the clock has passed expires_at
  apc,        \* where each setup process stands
  win,        \* what the process holds in memory
  config,     \* the profile file
  wrote,      \* ghost: the last thing the process wrote into the file
  authorized  \* requests whose key is in the remote authorized_keys

recordVars == <<record, poll, due>>
fileVars   == <<config, wrote>>
vars == <<recordVars, apc, win, fileVars, authorized>>

-----------------------------------------------------------------------------
SetupAction == {"add", "edit", "remove", "test"}
Open == {"user_interaction_required", "running"}
Done == {"created", "updated", "removed", "tested", "cancelled", "expired"}
SetupStatus == Open \union Done \union {"failed"}

\* A mutant: the action is taken for the status.
StatusOf_same(a) == a

\* The status a window reports for a successful operation.
StatusOf(a) ==
  [add |-> "created", edit |-> "updated", remove |-> "removed", test |-> "tested"][a]

\* "expire", "start", "finish", "fail": inside SetupRequestStore.update.
UpdatePc == {"expire", "start", "finish", "fail"}
WindowPc == {"window", "save", "remove", "removing", "test"}
TransitionPc == {"install", "stage", "key", "switch", "login", "confirm",
                 "rollback", "restore"}
AppPc == {"none", "launched", "build", "failing", "exited"}
         \union UpdatePc \union WindowPc \union TransitionPc

LocalRollbackStatus == {"rolled_back", "skipped_concurrent_change", "failed"}

\* A profile, by the operation that wrote it.
Profile == {<<None, 0, "initial">>}
           \union (Requests \X (0..MaxTries) \X {"plain", "password", "key"})
File == [Profiles -> Profile \union {None}]
Empty == [p \in Profiles |-> None]

ASSUME NoValueAssumption == None \notin Profile \union Done \union LocalRollbackStatus

\* The memory of a setup process: action and name, of the request it serves; passed, its
\* update found the record open; original, owned, installed and unknown, the locals of
\* remove and install_public_key_and_switch (owned is the file behind owned_hash);
\* report, the rollback status shown for the last operation.
Memory == [action : SetupAction \union {None}, name : Profiles \union {None},
           passed : BOOLEAN, outcome : Done \union {None}, tries : 0..MaxTries,
           original : File, owned : File, installed : BOOLEAN, unknown : BOOLEAN,
           report : LocalRollbackStatus \union {None}]
Blank == [action |-> None, name |-> None, passed |-> FALSE, outcome |-> None, tries |-> 0,
          original |-> Empty, owned |-> Empty, installed |-> FALSE, unknown |-> FALSE,
          report |-> None]

Written(r, kind) == <<r, win[r].tries, kind>>
With(file, r, kind) == [file EXCEPT ![win[r].name] = Written(r, kind)]
Exists(r) == config[win[r].name] # None

Set(f, r, v) == [f EXCEPT ![r] = v]
Goto(r, where) == apc' = Set(apc, r, where)
Exit(r) == Goto(r, "exited") /\ win' = Set(win, r, Blank)

-----------------------------------------------------------------------------
(* The MCP server: SetupCoordinator and SetupRequestStore.                 *)

\* start: the record is created and the window's process launched.  The name of a profile
\* to add is only a suggestion.
Start(r) ==
  /\ record[r] = "absent"
  /\ \E a \in SetupAction : \E p \in IF a = "add" THEN {None} ELSE Profiles :
       win' = [win EXCEPT ![r] = [@ EXCEPT !.action = a, !.name = p]]
  /\ record' = Set(record, r, "user_interaction_required")
  /\ Goto(r, "launched")
  /\ UNCHANGED <<poll, due, fileVars, authorized>>

\* start: the launcher raises, which is recorded unless that raises too; the client
\* does not learn the request id.
LaunchFails(r) ==
  /\ record[r] = "absent"
  /\ record' \in {Set(record, r, "failed"), Set(record, r, "user_interaction_required")}
  /\ UNCHANGED <<poll, due, apc, win, fileVars, authorized>>

\* Thirty minutes have passed.
ClockExpires(r) ==
  /\ r \in Expiring /\ record[r] \in Open /\ ~due[r]
  /\ due' = Set(due, r, TRUE)
  /\ UNCHANGED <<record, poll, apc, win, fileVars, authorized>>

\* A mutant: only a request whose window never opened expires.
expire_if_needed_pending(r) ==
  /\ apc[r] # "none" /\ poll[r] = "idle"
  /\ record[r] = "user_interaction_required" /\ due[r]
  /\ poll' = Set(poll, r, "expiring")
  /\ UNCHANGED <<record, due, apc, win, fileVars, authorized>>

\* expire_if_needed, called by status and by each turn of wait.
expire_if_needed(r) ==
  /\ apc[r] # "none" /\ poll[r] = "idle"
  /\ record[r] \in Open /\ due[r]
  /\ poll' = Set(poll, r, "expiring")
  /\ UNCHANGED <<record, due, apc, win, fileVars, authorized>>

\* update loads the record again and refuses a completed one.
ExpiryLoads(r) ==
  /\ poll[r] = "expiring"
  /\ poll' = Set(poll, r, IF record[r] \in Open THEN "passed" ELSE "idle")
  /\ UNCHANGED <<record, due, apc, win, fileVars, authorized>>

ExpiryWrites(r) ==
  /\ poll[r] = "passed"
  /\ poll' = Set(poll, r, "idle") /\ record' = Set(record, r, "expired")
  /\ UNCHANGED <<due, apc, win, fileVars, authorized>>

\* Reading or replacing the record raises; status or wait ends with the error.
ExpiryRaises(r) ==
  /\ poll[r] # "idle"
  /\ poll' = Set(poll, r, "idle")
  /\ UNCHANGED <<record, due, apc, win, fileVars, authorized>>

PollStep(r) == \/ expire_if_needed(r) \/ ExpiryLoads(r)
               \/ ExpiryWrites(r) \/ ExpiryRaises(r)

-----------------------------------------------------------------------------
(* run_setup_app: the record as the setup process writes it.               *)

\* The process looks at its record before anything else.
AppLoads(r) ==
  /\ apc[r] = "launched"
  /\ \/ record[r] \in Open /\ due[r] /\ Goto(r, "expire") /\ UNCHANGED win
     \/ record[r] = "user_interaction_required" /\ ~due[r]
          /\ Goto(r, "start") /\ UNCHANGED win
     \/ record[r] \notin Open /\ Exit(r)
  /\ UNCHANGED <<recordVars, fileVars, authorized>>

\* What the update a process is in wants to write.
NewStatus(r) == CASE apc[r] = "expire" -> "expired"
                  [] apc[r] = "start"  -> "running"
                  [] apc[r] = "finish" -> win[r].outcome
                  [] OTHER             -> "failed"

\* An exception inside an update leads into the except block, or out of it.
Raise(r) == IF apc[r] = "fail" THEN Exit(r)
                               ELSE Goto(r, "failing") /\ win' = Set(win, r, Blank)

\* update: load and test.
UpdateLoads(r) ==
  /\ apc[r] \in UpdatePc /\ ~win[r].passed
  /\ IF record[r] \in Open
     THEN win' = [win EXCEPT ![r].passed = TRUE] /\ UNCHANGED apc
     ELSE Raise(r)
  /\ UNCHANGED <<recordVars, fileVars, authorized>>

\* update: the record is replaced.
UpdateWrites(r) ==
  /\ apc[r] \in UpdatePc /\ win[r].passed
  /\ record' = Set(record, r, NewStatus(r))
  /\ IF apc[r] = "start"
     THEN Goto(r, "build") /\ win' = [win EXCEPT ![r].passed = FALSE]
     ELSE Exit(r)
  /\ UNCHANGED <<poll, due, fileVars, authorized>>

\* update: the load or the write raises, or securing the new file does.
UpdateRaises(r) ==
  /\ apc[r] \in UpdatePc
  /\ record' \in {record} \union
                 (IF win[r].passed THEN {Set(record, r, NewStatus(r))} ELSE {})
  /\ Raise(r)
  /\ UNCHANGED <<poll, due, fileVars, authorized>>

\* The except block fails an open record and leaves a completed one.
AppFails(r) ==
  /\ apc[r] = "failing"
  /\ IF record[r] \in Open THEN Goto(r, "fail") /\ UNCHANGED win ELSE Exit(r)
  /\ UNCHANGED <<recordVars, fileVars, authorized>>

\* The window is built, from the existing profile unless one is added.
BuildWindow(r) ==
  /\ apc[r] = "build"
  /\ win[r].action # "add" => Exists(r)
  /\ Goto(r, "window")
  /\ UNCHANGED <<recordVars, win, fileVars, authorized>>

\* The record cannot be read; or the profile is gone, or Tk or the profile file cannot
\* be used.
AppRaises(r) ==
  /\ apc[r] \in {"launched", "build"}
  /\ Raise(r)
  /\ UNCHANGED <<recordVars, fileVars, authorized>>

\* The process is killed; the operating system releases its lock.
AppCrashes(r) ==
  /\ apc[r] \notin {"none", "exited"}
  /\ Exit(r)
  /\ UNCHANGED <<recordVars, fileVars, authorized>>

-----------------------------------------------------------------------------
(* SetupWindow: what the user starts, and the plain operations.            *)

\* The operation is over: its locals are gone and the error, with the rollback status if
\* it carries one, has been shown.  The user may try again.
BackToWindow(r, status) ==
  /\ Goto(r, "window")
  /\ win' = [win EXCEPT ![r] = [@ EXCEPT !.original = Empty, !.owned = Empty,
               !.installed = FALSE, !.unknown = FALSE, !.report = status]]

\* _complete: the outcome is set and the window is destroyed.
Complete(r, status) ==
  /\ Goto(r, "finish")
  /\ win' = [win EXCEPT ![r] = [@ EXCEPT !.original = Empty, !.owned = Empty,
               !.installed = FALSE, !.unknown = FALSE, !.outcome = status]]

Cancel(r) ==
  /\ apc[r] = "window"
  /\ Complete(r, "cancelled")
  /\ UNCHANGED <<recordVars, fileVars, authorized>>

\* _expire: the window's own timer.
WindowExpires(r) ==
  /\ apc[r] = "window" /\ due[r]
  /\ Complete(r, "expired")
  /\ UNCHANGED <<recordVars, fileVars, authorized>>

\* The user confirms.  A form may ask for the key to be installed; to add a profile it
\* also has the name, which the user may change from one try to the next.
Confirm(r) ==
  /\ apc[r] = "window" /\ win[r].tries < MaxTries
  /\ \E where \in CASE win[r].action = "remove" -> {"remove"}
                    [] win[r].action = "test"   -> {"test"}
                    [] OTHER                    -> {"save", "install"} : Goto(r, where)
  /\ \E p \in IF win[r].action = "add" THEN Profiles ELSE {win[r].name} :
       win' = [win EXCEPT ![r] = [@ EXCEPT !.name = p, !.tries = win[r].tries + 1,
                                                !.report = None]]
  /\ UNCHANGED <<recordVars, fileVars, authorized>>

\* A refused or failed operation: _show_error.
OperationFails(r) ==
  /\ apc[r] \in {"save", "remove", "removing", "test", "install", "stage"}
  /\ BackToWindow(r, None)
  /\ UNCHANGED <<recordVars, fileVars, authorized>>

WriteFile(r, file, what) == config' = file /\ wrote' = Set(wrote, r, what)

\* add refuses an existing profile and edit an absent one.  Here and below the second
\* alternative is an exception after the file was replaced.
SaveProfile(r) ==
  /\ apc[r] = "save"
  /\ Exists(r) = (win[r].action = "edit")
  /\ WriteFile(r, With(config, r, "plain"), "plain")
  /\ Complete(r, StatusOf(win[r].action)) \/ BackToWindow(r, None)
  /\ UNCHANGED <<recordVars, authorized>>

\* remove loads a snapshot that holds the profile.
RemoveLoads(r) ==
  /\ apc[r] = "remove" /\ Exists(r)
  /\ win' = [win EXCEPT ![r].original = config]
  /\ Goto(r, "removing")
  /\ UNCHANGED <<recordVars, fileVars, authorized>>

\* A mutant: no comparison.
HashMatches_ignored(expected) == TRUE

\* save and update: _check_hash compares the file with what was read.
HashMatches(expected) == config = expected

\* remove_profile with the snapshot's hash.
RemoveProfile(r) ==
  /\ apc[r] = "removing" /\ HashMatches(win[r].original)
  /\ WriteFile(r, [config EXCEPT ![win[r].name] = None], "removed")
  /\ Complete(r, "removed") \/ BackToWindow(r, None)
  /\ UNCHANGED <<recordVars, authorized>>

\* test: the profile is loaded and a session opened and closed.
TestProfile(r) ==
  /\ apc[r] = "test" /\ Exists(r)
  /\ Complete(r, "tested")
  /\ UNCHANGED <<recordVars, fileVars, authorized>>

-----------------------------------------------------------------------------
(* install_public_key_and_switch.                                          *)

\* The snapshot holds the profile exactly when the form edits one.
InstallLoads(r) ==
  /\ apc[r] = "install"
  /\ Exists(r) = (win[r].action = "edit")
  /\ win' = [win EXCEPT ![r].original = config]
  /\ Goto(r, "stage")
  /\ UNCHANGED <<recordVars, fileVars, authorized>>

\* The password profile is saved.  This write stands before the try block: when it
\* raises after the replacement nothing is rolled back.
StageProfile(r) ==
  LET file == With(win[r].original, r, "password") IN
  /\ apc[r] = "stage" /\ HashMatches(win[r].original)
  /\ WriteFile(r, file, "password")
  /\ \/ Goto(r, "key") /\ win' = [win EXCEPT ![r].owned = file]
     \/ BackToWindow(r, None)
  /\ UNCHANGED <<recordVars, authorized>>

\* The password session ran the install command and its marker came back.
InstallKey(r) ==
  /\ apc[r] = "key"
  /\ authorized' = authorized \union {r}
  /\ win' = [win EXCEPT ![r].installed = TRUE]
  /\ Goto(r, "switch")
  /\ UNCHANGED <<recordVars, fileVars>>

\* No marker: the outcome is unknown, or the broker says that the command failed;
\* the key may have been written either way.
InstallKeyFails(r) ==
  /\ apc[r] = "key"
  /\ authorized' \in {authorized, authorized \union {r}}
  /\ \E u \in BOOLEAN : win' = [win EXCEPT ![r].unknown = u]
  /\ Goto(r, "rollback")
  /\ UNCHANGED <<recordVars, fileVars>>

\* The key profile is saved over the staged one.  When this raises after the
\* replacement owned_hash is still the staged file's.
SwitchProfile(r) ==
  LET file == With(win[r].owned, r, "key") IN
  /\ apc[r] = "switch" /\ HashMatches(win[r].owned)
  /\ WriteFile(r, file, "key")
  /\ \/ Goto(r, "login") /\ win' = [win EXCEPT ![r].owned = file]
     \/ Goto(r, "rollback") /\ UNCHANGED win
  /\ UNCHANGED <<recordVars, authorized>>

\* test: a fresh session of the profile the worker finds in the file now.
FreshLogin(r) ==
  /\ apc[r] = "login" /\ Exists(r)
  /\ config[win[r].name] = Written(r, "key") => r \in authorized
  /\ Goto(r, "confirm")
  /\ UNCHANGED <<recordVars, fileVars, win, authorized>>

\* The file is still the transaction's own.
SwitchCompletes(r) ==
  /\ apc[r] = "confirm" /\ HashMatches(win[r].owned)
  /\ Complete(r, StatusOf(win[r].action))
  /\ UNCHANGED <<recordVars, fileVars, authorized>>

\* A failed login, a conflict or any other exception after the installation.
TransitionFails(r) ==
  /\ apc[r] \in {"switch", "login", "confirm"}
  /\ Goto(r, "rollback")
  /\ UNCHANGED <<recordVars, win, fileVars, authorized>>

\* _rollback_local_profile compares the file with what the transaction owns.
RollbackLoads(r) ==
  /\ apc[r] = "rollback" /\ HashMatches(win[r].owned)
  /\ Goto(r, "restore")
  /\ UNCHANGED <<recordVars, win, fileVars, authorized>>

\* The status is shown only with an unknown outcome or an installed key.
Told(r, status) == IF win[r].installed \/ win[r].unknown THEN status ELSE None

RollbackSkipped(r) ==
  /\ apc[r] = "rollback" /\ ~HashMatches(win[r].owned)
  /\ BackToWindow(r, Told(r, "skipped_concurrent_change"))
  /\ UNCHANGED <<recordVars, fileVars, authorized>>

\* The original snapshot is saved back.
Restore(r) ==
  /\ apc[r] = "restore" /\ HashMatches(win[r].owned)
  /\ WriteFile(r, win[r].original, "restored")
  /\ \E status \in {"rolled_back", "failed"} : BackToWindow(r, Told(r, status))
  /\ UNCHANGED <<recordVars, authorized>>

\* A mutant: every exception counts as a completed rollback.
RollbackFails_claims(r) ==
  /\ apc[r] \in {"rollback", "restore"}
  /\ BackToWindow(r, Told(r, "rolled_back"))
  /\ UNCHANGED <<recordVars, fileVars, authorized>>

\* The rollback's load or save raises, the hash conflict of its save included.
RollbackFails(r) ==
  /\ apc[r] \in {"rollback", "restore"}
  /\ BackToWindow(r, Told(r, "failed"))
  /\ UNCHANGED <<recordVars, fileVars, authorized>>

-----------------------------------------------------------------------------
Init ==
  /\ record = [r \in Requests |-> "absent"] /\ poll = [r \in Requests |-> "idle"]
  /\ due = [r \in Requests |-> FALSE]
  /\ apc = [r \in Requests |-> "none"] /\ win = [r \in Requests |-> Blank]
  /\ config \in [Profiles -> {None, <<None, 0, "initial">>}]
  /\ wrote = [r \in Requests |-> None]
  /\ authorized = {}

StoreStep(r) == \/ AppLoads(r) \/ UpdateLoads(r) \/ UpdateWrites(r) \/ UpdateRaises(r)
                \/ AppFails(r) \/ BuildWindow(r) \/ AppRaises(r)

WindowStep(r) == \/ Cancel(r) \/ WindowExpires(r) \/ Confirm(r) \/ OperationFails(r)
                 \/ SaveProfile(r) \/ RemoveLoads(r) \/ RemoveProfile(r) \/ TestProfile(r)

TransitionStep(r) ==
  \/ InstallLoads(r) \/ StageProfile(r) \/ InstallKey(r) \/ InstallKeyFails(r)
  \/ SwitchProfile(r) \/ FreshLogin(r) \/ SwitchCompletes(r) \/ TransitionFails(r)
  \/ RollbackLoads(r) \/ RollbackSkipped(r) \/ Restore(r) \/ RollbackFails(r)

Next == \E r \in Requests :
          \/ Start(r) \/ LaunchFails(r) \/ ClockExpires(r) \/ AppCrashes(r)
          \/ PollStep(r) \/ StoreStep(r) \/ WindowStep(r) \/ TransitionStep(r)

Spec == Init /\ [][Next]_vars

\* A client that keeps polling, and a record whose reads and replacements do not raise
\* every time.
Fairness == \A r \in Requests :
  /\ WF_vars(ClockExpires(r)) /\ WF_vars(PollStep(r))
  /\ SF_vars(ExpiryLoads(r)) /\ SF_vars(ExpiryWrites(r))

FairSpec == Spec /\ Fairness

-----------------------------------------------------------------------------
(* Properties.                                                             *)

\* The record, the two sides that write it, the process's memory and the profile file
\* hold values of their types.
TypeOK ==
  /\ record \in [Requests -> SetupStatus \union {"absent"}]
  /\ poll \in [Requests -> {"idle", "expiring", "passed"}]
  /\ due \in [Requests -> BOOLEAN]
  /\ apc \in [Requests -> AppPc]
  /\ win \in [Requests -> Memory]
  /\ config \in File
  /\ wrote \in [Requests -> {None, "plain", "password", "key", "removed", "restored"}]
  /\ authorized \subseteq Requests

\* The hash-guarded operations (remove, the key transition and its rollback) save whole
\* files.  They touch no profile but their own, and there replace only what they found
\* when they began or wrote themselves: no edit made meanwhile by another window is lost.
ConcurrentEditsSurvive ==
  [][\A r \in Requests, p \in Profiles :
       apc[r] \in {"removing", "stage", "switch", "restore"} /\ apc'[r] # apc[r]
         /\ config'[p] # config[p]
       => /\ p = win[r].name
          /\ config[p] \in {win[r].original[p], Written(r, "password"), Written(r, "key")}]_vars

\* Between operations the transition has left what its report says: an untested key
\* profile stays only with the word that it was not rolled back, and after "rolled_back"
\* neither of the operation's profiles is in the file.
TransitionIsReported ==
  \A r \in Requests : apc[r] = "window" /\ win[r].tries > 0 =>
    /\ config[win[r].name] = Written(r, "key")
         => win[r].report \in {"skipped_concurrent_change", "failed"}
    /\ win[r].report = "rolled_back"
         => config[win[r].name] \notin {Written(r, "key"), Written(r, "password")}

\* A record that says created, updated or removed is true: the process has made that
\* change, and when it switched to a key the key is on the server.
RecordsAreTrue ==
  \A r \in Requests :
    /\ record[r] \in {"created", "updated"} =>
         wrote[r] = "plain" \/ (wrote[r] = "key" /\ r \in authorized)
    /\ record[r] = "removed" => wrote[r] = "removed"

\* What the setup window reports and what the record says is what was done to the file.
SetupReportsAreTrue == TransitionIsReported /\ RecordsAreTrue

\* Every request ends if its client keeps polling: the record does not stay open although
\* the window is ignored, the process crashed or an update raised.
RecordSettles ==
  \A r \in Expiring : record[r] \in Open /\ apc[r] # "none" ~> record[r] \notin Open
=============================================================================
