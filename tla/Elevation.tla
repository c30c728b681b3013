------------------------------ MODULE Elevation ------------------------------
(***************************************************************************)
(* Guided elevation: ElevationService of the worker against sudo on the    *)
(* remote host.  The service runs sudo commands through the held session,  *)
(* one at a time; a command completes with an exit status, times out after *)
(* which the shell is back, or ends with the connection.  sudo keeps a     *)
(* ticket per terminal that expires by itself.                             *)
(***************************************************************************)
EXTENDS Naturals

CONSTANTS
  MaxElevations,  \* bound: elevation requests in one session
  Absent          \* no request, no reply

ASSUME ElevationBounds == MaxElevations \in Nat
ASSUME AbsentIsNoReply == Absent \notin {"acquired", "completed"}

VARIABLES
  mode,      \* the profile's elevation_mode
  usable,    \* the session is READY between two requests
  ticket,    \* sudo's timestamp for this terminal is valid
  nopasswd,  \* the sudoers policy asks this user for no password
  epc,       \* what the request waits for
  action,    \* the request's action
  reply,     \* the last reply
  ran,       \* ghost: how often the request's command began as root
  typed,     \* ghost: passwords typed for the request
  granted,   \* ghost: sudo validated the user for this request
  count      \* requests so far

elevationVars == <<mode, usable, ticket, nopasswd, epc, action, reply, ran, typed, granted, count>>
requestVars == <<ran, typed, granted>>

-----------------------------------------------------------------------------
Actions == {"status", "acquire", "release", "exec"}
Modes == {"disabled", "non_interactive", "interactive"}
EPc == {"idle", "sudo", "asking", "checking", "validated", "root", "ending", "probe"}

Reply(r) == reply' = r /\ epc' = "idle"
Continue(where) == epc' = where /\ UNCHANGED reply

\* sudo needs no password now.
Validated == ticket \/ nopasswd

\* What a failed sudo is reported as.
NotElevated == IF mode = "non_interactive" THEN "elevation_authentication_required"
               ELSE "elevation_failed"

\* WorkerSessionService.elevation and handle: a request in a root session, one with wrong
\* fields and one for a profile without elevation run nothing.
HandleElevation(a) ==
  /\ epc = "idle" /\ usable /\ count < MaxElevations
  /\ count' = count + 1 /\ action' = a
  /\ ran' = 0 /\ typed' = 0 /\ granted' = FALSE
  /\ \/ Reply("refused")
     \/ mode = "disabled" /\ Reply(IF a = "status" THEN "disabled" ELSE "elevation_disabled")
     \/ mode # "disabled" /\ Continue("sudo")
  /\ UNCHANGED <<mode, nopasswd, usable, ticket>>

\* sudo is admitted: -v is done, the root wrapper of exec starts.
Admitted ==
  /\ granted' = TRUE /\ ticket' = TRUE
  /\ Continue(IF action = "exec" THEN "root" ELSE "validated")

\* sudo -n -v, sudo -v, sudo -k, or sudo of the wrapper.  Where a password is needed -n
\* fails and an interactive sudo asks; the sudoers policy may refuse in any case.
Sudo ==
  /\ epc = "sudo"
  /\ CASE action = "status" ->
            /\ (Validated /\ Reply("active")) \/ Reply("inactive")
            /\ UNCHANGED <<ticket, granted>>
       [] action = "release" ->
            /\ UNCHANGED granted
            /\ \/ ticket' = FALSE /\ Reply("released")
               \/ UNCHANGED ticket /\ Reply("elevation_release_failed")
       [] OTHER ->
            \/ Validated /\ Admitted
            \/ ~Validated /\ mode = "interactive" /\ Continue("asking") /\ UNCHANGED <<ticket, granted>>
            \/ Reply(NotElevated) /\ UNCHANGED <<ticket, granted>>
  /\ UNCHANGED <<mode, nopasswd, usable, action, ran, typed, count>>

\* The visible window submits a password: the session types it.
Submit ==
  /\ epc = "asking"
  /\ typed' = typed + 1
  /\ Continue("checking")
  /\ UNCHANGED <<mode, nopasswd, usable, ticket, action, ran, granted, count>>

\* The window is cancelled or times out: the session terminates its terminal.
WindowFails ==
  /\ epc = "asking"
  /\ Reply("authentication_failed") /\ usable' = FALSE
  /\ UNCHANGED <<mode, nopasswd, ticket, action, requestVars, count>>

\* A mutant: the second prompt opens another window.
CheckPassword_asks_again ==
  /\ epc = "checking"
  /\ \/ Admitted
     \/ Continue("asking") /\ UNCHANGED <<ticket, granted>>
  /\ UNCHANGED <<mode, nopasswd, usable, action, ran, typed, count>>

\* The right password admits; after a wrong one sudo asks again, which the session's gate
\* answers with an interrupt.
CheckPassword ==
  /\ epc = "checking"
  /\ \/ Admitted
     \/ Reply(NotElevated) /\ UNCHANGED <<ticket, granted>>
  /\ UNCHANGED <<mode, nopasswd, usable, action, ran, typed, count>>

\* The completion frame of acquire's sudo -v arrives.
AcquireCompletes ==
  /\ epc = "validated"
  /\ Reply("acquired")
  /\ UNCHANGED <<mode, nopasswd, usable, ticket, action, requestVars, count>>

\* The wrapper prints its begin marker and runs the command.
RootRuns ==
  /\ epc = "root"
  /\ ran' = ran + 1
  /\ Continue("ending")
  /\ UNCHANGED <<mode, nopasswd, usable, ticket, action, typed, granted, count>>

\* _parse_elevated_output: the end marker with the exit status is the last line, or it is
\* missing: the wrapper was killed, or another program of the terminal wrote after it.  The
\* exit status of sudo itself may differ when a signal ended it.
ParseElevatedOutput ==
  /\ epc = "ending"
  /\ \E r \in {"completed", NotElevated, "elevation_protocol_error"} : Reply(r)
  /\ UNCHANGED <<mode, nopasswd, usable, ticket, action, requestVars, count>>

\* The command times out and the shell is back: sudo is gone.  acquire asks sudo once more
\* whether the ticket is there.
SudoTimesOut ==
  /\ epc \in {"sudo", "checking", "validated", "root", "ending"}
  /\ IF action = "acquire" THEN Continue("probe") ELSE Reply("command_timed_out")
  /\ UNCHANGED <<mode, nopasswd, usable, ticket, action, requestVars, count>>

\* _cache_is_active: any error of the probe leaves the timeout as the answer.
Probe ==
  /\ epc = "probe"
  /\ \/ Validated /\ Reply("acquired") /\ granted' = TRUE
     \/ Reply("command_timed_out") /\ UNCHANGED granted
  /\ UNCHANGED <<mode, nopasswd, usable, ticket, action, ran, typed, count>>

\* The connection ends; during the probe the timeout is still what is answered.
ElevationLost ==
  /\ epc # "idle"
  /\ Reply(CASE epc = "asking" -> "authentication_failed"
             [] epc = "probe" -> "command_timed_out"
             [] OTHER -> "outcome_unknown")
  /\ usable' = FALSE
  /\ UNCHANGED <<mode, nopasswd, ticket, action, requestVars, count>>

\* The ticket expires.
TicketExpires ==
  /\ ticket
  /\ ticket' = FALSE
  /\ UNCHANGED <<mode, nopasswd, usable, epc, action, reply, requestVars, count>>

InitElevation ==
  /\ mode \in Modes /\ usable = TRUE /\ ticket = FALSE /\ nopasswd \in BOOLEAN
  /\ epc = "idle" /\ action = Absent /\ reply = Absent
  /\ ran = 0 /\ typed = 0 /\ granted = FALSE /\ count = 0

ElevationNext ==
  \/ \E a \in Actions : HandleElevation(a)
  \/ Sudo \/ Submit \/ WindowFails \/ CheckPassword \/ AcquireCompletes \/ RootRuns
  \/ ParseElevatedOutput \/ SudoTimesOut \/ Probe \/ ElevationLost \/ TicketExpires

ElevationSpec == InitElevation /\ [][ElevationNext]_elevationVars

-----------------------------------------------------------------------------
Failures == {"refused", "elevation_disabled", "elevation_release_failed",
             "elevation_authentication_required", "elevation_failed", "elevation_protocol_error",
             "authentication_failed", "command_timed_out", "outcome_unknown"}
Successes == [status |-> {"disabled", "active", "inactive"}, acquire |-> {"acquired"},
              release |-> {"released"}, exec |-> {"completed"}]

ElevationTypeOK ==
  /\ mode \in Modes /\ usable \in BOOLEAN /\ {ticket, nopasswd} \subseteq BOOLEAN /\ epc \in EPc
  /\ action \in Actions \union {Absent}
  /\ reply \in {Absent} \union Failures \union
               IF epc = "idle" /\ action # Absent THEN Successes[action] ELSE UNION {Successes[a] : a \in Actions}
  /\ ran \in Nat /\ typed \in Nat /\ granted \in BOOLEAN /\ count \in 0..MaxElevations

\* What acquire and exec report is true and done once: "acquired" means that sudo validated
\* the user during this very request, also when its completion frame was lost and the
\* command timed out; "completed" means that the command ran as root, once; and no request
\* runs its command twice or has two passwords typed.
ElevationIsHonest ==
  /\ epc = "idle" /\ reply = "acquired" => granted
  /\ epc = "idle" /\ reply = "completed" => ran = 1 /\ granted
  /\ ran <= 1 /\ typed <= 1
  /\ ran = 1 => granted
=============================================================================
