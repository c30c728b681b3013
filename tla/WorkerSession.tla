---------------------------- MODULE WorkerSession ----------------------------
(***************************************************************************)
(* One worker's session: StatefulSshSession, InteractiveTerminalController *)
(* and the parts of WorkerSessionService and run_worker that change its    *)
(* state, against the OpenSSH terminal and the remote Bash.                *)
(*                                                                         *)
(* The worker handles one request at a time.  wpc says where that request  *)
(* waits; each of its steps is the code between two reads of the terminal. *)
(* The remote shell reads its terminal input in order and answers with     *)
(* frames that carry the token of the command they belong to.  Deadlines   *)
(* strike at any moment; the terminal may die at any moment.               *)
(***************************************************************************)
EXTENDS Naturals, Sequences, SequencesExt, SessionStates

CONSTANTS
  MaxTokens,    \* bound: the tokens new_token hands out in one session
  MaxPrompts,   \* bound: the sudo prompts the remote side shows
  MaxRaw        \* bound: the raw texts written in interactive mode

ASSUME BoundsAssumption ==
  MaxTokens \in Nat /\ MaxPrompts \in Nat /\ MaxRaw \in Nat

VARIABLES
  state,        \* SessionStateMachine._state
  authReturn,   \* SessionStateMachine._auth_return_state ("none" is None)
  root,         \* WorkerSessionService.root_session
  wpc,          \* where the worker's request waits
  job,          \* which request it handles
  tok,          \* tokens handed out; the active command's token is the last one
  sudo,         \* allow_sudo_prompt of the running operation
  gate,         \* the closure state of _single_authentication_gate
  parsing,      \* CommandFrameParser._started of the active parser
  answer,       \* what the request with a given token was answered
  typed,        \* secrets typed while a given token was the last one
  term,         \* the ConPTY child: OpenSSH
  tty,          \* terminal input the remote side has not read
  out,          \* terminal output the worker has not read
  rtok,         \* the token of the command Bash runs, 0 at its prompt
  asking,       \* whose prompt is shown: this operation's, another one or none
  shell,        \* the original Bash: not reached yet, healthy, or broken
  verified,     \* the tokens whose command Bash ran to its completion frame
  prompts,      \* sudo prompts shown so far
  raws          \* raw texts written so far

opVars     == <<wpc, job, tok, sudo, gate, parsing, answer, typed>>
remoteVars == <<rtok, asking, shell, verified, prompts>>
vars == <<state, authReturn, root, opVars, term, tty, out, remoteVars, raws>>

-----------------------------------------------------------------------------
Tokens == 1..MaxTokens
RAW    == MaxTokens + 1            \* stands for anything typed in raw mode

Input == [kind: {"command", "recovery", "raw", "vintr", "secret"}, t: 0..RAW]
Frame == [kind: {"prompt", "sudo", "begin", "end", "bad"}, t: 0..RAW]

WorkerPc == {"idle", "login", "bootstrap", "verify", "write", "command", "auth",
             "recovery", "raw_write", "raw_close", "failing", "closing"}
Job == {"none", "open", "verify", "exec", "raw"}
Answer == {"none", "completed", "command_timed_out", "outcome_unknown",
           "authentication_failed", "worker_internal_error"}

\* The states a session may be in between two requests.
RestingStates == {"created", "ready", "interactive", "lost", "failed", "closed"}

Running == term = "running"
Type(kind, t) == [kind |-> kind, t |-> t]

\* SessionStateMachine.transition.  The table is not a guard here: that no step
\* leaves it, so that transition never raises, is the property TransitionsAllowed.
transition(target) == state' = target

\* terminal.terminate().
terminate == term' = IF Running THEN "terminated" ELSE term

Answered(code) == answer' = [answer EXCEPT ![tok] = code]

\* The request ends in a ServerOpsError: the session stays as it is, except that
\* a failed open or root verification closes it.
Raise == wpc' = IF job \in {"open", "verify"} THEN "failing" ELSE "idle"

\* The next unread frame is of this kind and carries the active token.
NextFrame(kind) == out # <<>> /\ Head(out) = Type(kind, tok)

\* MUTANT: the prompt token is not compared.
NextSudoPrompt_any_token ==
  wpc \in {"login", "command"} /\ sudo /\ out # <<>> /\ Head(out).kind = "sudo"

\* A prompt that this operation allows and that carries its own prompt token.
NextSudoPrompt == wpc \in {"login", "command"} /\ sudo /\ NextFrame("sudo")

-----------------------------------------------------------------------------
(* WorkerSessionService.open and StatefulSshSession.open *)

\* The terminal starts; its child may be gone at once.  A root session lets sudo
\* ask when the profile's elevation mode is interactive.
Open ==
  /\ wpc = "idle" /\ state = "created"
  /\ transition("starting")
  /\ term' = "running"
  /\ wpc' = "login"
  /\ job' = "open"
  /\ sudo' \in {FALSE, root}
  /\ gate' = "unused"
  /\ UNCHANGED <<typed, authReturn, root, tok, parsing, answer, tty, out, remoteVars, raws>>

\* relay.start raises: the session object exists and is closed unopened.
RelayStartFails ==
  /\ wpc = "idle" /\ state = "created"
  /\ wpc' = "failing"
  /\ UNCHANGED <<state, authReturn, root, job, tok, sudo, gate, parsing, answer, typed, term,
                 tty, out, remoteVars, raws>>

\* The deadline, a failed askpass relay, a bad bootstrap frame, or OpenSSH gone.
OpenFails ==
  /\ wpc \in {"login", "bootstrap"}
  /\ transition("failed")
  /\ terminate
  /\ wpc' = "failing"
  /\ UNCHANGED <<typed, authReturn, root, job, tok, sudo, gate, parsing, answer, tty, out,
                 remoteVars, raws>>

\* The detector saw the Bash prompt: _initialize_shell writes the bootstrap command.
SeePrompt ==
  /\ wpc = "login"
  /\ out # <<>> /\ Head(out).kind = "prompt"
  /\ Running /\ tok < MaxTokens
  /\ out' = Tail(out)
  /\ tok' = tok + 1
  /\ tty' = Append(tty, Type("command", tok + 1))
  /\ parsing' = FALSE
  /\ wpc' = "bootstrap"
  /\ UNCHANGED <<typed, state, authReturn, root, job, sudo, gate, answer, term, remoteVars, raws>>

\* The bootstrap frame is complete and OpenSSH alive: READY.  The last check of
\* the askpass relay may still fail; a root session goes on to verify its user.
BootstrapCompletes ==
  /\ wpc = "bootstrap"
  /\ NextFrame("end") /\ parsing /\ Running
  /\ out' = Tail(out)
  /\ transition("ready")
  /\ \/ wpc' = (IF root THEN "verify" ELSE "idle") /\ job' = "none"
     \/ wpc' = "failing" /\ UNCHANGED job
  /\ UNCHANGED <<typed, authReturn, root, tok, sudo, gate, parsing, answer, term, tty,
                 remoteVars, raws>>

-----------------------------------------------------------------------------
(* StatefulSshSession.execute *)

\* From READY only, under a fresh token.
StartCommand(which, allow_sudo_prompt) ==
  /\ state = "ready" /\ tok < MaxTokens
  /\ transition("executing")
  /\ job' = which
  /\ sudo' = allow_sudo_prompt
  /\ tok' = tok + 1
  /\ gate' = "unused"
  /\ parsing' = FALSE
  /\ wpc' = "write"
  /\ UNCHANGED <<authReturn, root, answer, typed, term, tty, out, remoteVars, raws>>

\* exec and the file operations allow no prompt; an elevated request, which a
\* root session refuses, may allow one.
Execute == wpc = "idle" /\ \E allow \in {FALSE, ~root} : StartCommand("exec", allow)

\* The root session's `id -u`, part of the open request.
Verify == wpc = "verify" /\ StartCommand("verify", FALSE)

\* A write to the terminal raised: its handler marks the session.
MarkBroken == transition(IF Running THEN "failed" ELSE "lost")

\* An exception that is no ServerOpsError leaves execute: its handler marks the
\* session, run_worker answers worker_internal_error and closes the session.
InternalError ==
  /\ MarkBroken
  /\ Answered("worker_internal_error")
  /\ wpc' = "failing"

\* _write_command.  ConPtyProcess.write raises once the child is gone, and may
\* raise while it lives; no whole line is delivered then.
WriteCommand ==
  /\ wpc = "write"
  /\ \/ /\ Running
        /\ tty' = Append(tty, Type("command", tok))
        /\ wpc' = "command"
        /\ UNCHANGED <<state, answer>>
     \/ InternalError /\ UNCHANGED tty
  /\ UNCHANGED <<typed, authReturn, root, job, tok, sudo, gate, parsing, term, out, remoteVars,
                 raws>>

\* The begin line of the active token starts the parser.
SeeBegin ==
  /\ wpc \in {"bootstrap", "command", "recovery", "raw_close"}
  /\ NextFrame("begin")
  /\ out' = Tail(out)
  /\ parsing' = TRUE
  /\ UNCHANGED <<typed, state, authReturn, root, wpc, job, tok, sudo, gate, answer, term, tty,
                 remoteVars, raws>>

\* A chunk that changes nothing: another token's frame, an end line before the
\* begin line, a prompt nobody waits for.
SeeOther ==
  /\ wpc \in {"login", "bootstrap", "command", "recovery", "raw_close"}
  /\ out # <<>>
  /\ LET f == Head(out) IN
       \/ f.kind \in {"begin", "end", "bad"} /\ f.t # tok
       \/ f.kind \in {"end", "bad"} /\ ~parsing
       \/ f.kind = "prompt" /\ wpc # "login"
       \/ f.kind = "sudo" /\ ~(NextSudoPrompt /\ gate # "interrupted")
  /\ out' = Tail(out)
  /\ UNCHANGED <<state, authReturn, root, opVars, term, tty, remoteVars, raws>>

\* The whole frame is there and the shell alive: the result is accepted.  The
\* root verification may find another user and close the session.
CommandCompletes ==
  /\ wpc = "command"
  /\ NextFrame("end") /\ parsing /\ Running
  /\ out' = Tail(out)
  /\ transition("ready")
  /\ Answered("completed")
  /\ \/ wpc' = "idle"
     \/ job = "verify" /\ wpc' = "failing"
  /\ UNCHANGED <<typed, authReturn, root, job, tok, sudo, gate, parsing, term, tty, remoteVars,
                 raws>>

\* _send_interrupt after the deadline: VINTR, then the recovery frame.  A write
\* that raises here ends as LoseExecuting does.
CommandTimesOut ==
  /\ wpc = "command" /\ Running
  /\ tty' = tty \o <<Type("vintr", tok), Type("recovery", tok)>>
  /\ wpc' = "recovery"
  /\ UNCHANGED <<typed, state, authReturn, root, job, tok, sudo, gate, parsing, answer, term,
                 out, remoteVars, raws>>

\* MUTANT: a live terminal is taken for a recovered shell.
Recovers_without_frame ==
  /\ wpc = "recovery" /\ Running
  /\ transition("ready")
  /\ Answered("command_timed_out")
  /\ Raise
  /\ UNCHANGED <<typed, authReturn, root, job, tok, sudo, gate, parsing, term, tty, out,
                 remoteVars, raws>>

\* _wait_for_recovery saw the rest of the frame and the shell is alive.
Recovers ==
  /\ wpc = "recovery"
  /\ NextFrame("end") /\ parsing /\ Running
  /\ out' = Tail(out)
  /\ transition("ready")
  /\ Answered("command_timed_out")
  /\ Raise
  /\ UNCHANGED <<typed, authReturn, root, job, tok, sudo, gate, parsing, term, tty, remoteVars,
                 raws>>

\* MUTANT: the wait for recovery has no deadline.
LoseExecuting_no_deadline ==
  /\ wpc \in {"command", "recovery"}
  /\ ~Running \/ (NextFrame("bad") /\ parsing)
  /\ transition("lost")
  /\ terminate
  /\ Answered("outcome_unknown")
  /\ Raise
  /\ UNCHANGED <<typed, authReturn, root, job, tok, sudo, gate, parsing, tty, out, remoteVars,
                 raws>>

\* MUTANT: a failed recovery is reported as a plain timeout.
LoseExecuting_as_timeout ==
  /\ wpc \in {"command", "recovery"}
  /\ \/ ~Running
     \/ NextFrame("bad") /\ parsing
     \/ wpc = "recovery"
  /\ transition("lost")
  /\ terminate
  /\ Answered(IF wpc = "recovery" THEN "command_timed_out" ELSE "outcome_unknown")
  /\ Raise
  /\ UNCHANGED <<typed, authReturn, root, job, tok, sudo, gate, parsing, tty, out, remoteVars,
                 raws>>

\* _lose_executing_session and OutcomeUnknown: an invalid frame, the terminal
\* gone, or no recovery in time.
LoseExecuting ==
  /\ wpc \in {"command", "recovery"}
  /\ \/ ~Running
     \/ NextFrame("bad") /\ parsing
     \/ wpc = "recovery"
  /\ transition("lost")
  /\ terminate
  /\ Answered("outcome_unknown")
  /\ Raise
  /\ UNCHANGED <<typed, authReturn, root, job, tok, sudo, gate, parsing, tty, out, remoteVars,
                 raws>>

-----------------------------------------------------------------------------
(* Prompts: _read_and_handle_prompts and _single_authentication_gate *)

\* The first prompt of an operation that allows one opens the visible window.
BeginAuthentication ==
  /\ NextSudoPrompt /\ gate = "unused"
  /\ out' = Tail(out)
  /\ gate' = "used"
  /\ authReturn' = state
  /\ transition("authentication_required")
  /\ wpc' = "auth"
  /\ UNCHANGED <<typed, root, job, tok, sudo, parsing, answer, term, tty, remoteVars, raws>>

\* A repeated prompt is interrupted once, not answered.
InterruptRepeatedPrompt ==
  /\ NextSudoPrompt /\ gate = "used"
  /\ out' = Tail(out)
  /\ \/ /\ Running
        /\ tty' = Append(tty, Type("vintr", tok))
        /\ gate' = "interrupted"
        /\ UNCHANGED <<state, wpc, answer>>
        /\ UNCHANGED term
     \/ /\ IF wpc = "login"
           THEN transition("failed") /\ terminate /\ wpc' = "failing" /\ UNCHANGED answer
           ELSE InternalError /\ UNCHANGED term
        /\ UNCHANGED <<tty, gate>>
  /\ UNCHANGED <<typed, authReturn, root, job, tok, sudo, parsing, remoteVars, raws>>

\* The window's answer goes into the terminal; finish_authentication.
FinishAuthentication ==
  /\ wpc = "auth" /\ Running
  /\ tty' = Append(tty, Type("secret", tok))
  /\ typed' = [typed EXCEPT ![tok] = @ + 1]
  /\ transition(authReturn)
  /\ authReturn' = "none"
  /\ wpc' = IF authReturn = "starting" THEN "login" ELSE "command"
  /\ UNCHANGED <<root, job, tok, sudo, gate, parsing, answer, term, out, remoteVars, raws>>

\* Cancelled, timed out or rejected in the window: the terminal is terminated.
AuthenticationFails ==
  /\ wpc = "auth"
  /\ transition("failed")
  /\ terminate
  /\ answer' = IF authReturn = "starting" THEN answer
               ELSE [answer EXCEPT ![tok] = "authentication_failed"]
  /\ Raise
  /\ UNCHANGED <<typed, authReturn, root, job, tok, sudo, gate, parsing, tty, out, remoteVars,
                 raws>>

\* SecretInputSink.submit raises ConPtyError: the terminal is gone or refuses the input.
SubmitFails ==
  /\ wpc = "auth"
  /\ transition("failed")
  /\ terminate
  /\ answer' = IF authReturn = "starting" THEN answer
               ELSE [answer EXCEPT ![tok] = "worker_internal_error"]
  /\ wpc' = "failing"
  /\ UNCHANGED <<typed, authReturn, root, job, tok, sudo, gate, parsing, tty, out, remoteVars,
                 raws>>

-----------------------------------------------------------------------------
(* InteractiveTerminalController *)

\* start: INTERACTIVE before the text is written.
RawStart ==
  /\ wpc = "idle" /\ state = "ready" /\ raws < MaxRaw
  /\ transition("interactive")
  /\ job' = "raw"
  /\ wpc' = "raw_write"
  /\ UNCHANGED <<typed, authReturn, root, tok, sudo, gate, parsing, answer, term, tty, out,
                 remoteVars, raws>>

\* The text of start; a write that raises loses or fails the session and fails
\* the worker.
RawStartWrite ==
  /\ wpc = "raw_write"
  /\ \/ /\ Running
        /\ tty' = Append(tty, Type("raw", RAW))
        /\ raws' = raws + 1
        /\ wpc' = "idle"
        /\ UNCHANGED state
     \/ /\ MarkBroken
        /\ wpc' = "failing"
        /\ UNCHANGED <<tty, raws>>
  /\ UNCHANGED <<typed, authReturn, root, job, tok, sudo, gate, parsing, answer, term, out,
                 remoteVars>>

\* write and interrupt; a write that raises fails the worker.
RawWrite ==
  /\ wpc = "idle" /\ state = "interactive"
  /\ \/ /\ Running /\ raws < MaxRaw
        /\ raws' = raws + 1
        /\ \E k \in {"raw", "vintr"} : tty' = Append(tty, Type(k, RAW))
        /\ UNCHANGED wpc
     \/ wpc' = "failing" /\ UNCHANGED <<tty, raws>>
  /\ UNCHANGED <<typed, state, authReturn, root, job, tok, sudo, gate, parsing, answer, term, out,
                 remoteVars>>

\* read consumes output and notices a dead terminal.
RawRead ==
  /\ wpc = "idle" /\ state = "interactive"
  /\ \/ Running /\ out # <<>> /\ UNCHANGED state
     \/ ~Running /\ transition("lost")
  /\ out' = IF out = <<>> THEN out ELSE Tail(out)
  /\ UNCHANGED <<authReturn, root, opVars, term, tty, remoteVars, raws>>

\* close: VINTR and a framed no-op under a fresh token.  A write of it that raises
\* fails the worker as in RawWrite.
RawClose ==
  /\ wpc = "idle" /\ state = "interactive" /\ tok < MaxTokens /\ Running
  /\ tok' = tok + 1
  /\ tty' = tty \o <<Type("vintr", RAW), Type("command", tok + 1)>>
  /\ parsing' = FALSE
  /\ wpc' = "raw_close"
  /\ UNCHANGED <<typed, state, authReturn, root, job, sudo, gate, answer, term, out, remoteVars,
                 raws>>

RawCloseCompletes ==
  /\ wpc = "raw_close"
  /\ NextFrame("end") /\ parsing /\ Running
  /\ out' = Tail(out)
  /\ transition("ready")
  /\ wpc' = "idle"
  /\ UNCHANGED <<typed, authReturn, root, job, tok, sudo, gate, parsing, answer, term, tty,
                 remoteVars, raws>>

\* MUTANT: the session state is answered where the outcome code belongs.
RawCloseFails_state_as_code ==
  /\ wpc = "raw_close"
  /\ transition("lost")
  /\ terminate
  /\ Answered("lost")
  /\ wpc' = "idle"
  /\ UNCHANGED <<typed, authReturn, root, job, tok, sudo, gate, parsing, tty, out, remoteVars,
                 raws>>

\* An invalid frame, the terminal gone or the deadline: the session is lost.
RawCloseFails ==
  /\ wpc = "raw_close"
  /\ transition("lost")
  /\ terminate
  /\ Answered("outcome_unknown")
  /\ wpc' = "idle"
  /\ UNCHANGED <<typed, authReturn, root, job, tok, sudo, gate, parsing, tty, out, remoteVars,
                 raws>>

-----------------------------------------------------------------------------
(* StatefulSshSession.close, by request or after a failure *)

BeginClose ==
  /\ transition("closing")
  /\ authReturn' = "none"
  /\ wpc' = "closing"
  /\ UNCHANGED <<root, job, tok, sudo, gate, parsing, answer, typed, term, tty, out,
                 remoteVars, raws>>

Close == wpc = "idle" /\ state \notin {"created", "closed"} /\ BeginClose
CloseAfterFailure == wpc = "failing" /\ BeginClose

\* MUTANT: a close that had to terminate OpenSSH is recorded as a failure.
EndClose_failed ==
  /\ wpc = "closing"
  /\ transition(IF Running THEN "failed" ELSE "closed")
  /\ term' = "closed"
  /\ wpc' = "idle"
  /\ job' = "none"
  /\ UNCHANGED <<typed, authReturn, root, tok, sudo, gate, parsing, answer, tty, out, remoteVars,
                 raws>>

\* `exit`, a short wait, terminate; the terminal is closed whatever happens.
EndClose ==
  /\ wpc = "closing"
  /\ transition("closed")
  /\ term' = "closed"
  /\ wpc' = "idle"
  /\ job' = "none"
  /\ UNCHANGED <<typed, authReturn, root, tok, sudo, gate, parsing, answer, tty, out, remoteVars,
                 raws>>

-----------------------------------------------------------------------------
(* The remote side (external): OpenSSH, the terminal line and Bash *)

\* Output arrives while the terminal lives.
Emit(frames) == out' = IF Running THEN out \o frames ELSE out

\* Bash shows its first prompt; before it, `sudo` of a root session may ask.
RemoteLogin ==
  /\ Running /\ shell = "absent" /\ asking = "none"
  /\ \/ /\ shell' = "ok"
        /\ Emit(<<Type("prompt", 0)>>)
        /\ UNCHANGED <<asking, prompts>>
     \/ /\ root /\ prompts < MaxPrompts
        /\ asking' = "bound"
        /\ prompts' = prompts + 1
        /\ Emit(<<Type("sudo", 0)>>)
        /\ UNCHANGED shell
  /\ UNCHANGED <<state, authReturn, root, opVars, term, tty, rtok, verified, raws>>

\* The shell at its prompt takes the next line.  A recovery frame is printed only
\* by a healthy shell; a secret typed at the prompt is not a frame.
RemoteReads ==
  /\ shell # "absent" /\ rtok = 0 /\ tty # <<>> /\ Head(tty).kind # "vintr"
  /\ tty' = Tail(tty)
  /\ LET i == Head(tty) IN
       /\ rtok' = CASE i.kind \in {"command", "raw"} -> i.t [] OTHER -> 0
       /\ Emit(CASE i.kind = "command" -> <<Type("begin", i.t)>>
                 [] i.kind = "recovery" /\ shell = "ok" -> <<Type("end", i.t)>>
                 [] OTHER -> <<>>)
  /\ UNCHANGED <<state, authReturn, root, opVars, term, asking, shell, verified, prompts,
                 raws>>

\* A running program reads the line itself; sudo takes it as its answer.  A nested
\* shell runs a command up to its completion, which its missing nonce suppresses.
RemoteConsumes ==
  /\ rtok # 0 \/ asking # "none"
  /\ tty # <<>> /\ Head(tty).kind # "vintr"
  /\ tty' = Tail(tty)
  /\ asking' = "none"
  /\ \/ UNCHANGED out
     \/ /\ rtok = RAW /\ Head(tty).kind = "command"
        /\ Emit(<<Type("begin", Head(tty).t)>>)
  /\ UNCHANGED <<state, authReturn, root, opVars, term, rtok, shell, verified,
                 prompts, raws>>

\* VINTR acts when it reaches the terminal line: unread input before it is
\* flushed, and the running program dies of it or does not.  A program that took
\* the line out of signal mode reads it as an ordinary byte.
RemoteInterrupt ==
  \E i \in 1..Len(tty) :
    /\ tty[i].kind = "vintr" /\ \A j \in 1..(i - 1) : tty[j].kind # "vintr"
    /\ \/ /\ tty' = SubSeq(tty, i + 1, Len(tty))
          /\ \/ rtok' = 0 /\ asking' = "none"
             \/ rtok # 0 /\ UNCHANGED <<rtok, asking>>
       \/ /\ rtok # 0 \/ asking # "none"
          /\ tty' = RemoveAt(tty, i)
          /\ UNCHANGED <<rtok, asking>>
    /\ UNCHANGED <<state, authReturn, root, opVars, term, out, shell, verified,
                   prompts, raws>>

\* A running command shows a sudo prompt: the one its operation bound to it, or
\* one of its own.  sudo waits for its answer longer than the window stays open.
RemoteAsks ==
  /\ rtok \in Tokens /\ asking = "none" /\ prompts < MaxPrompts
  /\ prompts' = prompts + 1
  /\ \/ asking' = "bound" /\ Emit(<<Type("sudo", rtok)>>)
     \/ asking' = "foreign" /\ Emit(<<Type("sudo", RAW)>>)
  /\ UNCHANGED <<state, authReturn, root, opVars, term, tty, rtok, shell, verified,
                 raws>>

\* The running program ends.  Its completion frame is printed if the shell is
\* still healthy; the command may have broken the shell, with or without an
\* invalid frame to show for it.
RemoteCompletes ==
  /\ rtok # 0 /\ asking = "none"
  /\ rtok' = 0
  /\ \/ /\ shell = "ok"
        /\ verified' = verified \union {rtok}
        /\ Emit(IF rtok = RAW THEN <<>> ELSE <<Type("end", rtok)>>)
        /\ UNCHANGED shell
     \/ /\ shell' = "broken"
        /\ \/ Emit(<<>>)
           \/ rtok # RAW /\ Emit(<<Type("bad", rtok)>>)
        /\ UNCHANGED verified
  /\ UNCHANGED <<state, authReturn, root, opVars, term, tty, asking, prompts, raws>>

\* The connection drops or OpenSSH exits.
TerminalDies ==
  /\ Running
  /\ term' = "dead"
  /\ UNCHANGED <<state, authReturn, root, opVars, tty, out, remoteVars, raws>>

-----------------------------------------------------------------------------
Init ==
  /\ state = "created" /\ authReturn = "none" /\ root \in BOOLEAN
  /\ wpc = "idle" /\ job = "none" /\ tok = 0 /\ sudo = FALSE
  /\ gate = "unused" /\ parsing = FALSE
  /\ answer = [t \in Tokens |-> "none"]
  /\ typed = [t \in 0..MaxTokens |-> 0]
  /\ term = "none" /\ tty = <<>> /\ out = <<>>
  /\ rtok = 0 /\ asking = "none" /\ shell = "absent"
  /\ verified = {} /\ prompts = 0 /\ raws = 0

\* Steps that begin a request: clients may or may not take them.
Request == Open \/ RelayStartFails \/ Execute \/ RawStart \/ RawWrite \/ RawRead \/ RawClose \/ Close

OpenStep == OpenFails \/ SeePrompt \/ BootstrapCompletes
ExecuteStep ==
  \/ Verify \/ WriteCommand \/ SeeBegin \/ SeeOther \/ CommandCompletes
  \/ CommandTimesOut \/ Recovers \/ LoseExecuting
AuthStep ==
  \/ BeginAuthentication \/ InterruptRepeatedPrompt \/ FinishAuthentication
  \/ AuthenticationFails \/ SubmitFails
RawStep == RawStartWrite \/ RawCloseCompletes \/ RawCloseFails

Remote ==
  \/ RemoteLogin \/ RemoteReads \/ RemoteConsumes \/ RemoteInterrupt \/ RemoteAsks
  \/ RemoteCompletes \/ TerminalDies

WorkerStep == OpenStep \/ ExecuteStep \/ AuthStep \/ RawStep \/ CloseAfterFailure
              \/ EndClose

Next == Request \/ WorkerStep \/ Remote

Spec == Init /\ [][Next]_vars

\* The worker keeps running a request it has begun: each of its waits has a
\* deadline.  Nothing is asked of the remote side or of the clients.
FairSpec == Spec /\ WF_vars(WorkerStep)

-----------------------------------------------------------------------------
(* Properties *)

\* The variables of session.py, state.py and the terminal keep their shape.
TypeOK ==
  /\ state \in SessionState
  /\ authReturn \in {"none", "starting", "executing"}
  /\ root \in BOOLEAN
  /\ wpc \in WorkerPc
  /\ job \in Job
  /\ tok \in 0..MaxTokens
  /\ sudo \in BOOLEAN
  /\ gate \in {"unused", "used", "interrupted"}
  /\ parsing \in BOOLEAN
  /\ answer \in [Tokens -> Answer]
  /\ typed \in [0..MaxTokens -> Nat]
  /\ term \in {"none", "running", "dead", "terminated", "closed"}
  /\ tty \in Seq(Input)
  /\ out \in Seq(Frame)
  /\ rtok \in 0..RAW
  /\ asking \in {"none", "bound", "foreign"}
  /\ shell \in {"absent", "ok", "broken"}
  /\ verified \subseteq 0..RAW
  /\ prompts \in 0..MaxPrompts
  /\ raws \in 0..MaxRaw

\* Terminal input that would make Bash run something.
Runnable(i) == i.kind \in {"command", "raw"}

\* READY is a promise about the remote side: the original Bash is healthy and at
\* its prompt, and nothing of an earlier command, a timed-out one included, is
\* running or still to be run.
ReadyMeansQuiet ==
  state = "ready" =>
    /\ rtok = 0 /\ asking = "none" /\ shell = "ok"
    /\ \A i \in 1..Len(tty) : ~Runnable(tty[i])

\* A completed answer means that Bash ran that very command to its verified end;
\* a timeout answer, that the command neither runs nor will ever run again.
AnswersAreHonest ==
  \A t \in Tokens :
    /\ answer[t] = "completed" => t \in verified
    /\ answer[t] = "command_timed_out" =>
         /\ rtok # t
         /\ \A i \in 1..Len(tty) : tty[i] # Type("command", t)

\* No request leaves the session in an intermediate state, on any error path.
RequestsSettle == wpc = "idle" => state \in RestingStates

\* Between requests the session rests, and a session at rest as ready is quiet.
RestIsQuiet == ReadyMeansQuiet /\ RequestsSettle

\* SessionStateMachine.transition never raises: every change is in the table, so
\* LOST and FAILED lead nowhere but to CLOSED.
TransitionsAllowed == [][state' \in ALLOWED_TRANSITIONS[state]]_state

\* A secret in the terminal line answers the prompt its operation was bound to: no
\* other program, and not Bash itself, is there to read it.
SecretsReachTheirPrompt ==
  \A i \in 1..Len(tty) : tty[i].kind = "secret" => asking = "bound"

\* One operation types at most one secret, however often the remote side asks.
OneSecretPerOperation == \A t \in 0..MaxTokens : typed[t] <= 1

\* A secret is typed once, to the prompt that asked for it.
SecretsGoToTheirPrompt == SecretsReachTheirPrompt /\ OneSecretPerOperation

\* Every request the worker begins it ends, whatever the remote side does.
RequestsEnd == wpc # "idle" ~> wpc = "idle"
=============================================================================
