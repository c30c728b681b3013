--------------------------- MODULE ConnectionAuth ---------------------------
(***************************************************************************)
(* Authentication of a connection: OpenSSH asks through its askpass        *)
(* helper, the worker's relay thread asks the user through a visible       *)
(* window, and the worker's main thread may end the whole at any moment.   *)
(*                                                                         *)
(*   main    WorkerSessionService.open around OpenSshAskpassRelay.close    *)
(*   relay   _serve, _handle_request, respond, collect, all in one thread  *)
(*   helper  the askpass process OpenSSH runs for one prompt               *)
(*   window  the serverops-auth process of one challenge                   *)
(*                                                                         *)
(* Prompts and challenges are numbered; both ends of a pipe know when the  *)
(* other end is gone.  Deadlines may pass at any moment they are waited    *)
(* for.                                                                    *)
(***************************************************************************)
EXTENDS Naturals, Sequences

CONSTANTS MaxPrompts   \* bound: askpass invocations of one OpenSSH process

ASSUME PromptBound == MaxPrompts \in Nat

VARIABLES
  allowed,    \* the prompt kinds of the profile
  ssh,        \* OpenSSH: asking, through (a shell is there), gone
  asked,      \* prompts so far, the number of the current helper
  helper,     \* the current helper: where it stands, the kind of its prompt
  main,       \* where the main thread stands
  caught,     \* cancel_active saw the window process
  stop,       \* the relay's _stop
  failure,    \* the relay's _failure is set
  policy,     \* the kinds the policy has recorded as answered
  rpc,        \* where the relay thread stands
  peer,       \* the prompt whose connection the relay serves, 0 for the wake-up
  event,      \* the kind of the prompt it authorized last
  outcome,    \* how respond ends
  active, process, requested,   \* the coordinator's fields
  cancelled,  \* the challenge's _cancelled
  conn,       \* the challenge's connection: none, open, closed
  window,     \* where the window process stands
  frame,      \* the window's response on its way
  typed,      \* ghost: what the user did in the window of each prompt
  given       \* ghost: the answers handed to a helper, which prints them or dies first

relayVars == <<rpc, peer, event, outcome, stop, failure, policy>>
coordVars == <<active, process, requested>>
challengeVars == <<cancelled, conn, window, frame>>
mainVars == <<main, caught>>
sshVars == <<allowed, ssh, asked, helper>>
authVars == <<relayVars, coordVars, challengeVars, mainVars, sshVars, typed, given>>

-----------------------------------------------------------------------------
Credentials == {"password", "key_passphrase"}
Kinds == Credentials \union {"host_key"}
Unknown == "unrecognized"            \* sudo's prompt, an oversized or incomplete one

\* connection_prompt_kinds: a direct password or key profile, or an SSH alias.
connection_prompt_kinds == {{"host_key", "password"}, {"host_key", "key_passphrase"}, Kinds}

\* What the window can send for a prompt of a kind, its own timer included.
Responses(kind) ==
  {"cancel", "timeout"} \union IF kind = "host_key" THEN {"confirm", "reject"} ELSE {"secret"}

HelperWaits == helper.pc \in {"greeting", "asking"} /\ peer = asked

-----------------------------------------------------------------------------
(* OpenSSH and its askpass helper.                                         *)

\* OpenSSH runs the helper for its next prompt; a refused credential makes it ask again.
Ask(kind) ==
  /\ ssh = "asking" /\ helper.pc = "none" /\ asked < MaxPrompts
  /\ asked' = asked + 1
  /\ helper' = [pc |-> "connecting", kind |-> kind]
  /\ UNCHANGED <<allowed, ssh, relayVars, coordVars, challengeVars, mainVars, typed, given>>

\* run_askpass: an answer it was given is printed for OpenSSH, whatever became of the relay
\* meanwhile; or no pipe, a failed handshake, no answer in time, killed with OpenSSH.
HelperEnds ==
  /\ helper.pc # "none"
  /\ helper' = [helper EXCEPT !.pc = "none"]
  /\ UNCHANGED <<allowed, ssh, asked, relayVars, coordVars, challengeVars, mainVars, typed, given>>

\* The server admits the user, or OpenSSH gives up.
SshEnds ==
  /\ ssh = "asking" /\ helper.pc = "none"
  /\ ssh' \in {"through", "gone"}
  /\ UNCHANGED <<allowed, asked, helper, relayVars, coordVars, challengeVars, mainVars, typed, given>>

-----------------------------------------------------------------------------
(* The relay thread: _serve and _handle_request.                           *)

RelayGoes(from, to) == rpc = from /\ rpc' = to

\* The connection to the helper is closed: it exits without an answer.
DropHelper == helper' = IF HelperWaits THEN [helper EXCEPT !.pc = "none"] ELSE helper

\* _set_failure and the end of the thread.
Fails == failure' = TRUE /\ stop' = TRUE /\ rpc' = "ended"

\* The loop's condition: _stop, or the relay's own deadline.
Loop ==
  /\ rpc = "loop"
  /\ \/ stop /\ rpc' = "ended"
     \/ ~stop /\ rpc' \in {"accept", "ended"}
  /\ UNCHANGED <<peer, event, outcome, stop, failure, policy, coordVars, challengeVars, mainVars, sshVars,
                 typed, given>>

Accept ==
  /\ helper.pc = "connecting"
  /\ RelayGoes("accept", "accepted")
  /\ peer' = asked /\ helper' = [helper EXCEPT !.pc = "greeting"]
  /\ UNCHANGED <<event, outcome, stop, failure, policy, coordVars, challengeVars, mainVars, allowed,
                 ssh, asked, typed, given>>

AcceptFails ==
  /\ rpc = "accept"
  /\ IF stop THEN rpc' = "ended" /\ UNCHANGED <<stop, failure>> ELSE Fails
  /\ UNCHANGED <<peer, event, outcome, policy, coordVars, challengeVars, mainVars, sshVars, typed, given>>

\* _stop is looked at once more; then the handshake, which fails when the helper is gone.
Handshake ==
  /\ rpc = "accepted"
  /\ rpc' = IF stop THEN "ended" ELSE IF HelperWaits THEN "request" ELSE "loop"
  /\ helper' = IF ~HelperWaits THEN helper
               ELSE [helper EXCEPT !.pc = IF stop THEN "none" ELSE "asking"]
  /\ UNCHANGED <<peer, event, outcome, stop, failure, policy, coordVars, challengeVars, mainVars, allowed,
                 ssh, asked, typed, given>>

\* A mutant: the answers recorded are not looked at.
Authorize_unlimited ==
  /\ rpc = "request"
  /\ IF HelperWaits /\ helper.kind \in allowed
     THEN rpc' = "respond" /\ event' = helper.kind /\ UNCHANGED <<stop, failure, helper>>
     ELSE Fails /\ DropHelper /\ UNCHANGED event
  /\ UNCHANGED <<peer, outcome, policy, coordVars, challengeVars, mainVars, allowed, ssh, asked,
                 typed, given>>

\* classify_askpass_prompt and authorize: one host-key answer at most, and nothing once a
\* credential was given.
Authorize ==
  /\ rpc = "request"
  /\ IF /\ HelperWaits /\ helper.kind \in allowed
        /\ policy \intersect Credentials = {} /\ helper.kind \notin policy
     THEN rpc' = "respond" /\ event' = helper.kind /\ UNCHANGED <<stop, failure, helper>>
     ELSE Fails /\ DropHelper /\ UNCHANGED event
  /\ UNCHANGED <<peer, outcome, policy, coordVars, challengeVars, mainVars, allowed, ssh, asked,
                 typed, given>>

\* A mutant: an error of respond does not end the thread.
Reply_goes_on ==
  /\ rpc = "reply"
  /\ IF outcome \in {"yes", "secret"}
     THEN /\ policy' = policy \union {event}
          /\ rpc' = "send" /\ UNCHANGED <<stop, failure, helper>>
     ELSE /\ failure' = TRUE /\ rpc' = "loop" /\ DropHelper
          /\ UNCHANGED <<policy, stop>>
  /\ UNCHANGED <<peer, event, outcome, coordVars, challengeVars, mainVars, allowed, ssh, asked,
                 typed, given>>

\* respond has returned: the answer is recorded first.  Any error ends the thread; the helper
\* hears of it by a code or by the end of the pipe and exits without a secret.
Reply ==
  /\ rpc = "reply"
  /\ IF outcome \in {"yes", "secret"}
     THEN /\ policy' = policy \union {event}
          /\ rpc' = "send" /\ UNCHANGED <<stop, failure, helper>>
     ELSE Fails /\ DropHelper /\ UNCHANGED policy
  /\ UNCHANGED <<peer, event, outcome, coordVars, challengeVars, mainVars, allowed, ssh, asked,
                 typed, given>>

\* The answer is sent; a helper that is gone makes it an error.
Send ==
  /\ rpc = "send"
  /\ IF HelperWaits
     THEN /\ rpc' = "loop" /\ helper' = [helper EXCEPT !.pc = "given"]
          /\ given' = Append(given, [n |-> peer, kind |-> event, answer |-> outcome])
          /\ UNCHANGED <<stop, failure>>
     ELSE Fails /\ UNCHANGED <<helper, given>>
  /\ UNCHANGED <<peer, event, outcome, policy, coordVars, challengeVars, mainVars, allowed, ssh, asked, typed>>

-----------------------------------------------------------------------------
(* VisibleAuthenticationCoordinator.respond and AuthChallengeServer.collect. *)

Ends(how) == outcome' = how /\ rpc' = "deactivate"

\* A fresh challenge becomes the active one; the window process is started, or cannot be.
Activate ==
  /\ RelayGoes("respond", IF active THEN "reply" ELSE "launch")
  /\ IF active THEN outcome' = "failed" /\ UNCHANGED <<coordVars, challengeVars>>
     ELSE /\ active' = TRUE /\ process' = FALSE /\ requested' = FALSE
          /\ cancelled' = FALSE /\ conn' = "none" /\ window' = "none" /\ frame' = "none"
          /\ UNCHANGED outcome
  /\ UNCHANGED <<peer, event, stop, failure, policy, mainVars, sshVars, typed, given>>

Launch ==
  /\ rpc = "launch"
  /\ \/ rpc' = "register" /\ window' = "starting" /\ UNCHANGED outcome
     \/ Ends("failed") /\ UNCHANGED window
  /\ UNCHANGED <<peer, event, stop, failure, policy, coordVars, cancelled, conn, frame, mainVars, sshVars,
                 typed, given>>

\* The process is published, and a cancellation that came before it is carried out, which
\* raises when the killed process does not go.
Register ==
  /\ rpc = "register"
  /\ \/ rpc' = "collect" /\ UNCHANGED outcome
     \/ requested /\ Ends("failed")
  /\ process' = TRUE
  /\ cancelled' = (cancelled \/ requested)
  /\ window' = IF requested THEN "gone" ELSE window
  /\ UNCHANGED <<peer, event, stop, failure, policy, active, requested, conn, frame, mainVars, sshVars,
                 typed, given>>

\* _accept_before_deadline: a cancelled challenge has no listener any more.
CollectAccepts ==
  /\ rpc = "collect"
  /\ \/ /\ ~cancelled /\ window = "connecting"
        /\ rpc' = "connected" /\ UNCHANGED outcome
     \/ cancelled /\ Ends("cancelled")
  /\ UNCHANGED <<peer, event, stop, failure, policy, coordVars, challengeVars, mainVars, sshVars,
                 typed, given>>

\* Under the lock: cancelled meanwhile, or the connection becomes the one cancel closes.
CollectConnection ==
  /\ rpc = "connected"
  /\ IF cancelled THEN Ends("cancelled") /\ UNCHANGED conn
     ELSE rpc' = "shaking" /\ conn' = "open" /\ UNCHANGED outcome
  /\ UNCHANGED <<peer, event, stop, failure, policy, coordVars, cancelled, window, frame, mainVars, sshVars,
                 typed, given>>

\* The handshake and the challenge message.  Without a window at the other end the next
\* connection is waited for, unless cancelled.
CollectHandshake ==
  /\ rpc = "shaking"
  /\ IF conn = "open" /\ window = "connecting"
     THEN rpc' = "waiting" /\ window' = "shown" /\ UNCHANGED <<outcome, conn>>
     ELSE /\ conn' = "none" /\ UNCHANGED window
          /\ IF cancelled THEN Ends("cancelled") ELSE rpc' = "collect" /\ UNCHANGED outcome
  /\ UNCHANGED <<peer, event, stop, failure, policy, coordVars, cancelled, frame, mainVars, sshVars,
                 typed, given>>

\* _receive_response: the frame, or the end of the connection.
CollectResponse ==
  /\ rpc = "waiting"
  /\ \/ /\ conn = "open" /\ frame # "none"
        /\ rpc' = "ack" /\ UNCHANGED <<outcome, conn>>
     \/ /\ conn = "closed" \/ (window = "gone" /\ frame = "none")
        /\ Ends("failed") /\ conn' = "none"
  /\ UNCHANGED <<peer, event, stop, failure, policy, coordVars, cancelled, window, frame, mainVars, sshVars,
                 typed, given>>

\* _apply_response.
Applied == CASE frame = "confirm" -> "yes" [] frame = "secret" -> "secret"
             [] frame = "reject" -> "rejected" [] frame = "cancel" -> "cancelled"
             [] frame = "timeout" -> "timed_out"

\* The acknowledgement.  If it cannot be sent the response is dropped, and a further window
\* would be waited for.
CollectAcknowledges ==
  /\ rpc = "ack"
  /\ conn' = "none"
  /\ IF conn = "open" /\ window = "sent" THEN Ends(Applied) /\ window' = "acknowledged"
     ELSE /\ UNCHANGED window
          /\ IF cancelled THEN Ends("cancelled") ELSE rpc' = "collect" /\ UNCHANGED outcome
  /\ frame' = "none"
  /\ UNCHANGED <<peer, event, stop, failure, policy, coordVars, cancelled, mainVars, sshVars, typed, given>>

\* The challenge's deadline.
CollectTimesOut ==
  /\ rpc \in {"collect", "shaking", "waiting"}
  /\ Ends("timed_out") /\ conn' = "none"
  /\ UNCHANGED <<peer, event, stop, failure, policy, coordVars, cancelled, window, frame, mainVars, sshVars,
                 typed, given>>

\* respond's finally: the coordinator is free again.
Deactivate ==
  /\ RelayGoes("deactivate", "finish")
  /\ active' = FALSE /\ process' = FALSE /\ requested' = FALSE
  /\ UNCHANGED <<peer, event, outcome, stop, failure, policy, challengeVars, mainVars, sshVars, typed, given>>

\* A mutant: a window that does not exit by itself is left alone.
FinishProcess_left_alone ==
  /\ RelayGoes("finish", "reply")
  /\ UNCHANGED <<peer, event, outcome, stop, failure, policy, coordVars, challengeVars, mainVars, sshVars,
                 typed, given>>

\* _finish_process: the window exits by itself or is terminated, killed at last.  A killed
\* window does nothing any more; when it is not gone in time respond raises, whatever the
\* answer was.
FinishProcess ==
  /\ RelayGoes("finish", "reply")
  /\ \/ window' = (IF window = "none" THEN "none" ELSE "gone") /\ UNCHANGED outcome
     \/ window # "none" /\ window' = "gone" /\ outcome' = "failed"
  /\ UNCHANGED <<peer, event, stop, failure, policy, coordVars, cancelled, conn, frame, mainVars,
                 sshVars, typed, given>>

-----------------------------------------------------------------------------
(* The window: run_auth_app, DirectAuthClient, AuthWindow.                 *)

WindowUnchanged == UNCHANGED <<relayVars, coordVars, cancelled, conn, mainVars, sshVars, given>>

\* open: the pipe of a challenge that is over is not there.
WindowConnects ==
  /\ window = "starting"
  /\ window' = IF rpc = "collect" /\ ~cancelled THEN "connecting" ELSE "gone"
  /\ UNCHANGED <<frame, typed>> /\ WindowUnchanged

\* The user acts, or the window's own timer fires.
WindowSends(r) ==
  /\ window = "shown"
  /\ window' = "sent" /\ frame' = r
  /\ typed' = [typed EXCEPT ![peer] = r]
  /\ WindowUnchanged

\* The process exits: acknowledged, not acknowledged in time, cut off, or broken.  What it
\* sent stays in the pipe.
WindowExits ==
  /\ window \in {"starting", "connecting", "shown", "sent", "acknowledged"}
  /\ window' = "gone"
  /\ UNCHANGED <<frame, typed>> /\ WindowUnchanged

-----------------------------------------------------------------------------
(* The main thread.                                                        *)

MainGoes(from, to) == main = from /\ main' = to

\* session.open returns, or raises and terminates OpenSSH: a relay failure, OpenSSH gone, or
\* the deadline.
OpenEnds ==
  /\ MainGoes("opening", "stopping")
  /\ \/ ssh = "through" /\ UNCHANGED ssh
     \/ ssh' = "gone"
  /\ UNCHANGED <<caught, allowed, asked, helper, relayVars, coordVars, challengeVars, typed, given>>

\* close: _stop first.
StopRelay ==
  /\ MainGoes("stopping", "cancelling")
  /\ stop' = TRUE
  /\ UNCHANGED <<caught, rpc, peer, event, outcome, failure, policy, sshVars, coordVars, challengeVars,
                 typed, given>>

\* cancel_active, under the coordinator's lock.
CancelActive ==
  /\ main = "cancelling"
  /\ IF active THEN main' = "cancelling challenge" /\ requested' = TRUE /\ caught' = process
     ELSE main' = "waking" /\ UNCHANGED <<requested, caught>>
  /\ UNCHANGED <<active, process, relayVars, sshVars, challengeVars, typed, given>>

\* AuthChallengeServer.cancel: the flag, then the connection that is active by now; the
\* process, if there was one.  A killed process that does not go makes close raise at once.
CancelChallenge ==
  /\ MainGoes("cancelling challenge", "cancelling connection")
  /\ cancelled' = TRUE
  /\ UNCHANGED <<caught, conn, window, frame, relayVars, sshVars, coordVars, typed, given>>

CancelConnection ==
  /\ main = "cancelling connection"
  /\ main' = "waking" \/ (caught /\ main' = "raised")
  /\ conn' = IF conn = "open" THEN "closed" ELSE conn
  /\ window' = IF caught THEN "gone" ELSE window
  /\ UNCHANGED <<caught, cancelled, frame, relayVars, sshVars, coordVars, typed, given>>

\* A mutant: nobody wakes the thread.
Wake_missing ==
  /\ MainGoes("waking", "joining")
  /\ UNCHANGED <<caught, relayVars, sshVars, coordVars, challengeVars, typed, given>>

\* A connection of its own wakes the thread where it waits for a helper; while it is on its
\* way there the connect waits, elsewhere it times out.
Wake ==
  /\ MainGoes("waking", "joining") /\ rpc # "loop"
  /\ IF rpc = "accept" THEN rpc' = "accepted" /\ peer' = 0 ELSE UNCHANGED <<rpc, peer>>
  /\ UNCHANGED <<caught, event, outcome, stop, failure, policy, sshVars, coordVars, challengeVars,
                 typed, given>>

\* join, with a timeout: a thread that is still alive makes close raise.
Join ==
  /\ main = "joining"
  /\ \/ rpc = "ended" /\ main' = "closed" /\ UNCHANGED failure
     \/ rpc # "ended" /\ main' = "raised" /\ failure' = TRUE
  /\ UNCHANGED <<caught, rpc, peer, event, outcome, stop, policy, sshVars, coordVars, challengeVars,
                 typed, given>>

-----------------------------------------------------------------------------
Init ==
  /\ allowed \in connection_prompt_kinds
  /\ ssh = "asking" /\ asked = 0 /\ helper = [pc |-> "none", kind |-> Unknown]
  /\ main = "opening" /\ caught = FALSE
  /\ stop = FALSE /\ failure = FALSE /\ policy = {}
  /\ rpc = "loop" /\ peer = 0 /\ event = Unknown /\ outcome = "none"
  /\ active = FALSE /\ process = FALSE /\ requested = FALSE
  /\ cancelled = FALSE /\ conn = "none" /\ window = "none" /\ frame = "none"
  /\ typed = [n \in 1..MaxPrompts |-> "nothing"] /\ given = <<>>

RelayStep ==
  \/ Loop \/ Handshake \/ Authorize \/ Reply \/ Send
  \/ Activate \/ Launch \/ Register \/ CollectAccepts \/ CollectConnection \/ CollectHandshake
  \/ CollectResponse \/ CollectAcknowledges \/ CollectTimesOut \/ Deactivate \/ FinishProcess
MainStep ==
  \/ OpenEnds \/ StopRelay \/ CancelActive \/ CancelChallenge \/ CancelConnection \/ Wake \/ Join

Next ==
  \/ RelayStep \/ MainStep \/ Accept \/ AcceptFails
  \/ \E kind \in Kinds \union {Unknown} : Ask(kind)
  \/ HelperEnds \/ SshEnds
  \/ WindowConnects \/ WindowExits
  \/ \E r \in Responses(event) : WindowSends(r)

\* The two threads of the worker run, and what they wait for is bounded by deadlines; the
\* user, OpenSSH and the helper need never do anything.
Spec == Init /\ [][Next]_authVars /\ WF_authVars(RelayStep) /\ WF_authVars(MainStep)

-----------------------------------------------------------------------------
\* What the askpass helpers get for OpenSSH is what the policy promises, whatever is lost, repeated
\* or late: kinds of the profile only, one host-key answer at most, nothing after a
\* credential, and each answer is the one the user gave in the window of that very prompt.
GivenIsAuthorized ==
  \A i \in DOMAIN given :
    LET p == given[i] IN
    /\ p.kind \in allowed
    /\ typed[p.n] = IF p.kind = "host_key" THEN "confirm" ELSE "secret"
    /\ p.answer = IF p.kind = "host_key" THEN "yes" ELSE "secret"
    /\ \A j \in 1..(i - 1) : given[j].kind = "host_key" /\ given[j] # p /\ p.kind # "host_key"

\* close that returns has ended everything: the relay thread, the challenge and its window.
ClosedRelayIsQuiet ==
  main = "closed" => rpc = "ended" /\ ~active /\ window \in {"none", "gone"}

\* No window outlives the thread that opened it, however respond ended.
NoWindowWithoutRelay == rpc = "ended" => window \in {"none", "gone"}

\* The relay leaves nothing behind, neither when close returns nor when its thread ends.
RelayLeavesNothing == ClosedRelayIsQuiet /\ NoWindowWithoutRelay

\* No helper is handed an answer once the relay has failed by itself (a refused prompt, a
\* rejected, cancelled or expired window) or once close has returned.  One that was handed
\* its answer before may still print it.
NothingAfterTheEnd ==
  [][(failure /\ main # "raised") \/ main = "closed" => given' = given]_authVars

\* The shutdown of a connection ends: close returns or raises, and the relay thread and its
\* window are gone in the end, also when the user never answers.
AuthenticationEnds ==
  <>[](main \in {"closed", "raised"} /\ rpc = "ended" /\ window \in {"none", "gone"})
=============================================================================
