------------------------ MODULE ConnectionAuthProofs ------------------------
(***************************************************************************)
(* What the relay promises OpenSSH and the user, for any number of         *)
(* prompts: what is given was authorized and typed, nothing is given   *)
(* after the end, and no window outlives the thread that opened it.        *)
(***************************************************************************)
EXTENDS ConnectionAuth, TLAPS

\* The coordinator has an active challenge.
Busy == {"launch", "register", "collect", "connected", "shaking", "waiting", "ack", "deactivate"}

\* A window process may exist.
Windowed == (Busy \ {"launch"}) \union {"finish"}

-----------------------------------------------------------------------------
(* Who is at work *)

\* The challenge and its window belong to respond; a relay that failed by itself has ended.
RelayInv ==
  /\ rpc \notin Busy => ~active
  /\ rpc \notin Windowed => window \in {"none", "gone"}
  /\ main = "closed" => rpc = "ended"
  /\ failure => rpc = "ended" \/ main = "raised"

LEMMA RelayInitially == Init => RelayInv
BY DEF Init, RelayInv, Busy, Windowed

LEMMA RelayThreadStep == RelayInv /\ (RelayStep \/ Accept \/ AcceptFails) => RelayInv'
<1> SUFFICES ASSUME RelayInv, RelayStep \/ Accept \/ AcceptFails
             PROVE  RelayInv'
  OBVIOUS
<1> USE DEF RelayInv, Busy, Windowed, relayVars, coordVars, challengeVars, mainVars, sshVars
<1>1. CASE Loop
  BY <1>1 DEF Loop
<1>2. CASE Accept
  BY <1>2 DEF Accept, RelayGoes
<1>3. CASE AcceptFails
  BY <1>3 DEF AcceptFails, Fails
<1>4. CASE Handshake
  BY <1>4 DEF Handshake
<1>5. CASE Authorize
  BY <1>5 DEF Authorize, Fails
<1>6. CASE Reply
  BY <1>6 DEF Reply, Fails
<1>7. CASE Send
  BY <1>7 DEF Send, Fails
<1>8. CASE Activate
  BY <1>8 DEF Activate, RelayGoes
<1>9. CASE Launch
  BY <1>9 DEF Launch, Ends
<1>10. CASE Register
  BY <1>10 DEF Register, Ends
<1>11. CASE CollectAccepts
  BY <1>11 DEF CollectAccepts, Ends
<1>12. CASE CollectConnection
  BY <1>12 DEF CollectConnection, Ends
<1>13. CASE CollectHandshake
  BY <1>13 DEF CollectHandshake, Ends
<1>14. CASE CollectResponse
  BY <1>14 DEF CollectResponse, Ends
<1>15. CASE CollectAcknowledges
  BY <1>15 DEF CollectAcknowledges, Ends
<1>16. CASE CollectTimesOut
  BY <1>16 DEF CollectTimesOut, Ends
<1>17. CASE Deactivate
  BY <1>17 DEF Deactivate, RelayGoes
<1>18. CASE FinishProcess
  BY <1>18 DEF FinishProcess, RelayGoes
<1> QED
  BY <1>1, <1>2, <1>3, <1>4, <1>5, <1>6, <1>7, <1>8, <1>9, <1>10, <1>11, <1>12, <1>13,
     <1>14, <1>15, <1>16, <1>17, <1>18
  DEF RelayStep

LEMMA RelayOthersStep ==
  RelayInv /\ [Next]_authVars /\ ~(RelayStep \/ Accept \/ AcceptFails) => RelayInv'
<1> SUFFICES ASSUME RelayInv, [Next]_authVars, ~(RelayStep \/ Accept \/ AcceptFails)
             PROVE  RelayInv'
  OBVIOUS
<1> USE DEF RelayInv, Busy, Windowed, relayVars, coordVars, challengeVars, mainVars, sshVars
<1>1. ASSUME NEW kind \in Kinds \union {Unknown}, Ask(kind)
      PROVE  RelayInv'
  BY <1>1 DEF Ask
<1>2. CASE HelperEnds
  BY <1>2 DEF HelperEnds
<1>3. CASE SshEnds
  BY <1>3 DEF SshEnds
<1>4. CASE WindowConnects
  BY <1>4 DEF WindowConnects, WindowUnchanged
<1>5. CASE WindowExits
  BY <1>5 DEF WindowExits, WindowUnchanged
<1>6. ASSUME NEW r \in Responses(event), WindowSends(r)
      PROVE  RelayInv'
  BY <1>6 DEF WindowSends, WindowUnchanged
<1>7. CASE OpenEnds
  BY <1>7 DEF OpenEnds, MainGoes
<1>8. CASE StopRelay
  BY <1>8 DEF StopRelay, MainGoes
<1>9. CASE CancelActive
  BY <1>9 DEF CancelActive
<1>10. CASE CancelChallenge
  BY <1>10 DEF CancelChallenge, MainGoes
<1>11. CASE CancelConnection
  BY <1>11 DEF CancelConnection, MainGoes
<1>12. CASE Wake
  BY <1>12 DEF Wake, MainGoes
<1>13. CASE Join
  BY <1>13 DEF Join
<1>14. CASE UNCHANGED authVars
  BY <1>14 DEF authVars
<1> QED
  BY <1>1, <1>2, <1>3, <1>4, <1>5, <1>6, <1>7, <1>8, <1>9, <1>10, <1>11, <1>12, <1>13, <1>14
  DEF Next, MainStep

LEMMA RelayInvariant == Spec => []RelayInv
<1>1. RelayInv /\ [Next]_authVars => RelayInv'
  BY RelayThreadStep, RelayOthersStep
<1> QED
  BY RelayInitially, <1>1, PTL DEF Spec

\* OpenSshAskpassRelay.close and respond's finally: the end of the thread, and a close that
\* returned, leave neither a challenge nor a window, however the relay ended.
THEOREM NothingLeft == Spec => []RelayLeavesNothing
<1>1. RelayInv => RelayLeavesNothing
  BY DEF RelayInv, RelayLeavesNothing, ClosedRelayIsQuiet, NoWindowWithoutRelay, Busy, Windowed
<1> QED
  BY RelayInvariant, <1>1, PTL

-----------------------------------------------------------------------------
(* When something is given *)

\* Only Send hands an answer to a helper.
LEMMA OnlySendGives == [Next]_authVars /\ ~Send => given' = given
<1> SUFFICES ASSUME [Next]_authVars, ~Send PROVE given' = given
  OBVIOUS
<1>1. CASE RelayStep
  BY <1>1 DEF RelayStep, Loop, Handshake, Authorize, Reply, Activate, Launch, Register,
              CollectAccepts, CollectConnection, CollectHandshake, CollectResponse,
              CollectAcknowledges, CollectTimesOut, Deactivate, FinishProcess
<1>2. CASE MainStep
  BY <1>2 DEF MainStep, OpenEnds, StopRelay, CancelActive, CancelChallenge, CancelConnection,
              Wake, Join
<1>3. CASE Accept \/ AcceptFails \/ HelperEnds \/ SshEnds
  BY <1>3 DEF Accept, AcceptFails, HelperEnds, SshEnds
<1>4. ASSUME NEW kind \in Kinds \union {Unknown}, Ask(kind)
      PROVE  given' = given
  BY <1>4 DEF Ask
<1>5. CASE WindowConnects \/ WindowExits
  BY <1>5 DEF WindowConnects, WindowExits, WindowUnchanged
<1>6. ASSUME NEW r \in Responses(event), WindowSends(r)
      PROVE  given' = given
  BY <1>6 DEF WindowSends, WindowUnchanged
<1>7. CASE UNCHANGED authVars
  BY <1>7 DEF authVars
<1> QED
  BY <1>1, <1>2, <1>3, <1>4, <1>5, <1>6, <1>7 DEF Next

\* OpenSshAskpassRelay._serve: a relay that refused a prompt, or whose window was rejected,
\* cancelled or expired, answers no helper any more, nor does one whose close has returned.
THEOREM SilentAfterTheEnd == Spec => NothingAfterTheEnd
<1> DEFINE Silent == (failure /\ main # "raised") \/ main = "closed" => given' = given
<1>1. RelayInv /\ [Next]_authVars => [Silent]_authVars
  <2> SUFFICES ASSUME RelayInv, [Next]_authVars PROVE Silent
    OBVIOUS
  <2>1. CASE Send
    BY <2>1 DEF Send, RelayInv
  <2>2. CASE ~Send
    BY <2>2, OnlySendGives
  <2> QED
    BY <2>1, <2>2
<1> QED
  BY RelayInvariant, <1>1, PTL DEF Spec, NothingAfterTheEnd

-----------------------------------------------------------------------------
(* What is given *)

RPc == Busy \union {"loop", "accept", "accepted", "request", "respond", "finish", "reply", "send",
                    "ended"}

\* The relay serves a helper; the policy has let its prompt pass; respond has ended.
Serving == Busy \union {"request", "respond", "finish", "reply", "send"}
Permitted == Busy \union {"respond", "finish", "reply"}
Responded == {"deactivate", "finish", "reply", "send"}

Answer == [n : 1..MaxPrompts, kind : Kinds, answer : {"yes", "secret"}]

AuthTypes ==
  /\ rpc \in RPc
  /\ asked \in 0..MaxPrompts /\ peer \in 0..MaxPrompts
  /\ helper \in [pc : {"none", "connecting", "greeting", "asking", "given"}, kind : Kinds \union {Unknown}]
  /\ helper.pc # "none" => asked # 0
  /\ allowed \subseteq Kinds /\ policy \subseteq Kinds
  /\ typed \in [1..MaxPrompts -> {"nothing", "cancel", "timeout", "confirm", "reject", "secret"}]
  /\ given \in Seq(Answer)

\* The answer that fits a prompt of a kind, typed for the prompt n.
Fits(n, kind, answer) ==
  /\ typed[n] = IF kind = "host_key" THEN "confirm" ELSE "secret"
  /\ answer = IF kind = "host_key" THEN "yes" ELSE "secret"

\* Whatever was given is older than the helper that waits and the prompt being served.
GivenIsOlder ==
  \A i \in DOMAIN given :
    /\ given[i].n <= asked
    /\ helper.pc \in {"connecting", "greeting", "asking"} => given[i].n < asked
    /\ rpc \in Serving => given[i].n < peer

\* The policy knows what was given and has not yet seen the prompt that is being answered.
PolicyHolds ==
  /\ \A i \in DOMAIN given : given[i].kind \in policy
  /\ rpc \in Serving => peer # 0
  /\ rpc \in Permitted => /\ event \in allowed /\ event \notin policy
                          /\ policy \intersect Credentials = {}
  /\ rpc = "send" => /\ event \in allowed /\ event \in policy
                     /\ \A i \in DOMAIN given : given[i].kind = "host_key" /\ event # "host_key"

\* A response on its way, and one that respond has returned, is what was typed.
TypedIsAnswered ==
  /\ rpc \in {"launch", "register", "collect", "connected", "shaking"} => frame = "none"
  /\ window = "shown" => rpc \in {"waiting", "deactivate", "finish"}
  /\ rpc = "waiting" /\ frame # "none" => window # "shown"
  /\ rpc \in {"waiting", "ack"} /\ frame # "none" => frame \in Responses(event) /\ typed[peer] = frame
  /\ rpc = "ack" => frame # "none"
  /\ rpc \in Responded /\ outcome \in {"yes", "secret"} =>
       Fits(peer, event, outcome) /\ window # "shown"
  /\ rpc = "send" => outcome \in {"yes", "secret"}

GivenInv == AuthTypes /\ GivenIsOlder /\ PolicyHolds /\ TypedIsAnswered /\ GivenIsAuthorized

LEMMA GivenInitially == Init => GivenInv
<1> SUFFICES ASSUME Init PROVE GivenInv
  OBVIOUS
<1>1. allowed \subseteq Kinds
  BY DEF Init, connection_prompt_kinds, Kinds, Credentials
<1> QED
  BY <1>1, PromptBound
  DEF Init, GivenInv, AuthTypes, GivenIsOlder, PolicyHolds, TypedIsAnswered, GivenIsAuthorized,
      RPc, Serving, Permitted, Responded, Busy, Kinds, Credentials, Unknown

LEMMA GivenNumbers ==
  ASSUME given \in Seq(Answer)
  PROVE  \A i \in DOMAIN given : given[i].n \in Nat
<1>1. \A i \in DOMAIN given : given[i] \in Answer
  OBVIOUS
<1> QED
  BY <1>1, PromptBound DEF Answer

\* Steps that concern neither the relay, nor the policy, nor an answer.
LEMMA GivenFrame ==
  ASSUME GivenInv, window' = window \/ window' # "shown",
         UNCHANGED <<rpc, peer, event, outcome, policy, allowed, asked, helper, typed, given, frame>>
  PROVE  GivenInv'
BY SMTT(30) DEF GivenInv, AuthTypes, GivenIsOlder, PolicyHolds, TypedIsAnswered, GivenIsAuthorized,
       Fits, Answer, Responses

\* Every step of the relay thread.
LEMMA GivenThreadStep ==
  RelayInv /\ GivenInv /\ (RelayStep \/ Accept \/ AcceptFails) => GivenInv'
<1> SUFFICES ASSUME RelayInv, GivenInv, RelayStep \/ Accept \/ AcceptFails
             PROVE  GivenInv'
  OBVIOUS
<1> USE PromptBound
    DEF GivenInv, AuthTypes, GivenIsOlder, PolicyHolds, TypedIsAnswered, GivenIsAuthorized,
        Fits, Answer, RPc, Serving, Permitted, Responded, Busy, Kinds, Credentials, Unknown,
        relayVars, coordVars, challengeVars, mainVars, sshVars
<1>1. CASE Loop
  BY <1>1 DEF Loop
<1>2. CASE Accept
  BY <1>2 DEF Accept, RelayGoes
<1>3. CASE AcceptFails
  BY <1>3 DEF AcceptFails, Fails
<1>4. CASE Handshake
  BY <1>4 DEF Handshake, HelperWaits
<1>5. CASE Authorize
  BY <1>5 DEF Authorize, Fails, DropHelper, HelperWaits
<1>6. CASE Reply
  BY <1>6 DEF Reply, Fails, DropHelper, HelperWaits
<1>7. CASE Send
  <2>1. CASE ~HelperWaits
    BY <1>7, <2>1 DEF Send, Fails
  <2>2. CASE HelperWaits
    <3> DEFINE new == [n |-> peer, kind |-> event, answer |-> outcome]
    <3>1. /\ rpc = "send" /\ rpc' = "loop" /\ helper' = [helper EXCEPT !.pc = "given"]
          /\ given' = Append(given, new)
          /\ UNCHANGED <<peer, event, outcome, policy, window, frame, allowed, asked, typed>>
      BY <1>7, <2>2 DEF Send
    <3>2. new \in Answer /\ peer = asked
      BY <3>1, <2>2 DEF HelperWaits
    <3> HIDE DEF new
    <3>3. /\ given' \in Seq(Answer) /\ DOMAIN given' = 1..(Len(given) + 1)
          /\ given'[Len(given) + 1] = new
          /\ \A i \in DOMAIN given : given'[i] = given[i]
      BY <3>1, <3>2
    <3>4. AuthTypes'
      <4>1. helper' \in [pc : {"none", "connecting", "greeting", "asking", "given"},
                         kind : Kinds \union {Unknown}]
        BY <3>1
      <4>2. helper'.pc # "none" => asked' # 0
        BY <3>1, <2>2 DEF HelperWaits
      <4> QED
        BY <3>1, <3>3, <4>1, <4>2
    <3>5. GivenIsOlder'
      BY <3>1, <3>2, <3>3 DEF new
    <3>6. PolicyHolds'
      BY SMTT(30), <3>1, <3>3 DEF new
    <3>7. TypedIsAnswered'
      BY <3>1
    <3>8. GivenIsAuthorized'
      BY SMTT(30), <3>1, <3>2, <3>3 DEF new
    <3> QED
      BY <3>4, <3>5, <3>6, <3>7, <3>8
  <2> QED
    BY <2>1, <2>2
<1>8. CASE Activate
  BY SMTT(30), ZenonT(60), <1>8 DEF Activate, RelayGoes
<1>9. CASE Launch
  BY SMTT(30), ZenonT(60), <1>9 DEF Launch, Ends
<1>10. CASE Register
  BY SMTT(30), ZenonT(60), <1>10 DEF Register, Ends
<1>11. CASE CollectAccepts
  BY SMTT(30), ZenonT(60), <1>11 DEF CollectAccepts, Ends
<1>12. CASE CollectConnection
  BY SMTT(30), ZenonT(60), <1>12 DEF CollectConnection, Ends
<1>13. CASE CollectHandshake
  BY SMTT(30), ZenonT(60), <1>13 DEF CollectHandshake, Ends
<1>14. CASE CollectResponse
  BY SMTT(30), ZenonT(60), <1>14 DEF CollectResponse, Ends
<1>15. CASE CollectAcknowledges
  <2>1. CASE conn = "open" /\ window = "sent"
    <3>1. /\ rpc = "ack" /\ rpc' = "deactivate" /\ outcome' = Applied /\ window' = "acknowledged"
          /\ UNCHANGED <<peer, event, policy, allowed, asked, helper, typed, given>>
      BY <1>15, <2>1 DEF CollectAcknowledges, Ends
    <3>2. outcome' \in {"yes", "secret"} => Fits(peer, event, outcome')
      BY <3>1 DEF Applied, Responses
    <3> QED
      BY <3>1, <3>2
  <2>2. CASE ~(conn = "open" /\ window = "sent")
    BY <1>15, <2>2 DEF CollectAcknowledges, Ends
  <2> QED
    BY <2>1, <2>2
<1>16. CASE CollectTimesOut
  BY <1>16 DEF CollectTimesOut, Ends
<1>17. CASE Deactivate
  BY <1>17 DEF Deactivate, RelayGoes
<1>18. CASE FinishProcess
  BY SMTT(30), <1>18 DEF FinishProcess, RelayGoes
<1> QED
  BY <1>1, <1>2, <1>3, <1>4, <1>5, <1>6, <1>7, <1>8, <1>9, <1>10, <1>11, <1>12, <1>13, <1>14, <1>15, <1>16, <1>17, <1>18
  DEF RelayStep

\* The steps of the others.
LEMMA GivenOthersStep ==
  GivenInv /\ [Next]_authVars /\ ~(RelayStep \/ Accept \/ AcceptFails) => GivenInv'
<1> SUFFICES ASSUME GivenInv, [Next]_authVars, ~(RelayStep \/ Accept \/ AcceptFails)
             PROVE  GivenInv'
  OBVIOUS
<1> USE PromptBound
    DEF GivenInv, AuthTypes, GivenIsOlder, PolicyHolds, TypedIsAnswered, GivenIsAuthorized,
        Fits, Answer, RPc, Serving, Permitted, Responded, Busy, Kinds, Credentials, Unknown,
        relayVars, coordVars, challengeVars, mainVars, sshVars
<1>1. ASSUME NEW kind \in Kinds \union {Unknown}, Ask(kind)
      PROVE  GivenInv'
  <2>1. /\ asked' = asked + 1 /\ asked < MaxPrompts /\ helper' = [pc |-> "connecting", kind |-> kind]
        /\ UNCHANGED <<rpc, peer, event, outcome, policy, allowed, typed, given, window, frame>>
    BY <1>1 DEF Ask
  <2>2. AuthTypes'
    <3>1. asked' \in 0..MaxPrompts /\ asked' # 0
      BY <2>1
    <3>2. helper' \in [pc : {"none", "connecting", "greeting", "asking", "given"}, kind : Kinds \union {Unknown}]
      <4> HIDE DEF Kinds, Unknown
      <4> QED
        BY <1>1, <2>1
    <3> QED
      BY <2>1, <3>1, <3>2
  <2>3. GivenIsOlder'
    <3>1. \A i \in DOMAIN given : given[i].n \in Nat
      BY GivenNumbers
    <3>2. asked \in Nat /\ asked' = asked + 1 /\ UNCHANGED <<given, rpc, peer>>
      BY <2>1
    <3>3. \A i \in DOMAIN given : given[i].n < asked'
      BY SMTT(30), <3>1, <3>2
    <3>4. \A i \in DOMAIN given : rpc \in Serving => given[i].n < peer
      OBVIOUS
    <3> HIDE DEF GivenInv, AuthTypes
    <3> QED
      BY <3>1, <3>2, <3>3, <3>4
  <2>4. PolicyHolds' /\ GivenIsAuthorized'
    BY <2>1
  <2>5. TypedIsAnswered'
    BY <2>1 DEF Responses
  <2> QED
    BY <2>2, <2>3, <2>4, <2>5
<1>2. ASSUME NEW r \in Responses(event), WindowSends(r)
      PROVE  GivenInv'
  BY <1>2 DEF WindowSends, WindowUnchanged, Responses
<1>3. CASE UNCHANGED authVars
  BY <1>3 DEF authVars
<1>4. CASE HelperEnds
  BY SMTT(30), ZenonT(60), <1>4 DEF HelperEnds
<1>5. CASE SshEnds
  BY SMTT(30), ZenonT(60), <1>5 DEF SshEnds
<1>6. CASE WindowConnects
  BY <1>6 DEF WindowConnects, WindowUnchanged
<1>7. CASE WindowExits
  BY <1>7 DEF WindowExits, WindowUnchanged
<1>8. CASE OpenEnds
  BY <1>8 DEF OpenEnds, MainGoes
<1>9. CASE StopRelay
  BY <1>9 DEF StopRelay, MainGoes
<1>10. CASE CancelActive
  <2>1. /\ window' = window \/ window' = "gone"
        /\ UNCHANGED <<rpc, peer, event, outcome, policy, allowed, asked, helper, typed, given, frame>>
    BY <1>10 DEF CancelActive
  <2> QED
    BY <2>1, GivenFrame
<1>11. CASE CancelChallenge
  <2>1. /\ window' = window \/ window' = "gone"
        /\ UNCHANGED <<rpc, peer, event, outcome, policy, allowed, asked, helper, typed, given, frame>>
    BY <1>11 DEF CancelChallenge, MainGoes
  <2> QED
    BY <2>1, GivenFrame
<1>12. CASE CancelConnection
  <2>1. /\ window' = window \/ window' = "gone"
        /\ UNCHANGED <<rpc, peer, event, outcome, policy, allowed, asked, helper, typed, given, frame>>
    BY <1>12 DEF CancelConnection, MainGoes
  <2> QED
    BY <2>1, GivenFrame
<1>13. CASE Wake
  BY <1>13 DEF Wake, MainGoes
<1>14. CASE Join
  BY <1>14 DEF Join
<1> QED
  BY <1>1, <1>2, <1>3, <1>4, <1>5, <1>6, <1>7, <1>8, <1>9, <1>10, <1>11, <1>12, <1>13, <1>14
  DEF Next, MainStep

\* ConnectionPromptPolicy and respond: every answer OpenSSH gets is of a kind the profile
\* allows, at most one is for a host key, none follows a credential, and each is what the
\* user gave in the window of that very prompt.
THEOREM AnswersAuthorized == Spec => []GivenIsAuthorized
<1>1. RelayInv /\ GivenInv /\ [Next]_authVars => GivenInv'
  BY GivenThreadStep, GivenOthersStep
<1>2. GivenInv => GivenIsAuthorized
  BY DEF GivenInv
<1> QED
  BY RelayInvariant, GivenInitially, <1>1, <1>2, PTL DEF Spec
=============================================================================
