------------------------- MODULE WorkerSessionProofs -------------------------
(***************************************************************************)
(* Proofs about WorkerSession, for every number of tokens, prompts and raw *)
(* texts.  The invariant speaks of the two ends of the terminal as sets:   *)
(* the input that was not read, with its order, and the output that was    *)
(* shown and not read.  The sequences themselves appear in the lemmas of   *)
(* the first section only.                                                 *)
(***************************************************************************)
EXTENDS WorkerSession, SequenceTheorems, TLAPS

-----------------------------------------------------------------------------
(* The terminal as sets *)

Unread == {tty[i] : i \in 1..Len(tty)}
Shown == {out[i] : i \in 1..Len(out)}
Before(x, y) == \E i, j \in 1..Len(tty) : i < j /\ tty[i] = x /\ tty[j] = y

-----------------------------------------------------------------------------
(* The inductive invariant *)

\* The waits during which a frame of the active token is answered.
Framed == {"bootstrap", "command", "auth", "recovery", "raw_close"}

\* Where a request waits determines the session state.
PcState ==
  /\ wpc = "idle" => state \in RestingStates
  /\ wpc \in {"login", "bootstrap"} => state = "starting"
  /\ wpc = "verify" => state = "ready"
  /\ wpc \in {"write", "command", "recovery"} => state = "executing"
  /\ wpc = "auth" => /\ state = "authentication_required" /\ gate # "unused"
                     /\ authReturn \in {"starting", "executing"}
                     /\ authReturn = "starting" <=> tok = 0
  /\ wpc \in {"raw_write", "raw_close"} => state = "interactive"
  /\ wpc = "failing" => state \in {"created", "ready", "interactive", "lost", "failed"}
  /\ wpc = "closing" => state = "closing"
  /\ wpc \in {"bootstrap", "write", "command", "recovery", "raw_close"} => tok > 0
  /\ wpc = "login" => tok = 0
  /\ wpc = "raw_write" => raws < MaxRaw

\* Before the terminal starts there is nothing in it.
NothingYet ==
  state = "created" => /\ Unread = {} /\ Shown = {} /\ tok = 0 /\ gate = "unused"
                       /\ rtok = 0 /\ term = "none"

\* Nothing carries a token that was not handed out.
Known(t) == t <= tok \/ t = RAW
TokensKnown ==
  /\ Known(rtok)
  /\ \A x \in Unread : Known(x.t) /\ (x.kind \in {"command", "recovery"} => x.t \in Tokens)
                       /\ (x.kind = "raw" => x.t = RAW)
  /\ \A f \in Shown : Known(f.t) /\ (f.kind = "end" => f.t \in Tokens)
  /\ \A t \in Tokens : t > tok => answer[t] = "none"
  /\ wpc = "write" => /\ answer[tok] = "none" /\ rtok # tok
                      /\ \A x \in Unread : x.t # tok
                      /\ \A f \in Shown : f.t # tok

Quiet == /\ rtok = 0 /\ asking = "none" /\ shell = "ok"
         /\ \A x \in Unread : ~Runnable(x)

\* The active command is the last thing Bash will run.
LastToRun ==
  wpc \in Framed =>
    /\ \A x, y : Before(x, y) /\ x \in {Type("command", tok), Type("recovery", tok)} => ~Runnable(y)
    /\ rtok = tok => \A x \in Unread : ~Runnable(x)

\* Its end frame is shown only once nothing is left to run.
EndMeansQuiet ==
  /\ wpc \in Framed /\ Type("end", tok) \in Shown => Quiet
  /\ state = "ready" => Quiet

\* Without a recovery frame the end frame is the one Bash printed for the command.
EndMeansVerified ==
  wpc \in {"write", "command", "auth"} =>
    /\ Type("recovery", tok) \notin Unread
    /\ Type("end", tok) \in Shown => tok \in verified

\* A prompt that may still be answered waits, with nothing in the terminal line.
PromptWaits ==
  /\ wpc = "login" /\ gate = "unused" => Unread = {}
  /\ wpc = "command" /\ gate = "unused" =>
       /\ \A x, y : Before(x, y) => x # Type("command", tok)
       /\ rtok = tok => Unread = {}
  /\ wpc \in {"login", "command"} /\ gate = "unused" /\ Type("sudo", tok) \in Shown =>
       asking = "bound" /\ Unread = {}
  /\ wpc = "auth" => asking = "bound" /\ Unread = {}
  /\ asking # "none" => rtok # 0 \/ shell = "absent"

\* A secret is the first thing in the terminal line, and its prompt waits.
SecretFirst ==
  /\ \A x \in Unread : x.kind = "secret" => asking = "bound"
  /\ \A x, y : Before(x, y) => y.kind # "secret"

TypedOnce ==
  /\ \A t \in 0..MaxTokens : typed[t] <= 1 /\ (t > tok => typed[t] = 0)
  /\ gate = "unused" \/ wpc = "auth" => typed[tok] = 0

Honest ==
  \A t \in Tokens :
    /\ answer[t] = "completed" => t \in verified
    /\ answer[t] = "command_timed_out" => rtok # t /\ Type("command", t) \notin Unread

TerminalInv ==
  /\ NothingYet /\ TokensKnown /\ LastToRun /\ EndMeansQuiet /\ EndMeansVerified
  /\ PromptWaits /\ SecretFirst /\ TypedOnce /\ Honest

SessionInv == TypeOK /\ PcState /\ TerminalInv

-----------------------------------------------------------------------------
(* What the operations on sequences do to the sets *)

LEMMA ReadFacts ==
  ASSUME tty \in Seq(Input), tty # <<>>, tty' = Tail(tty)
  PROVE  /\ tty' \in Seq(Input) /\ Head(tty) \in Unread /\ Head(tty) \in Input /\ Unread' \subseteq Unread
         /\ \A x \in Unread' : Before(Head(tty), x)
         /\ \A x, y : Before(x, y)' => Before(x, y)
<1>1. PICK n \in Nat : n = Len(tty) /\ n > 0
  OBVIOUS
<1>2. /\ tty' \in Seq(Input) /\ Len(tty') = n - 1 /\ Head(tty) = tty[1] /\ Head(tty) \in Input
      /\ \A i \in 1..(n - 1) : tty'[i] = tty[i + 1] /\ i + 1 \in 1..n
  BY <1>1
<1>3. Head(tty) \in Unread /\ Unread' \subseteq Unread
  BY <1>1, <1>2 DEF Unread
<1>4. ASSUME NEW x \in Unread' PROVE Before(Head(tty), x)
  <2>1. PICK i \in 1..(n - 1) : tty'[i] = x
    BY <1>2 DEF Unread
  <2>2. 1 \in 1..n /\ i + 1 \in 1..n /\ 1 < i + 1 /\ tty[i + 1] = x
    BY <1>1, <1>2, <2>1
  <2> QED
    BY <1>1, <1>2, <2>2 DEF Before
<1>5. ASSUME NEW x, NEW y, Before(x, y)' PROVE Before(x, y)
  <2>1. PICK i, j \in 1..(n - 1) : i < j /\ tty'[i] = x /\ tty'[j] = y
    BY <1>2, <1>5 DEF Before
  <2>2. i + 1 \in 1..n /\ j + 1 \in 1..n /\ i + 1 < j + 1 /\ tty[i + 1] = x /\ tty[j + 1] = y
    BY <1>1, <1>2, <2>1
  <2> QED
    BY <1>1, <2>2 DEF Before
<1> QED
  BY <1>2, <1>3, <1>4, <1>5

LEMMA WriteFacts ==
  ASSUME tty \in Seq(Input), NEW z \in Input, tty' = Append(tty, z)
  PROVE  /\ tty' \in Seq(Input) /\ Unread' = Unread \union {z}
         /\ \A x, y : Before(x, y)' => Before(x, y) \/ (x \in Unread /\ y = z)
<1>1. PICK n \in Nat : n = Len(tty)
  OBVIOUS
<1>2. /\ tty' \in Seq(Input) /\ Len(tty') = n + 1 /\ tty'[n + 1] = z
      /\ \A i \in 1..n : tty'[i] = tty[i]
  BY <1>1
<1>3. \A i \in 1..(n + 1) : i \in 1..n \/ i = n + 1
  OBVIOUS
<1>4. Unread' = Unread \union {z}
  <2>1. Unread = {tty[i] : i \in 1..n} /\ Unread' = {tty'[i] : i \in 1..(n + 1)}
    BY <1>1, <1>2 DEF Unread
  <2>2. n + 1 \in 1..(n + 1) /\ \A i \in 1..n : i \in 1..(n + 1)
    OBVIOUS
  <2> QED
    BY <1>2, <1>3, <2>1, <2>2
<1>5. ASSUME NEW x, NEW y, Before(x, y)' PROVE Before(x, y) \/ (x \in Unread /\ y = z)
  <2>1. PICK i, j \in 1..(n + 1) : i < j /\ tty'[i] = x /\ tty'[j] = y
    BY <1>2, <1>5 DEF Before
  <2>2. i \in 1..n /\ tty[i] = x
    BY <1>2, <2>1
  <2>3. CASE j \in 1..n
    BY <1>1, <1>2, <2>1, <2>2, <2>3 DEF Before
  <2>4. CASE j = n + 1
    BY <1>1, <1>2, <2>1, <2>2, <2>4 DEF Unread
  <2> QED
    BY <1>3, <2>1, <2>3, <2>4
<1> QED
  BY <1>2, <1>4, <1>5

LEMMA WriteTwoFacts ==
  ASSUME tty \in Seq(Input), NEW u \in Input, NEW z \in Input, tty' = tty \o <<u, z>>
  PROVE  /\ tty' \in Seq(Input) /\ Unread' = Unread \union {u, z}
         /\ \A x, y : Before(x, y)' => \/ Before(x, y) \/ (x \in Unread /\ y \in {u, z})
                                      \/ (x = u /\ y = z)
<1>1. PICK n \in Nat : n = Len(tty)
  OBVIOUS
<1>2. /\ tty' \in Seq(Input) /\ Len(tty') = n + 2 /\ tty'[n + 1] = u /\ tty'[n + 2] = z
      /\ \A i \in 1..n : tty'[i] = tty[i]
  BY <1>1
<1>3. \A i \in 1..(n + 2) : i \in 1..n \/ i = n + 1 \/ i = n + 2
  OBVIOUS
<1>4. Unread' = Unread \union {u, z}
  <2>1. Unread = {tty[i] : i \in 1..n} /\ Unread' = {tty'[i] : i \in 1..(n + 2)}
    BY <1>1, <1>2 DEF Unread
  <2>2. n + 1 \in 1..(n + 2) /\ n + 2 \in 1..(n + 2) /\ \A i \in 1..n : i \in 1..(n + 2)
    OBVIOUS
  <2> QED
    BY <1>2, <1>3, <2>1, <2>2
<1>5. ASSUME NEW x, NEW y, Before(x, y)'
      PROVE  Before(x, y) \/ (x \in Unread /\ y \in {u, z}) \/ (x = u /\ y = z)
  <2>1. PICK i, j \in 1..(n + 2) : i < j /\ tty'[i] = x /\ tty'[j] = y
    BY <1>2, <1>5 DEF Before
  <2>2. CASE i = n + 1
    <3>1. j = n + 2
      BY <2>1, <2>2
    <3> QED
      BY <1>2, <2>1, <2>2, <3>1
  <2>3. CASE i \in 1..n
    <3>1. tty[i] = x /\ x \in Unread
      BY <1>1, <1>2, <2>1, <2>3 DEF Unread
    <3>2. CASE j \in 1..n
      BY <1>1, <1>2, <2>1, <2>3, <3>1, <3>2 DEF Before
    <3> QED
      BY <1>2, <1>3, <2>1, <3>1, <3>2
  <2>4. i # n + 2
    BY <2>1
  <2> QED
    BY <1>3, <2>1, <2>2, <2>3, <2>4
<1> QED
  BY <1>2, <1>4, <1>5

\* VINTR takes the input before it away with itself ...
LEMMA FlushFacts ==
  ASSUME tty \in Seq(Input), NEW k \in 1..Len(tty), tty' = SubSeq(tty, k + 1, Len(tty))
  PROVE  /\ tty' \in Seq(Input) /\ Unread' \subseteq Unread
         /\ \A x \in Unread' : Before(tty[k], x)
         /\ \A x, y : Before(x, y)' => Before(x, y)
<1>1. PICK n \in Nat : n = Len(tty) /\ k \in 1..n
  OBVIOUS
<1>2. /\ tty' \in Seq(Input) /\ Len(tty') = n - k
      /\ \A i \in 1..(n - k) : tty'[i] = tty[i + k] /\ i + k \in 1..n /\ k < i + k
  <2>1. k + 1 \in Nat /\ n \in Nat /\ \A i \in (k + 1)..n : tty[i] \in Input
    BY <1>1
  <2>2. tty' = SubSeq(tty, k + 1, n)
    BY <1>1
  <2> QED
    BY <1>1, <2>1, <2>2, SMTT(30)
<1>3. Unread' \subseteq Unread
  BY <1>1, <1>2 DEF Unread
<1>4. ASSUME NEW x \in Unread' PROVE Before(tty[k], x)
  <2>1. PICK i \in 1..(n - k) : tty'[i] = x
    BY <1>2 DEF Unread
  <2> QED
    BY <1>1, <1>2, <2>1 DEF Before
<1>5. ASSUME NEW x, NEW y, Before(x, y)' PROVE Before(x, y)
  <2>1. PICK i, j \in 1..(n - k) : i < j /\ tty'[i] = x /\ tty'[j] = y
    BY <1>2, <1>5 DEF Before
  <2>2. i + k \in 1..n /\ j + k \in 1..n /\ i + k < j + k /\ tty[i + k] = x /\ tty[j + k] = y
    BY <1>1, <1>2, <2>1
  <2> QED
    BY <1>1, <2>2 DEF Before
<1> QED
  BY <1>2, <1>3, <1>4, <1>5

\* ... or is read as an ordinary byte.
LEMMA RemoveFacts ==
  ASSUME tty \in Seq(Input), NEW k \in 1..Len(tty), tty' = RemoveAt(tty, k)
  PROVE  /\ tty' \in Seq(Input) /\ Unread' \subseteq Unread
         /\ \A x, y : Before(x, y)' => Before(x, y)
<1>1. PICK n \in Nat : n = Len(tty) /\ k \in 1..n
  OBVIOUS
<1>2. PICK a, b \in Seq(Input) :
        /\ a = SubSeq(tty, 1, k - 1) /\ b = SubSeq(tty, k + 1, n) /\ tty' = a \o b
        /\ Len(a) = k - 1 /\ Len(b) = n - k
        /\ \A i \in 1..(k - 1) : a[i] = tty[i]
        /\ \A i \in 1..(n - k) : b[i] = tty[i + k]
  <2>1. SubSeq(tty, 1, k - 1) \in Seq(Input) /\ Len(SubSeq(tty, 1, k - 1)) = k - 1
        /\ \A i \in 1..(k - 1) : SubSeq(tty, 1, k - 1)[i] = tty[i]
    BY <1>1, SMTT(30)
  <2>2. SubSeq(tty, k + 1, n) \in Seq(Input) /\ Len(SubSeq(tty, k + 1, n)) = n - k
        /\ \A i \in 1..(n - k) : SubSeq(tty, k + 1, n)[i] = tty[i + k]
    BY <1>1, SMTT(30)
  <2> QED
    BY <1>1, <2>1, <2>2 DEF RemoveAt
<1>3. /\ tty' \in Seq(Input) /\ Len(tty') = n - 1
      /\ \A i \in 1..(n - 1) : tty'[i] = (IF i < k THEN tty[i] ELSE tty[i + 1])
  <2>0. /\ tty' \in Seq(Input) /\ Len(tty') = (k - 1) + (n - k)
        /\ \A i \in 1..((k - 1) + (n - k)) : tty'[i] = IF i <= k - 1 THEN a[i] ELSE b[i - (k - 1)]
    <3>1. /\ a \o b \in Seq(Input) /\ Len(a \o b) = Len(a) + Len(b)
          /\ \A i \in 1..(Len(a) + Len(b)) : (a \o b)[i] = IF i <= Len(a) THEN a[i] ELSE b[i - Len(a)]
      BY ConcatProperties
    <3>2. tty' = a \o b /\ Len(a) = k - 1 /\ Len(b) = n - k
      BY <1>2
    <3> QED
      BY <3>1, <3>2
  <2>1. tty' \in Seq(Input) /\ Len(tty') = n - 1 /\ (k - 1) + (n - k) = n - 1
    BY <1>1, <2>0
  <2>2. ASSUME NEW i \in 1..(n - 1) PROVE tty'[i] = (IF i < k THEN tty[i] ELSE tty[i + 1])
    <3>1. CASE i < k
      <4>1. i <= k - 1 /\ i \in 1..(k - 1)
        BY <1>1, <3>1
      <4> QED
        BY <1>2, <2>0, <2>1, <3>1, <4>1
    <3>2. CASE ~(i < k)
      <4>0. ~(i <= k - 1) /\ i - (k - 1) \in 1..(n - k)
        BY <1>1, <3>2
      <4>1. i - (k - 1) \in 1..(n - k) /\ tty'[i] = b[i - (k - 1)]
        BY <2>0, <2>1, <4>0
      <4>2. (i - (k - 1)) + k = i + 1
        BY <1>1
      <4>3. b[i - (k - 1)] = tty[(i - (k - 1)) + k]
        BY <1>2, <4>1
      <4> QED
        BY <3>2, <4>1, <4>2, <4>3
    <3> QED
      BY <3>1, <3>2
  <2> QED
    BY <2>1, <2>2
<1>4. Unread' \subseteq Unread
  <2>1. SUFFICES ASSUME NEW x \in Unread' PROVE x \in Unread
    OBVIOUS
  <2>2. PICK i \in 1..(n - 1) : x = tty'[i]
    BY <1>3, <2>1, Zenon DEF Unread
  <2>3. i \in 1..n /\ i + 1 \in 1..n
    BY <1>1
  <2>4. x = tty[i] \/ x = tty[i + 1]
    BY <1>3, <2>2
  <2>5. PICK j \in 1..n : x = tty[j]
    BY <2>3, <2>4
  <2>6. n = Len(tty)
    BY <1>1
  <2> QED
    BY <2>5, <2>6, Zenon DEF Unread
<1>5. ASSUME NEW x, NEW y, Before(x, y)' PROVE Before(x, y)
  <2>1. PICK i, j \in 1..(n - 1) : i < j /\ tty'[i] = x /\ tty'[j] = y
    BY <1>3, <1>5 DEF Before
  <2>2. PICK p, q \in 1..n : p < q /\ tty[p] = x /\ tty[q] = y
    <3>1. CASE j < k
      <4>1. i < k /\ i \in 1..n /\ j \in 1..n
        BY <1>1, <2>1, <3>1
      <4>2. tty[i] = x /\ tty[j] = y
        BY <1>3, <2>1, <3>1, <4>1
      <4> QED
        BY <2>1, <4>1, <4>2
    <3>2. CASE i < k /\ ~(j < k)
      <4>1. tty[i] = x /\ tty[j + 1] = y /\ i < j + 1 /\ i \in 1..n /\ j + 1 \in 1..n
        BY <1>1, <1>3, <2>1, <3>2
      <4> QED
        BY <4>1
    <3>3. CASE ~(i < k)
      <4>1. tty[i + 1] = x /\ tty[j + 1] = y /\ i + 1 < j + 1 /\ i + 1 \in 1..n /\ j + 1 \in 1..n
        BY <1>1, <1>3, <2>1, <3>3
      <4> QED
        BY <4>1
    <3> QED
      BY <1>1, <2>1, <3>1, <3>2, <3>3
  <2> QED
    BY <1>1, <2>2 DEF Before
<1> QED
  BY <1>3, <1>4, <1>5

LEMMA TakeFacts ==
  ASSUME out \in Seq(Frame), out # <<>>, out' = Tail(out)
  PROVE  out' \in Seq(Frame) /\ Head(out) \in Shown /\ Head(out) \in Frame /\ Shown' \subseteq Shown
<1>1. PICK n \in Nat : n = Len(out) /\ n > 0
  OBVIOUS
<1>2. /\ out' \in Seq(Frame) /\ Len(out') = n - 1 /\ Head(out) = out[1] /\ Head(out) \in Frame
      /\ \A i \in 1..(n - 1) : out'[i] = out[i + 1] /\ i + 1 \in 1..n
  BY <1>1
<1> QED
  BY <1>1, <1>2 DEF Shown

LEMMA EmitFacts ==
  ASSUME out \in Seq(Frame), NEW f \in Frame, Emit(<<f>>)
  PROVE  out' \in Seq(Frame) /\ Shown' \subseteq Shown \union {f}
<1>1. CASE Running
  <2>1. PICK n \in Nat : n = Len(out)
    OBVIOUS
  <2>2. /\ out' \in Seq(Frame) /\ Len(out') = n + 1 /\ out'[n + 1] = f
        /\ \A i \in 1..n : out'[i] = out[i]
    BY <1>1, <2>1 DEF Emit
  <2>3. \A i \in 1..(n + 1) : i \in 1..n \/ i = n + 1
    OBVIOUS
  <2> QED
    BY <2>1, <2>2, <2>3 DEF Shown
<1>2. CASE ~Running
  BY <1>2 DEF Emit, Shown
<1> QED
  BY <1>1, <1>2

LEMMA SilentFacts ==
  ASSUME out \in Seq(Frame), Emit(<<>>)
  PROVE  out' \in Seq(Frame) /\ Shown' = Shown
<1>1. out' = out
  BY DEF Emit
<1> QED
  BY <1>1 DEF Shown

-----------------------------------------------------------------------------
(* The invariant holds at first *)

LEMMA SessionInitially == Init => SessionInv
<1> SUFFICES ASSUME Init PROVE SessionInv
  OBVIOUS
<1>1. root \in BOOLEAN /\ sudo \in BOOLEAN /\ parsing \in BOOLEAN
  BY Zenon DEF Init
<1>2. tty = <<>> /\ out = <<>> /\ tty \in Seq(Input) /\ out \in Seq(Frame)
  BY DEF Init
<1>3. TypeOK
  BY <1>1, <1>2, BoundsAssumption DEF Init, TypeOK, SessionState, WorkerPc, Job, Answer, Tokens, RAW
<1>4. Unread = {} /\ Shown = {} /\ \A x, y : ~Before(x, y)
  BY <1>2 DEF Unread, Shown, Before
<1>5. PcState /\ NothingYet
  BY <1>4 DEF Init, PcState, NothingYet, RestingStates
<1>6. TokensKnown /\ LastToRun /\ EndMeansQuiet /\ EndMeansVerified
  BY <1>4, BoundsAssumption DEF Init, TokensKnown, Known, LastToRun, EndMeansQuiet, EndMeansVerified, Framed, Tokens
<1>7. PromptWaits /\ SecretFirst /\ TypedOnce /\ Honest
  BY <1>4, BoundsAssumption DEF Init, PromptWaits, SecretFirst, TypedOnce, Honest, Tokens
<1> QED
  BY <1>3, <1>5, <1>6, <1>7 DEF SessionInv, TerminalInv

-----------------------------------------------------------------------------
(* The session state follows the requests *)

LEMMA RequestPc == ASSUME TypeOK, PcState, NothingYet, Request PROVE PcState'
<1> USE DEF PcState, RestingStates, transition, Running, BeginClose, StartCommand
<1>1. CASE Open
  BY <1>1 DEF Open, NothingYet
<1>2. CASE RelayStartFails
  BY <1>2 DEF RelayStartFails
<1>3. CASE Execute
  BY <1>3, BoundsAssumption DEF Execute, TypeOK
<1>4. CASE RawStart
  BY <1>4 DEF RawStart
<1>5. CASE RawWrite
  BY <1>5 DEF RawWrite
<1>6. CASE RawRead
  BY <1>6 DEF RawRead, opVars
<1>7. CASE RawClose
  BY <1>7, BoundsAssumption DEF RawClose, TypeOK
<1>8. CASE Close
  BY <1>8 DEF Close
<1> QED
  BY <1>1, <1>2, <1>3, <1>4, <1>5, <1>6, <1>7, <1>8 DEF Request

LEMMA WorkerPcStep == ASSUME TypeOK, PcState, WorkerStep PROVE PcState'
<1> USE DEF PcState, RestingStates, transition, Running, Raise, terminate, InternalError, MarkBroken
<1>1. CASE OpenStep
  <2>1. CASE OpenFails
    BY SMTT(30), <2>1, BoundsAssumption DEF OpenFails, TypeOK
  <2>2. CASE SeePrompt
    BY SMTT(30), <2>2, BoundsAssumption DEF SeePrompt, TypeOK
  <2>3. CASE BootstrapCompletes
    BY SMTT(30), <2>3, BoundsAssumption DEF BootstrapCompletes, TypeOK
  <2> QED
    BY <1>1, <2>1, <2>2, <2>3 DEF OpenStep
<1>2. CASE Verify
  BY <1>2, BoundsAssumption DEF Verify, StartCommand, TypeOK
<1>3. CASE WriteCommand \/ SeeBegin \/ SeeOther
  BY <1>3 DEF WriteCommand, SeeBegin, SeeOther, opVars
<1>4. CASE CommandCompletes \/ CommandTimesOut \/ Recovers \/ LoseExecuting
  BY <1>4 DEF CommandCompletes, CommandTimesOut, Recovers, LoseExecuting
<1>5. CASE BeginAuthentication
  BY <1>5, BoundsAssumption DEF BeginAuthentication, NextSudoPrompt, TypeOK
<1>6. CASE InterruptRepeatedPrompt
  BY <1>6 DEF InterruptRepeatedPrompt, NextSudoPrompt
<1>7. CASE FinishAuthentication
  BY <1>7, BoundsAssumption DEF FinishAuthentication, TypeOK
<1>8. CASE AuthenticationFails \/ SubmitFails
  BY <1>8 DEF AuthenticationFails, SubmitFails
<1>9. CASE RawStep
  BY <1>9 DEF RawStep, RawStartWrite, RawCloseCompletes, RawCloseFails
<1>10. CASE CloseAfterFailure \/ EndClose
  BY <1>10 DEF CloseAfterFailure, BeginClose, EndClose
<1> QED
  BY <1>1, <1>2, <1>3, <1>4, <1>5, <1>6, <1>7, <1>8, <1>9, <1>10 DEF WorkerStep, ExecuteStep, AuthStep

\* The remote side does not touch the worker's variables.
LEMMA RemoteKeeps ==
  ASSUME Remote
  PROVE  UNCHANGED <<state, authReturn, root, wpc, job, tok, sudo, gate, parsing, answer, typed, raws>>
BY DEF Remote, RemoteLogin, RemoteReads, RemoteConsumes, RemoteInterrupt, RemoteAsks, RemoteCompletes,
       TerminalDies, opVars

\* The worker does not touch the remote side's.
LEMMA WorkerKeeps ==
  ASSUME Request \/ WorkerStep
  PROVE  UNCHANGED <<rtok, asking, shell, verified, prompts>>
<1>1. CASE Request
  BY <1>1 DEF Request, Open, RelayStartFails, Execute, StartCommand, RawStart, RawWrite, RawRead, RawClose, Close,
              BeginClose, remoteVars
<1>2. CASE OpenStep
  BY <1>2 DEF OpenStep, OpenFails, SeePrompt, BootstrapCompletes, remoteVars
<1>3. CASE ExecuteStep
  BY <1>3 DEF ExecuteStep, Verify, StartCommand, WriteCommand, SeeBegin, SeeOther, CommandCompletes,
              CommandTimesOut, Recovers, LoseExecuting, remoteVars
<1>4. CASE AuthStep
  BY <1>4 DEF AuthStep, BeginAuthentication, InterruptRepeatedPrompt, FinishAuthentication,
              AuthenticationFails, SubmitFails, remoteVars
<1>5. CASE RawStep \/ CloseAfterFailure \/ EndClose
  BY <1>5 DEF RawStep, RawStartWrite, RawCloseCompletes, RawCloseFails, CloseAfterFailure, BeginClose, EndClose,
              remoteVars
<1> QED
  BY <1>1, <1>2, <1>3, <1>4, <1>5 DEF WorkerStep

LEMMA PcStateStep == ASSUME TypeOK, PcState, NothingYet, Next PROVE PcState'
<1>1. CASE Remote
  BY <1>1, RemoteKeeps DEF PcState
<1> QED
  BY <1>1, RequestPc, WorkerPcStep DEF Next

-----------------------------------------------------------------------------
(* Types *)

\* A request or a step of one leaves the output alone or takes its first frame.
LEMMA WorkerOutput ==
  ASSUME TypeOK, Request \/ WorkerStep
  PROVE  out' \in Seq(Frame) /\ Shown' \subseteq Shown
<1>1. out' = out \/ (out # <<>> /\ out' = Tail(out))
  <2>1. CASE Request
    BY <2>1 DEF Request, Open, RelayStartFails, Execute, StartCommand, RawStart, RawWrite, RawRead, RawClose, Close,
                BeginClose
  <2>2. CASE OpenStep
    BY <2>2 DEF OpenStep, OpenFails, SeePrompt, BootstrapCompletes, NextFrame
  <2>3. CASE ExecuteStep
    BY <2>3 DEF ExecuteStep, Verify, StartCommand, WriteCommand, SeeBegin, SeeOther, CommandCompletes,
                CommandTimesOut, Recovers, LoseExecuting, NextFrame
  <2>4. CASE AuthStep
    BY <2>4 DEF AuthStep, BeginAuthentication, InterruptRepeatedPrompt, FinishAuthentication,
                AuthenticationFails, SubmitFails, NextSudoPrompt, NextFrame
  <2>5. CASE RawStep \/ CloseAfterFailure \/ EndClose
    BY <2>5 DEF RawStep, RawStartWrite, RawCloseCompletes, RawCloseFails, CloseAfterFailure, BeginClose, EndClose,
                NextFrame
  <2> QED
    BY <2>1, <2>2, <2>3, <2>4, <2>5 DEF WorkerStep
<1>2. CASE out' = out
  BY <1>2 DEF TypeOK, Shown
<1>3. CASE out # <<>> /\ out' = Tail(out)
  BY <1>3, TakeFacts DEF TypeOK
<1> QED
  BY <1>1, <1>2, <1>3

LEMMA FlagsStep ==
  ASSUME TypeOK, Next
  PROVE  root' \in BOOLEAN /\ sudo' \in BOOLEAN /\ parsing' \in BOOLEAN
<1> USE Zenon
<1>0. root \in BOOLEAN /\ sudo \in BOOLEAN /\ parsing \in BOOLEAN
  BY DEF TypeOK
<1>1. ASSUME NEW which, NEW allow \in {FALSE, ~root}, StartCommand(which, allow)
      PROVE  root' \in BOOLEAN /\ sudo' \in BOOLEAN /\ parsing' \in BOOLEAN
  BY <1>0, <1>1 DEF StartCommand
<1>2. CASE Execute
  BY <1>1, <1>2 DEF Execute
<1>2v. CASE Verify
  BY <1>1, <1>2v DEF Verify
<1>3. CASE Open
  BY <1>0, <1>3 DEF Open
<1>4. CASE SeePrompt \/ RawClose
  BY <1>0, <1>4 DEF SeePrompt, RawClose
<1>5. CASE SeeBegin
  BY <1>0, <1>5 DEF SeeBegin
<1>6. CASE Remote
  BY <1>0, <1>6, RemoteKeeps
<1>7. CASE \/ RelayStartFails \/ RawStart \/ RawWrite \/ RawRead \/ Close \/ OpenFails \/ BootstrapCompletes
  BY <1>0, <1>7 DEF RelayStartFails, RawStart, RawWrite, RawRead, Close, BeginClose, OpenFails,
                    BootstrapCompletes, opVars
<1>8. CASE \/ WriteCommand \/ SeeOther \/ CommandCompletes \/ CommandTimesOut \/ Recovers \/ LoseExecuting
  BY <1>0, <1>8 DEF WriteCommand, SeeOther, CommandCompletes, CommandTimesOut, Recovers, LoseExecuting, opVars
<1>9. CASE AuthStep
  BY <1>0, <1>9 DEF AuthStep, BeginAuthentication, InterruptRepeatedPrompt, FinishAuthentication,
                    AuthenticationFails, SubmitFails
<1>10. CASE RawStep \/ CloseAfterFailure \/ EndClose
  BY <1>0, <1>10 DEF RawStep, RawStartWrite, RawCloseCompletes, RawCloseFails, CloseAfterFailure, BeginClose,
                     EndClose
<1> QED
  BY <1>2, <1>2v, <1>3, <1>4, <1>5, <1>6, <1>7, <1>8, <1>9, <1>10 DEF Next, Request, WorkerStep, OpenStep, ExecuteStep

\* What a request or a step of one types is terminal input.
LEMMA InputTypes ==
  ASSUME TypeOK
  PROVE  /\ \A k \in {"command", "recovery", "raw", "vintr", "secret"} :
              Type(k, tok) \in Input /\ Type(k, RAW) \in Input
         /\ tok < MaxTokens => Type("command", tok + 1) \in Input
         /\ RAW \in Nat /\ tok \in Nat /\ tok < RAW
BY BoundsAssumption DEF TypeOK, Type, Input, RAW

LEMMA WorkerInput ==
  ASSUME TypeOK, Request \/ WorkerStep
  PROVE  tty' \in Seq(Input)
<1>0. tty \in Seq(Input)
  BY DEF TypeOK
<1>1. CASE Request
  <2>1. CASE RawWrite
    BY SMTT(30), <1>0, <2>1, InputTypes DEF RawWrite
  <2>2. CASE RawClose
    BY <1>0, <2>2, InputTypes, WriteTwoFacts DEF RawClose
  <2>3. CASE Open \/ RelayStartFails \/ Execute \/ RawStart \/ RawRead \/ Close
    BY <1>0, <2>3 DEF Open, RelayStartFails, Execute, StartCommand, RawStart, RawRead, Close, BeginClose
  <2> QED
    BY <1>1, <2>1, <2>2, <2>3 DEF Request
<1>2. CASE OpenStep
  <2>1. CASE OpenFails
    BY SMTT(30), <1>0, <2>1 DEF OpenFails
  <2>2. CASE SeePrompt
    BY SMTT(30), <1>0, <2>2, InputTypes DEF SeePrompt
  <2>3. CASE BootstrapCompletes
    BY SMTT(30), <1>0, <2>3, InputTypes DEF BootstrapCompletes
  <2> QED
    BY <1>2, <2>1, <2>2, <2>3 DEF OpenStep
<1>3. CASE ExecuteStep
  <2>1. CASE CommandTimesOut
    BY <1>0, <2>1, InputTypes, WriteTwoFacts DEF CommandTimesOut
  <2>2. CASE WriteCommand
    BY <1>0, <2>2, InputTypes DEF WriteCommand
  <2>3. CASE Verify \/ SeeBegin \/ SeeOther \/ CommandCompletes \/ Recovers \/ LoseExecuting
    BY <1>0, <2>3 DEF Verify, StartCommand, SeeBegin, SeeOther, CommandCompletes, Recovers, LoseExecuting
  <2> QED
    BY <1>3, <2>1, <2>2, <2>3 DEF ExecuteStep
<1>4. CASE AuthStep
  BY <1>0, <1>4, InputTypes DEF AuthStep, BeginAuthentication, InterruptRepeatedPrompt, FinishAuthentication,
                                AuthenticationFails, SubmitFails
<1>5. CASE RawStep \/ CloseAfterFailure \/ EndClose
  BY <1>0, <1>5, InputTypes DEF RawStep, RawStartWrite, RawCloseCompletes, RawCloseFails, CloseAfterFailure,
                                BeginClose, EndClose
<1> QED
  BY <1>1, <1>2, <1>3, <1>4, <1>5 DEF WorkerStep

LEMMA WorkerTypes == ASSUME TypeOK, PcState, Request \/ WorkerStep PROVE TypeOK'
<1>0. /\ tty' \in Seq(Input) /\ out' \in Seq(Frame) /\ root' \in BOOLEAN /\ sudo' \in BOOLEAN /\ parsing' \in BOOLEAN
      /\ rtok' = rtok /\ asking' = asking /\ shell' = shell /\ verified' = verified /\ prompts' = prompts
  BY WorkerInput, WorkerOutput, FlagsStep, WorkerKeeps DEF Next
<1>1. /\ MaxTokens \in Nat /\ MaxRaw \in Nat
      /\ state \in SessionState /\ authReturn \in {"none", "starting", "executing"}
      /\ wpc \in WorkerPc /\ job \in Job /\ tok \in 0..MaxTokens
      /\ gate \in {"unused", "used", "interrupted"} /\ answer \in [Tokens -> Answer]
      /\ typed \in [0..MaxTokens -> Nat]
      /\ term \in {"none", "running", "dead", "terminated", "closed"} /\ raws \in 0..MaxRaw
      /\ (wpc \in {"bootstrap", "write", "command", "recovery", "raw_close"} => tok \in Tokens)
      /\ (wpc = "auth" /\ authReturn # "starting" => tok \in Tokens)
  BY BoundsAssumption DEF TypeOK, PcState, Tokens
<1> DEFINE Typed2 == /\ state' \in SessionState /\ authReturn' \in {"none", "starting", "executing"}
                     /\ wpc' \in WorkerPc /\ job' \in Job /\ tok' \in 0..MaxTokens
                     /\ gate' \in {"unused", "used", "interrupted"} /\ answer' \in [Tokens -> Answer]
                     /\ typed' \in [0..MaxTokens -> Nat]
                     /\ term' \in {"none", "running", "dead", "terminated", "closed"} /\ raws' \in 0..MaxRaw
<1>1p. /\ (tok < MaxTokens => tok + 1 \in 0..MaxTokens) /\ (raws < MaxRaw => raws + 1 \in 0..MaxRaw)
       /\ 0 \in 0..MaxTokens
  BY <1>1
<1>2. Typed2
  <2> USE DEF SessionState, WorkerPc, Job, Answer, transition, terminate, Answered, Raise, Running
  <2>1. CASE Open \/ RelayStartFails \/ RawStart \/ RawWrite \/ RawRead \/ RawClose \/ Close
    BY ZenonT(40), <1>1, <1>1p, <2>1 DEF Open, RelayStartFails, RawStart, RawWrite, RawRead, RawClose, Close, BeginClose, opVars
  <2>2. CASE Execute \/ Verify
    BY <1>1, <1>1p, <2>2 DEF Execute, Verify, StartCommand
  <2>3. CASE OpenStep
    BY SMTT(30), <1>1, <2>3 DEF OpenStep, OpenFails, SeePrompt, BootstrapCompletes
  <2>4. CASE SeeBegin \/ SeeOther \/ CommandTimesOut
    BY <1>1, <2>4 DEF SeeBegin, SeeOther, CommandTimesOut, opVars
  <2>5. CASE WriteCommand \/ CommandCompletes \/ Recovers \/ LoseExecuting
    <3>1. /\ UNCHANGED <<authReturn, job, tok, gate, typed, raws>>
          /\ state' \in {state, "lost", "failed", "ready"} /\ wpc' \in {"command", "failing", "idle"}
          /\ term' \in {term, "terminated"} /\ tok \in Tokens
          /\ answer' = answer \/ \E a \in Answer : answer' = [answer EXCEPT ![tok] = a]
      BY <1>1, <2>5 DEF WriteCommand, InternalError, MarkBroken, CommandCompletes, Recovers, LoseExecuting
    <3>2. answer' \in [Tokens -> Answer]
      BY <1>1, <3>1
    <3> QED
      BY <1>1, <3>1, <3>2
  <2>6. CASE BeginAuthentication
    BY <1>1, <2>6 DEF BeginAuthentication, NextSudoPrompt, PcState
  <2>7. CASE InterruptRepeatedPrompt
    BY <1>1, <2>7 DEF InterruptRepeatedPrompt, NextSudoPrompt, InternalError, MarkBroken
  <2>8. CASE FinishAuthentication
    BY SMTT(30), <1>1, <2>8 DEF FinishAuthentication, PcState
  <2>9. CASE AuthenticationFails \/ SubmitFails
    BY <1>1, <2>9 DEF AuthenticationFails, SubmitFails
  <2>10. CASE RawStep
    <3>1. CASE RawStartWrite
      BY <1>1, <1>1p, <3>1 DEF RawStartWrite, MarkBroken, PcState
    <3>2. CASE RawCloseCompletes
      BY <1>1, <3>2 DEF RawCloseCompletes
    <3>3. CASE RawCloseFails
      BY <1>1, <3>3 DEF RawCloseFails
    <3> QED
      BY <2>10, <3>1, <3>2, <3>3 DEF RawStep
  <2>11. CASE CloseAfterFailure \/ EndClose
    BY <1>1, <2>11 DEF CloseAfterFailure, BeginClose, EndClose
  <2> QED
    BY <2>1, <2>2, <2>3, <2>4, <2>5, <2>6, <2>7, <2>8, <2>9, <2>10, <2>11 DEF Request, WorkerStep, ExecuteStep, AuthStep
<1> QED
  BY <1>0, <1>2 DEF TypeOK

\* The frames of the remote side.
LEMMA FrameTypes ==
  ASSUME TypeOK, NEW k \in {"prompt", "sudo", "begin", "end", "bad"}, NEW t \in 0..RAW
  PROVE  Type(k, t) \in Frame
BY DEF Type, Frame

\* What each step of the remote side does to the terminal, as sets.
LEMMA LoginFacts ==
  ASSUME TypeOK, RemoteLogin
  PROVE  /\ UNCHANGED <<tty, term, rtok, verified>> /\ Running /\ shell = "absent" /\ asking = "none"
         /\ out' \in Seq(Frame)
         /\ \/ shell' = "ok" /\ asking' = asking /\ prompts' = prompts /\ Shown' \subseteq Shown \union {Type("prompt", 0)}
            \/ /\ shell' = shell /\ asking' = "bound" /\ prompts' = prompts + 1 /\ prompts < MaxPrompts
               /\ Shown' \subseteq Shown \union {Type("sudo", 0)}
<1>1. 0 \in 0..RAW /\ out \in Seq(Frame)
  BY InputTypes DEF TypeOK
<1>2. ASSUME NEW k \in {"prompt", "sudo"}, Emit(<<Type(k, 0)>>)
      PROVE  out' \in Seq(Frame) /\ Shown' \subseteq Shown \union {Type(k, 0)}
  BY <1>1, <1>2, FrameTypes, EmitFacts
<1> QED
  BY <1>2 DEF RemoteLogin

LEMMA ReadsFacts ==
  ASSUME TypeOK, RemoteReads
  PROVE  /\ UNCHANGED <<term, asking, shell, verified, prompts>> /\ shell # "absent" /\ rtok = 0
         /\ tty' \in Seq(Input) /\ out' \in Seq(Frame) /\ Unread' \subseteq Unread
         /\ \A x, y : Before(x, y)' => Before(x, y)
         /\ \E i \in Unread : /\ i \in Input /\ i.kind # "vintr" /\ \A x \in Unread' : Before(i, x)
                              /\ rtok' = (IF i.kind \in {"command", "raw"} THEN i.t ELSE 0)
                              /\ \/ i.kind = "command" /\ Shown' \subseteq Shown \union {Type("begin", i.t)}
                                 \/ i.kind = "recovery" /\ shell = "ok" /\ Shown' \subseteq Shown \union {Type("end", i.t)}
                                 \/ Shown' = Shown
<1>1. PICK i : i = Head(tty)
  OBVIOUS
<1>2. /\ tty \in Seq(Input) /\ tty # <<>> /\ tty' = Tail(tty) /\ i.kind # "vintr"
      /\ UNCHANGED <<term, asking, shell, verified, prompts>> /\ shell # "absent" /\ rtok = 0
      /\ rtok' = (IF i.kind \in {"command", "raw"} THEN i.t ELSE 0)
  BY <1>1 DEF RemoteReads, TypeOK
<1>3. /\ tty' \in Seq(Input) /\ i \in Unread /\ i \in Input /\ Unread' \subseteq Unread
      /\ \A x \in Unread' : Before(i, x)
      /\ \A x, y : Before(x, y)' => Before(x, y)
  BY <1>1, <1>2, ReadFacts
<1>4. i.t \in 0..RAW /\ out \in Seq(Frame)
  BY <1>3 DEF Input, TypeOK
<1>5. \/ i.kind = "command" /\ Emit(<<Type("begin", i.t)>>)
      \/ i.kind = "recovery" /\ shell = "ok" /\ Emit(<<Type("end", i.t)>>)
      \/ Emit(<<>>)
  BY <1>1 DEF RemoteReads
<1>6. ASSUME NEW k \in {"begin", "end"}, Emit(<<Type(k, i.t)>>)
      PROVE  out' \in Seq(Frame) /\ Shown' \subseteq Shown \union {Type(k, i.t)}
  BY <1>4, <1>6, FrameTypes, EmitFacts
<1>7. Emit(<<>>) => out' \in Seq(Frame) /\ Shown' = Shown
  BY <1>4, SilentFacts
<1> QED
  BY <1>2, <1>3, <1>5, <1>6, <1>7

LEMMA ConsumesFacts ==
  ASSUME TypeOK, RemoteConsumes
  PROVE  /\ UNCHANGED <<term, rtok, shell, verified, prompts>> /\ asking' = "none" /\ (rtok # 0 \/ asking # "none")
         /\ tty' \in Seq(Input) /\ out' \in Seq(Frame) /\ Unread' \subseteq Unread
         /\ \A x, y : Before(x, y)' => Before(x, y)
         /\ \E i \in Unread : /\ i \in Input /\ \A x \in Unread' : Before(i, x)
                              /\ Shown' \subseteq Shown \union {Type("begin", i.t)}
<1>1. PICK i : i = Head(tty)
  OBVIOUS
<1>2. /\ tty \in Seq(Input) /\ tty # <<>> /\ tty' = Tail(tty) /\ (rtok # 0 \/ asking # "none")
      /\ UNCHANGED <<term, rtok, shell, verified, prompts>> /\ asking' = "none"
  BY <1>1 DEF RemoteConsumes, TypeOK
<1>3. /\ tty' \in Seq(Input) /\ i \in Unread /\ i \in Input /\ Unread' \subseteq Unread
      /\ \A x \in Unread' : Before(i, x)
      /\ \A x, y : Before(x, y)' => Before(x, y)
  BY <1>1, <1>2, ReadFacts
<1>4. i.t \in 0..RAW /\ out \in Seq(Frame)
  BY <1>3 DEF Input, TypeOK
<1>5. out' = out \/ Emit(<<Type("begin", i.t)>>)
  BY <1>1 DEF RemoteConsumes
<1>6. out' \in Seq(Frame) /\ Shown' \subseteq Shown \union {Type("begin", i.t)}
  <2>1. CASE out' = out
    BY <1>4, <2>1 DEF Shown
  <2>2. CASE Emit(<<Type("begin", i.t)>>)
    BY <1>4, <2>2, FrameTypes, EmitFacts
  <2> QED
    BY <1>5, <2>1, <2>2
<1> QED
  BY <1>2, <1>3, <1>6

LEMMA InterruptFacts ==
  ASSUME TypeOK, RemoteInterrupt
  PROVE  /\ UNCHANGED <<term, out, shell, verified, prompts>>
         /\ tty' \in Seq(Input) /\ Unread' \subseteq Unread /\ Unread # {} /\ Shown' = Shown
         /\ \A x, y : Before(x, y)' => Before(x, y)
         /\ \/ rtok' = 0 /\ asking' = "none" /\ \E v : \A x \in Unread' : Before(v, x)
            \/ (rtok # 0 \/ asking # "none") /\ UNCHANGED <<rtok, asking>>
<1>1. PICK i \in 1..Len(tty) :
        /\ \/ /\ tty' = SubSeq(tty, i + 1, Len(tty))
              /\ \/ rtok' = 0 /\ asking' = "none"
                 \/ rtok # 0 /\ UNCHANGED <<rtok, asking>>
           \/ /\ rtok # 0 \/ asking # "none"
              /\ tty' = RemoveAt(tty, i)
              /\ UNCHANGED <<rtok, asking>>
        /\ UNCHANGED <<term, out, shell, verified, prompts>>
  BY DEF RemoteInterrupt
<1>2. Unread # {} /\ Shown' = Shown /\ tty \in Seq(Input)
  BY <1>1 DEF Unread, Shown, TypeOK
<1>3. CASE tty' = SubSeq(tty, i + 1, Len(tty)) /\ ((rtok' = 0 /\ asking' = "none") \/ (rtok # 0 /\ UNCHANGED <<rtok, asking>>))
  <2>1. /\ tty' \in Seq(Input) /\ Unread' \subseteq Unread
        /\ \A x \in Unread' : Before(tty[i], x)
        /\ \A x, y : Before(x, y)' => Before(x, y)
    BY <1>2, <1>3, FlushFacts
  <2> QED
    BY <1>1, <1>2, <1>3, <2>1
<1>4. CASE tty' = RemoveAt(tty, i) /\ (rtok # 0 \/ asking # "none") /\ UNCHANGED <<rtok, asking>>
  <2>1. tty' \in Seq(Input) /\ Unread' \subseteq Unread /\ \A x, y : Before(x, y)' => Before(x, y)
    BY <1>2, <1>4, RemoveFacts
  <2> QED
    BY <1>1, <1>2, <1>4, <2>1
<1> QED
  BY <1>1, <1>3, <1>4

LEMMA AsksFacts ==
  ASSUME TypeOK, RemoteAsks
  PROVE  /\ UNCHANGED <<tty, term, rtok, shell, verified>> /\ rtok \in Tokens /\ asking = "none"
         /\ prompts' = prompts + 1 /\ prompts < MaxPrompts /\ out' \in Seq(Frame)
         /\ \/ asking' = "bound" /\ Shown' \subseteq Shown \union {Type("sudo", rtok)}
            \/ asking' = "foreign" /\ Shown' \subseteq Shown \union {Type("sudo", RAW)}
<1>1. rtok \in 0..RAW /\ RAW \in 0..RAW /\ out \in Seq(Frame)
  BY InputTypes DEF TypeOK
<1>2. ASSUME NEW t \in 0..RAW, Emit(<<Type("sudo", t)>>)
      PROVE  out' \in Seq(Frame) /\ Shown' \subseteq Shown \union {Type("sudo", t)}
  BY <1>1, <1>2, FrameTypes, EmitFacts
<1> QED
  BY <1>1, <1>2 DEF RemoteAsks

LEMMA CompletesFacts ==
  ASSUME TypeOK, RemoteCompletes
  PROVE  /\ UNCHANGED <<tty, term, asking, prompts>> /\ rtok # 0 /\ asking = "none" /\ rtok' = 0 /\ out' \in Seq(Frame)
         /\ \/ /\ shell = "ok" /\ shell' = shell /\ verified' = verified \union {rtok}
               /\ Shown' \subseteq Shown \union (IF rtok = RAW THEN {} ELSE {Type("end", rtok)})
            \/ /\ shell' = "broken" /\ verified' = verified /\ Shown' \subseteq Shown \union {Type("bad", rtok)}
<1>1. rtok \in 0..RAW /\ out \in Seq(Frame)
  BY DEF TypeOK
<1>2. ASSUME NEW k \in {"end", "bad"}, Emit(<<Type(k, rtok)>>)
      PROVE  out' \in Seq(Frame) /\ Shown' \subseteq Shown \union {Type(k, rtok)}
  BY <1>1, <1>2, FrameTypes, EmitFacts
<1>3. Emit(<<>>) => out' \in Seq(Frame) /\ Shown' = Shown
  BY <1>1, SilentFacts
<1> QED
  BY <1>2, <1>3 DEF RemoteCompletes

LEMMA RemoteTypes == ASSUME TypeOK, Remote PROVE TypeOK'
<1>0. UNCHANGED <<state, authReturn, root, wpc, job, tok, sudo, gate, parsing, answer, typed, raws>>
  BY RemoteKeeps
<1> DEFINE Remote2 == /\ term' \in {"none", "running", "dead", "terminated", "closed"}
                      /\ tty' \in Seq(Input) /\ out' \in Seq(Frame) /\ rtok' \in 0..RAW
                      /\ asking' \in {"none", "bound", "foreign"} /\ shell' \in {"absent", "ok", "broken"}
                      /\ verified' \subseteq 0..RAW /\ prompts' \in 0..MaxPrompts
<1>1. /\ term \in {"none", "running", "dead", "terminated", "closed"}
      /\ tty \in Seq(Input) /\ out \in Seq(Frame) /\ rtok \in 0..RAW
      /\ asking \in {"none", "bound", "foreign"} /\ shell \in {"absent", "ok", "broken"}
      /\ verified \subseteq 0..RAW /\ prompts \in 0..MaxPrompts /\ MaxPrompts \in Nat /\ 0 \in 0..RAW
  BY InputTypes, BoundsAssumption DEF TypeOK
<1>1p. prompts < MaxPrompts => prompts + 1 \in 0..MaxPrompts
  BY <1>1
<1>2. Remote2
  <2>1. CASE RemoteLogin
    <3>1. /\ UNCHANGED <<tty, term, rtok, verified>> /\ out' \in Seq(Frame) /\ shell' \in {shell, "ok"}
          /\ asking' \in {asking, "bound"} /\ (prompts' = prompts \/ (prompts' = prompts + 1 /\ prompts < MaxPrompts))
      BY <2>1, LoginFacts
    <3> QED
      BY <1>1, <1>1p, <3>1
  <2>2. CASE RemoteReads
    <3>1. \E i \in Input : rtok' = IF i.kind \in {"command", "raw"} THEN i.t ELSE 0
      BY <2>2, ReadsFacts
    <3>2. rtok' \in 0..RAW
      BY <1>1, <3>1 DEF Input
    <3>3. /\ tty' \in Seq(Input) /\ out' \in Seq(Frame)
          /\ UNCHANGED <<term, asking, shell, verified, prompts>>
      BY <2>2, ReadsFacts
    <3> QED
      BY <1>1, <3>2, <3>3
  <2>3. CASE RemoteConsumes
    BY <1>1, <2>3, ConsumesFacts
  <2>4. CASE RemoteInterrupt
    BY <1>1, <2>4, InterruptFacts
  <2>5. CASE RemoteAsks
    <3>1. /\ UNCHANGED <<tty, term, rtok, shell, verified>> /\ out' \in Seq(Frame)
          /\ asking' \in {"foreign", "bound"} /\ prompts' = prompts + 1 /\ prompts < MaxPrompts
      BY <2>5, AsksFacts
    <3> QED
      BY <1>1, <1>1p, <3>1
  <2>6. CASE RemoteCompletes
    <3>1. /\ UNCHANGED <<tty, term, asking, prompts>> /\ rtok' = 0 /\ out' \in Seq(Frame)
          /\ shell' \in {shell, "broken"} /\ verified' \in {verified, verified \union {rtok}}
      BY <2>6, CompletesFacts
    <3> QED
      BY <1>1, <3>1
  <2>7. CASE TerminalDies
    BY <1>1, <2>7 DEF TerminalDies, remoteVars
  <2> QED
    BY <2>1, <2>2, <2>3, <2>4, <2>5, <2>6, <2>7 DEF Remote
<1> QED
  BY <1>0, <1>2 DEF TypeOK

LEMMA TypesStep == ASSUME TypeOK, PcState, Next PROVE TypeOK'
BY WorkerTypes, RemoteTypes DEF Next

-----------------------------------------------------------------------------
(* Steps of the worker that type nothing and start nothing *)

FailedWrite == wpc' = "failing" /\ (WriteCommand \/ InterruptRepeatedPrompt \/ RawStartWrite \/ RawWrite)
Plain ==
  \/ Open \/ RelayStartFails \/ RawStart \/ RawRead \/ Close \/ OpenFails \/ BootstrapCompletes
  \/ SeeBegin \/ SeeOther \/ CommandCompletes \/ Recovers \/ LoseExecuting \/ AuthenticationFails \/ SubmitFails
  \/ RawCloseCompletes \/ RawCloseFails \/ CloseAfterFailure \/ EndClose \/ FailedWrite

EndShown == wpc \in Framed /\ Type("end", tok) \in Shown

\* What such a step may do: go on waiting, or end the wait; and be ready only on an end frame.
PlainDoes ==
  /\ UNCHANGED <<tty, tok, typed>> /\ wpc' # "write"
  /\ wpc' \in Framed \union {"login"} => \/ wpc' = wpc /\ gate' = gate
                                         \/ wpc' = "login" /\ state = "created"
  /\ gate' = gate \/ (gate' = "unused" /\ state = "created")
  /\ state' = "created" => state = "created" /\ UNCHANGED <<out, term, gate>>
  /\ state' = "ready" => state = "ready" \/ EndShown

\* What such a step may answer.
PlainAnswers ==
  \/ answer' = answer
  \/ \E a : /\ answer' = [answer EXCEPT ![tok] = a] /\ tok \in Tokens
            /\ a = "completed" => EndShown /\ wpc = "command"
            /\ a = "command_timed_out" => EndShown

LEMMA NextFrameFacts ==
  ASSUME TypeOK, NEW k, NextFrame(k)
  PROVE  Type(k, tok) \in Shown
<1>1. out # <<>> /\ Head(out) = Type(k, tok) /\ out \in Seq(Frame)
  BY DEF NextFrame, TypeOK
<1>2. Head(out) = out[1] /\ 1 \in 1..Len(out)
  BY <1>1
<1> QED
  BY <1>1, <1>2 DEF Shown

LEMMA PlainFacts ==
  ASSUME TypeOK, PcState, Plain
  PROVE  PlainDoes /\ PlainAnswers
<1>0. /\ tok \in Nat /\ (wpc \in {"bootstrap", "write", "command", "recovery", "raw_close"} => tok \in Tokens)
      /\ (wpc = "auth" /\ authReturn # "starting" => tok \in Tokens)
  BY BoundsAssumption DEF TypeOK, PcState, Tokens
<1>1. NextFrame("end") /\ wpc \in Framed => EndShown
  BY NextFrameFacts DEF EndShown
<1>u. "outcome_unknown" # "completed" /\ "outcome_unknown" # "command_timed_out"
  OBVIOUS
<1> USE DEF transition, PlainDoes, PlainAnswers, PcState
<1>2. CASE Open \/ RelayStartFails \/ RawStart \/ RawRead
  BY <1>2 DEF Open, RelayStartFails, RawStart, RawRead, opVars, Framed, RestingStates
<1>3. CASE Close \/ CloseAfterFailure \/ EndClose
  BY <1>3 DEF Close, CloseAfterFailure, BeginClose, EndClose, Framed
<1>4. CASE OpenFails
  BY <1>4 DEF OpenFails, Framed
<1>5. CASE BootstrapCompletes
  BY <1>1, <1>5 DEF BootstrapCompletes, Framed
<1>6. CASE SeeBegin \/ SeeOther
  BY <1>6 DEF SeeBegin, SeeOther, opVars, Framed
<1>7. CASE CommandCompletes
  <2>1. EndShown
    BY <1>1, <1>7 DEF CommandCompletes, Framed
  <2> QED
    BY <1>0, <1>7, <2>1 DEF CommandCompletes, Answered, Framed
<1>8. CASE Recovers
  <2>1. EndShown
    BY <1>1, <1>8 DEF Recovers, Framed
  <2> QED
    BY <1>0, <1>8, <2>1 DEF Recovers, Answered, Raise, Framed
<1>9. CASE LoseExecuting
  <2>1. PlainAnswers
    BY <1>0, <1>9, <1>u DEF LoseExecuting, Answered
  <2> QED
    BY <1>9, <2>1 DEF LoseExecuting, Raise, Framed
<1>10. CASE AuthenticationFails \/ SubmitFails
  <2>1. PlainAnswers
    <3>1. CASE authReturn = "starting"
      BY <1>10, <3>1 DEF AuthenticationFails, SubmitFails
    <3>2. CASE authReturn # "starting"
      BY <1>0, <1>10, <3>2 DEF AuthenticationFails, SubmitFails
    <3> QED
      BY <3>1, <3>2
  <2> QED
    BY <1>10, <2>1 DEF AuthenticationFails, SubmitFails, Raise, Framed
<1>12. CASE RawCloseCompletes
  BY <1>1, <1>12 DEF RawCloseCompletes, Framed
<1>13. CASE RawCloseFails
  <2>1. PlainAnswers
    BY <1>0, <1>13, <1>u DEF RawCloseFails, Answered
  <2> QED
    BY <1>13, <2>1 DEF RawCloseFails, Framed
<1>14. CASE wpc' = "failing" /\ WriteCommand
  BY <1>0, <1>14 DEF WriteCommand, InternalError, MarkBroken, Answered, Framed
<1>15. CASE wpc' = "failing" /\ InterruptRepeatedPrompt
  BY <1>0, <1>15 DEF InterruptRepeatedPrompt, NextSudoPrompt, InternalError, MarkBroken, Answered, Framed
<1>16. CASE wpc' = "failing" /\ (RawStartWrite \/ RawWrite)
  BY <1>16 DEF MarkBroken, RawStartWrite, RawWrite, Framed
<1> QED
  BY <1>2, <1>3, <1>4, <1>5, <1>6, <1>7, <1>8, <1>9, <1>10, <1>12, <1>13, <1>14, <1>15, <1>16 DEF Plain, FailedWrite

LEMMA PlainStep ==
  ASSUME SessionInv, Plain
  PROVE  TerminalInv'
<1>0. /\ TypeOK /\ PcState /\ NothingYet /\ TokensKnown /\ LastToRun /\ EndMeansQuiet /\ EndMeansVerified
      /\ PromptWaits /\ SecretFirst /\ TypedOnce /\ Honest
  BY DEF SessionInv, TerminalInv
<1>1. PlainDoes /\ PlainAnswers
  BY <1>0, PlainFacts
<1>2. Request \/ WorkerStep
  BY DEF Plain, FailedWrite, Request, WorkerStep, OpenStep, ExecuteStep, AuthStep, RawStep
<1>3. UNCHANGED <<rtok, asking, shell, verified>> /\ Shown' \subseteq Shown
  BY <1>0, <1>2, WorkerKeeps, WorkerOutput
<1>4. Unread' = Unread /\ (\A x, y : Before(x, y)' <=> Before(x, y)) /\ UNCHANGED <<tok, typed>>
  BY <1>1 DEF PlainDoes, Unread, Before
<1>5. tok \in Nat /\ answer \in [Tokens -> Answer]
  BY <1>0 DEF TypeOK
<1>6. \A t \in Tokens : t > tok => answer'[t] = answer[t]
  <2>1. \A a : \A t \in Tokens : t > tok => [answer EXCEPT ![tok] = a][t] = answer[t]
    BY <1>5, BoundsAssumption DEF Tokens
  <2> QED
    BY <1>1, <2>1 DEF PlainAnswers
<1>7. NothingYet'
  <2>1. state' = "created" => Shown' = Shown
    BY <1>1 DEF PlainDoes, Shown
  <2> QED
    BY <1>0, <1>1, <1>3, <1>4, <2>1 DEF NothingYet, PlainDoes
<1>8. TokensKnown'
  BY <1>0, <1>1, <1>3, <1>4, <1>6 DEF TokensKnown, Known, PlainDoes
<1>9. LastToRun'
  BY <1>0, <1>1, <1>3, <1>4 DEF LastToRun, PlainDoes, Framed
<1>10. EndMeansQuiet'
  <2>1. Quiet => Quiet'
    BY <1>3, <1>4 DEF Quiet
  <2>2. state' = "ready" => Quiet
    BY <1>0, <1>1 DEF PlainDoes, EndMeansQuiet, EndShown
  <2>3. wpc' \in Framed /\ Type("end", tok') \in Shown' => wpc \in Framed /\ Type("end", tok) \in Shown
    BY <1>1, <1>3, <1>4 DEF PlainDoes, Framed
  <2> QED
    BY <1>0, <2>1, <2>2, <2>3 DEF EndMeansQuiet
<1>11. EndMeansVerified'
  <2>1. wpc' \in {"write", "command", "auth"} => wpc' = wpc
    BY <1>1 DEF PlainDoes, Framed
  <2> QED
    BY <1>0, <1>3, <1>4, <2>1 DEF EndMeansVerified
<1>12. PromptWaits'
  <2>1. state = "created" => Unread = {} /\ Shown = {}
    BY <1>0 DEF NothingYet
  <2>2. wpc' \in {"login", "command", "auth"} =>
          (wpc' = wpc /\ gate' = gate) \/ (wpc' = "login" /\ Unread = {} /\ Shown = {})
    BY <1>1, <2>1 DEF PlainDoes, Framed
  <2> QED
    BY <1>0, <1>3, <1>4, <2>2 DEF PromptWaits
<1>13. SecretFirst'
  BY <1>0, <1>3, <1>4 DEF SecretFirst
<1>14. TypedOnce'
  <2>1. gate' = "unused" \/ wpc' = "auth" => gate = "unused" \/ wpc = "auth"
    BY <1>0, <1>1 DEF PlainDoes, NothingYet, Framed
  <2> QED
    BY <1>0, <1>4, <2>1 DEF TypedOnce
<1>15. Honest'
  <2>1. EndShown => Quiet
    BY <1>0 DEF EndMeansQuiet, EndShown
  <2>2. ASSUME NEW t \in Tokens, answer'[t] # answer[t]
        PROVE  /\ answer'[t] = "completed" => t \in verified
               /\ answer'[t] = "command_timed_out" => Quiet
    <3>1. PICK a : /\ answer' = [answer EXCEPT ![tok] = a] /\ tok \in Tokens
                   /\ a = "completed" => EndShown /\ wpc = "command"
                   /\ a = "command_timed_out" => EndShown
      BY <1>1, <2>2 DEF PlainAnswers
    <3>2. t = tok /\ answer'[t] = a
      BY <1>5, <2>2, <3>1
    <3> QED
      BY <1>0, <2>1, <3>1, <3>2 DEF EndMeansVerified, EndShown
  <2>3. Quiet => \A t \in Tokens : rtok # t /\ Type("command", t) \notin Unread
    <3>1. \A t : Runnable(Type("command", t))
      BY DEF Runnable, Type
    <3> QED
      BY <3>1, BoundsAssumption DEF Quiet, Tokens
  <2> QED
    BY <1>0, <1>3, <1>4, <2>2, <2>3 DEF Honest
<1> QED
  BY <1>7, <1>8, <1>9, <1>10, <1>11, <1>12, <1>13, <1>14, <1>15 DEF TerminalInv

-----------------------------------------------------------------------------
(* Steps of the worker that start a command, or type *)

LEMMA FreshToken ==
  ASSUME SessionInv, tok < MaxTokens
  PROVE  /\ tok + 1 \in Tokens /\ tok \in Nat /\ tok + 1 # RAW /\ answer[tok + 1] = "none" /\ typed[tok + 1] = 0
         /\ rtok # tok + 1 /\ (\A x \in Unread : x.t # tok + 1) /\ (\A f \in Shown : f.t # tok + 1)
         /\ \A t \in Nat : Known(t) => t <= tok + 1 \/ t = RAW
         /\ \A t \in Nat : t > tok + 1 => t > tok
         /\ rtok \in Nat /\ (\A x \in Unread : x.t \in Nat) /\ (\A f \in Shown : f.t \in Nat)
<1>0. TypeOK /\ TokensKnown /\ TypedOnce
  BY DEF SessionInv, TerminalInv
<1>1. tok \in 0..MaxTokens /\ MaxTokens \in Nat /\ rtok \in Nat /\ RAW = MaxTokens + 1
  BY <1>0, InputTypes, BoundsAssumption DEF TypeOK, RAW
<1>2. tok + 1 \in Tokens /\ tok + 1 \in 0..MaxTokens /\ tok + 1 # RAW /\ tok + 1 > tok
  BY <1>1 DEF Tokens
<1>3. answer[tok + 1] = "none" /\ typed[tok + 1] = 0
  BY <1>0, <1>2 DEF TokensKnown, TypedOnce
<1>4. \A t \in Nat : Known(t) => t # tok + 1 /\ (t <= tok + 1 \/ t = RAW)
  BY <1>1, <1>2 DEF Known
<1>5. (\A x \in Unread : x.t \in Nat) /\ (\A f \in Shown : f.t \in Nat)
  <2>1. (\A x \in Unread : x \in Input) /\ (\A f \in Shown : f \in Frame)
    BY <1>0 DEF TypeOK, Unread, Shown
  <2>2. (\A x \in Input : x.t \in Nat) /\ (\A f \in Frame : f.t \in Nat)
    BY <1>1 DEF Input, Frame
  <2> QED
    BY <2>1, <2>2
<1>6. rtok # tok + 1 /\ (\A x \in Unread : x.t # tok + 1) /\ (\A f \in Shown : f.t # tok + 1)
  BY <1>0, <1>1, <1>4, <1>5 DEF TokensKnown
<1>7. \A t \in Nat : t > tok + 1 => t > tok
  BY <1>1
<1> QED
  BY <1>1, <1>2, <1>3, <1>4, <1>5, <1>6, <1>7

LEMMA TypeParts == \A k, t : Type(k, t).kind = k /\ Type(k, t).t = t
BY DEF Type

LEMMA BeforeIn == \A x, y : Before(x, y) => x \in Unread /\ y \in Unread
BY DEF Before, Unread

\* StartCommand hands out a token that nothing carries yet.
LEMMA StartStep ==
  ASSUME SessionInv, NEW which, NEW allow, StartCommand(which, allow)
  PROVE  TerminalInv'
<1>0. /\ TypeOK /\ NothingYet /\ TokensKnown /\ PromptWaits /\ SecretFirst /\ TypedOnce /\ Honest
  BY DEF SessionInv, TerminalInv
<1>1. /\ tok < MaxTokens /\ state' = "executing" /\ tok' = tok + 1 /\ gate' = "unused" /\ wpc' = "write"
      /\ UNCHANGED <<answer, typed, tty, out, rtok, asking, shell, verified>>
  BY DEF StartCommand, transition, remoteVars
<1>2. Unread' = Unread /\ Shown' = Shown /\ \A x, y : Before(x, y)' <=> Before(x, y)
  BY <1>1 DEF Unread, Shown, Before
<1>3. TokensKnown'
  <2>1. Known(rtok)' /\ (\A x \in Unread : Known(x.t)') /\ (\A f \in Shown : Known(f.t)')
    BY <1>0, <1>1, FreshToken DEF TokensKnown, Known
  <2>2. \A t \in Tokens : t > tok' => answer'[t] = "none"
    BY <1>0, <1>1, FreshToken DEF TokensKnown, Tokens
  <2> QED
    BY <1>0, <1>1, <1>2, <2>1, <2>2, FreshToken DEF TokensKnown
<1>4. EndMeansVerified'
  BY <1>1, <1>2, FreshToken, TypeParts DEF EndMeansVerified
<1>5. NothingYet' /\ LastToRun' /\ EndMeansQuiet'
  BY <1>1 DEF NothingYet, LastToRun, EndMeansQuiet, Framed
<1>6. PromptWaits' /\ SecretFirst' /\ Honest'
  <2>1. PromptWaits'
    BY <1>0, <1>1, <1>2 DEF PromptWaits
  <2>2. SecretFirst'
    BY <1>0, <1>1, <1>2 DEF SecretFirst
  <2>3. Honest'
    BY <1>0, <1>1, <1>2 DEF Honest
  <2> QED
    BY <2>1, <2>2, <2>3
<1>7. TypedOnce'
  <2>1. \A t \in 0..MaxTokens : t > tok + 1 => t > tok
    BY FreshToken, <1>1
  <2>2. typed[tok + 1] = 0
    BY FreshToken, <1>1
  <2> QED
    BY <1>0, <1>1, <2>1, <2>2 DEF TypedOnce
<1> QED
  BY <1>3, <1>4, <1>5, <1>6, <1>7 DEF TerminalInv

\* SeePrompt and RawClose hand out a token and write its command.
LEMMA FreshCommandStep ==
  ASSUME SessionInv, tok < MaxTokens, tok' = tok + 1, wpc' \in {"bootstrap", "raw_close"}, gate' = gate,
         state' \notin {"created", "ready"}, UNCHANGED <<answer, typed, rtok, asking, shell, verified>>,
         Shown' \subseteq Shown, Unread' \subseteq Unread \union {Type("vintr", RAW), Type("command", tok + 1)},
         \A x, y : Before(x, y)' => \/ Before(x, y)
                                    \/ /\ x \in Unread \union {Type("vintr", RAW)}
                                       /\ y \in {Type("vintr", RAW), Type("command", tok + 1)}
  PROVE  TerminalInv'
<1>0. /\ TypeOK /\ NothingYet /\ TokensKnown /\ PromptWaits /\ SecretFirst /\ TypedOnce /\ Honest
  BY DEF SessionInv, TerminalInv
<1>1. \A t \in Nat : Known(t) \/ t = tok + 1 \/ t = RAW => Known(t)'
  BY FreshToken DEF Known
<1>2. TokensKnown'
  <2>1. \A t \in Tokens : t > tok' => answer'[t] = "none"
    BY <1>0, FreshToken DEF TokensKnown, Tokens
  <2>2. ASSUME NEW x \in Unread' PROVE  /\ Known(x.t)' /\ (x.kind \in {"command", "recovery"} => x.t \in Tokens)
               /\ (x.kind = "raw" => x.t = RAW)
    <3>1. tok + 1 \in Nat /\ RAW \in Nat /\ tok + 1 \in Tokens
      BY <1>0, FreshToken, InputTypes
    <3>2. CASE x \in Unread
      BY <1>0, <1>1, <3>2, FreshToken DEF TokensKnown
    <3>3. CASE x = Type("vintr", RAW) \/ x = Type("command", tok + 1)
      BY <1>1, <3>1, <3>3, TypeParts
    <3> QED
      BY <3>2, <3>3
  <2>3. \A f \in Shown' : Known(f.t)' /\ (f.kind = "end" => f.t \in Tokens)
    BY <1>0, <1>1, FreshToken DEF TokensKnown
  <2>4. Known(rtok)'
    BY <1>0, <1>1, FreshToken DEF TokensKnown
  <2> QED
    BY <2>1, <2>2, <2>3, <2>4 DEF TokensKnown
<1>3. LastToRun'
  <2>1. ASSUME NEW x, NEW y, Before(x, y)' PROVE x.t # tok + 1
    BY <2>1, FreshToken, TypeParts, BeforeIn
  <2> QED
    BY <2>1, FreshToken, TypeParts DEF LastToRun
<1>4. Type("end", tok') \notin Shown'
  BY FreshToken, TypeParts
<1>5. NothingYet' /\ EndMeansQuiet' /\ EndMeansVerified'
  BY <1>4 DEF NothingYet, EndMeansQuiet, EndMeansVerified
<1>6. PromptWaits'
  BY <1>0 DEF PromptWaits
<1>7. SecretFirst'
  BY <1>0, TypeParts DEF SecretFirst
<1>8. TypedOnce'
  <2>1. \A t \in 0..MaxTokens : t > tok' => t > tok
    BY FreshToken
  <2> QED
    BY <1>0, <2>1, FreshToken DEF TypedOnce
<1>9. Honest'
  <2>1. \A t \in Tokens : Type("command", t) \in Unread' => Type("command", t) \in Unread \/ t = tok + 1
    BY TypeParts
  <2> QED
    BY <1>0, <2>1, FreshToken DEF Honest
<1> QED
  BY <1>2, <1>3, <1>5, <1>6, <1>7, <1>8, <1>9 DEF TerminalInv

LEMMA SeePromptStep == ASSUME SessionInv, SeePrompt PROVE TerminalInv'
<1>0. TypeOK /\ PcState
  BY DEF SessionInv
<1>1. /\ tok < MaxTokens /\ tok' = tok + 1 /\ wpc' = "bootstrap" /\ gate' = gate /\ state' = state /\ wpc = "login"
      /\ UNCHANGED <<answer, typed, rtok, asking, shell, verified>> /\ tty' = Append(tty, Type("command", tok + 1))
  BY DEF SeePrompt, remoteVars
<1>2. state' = "starting" /\ Shown' \subseteq Shown
  BY <1>0, <1>1, WorkerOutput DEF PcState, WorkerStep, OpenStep
<1>3. /\ Unread' = Unread \union {Type("command", tok + 1)}
      /\ \A x, y : Before(x, y)' => Before(x, y) \/ (x \in Unread /\ y = Type("command", tok + 1))
  BY <1>0, <1>1, InputTypes, WriteFacts DEF TypeOK
<1> QED
  BY <1>1, <1>2, <1>3, FreshCommandStep

LEMMA RawCloseStep == ASSUME SessionInv, RawClose PROVE TerminalInv'
<1>0. TypeOK
  BY DEF SessionInv
<1>1. /\ tok < MaxTokens /\ tok' = tok + 1 /\ wpc' = "raw_close" /\ gate' = gate /\ state' = state /\ state = "interactive"
      /\ UNCHANGED <<answer, typed, rtok, asking, shell, verified>>
      /\ tty' = tty \o <<Type("vintr", RAW), Type("command", tok + 1)>>
  BY DEF RawClose, remoteVars
<1>2. Shown' \subseteq Shown
  BY <1>0, WorkerOutput DEF Request
<1>3. /\ Unread' = Unread \union {Type("vintr", RAW), Type("command", tok + 1)}
      /\ \A x, y : Before(x, y)' => \/ Before(x, y)
                                    \/ (x \in Unread /\ y \in {Type("vintr", RAW), Type("command", tok + 1)})
                                    \/ (x = Type("vintr", RAW) /\ y = Type("command", tok + 1))
  <2>1. tty \in Seq(Input) /\ Type("vintr", RAW) \in Input /\ Type("command", tok + 1) \in Input
    BY <1>0, <1>1, InputTypes DEF TypeOK
  <2> QED
    BY ZenonT(40), <1>1, <2>1, WriteTwoFacts
<1> QED
  BY <1>1, <1>2, <1>3, FreshCommandStep

LEMMA WriteCommandStep == ASSUME SessionInv, WriteCommand, wpc' # "failing" PROVE TerminalInv'
<1>0. /\ TypeOK /\ PcState /\ TokensKnown /\ EndMeansVerified /\ PromptWaits /\ SecretFirst /\ TypedOnce /\ Honest
  BY DEF SessionInv, TerminalInv
<1>1. /\ wpc = "write" /\ tty' = Append(tty, Type("command", tok)) /\ wpc' = "command" /\ state' = state
      /\ UNCHANGED <<answer, tok, gate, typed, out, rtok, asking, shell, verified>>
  BY DEF WriteCommand, InternalError, remoteVars
<1>2. state' = "executing" /\ tok \in Tokens /\ Shown' = Shown
  BY <1>0, <1>1, BoundsAssumption DEF PcState, TypeOK, Tokens, Shown
<1>3. /\ Unread' = Unread \union {Type("command", tok)}
      /\ \A x, y : Before(x, y)' => Before(x, y) \/ (x \in Unread /\ y = Type("command", tok))
  BY <1>0, <1>1, InputTypes, WriteFacts DEF TypeOK
<1>4. /\ answer[tok] = "none" /\ rtok # tok /\ (\A x \in Unread : x.t # tok) /\ (\A f \in Shown : f.t # tok)
  BY <1>0, <1>1 DEF TokensKnown
<1>5. \A x, y : Before(x, y)' => x.t # tok
  BY <1>3, <1>4, BeforeIn
<1>6. TokensKnown'
  <2>1. \A t : Known(t)' <=> Known(t)
    BY <1>1 DEF Known
  <2>2. Known(tok)
    BY <1>0 DEF Known, TypeOK
  <2>3. ASSUME NEW x \in Unread' PROVE  /\ Known(x.t)' /\ (x.kind \in {"command", "recovery"} => x.t \in Tokens)
               /\ (x.kind = "raw" => x.t = RAW)
    BY <1>0, <1>2, <1>3, <2>1, <2>2, TypeParts DEF TokensKnown
  <2> QED
    BY <1>0, <1>1, <1>2, <2>1, <2>3 DEF TokensKnown
<1>7. LastToRun'
  BY <1>1, <1>4, <1>5, TypeParts DEF LastToRun
<1>8. EndMeansVerified' /\ EndMeansQuiet' /\ NothingYet'
  <2>1. Type("end", tok) \notin Shown'
    BY <1>2, <1>4, TypeParts
  <2>2. Type("recovery", tok) \notin Unread'
    BY <1>3, <1>4, TypeParts
  <2> QED
    BY <1>1, <1>2, <2>1, <2>2 DEF EndMeansVerified, EndMeansQuiet, NothingYet
<1>9. PromptWaits'
  <2>1. Type("sudo", tok) \notin Shown'
    BY <1>2, <1>4, TypeParts
  <2>2. \A x, y : Before(x, y)' => x # Type("command", tok)
    BY <1>5, TypeParts
  <2> QED
    BY <1>0, <1>1, <1>4, <2>1, <2>2 DEF PromptWaits
<1>10. SecretFirst'
  BY <1>0, <1>1, <1>3, TypeParts DEF SecretFirst
<1>11. TypedOnce'
  BY <1>0, <1>1 DEF TypedOnce
<1>12. Honest'
  <2>1. \A t \in Tokens : Type("command", t) \in Unread' => Type("command", t) \in Unread \/ t = tok
    BY <1>3, TypeParts
  <2> QED
    BY <1>0, <1>1, <1>4, <2>1 DEF Honest
<1> QED
  BY <1>6, <1>7, <1>8, <1>9, <1>10, <1>11, <1>12 DEF TerminalInv

\* Typing what Bash does not run disturbs no promise about what it runs.
LEMMA HarmlessStep ==
  ASSUME SessionInv, NEW Z, \A z \in Z : z.kind \in {"vintr", "recovery", "secret"} /\ Known(z.t),
         \A z \in Z : z.kind = "recovery" => z.t \in Tokens,
         Unread' = Unread \union Z,
         \A x, y : Before(x, y)' => Before(x, y) \/ y \in Z, Shown' \subseteq Shown,
         UNCHANGED <<tok, answer, rtok, asking, shell, verified>>,
         wpc' \in {"login", "command", "recovery"}, wpc' \in Framed => wpc \in Framed,
         state' \in {"starting", "executing"}
  PROVE  TokensKnown' /\ LastToRun' /\ EndMeansQuiet' /\ NothingYet' /\ Honest'
<1>0. TokensKnown /\ LastToRun /\ EndMeansQuiet /\ Honest
  BY DEF SessionInv, TerminalInv
<1>1. \A z \in Z : ~Runnable(z)
  BY DEF Runnable
<1>2. TokensKnown'
  <2>1. \A t : Known(t)' <=> Known(t)
    BY DEF Known
  <2>2. ASSUME NEW x \in Unread' PROVE  /\ Known(x.t)' /\ (x.kind \in {"command", "recovery"} => x.t \in Tokens)
               /\ (x.kind = "raw" => x.t = RAW)
    BY <1>0, <2>1 DEF TokensKnown
  <2> QED
    BY <1>0, <2>1, <2>2 DEF TokensKnown
<1>3. LastToRun'
  BY <1>0, <1>1 DEF LastToRun
<1>4. EndMeansQuiet'
  BY <1>0, <1>1 DEF EndMeansQuiet, Quiet
<1>5. NothingYet'
  BY DEF NothingYet
<1>6. Honest'
  <2>1. \A t : Type("command", t) \in Unread' => Type("command", t) \in Unread
    BY TypeParts
  <2> QED
    BY <1>0, <2>1 DEF Honest
<1> QED
  BY <1>2, <1>3, <1>4, <1>5, <1>6

LEMMA TimesOutStep == ASSUME SessionInv, CommandTimesOut PROVE TerminalInv'
<1>0. /\ TypeOK /\ PcState /\ PromptWaits /\ SecretFirst /\ TypedOnce
  BY DEF SessionInv, TerminalInv
<1>1. /\ wpc = "command" /\ tty' = tty \o <<Type("vintr", tok), Type("recovery", tok)>> /\ wpc' = "recovery"
      /\ UNCHANGED <<state, answer, tok, gate, typed, out, rtok, asking, shell, verified>>
  BY DEF CommandTimesOut, remoteVars
<1>2. state' = "executing" /\ tok \in Tokens /\ Shown' = Shown /\ Known(tok)
  BY <1>0, <1>1, BoundsAssumption DEF PcState, TypeOK, Tokens, Shown, Known
<1> DEFINE Z == {Type("vintr", tok), Type("recovery", tok)}
<1>3. /\ Unread' = Unread \union Z
      /\ \A x, y : Before(x, y)' => Before(x, y) \/ y \in Z
  <2>1. tty \in Seq(Input) /\ Type("vintr", tok) \in Input /\ Type("recovery", tok) \in Input
    BY <1>0, InputTypes DEF TypeOK
  <2> QED
    BY <1>1, <2>1, WriteTwoFacts
<1>4. /\ \A z \in Z : z.kind \in {"vintr", "recovery", "secret"} /\ Known(z.t)
      /\ \A z \in Z : z.kind = "recovery" => z.t \in Tokens
      /\ \A z \in Z : z.kind # "secret"
  BY <1>2, TypeParts
<1> HIDE DEF Z
<1>5. TokensKnown' /\ LastToRun' /\ EndMeansQuiet' /\ NothingYet' /\ Honest'
  BY <1>1, <1>2, <1>3, <1>4, HarmlessStep DEF Framed
<1>6. EndMeansVerified' /\ PromptWaits'
  BY <1>0, <1>1 DEF EndMeansVerified, PromptWaits
<1>7. SecretFirst'
  BY <1>0, <1>1, <1>3, <1>4 DEF SecretFirst
<1>8. TypedOnce'
  BY <1>0, <1>1 DEF TypedOnce
<1> QED
  BY <1>5, <1>6, <1>7, <1>8 DEF TerminalInv

LEMMA InterruptStep == ASSUME SessionInv, InterruptRepeatedPrompt, wpc' # "failing" PROVE TerminalInv'
<1>0. /\ TypeOK /\ PcState /\ EndMeansVerified /\ PromptWaits /\ SecretFirst /\ TypedOnce
  BY DEF SessionInv, TerminalInv
<1>1. /\ wpc \in {"login", "command"} /\ tty' = Append(tty, Type("vintr", tok)) /\ gate' = "interrupted" /\ gate = "used"
      /\ UNCHANGED <<state, wpc, answer, tok, typed, rtok, asking, shell, verified>>
  BY DEF InterruptRepeatedPrompt, NextSudoPrompt, InternalError, remoteVars
<1>2. state' \in {"starting", "executing"} /\ Shown' \subseteq Shown /\ Known(tok)
  BY <1>0, <1>1, WorkerOutput DEF PcState, TypeOK, Known, WorkerStep, AuthStep
<1> DEFINE Z == {Type("vintr", tok)}
<1>3. /\ Unread' = Unread \union Z
      /\ \A x, y : Before(x, y)' => Before(x, y) \/ y \in Z
  BY <1>0, <1>1, InputTypes, WriteFacts DEF TypeOK
<1>4. /\ \A z \in Z : z.kind \in {"vintr", "recovery", "secret"} /\ Known(z.t)
      /\ \A z \in Z : z.kind \notin {"secret", "recovery"}
  BY <1>2, TypeParts
<1> HIDE DEF Z
<1>5. TokensKnown' /\ LastToRun' /\ EndMeansQuiet' /\ NothingYet' /\ Honest'
  BY <1>1, <1>2, <1>3, <1>4, HarmlessStep
<1>6. EndMeansVerified'
  <2>1. Type("recovery", tok) \notin Unread => Type("recovery", tok) \notin Unread'
    BY <1>3, <1>4, TypeParts
  <2> QED
    BY <1>0, <1>1, <1>2, <2>1 DEF EndMeansVerified
<1>7. PromptWaits'
  BY <1>0, <1>1 DEF PromptWaits
<1>8. SecretFirst'
  BY <1>0, <1>1, <1>3, <1>4 DEF SecretFirst
<1>9. TypedOnce'
  BY <1>0, <1>1 DEF TypedOnce
<1> QED
  BY <1>5, <1>6, <1>7, <1>8, <1>9 DEF TerminalInv

LEMMA BeginAuthenticationStep == ASSUME SessionInv, BeginAuthentication PROVE TerminalInv'
<1>0. /\ TypeOK /\ PcState /\ TokensKnown /\ LastToRun /\ EndMeansQuiet /\ EndMeansVerified
      /\ PromptWaits /\ SecretFirst /\ TypedOnce /\ Honest
  BY DEF SessionInv, TerminalInv
<1>1. /\ wpc \in {"login", "command"} /\ NextFrame("sudo") /\ gate = "unused" /\ gate' = "used" /\ wpc' = "auth"
      /\ state' = "authentication_required"
      /\ UNCHANGED <<answer, tok, typed, tty, rtok, asking, shell, verified>>
  BY DEF BeginAuthentication, NextSudoPrompt, transition, remoteVars
<1>2. Type("sudo", tok) \in Shown /\ Shown' \subseteq Shown
  BY <1>0, <1>1, NextFrameFacts, WorkerOutput DEF WorkerStep, AuthStep
<1>3. asking = "bound" /\ Unread = {} /\ Unread' = {} /\ \A x, y : ~Before(x, y)'
  <2>1. asking = "bound" /\ Unread = {}
    BY <1>0, <1>1, <1>2 DEF PromptWaits
  <2>2. Unread' = Unread /\ \A x, y : Before(x, y)' <=> Before(x, y)
    BY <1>1 DEF Unread, Before
  <2> QED
    BY <2>1, <2>2, BeforeIn
<1>4. wpc = "login" => Type("end", tok) \notin Shown
  <2>1. wpc = "login" => tok \notin Tokens
    BY <1>0 DEF PcState, Tokens
  <2> QED
    BY <1>0, <2>1, TypeParts DEF TokensKnown
<1>5. TokensKnown' /\ NothingYet'
  BY <1>0, <1>1, <1>2, <1>3 DEF TokensKnown, Known, NothingYet
<1>6. LastToRun' /\ PromptWaits' /\ SecretFirst'
  BY <1>0, <1>1, <1>3 DEF LastToRun, PromptWaits, SecretFirst
<1>7. EndMeansQuiet' /\ EndMeansVerified'
  <2>1. Type("end", tok) \notin Shown
    BY <1>0, <1>1, <1>3, <1>4 DEF EndMeansQuiet, Quiet, Framed
  <2> QED
    BY <1>1, <1>2, <1>3, <2>1 DEF EndMeansQuiet, EndMeansVerified
<1>8. TypedOnce' /\ Honest'
  BY <1>0, <1>1, <1>3 DEF TypedOnce, Honest
<1> QED
  BY <1>5, <1>6, <1>7, <1>8 DEF TerminalInv

LEMMA FinishStep == ASSUME SessionInv, FinishAuthentication PROVE TerminalInv'
<1>0. /\ TypeOK /\ PcState /\ EndMeansVerified /\ PromptWaits /\ TypedOnce
  BY DEF SessionInv, TerminalInv
<1>1. /\ wpc = "auth" /\ tty' = Append(tty, Type("secret", tok)) /\ typed' = [typed EXCEPT ![tok] = typed[tok] + 1]
      /\ state' = authReturn /\ wpc' = (IF authReturn = "starting" THEN "login" ELSE "command")
      /\ UNCHANGED <<gate, out, answer, tok, rtok, asking, shell, verified>>
  BY DEF FinishAuthentication, transition, remoteVars
<1>2. /\ state' \in {"starting", "executing"} /\ Shown' = Shown /\ Known(tok) /\ gate' # "unused"
      /\ asking = "bound" /\ Unread = {}
  BY <1>0, <1>1 DEF PcState, TypeOK, Known, Shown, PromptWaits
<1> DEFINE Z == {Type("secret", tok)}
<1>3. /\ Unread' = Unread \union Z
      /\ \A x, y : Before(x, y)' => Before(x, y) \/ (x \in Unread /\ y \in Z)
  BY <1>0, <1>1, InputTypes, WriteFacts DEF TypeOK
<1>4. \A z \in Z : z.kind = "secret" /\ Known(z.t)
  BY <1>2, TypeParts
<1> HIDE DEF Z
<1>5. TokensKnown' /\ LastToRun' /\ EndMeansQuiet' /\ NothingYet' /\ Honest'
  BY <1>1, <1>2, <1>3, <1>4, HarmlessStep DEF Framed
<1>6. EndMeansVerified'
  <2>1. Type("recovery", tok) \notin Unread'
    BY <1>2, <1>3, <1>4, TypeParts
  <2> QED
    BY <1>0, <1>1, <1>2, <2>1 DEF EndMeansVerified
<1>7. PromptWaits'
  BY <1>0, <1>1, <1>2 DEF PromptWaits
<1>8. SecretFirst'
  BY <1>1, <1>2, <1>3, BeforeIn DEF SecretFirst
<1>9. TypedOnce'
  <2>1. tok \in 0..MaxTokens /\ typed \in [0..MaxTokens -> Nat] /\ typed[tok] = 0 /\ tok \in Nat
    BY <1>0, <1>1, BoundsAssumption DEF TypeOK, TypedOnce
  <2>2. typed'[tok] = 1 /\ \A t \in 0..MaxTokens : t # tok => typed'[t] = typed[t]
    BY <1>1, <2>1
  <2>3. ~(tok > tok)
    BY <2>1
  <2>4. wpc' # "auth"
    BY <1>1
  <2> QED
    BY <1>0, <1>1, <1>2, <2>1, <2>2, <2>3, <2>4 DEF TypedOnce
<1> QED
  BY <1>5, <1>6, <1>7, <1>8, <1>9 DEF TerminalInv

LEMMA RawTextStep == ASSUME SessionInv, RawStartWrite \/ RawWrite, wpc' # "failing" PROVE TerminalInv'
<1>0. /\ TypeOK /\ PcState /\ TokensKnown /\ PromptWaits /\ SecretFirst /\ TypedOnce /\ Honest
  BY DEF SessionInv, TerminalInv
<1>1. PICK z \in {Type("raw", RAW), Type("vintr", RAW)} :
        /\ tty' = Append(tty, z) /\ wpc' = "idle" /\ state' = "interactive"
        /\ UNCHANGED <<gate, out, answer, typed, tok, rtok, asking, shell, verified>>
  <2>1. CASE RawStartWrite
    BY <1>0, <2>1 DEF RawStartWrite, remoteVars, PcState
  <2>2. CASE RawWrite
    BY <1>0, <2>2 DEF RawWrite, remoteVars, PcState
  <2> QED
    BY <2>1, <2>2
<1>2. z.t = RAW /\ z.kind \in {"raw", "vintr"} /\ Shown' = Shown
  BY <1>1, TypeParts DEF Shown
<1>3. /\ Unread' = Unread \union {z}
      /\ \A x, y : Before(x, y)' => Before(x, y) \/ (x \in Unread /\ y = z)
  BY <1>0, <1>1, InputTypes, WriteFacts DEF TypeOK
<1>4. TokensKnown'
  BY <1>0, <1>1, <1>2, <1>3 DEF TokensKnown, Known
<1>5. LastToRun' /\ EndMeansQuiet' /\ NothingYet' /\ EndMeansVerified'
  BY <1>1 DEF LastToRun, EndMeansQuiet, NothingYet, EndMeansVerified, Framed
<1>6. PromptWaits'
  BY <1>0, <1>1 DEF PromptWaits
<1>7. SecretFirst'
  BY <1>0, <1>1, <1>2, <1>3 DEF SecretFirst
<1>8. TypedOnce'
  BY <1>0, <1>1 DEF TypedOnce
<1>9. Honest'
  <2>1. \A t : Type("command", t) \in Unread' => Type("command", t) \in Unread
    BY <1>2, <1>3, TypeParts
  <2> QED
    BY <1>0, <1>1, <2>1 DEF Honest
<1> QED
  BY <1>4, <1>5, <1>6, <1>7, <1>8, <1>9 DEF TerminalInv

LEMMA WorkerTerminalStep == ASSUME SessionInv, Request \/ WorkerStep PROVE TerminalInv'
<1>1. CASE Execute \/ Verify
  BY <1>1, StartStep DEF Execute, Verify
<1>2. \/ Plain \/ Execute \/ Verify \/ SeePrompt \/ RawClose \/ (WriteCommand /\ wpc' # "failing") \/ CommandTimesOut
      \/ (InterruptRepeatedPrompt /\ wpc' # "failing") \/ BeginAuthentication \/ FinishAuthentication
      \/ ((RawStartWrite \/ RawWrite) /\ wpc' # "failing")
  BY DEF Request, WorkerStep, OpenStep, ExecuteStep, AuthStep, RawStep, Plain, FailedWrite
<1> QED
  BY <1>1, <1>2, PlainStep, SeePromptStep, RawCloseStep, WriteCommandStep, TimesOutStep, InterruptStep,
     BeginAuthenticationStep, FinishStep, RawTextStep

-----------------------------------------------------------------------------
(* Steps of the remote side *)

LEMMA ElementFacts ==
  ASSUME SessionInv
  PROVE  /\ tok \in Nat /\ tok # RAW /\ RAW \notin Tokens /\ 0 \notin Tokens /\ Known(0)
         /\ wpc \in {"write", "bootstrap", "command", "recovery", "raw_close"} => tok # 0
         /\ wpc = "auth" => asking = "bound" /\ Unread = {}
         /\ \A x \in Input : x = Type(x.kind, x.t)
<1>0. TypeOK /\ PcState /\ PromptWaits
  BY DEF SessionInv, TerminalInv
<1>1. tok \in 0..MaxTokens /\ MaxTokens \in Nat
  BY <1>0, BoundsAssumption DEF TypeOK
<1>2. tok \in Nat /\ tok # RAW /\ RAW \notin Tokens /\ 0 \notin Tokens /\ Known(0)
  BY <1>1 DEF RAW, Tokens, Known
<1>3. \A x \in Input : x = Type(x.kind, x.t)
  BY DEF Input, Type
<1> QED
  BY <1>0, <1>2, <1>3 DEF PcState, PromptWaits

LEMMA ReadsStep == ASSUME SessionInv, RemoteReads PROVE TerminalInv'
<1>0. /\ TypeOK /\ PcState /\ NothingYet /\ TokensKnown /\ LastToRun /\ EndMeansQuiet /\ EndMeansVerified
      /\ PromptWaits /\ SecretFirst /\ TypedOnce /\ Honest
  BY DEF SessionInv, TerminalInv
<1>1. /\ UNCHANGED <<asking, shell, verified>> /\ shell # "absent" /\ rtok = 0 /\ Unread' \subseteq Unread
      /\ \A x, y : Before(x, y)' => Before(x, y)
  BY <1>0, ReadsFacts
<1>2. PICK i \in Unread :
        /\ i \in Input /\ i.kind # "vintr" /\ \A x \in Unread' : Before(i, x)
        /\ rtok' = (IF i.kind \in {"command", "raw"} THEN i.t ELSE 0)
        /\ \/ i.kind = "command" /\ Shown' \subseteq Shown \union {Type("begin", i.t)}
           \/ i.kind = "recovery" /\ shell = "ok" /\ Shown' \subseteq Shown \union {Type("end", i.t)}
           \/ Shown' = Shown
  BY <1>0, ReadsFacts
<1>3. UNCHANGED <<state, wpc, tok, gate, answer, typed>>
  BY RemoteKeeps DEF Remote
<1>4. Unread # {} /\ wpc # "auth" /\ asking = "none" /\ i = Type(i.kind, i.t)
  BY <1>0, <1>1, <1>2, ElementFacts DEF PromptWaits
<1>5. /\ Known(i.t) /\ (i.kind \in {"command", "recovery"} => i.t \in Tokens) /\ (i.kind = "raw" => i.t = RAW)
      /\ wpc = "write" => i.t # tok
  BY <1>0, <1>2 DEF TokensKnown
<1>6. \/ Shown' \subseteq Shown
      \/ Shown' \subseteq Shown \union {Type("begin", i.t)}
      \/ i.kind = "recovery" /\ shell = "ok" /\ Shown' \subseteq Shown \union {Type("end", i.t)}
  BY <1>2
<1>7. NothingYet'
  BY <1>0, <1>3, <1>4 DEF NothingYet
<1>8. TokensKnown'
  <2>1. \A t : Known(t)' <=> Known(t)
    BY <1>3 DEF Known
  <2>2. ASSUME NEW f \in Shown'
        PROVE  Known(f.t) /\ (f.kind = "end" => f.t \in Tokens) /\ (wpc = "write" => f.t # tok)
    BY <1>0, <1>5, <1>6, TypeParts DEF TokensKnown
  <2>3. Known(rtok') /\ (wpc = "write" => rtok' # tok)
    BY <1>2, <1>5, ElementFacts
  <2> QED
    BY <1>0, <1>1, <1>3, <2>1, <2>2, <2>3 DEF TokensKnown
<1>9. ASSUME wpc \in Framed, rtok' = tok PROVE i = Type("command", tok)
  BY <1>2, <1>4, <1>5, <1>9, ElementFacts DEF Framed
<1>10. LastToRun'
  <2>1. ASSUME wpc \in Framed, rtok' = tok, NEW x \in Unread' PROVE ~Runnable(x)
    BY <1>0, <1>2, <1>9, <2>1 DEF LastToRun
  <2> QED
    BY <1>0, <1>1, <1>3, <2>1 DEF LastToRun
<1>11. Quiet => Quiet'
  <2>1. Quiet => rtok' = 0
    BY <1>2 DEF Quiet, Runnable
  <2> QED
    BY <1>1, <2>1 DEF Quiet
<1>12. EndMeansQuiet'
  <2>1. ASSUME wpc \in Framed, Type("end", tok) \in Shown', Type("end", tok) \notin Shown PROVE Quiet'
    <3>1. i = Type("recovery", tok) /\ shell = "ok"
      BY <1>4, <1>6, <2>1, TypeParts
    <3>2. rtok' = 0 /\ \A x \in Unread' : ~Runnable(x)
      BY <1>0, <1>2, <2>1, <3>1, TypeParts DEF LastToRun
    <3> QED
      BY <1>1, <1>4, <3>1, <3>2 DEF Quiet
  <2> QED
    BY <1>0, <1>3, <1>11, <2>1 DEF EndMeansQuiet
<1>13. EndMeansVerified'
  <2>1. Type("end", tok) \in Shown' => Type("end", tok) \in Shown \/ Type("recovery", tok) \in Unread
    BY <1>2, <1>4, <1>6, TypeParts
  <2> QED
    BY <1>0, <1>1, <1>3, <2>1 DEF EndMeansVerified
<1>14. PromptWaits'
  <2>1. Type("sudo", tok) \in Shown' => Type("sudo", tok) \in Shown
    BY <1>6, TypeParts
  <2>2. ASSUME wpc = "command", gate = "unused", rtok' = tok PROVE Unread' = {}
    BY <1>0, <1>2, <1>9, <2>2 DEF PromptWaits, Framed
  <2> QED
    BY <1>0, <1>1, <1>3, <1>4, <2>1, <2>2 DEF PromptWaits
<1>15. SecretFirst'
  BY <1>0, <1>1 DEF SecretFirst
<1>16. TypedOnce'
  BY <1>0, <1>3 DEF TypedOnce
<1>17. Honest'
  <2>1. ASSUME NEW t \in Tokens, rtok' = t PROVE Type("command", t) \in Unread
    BY <1>2, <1>4, <1>5, <2>1, ElementFacts
  <2> QED
    BY <1>0, <1>1, <1>3, <2>1 DEF Honest
<1> QED
  BY <1>7, <1>8, <1>10, <1>12, <1>13, <1>14, <1>15, <1>16, <1>17 DEF TerminalInv

LEMMA ConsumesStep == ASSUME SessionInv, RemoteConsumes PROVE TerminalInv'
<1>0. /\ TypeOK /\ PcState /\ NothingYet /\ TokensKnown /\ LastToRun /\ EndMeansQuiet /\ EndMeansVerified
      /\ PromptWaits /\ SecretFirst /\ TypedOnce /\ Honest
  BY DEF SessionInv, TerminalInv
<1>1. /\ UNCHANGED <<rtok, shell, verified>> /\ asking' = "none" /\ (rtok # 0 \/ asking # "none")
      /\ Unread' \subseteq Unread /\ \A x, y : Before(x, y)' => Before(x, y)
  BY <1>0, ConsumesFacts
<1>2. PICK i \in Unread : /\ i \in Input /\ \A x \in Unread' : Before(i, x)
                          /\ Shown' \subseteq Shown \union {Type("begin", i.t)}
  BY <1>0, ConsumesFacts
<1>3. UNCHANGED <<state, wpc, tok, gate, answer, typed>>
  BY RemoteKeeps DEF Remote
<1>4. Unread # {} /\ wpc # "auth" /\ ~Quiet
  BY <1>1, <1>2, ElementFacts DEF Quiet
<1>5. Known(i.t) /\ (wpc = "write" => i.t # tok)
  BY <1>0, <1>2 DEF TokensKnown
<1>6. NothingYet'
  BY <1>0, <1>3, <1>4 DEF NothingYet
<1>7. TokensKnown'
  <2>1. \A t : Known(t)' <=> Known(t)
    BY <1>3 DEF Known
  <2>2. ASSUME NEW f \in Shown'
        PROVE  Known(f.t) /\ (f.kind = "end" => f.t \in Tokens) /\ (wpc = "write" => f.t # tok)
    BY <1>0, <1>2, <1>5, TypeParts DEF TokensKnown
  <2> QED
    BY <1>0, <1>1, <1>3, <2>1, <2>2 DEF TokensKnown
<1>8. LastToRun'
  BY <1>0, <1>1, <1>3 DEF LastToRun
<1>9. \A k \in {"end", "sudo"} : Type(k, tok) \in Shown' => Type(k, tok) \in Shown
  BY <1>2, TypeParts
<1>10. EndMeansQuiet' /\ EndMeansVerified'
  BY <1>0, <1>1, <1>3, <1>4, <1>9 DEF EndMeansQuiet, EndMeansVerified
<1>11. PromptWaits'
  BY <1>0, <1>1, <1>3, <1>4, <1>9 DEF PromptWaits
<1>12. SecretFirst'
  BY <1>0, <1>1, <1>2 DEF SecretFirst
<1>13. TypedOnce' /\ Honest'
  BY <1>0, <1>1, <1>3 DEF TypedOnce, Honest
<1> QED
  BY <1>6, <1>7, <1>8, <1>10, <1>11, <1>12, <1>13 DEF TerminalInv

LEMMA RemoteInterruptStep == ASSUME SessionInv, RemoteInterrupt PROVE TerminalInv'
<1>0. /\ TypeOK /\ PcState /\ NothingYet /\ TokensKnown /\ LastToRun /\ EndMeansQuiet /\ EndMeansVerified
      /\ PromptWaits /\ SecretFirst /\ TypedOnce /\ Honest
  BY DEF SessionInv, TerminalInv
<1>1. /\ UNCHANGED <<shell, verified>> /\ Unread' \subseteq Unread /\ Unread # {} /\ Shown' = Shown
      /\ \A x, y : Before(x, y)' => Before(x, y)
      /\ \/ rtok' = 0 /\ asking' = "none" /\ \E v : \A x \in Unread' : Before(v, x)
         \/ (rtok # 0 \/ asking # "none") /\ UNCHANGED <<rtok, asking>>
  BY <1>0, InterruptFacts
<1>2. UNCHANGED <<state, wpc, tok, gate, answer, typed>>
  BY RemoteKeeps DEF Remote
<1>3. wpc # "auth" /\ (wpc \in Framed \union {"write"} => tok # 0)
  BY <1>1, ElementFacts DEF Framed
<1>4. NothingYet'
  BY <1>0, <1>1, <1>2 DEF NothingYet
<1>5. TokensKnown'
  <2>1. \A t : Known(t)' <=> Known(t)
    BY <1>2 DEF Known
  <2>2. Known(rtok') /\ (wpc = "write" => rtok' # tok)
    BY <1>0, <1>1, <1>3, ElementFacts DEF TokensKnown
  <2> QED
    BY <1>0, <1>1, <1>2, <2>1, <2>2 DEF TokensKnown
<1>6. LastToRun'
  BY <1>0, <1>1, <1>2, <1>3 DEF LastToRun
<1>7. EndMeansQuiet' /\ EndMeansVerified'
  <2>1. Quiet => Quiet'
    BY <1>1 DEF Quiet
  <2> QED
    BY <1>0, <1>1, <1>2, <2>1 DEF EndMeansQuiet, EndMeansVerified
<1>8. PromptWaits'
  BY <1>0, <1>1, <1>2, <1>3 DEF PromptWaits, Framed
<1>9. SecretFirst'
  BY <1>0, <1>1 DEF SecretFirst
<1>10. TypedOnce' /\ Honest'
  BY <1>0, <1>1, <1>2, ElementFacts DEF TypedOnce, Honest
<1> QED
  BY <1>4, <1>5, <1>6, <1>7, <1>8, <1>9, <1>10 DEF TerminalInv

\* Steps that read nothing.
LEMMA LoginStep == ASSUME SessionInv, RemoteLogin PROVE TerminalInv'
<1>0. /\ TypeOK /\ PcState /\ NothingYet /\ TokensKnown /\ LastToRun /\ EndMeansQuiet /\ EndMeansVerified
      /\ PromptWaits /\ SecretFirst /\ TypedOnce /\ Honest
  BY DEF SessionInv, TerminalInv
<1>1. /\ UNCHANGED <<tty, rtok, verified>> /\ term = "running" /\ shell = "absent" /\ asking = "none"
      /\ \/ shell' = "ok" /\ asking' = asking /\ Shown' \subseteq Shown \union {Type("prompt", 0)}
         \/ shell' = shell /\ asking' = "bound" /\ Shown' \subseteq Shown \union {Type("sudo", 0)}
  BY <1>0, LoginFacts DEF Running
<1>2. UNCHANGED <<state, wpc, tok, gate, answer, typed>>
  BY RemoteKeeps DEF Remote
<1>3. Unread' = Unread /\ \A x, y : Before(x, y)' <=> Before(x, y)
  BY <1>1 DEF Unread, Before
<1>4. wpc # "auth" /\ ~Quiet /\ state # "created"
  BY <1>0, <1>1, ElementFacts DEF Quiet, NothingYet
<1>5. TokensKnown' /\ NothingYet'
  <2>1. \A t : Known(t)' <=> Known(t)
    BY <1>2 DEF Known
  <2>2. ASSUME NEW f \in Shown'
        PROVE  Known(f.t) /\ (f.kind = "end" => f.t \in Tokens) /\ (wpc = "write" => f.t # tok)
    BY <1>0, <1>1, TypeParts, ElementFacts DEF TokensKnown
  <2> QED
    BY <1>0, <1>1, <1>2, <1>3, <1>4, <2>1, <2>2 DEF TokensKnown, NothingYet
<1>6. LastToRun'
  BY <1>0, <1>1, <1>2, <1>3 DEF LastToRun
<1>7. EndMeansQuiet' /\ EndMeansVerified'
  <2>1. Type("end", tok) \in Shown' => Type("end", tok) \in Shown
    BY <1>1, TypeParts
  <2> QED
    BY <1>0, <1>1, <1>2, <1>3, <1>4, <2>1 DEF EndMeansQuiet, EndMeansVerified
<1>8. PromptWaits'
  <2>1. Type("sudo", tok) \in Shown' => Type("sudo", tok) \in Shown \/ (tok = 0 /\ asking' = "bound")
    BY <1>1, TypeParts
  <2>2. wpc = "command" => tok # 0
    BY ElementFacts
  <2> QED
    BY <1>0, <1>1, <1>2, <1>3, <1>4, <2>1, <2>2 DEF PromptWaits
<1>9. SecretFirst'
  BY <1>0, <1>1, <1>3 DEF SecretFirst
<1>10. TypedOnce' /\ Honest'
  BY <1>0, <1>1, <1>2, <1>3 DEF TypedOnce, Honest
<1> QED
  BY <1>5, <1>6, <1>7, <1>8, <1>9, <1>10 DEF TerminalInv

LEMMA AsksStep == ASSUME SessionInv, RemoteAsks PROVE TerminalInv'
<1>0. /\ TypeOK /\ PcState /\ NothingYet /\ TokensKnown /\ LastToRun /\ EndMeansQuiet /\ EndMeansVerified
      /\ PromptWaits /\ SecretFirst /\ TypedOnce /\ Honest
  BY DEF SessionInv, TerminalInv
<1>1. /\ UNCHANGED <<tty, rtok, shell, verified>> /\ rtok \in Tokens /\ asking = "none"
      /\ \/ asking' = "bound" /\ Shown' \subseteq Shown \union {Type("sudo", rtok)}
         \/ asking' = "foreign" /\ Shown' \subseteq Shown \union {Type("sudo", RAW)}
  BY <1>0, AsksFacts
<1>2. UNCHANGED <<state, wpc, tok, gate, answer, typed>>
  BY RemoteKeeps DEF Remote
<1>3. Unread' = Unread /\ \A x, y : Before(x, y)' <=> Before(x, y)
  BY <1>1 DEF Unread, Before
<1>4. wpc # "auth" /\ rtok # 0 /\ ~Quiet /\ state # "created"
  BY <1>0, <1>1, ElementFacts DEF Quiet, NothingYet
<1>5. TokensKnown' /\ NothingYet'
  <2>1. \A t : Known(t)' <=> Known(t)
    BY <1>2 DEF Known
  <2>2. ASSUME NEW f \in Shown'
        PROVE  Known(f.t) /\ (f.kind = "end" => f.t \in Tokens) /\ (wpc = "write" => f.t # tok)
    <3>1. Known(RAW)
      BY DEF Known
    <3> QED
      BY <1>0, <1>1, <3>1, TypeParts, ElementFacts DEF TokensKnown
  <2> QED
    BY <1>0, <1>1, <1>2, <1>3, <1>4, <2>1, <2>2 DEF TokensKnown, NothingYet
<1>6. LastToRun'
  BY <1>0, <1>1, <1>2, <1>3 DEF LastToRun
<1>7. EndMeansQuiet' /\ EndMeansVerified'
  <2>1. Type("end", tok) \in Shown' => Type("end", tok) \in Shown
    BY <1>1, TypeParts
  <2> QED
    BY <1>0, <1>1, <1>2, <1>3, <1>4, <2>1 DEF EndMeansQuiet, EndMeansVerified
<1>8. PromptWaits'
  <2>1. Type("sudo", tok) \in Shown' => Type("sudo", tok) \in Shown \/ (rtok = tok /\ asking' = "bound")
    BY <1>1, TypeParts, ElementFacts
  <2> QED
    BY <1>0, <1>1, <1>2, <1>3, <1>4, <2>1 DEF PromptWaits
<1>9. SecretFirst'
  BY <1>0, <1>1, <1>3 DEF SecretFirst
<1>10. TypedOnce' /\ Honest'
  BY <1>0, <1>1, <1>2, <1>3 DEF TypedOnce, Honest
<1> QED
  BY <1>5, <1>6, <1>7, <1>8, <1>9, <1>10 DEF TerminalInv

LEMMA CompletesStep == ASSUME SessionInv, RemoteCompletes PROVE TerminalInv'
<1>0. /\ TypeOK /\ PcState /\ NothingYet /\ TokensKnown /\ LastToRun /\ EndMeansQuiet /\ EndMeansVerified
      /\ PromptWaits /\ SecretFirst /\ TypedOnce /\ Honest
  BY DEF SessionInv, TerminalInv
<1>1. /\ UNCHANGED <<tty, asking>> /\ rtok # 0 /\ asking = "none" /\ rtok' = 0
      /\ \/ /\ shell = "ok" /\ shell' = shell /\ verified' = verified \union {rtok}
            /\ Shown' \subseteq Shown \union (IF rtok = RAW THEN {} ELSE {Type("end", rtok)})
         \/ /\ shell' = "broken" /\ verified' = verified /\ Shown' \subseteq Shown \union {Type("bad", rtok)}
  BY <1>0, CompletesFacts
<1>2. UNCHANGED <<state, wpc, tok, gate, answer, typed>>
  BY RemoteKeeps DEF Remote
<1>3. Unread' = Unread /\ \A x, y : Before(x, y)' <=> Before(x, y)
  BY <1>1 DEF Unread, Before
<1>4. wpc # "auth" /\ ~Quiet /\ state # "created" /\ (wpc \in Framed \union {"write"} => tok # 0)
  BY <1>0, <1>1, ElementFacts DEF Quiet, NothingYet, Framed
<1>5. rtok # RAW => rtok \in Tokens
  <2>1. rtok \in 0..RAW /\ RAW = MaxTokens + 1 /\ MaxTokens \in Nat
    BY <1>0, BoundsAssumption DEF TypeOK, RAW
  <2> QED
    BY <1>1, <2>1 DEF Tokens
<1>6. TokensKnown' /\ NothingYet'
  <2>1. \A t : Known(t)' <=> Known(t)
    BY <1>2 DEF Known
  <2>2. ASSUME NEW f \in Shown'
        PROVE  Known(f.t) /\ (f.kind = "end" => f.t \in Tokens) /\ (wpc = "write" => f.t # tok)
    BY <1>0, <1>1, <1>5, TypeParts DEF TokensKnown
  <2> QED
    BY <1>0, <1>1, <1>2, <1>3, <1>4, <2>1, <2>2, ElementFacts DEF TokensKnown, NothingYet
<1>7. LastToRun'
  BY <1>0, <1>1, <1>2, <1>3, <1>4 DEF LastToRun
<1>8. Type("end", tok) \in Shown' => \/ Type("end", tok) \in Shown
                                     \/ rtok = tok /\ shell = "ok" /\ shell' = shell /\ tok \in verified'
  BY <1>1, TypeParts
<1>9. EndMeansQuiet'
  BY <1>0, <1>1, <1>2, <1>3, <1>4, <1>8 DEF EndMeansQuiet, LastToRun, Quiet
<1>10. EndMeansVerified'
  BY <1>0, <1>1, <1>2, <1>3, <1>8 DEF EndMeansVerified
<1>11. PromptWaits'
  <2>1. Type("sudo", tok) \in Shown' => Type("sudo", tok) \in Shown
    BY <1>1, TypeParts
  <2> QED
    BY <1>0, <1>1, <1>2, <1>3, <1>4, <2>1 DEF PromptWaits, Framed
<1>12. SecretFirst'
  BY <1>0, <1>1, <1>3 DEF SecretFirst
<1>13. TypedOnce' /\ Honest'
  BY <1>0, <1>1, <1>2, <1>3, ElementFacts DEF TypedOnce, Honest
<1> QED
  BY <1>6, <1>7, <1>9, <1>10, <1>11, <1>12, <1>13 DEF TerminalInv

LEMMA DiesStep == ASSUME SessionInv, TerminalDies PROVE TerminalInv'
<1>0. /\ NothingYet /\ TokensKnown /\ LastToRun /\ EndMeansQuiet /\ EndMeansVerified
      /\ PromptWaits /\ SecretFirst /\ TypedOnce /\ Honest
  BY DEF SessionInv, TerminalInv
<1>1. /\ term = "running" /\ UNCHANGED <<tty, out, rtok, asking, shell, verified>>
      /\ UNCHANGED <<state, wpc, tok, gate, answer, typed>>
  BY RemoteKeeps DEF Remote, TerminalDies, Running, remoteVars
<1>2. Unread' = Unread /\ Shown' = Shown /\ \A x, y : Before(x, y)' <=> Before(x, y)
  BY <1>1 DEF Unread, Shown, Before
<1>3. NothingYet' /\ TokensKnown' /\ LastToRun'
  BY <1>0, <1>1, <1>2 DEF NothingYet, TokensKnown, Known, LastToRun
<1>4. EndMeansQuiet' /\ EndMeansVerified'
  BY <1>0, <1>1, <1>2 DEF EndMeansQuiet, Quiet, EndMeansVerified
<1>5. PromptWaits' /\ SecretFirst'
  BY <1>0, <1>1, <1>2 DEF PromptWaits, SecretFirst
<1>6. TypedOnce' /\ Honest'
  BY <1>0, <1>1, <1>2 DEF TypedOnce, Honest
<1> QED
  BY <1>3, <1>4, <1>5, <1>6 DEF TerminalInv

LEMMA SessionStep == ASSUME SessionInv, [Next]_vars PROVE SessionInv'
<1>1. CASE Next
  <2>1. TypeOK' /\ PcState'
    BY <1>1, TypesStep, PcStateStep DEF SessionInv, TerminalInv
  <2>2. ASSUME Remote PROVE TerminalInv'
    BY <2>2, ReadsStep, ConsumesStep, RemoteInterruptStep, LoginStep, AsksStep, CompletesStep, DiesStep DEF Remote
  <2>3. TerminalInv'
    BY <1>1, <2>2, WorkerTerminalStep DEF Next
  <2> QED
    BY <2>1, <2>3 DEF SessionInv
<1>2. CASE UNCHANGED vars
  <2>0. /\ TypeOK /\ PcState /\ NothingYet /\ TokensKnown /\ LastToRun /\ EndMeansQuiet /\ EndMeansVerified
        /\ PromptWaits /\ SecretFirst /\ TypedOnce /\ Honest
    BY DEF SessionInv, TerminalInv
  <2>1. /\ UNCHANGED <<state, authReturn, root, wpc, job, tok, sudo, gate, parsing, answer, typed, raws>>
        /\ UNCHANGED <<term, tty, out, rtok, asking, shell, verified, prompts>>
    BY <1>2 DEF vars, opVars, remoteVars
  <2>2. Unread' = Unread /\ Shown' = Shown /\ \A x, y : Before(x, y)' <=> Before(x, y)
    BY <2>1 DEF Unread, Shown, Before
  <2>3. TypeOK' /\ PcState'
    BY <2>0, <2>1 DEF TypeOK, PcState
  <2>4. NothingYet' /\ TokensKnown' /\ LastToRun'
    BY <2>0, <2>1, <2>2 DEF NothingYet, TokensKnown, Known, LastToRun
  <2>5. EndMeansQuiet' /\ EndMeansVerified'
    BY <2>0, <2>1, <2>2 DEF EndMeansQuiet, Quiet, EndMeansVerified
  <2>6. PromptWaits' /\ SecretFirst'
    BY <2>0, <2>1, <2>2 DEF PromptWaits, SecretFirst
  <2>7. TypedOnce' /\ Honest'
    BY <2>0, <2>1, <2>2 DEF TypedOnce, Honest
  <2> QED
    BY <2>3, <2>4, <2>5, <2>6, <2>7 DEF SessionInv, TerminalInv
<1> QED
  BY <1>1, <1>2

LEMMA SessionInvariant == Spec => []SessionInv
BY SessionInitially, SessionStep, PTL DEF Spec

-----------------------------------------------------------------------------
(* Every change of state is in the table *)

LEMMA TransitionTable ==
  /\ ALLOWED_TRANSITIONS["created"] = {"starting", "closing"}
  /\ ALLOWED_TRANSITIONS["starting"] = {"authentication_required", "ready", "lost", "failed", "closing"}
  /\ ALLOWED_TRANSITIONS["authentication_required"] = {"starting", "executing", "lost", "failed", "closing"}
  /\ ALLOWED_TRANSITIONS["ready"] = {"executing", "interactive", "lost", "failed", "closing"}
  /\ ALLOWED_TRANSITIONS["executing"] = {"authentication_required", "ready", "lost", "failed", "closing"}
  /\ ALLOWED_TRANSITIONS["interactive"] = {"ready", "lost", "failed", "closing"}
  /\ ALLOWED_TRANSITIONS["lost"] = {"closing", "closed"}
  /\ ALLOWED_TRANSITIONS["failed"] = {"closing", "closed"}
  /\ ALLOWED_TRANSITIONS["closing"] = {"closed"}
BY DEF ALLOWED_TRANSITIONS, SessionState

LEMMA StateMoves ==
  ASSUME TypeOK, PcState, Next
  PROVE  state' \in ALLOWED_TRANSITIONS[state] \/ state' = state
<1> USE PcState, TransitionTable DEF PcState, transition
<1>1. CASE Remote
  BY <1>1, RemoteKeeps
<1>2. CASE Request
  <2>1. CASE Open \/ RelayStartFails
    BY <2>1 DEF Open, RelayStartFails
  <2>2. CASE Execute
    BY <2>2 DEF Execute, StartCommand
  <2>3. CASE RawStart \/ RawWrite \/ RawRead \/ RawClose
    BY <2>3 DEF RawStart, RawWrite, RawRead, RawClose
  <2>4. CASE Close
    BY <2>4 DEF Close, BeginClose, RestingStates
  <2> QED
    BY <1>2, <2>1, <2>2, <2>3, <2>4 DEF Request
<1>3. CASE OpenStep
  BY <1>3 DEF OpenStep, OpenFails, SeePrompt, BootstrapCompletes
<1>4. CASE ExecuteStep
  <2>1. CASE Verify
    BY <2>1 DEF Verify, StartCommand
  <2>2. CASE WriteCommand
    BY <2>2 DEF WriteCommand, InternalError, MarkBroken
  <2>3. CASE SeeBegin \/ SeeOther
    BY <2>3 DEF SeeBegin, SeeOther
  <2>4. CASE CommandCompletes \/ CommandTimesOut \/ Recovers \/ LoseExecuting
    BY <2>4 DEF CommandCompletes, CommandTimesOut, Recovers, LoseExecuting
  <2> QED
    BY <1>4, <2>1, <2>2, <2>3, <2>4 DEF ExecuteStep
<1>5. CASE AuthStep
  <2>1. CASE BeginAuthentication
    BY <2>1 DEF BeginAuthentication, NextSudoPrompt
  <2>2. CASE InterruptRepeatedPrompt
    BY <2>2 DEF InterruptRepeatedPrompt, NextSudoPrompt, InternalError, MarkBroken
  <2>3. CASE FinishAuthentication \/ AuthenticationFails \/ SubmitFails
    BY <2>3 DEF FinishAuthentication, AuthenticationFails, SubmitFails
  <2> QED
    BY <1>5, <2>1, <2>2, <2>3 DEF AuthStep
<1>6. CASE RawStep
  BY <1>6 DEF RawStep, RawStartWrite, MarkBroken, RawCloseCompletes, RawCloseFails
<1>7. CASE CloseAfterFailure \/ EndClose
  BY <1>7 DEF CloseAfterFailure, EndClose, BeginClose
<1> QED
  BY <1>1, <1>2, <1>3, <1>4, <1>5, <1>6, <1>7 DEF Next, WorkerStep

-----------------------------------------------------------------------------
(* The theorems *)

\* The variables of session.py, state.py and the terminal keep their shape, for
\* any number of commands, prompts and raw texts.
THEOREM SessionTypes == Spec => []TypeOK
BY SessionInvariant, PTL DEF SessionInv

\* READY is kept as a promise about the remote side (StatefulSshSession returns to
\* READY only when Bash is at its prompt with nothing left to run), and no request
\* of the worker leaves the session in an intermediate state.
THEOREM RestKept == Spec => []RestIsQuiet
<1>1. ASSUME SessionInv PROVE RestIsQuiet
  <2>1. state = "ready" => Quiet
    BY <1>1 DEF SessionInv, TerminalInv, EndMeansQuiet
  <2>2. ReadyMeansQuiet
    BY <2>1 DEF ReadyMeansQuiet, Quiet, Unread
  <2>3. RequestsSettle
    BY <1>1 DEF SessionInv, PcState, RequestsSettle
  <2> QED
    BY <2>2, <2>3 DEF RestIsQuiet
<1> QED
  BY <1>1, SessionInvariant, PTL

\* What StatefulSshSession.execute answers is true of the remote side: a completed
\* command was run to its verified end, a timed-out one neither runs nor ever will.
THEOREM AnswersKept == Spec => []AnswersAreHonest
<1>1. ASSUME SessionInv PROVE AnswersAreHonest
  BY <1>1 DEF SessionInv, TerminalInv, Honest, Unread, AnswersAreHonest
<1> QED
  BY <1>1, SessionInvariant, PTL

\* The secret of _single_authentication_gate is read by the prompt it was typed
\* for, and one operation types at most one.
THEOREM SecretsKept == Spec => []SecretsGoToTheirPrompt
<1>1. ASSUME SessionInv PROVE SecretsGoToTheirPrompt
  <2>1. SecretsReachTheirPrompt
    BY <1>1 DEF SessionInv, TerminalInv, SecretFirst, Unread, SecretsReachTheirPrompt
  <2>2. OneSecretPerOperation
    BY <1>1 DEF SessionInv, TerminalInv, TypedOnce, OneSecretPerOperation
  <2> QED
    BY <2>1, <2>2 DEF SecretsGoToTheirPrompt
<1> QED
  BY <1>1, SessionInvariant, PTL

\* SessionStateMachine.transition never raises: whatever the terminal, the deadlines
\* and the clients do, every change of state is in its table.
THEOREM TransitionsKept == Spec => TransitionsAllowed
<1>1. ASSUME SessionInv, [Next]_vars PROVE [state' \in ALLOWED_TRANSITIONS[state]]_state
  <2>1. CASE Next
    BY <1>1, <2>1, StateMoves DEF SessionInv
  <2>2. CASE UNCHANGED vars
    BY <2>2 DEF vars
  <2> QED
    BY <1>1, <2>1, <2>2
<1> QED
  BY <1>1, SessionInvariant, PTL DEF Spec, TransitionsAllowed
=============================================================================
