----------------------- MODULE WorkerOperationsProofs -----------------------
(***************************************************************************)
(* The services of a held session that run helpers of their own, for any   *)
(* directory, patches and bounds.                                          *)
(*                                                                         *)
(* Elevation: what a reply claims is decided by ghosts several steps       *)
(* earlier, so the invariant says what has happened at each place a        *)
(* request may wait.                                                       *)
(*                                                                         *)
(* Structured files: what an answer claims rests on values the helper kept *)
(* while others may change the directory, so FilesInv says of each place   *)
(* which kept values still hold, under which changes.  Its least obvious   *)
(* part is SourceKept: after one change by others the hash and the text    *)
(* that a patch read belong together, or the path no longer leads to a     *)
(* file with that hash and the write is refused.                           *)
(*                                                                         *)
(* Patches: what apply_unified_patch computes, for every text and patch.   *)
(*                                                                         *)
(* Types: the replies, answers, texts and rows of both services.           *)
(***************************************************************************)
EXTENDS RemoteFiles, Elevation, WellFoundedInduction, SequenceTheorems, FiniteSetTheorems, TLAPS

\* What has happened when a request waits: no command has run before the wrapper starts,
\* a password is typed only between asking and checking, and whoever is past sudo was
\* admitted by it.
Progress ==
  /\ epc \in EPc
  /\ ran \in {0, 1} /\ typed \in {0, 1} /\ granted \in BOOLEAN
  /\ epc \in {"sudo", "asking"} => typed = 0
  /\ epc \in {"sudo", "asking", "checking", "validated", "root"} => ran = 0
  /\ epc \in {"validated", "root", "ending"} => granted
  /\ epc = "ending" => ran = 1

ElevationInv == Progress /\ ElevationIsHonest

LEMMA ElevationInitially == InitElevation => ElevationInv
<1> SUFFICES ASSUME InitElevation PROVE ElevationInv
  OBVIOUS
<1>1. granted \in BOOLEAN /\ ~granted
  BY Zenon DEF InitElevation
<1>2. /\ epc = "idle" /\ ran = 0 /\ typed = 0
      /\ reply # "acquired" /\ reply # "completed"
  BY AbsentIsNoReply DEF InitElevation
<1> QED
  BY <1>1, <1>2 DEF ElevationInv, Progress, ElevationIsHonest, EPc

\* One step per action: each keeps the account of Progress, and its reply, if it gives one,
\* is covered by that account.
LEMMA ElevationStep == ElevationInv /\ [ElevationNext]_elevationVars => ElevationInv'
<1> SUFFICES ASSUME ElevationInv, [ElevationNext]_elevationVars
             PROVE  ElevationInv'
  OBVIOUS
<1> USE DEF ElevationInv, Progress, ElevationIsHonest, EPc, Reply, Continue, requestVars
<1>1. ASSUME NEW a \in Actions, HandleElevation(a)
      PROVE  ElevationInv'
  <2>1. granted' \in BOOLEAN
    BY <1>1, Zenon DEF HandleElevation
  <2>2. ran' = 0 /\ typed' = 0 /\ epc' \in {"idle", "sudo"}
    BY <1>1 DEF HandleElevation
  <2>3. epc' = "idle" => reply' \in {"refused", "disabled", "elevation_disabled"}
    BY <1>1 DEF HandleElevation
  <2> QED
    BY <2>1, <2>2, <2>3
<1>2. CASE Sudo
  <2>1. CASE action = "status"
    BY <1>2, <2>1 DEF Sudo
  <2>2. CASE action = "release"
    BY <1>2, <2>2 DEF Sudo
  <2>3. CASE action \notin {"status", "release"}
    BY <1>2, <2>3 DEF Sudo, Admitted, NotElevated
  <2> QED
    BY <2>1, <2>2, <2>3
<1>3. CASE Submit
  BY <1>3 DEF Submit
<1>4. CASE WindowFails
  BY <1>4 DEF WindowFails
<1>5. CASE CheckPassword
  BY <1>5 DEF CheckPassword, Admitted, NotElevated
<1>6. CASE AcquireCompletes
  BY <1>6 DEF AcquireCompletes
<1>7. CASE RootRuns
  BY <1>7 DEF RootRuns
<1>8. CASE ParseElevatedOutput
  BY <1>8 DEF ParseElevatedOutput, NotElevated
<1>9. CASE SudoTimesOut
  BY <1>9 DEF SudoTimesOut
<1>10. CASE Probe
  BY <1>10 DEF Probe
<1>11. CASE ElevationLost
  BY <1>11 DEF ElevationLost
<1>12. CASE TicketExpires
  BY <1>12 DEF TicketExpires
<1>13. CASE UNCHANGED elevationVars
  BY <1>13 DEF elevationVars
<1> QED
  BY <1>1, <1>2, <1>3, <1>4, <1>5, <1>6, <1>7, <1>8, <1>9, <1>10, <1>11, <1>12, <1>13
  DEF ElevationNext

\* ElevationService: "acquired" and "completed" are true of the request they answer, and no
\* request runs its command or types its password twice, whatever times out or is lost.
THEOREM ElevationHonest == ElevationSpec => []ElevationIsHonest
<1>1. ElevationInv => ElevationIsHonest
  BY DEF ElevationInv
<1> QED
  BY ElevationInitially, ElevationStep, <1>1, PTL DEF ElevationSpec

\* The action a request has where it waits, which decides the replies it can still get.
ActionAt ==
  /\ epc # "idle" => action \in Actions
  /\ epc \in {"asking", "checking"} => action \in {"acquire", "exec"}
  /\ epc \in {"validated", "probe"} => action = "acquire"
  /\ epc \in {"root", "ending"} => action = "exec"

\* What can be replied to an action.
Answers(a, r) ==
  \/ r \in Failures
  \/ a = "status" /\ r \in {"disabled", "active", "inactive"}
  \/ a = "acquire" /\ r = "acquired"
  \/ a = "release" /\ r = "released"
  \/ a = "exec" /\ r = "completed"
ReplyFits ==
  /\ reply = Absent \/ \E a \in Actions : Answers(a, reply)
  /\ epc = "idle" /\ action # Absent => Answers(action, reply)
ElevationCounts == ran \in Nat /\ typed \in Nat /\ count \in 0..MaxElevations
ElevationFlags ==
  usable \in BOOLEAN /\ ticket \in BOOLEAN /\ nopasswd \in BOOLEAN /\ granted \in BOOLEAN
ElevationKinds == mode \in Modes /\ epc \in EPc /\ action \in Actions \union {Absent}

TypesInv == ElevationKinds /\ ElevationCounts /\ ElevationFlags /\ ActionAt /\ ReplyFits

\* The flags stay flags.
LEMMA FlagsStep == ElevationFlags /\ [ElevationNext]_elevationVars => ElevationFlags'
<1> SUFFICES ASSUME ElevationFlags, [ElevationNext]_elevationVars PROVE ElevationFlags'
  OBVIOUS
<1> USE DEF Reply, Continue, requestVars, Validated, Admitted
<1>1. ASSUME NEW a \in Actions, HandleElevation(a) PROVE ElevationFlags'
  BY <1>1, Zenon DEF ElevationFlags, HandleElevation
<1>2. CASE Sudo
  <2>1. UNCHANGED <<usable, nopasswd>>
    BY <1>2, Zenon DEF Sudo
  <2>2. /\ ticket' = ticket \/ ticket' = TRUE \/ ticket' = FALSE
        /\ granted' = granted \/ granted' = TRUE
    <3>1. CASE action = "status"
      BY <1>2, <3>1 DEF Sudo
    <3>2. CASE action = "release"
      BY <1>2, <3>2 DEF Sudo
    <3>3. CASE action \notin {"status", "release"}
      BY <1>2, <3>3 DEF Sudo
    <3> QED BY <3>1, <3>2, <3>3
  <2> QED BY <2>1, <2>2, Zenon DEF ElevationFlags
<1>3. CASE Submit \/ WindowFails \/ AcquireCompletes \/ RootRuns \/ ParseElevatedOutput
  BY <1>3, Zenon DEF ElevationFlags, Submit, WindowFails, AcquireCompletes, RootRuns,
     ParseElevatedOutput
<1>4. CASE CheckPassword \/ SudoTimesOut \/ Probe \/ ElevationLost \/ TicketExpires
  BY <1>4, Zenon DEF ElevationFlags, CheckPassword, SudoTimesOut, Probe, ElevationLost,
     TicketExpires
<1>5. CASE UNCHANGED elevationVars
  BY <1>5, Zenon DEF ElevationFlags, elevationVars
<1> QED BY <1>1, <1>2, <1>3, <1>4, <1>5 DEF ElevationNext

\* A step that replies or waits again, where the request belongs, keeps the kinds.
LEMMA FitsWhere ==
  /\ TypesInv /\ mode' = mode /\ ElevationCounts' /\ action' \in Actions
  /\ \/ epc' = "idle" /\ Answers(action', reply')
     \/ epc' \in EPc \ {"idle"} /\ reply' = reply /\ ActionAt'
  => ElevationKinds' /\ ElevationCounts' /\ ActionAt' /\ ReplyFits'
<1> SUFFICES ASSUME TypesInv, mode' = mode, ElevationCounts', action' \in Actions,
                    \/ epc' = "idle" /\ Answers(action', reply')
                    \/ epc' \in EPc \ {"idle"} /\ reply' = reply /\ ActionAt'
             PROVE  ElevationKinds' /\ ElevationCounts' /\ ActionAt' /\ ReplyFits'
  OBVIOUS
<1>1. ElevationKinds'
  BY DEF TypesInv, ElevationKinds, EPc
<1>2. ActionAt'
  BY DEF ActionAt
<1>3. ReplyFits'
  BY Zenon DEF TypesInv, ReplyFits
<1> QED BY <1>1, <1>2, <1>3

\* Every step keeps the types.
LEMMA ElevationTypesStep == TypesInv /\ [ElevationNext]_elevationVars => TypesInv'
<1> SUFFICES ASSUME TypesInv, [ElevationNext]_elevationVars PROVE TypesInv'
  OBVIOUS
<1> DEFINE Rest == ElevationKinds' /\ ElevationCounts' /\ ActionAt' /\ ReplyFits'
<1> DEFINE Goes == \/ epc' = "idle" /\ Answers(action', reply')
                   \/ epc' \in EPc \ {"idle"} /\ reply' = reply /\ ActionAt'
<1>. SUFFICES Rest
  BY FlagsStep, Zenon DEF TypesInv
<1>0. ElevationCounts /\ ActionAt /\ ElevationKinds
  BY DEF TypesInv
<1>1. ASSUME NEW a \in Actions, HandleElevation(a) PROVE Rest
  <2>1. mode' = mode /\ ElevationCounts' /\ action' \in Actions
    BY <1>0, <1>1, ElevationBounds DEF HandleElevation, ElevationCounts
  <2>2. Goes
    BY <1>1, <2>1 DEF HandleElevation, Reply, Continue, Answers, Failures, EPc, ActionAt
  <2> QED BY <2>1, <2>2, FitsWhere
<1>2. CASE Sudo
  <2>1. mode' = mode /\ ElevationCounts' /\ action' \in Actions /\ action' = action
    BY <1>0, <1>2 DEF Sudo, ElevationCounts, ActionAt
  <2>2. CASE action = "status"
    BY <1>2, <2>1, <2>2, FitsWhere DEF Sudo, Reply, Answers
  <2>3. CASE action = "release"
    BY <1>2, <2>1, <2>3, FitsWhere DEF Sudo, Reply, Answers, Failures
  <2>4. CASE action \notin {"status", "release"}
    <3>1. \/ Admitted \/ Continue("asking") \/ Reply(NotElevated)
      BY <1>2, <2>4 DEF Sudo
    <3>2. action \in {"acquire", "exec"}
      BY <2>1, <2>4 DEF Actions
    <3>3. Goes
      BY <2>1, <3>1, <3>2 DEF Admitted, Continue, Reply, NotElevated, Answers, Failures, EPc, ActionAt
    <3> QED BY <2>1, <3>3, FitsWhere
  <2> QED BY <2>2, <2>3, <2>4
<1>3. CASE Submit
  <2>1. mode' = mode /\ ElevationCounts' /\ action' \in Actions
    BY <1>0, <1>3 DEF Submit, ElevationCounts, ActionAt
  <2>2. Goes
    BY <1>0, <1>3, <2>1 DEF Submit, Continue, ActionAt, EPc
  <2> QED BY <2>1, <2>2, FitsWhere
<1>4. CASE WindowFails
  <2>1. mode' = mode /\ ElevationCounts' /\ action' \in Actions
    BY <1>0, <1>4 DEF WindowFails, ElevationCounts, ActionAt, requestVars
  <2>2. Goes
    BY <1>4 DEF WindowFails, Reply, Answers, Failures
  <2> QED BY <2>1, <2>2, FitsWhere
<1>5. CASE CheckPassword
  <2>1. mode' = mode /\ ElevationCounts' /\ action' \in Actions /\ action' = action
    BY <1>0, <1>5 DEF CheckPassword, ElevationCounts, ActionAt
  <2>2. action \in {"acquire", "exec"}
    BY <1>0, <1>5 DEF CheckPassword, ActionAt
  <2>3. Goes
    BY <1>5, <2>1, <2>2 DEF CheckPassword, Admitted, Continue, Reply, NotElevated, Answers, Failures,
       EPc, ActionAt
  <2> QED BY <2>1, <2>3, FitsWhere
<1>6. CASE AcquireCompletes
  <2>1. mode' = mode /\ ElevationCounts' /\ action' \in Actions /\ action' = "acquire"
    BY <1>0, <1>6 DEF AcquireCompletes, ElevationCounts, ActionAt, requestVars
  <2>2. Goes
    BY <1>6, <2>1 DEF AcquireCompletes, Reply, Answers
  <2> QED BY <2>1, <2>2, FitsWhere
<1>7. CASE RootRuns
  <2>1. mode' = mode /\ ElevationCounts' /\ action' \in Actions /\ action' = "exec"
    BY <1>0, <1>7 DEF RootRuns, ElevationCounts, ActionAt
  <2>2. Goes
    BY <1>7, <2>1 DEF RootRuns, Continue, ActionAt, EPc
  <2> QED BY <2>1, <2>2, FitsWhere
<1>8. CASE ParseElevatedOutput
  <2>1. mode' = mode /\ ElevationCounts' /\ action' \in Actions /\ action' = "exec"
    BY <1>0, <1>8 DEF ParseElevatedOutput, ElevationCounts, ActionAt, requestVars
  <2>2. Goes
    BY <1>8, <2>1 DEF ParseElevatedOutput, Reply, NotElevated, Answers, Failures
  <2> QED BY <2>1, <2>2, FitsWhere
<1>9. CASE SudoTimesOut
  <2>1. mode' = mode /\ ElevationCounts' /\ action' \in Actions /\ action' = action
    BY <1>0, <1>9 DEF SudoTimesOut, ElevationCounts, ActionAt, requestVars
  <2>2. Goes
    BY <1>9, <2>1 DEF SudoTimesOut, Reply, Continue, Answers, Failures, ActionAt, EPc
  <2> QED BY <2>1, <2>2, FitsWhere
<1>10. CASE Probe
  <2>1. mode' = mode /\ ElevationCounts' /\ action' \in Actions /\ action' = "acquire"
    BY <1>0, <1>10 DEF Probe, ElevationCounts, ActionAt
  <2>2. Goes
    BY <1>10, <2>1 DEF Probe, Reply, Answers, Failures
  <2> QED BY <2>1, <2>2, FitsWhere
<1>11. CASE ElevationLost
  <2>1. mode' = mode /\ ElevationCounts' /\ action' \in Actions
    BY <1>0, <1>11 DEF ElevationLost, ElevationCounts, ActionAt, requestVars
  <2>2. Goes
    BY <1>11 DEF ElevationLost, Reply, Answers, Failures
  <2> QED BY <2>1, <2>2, FitsWhere
<1>12. CASE TicketExpires \/ UNCHANGED elevationVars
  <2>1. UNCHANGED <<mode, epc, action, reply, ran, typed, count>>
    BY <1>12 DEF TicketExpires, requestVars, elevationVars
  <2> QED BY <2>1 DEF TypesInv, ElevationKinds, ElevationCounts, ActionAt, ReplyFits
<1> HIDE DEF Rest
<1> QED BY <1>1, <1>2, <1>3, <1>4, <1>5, <1>6, <1>7, <1>8, <1>9, <1>10, <1>11, <1>12 DEF ElevationNext

\* ElevationService.handle: whatever happens to a request, its reply is one its action can
\* give: status tells a state, acquire "acquired", release "released", exec "completed", or an
\* error; a reply of an earlier request never stands for it.
THEOREM ElevationTypes == ElevationSpec => []ElevationTypeOK
<1>1. InitElevation => TypesInv
  <2> SUFFICES ASSUME InitElevation PROVE TypesInv
    OBVIOUS
  <2>1. ElevationFlags
    BY Zenon DEF InitElevation, ElevationFlags
  <2>2. ElevationKinds /\ ElevationCounts /\ ActionAt /\ ReplyFits
    BY ElevationBounds DEF InitElevation, ElevationKinds, ElevationCounts, ActionAt, ReplyFits, EPc
  <2> QED BY <2>1, <2>2 DEF TypesInv
<1>2. TypesInv => ElevationTypeOK
  <2> SUFFICES ASSUME TypesInv PROVE ElevationTypeOK
    OBVIOUS
  <2>1. ASSUME NEW a \in Actions, Answers(a, reply) PROVE reply \in Failures \union Successes[a]
    BY <2>1 DEF Answers, Successes, Actions
  <2>2. reply \in {Absent} \union Failures \union
                  IF epc = "idle" /\ action # Absent THEN Successes[action]
                  ELSE UNION {Successes[a] : a \in Actions}
    <3>1. CASE epc = "idle" /\ action # Absent
      <4>1. action \in Actions /\ Answers(action, reply)
        BY <3>1 DEF TypesInv, ElevationKinds, ReplyFits
      <4>2. reply \in Failures \union Successes[action]
        BY <2>1, <4>1
      <4> QED BY <3>1, <4>2
    <3>2. CASE ~ (epc = "idle" /\ action # Absent)
      <4>1. reply = Absent \/ \E a \in Actions : reply \in Failures \union Successes[a]
        BY <2>1, Zenon DEF TypesInv, ReplyFits
      <4> QED BY <3>2, <4>1
    <3> QED BY <3>1, <3>2
  <2>3. mode \in Modes /\ epc \in EPc /\ action \in Actions \union {Absent}
        /\ ran \in Nat /\ typed \in Nat /\ count \in 0..MaxElevations
    BY DEF TypesInv, ElevationKinds, ElevationCounts
  <2>4. usable \in BOOLEAN /\ {ticket, nopasswd} \subseteq BOOLEAN /\ granted \in BOOLEAN
    BY Zenon DEF TypesInv, ElevationFlags
  <2> QED BY <2>2, <2>3, <2>4, Zenon DEF ElevationTypeOK
<1> QED
  BY <1>1, <1>2, ElevationTypesStep, PTL DEF ElevationSpec

-----------------------------------------------------------------------------
(* Structured remote files.                                                *)

\* A file system as an argument: what its programs find under a name.
StepIn(f, n) == IF f[n] # None /\ f[n].kind = "link" THEN f[n].to ELSE n
RealpathIn(f, n) ==
  LET last == StepIn(f, StepIn(f, n)) IN
  IF f[last] # None /\ f[last].kind = "link" THEN None ELSE last
FollowedIn(f, n) == IF RealpathIn(f, n) = None THEN None ELSE f[RealpathIn(f, n)]
HashIn(f, n) == TextOf(FollowedIn(f, n))
Is(e, kind) == e # None /\ e.kind = kind
SelectedFor(o, text) ==
  IF o.range = None THEN text
  ELSE SubSeq(text, o.range[1], IF o.range[2] > Len(text) THEN Len(text) ELSE o.range[2])

Interrupted == {"command_timed_out", "file_command_failed", "outcome_unknown"}

\* Where the helper stands between mktemp and mv, where it writes, reads or removes.
Sending  == {"transfer", "verify", "target", "absent", "rehash", "move"}
Placing  == {"mktemp", "trap"} \union Sending
Checked  == {"owner", "after"} \union Placing      \* the hash of the target was compared
Writing  == {"exists", "inspect", "before"} \union Checked
Reading  == {"read_text", "size", "content"}
Removing == {"expected", "remove", "rm"}

FileTypes ==
  /\ op \in Requests /\ DOMAIN fs = Paths /\ DOMAIN local = DOMAIN Blank
  /\ \A n \in Paths : IsEntry(fs[n])
  /\ moved \in {"no", "early", "late"}
  /\ foreign \in 0..MaxForeign
  /\ moved # "no" => foreign + 1 <= MaxForeign
  /\ fpc # "ended" => answer \in {None, Raised("outcome_unknown")}

TextsMeant ==
  \A n \in Paths : Is(fs[n], "file") =>
    /\ fs[n].text \in MeantTexts
    /\ fpc \notin {"after", "made", "ended"} => fs[n].text \in FoundTexts

\* The action a helper is at work for, and the name it resolved.
PcAction ==
  /\ fpc = "resolve" => op.action \in ReadActions \union {"apply_patch"}
  /\ fpc \in Reading => op.action \in {"read_text", "apply_patch"} /\ local.target \in Paths
  /\ fpc \in {"list", "search_text", "rows", "stat", "hash"} => op.action # "read_text"
  /\ fpc = "patch" => op.action = "apply_patch"
  /\ fpc \in Writing => op.action \in {"write_text", "apply_patch"}
  /\ fpc \in {"before", "owner"} \union Placing => local.target \in Paths
  /\ fpc \in {"mkdir", "made"} => op.action = "mkdir" /\ op.path \in Names
  /\ fpc = "reference" => op.action \in {"rename", "remove"}
  /\ fpc = "new_entry" => op.action \in {"mkdir", "rename"}
  /\ fpc \in {"rename", "mv"} => op.action = "rename"
  /\ fpc \in Removing => op.action = "remove" /\ local.target \in Paths
  /\ did # None => fpc \in {"after", "made", "ended"}
  /\ fpc = "made" /\ moved = "no" => fs[op.path] = Dir("nothing")

TempKept ==
  /\ temp # None => fpc \in Sending \union {"trap", "ended"}
  /\ fpc \in Sending => trapped = TRUE
  /\ fpc \in {"target", "absent", "rehash", "move"} => temp = NewText

\* What a read keeps is so while nobody else changes the directory.
ReadKeeps ==
  /\ fpc \in {"size", "content"} => local.sha # None
  /\ moved = "no" =>
       /\ fpc \in Reading => local.target = RealpathIn(fs, op.path)
       /\ fpc \in {"size", "content"} => local.sha = HashIn(fs, local.target)
       /\ fpc = "content" => local.size = Len(SelectedFor(op, local.sha))

\* The write of a patch: what it expects and what it writes.
PatchKeeps ==
  /\ fpc = "patch" => local.text \in {Shortened(t) : t \in FoundTexts} /\ local.sha # None
  /\ fpc \in Writing =>
       /\ NewText \in MeantTexts
       /\ op.action = "apply_patch" =>
            local.sha # None /\ (op.expected # None => local.sha = op.expected)

\* What a write found before it and what it expects.
WriteKeeps ==
  /\ fpc \in {"request", "resolve", "patch", "exists"} \union Reading => local.before = None
  /\ fpc \in {"inspect", "before", "owner"} => local.existing = TRUE
  /\ fpc \in {"mktemp", "trap", "transfer", "verify"} => local.existing = TRUE \/ local.before = None
  /\ fpc = "absent" => local.before = None
  /\ fpc \in Checked /\ Expected # None => local.before = Expected
  /\ fpc = "rehash" /\ moved # "late" => ~Is(fs[local.target], "link")
  /\ fpc = "move" /\ moved # "late" => TextOf(fs[local.target]) = local.before
  /\ fpc \in {"before", "owner"} \union Placing /\ moved = "no" =>
       fs[local.target] = None \/ Is(fs[local.target], "file")

\* A removal under a hash: the target was a file with that text.
RemoveKeeps ==
  op.expected # None /\ moved # "late" =>
    /\ fpc = "remove" => /\ Is(FollowedIn(fs, local.target), "file")
                         /\ HashIn(fs, local.target) = op.expected
    /\ fpc = "rm" => /\ RealpathIn(fs, op.path) = local.target /\ Is(fs[local.target], "file")
                     /\ fs[local.target].text = op.expected

\* With at most one change by others: the text and the hash of the source belong together,
\* or the hash no longer is the one of the file the path leads to.
Few == foreign + 1 >= MaxForeign
Astray == moved # "no" /\ HashIn(fs, op.path) # local.sha
SourceKept ==
  op.action = "apply_patch" /\ Few =>
    /\ fpc = "size" => local.sha = HashIn(fs, local.target) \/ Astray
    /\ fpc = "content" => \/ local.sha = HashIn(fs, local.target) /\ local.size = Len(local.sha)
                          \/ Astray
    /\ fpc = "patch" => \/ local.text = Shortened(local.sha) /\ local.size = Len(local.sha)
                        \/ Astray
    /\ fpc \in {"exists", "inspect"} => local.text = local.sha \/ Astray
    /\ fpc = "before" => \/ local.text = local.sha
                         \/ moved # "no" /\ HashIn(fs, local.target) # local.sha
    /\ fpc \in Checked => local.text = local.sha

\* The invariant while a helper is at work, and what holds once it answered or changed something.
Working == /\ PcAction /\ TempKept /\ ReadKeeps /\ PatchKeeps /\ WriteKeeps
           /\ RemoveKeeps /\ SourceKept

ReadIs(f, o, a) ==
  LET s == SelectedFor(o, a.sha) IN
  /\ a.sha = HashIn(f, RealpathIn(f, o.path))
  /\ a.truncated <=> Len(s) > ByteLimit
  /\ a.text = IF a.truncated THEN SubSeq(s, 1, ByteLimit) ELSE s

ReadExact ==
  answer # None /\ answer.code = "ok" /\ op.action = "read_text" /\ moved = "no" =>
    ReadIs(fs, op, answer)

Reported == /\ NoTemporaryLeft /\ RefusedChangesNothing /\ ResultsAreTrue /\ ReadExact
            /\ GuardedRemoval /\ PatchReplacesItsSource

FilesInv == FileTypes /\ TextsMeant /\ Working /\ Reported

-----------------------------------------------------------------------------
\* What the fields of a request are.
LEMMA RequestFacts ==
  ASSUME op \in Requests
  PROVE  /\ op.action \in ReadActions \union EditActions
         /\ op.path \in Paths /\ op.dest \in Paths
         /\ op.action = "apply_patch" => op.range = None /\ op.patch \in Patches
         /\ op.action = "rename" => op.recursive = FALSE
<1> DEFINE Fine == /\ op.action \in ReadActions \union EditActions
                   /\ op.path \in Paths /\ op.dest \in Paths
                   /\ op.action = "apply_patch" => op.range = None /\ op.patch \in Patches
                   /\ op.action = "rename" => op.recursive = FALSE
<1>1. \A a \in ReadActions \union {"mkdir"}, n \in Paths : op = Request(a, n) => Fine
  BY DEF Request, ReadActions, EditActions
<1>2. \A n \in Names : op = ReadLines(n) \/ op = NotAdmitted(n) => Fine
  BY DEF Request, ReadLines, NotAdmitted, ReadActions, EditActions, Paths
<1>3. \A n \in Paths, h \in Hashes : op = Write(n, h) => Fine
  BY DEF Request, Write, ReadActions, EditActions
<1>4. \A n \in Names, m \in Paths : op = RenameTo(n, m) => Fine
  BY DEF Request, RenameTo, ReadActions, EditActions, Paths
<1>5. \A n \in Paths, h \in Hashes, b \in BOOLEAN : op = Removal(n, h, b) => Fine
  BY DEF Request, Removal, ReadActions, EditActions
<1>6. \A n \in Names, p \in Patches, h \in Hashes : op = PatchUnder(n, p, h) => Fine
  BY DEF Request, PatchUnder, ReadActions, EditActions, Paths
<1> HIDE DEF Fine
<1>7. Fine BY <1>1, <1>2, <1>3, <1>4, <1>5, <1>6, FileBounds DEF Requests, Hashes
<1> QED BY <1>7 DEF Fine

\* The model's tests of the directory are those of the directory as an argument.
LEMMA Seen ==
  \A n : /\ Follow(n) = StepIn(fs, n) /\ realpath(n) = RealpathIn(fs, n)
         /\ Followed(n) = FollowedIn(fs, n) /\ Hash(n) = HashIn(fs, n)
         /\ \A k : IsA(n, k) = Is(FollowedIn(fs, n), k) /\ IsKind(n, k) = Is(fs[n], k)
<1>1. \A n : Follow(n) = StepIn(fs, n) BY DEF Follow, StepIn, IsKind
<1>2. \A n : realpath(n) = RealpathIn(fs, n) BY <1>1 DEF realpath, RealpathIn, IsKind
<1>3. \A n : Followed(n) = FollowedIn(fs, n) BY <1>2 DEF Followed, FollowedIn
<1>4. \A n : Hash(n) = HashIn(fs, n) BY <1>3 DEF Hash, HashIn
<1>5. \A n, k : IsA(n, k) = Is(FollowedIn(fs, n), k) BY <1>3 DEF IsA, Is
<1>6. \A n, k : IsKind(n, k) = Is(fs[n], k) BY DEF IsKind, Is
<1> QED BY <1>1, <1>2, <1>3, <1>4, <1>5, <1>6

\* Where a name leads: to a path that is no link, which then leads to itself.
LEMMA Led ==
  ASSUME NEW f, DOMAIN f = Paths, \A n \in Paths : IsEntry(f[n])
  PROVE  \A n \in Paths :
    /\ StepIn(f, n) \in Paths
    /\ RealpathIn(f, n) # None => /\ RealpathIn(f, n) \in Paths /\ ~Is(f[RealpathIn(f, n)], "link")
                                  /\ RealpathIn(f, RealpathIn(f, n)) = RealpathIn(f, n)
                                  /\ FollowedIn(f, n) = f[RealpathIn(f, n)]
    /\ RealpathIn(f, n) = None => FollowedIn(f, n) = None
    /\ ~Is(f[n], "link") => RealpathIn(f, n) = n /\ FollowedIn(f, n) = f[n]
<1>1. \A n \in Paths : StepIn(f, n) \in Paths BY DEF StepIn, IsEntry
<1>2. \A n \in Paths : RealpathIn(f, n) # None => RealpathIn(f, n) \in Paths /\ ~Is(f[RealpathIn(f, n)], "link")
  BY <1>1 DEF RealpathIn, Is
<1>3. \A n \in Paths : ~Is(f[n], "link") => RealpathIn(f, n) = n
  BY DEF RealpathIn, StepIn, Is
<1>4. \A n \in Paths : ~Is(f[n], "link") => FollowedIn(f, n) = f[n]
  BY <1>3, NamesAssumption DEF FollowedIn
<1>5. \A n : RealpathIn(f, n) # None => FollowedIn(f, n) = f[RealpathIn(f, n)]
  BY DEF FollowedIn
<1>6. \A n : RealpathIn(f, n) = None => FollowedIn(f, n) = None
  BY DEF FollowedIn
<1> QED BY <1>1, <1>2, <1>3, <1>4, <1>5, <1>6

\* What is read under a name is a text somebody meant.
LEMMA TextsRead ==
  ASSUME FileTypes, TextsMeant
  PROVE  \A n \in Paths :
    /\ HashIn(fs, n) \in MeantTexts \union {None}
    /\ fpc \notin {"after", "made", "ended"} => HashIn(fs, n) \in FoundTexts \union {None}
    /\ Is(FollowedIn(fs, n), "file") => HashIn(fs, n) = FollowedIn(fs, n).text /\ HashIn(fs, n) # None
<1> TAKE n \in Paths
<1>1. DOMAIN fs = Paths /\ \A m \in Paths : IsEntry(fs[m]) BY DEF FileTypes
<1>2. \/ FollowedIn(fs, n) = None
      \/ RealpathIn(fs, n) \in Paths /\ FollowedIn(fs, n) = fs[RealpathIn(fs, n)]
  BY <1>1, Led
<1>3. Is(FollowedIn(fs, n), "file") => HashIn(fs, n) = FollowedIn(fs, n).text
  BY DEF HashIn, TextOf, Is
<1>4. ~Is(FollowedIn(fs, n), "file") => HashIn(fs, n) = None
  BY DEF HashIn, TextOf, Is
<1>5. Is(FollowedIn(fs, n), "file") => /\ HashIn(fs, n) \in MeantTexts
                                       /\ fpc \notin {"after", "made", "ended"} => HashIn(fs, n) \in FoundTexts
  BY <1>2, <1>3 DEF TextsMeant, Is
<1> QED BY <1>3, <1>4, <1>5, TextsAssumption

-----------------------------------------------------------------------------
(* Steps that leave the directory alone.                                   *)

Env1 == UNCHANGED <<fs, did, op, foreign, moved>>

\* What a refusal may say once something was changed.
TruthfulCodes == {"ok", "replace_failed", "rename_failed", "mkdir_failed", "remove_failed",
                  "command_timed_out", "file_command_failed", "outcome_unknown",
                  "file_protocol_error"}

\* Types and texts when neither the directory nor the request changes.
LEMMA QuietTypes ==
  ASSUME FileTypes, TextsMeant, Env1, DOMAIN local' = DOMAIN local,
         fpc' # "ended" => answer' \in {None, Raised("outcome_unknown")},
         fpc \in {"after", "made", "ended"} => fpc' \in {"after", "made", "ended"}
  PROVE  FileTypes' /\ TextsMeant'
BY DEF FileTypes, TextsMeant, Env1

\* The helper ends, or the service refuses, and nothing else happens.
LEMMA EndStep ==
  ASSUME FilesInv, fpc # "ended", fpc' = "ended", Env1, local' = local,
         NEW a, answer' = IF answer = None THEN a ELSE answer,
         temp' = None \/ answer'.code \in Interrupted,
         \/ did = None \/ a.code \in TruthfulCodes
         \/ a.code = "path_outside_roots" /\ op.action = "mkdir" /\ moved # "no",
         a.code = "ok" /\ op.action = "read_text" /\ moved = "no" => ReadIs(fs, op, a)
  PROVE  FilesInv'
<1>1. FileTypes' /\ TextsMeant' BY QuietTypes DEF FilesInv
<1>2. Working'
  BY DEF FilesInv, Working, PcAction, TempKept, ReadKeeps, PatchKeeps, WriteKeeps, RemoveKeeps,
         SourceKept, Sending, Placing, Checked, Writing, Reading, Removing
<1>3. answer' = a \/ answer' = Raised("outcome_unknown")
  BY DEF FilesInv, FileTypes
<1>4. NoTemporaryLeft' BY DEF FilesInv, Reported, NoTemporaryLeft, Interrupted, Env1
<1>5. RefusedChangesNothing'
  BY <1>3 DEF RefusedChangesNothing, TruthfulCodes, Env1, Raised
<1>6. ResultsAreTrue' /\ GuardedRemoval' /\ PatchReplacesItsSource'
  BY DEF FilesInv, Reported, ResultsAreTrue, GuardedRemoval, PatchReplacesItsSource, NewText, Env1
<1>7. ReadExact'
  BY <1>3 DEF ReadExact, Raised, Env1
<1> QED BY <1>1, <1>2, <1>4, <1>5, <1>6, <1>7 DEF FilesInv, Reported

\* The helper or the service goes on.
LEMMA GoesOn ==
  ASSUME FilesInv, fpc \notin {"after", "made", "ended"}, fpc' # "ended", Env1, answer' = answer,
         DOMAIN local' = DOMAIN local, Working'
  PROVE  FilesInv'
<1>1. FileTypes' /\ TextsMeant' BY QuietTypes DEF FilesInv, FileTypes
<1>2. did' = None BY DEF Env1, FilesInv, Working, PcAction
<1>3. answer' = None \/ answer'.code # "ok"
  BY DEF FilesInv, FileTypes, Raised
<1>4. Reported'
  BY <1>2, <1>3 DEF Reported, NoTemporaryLeft, RefusedChangesNothing, ResultsAreTrue,
     GuardedRemoval, PatchReplacesItsSource, ReadExact
<1> QED BY <1>1, <1>4 DEF FilesInv

\* Errors, results and refusals while nothing was changed yet.
LEMMA ErrorStep ==
  ASSUME FilesInv, did = None, fpc \notin {"ended", "trap"}, Env1,
         NEW code, code # "ok", _serverops_error(code)
  PROVE  FilesInv'
<1>1. Raised(code).code # "ok" BY DEF Raised
<1>2. temp' = None BY DEF FilesInv, Working, TempKept, _serverops_error, Exit
<1>3. /\ fpc' = "ended" /\ local' = local
      /\ answer' = IF answer = None THEN Raised(code) ELSE answer
  BY DEF _serverops_error, Exit, Answered
<1> QED BY <1>1, <1>2, <1>3, EndStep

\* A result while nothing was changed yet.
LEMMA FinishStep ==
  ASSUME FilesInv, did = None, fpc \notin {"ended", "trap"}, Env1,
         NEW a, _serverops_finish(a),
         op.action = "read_text" /\ moved = "no" => ReadIs(fs, op, a)
  PROVE  FilesInv'
<1>1. temp' = None BY DEF FilesInv, Working, TempKept, _serverops_finish, Exit
<1>2. fpc' = "ended" /\ local' = local BY DEF _serverops_finish, Exit
<1>3. CASE answer' = IF answer = None THEN a ELSE answer
  BY <1>1, <1>2, <1>3, EndStep
<1>4. CASE answer' = IF answer = None THEN Raised("file_protocol_error") ELSE answer
  <2>1. Raised("file_protocol_error").code # "ok" BY DEF Raised
  <2> QED BY <1>1, <1>2, <1>4, <2>1, EndStep
<1> QED BY <1>3, <1>4 DEF _serverops_finish, Answered

\* A refusal by the service, outside a helper.
LEMMA RefuseStep ==
  ASSUME FilesInv, did = None, fpc \in {"request", "patch", "content"}, Env1,
         NEW code, code # "ok", Refuse(code)
  PROVE  FilesInv'
<1>1. Raised(code).code # "ok" BY DEF Raised
<1>2. temp' = None BY DEF FilesInv, Working, TempKept, Refuse, ScriptVars, Sending
<1>3. /\ fpc' = "ended" /\ local' = local
      /\ answer' = IF answer = None THEN Raised(code) ELSE answer
  BY DEF Refuse, Answered
<1> QED BY <1>1, <1>2, <1>3, EndStep

-----------------------------------------------------------------------------
\* The service admits or refuses the request.
LEMMA BeginStep == ASSUME FilesInv, Begin PROVE FilesInv'
<1>1. Env1 /\ did = None /\ fpc = "request"
  BY DEF FilesInv, Working, PcAction, Begin, Env1, Untouched, Env
<1>2. CASE ~op.admitted
  BY <1>1, <1>2, RefuseStep DEF Begin
<1>3. CASE op.admitted
  <2>1. /\ answer' = answer /\ local' = local /\ temp' = temp /\ trapped' = trapped
        /\ fpc' \in {"resolve", "exists", "new_entry", "reference"}
        /\ fpc' = "resolve" => op.action \in ReadActions \union {"apply_patch"}
        /\ fpc' = "exists" => op.action = "write_text"
        /\ fpc' = "new_entry" => op.action = "mkdir"
        /\ fpc' = "reference" => op.action \notin ReadActions \union {"apply_patch", "write_text", "mkdir"}
    BY <1>3 DEF Begin, Goto, Keep, ScriptVars
  <2>2. op.action \in ReadActions \union EditActions /\ op' = op
    BY <1>1, RequestFacts DEF FilesInv, FileTypes, Env1
  <2>3. Working'
    BY <1>1, <2>1, <2>2 DEF FilesInv, Working, PcAction, TempKept, ReadKeeps, PatchKeeps,
       WriteKeeps, RemoveKeeps, SourceKept, Sending, Placing, Checked, Writing, Reading, Removing,
       EditActions, Env1, NewText, MeantTexts, Astray, Few
  <2> QED BY <1>1, <2>1, <2>3, GoesOn
<1> QED BY <1>2, <1>3

\* What a step that leaves the directory alone starts from.
LEMMA Quiet ==
  ASSUME FilesInv, UNCHANGED <<Untouched, Env>>
  PROVE  /\ Env1 /\ fs' = fs /\ did' = did /\ op' = op /\ foreign' = foreign /\ moved' = moved
         /\ fpc \notin {"after", "made", "ended"} => did = None
         /\ op \in Requests /\ DOMAIN fs = Paths /\ \A n \in Paths : IsEntry(fs[n])
         /\ DOMAIN local = {"existing", "target", "before", "sha", "size", "text", "names", "write"}
BY DEF FilesInv, FileTypes, Working, PcAction, Env1, Untouched, Env, Blank

\* One lemma per step of a helper from here on: resolving the path of a read or a patch.
LEMMA ResolveStep == ASSUME FilesInv, Resolve PROVE FilesInv'
<1>1. UNCHANGED <<Untouched, Env>> /\ fpc = "resolve" BY DEF Resolve
<1>2. \/ \E code : code # "ok" /\ _serverops_error(code)
      \/ /\ RealpathIn(fs, op.path) # None
         /\ fpc' = IF op.action = "apply_patch" THEN "read_text" ELSE op.action
         /\ local' = [local EXCEPT !.target = RealpathIn(fs, op.path)]
         /\ answer' = answer /\ temp' = temp /\ trapped' = trapped
  BY Seen DEF Resolve, Keep, ScriptVars
<1>3. CASE \E code : code # "ok" /\ _serverops_error(code)
  BY <1>1, <1>3, Quiet, ErrorStep
<1>4. ASSUME RealpathIn(fs, op.path) # None,
             fpc' = IF op.action = "apply_patch" THEN "read_text" ELSE op.action,
             local' = [local EXCEPT !.target = RealpathIn(fs, op.path)],
             answer' = answer /\ temp' = temp /\ trapped' = trapped
      PROVE  FilesInv'
  <2>1. op.path \in Paths /\ op.action \in ReadActions \union {"apply_patch"}
    BY <1>1, Quiet, RequestFacts DEF FilesInv, Working, PcAction
  <2>2. RealpathIn(fs, op.path) \in Paths BY <1>1, <1>4, <2>1, Quiet, Led
  <2>3. /\ local'.target = RealpathIn(fs, op.path) /\ local'.before = local.before
        /\ DOMAIN local' = DOMAIN local
    BY <1>1, <1>4, Quiet
  <2>4. fpc' \in {"list", "stat", "hash", "read_text", "search_text"}
    BY <1>4, <2>1 DEF ReadActions
  <2>5. Working'
    BY <1>1, <1>4, <2>1, <2>2, <2>3, <2>4, Quiet DEF FilesInv, Working, PcAction, TempKept,
       ReadKeeps, PatchKeeps, WriteKeeps, RemoveKeeps, SourceKept, Sending, Placing, Checked,
       Writing, Reading, Removing
  <2> QED BY <1>1, <1>4, <2>3, <2>4, <2>5, Quiet, GoesOn
<1> QED BY <1>2, <1>3, <1>4

\* list, search_text and stat keep names, and answer.
LEMMA LookStep ==
  ASSUME FilesInv, ListNames \/ SearchFiles \/ Rows \/ Stat
  PROVE  FilesInv'
<1>1. UNCHANGED <<Untouched, Env>> /\ fpc \in {"list", "search_text", "rows", "stat"}
  BY DEF ListNames, SearchFiles, Rows, Stat
<1>2. \/ \E code : code # "ok" /\ _serverops_error(code)
      \/ \E a : _serverops_finish(a)
      \/ /\ fpc' = "rows" /\ answer' = answer /\ temp' = temp /\ trapped' = trapped
         /\ \E names : local' = [local EXCEPT !.names = names]
  BY DEF ListNames, SearchFiles, Rows, Stat, Keep, ScriptVars
<1>3. CASE \E code : code # "ok" /\ _serverops_error(code)
  BY <1>1, <1>3, Quiet, ErrorStep
<1>4. op.action # "read_text"
  BY <1>1 DEF FilesInv, Working, PcAction
<1>5. CASE \E a : _serverops_finish(a)
  BY <1>1, <1>4, <1>5, Quiet, FinishStep
<1>6. ASSUME fpc' = "rows" /\ answer' = answer /\ temp' = temp /\ trapped' = trapped,
             NEW names, local' = [local EXCEPT !.names = names]
      PROVE  FilesInv'
  <2>1. DOMAIN local' = DOMAIN local BY <1>1, <1>6, Quiet
  <2>2. Working'
    BY <1>1, <1>6, Quiet DEF FilesInv, Working, PcAction, TempKept, ReadKeeps, PatchKeeps,
       WriteKeeps, RemoveKeeps, SourceKept, Sending, Placing, Checked, Writing, Reading,
       Removing
  <2> QED BY <1>1, <1>6, <2>1, <2>2, Quiet, GoesOn
<1> QED BY <1>2, <1>3, <1>5, <1>6

\* The hash that a read keeps belongs to what the path leads to.
LEMMA HashFileStep == ASSUME FilesInv, HashFile PROVE FilesInv'
<1>1. UNCHANGED <<Untouched, Env>> /\ fpc \in {"hash", "read_text"} BY DEF HashFile
<1>2. \/ \E code : code # "ok" /\ _serverops_error(code)
      \/ fpc = "hash" /\ \E a : _serverops_finish(a)
      \/ /\ fpc = "read_text" /\ Is(FollowedIn(fs, local.target), "file")
         /\ fpc' = "size" /\ answer' = answer /\ temp' = temp /\ trapped' = trapped
         /\ local' = [local EXCEPT !.sha = HashIn(fs, local.target)]
  BY <1>1, Seen DEF HashFile, Keep, ScriptVars
<1>3. CASE \E code : code # "ok" /\ _serverops_error(code)
  BY <1>1, <1>3, Quiet, ErrorStep
<1>4. CASE fpc = "hash" /\ \E a : _serverops_finish(a)
  <2>1. op.action # "read_text" BY <1>4 DEF FilesInv, Working, PcAction
  <2> QED BY <1>1, <1>4, <2>1, Quiet, FinishStep
<1>5. ASSUME fpc = "read_text", Is(FollowedIn(fs, local.target), "file"),
             fpc' = "size" /\ answer' = answer /\ temp' = temp /\ trapped' = trapped,
             local' = [local EXCEPT !.sha = HashIn(fs, local.target)]
      PROVE  FilesInv'
  <2>1. local.target \in Paths /\ op.action \in {"read_text", "apply_patch"}
    BY <1>5 DEF FilesInv, Working, PcAction, Reading
  <2>2. HashIn(fs, local.target) # None BY <1>5, <2>1, TextsRead DEF FilesInv
  <2>3. /\ local'.sha = HashIn(fs, local.target) /\ local'.target = local.target
        /\ local'.before = local.before /\ DOMAIN local' = DOMAIN local
    BY <1>1, <1>5, Quiet
  <2>4. Working'
    BY <1>1, <1>5, <2>1, <2>2, <2>3, Quiet DEF FilesInv, Working, PcAction, TempKept,
       ReadKeeps, PatchKeeps, WriteKeeps, RemoveKeeps, SourceKept, Sending, Placing, Checked,
       Writing, Reading, Removing
  <2> QED BY <1>1, <1>5, <2>3, <2>4, Quiet, GoesOn
<1> QED BY <1>2, <1>3, <1>4, <1>5

\* The size that a read keeps.
LEMMA MeasureStep == ASSUME FilesInv, MeasureText PROVE FilesInv'
<1> DEFINE text == HashIn(fs, local.target)
<1>1. UNCHANGED <<Untouched, Env>> /\ fpc = "size" BY DEF MeasureText
<1>2. \/ \E code : code # "ok" /\ _serverops_error(code)
      \/ /\ fpc' = "content" /\ answer' = answer /\ temp' = temp /\ trapped' = trapped
         /\ local' = [local EXCEPT !.size = IF text = None THEN 0 ELSE Len(SelectedFor(op, text))]
  BY <1>1, Seen DEF MeasureText, Keep, ScriptVars, Selected, SelectedFor
<1>3. CASE \E code : code # "ok" /\ _serverops_error(code)
  BY <1>1, <1>3, Quiet, ErrorStep
<1>4. ASSUME fpc' = "content" /\ answer' = answer /\ temp' = temp /\ trapped' = trapped,
             local' = [local EXCEPT !.size = IF text = None THEN 0 ELSE Len(SelectedFor(op, text))]
      PROVE  FilesInv'
  <2>1. /\ local'.sha = local.sha /\ local'.target = local.target
        /\ text # None => local'.size = Len(SelectedFor(op, text))
        /\ local'.before = local.before /\ DOMAIN local' = DOMAIN local
    BY <1>1, <1>4, Quiet
  <2>2. op.action = "apply_patch" => SelectedFor(op, text) = text
    BY <1>1, Quiet, RequestFacts DEF SelectedFor
  <2>3. Working'
    BY <1>1, <1>4, <2>1, <2>2, Quiet DEF FilesInv, Astray, Few, Working, PcAction, TempKept,
       ReadKeeps, PatchKeeps, WriteKeeps, RemoveKeeps, SourceKept, Sending, Placing, Checked,
       Writing, Reading, Removing
  <2> QED BY <1>1, <1>4, <2>1, <2>3, Quiet, GoesOn
<1> QED BY <1>2, <1>3, <1>4

\* The text of a read: with the hash and the size it is one state of the file.
LEMMA ReadContentStep == ASSUME FilesInv, ReadContent PROVE FilesInv'
<1> DEFINE hash == HashIn(fs, local.target)
           text == IF hash = None THEN <<>> ELSE Shortened(SelectedFor(op, hash))
           result == [code |-> "ok", status |-> "completed", sha |-> local.sha,
                      text |-> text, truncated |-> local.size > ByteLimit]
<1>1. UNCHANGED <<Untouched, Env>> /\ fpc = "content" BY DEF ReadContent
<1>2. \/ \E code : code # "ok" /\ Refuse(code)
      \/ (op.action # "apply_patch" \/ answer # None) /\ _serverops_finish(result)
      \/ /\ op.action = "apply_patch" /\ fpc' = "patch"
         /\ answer' = answer /\ temp' = temp /\ trapped' = trapped
         /\ local' = [local EXCEPT !.text = text]
  <2>1. Hash(local.target) = hash BY Seen
  <2>2. hash # None => Selected(hash) = SelectedFor(op, hash) BY DEF Selected, SelectedFor
  <2> HIDE DEF hash
  <2> QED BY <1>1, <2>1, <2>2 DEF ReadContent, Keep, ScriptVars
<1>3. CASE \E code : code # "ok" /\ Refuse(code)
  BY <1>1, <1>3, Quiet, RefuseStep
<1>4. ASSUME op.action # "apply_patch" \/ answer # None, _serverops_finish(result) PROVE FilesInv'
  <2>1. ASSUME op.action = "read_text", moved = "no" PROVE ReadIs(fs, op, result)
    <3>1. /\ local.target = RealpathIn(fs, op.path) /\ local.sha = hash /\ local.sha # None
          /\ local.size = Len(SelectedFor(op, local.sha))
      BY <1>1, <2>1 DEF FilesInv, Working, ReadKeeps, Reading
    <3>2. result.sha = local.sha /\ result.text = Shortened(SelectedFor(op, local.sha))
      BY <3>1
    <3>3. result.truncated <=> Len(SelectedFor(op, local.sha)) > ByteLimit
      BY <3>1
    <3> QED BY <3>1, <3>2, <3>3 DEF ReadIs, Shortened
  <2> HIDE DEF result
  <2> QED BY <1>1, <1>4, <2>1, Quiet, FinishStep
<1>5. ASSUME op.action = "apply_patch" /\ fpc' = "patch",
             answer' = answer /\ temp' = temp /\ trapped' = trapped,
             local' = [local EXCEPT !.text = text]
      PROVE  FilesInv'
  <2>1. /\ local'.sha = local.sha /\ local'.text = text /\ local'.size = local.size
        /\ local'.before = local.before /\ DOMAIN local' = DOMAIN local
    BY <1>1, <1>5, Quiet
  <2>2. hash # None => text = Shortened(hash)
    BY <1>1, <1>5, Quiet, RequestFacts DEF SelectedFor
  <2>3. hash \in FoundTexts \union {None}
    BY <1>1, Quiet, TextsRead DEF FilesInv, Working, PcAction, Reading
  <2>4. Shortened(<<>>) = <<>> BY FileBounds DEF Shortened
  <2>5. text \in {Shortened(t) : t \in FoundTexts}
    BY <2>2, <2>3, <2>4 DEF FoundTexts
  <2> HIDE DEF text
  <2>6. Working'
    BY <1>1, <1>5, <2>1, <2>2, <2>5, Quiet DEF FilesInv, Astray, Few, Working, PcAction,
       TempKept, ReadKeeps, PatchKeeps, WriteKeeps, RemoveKeeps, SourceKept, Sending, Placing,
       Checked, Writing, Reading, Removing
  <2> QED BY <1>1, <1>5, <2>1, <2>6, Quiet, GoesOn
<1> QED BY <1>2, <1>3, <1>4, <1>5

\* The patched text is one somebody meant, and is written under the hash that was read.
LEMMA PatchStep == ASSUME FilesInv, Patch PROVE FilesInv'
<1> DEFINE done == apply_unified_patch(local.text, op.patch)
<1>1. UNCHANGED <<Untouched, Env>> /\ fpc = "patch" BY DEF Patch
<1>2. \/ \E code : code # "ok" /\ Refuse(code)
      \/ /\ ~(local.size > ByteLimit) /\ (op.expected # None => op.expected = local.sha)
         /\ done.code = "ok" /\ fpc' = "exists"
         /\ answer' = answer /\ temp' = temp /\ trapped' = trapped
         /\ local' = [local EXCEPT !.write = done.text]
  BY <1>1 DEF Patch, Keep, ScriptVars
<1>3. CASE \E code : code # "ok" /\ Refuse(code)
  BY <1>1, <1>3, Quiet, RefuseStep
<1>4. ASSUME ~(local.size > ByteLimit), op.expected # None => op.expected = local.sha,
             done.code = "ok", fpc' = "exists",
             answer' = answer /\ temp' = temp /\ trapped' = trapped,
             local' = [local EXCEPT !.write = done.text]
      PROVE  FilesInv'
  <2>1. /\ local'.sha = local.sha /\ local'.text = local.text /\ local'.write = done.text
        /\ local'.before = local.before /\ DOMAIN local' = DOMAIN local
    BY <1>1, <1>4, Quiet
  <2>2. op.action = "apply_patch" /\ op.patch \in Patches
    BY <1>1, Quiet, RequestFacts DEF FilesInv, Working, PcAction
  <2>3. PICK t \in FoundTexts : local.text = Shortened(t)
    BY <1>1 DEF FilesInv, Working, PatchKeeps
  <2>4. done \in Patched BY <1>4, <2>2, <2>3 DEF Patched
  <2>5. local'.write \in MeantTexts BY <2>1, <2>4 DEF MeantTexts
  <2>6. local.text = Shortened(local.sha) /\ local.size = Len(local.sha) => local.text = local.sha
    BY <1>4 DEF Shortened
  <2> HIDE DEF done
  <2>7. Working'
    BY <1>1, <1>4, <2>1, <2>2, <2>5, <2>6, Quiet DEF FilesInv, NewText, Astray, Few, Working,
       PcAction, TempKept, ReadKeeps, PatchKeeps, WriteKeeps, RemoveKeeps, SourceKept, Sending,
       Placing, Checked, Writing, Reading, Removing
  <2> QED BY <1>1, <1>4, <2>1, <2>7, Quiet, GoesOn
<1> QED BY <1>2, <1>3, <1>4

-----------------------------------------------------------------------------
\* A write begins: something is there, or nothing may be expected.
LEMMA TestExistsStep == ASSUME FilesInv, TestExists PROVE FilesInv'
<1>1. UNCHANGED <<Untouched, Env>> /\ fpc = "exists" BY DEF TestExists
<1>2. \/ \E code : code # "ok" /\ _serverops_error(code)
      \/ /\ fpc' = "inspect" /\ answer' = answer /\ temp' = temp /\ trapped' = trapped
         /\ local' = [local EXCEPT !.existing = TRUE]
      \/ /\ fpc' = "mktemp" /\ answer' = answer /\ temp' = temp /\ trapped' = trapped
         /\ Expected = None /\ fs[op.path] = None
         /\ local' = [local EXCEPT !.existing = FALSE, !.target = op.path]
  BY <1>1 DEF TestExists, Keep, ScriptVars
<1>3. CASE \E code : code # "ok" /\ _serverops_error(code)
  BY <1>1, <1>3, Quiet, ErrorStep
<1>4. ASSUME fpc' = "inspect" /\ answer' = answer /\ temp' = temp /\ trapped' = trapped,
             local' = [local EXCEPT !.existing = TRUE]
      PROVE  FilesInv'
  <2>1. /\ local'.sha = local.sha /\ local'.text = local.text /\ local'.write = local.write
        /\ local'.existing = TRUE /\ DOMAIN local' = DOMAIN local
    BY <1>1, <1>4, Quiet
  <2>2. Working'
    BY <1>1, <1>4, <2>1, Quiet DEF FilesInv, NewText, Astray, Few, Working, PcAction, TempKept,
       ReadKeeps, PatchKeeps, WriteKeeps, RemoveKeeps, SourceKept, Sending, Placing, Checked,
       Writing, Reading, Removing
  <2> QED BY <1>1, <1>4, <2>1, <2>2, Quiet, GoesOn
<1>5. ASSUME fpc' = "mktemp" /\ answer' = answer /\ temp' = temp /\ trapped' = trapped,
             Expected = None, fs[op.path] = None,
             local' = [local EXCEPT !.existing = FALSE, !.target = op.path]
      PROVE  FilesInv'
  <2>1. /\ local'.sha = local.sha /\ local'.text = local.text /\ local'.write = local.write
        /\ local'.before = local.before /\ local'.target = op.path /\ DOMAIN local' = DOMAIN local
    BY <1>1, <1>5, Quiet
  <2>2. op.action = "write_text" /\ op.path \in Paths
    BY <1>1, <1>5, Quiet, RequestFacts DEF FilesInv, Working, PcAction, PatchKeeps, Writing,
       Expected
  <2>3. Working'
    BY <1>1, <1>5, <2>1, <2>2, Quiet DEF FilesInv, NewText, Expected, Few, Working, PcAction,
       TempKept, ReadKeeps, PatchKeeps, WriteKeeps, RemoveKeeps, SourceKept, Sending, Placing,
       Checked, Writing, Reading, Removing
  <2> QED BY <1>1, <1>5, <2>1, <2>3, Quiet, GoesOn
<1> QED BY <1>2, <1>3, <1>4, <1>5

\* What a name leads to is what the resolved name leads to.
LEMMA SameHash ==
  ASSUME FileTypes, NEW n \in Paths, RealpathIn(fs, n) # None
  PROVE  /\ HashIn(fs, RealpathIn(fs, n)) = HashIn(fs, n)
         /\ HashIn(fs, n) = TextOf(fs[RealpathIn(fs, n)])
         /\ RealpathIn(fs, n) \in Paths
<1>1. DOMAIN fs = Paths /\ \A m \in Paths : IsEntry(fs[m]) BY DEF FileTypes
<1>2. /\ RealpathIn(fs, n) \in Paths /\ ~Is(fs[RealpathIn(fs, n)], "link")
      /\ FollowedIn(fs, n) = fs[RealpathIn(fs, n)]
  BY <1>1, Led
<1>3. FollowedIn(fs, RealpathIn(fs, n)) = fs[RealpathIn(fs, n)] BY <1>1, <1>2, Led
<1> QED BY <1>2, <1>3 DEF HashIn

\* The target of a write is resolved anew.
LEMMA InspectStep == ASSUME FilesInv, InspectTarget PROVE FilesInv'
<1>1. UNCHANGED <<Untouched, Env>> /\ fpc = "inspect" BY DEF InspectTarget
<1>2. \/ \E code : code # "ok" /\ _serverops_error(code)
      \/ /\ fpc' = "before" /\ answer' = answer /\ temp' = temp /\ trapped' = trapped
         /\ RealpathIn(fs, op.path) # None
         /\ Is(FollowedIn(fs, RealpathIn(fs, op.path)), "file")
         /\ local' = [local EXCEPT !.target = RealpathIn(fs, op.path)]
  BY <1>1, Seen DEF InspectTarget, Keep, ScriptVars
<1>3. CASE \E code : code # "ok" /\ _serverops_error(code)
  BY <1>1, <1>3, Quiet, ErrorStep
<1>4. ASSUME fpc' = "before" /\ answer' = answer /\ temp' = temp /\ trapped' = trapped,
             RealpathIn(fs, op.path) # None,
             Is(FollowedIn(fs, RealpathIn(fs, op.path)), "file"),
             local' = [local EXCEPT !.target = RealpathIn(fs, op.path)]
      PROVE  FilesInv'
  <2>1. /\ local'.sha = local.sha /\ local'.text = local.text /\ local'.write = local.write
        /\ local'.existing = local.existing /\ local'.target = RealpathIn(fs, op.path)
        /\ DOMAIN local' = DOMAIN local
    BY <1>1, <1>4, Quiet
  <2>2. RealpathIn(fs, op.path) \in Paths /\ HashIn(fs, RealpathIn(fs, op.path)) = HashIn(fs, op.path)
    BY <1>1, <1>4, Quiet, RequestFacts, SameHash DEF FilesInv
  <2>4. Is(fs[RealpathIn(fs, op.path)], "file")
    <3>1. op.path \in Paths /\ DOMAIN fs = Paths /\ \A m \in Paths : IsEntry(fs[m])
      BY RequestFacts DEF FilesInv, FileTypes
    <3>2. FollowedIn(fs, RealpathIn(fs, op.path)) = fs[RealpathIn(fs, op.path)]
      BY <1>4, <2>2, <3>1, Led
    <3> QED BY <1>4, <3>2
  <2>3. Working'
    BY ZenonT(40), <1>1, <1>4, <2>1, <2>2, <2>4, Quiet DEF FilesInv, NewText, Astray, Few, Working, PcAction,
       TempKept, ReadKeeps, PatchKeeps, WriteKeeps, RemoveKeeps, SourceKept, Sending, Placing,
       Checked, Writing, Reading, Removing
  <2> QED BY <1>1, <1>4, <2>1, <2>3, Quiet, GoesOn
<1> QED BY <1>2, <1>3, <1>4

\* The hash before a write is the expected one.
LEMMA HashBeforeStep == ASSUME FilesInv, HashBefore PROVE FilesInv'
<1>1. UNCHANGED <<Untouched, Env>> /\ fpc = "before" BY DEF HashBefore
<1>2. \/ \E code : code # "ok" /\ _serverops_error(code)
      \/ /\ fpc' = "owner" /\ answer' = answer /\ temp' = temp /\ trapped' = trapped
         /\ Expected # None => HashIn(fs, local.target) = Expected
         /\ local' = [local EXCEPT !.before = HashIn(fs, local.target)]
  BY <1>1, Seen DEF HashBefore, Keep, ScriptVars
<1>3. CASE \E code : code # "ok" /\ _serverops_error(code)
  BY <1>1, <1>3, Quiet, ErrorStep
<1>4. ASSUME fpc' = "owner" /\ answer' = answer /\ temp' = temp /\ trapped' = trapped,
             Expected # None => HashIn(fs, local.target) = Expected,
             local' = [local EXCEPT !.before = HashIn(fs, local.target)]
      PROVE  FilesInv'
  <2>1. /\ local'.sha = local.sha /\ local'.text = local.text /\ local'.write = local.write
        /\ local'.existing = local.existing /\ local'.target = local.target
        /\ local'.before = HashIn(fs, local.target) /\ DOMAIN local' = DOMAIN local
    BY <1>1, <1>4, Quiet
  <2>2. Working'
    BY <1>1, <1>4, <2>1, Quiet DEF FilesInv, NewText, Expected, Few, Working, PcAction,
       TempKept, ReadKeeps, PatchKeeps, WriteKeeps, RemoveKeeps, SourceKept, Sending, Placing,
       Checked, Writing, Reading, Removing
  <2> QED BY <1>1, <1>4, <2>1, <2>2, Quiet, GoesOn
<1> QED BY <1>2, <1>3, <1>4

\* From the owner's test to the verified temporary file.
LEMMA PlaceStep ==
  ASSUME FilesInv, TestOwner \/ MakeTemp \/ SetTrap \/ Transfer \/ VerifyTemp
  PROVE  FilesInv'
<1>1. UNCHANGED <<Untouched, Env>> /\ fpc \in {"owner", "mktemp", "trap", "transfer", "verify"}
  BY DEF TestOwner, MakeTemp, SetTrap, Transfer, VerifyTemp, Untouched, Env
<1>2. \/ fpc # "trap" /\ \E code : code # "ok" /\ _serverops_error(code)
      \/ /\ local' = local /\ answer' = answer
         /\ \/ fpc = "owner" /\ fpc' = "mktemp" /\ temp' = temp /\ trapped' = trapped
            \/ fpc = "mktemp" /\ fpc' = "trap" /\ trapped' = trapped
            \/ fpc = "trap" /\ fpc' = "transfer" /\ trapped' = TRUE
            \/ fpc = "transfer" /\ fpc' = "verify" /\ trapped' = trapped
            \/ /\ fpc = "verify" /\ temp = NewText /\ temp' = temp /\ trapped' = trapped
               /\ fpc' = IF local.existing THEN "target" ELSE "absent"
  BY <1>1 DEF TestOwner, MakeTemp, SetTrap, Transfer, VerifyTemp, Goto, Keep, ScriptVars
<1>3. CASE fpc # "trap" /\ \E code : code # "ok" /\ _serverops_error(code)
  BY <1>1, <1>3, Quiet, ErrorStep
<1>4. ASSUME local' = local, answer' = answer, fpc' # "ended", Working' PROVE FilesInv'
  BY <1>1, <1>4, Quiet, GoesOn
<1>5. CASE local' = local /\ answer' = answer /\ fpc = "owner" /\ fpc' = "mktemp" /\ temp' = temp /\ trapped' = trapped
  BY ZenonT(40), <1>1, <1>4, <1>5, Quiet DEF FilesInv, NewText, Expected, Few, Working, PcAction, TempKept,
     ReadKeeps, PatchKeeps, WriteKeeps, RemoveKeeps, SourceKept, Sending, Placing, Checked,
     Writing, Reading, Removing
<1>6. CASE local' = local /\ answer' = answer /\ fpc = "mktemp" /\ fpc' = "trap" /\ trapped' = trapped
  BY ZenonT(40), <1>1, <1>4, <1>6, Quiet DEF FilesInv, NewText, Expected, Few, Working, PcAction, TempKept,
     ReadKeeps, PatchKeeps, WriteKeeps, RemoveKeeps, SourceKept, Sending, Placing, Checked,
     Writing, Reading, Removing
<1>7. CASE local' = local /\ answer' = answer /\ fpc = "trap" /\ fpc' = "transfer" /\ trapped' = TRUE
  BY ZenonT(40), <1>1, <1>4, <1>7, Quiet DEF FilesInv, NewText, Expected, Few, Working, PcAction, TempKept,
     ReadKeeps, PatchKeeps, WriteKeeps, RemoveKeeps, SourceKept, Sending, Placing, Checked,
     Writing, Reading, Removing
<1>8. CASE local' = local /\ answer' = answer /\ fpc = "transfer" /\ fpc' = "verify" /\ trapped' = trapped
  BY ZenonT(40), <1>1, <1>4, <1>8, Quiet DEF FilesInv, NewText, Expected, Few, Working, PcAction, TempKept,
     ReadKeeps, PatchKeeps, WriteKeeps, RemoveKeeps, SourceKept, Sending, Placing, Checked,
     Writing, Reading, Removing
<1>9. CASE /\ local' = local /\ answer' = answer /\ fpc = "verify" /\ temp = NewText /\ temp' = temp
           /\ trapped' = trapped /\ fpc' = IF local.existing THEN "target" ELSE "absent"
  BY ZenonT(40), <1>1, <1>4, <1>9, Quiet DEF FilesInv, NewText, Expected, Few, Working, PcAction, TempKept,
     ReadKeeps, PatchKeeps, WriteKeeps, RemoveKeeps, SourceKept, Sending, Placing, Checked,
     Writing, Reading, Removing
<1> QED BY <1>2, <1>3, <1>5, <1>6, <1>7, <1>8, <1>9

\* After the tests of the path the target is no link, or still absent.
LEMMA RecheckTargetStep == ASSUME FilesInv, RecheckTarget PROVE FilesInv'
<1>1. UNCHANGED <<Untouched, Env>> /\ fpc \in {"target", "absent"} BY DEF RecheckTarget
<1>2. \/ \E code : code # "ok" /\ _serverops_error(code)
      \/ /\ local' = local /\ answer' = answer /\ temp' = temp /\ trapped' = trapped
         /\ \/ /\ fpc = "target" /\ fpc' = "rehash"
               /\ RealpathIn(fs, op.path) = local.target
            \/ /\ fpc = "absent" /\ fpc' = "move" /\ fs[local.target] = None
  BY <1>1, Seen DEF RecheckTarget, Goto, Keep, ScriptVars
<1>3. CASE \E code : code # "ok" /\ _serverops_error(code)
  BY <1>1, <1>3, Quiet, ErrorStep
<1>4. local.target \in Paths /\ local.target # None /\ op.path \in Paths
  BY <1>1, Quiet, RequestFacts, NamesAssumption DEF FilesInv, Working, PcAction, Placing, Sending
<1>5. ASSUME fpc = "target", fpc' = "rehash", RealpathIn(fs, op.path) = local.target,
             local' = local /\ answer' = answer /\ temp' = temp /\ trapped' = trapped
      PROVE  FilesInv'
  <2>1. ~Is(fs[local.target], "link")
    <3>1. DOMAIN fs = Paths /\ \A m \in Paths : IsEntry(fs[m]) BY DEF FilesInv, FileTypes
    <3> QED BY <1>4, <1>5, <3>1, Led
  <2>2. Working'
    BY ZenonT(40), <1>1, <1>4, <1>5, <2>1, Quiet DEF FilesInv, NewText, Expected, Few, Working,
         PcAction, TempKept, ReadKeeps, PatchKeeps, WriteKeeps, RemoveKeeps, SourceKept,
         Sending, Placing, Checked, Writing, Reading, Removing
  <2> QED BY <1>1, <1>5, <2>2, Quiet, GoesOn
<1>6. ASSUME fpc = "absent", fpc' = "move", fs[local.target] = None,
             local' = local /\ answer' = answer /\ temp' = temp /\ trapped' = trapped
      PROVE  FilesInv'
  <2>1. TextOf(fs[local.target]) = local.before
    BY <1>6 DEF FilesInv, Working, WriteKeeps, TextOf
  <2>2. Working'
    BY ZenonT(40), <1>1, <1>4, <1>6, <2>1, Quiet DEF FilesInv, NewText, Expected, Few, Working,
         PcAction, TempKept, ReadKeeps, PatchKeeps, WriteKeeps, RemoveKeeps, SourceKept,
         Sending, Placing, Checked, Writing, Reading, Removing
  <2> QED BY <1>1, <1>6, <2>2, Quiet, GoesOn
<1> QED BY <1>2, <1>3, <1>5, <1>6

\* After the last test the target holds what it held before.
LEMMA RehashStep == ASSUME FilesInv, RehashTarget PROVE FilesInv'
<1>1. UNCHANGED <<Untouched, Env>> /\ fpc = "rehash" BY DEF RehashTarget
<1>2. \/ \E code : code # "ok" /\ _serverops_error(code)
      \/ /\ fpc' = "move" /\ local' = local /\ answer' = answer /\ temp' = temp /\ trapped' = trapped
         /\ HashIn(fs, local.target) = local.before
  BY <1>1, Seen DEF RehashTarget, Goto, Keep, ScriptVars
<1>3. CASE \E code : code # "ok" /\ _serverops_error(code)
  BY <1>1, <1>3, Quiet, ErrorStep
<1>4. ASSUME fpc' = "move" /\ local' = local /\ answer' = answer /\ temp' = temp /\ trapped' = trapped,
             HashIn(fs, local.target) = local.before
      PROVE  FilesInv'
  <2>1. local.target \in Paths /\ DOMAIN fs = Paths /\ \A m \in Paths : IsEntry(fs[m])
    BY <1>1, Quiet DEF FilesInv, FileTypes, Working, PcAction, Placing, Sending
  <2>2. moved # "late" => TextOf(fs[local.target]) = local.before
    <3>1. moved # "late" => ~Is(fs[local.target], "link")
      BY <1>1 DEF FilesInv, Working, WriteKeeps
    <3> QED BY <1>4, <2>1, <3>1, Led DEF HashIn
  <2>3. Working'
    BY ZenonT(40), <1>1, <1>4, <2>1, <2>2, Quiet DEF FilesInv, NewText, Expected, Few, Working,
         PcAction, TempKept, ReadKeeps, PatchKeeps, WriteKeeps, RemoveKeeps, SourceKept,
         Sending, Placing, Checked, Writing, Reading, Removing
  <2> QED BY <1>1, <1>4, <2>3, Quiet, GoesOn
<1> QED BY <1>2, <1>3, <1>4

-----------------------------------------------------------------------------
\* What a write reports once the temporary file was moved.
LEMMA VerifyTargetStep == ASSUME FilesInv, VerifyTarget PROVE FilesInv'
<1>1. UNCHANGED <<Untouched, Env>> /\ fpc = "after" BY DEF VerifyTarget
<1>2. op.action # "read_text" /\ temp = None
  BY <1>1 DEF FilesInv, Working, PcAction, TempKept, Writing, Checked, Sending
<1>3. PICK a : /\ a.code \in {"replace_failed", "ok", "file_protocol_error"}
               /\ Exit /\ answer' = IF answer = None THEN a ELSE answer
  <2>1. \/ _serverops_error("replace_failed") \/ \E st : _serverops_finish(Done(st))
    BY DEF VerifyTarget
  <2>2. /\ Raised("replace_failed").code = "replace_failed"
        /\ Raised("file_protocol_error").code = "file_protocol_error"
        /\ \A st : Done(st).code = "ok"
    BY DEF Raised, Done
  <2> QED BY <2>1, <2>2 DEF _serverops_error, _serverops_finish, Answered
<1>4. temp' = None /\ fpc' = "ended" /\ local' = local BY <1>2, <1>3 DEF Exit
<1> QED BY <1>1, <1>2, <1>3, <1>4, Quiet, EndStep DEF TruthfulCodes

\* mkdir refuses what it created only when others interfered.
LEMMA MadeDirectoryStep == ASSUME FilesInv, MadeDirectory PROVE FilesInv'
<1>1. UNCHANGED <<Untouched, Env>> /\ fpc = "made" BY DEF MadeDirectory
<1>2. op.action = "mkdir" /\ temp = None /\ op.path \in Names
  BY <1>1 DEF FilesInv, Working, PcAction, TempKept, Sending
<1>3. moved = "no" => Allowed(realpath(op.path))
  <2>1. moved = "no" => fs[op.path] = Dir("nothing")
    BY <1>1 DEF FilesInv, Working, PcAction
  <2>2. moved = "no" => RealpathIn(fs, op.path) = op.path
    BY <2>1, <1>1, <1>2, Quiet, Led DEF Is, Dir, Paths
  <2> QED BY <2>2, <1>2, Seen DEF Allowed
<1>4. PICK a : /\ \/ a.code \in {"mkdir_failed", "ok", "file_protocol_error"}
                  \/ a.code = "path_outside_roots" /\ moved # "no"
               /\ Exit /\ answer' = IF answer = None THEN a ELSE answer
  <2>1. \/ _serverops_error("mkdir_failed") \/ \E st : _serverops_finish(Done(st))
        \/ moved # "no" /\ _serverops_error("path_outside_roots")
    BY <1>3 DEF MadeDirectory
  <2>2. /\ \A c : Raised(c).code = c
        /\ \A st : Done(st).code = "ok"
    BY DEF Raised, Done
  <2> QED BY <2>1, <2>2 DEF _serverops_error, _serverops_finish, Answered
<1>5. temp' = None /\ fpc' = "ended" /\ local' = local BY <1>2, <1>4 DEF Exit
<1> QED BY <1>1, <1>2, <1>4, <1>5, Quiet, EndStep DEF TruthfulCodes

\* A new name has an allowed parent.
LEMMA NewEntryStep == ASSUME FilesInv, NewEntry PROVE FilesInv'
<1>1. UNCHANGED <<Untouched, Env>> /\ fpc = "new_entry" BY DEF NewEntry
<1>2. op.action \in {"mkdir", "rename"} BY <1>1 DEF FilesInv, Working, PcAction
<1>3. \/ \E code : code # "ok" /\ _serverops_error(code)
      \/ /\ fpc' = op.action /\ local' = local /\ answer' = answer /\ temp' = temp
         /\ trapped' = trapped /\ NewName \in Names
  BY DEF NewEntry, Goto, Keep, ScriptVars, ParentAllowed
<1>4. CASE \E code : code # "ok" /\ _serverops_error(code)
  BY <1>1, <1>4, Quiet, ErrorStep
<1>5. ASSUME fpc' = op.action, local' = local, answer' = answer, temp' = temp,
             trapped' = trapped, NewName \in Names
      PROVE  FilesInv'
  <2>1. Working'
    BY <1>1, <1>2, <1>5, Quiet DEF FilesInv, NewName, Working, PcAction, TempKept, ReadKeeps,
       PatchKeeps, WriteKeeps, RemoveKeeps, SourceKept, Sending, Placing, Checked, Writing,
       Reading, Removing
  <2> QED BY <1>1, <1>2, <1>5, <2>1, Quiet, GoesOn
<1> QED BY <1>3, <1>4, <1>5

\* The entry that a rename or a removal refers to.
LEMMA ReferenceStep == ASSUME FilesInv, ReferenceEntry PROVE FilesInv'
<1>1. UNCHANGED <<Untouched, Env>> /\ fpc = "reference" BY DEF ReferenceEntry
<1>2. op.action \in {"rename", "remove"} BY <1>1 DEF FilesInv, Working, PcAction
<1>3. \/ \E code : code # "ok" /\ _serverops_error(code)
      \/ /\ fpc' = IF op.action = "rename" THEN "new_entry"
                   ELSE IF op.expected # None THEN "expected" ELSE "remove"
         /\ RealpathIn(fs, op.path) # None
         /\ local' = [local EXCEPT !.target = RealpathIn(fs, op.path)]
         /\ answer' = answer /\ temp' = temp /\ trapped' = trapped
  BY Seen DEF ReferenceEntry, Keep, ScriptVars
<1>4. CASE \E code : code # "ok" /\ _serverops_error(code)
  BY <1>1, <1>4, Quiet, ErrorStep
<1>5. ASSUME fpc' = IF op.action = "rename" THEN "new_entry"
                    ELSE IF op.expected # None THEN "expected" ELSE "remove",
             RealpathIn(fs, op.path) # None,
             local' = [local EXCEPT !.target = RealpathIn(fs, op.path)],
             answer' = answer, temp' = temp, trapped' = trapped
      PROVE  FilesInv'
  <2>1. local'.target = RealpathIn(fs, op.path) /\ DOMAIN local' = DOMAIN local
    BY <1>1, <1>5, Quiet
  <2>2. RealpathIn(fs, op.path) \in Paths BY <1>1, <1>5, Quiet, RequestFacts, Led
  <2>3. fpc' \in {"new_entry", "expected", "remove"} BY <1>5
  <2>4. Working'
    BY <1>1, <1>2, <1>5, <2>1, <2>2, <2>3, Quiet DEF FilesInv, Working, PcAction, TempKept,
       ReadKeeps, PatchKeeps, WriteKeeps, RemoveKeeps, SourceKept, Sending, Placing, Checked,
       Writing, Reading, Removing
  <2> QED BY <1>1, <1>5, <2>1, <2>3, <2>4, Quiet, GoesOn
<1> QED BY <1>3, <1>4, <1>5

\* A guarded removal compares the hash of its target.
LEMMA ExpectedHashStep == ASSUME FilesInv, ExpectedHash PROVE FilesInv'
<1>1. UNCHANGED <<Untouched, Env>> /\ fpc = "expected" BY DEF ExpectedHash
<1>2. \/ \E code : code # "ok" /\ _serverops_error(code)
      \/ /\ fpc' = "remove" /\ local' = local /\ answer' = answer /\ temp' = temp /\ trapped' = trapped
         /\ Is(FollowedIn(fs, local.target), "file") /\ HashIn(fs, local.target) = op.expected
  BY Seen DEF ExpectedHash, Goto, Keep, ScriptVars
<1>3. CASE \E code : code # "ok" /\ _serverops_error(code)
  BY <1>1, <1>3, Quiet, ErrorStep
<1>4. ASSUME fpc' = "remove", local' = local, answer' = answer, temp' = temp, trapped' = trapped,
             Is(FollowedIn(fs, local.target), "file"), HashIn(fs, local.target) = op.expected
      PROVE  FilesInv'
  <2>1. Working'
    BY <1>1, <1>4, Quiet DEF FilesInv, Working, PcAction, TempKept, ReadKeeps, PatchKeeps,
       WriteKeeps, RemoveKeeps, SourceKept, Sending, Placing, Checked, Writing, Reading,
       Removing
  <2> QED BY <1>1, <1>4, <2>1, Quiet, GoesOn
<1> QED BY <1>2, <1>3, <1>4

\* The entry leads to the same target as before: a file with the expected text.
LEMMA RecheckEntryStep == ASSUME FilesInv, RecheckEntry PROVE FilesInv'
<1>1. UNCHANGED <<Untouched, Env>> /\ fpc \in {"rename", "remove"} BY DEF RecheckEntry
<1>2. \/ \E code : code # "ok" /\ _serverops_error(code)
      \/ /\ fpc' = IF fpc = "rename" THEN "mv" ELSE "rm"
         /\ local' = local /\ answer' = answer /\ temp' = temp /\ trapped' = trapped
         /\ RealpathIn(fs, op.path) = local.target
  BY Seen DEF RecheckEntry, Goto, Keep, ScriptVars
<1>3. CASE \E code : code # "ok" /\ _serverops_error(code)
  BY <1>1, <1>3, Quiet, ErrorStep
<1>4. ASSUME fpc' = IF fpc = "rename" THEN "mv" ELSE "rm",
             local' = local, answer' = answer, temp' = temp, trapped' = trapped,
             RealpathIn(fs, op.path) = local.target
      PROVE  FilesInv'
  <2>1. ASSUME fpc = "remove", op.expected # None, moved # "late"
        PROVE  Is(fs[local.target], "file") /\ fs[local.target].text = op.expected
    <3>1. /\ local.target \in Paths /\ local.target # None /\ op.path \in Paths
          /\ Is(FollowedIn(fs, local.target), "file") /\ HashIn(fs, local.target) = op.expected
      BY <1>1, <2>1, Quiet, RequestFacts, NamesAssumption
      DEF FilesInv, Working, PcAction, RemoveKeeps, Removing
    <3>2. FollowedIn(fs, local.target) = fs[local.target]
      BY <1>1, <1>4, <3>1, Quiet, Led
    <3> QED BY <3>1, <3>2 DEF HashIn, TextOf, Is
  <2>2. Working'
    BY <1>1, <1>4, <2>1, Quiet DEF FilesInv, Working, PcAction, TempKept, ReadKeeps,
       PatchKeeps, WriteKeeps, RemoveKeeps, SourceKept, Sending, Placing, Checked, Writing,
       Reading, Removing
  <2> QED BY <1>1, <1>4, <2>2, Quiet, GoesOn
<1> QED BY <1>2, <1>3, <1>4

-----------------------------------------------------------------------------
(* Steps that change the directory.                                        *)

\* mv puts the entry under the name, or changes what a directory holds.
LEMMA MvFacts ==
  ASSUME DOMAIN fs = Paths, \A n \in Paths : IsEntry(fs[n])
  PROVE  \A e : \A n \in Paths :
           /\ DOMAIN Mv(fs, e, n) = Paths
           /\ \A m \in Paths : \/ Mv(fs, e, n)[m] \in {fs[m], e}
                               \/ \E x : Mv(fs, e, n)[m] = Dir(x)
<1> TAKE e
<1> TAKE n \in Paths
<1>1. CASE ~Into(n) BY <1>1 DEF Mv
<1>2. CASE Into(n)
  <2> DEFINE d == RealpathIn(fs, n)
  <2>1. realpath(n) = d /\ Is(FollowedIn(fs, n), "dir") BY <1>2, Seen DEF Into
  <2>2. d \in Paths /\ FollowedIn(fs, n) = fs[d] BY <2>1, Led DEF Is
  <2>3. PICK x : Mv(fs, e, n) = [fs EXCEPT ![d] = Dir(x)]
    BY <1>2, <2>1 DEF Mv
  <2> QED BY <2>2, <2>3
<1> QED BY <1>1, <1>2

\* A directory is an entry, and neither a file nor a link.
LEMMA DirFacts == \A x : IsEntry(Dir(x)) /\ ~Is(Dir(x), "file") /\ ~Is(Dir(x), "link")
BY DEF IsEntry, Dir, Is

\* The text that is put in place and the one it displaces.
LEMMA MoveTempStep == ASSUME FilesInv, MoveTemp PROVE FilesInv'
<1> DEFINE e == File(temp, TRUE)
<1>1. /\ fpc = "move" /\ op' = op /\ foreign' = foreign /\ moved' = moved BY DEF MoveTemp, Env
<1>2. CASE _serverops_error("replace_failed") /\ UNCHANGED Untouched
  <2>1. UNCHANGED <<Untouched, Env>> BY <1>1, <1>2 DEF Env
  <2> QED BY <1>1, <1>2, <2>1, Quiet, ErrorStep
<1>3. ASSUME fs' = Mv(fs, e, local.target), did' = Did(local.target, e), temp' = None,
             fpc' = "after", local' = local, answer' = answer, trapped' = trapped
      PROVE  FilesInv'
  <2>1. /\ local.target \in Paths /\ DOMAIN fs = Paths /\ \A n \in Paths : IsEntry(fs[n])
        /\ answer \in {None, Raised("outcome_unknown")}
        /\ op.action \in {"write_text", "apply_patch"} /\ temp = NewText /\ NewText \in MeantTexts
        /\ moved # "late" => TextOf(fs[local.target]) = local.before
        /\ moved = "no" => fs[local.target] = None \/ Is(fs[local.target], "file")
        /\ Expected # None => local.before = Expected
        /\ op.action = "apply_patch" =>
             local.sha # None /\ (op.expected # None => local.sha = op.expected)
        /\ op.action = "apply_patch" /\ Few => local.text = local.sha
    BY <1>1 DEF FilesInv, FileTypes, Working, PcAction, TempKept, ReadKeeps, PatchKeeps,
       WriteKeeps, RemoveKeeps, SourceKept, Sending, Placing, Checked, Writing, Reading,
       Removing
  <2>2. IsEntry(e) /\ e.kind = "file" /\ e.text = temp BY DEF IsEntry, File
  <2> HIDE DEF e
  <2>3. DOMAIN fs' = Paths /\ \A m \in Paths : fs'[m] \in {fs[m], e} \/ \E x : fs'[m] = Dir(x)
    BY <1>3, <2>1, MvFacts
  <2>4. FileTypes'
    <3>1. \A m \in Paths : IsEntry(fs'[m]) BY <2>1, <2>2, <2>3, DirFacts
    <3> QED BY <1>1, <1>3, <2>3, <3>1 DEF FilesInv, FileTypes
  <2>5. TextsMeant'
    BY <1>1, <1>3, <2>1, <2>2, <2>3, DirFacts DEF FilesInv, TextsMeant, Is
  <2>6. Working'
    BY <1>1, <1>3, <2>1 DEF FilesInv, NewText, Expected, Few, Working, PcAction, TempKept,
       ReadKeeps, PatchKeeps, WriteKeeps, RemoveKeeps, SourceKept, Sending, Placing, Checked,
       Writing, Reading, Removing
  <2>7. did'.placed = e /\ did'.displaced = fs[local.target] BY <1>3 DEF Did
  <2>8. NewText' = NewText /\ e = File(NewText, TRUE) BY <1>1, <1>3, <2>1 DEF NewText, e
  <2>9. ResultsAreTrue'
    BY <1>1, <1>3, <2>1, <2>7, <2>8 DEF ResultsAreTrue, Expected
  <2>10. PatchReplacesItsSource'
    BY <1>1, <1>3, <2>1, <2>7 DEF PatchReplacesItsSource, Expected, Few
  <2>11. answer' = None \/ answer'.code = "outcome_unknown" BY <1>3, <2>1 DEF Raised
  <2>12. NoTemporaryLeft' /\ RefusedChangesNothing' /\ ReadExact'
    BY <1>1, <1>3, <2>1, <2>7, <2>11 DEF NoTemporaryLeft, RefusedChangesNothing, ReadExact, Is
  <2>13. GuardedRemoval' BY <1>1, <2>1 DEF GuardedRemoval
  <2> QED BY <2>4, <2>5, <2>6, <2>9, <2>10, <2>12, <2>13 DEF FilesInv, Reported
<1> QED BY <1>2, <1>3 DEF MoveTemp, Goto, Keep

\* mkdir changes the directory.
LEMMA MakeDirectoryStep == ASSUME FilesInv, MakeDirectory PROVE FilesInv'
<1>1. /\ fpc = "mkdir" /\ op' = op /\ foreign' = foreign /\ moved' = moved
  BY DEF MakeDirectory, Env
<1>2. CASE _serverops_error("mkdir_failed") /\ UNCHANGED Untouched
  <2>1. UNCHANGED <<Untouched, Env>> BY <1>1, <1>2 DEF Env
  <2> QED BY <1>1, <1>2, <2>1, Quiet, ErrorStep
<1>3. ASSUME fs' = [fs EXCEPT ![op.path] = Dir("nothing")], did' = Did(op.path, Dir("nothing")),
             fpc' = "made", local' = local, answer' = answer, temp' = temp, trapped' = trapped
      PROVE  FilesInv'
  <2>1. /\ DOMAIN fs = Paths /\ \A n \in Paths : IsEntry(fs[n])
        /\ answer \in {None, Raised("outcome_unknown")}
        /\ op.action = "mkdir" /\ op.path \in Names
    BY <1>1 DEF FilesInv, FileTypes, Working, PcAction
  <2>2. /\ DOMAIN fs' = Paths /\ fs'[op.path] = Dir("nothing")
        /\ \A m \in Paths : fs'[m] \in {fs[m], Dir("nothing")}
    BY <1>3, <2>1 DEF Paths
  <2>3. FileTypes'
    <3>1. \A m \in Paths : IsEntry(fs'[m]) BY <2>1, <2>2, DirFacts
    <3> QED BY <1>1, <1>3, <2>2, <3>1 DEF FilesInv, FileTypes
  <2>4. TextsMeant'
    BY <1>1, <1>3, <2>2, DirFacts DEF FilesInv, TextsMeant
  <2>5. Working'
    BY <1>1, <1>3, <2>1, <2>2 DEF FilesInv, Working, PcAction, TempKept, ReadKeeps, PatchKeeps,
       WriteKeeps, RemoveKeeps, SourceKept, Sending, Placing, Checked, Writing, Reading,
       Removing
  <2>6. Reported'
    BY <1>1, <1>3, <2>1 DEF Reported, NoTemporaryLeft, RefusedChangesNothing, ResultsAreTrue,
       ReadExact, GuardedRemoval, PatchReplacesItsSource, Raised
  <2> QED BY <2>3, <2>4, <2>5, <2>6 DEF FilesInv
<1> QED BY <1>2, <1>3 DEF MakeDirectory, Goto, Keep, ScriptVars

\* rename and remove change the directory and end in one step.
LEMMA ChangeEnds ==
  ASSUME FilesInv, fpc \in {"mv", "rm"}, op' = op, foreign' = foreign, moved' = moved,
         Exit, NEW a, answer' = IF answer = None THEN a ELSE answer,
         a.code \in {"rename_failed", "remove_failed", "file_protocol_error", "ok"},
         DOMAIN fs' = Paths,
         \A m \in Paths : fs'[m] \in {None} \union {fs[k] : k \in Paths} \/ \E x : fs'[m] = Dir(x),
         GuardedRemoval'
  PROVE  FilesInv'
<1>1. /\ fpc' = "ended" /\ local' = local /\ temp = None /\ temp' = None
      /\ op.action \in {"rename", "remove"}
  BY DEF Exit, FilesInv, Working, PcAction, TempKept, Sending, Removing
<1>2. FileTypes'
  <2>1. \A m \in Paths : IsEntry(fs'[m])
    BY DirFacts DEF FilesInv, FileTypes, IsEntry
  <2> QED BY <1>1, <2>1 DEF FilesInv, FileTypes
<1>3. TextsMeant' BY <1>1, DirFacts DEF FilesInv, TextsMeant, Is
<1>4. Working'
  BY <1>1 DEF Working, PcAction, TempKept, ReadKeeps, PatchKeeps, WriteKeeps, RemoveKeeps,
     SourceKept, Sending, Placing, Checked, Writing, Reading, Removing
<1>5. answer' = a \/ answer' = Raised("outcome_unknown") BY DEF FilesInv, FileTypes
<1>6. answer'.code \in {"rename_failed", "remove_failed", "file_protocol_error", "ok", "outcome_unknown"}
  BY <1>5 DEF Raised
<1>7. NoTemporaryLeft' /\ RefusedChangesNothing'
  BY <1>1, <1>6 DEF NoTemporaryLeft, RefusedChangesNothing
<1>8. ResultsAreTrue' /\ ReadExact' /\ PatchReplacesItsSource'
  BY <1>1 DEF ResultsAreTrue, ReadExact, PatchReplacesItsSource
<1> QED BY <1>2, <1>3, <1>4, <1>7, <1>8 DEF FilesInv, Reported

\* What an ending helper answers, as one of two results.
LEMMA Ends ==
  ASSUME NEW st, NEW c, _serverops_finish(Done(st)) \/ _serverops_error(c)
  PROVE  /\ Exit
         /\ \E a : /\ a.code \in {c, "file_protocol_error", "ok"}
                   /\ answer' = IF answer = None THEN a ELSE answer
<1>1. (\A x : Raised(x).code = x) /\ Done(st).code = "ok" BY DEF Raised, Done
<1> QED BY <1>1 DEF _serverops_error, _serverops_finish, Answered

\* rename puts the entry under its new name.
LEMMA RenameStep == ASSUME FilesInv, Rename PROVE FilesInv'
<1>1. /\ fpc = "mv" /\ op' = op /\ foreign' = foreign /\ moved' = moved BY DEF Rename, Env
<1>2. CASE _serverops_error("rename_failed") /\ UNCHANGED Untouched
  <2>1. UNCHANGED <<Untouched, Env>> BY <1>1, <1>2 DEF Env
  <2> QED BY <1>1, <1>2, <2>1, Quiet, ErrorStep
<1>3. ASSUME fs' = [Mv(fs, fs[op.path], op.dest) EXCEPT ![op.path] = None],
             _serverops_finish(Done("renamed")) \/ _serverops_error("rename_failed")
      PROVE  FilesInv'
  <2>1. /\ DOMAIN fs = Paths /\ \A n \in Paths : IsEntry(fs[n])
        /\ op.action = "rename" /\ op.path \in Paths /\ op.dest \in Paths
    BY <1>1, RequestFacts DEF FilesInv, FileTypes, Working, PcAction
  <2> DEFINE g == Mv(fs, fs[op.path], op.dest)
  <2>2. DOMAIN g = Paths /\ \A m \in Paths : g[m] \in {fs[m], fs[op.path]} \/ \E x : g[m] = Dir(x)
    BY <2>1, MvFacts
  <2> HIDE DEF g
  <2>3. DOMAIN fs' = Paths /\ \A m \in Paths : fs'[m] \in {None, g[m]}
    BY <1>3, <2>1, <2>2 DEF g
  <2>4. \A m \in Paths : fs'[m] \in {None} \union {fs[k] : k \in Paths} \/ \E x : fs'[m] = Dir(x)
    BY <2>1, <2>2, <2>3
  <2>5. GuardedRemoval' BY <1>1, <2>1 DEF GuardedRemoval
  <2>6. PICK a : Exit /\ a.code \in {"rename_failed", "file_protocol_error", "ok"}
                 /\ answer' = IF answer = None THEN a ELSE answer
    BY <1>3, Ends
  <2> QED BY <1>1, <2>3, <2>4, <2>5, <2>6, ChangeEnds
<1> QED BY <1>2, <1>3 DEF Rename

\* What a removal displaces is what the client expected.
LEMMA RemoveStep == ASSUME FilesInv, RemoveEntry PROVE FilesInv'
<1> DEFINE p == op.path
<1>1. /\ fpc = "rm" /\ op' = op /\ foreign' = foreign /\ moved' = moved BY DEF RemoveEntry, Env
<1>2. /\ DOMAIN fs = Paths /\ \A n \in Paths : IsEntry(fs[n])
      /\ op.action = "remove" /\ p \in Paths /\ local.target \in Paths
  BY <1>1, RequestFacts DEF FilesInv, FileTypes, Working, PcAction, Removing
<1>3. op.expected # None /\ moved # "late" =>
        fs[p] # None /\ (fs[p].kind = "file" => fs[p].text = op.expected)
  <2> SUFFICES ASSUME op.expected # None, moved # "late"
               PROVE  fs[p] # None /\ (fs[p].kind = "file" => fs[p].text = op.expected)
    OBVIOUS
  <2>1. /\ RealpathIn(fs, p) = local.target /\ Is(fs[local.target], "file")
        /\ fs[local.target].text = op.expected
    BY <1>1 DEF FilesInv, Working, RemoveKeeps
  <2>2. ~Is(fs[p], "link") => p = local.target BY <1>2, <2>1, Led
  <2> QED BY <2>1, <2>2 DEF Is
<1>4. CASE \E code : code # "ok" /\ _serverops_error(code) /\ UNCHANGED Untouched
  <2>1. UNCHANGED <<Untouched, Env>> BY <1>1, <1>4 DEF Env
  <2> QED BY <1>1, <1>4, <2>1, Quiet, ErrorStep
<1>5. ASSUME NEW e, e = None \/ \E x : e = Dir(x), fs' = [fs EXCEPT ![p] = e],
             did'.displaced = fs[p],
             _serverops_finish(Done("removed")) \/ _serverops_error("remove_failed")
      PROVE  FilesInv'
  <2>1. DOMAIN fs' = Paths /\ \A m \in Paths : fs'[m] \in {fs[m], e} BY <1>2, <1>5
  <2>2. \A m \in Paths : fs'[m] \in {None} \union {fs[k] : k \in Paths} \/ \E x : fs'[m] = Dir(x)
    BY <1>5, <2>1
  <2>3. GuardedRemoval' BY <1>1, <1>3, <1>5 DEF GuardedRemoval
  <2>4. PICK a : Exit /\ a.code \in {"remove_failed", "file_protocol_error", "ok"}
                 /\ answer' = IF answer = None THEN a ELSE answer
    BY <1>5, Ends
  <2> QED BY <1>1, <2>1, <2>2, <2>3, <2>4, ChangeEnds
<1>6. CASE /\ fs' = [fs EXCEPT ![p] = None] /\ did' = Did(p, None)
           /\ _serverops_finish(Done("removed"))
  <2>1. did'.displaced = fs[p] BY <1>6 DEF Did
  <2> QED BY <1>5, <1>6, <2>1
<1>7. CASE /\ fs' = [fs EXCEPT ![p] = Dir("mine")] /\ did' = Did(p, fs[p])
           /\ _serverops_error("remove_failed")
  <2>1. did'.displaced = fs[p] BY <1>7 DEF Did
  <2> QED BY <1>5, <1>7, <2>1
<1> QED BY <1>4, <1>6, <1>7 DEF RemoveEntry

-----------------------------------------------------------------------------
(* What happens to a helper from outside.                                  *)

\* A helper that is interrupted may leave its temporary file, and says so.
LEMMA InterruptStep ==
  ASSUME FilesInv, HelperTimesOut \/ HelperKilled \/ Hangup
  PROVE  FilesInv'
<1>1. /\ UNCHANGED <<Untouched, Env>> /\ fpc # "ended" /\ fpc' = "ended" /\ local' = local
  BY DEF HelperTimesOut, HelperKilled, Hangup, HelperRuns, _serverops_error, Exit
<1>2. \E a : a.code \in Interrupted /\ answer' = IF answer = None THEN a ELSE answer
  <2>1. /\ Raised("command_timed_out").code = "command_timed_out"
        /\ Raised("file_command_failed").code = "file_command_failed"
        /\ Raised("outcome_unknown").code = "outcome_unknown"
    BY DEF Raised
  <2>2. \/ Answered(Raised("command_timed_out")) \/ Answered(Raised("file_command_failed"))
        \/ answer = Raised("outcome_unknown") /\ answer' = answer
    BY DEF HelperTimesOut, HelperKilled, Hangup, _serverops_error
  <2>3. CASE answer = Raised("outcome_unknown") /\ answer' = answer
    <3>1. answer' = IF answer = None THEN Raised("outcome_unknown") ELSE answer BY <2>3
    <3> QED BY <2>1, <3>1 DEF Interrupted
  <2> QED BY <2>1, <2>2, <2>3 DEF Interrupted, Answered
<1>3. PICK a : a.code \in Interrupted /\ answer' = IF answer = None THEN a ELSE answer BY <1>2
<1>4. answer'.code \in Interrupted
  <2>1. answer = None \/ answer = Raised("outcome_unknown")
    BY <1>1 DEF FilesInv, FileTypes
  <2>2. Raised("outcome_unknown").code \in Interrupted BY DEF Raised, Interrupted
  <2> QED BY <1>3, <2>1, <2>2
<1>5. a.code \in TruthfulCodes /\ a.code # "ok" BY <1>3 DEF Interrupted, TruthfulCodes
<1> QED BY <1>1, <1>3, <1>4, <1>5, Quiet, EndStep

\* A lost connection answers the client and leaves the helper at work.
LEMMA LostStep == ASSUME FilesInv, ConnectionLost PROVE FilesInv'
<1>1. /\ UNCHANGED <<Untouched, Env>> /\ fpc # "ended" /\ fpc' = fpc /\ local' = local
      /\ temp' = temp /\ trapped' = trapped /\ answer' = Raised("outcome_unknown")
  BY DEF ConnectionLost, HelperRuns, ScriptVars, Answered
<1>2. FileTypes' /\ TextsMeant' BY <1>1, Quiet, QuietTypes DEF FilesInv
<1>3. Working'
  <2>1. PcAction' /\ TempKept'
    <3>1. PcAction' BY SMTT(30), <1>1, Quiet DEF FilesInv, Working, PcAction
    <3>2. TempKept' BY ZenonT(40), <1>1, Quiet DEF FilesInv, Working, TempKept, NewText
    <3> QED BY <3>1, <3>2
  <2>2. ReadKeeps' /\ PatchKeeps'
    BY <1>1, Quiet DEF FilesInv, Working, ReadKeeps, PatchKeeps, NewText
  <2>3. WriteKeeps' /\ RemoveKeeps'
    BY ZenonT(40), <1>1, Quiet DEF FilesInv, Working, WriteKeeps, RemoveKeeps, Expected
  <2>4. SourceKept' BY <1>1, Quiet DEF FilesInv, Working, SourceKept, Few, Astray
  <2> QED BY <2>1, <2>2, <2>3, <2>4 DEF Working
<1>4. answer'.code = "outcome_unknown" BY <1>1 DEF Raised
<1>5. NoTemporaryLeft' /\ RefusedChangesNothing' /\ ReadExact'
  BY <1>1, <1>4, Quiet DEF FilesInv, Reported, NoTemporaryLeft, RefusedChangesNothing, ReadExact
<1>6. ResultsAreTrue' /\ GuardedRemoval' /\ PatchReplacesItsSource'
  BY <1>1, Quiet DEF FilesInv, Reported, ResultsAreTrue, GuardedRemoval,
     PatchReplacesItsSource, NewText
<1> QED BY <1>2, <1>3, <1>5, <1>6 DEF FilesInv, Reported

\* One change by others: what the helper resolved keeps its text, or the path no longer
\* leads to another text than that name does.
LEMMA OneChange ==
  ASSUME NEW f, DOMAIN f = Paths, \A m \in Paths : IsEntry(f[m]),
         NEW g, DOMAIN g = Paths, \A m \in Paths : IsEntry(g[m]),
         NEW n \in Paths, \A m \in Paths : m # n => g[m] = f[m],
         NEW p \in Paths, NEW t \in Paths, t = RealpathIn(f, p)
  PROVE  HashIn(g, t) = HashIn(f, t) \/ HashIn(g, p) \in {None, HashIn(g, t)}
<1>1. t # None /\ ~Is(f[t], "link") /\ f[t] = FollowedIn(f, t)
  BY NamesAssumption, Led
<1>2. CASE n # t
  <2>1. g[t] = f[t] /\ g[t] = FollowedIn(g, t) BY <1>1, <1>2, Led
  <2> QED BY <1>1, <2>1 DEF HashIn
<1>3. CASE n = t
  <2> DEFINE q == StepIn(f, p)
  <2>1. q \in Paths /\ t = StepIn(f, q) BY <1>1, Led DEF RealpathIn
  <2>2. CASE p = t BY <2>2
  <2>3. CASE p # t /\ q = t
    <3>1. StepIn(g, p) = t BY <1>3, <2>3 DEF StepIn
    <3>2. RealpathIn(g, p) = IF Is(g[StepIn(g, t)], "link") THEN None ELSE StepIn(g, t)
      BY SMTT(30), <3>1 DEF RealpathIn, Is
    <3>3. ~Is(g[StepIn(g, t)], "link") => RealpathIn(g, t) = StepIn(g, t)
      BY ZenonT(40) DEF RealpathIn, StepIn, Is
    <3>4. RealpathIn(g, p) \in {None, RealpathIn(g, t)} BY <3>2, <3>3
    <3> QED BY <3>4 DEF HashIn, FollowedIn, TextOf
  <2>4. CASE p # t /\ q # t
    <3>1. StepIn(g, p) = q /\ StepIn(g, q) = t BY <1>3, <2>1, <2>4 DEF StepIn
    <3>2. RealpathIn(g, p) = IF Is(g[t], "link") THEN None ELSE t
      BY <3>1 DEF RealpathIn, Is
    <3>3. ~Is(g[t], "link") => RealpathIn(g, t) = t BY Led
    <3>4. RealpathIn(g, p) \in {None, RealpathIn(g, t)} BY <3>2, <3>3
    <3> QED BY <3>4 DEF HashIn, FollowedIn, TextOf
  <2> QED BY <2>2, <2>3, <2>4
<1> QED BY <1>2, <1>3

\* Others change an entry: what the helper keeps may be stale, and is then noticed.
LEMMA ForeignStep ==
  ASSUME FilesInv, NEW n \in Names \ Roots, NEW e \in Entries, ForeignChange(n, e)
  PROVE  FilesInv'
<1>1. /\ fpc # "ended" /\ fpc' = fpc /\ op' = op /\ local' = local /\ answer' = answer
      /\ temp' = temp /\ trapped' = trapped /\ did' = did
      /\ moved' \in {"early", "late"}
      /\ moved' # "late" => moved # "late" /\ ~Unnoticed(n, e)
  BY DEF ForeignChange, FilesInv, FileTypes
<1>2. /\ DOMAIN fs = Paths /\ DOMAIN fs' = Paths /\ n \in Paths
      /\ fs'[n] = e /\ \A m \in Paths : m # n => fs'[m] = fs[m]
  BY DEF ForeignChange, FilesInv, FileTypes, Paths
<1>3. IsEntry(e) /\ (Is(e, "file") => e.text \in FoundTexts /\ e.text \in MeantTexts)
  BY EntriesAssumption DEF Is, TextsIn, FoundTexts, MeantTexts
<1>4. foreign' \in 0..MaxForeign /\ foreign' + 1 <= MaxForeign
  BY FileBounds DEF ForeignChange, FilesInv, FileTypes
<1>5. Few' => Few /\ moved = "no"
  BY FileBounds DEF Few, ForeignChange, FilesInv, FileTypes
<1>6. FileTypes'
  <2>1. \A m \in Paths : IsEntry(fs'[m]) BY <1>2, <1>3 DEF FilesInv, FileTypes
  <2> QED BY <1>1, <1>2, <1>4, <2>1 DEF FilesInv, FileTypes
<1>7. TextsMeant'
  <2> SUFFICES ASSUME NEW m \in Paths, Is(fs'[m], "file")
               PROVE  /\ fs'[m].text \in MeantTexts
                      /\ fpc \notin {"after", "made", "ended"} => fs'[m].text \in FoundTexts
    BY <1>1 DEF TextsMeant
  <2>1. CASE m = n BY <1>2, <1>3, <2>1
  <2>2. CASE m # n BY <1>2, <2>2 DEF FilesInv, TextsMeant
  <2> QED BY <2>1, <2>2
<1>8. PcAction' /\ TempKept'
  BY <1>1 DEF FilesInv, Working, PcAction, TempKept, NewText
<1>9. ReadKeeps' /\ PatchKeeps'
  BY <1>1 DEF FilesInv, Working, ReadKeeps, PatchKeeps, NewText
<1>10. WriteKeeps' /\ RemoveKeeps'
  <2>1. moved' # "late" => moved # "late" /\ fpc \notin {"move", "remove", "rm"}
    BY <1>1 DEF Unnoticed, WindowPc
  <2>2. fpc = "rehash" /\ moved' # "late" => ~Is(fs'[local.target], "link")
    <3> SUFFICES ASSUME fpc = "rehash", moved' # "late" PROVE ~Is(fs'[local.target], "link")
      OBVIOUS
    <3>1. local.target \in Paths BY DEF FilesInv, Working, PcAction, Placing, Sending
    <3>2. CASE n = local.target BY <1>1, <1>2, <3>2 DEF Unnoticed, Is
    <3>3. CASE n # local.target
      BY <1>1, <1>2, <3>1, <3>3 DEF FilesInv, Working, WriteKeeps
    <3> QED BY <3>2, <3>3
  <2> QED BY ZenonT(40), <1>1, <2>1, <2>2 DEF FilesInv, Working, WriteKeeps, RemoveKeeps, Expected
<1>11. ASSUME op.action = "apply_patch", Few', fpc \in {"size", "content"}
       PROVE  \/ local.sha = HashIn(fs', local.target) /\ (fpc = "content" => local.size = Len(local.sha))
              \/ HashIn(fs', op.path) # local.sha
  <2>1. /\ moved = "no" /\ local.sha # None /\ local.target = RealpathIn(fs, op.path)
        /\ local.target \in Paths /\ local.sha = HashIn(fs, local.target)
    BY <1>5, <1>11 DEF FilesInv, Working, PcAction, ReadKeeps, Reading
  <2>2. fpc = "content" => local.size = Len(local.sha)
    BY <1>5, <1>11, <2>1 DEF FilesInv, Working, SourceKept, Astray
  <2>3. op.path \in Paths BY RequestFacts DEF FilesInv, FileTypes
  <2>4. (\A m \in Paths : IsEntry(fs[m])) /\ \A m \in Paths : IsEntry(fs'[m])
    BY <1>6 DEF FilesInv, FileTypes
  <2>5. \/ HashIn(fs', local.target) = HashIn(fs, local.target)
        \/ HashIn(fs', op.path) \in {None, HashIn(fs', local.target)}
    BY <1>2, <2>1, <2>3, <2>4, OneChange
  <2> QED BY <2>1, <2>2, <2>5
<1>12. SourceKept'
  <2> SUFFICES ASSUME op.action = "apply_patch", Few'
               PROVE  SourceKept'
    BY <1>1 DEF SourceKept
  <2>1. moved = "no" /\ Few BY <1>5
  <2>2. /\ fpc = "patch" => local.text = Shortened(local.sha) /\ local.size = Len(local.sha)
        /\ fpc \in {"exists", "inspect", "before"} \union Checked => local.text = local.sha
    BY <2>1 DEF FilesInv, Working, SourceKept, Astray
  <2>3. fpc = "size" => local.sha = HashIn(fs', local.target) \/ HashIn(fs', op.path) # local.sha
    BY <1>11
  <2>4. fpc = "content" => \/ local.sha = HashIn(fs', local.target) /\ local.size = Len(local.sha)
                           \/ HashIn(fs', op.path) # local.sha
    BY <1>11
  <2> QED BY <1>1, <2>2, <2>3, <2>4 DEF SourceKept, Astray
<1>13. answer' = None \/ answer'.code = "outcome_unknown"
  BY <1>1 DEF FilesInv, FileTypes, Raised
<1>14. NoTemporaryLeft' /\ RefusedChangesNothing' /\ ReadExact'
  BY <1>1, <1>13 DEF NoTemporaryLeft, RefusedChangesNothing, ReadExact
<1>15. ResultsAreTrue' /\ GuardedRemoval'
  BY <1>1 DEF FilesInv, Reported, ResultsAreTrue, GuardedRemoval, NewText
<1>16. PatchReplacesItsSource'
  BY <1>1, <1>5 DEF FilesInv, Reported, PatchReplacesItsSource, Few
<1> QED
  BY <1>6, <1>7, <1>8, <1>9, <1>10, <1>12, <1>14, <1>15, <1>16 DEF FilesInv, Working, Reported

-----------------------------------------------------------------------------
\* The invariant holds initially.
LEMMA FilesInit == InitFiles => FilesInv
<1> SUFFICES ASSUME InitFiles PROVE FilesInv OBVIOUS
<1>1. PICK found \in [Names \ Roots -> Entries] :
        fs = [n \in Paths |-> CASE n = Here -> Dir("mine")
                                [] n = Outside -> File(<<>>, FALSE)
                                [] n \in Roots -> Dir("nothing")
                                [] OTHER -> found[n]]
  BY DEF InitFiles
<1>2. /\ op \in Requests /\ temp = None /\ trapped = FALSE /\ fpc = "request" /\ local = Blank
      /\ answer = None /\ did = None /\ moved = "no"
  BY DEF InitFiles
<1>3. foreign \in 0..MaxForeign BY FileBounds DEF InitFiles
<1>4. DOMAIN fs = Paths BY <1>1
<1>5. \A n \in Paths : \/ fs[n] = Dir("mine") \/ fs[n] = Dir("nothing")
                       \/ fs[n] = File(<<>>, FALSE)
                       \/ fs[n] \in Entries
  <2> SUFFICES ASSUME NEW n \in Paths
               PROVE  \/ fs[n] \in {Dir("mine"), Dir("nothing"), File(<<>>, FALSE)}
                      \/ fs[n] \in Entries
    OBVIOUS
  <2>1. fs[n] = CASE n = Here -> Dir("mine")
                  [] n = Outside -> File(<<>>, FALSE)
                  [] n \in Roots -> Dir("nothing")
                  [] OTHER -> found[n]
    BY <1>1
  <2>2. CASE n \in {Here, Outside} \union Roots
    BY <2>1, <2>2
  <2>3. CASE n \notin {Here, Outside} \union Roots
    <3>1. fs[n] = found[n] BY <2>1, <2>3
    <3> QED BY <2>3, <3>1 DEF Paths
  <2> QED BY <2>2, <2>3
<1>6. IsEntry(File(<<>>, FALSE)) /\ File(<<>>, FALSE).text = <<>> BY DEF IsEntry, File
<1>7. FileTypes
  <2>1. \A n \in Paths : IsEntry(fs[n]) BY <1>5, <1>6, DirFacts, EntriesAssumption
  <2> QED BY <1>2, <1>3, <1>4, <2>1 DEF FileTypes
<1>8. TextsMeant
  <2> SUFFICES ASSUME NEW n \in Paths, Is(fs[n], "file")
               PROVE  fs[n].text \in FoundTexts
    BY DEF TextsMeant, MeantTexts
  <2>1. CASE fs[n] \in Entries BY <2>1 DEF FoundTexts, TextsIn, Is
  <2>2. CASE fs[n] = File(<<>>, FALSE) BY <1>6, <2>2 DEF FoundTexts
  <2> QED BY <1>5, <2>1, <2>2, DirFacts
<1>9. Working
  BY <1>2 DEF Blank, Working, PcAction, TempKept, ReadKeeps, PatchKeeps, WriteKeeps,
     RemoveKeeps, SourceKept, Sending, Placing, Checked, Writing, Reading, Removing
<1>10. Reported
  BY <1>2 DEF Reported, NoTemporaryLeft, RefusedChangesNothing, ResultsAreTrue, ReadExact,
     GuardedRemoval, PatchReplacesItsSource
<1> QED BY <1>7, <1>8, <1>9, <1>10 DEF FilesInv

\* Every step keeps the invariant.
LEMMA FilesStep == FilesInv /\ [FilesNext]_fileVars => FilesInv'
<1> SUFFICES ASSUME FilesInv, [FilesNext]_fileVars PROVE FilesInv' OBVIOUS
<1>1. CASE UNCHANGED fileVars
  <2>1. FileTypes' /\ TextsMeant' BY <1>1 DEF fileVars, FilesInv, FileTypes, TextsMeant
  <2>2. PcAction' /\ TempKept'
    BY <1>1 DEF fileVars, FilesInv, Working, PcAction, TempKept, NewText
  <2>3. ReadKeeps' /\ PatchKeeps'
    BY <1>1 DEF fileVars, FilesInv, Working, ReadKeeps, PatchKeeps, NewText
  <2>4. WriteKeeps' /\ RemoveKeeps'
    BY <1>1 DEF fileVars, FilesInv, Working, WriteKeeps, RemoveKeeps, Expected
  <2>5. SourceKept' BY <1>1 DEF fileVars, FilesInv, Working, SourceKept, Few, Astray
  <2>6. NoTemporaryLeft' /\ RefusedChangesNothing' /\ ReadExact'
    BY <1>1 DEF fileVars, FilesInv, Reported, NoTemporaryLeft, RefusedChangesNothing, ReadExact
  <2>7. ResultsAreTrue' /\ GuardedRemoval' /\ PatchReplacesItsSource'
    BY <1>1 DEF fileVars, FilesInv, Reported, ResultsAreTrue, GuardedRemoval,
       PatchReplacesItsSource, NewText
  <2> QED BY <2>1, <2>2, <2>3, <2>4, <2>5, <2>6, <2>7 DEF FilesInv, Working, Reported
<1>2. CASE Begin \/ Patch BY <1>2, BeginStep, PatchStep
<1>3. CASE Helper
  <2>1. CASE Resolve \/ ListNames \/ SearchFiles \/ Rows \/ Stat \/ HashFile \/ MeasureText \/ ReadContent
    BY <2>1, ResolveStep, LookStep, HashFileStep, MeasureStep, ReadContentStep
  <2>2. CASE \/ TestExists \/ InspectTarget \/ HashBefore \/ TestOwner \/ MakeTemp \/ SetTrap
             \/ Transfer \/ VerifyTemp \/ RecheckTarget \/ RehashTarget \/ MoveTemp \/ VerifyTarget
    BY <2>2, TestExistsStep, InspectStep, HashBeforeStep, PlaceStep, RecheckTargetStep, RehashStep,
       MoveTempStep, VerifyTargetStep
  <2>3. CASE \/ NewEntry \/ MakeDirectory \/ MadeDirectory \/ ReferenceEntry \/ ExpectedHash
             \/ RecheckEntry \/ Rename \/ RemoveEntry
    BY <2>3, NewEntryStep, MakeDirectoryStep, MadeDirectoryStep, ReferenceStep, ExpectedHashStep,
       RecheckEntryStep, RenameStep, RemoveStep
  <2> QED BY <1>3, <2>1, <2>2, <2>3 DEF Helper
<1>4. CASE HelperTimesOut \/ HelperKilled \/ Hangup BY <1>4, InterruptStep
<1>5. CASE ConnectionLost BY <1>5, LostStep
<1>6. CASE \E n \in Names \ Roots, e \in Entries : ForeignChange(n, e) BY <1>6, ForeignStep
<1> QED BY <1>1, <1>2, <1>3, <1>4, <1>5, <1>6 DEF FilesNext

\* The invariant of a file request.
LEMMA FilesInvariant == FilesSpec => []FilesInv
BY FilesInit, FilesStep, PTL DEF FilesSpec

\* Wherever a helper of write_text or apply_patch is cut off, and whatever others do to the
\* directory, no name ever shows a part of a text; a helper that reported itself has taken its
\* temporary file away, one that was timed out, killed or lost may leave it.
THEOREM WritesKeptClean == FilesSpec => []WritesAreClean
<1>1. FilesInv => WritesAreClean
  <2> SUFFICES ASSUME FilesInv PROVE WritesAreClean OBVIOUS
  <2>1. \A n \in Paths : Hash(n) \in MeantTexts \union {None}
    BY Seen, TextsRead DEF FilesInv
  <2>2. Partial # None /\ Partial \notin MeantTexts
    BY TextsAssumption
  <2>3. TextsAreWhole BY <2>1, <2>2 DEF TextsAreWhole
  <2> QED BY <2>3 DEF FilesInv, Reported, WritesAreClean
<1> QED BY <1>1, FilesInvariant, PTL

\* What the client is told of a file request is true: a refusal has changed nothing, a
\* result was done, and an undisturbed read is one state of the file.
THEOREM FileAnswersKept == FilesSpec => []FileAnswersAreTrue
<1>1. FilesInv => FileAnswersAreTrue
  <2> SUFFICES ASSUME FilesInv PROVE FileAnswersAreTrue OBVIOUS
  <2>1. \A n : realpath(n) = RealpathIn(fs, n) /\ Hash(n) = HashIn(fs, n) BY Seen
  <2>2. \A t : Selected(t) = SelectedFor(op, t) BY DEF Selected, SelectedFor
  <2>3. QuietReadIsExact
    BY <2>1, <2>2 DEF FilesInv, Reported, ReadExact, ReadIs, QuietReadIsExact
  <2> QED BY <2>3 DEF FilesInv, Reported, FileAnswersAreTrue
<1> QED BY <1>1, FilesInvariant, PTL

\* A hash in a request guards it: a removal and a patch displace the text they were meant
\* for, although hash, text and replacement are separate commands.
THEOREM HashGuardsKept == FilesSpec => []HashGuardsHold
<1>1. FilesInv => HashGuardsHold BY DEF FilesInv, Reported, HashGuardsHold
<1> QED BY <1>1, FilesInvariant, PTL

-----------------------------------------------------------------------------
(* Patches: apply_unified_patch against the reference Replaced, for every  *)
(* source and every patch.  Each loop is a recursive function: a lemma     *)
(* ...Table says what its values are from line to line or from hunk to     *)
(* hunk, and the induction is over those values.                           *)

\* Induction over the natural numbers, for a set, from the least number principle.
LEMMA SetInduction ==
  ASSUME NEW S, 0 \in S, \A n \in Nat : n \in S => n + 1 \in S
  PROVE  Nat \subseteq S
<1>1. SUFFICES ASSUME NEW m \in Nat, m \notin S PROVE FALSE
  OBVIOUS
<1> DEFINE T == {n \in Nat : n \notin S}
           R == OpToRel(<, Nat)
<1>2. IsWellFoundedOn(R, Nat)
  BY NatLessThanWellFounded
<1>3. T \subseteq Nat /\ T # {}
  BY <1>1
<1>4. \E x \in T : \A y \in T : ~ (<<y, x>> \in R)
  <2> HIDE DEF T, R
  <2> QED BY <1>2, <1>3, WFMin
<1>5. PICK x \in T : \A y \in T : ~ (<<y, x>> \in R)
  BY <1>4
<1>6. x \in Nat /\ x \notin S /\ x # 0
  BY <1>5
<1>7. x - 1 \in Nat /\ x - 1 \notin S
  <2>1. x - 1 \in Nat /\ (x - 1) + 1 = x
    BY <1>6
  <2> QED BY <2>1, <1>6
<1>8. <<x - 1, x>> \in R
  BY <1>6, <1>7 DEF OpToRel
<1> QED BY <1>5, <1>7, <1>8

\* A recursion over 1..n: its steps stay in T, and its table.
IsStep(step, T, n) == \A t \in T, i \in 1..n : step[t][i] \in T
IsTable(f, step, T, b, n) ==
  /\ f \in [0..n -> T] /\ f[0] = b
  /\ \A i \in 1..n : f[i] = step[f[i - 1]][i]

\* Such a recursion has a table.
LEMMA RecursionTable ==
  ASSUME NEW T, NEW b \in T, NEW n \in Nat, NEW step, IsStep(step, T, n)
  PROVE  \E f : IsTable(f, step, T, b, n)
<1> USE DEF IsStep, IsTable
<1> DEFINE Table(f, k) == f[0] = b /\ \A i \in 1..k : f[i] = step[f[i - 1]][i]
           S == {k \in Nat : k <= n => \E f \in [0..k -> T] : Table(f, k)}
<1>1. 0 \in S
  <2> DEFINE f == [i \in 0..0 |-> b]
  <2>1. f \in [0..0 -> T] /\ Table(f, 0)
    OBVIOUS
  <2> QED BY <2>1
<1>2. ASSUME NEW k \in Nat, k \in S PROVE k + 1 \in S
  <2>1. SUFFICES ASSUME k + 1 <= n PROVE \E f \in [0..k + 1 -> T] : Table(f, k + 1)
    OBVIOUS
  <2>2. k <= n /\ k + 1 \in 1..n
    BY <2>1
  <2>3. PICK f \in [0..k -> T] : Table(f, k)
    BY <1>2, <2>2
  <2>4. f[k] \in T
    OBVIOUS
  <2> DEFINE g == [i \in 0..k + 1 |-> IF i = k + 1 THEN step[f[k]][k + 1] ELSE f[i]]
  <2>5. step[f[k]][k + 1] \in T
    BY <2>2, <2>4
  <2>6. ASSUME NEW i \in 0..k + 1 PROVE g[i] \in T
    <3>1. i # k + 1 => i \in 0..k
      OBVIOUS
    <3> QED BY <3>1, <2>5
  <2>7. \A i \in 0..k : g[i] = f[i]
    OBVIOUS
  <2>8. g[k + 1] = step[f[k]][k + 1]
    OBVIOUS
  <2>9. g \in [0..k + 1 -> T]
    BY <2>6
  <2> HIDE DEF g
  <2>10. g[0] = b
    BY <2>3, <2>7
  <2>11. ASSUME NEW i \in 1..k + 1 PROVE g[i] = step[g[i - 1]][i]
    <3>1. CASE i = k + 1
      <4>1. i - 1 = k /\ k \in 0..k
        BY <3>1
      <4> QED BY <3>1, <4>1, <2>7, <2>8
    <3>2. CASE i # k + 1
      <4>1. i \in 1..k /\ i \in 0..k /\ i - 1 \in 0..k
        BY <3>2
      <4> QED BY <4>1, <2>3, <2>7
    <3> QED BY <3>1, <3>2
  <2>12. Table(g, k + 1)
    BY <2>10, <2>11
  <2> QED BY <2>9, <2>12
<1>3. Nat \subseteq S
  <2> HIDE DEF S
  <2> QED BY <1>1, <1>2, SetInduction
<1> QED BY <1>3

\* What holds of the first entry of a table and is kept by each step holds of all entries.
LEMMA TableInduction ==
  ASSUME NEW f, NEW n \in Nat, NEW S, f[0] \in S[0],
         \A i \in 1..n : f[i - 1] \in S[i - 1] => f[i] \in S[i]
  PROVE  \A i \in 0..n : f[i] \in S[i]
<1> DEFINE I == {i \in Nat : i <= n => f[i] \in S[i]}
<1>1. 0 \in I
  OBVIOUS
<1>2. ASSUME NEW i \in Nat, i \in I PROVE i + 1 \in I
  <2>1. SUFFICES ASSUME i + 1 <= n PROVE f[i + 1] \in S[i + 1]
    OBVIOUS
  <2>2. i + 1 \in 1..n /\ (i + 1) - 1 = i /\ i <= n
    BY <2>1
  <2>3. f[i] \in S[i]
    BY <1>2, <2>2
  <2> QED BY <2>2, <2>3
<1>3. Nat \subseteq I
  <2> HIDE DEF I
  <2> QED BY <1>1, <1>2, SetInduction
<1> QED BY <1>3

-----------------------------------------------------------------------------
(* Parsing.                                                                *)

HunkTypes(L) == [old_start : Nat, old_count : Nat, new_count : Nat, lines : Seq(BodyLines(L))]
ParserTypes(L) ==
  {s \in [code : {"ok", "patch_invalid"}, open : BOOLEAN, hunks : Seq(HunkTypes(L))] :
     s.open => s.hunks # <<>>}

\* What a line starts with tells what it is.
LEMMA LineKinds ==
  ASSUME NEW L, NEW line \in PatchLines(L)
  PROVE  /\ line[1] = "header" => line[2] \in Nat /\ line[3] \in Nat /\ line[4] \in Nat
         /\ line[1] \in Marks \union {"no_newline"} => line \in BodyLines(L)
<1>1. CASE line \in {"header"} \X Nat \X Nat \X Nat
  <2>1. line[1] = "header" /\ line[2] \in Nat /\ line[3] \in Nat /\ line[4] \in Nat
    BY <1>1
  <2> QED BY <2>1 DEF Marks
<1>2. CASE line \in BodyLines(L)
  <2>1. line[1] # "header"
    BY <1>2 DEF BodyLines, Marks
  <2> QED BY <1>2, <2>1
<1>3. CASE line \in {<<"blank">>, <<"diff">>, <<"junk">>}
  <2>1. line[1] \in {"blank", "diff", "junk"}
    BY <1>3
  <2> QED BY <2>1 DEF Marks
<1> QED BY <1>1, <1>2, <1>3 DEF PatchLines

\* A line of a hunk is the marker, or a mark and a line.
LEMMA BodyKinds ==
  ASSUME NEW L, NEW line \in BodyLines(L)
  PROVE  IF line[1] = "no_newline" THEN line = <<"no_newline">>
         ELSE line \in Marks \X L /\ line[1] \in Marks /\ line[2] \in L
<1>1. CASE line \in Marks \X L
  <2>1. line[1] \in Marks /\ line[2] \in L
    BY <1>1
  <2> QED BY <1>1, <2>1 DEF Marks
<1>2. CASE line = <<"no_newline">>
  BY <1>2
<1> QED BY <1>1, <1>2 DEF BodyLines

\* A line keeps the parser's types.
LEMMA ParseLineTypes ==
  ASSUME NEW L, NEW s \in ParserTypes(L), NEW line \in PatchLines(L)
  PROVE  ParseLine(s, line) \in ParserTypes(L)
<1> DEFINE H == HunkTypes(L)
           h == [old_start |-> line[2], old_count |-> line[3], new_count |-> line[4], lines |-> <<>>]
           n == Len(s.hunks)
<1>0. /\ s \in [code : {"ok", "patch_invalid"}, open : BOOLEAN, hunks : Seq(H)]
      /\ s.hunks \in Seq(H) /\ n \in Nat
      /\ s.open => n \in 1..n
  <2>1. s \in [code : {"ok", "patch_invalid"}, open : BOOLEAN, hunks : Seq(H)]
    BY DEF ParserTypes
  <2>2. s.hunks \in Seq(H)
    BY <2>1
  <2>3. s.open => s.hunks # <<>>
    BY DEF ParserTypes
  <2> QED BY <2>1, <2>2, <2>3, EmptySeq
<1>1. CASE s.code # "ok"
  BY <1>1 DEF ParseLine
<1>2. CASE s.code = "ok" /\ line[1] = "header"
  <2>1. h \in H
    BY <1>2, LineKinds DEF HunkTypes
  <2> HIDE DEF h, H
  <2>2. Append(s.hunks, h) \in Seq(H) /\ Append(s.hunks, h) # <<>>
    BY <2>1, <1>0
  <2>3. ParseLine(s, line) = [s EXCEPT !.open = TRUE, !.hunks = Append(@, h)]
    BY <1>2 DEF ParseLine, h
  <2>4. [s EXCEPT !.open = TRUE, !.hunks = Append(@, h)]
          \in [code : {"ok", "patch_invalid"}, open : BOOLEAN, hunks : Seq(H)]
    BY <2>2, <1>0
  <2>5. [s EXCEPT !.open = TRUE, !.hunks = Append(@, h)].hunks = Append(s.hunks, h)
    BY <1>0
  <2> QED BY <2>2, <2>3, <2>4, <2>5 DEF ParserTypes, H
<1>3. CASE s.code = "ok" /\ line[1] # "header" /\ s.open /\ line[1] \in Marks \union {"no_newline"}
  <2> DEFINE new == [s.hunks[n] EXCEPT !.lines = Append(@, line)]
             hunks == [s.hunks EXCEPT ![n] = new]
  <2>1. line \in BodyLines(L)
    BY <1>3, LineKinds
  <2>2. s.hunks[n] \in H
    BY <1>0, <1>3
  <2>3. new \in H
    <3>1. s.hunks[n].lines \in Seq(BodyLines(L))
      BY <2>2 DEF HunkTypes
    <3>2. Append(s.hunks[n].lines, line) \in Seq(BodyLines(L))
      BY <3>1, <2>1
    <3> QED BY <3>2, <2>2 DEF HunkTypes
  <2>4. ParseLine(s, line) = [s EXCEPT !.hunks = hunks]
    BY <1>0, <1>3 DEF ParseLine
  <2> HIDE DEF new, H
  <2>5. hunks \in Seq(H) /\ hunks # <<>>
    <3>1. hunks \in Seq(H) /\ Len(hunks) = n
      BY <1>0, <1>3, <2>3, ExceptSeq
    <3> QED BY <3>1, <1>0, <1>3, EmptySeq
  <2> HIDE DEF hunks
  <2>6. [s EXCEPT !.hunks = hunks] \in [code : {"ok", "patch_invalid"}, open : BOOLEAN, hunks : Seq(H)]
    BY <2>5, <1>0
  <2>7. [s EXCEPT !.hunks = hunks].hunks = hunks
    BY <1>0
  <2> QED BY <2>4, <2>5, <2>6, <2>7 DEF ParserTypes, H
<1>4. CASE /\ s.code = "ok" /\ line[1] # "header" /\ ~ (s.open /\ line[1] \in Marks \union {"no_newline"})
           /\ Skipped(line)
  <2> HIDE DEF H
  <2>1. ParseLine(s, line) = [s EXCEPT !.open = FALSE]
    BY <1>4 DEF ParseLine
  <2>2. /\ [s EXCEPT !.open = FALSE] \in [code : {"ok", "patch_invalid"}, open : BOOLEAN, hunks : Seq(H)]
        /\ ~ [s EXCEPT !.open = FALSE].open
    BY <1>0
  <2> QED BY <2>1, <2>2 DEF ParserTypes, H
<1>5. CASE /\ s.code = "ok" /\ line[1] # "header" /\ ~ (s.open /\ line[1] \in Marks \union {"no_newline"})
           /\ ~ Skipped(line)
  <2> HIDE DEF H
  <2>1. ParseLine(s, line) = [s EXCEPT !.code = "patch_invalid"]
    BY <1>5 DEF ParseLine
  <2>2. /\ [s EXCEPT !.code = "patch_invalid"]
             \in [code : {"ok", "patch_invalid"}, open : BOOLEAN, hunks : Seq(H)]
        /\ [s EXCEPT !.code = "patch_invalid"].hunks = s.hunks
        /\ [s EXCEPT !.code = "patch_invalid"].open <=> s.open
    BY <1>0
  <2>3. s.open => s.hunks # <<>>
    BY DEF ParserTypes
  <2> QED BY <2>1, <2>2, <2>3 DEF ParserTypes, H
<1> QED BY <1>1, <1>2, <1>3, <1>4, <1>5

\* The result for the parser's last state.
Parsed(patch, end) ==
  _parse_hunks(patch) = IF end.code = "ok" /\ end.hunks = <<>>
                        THEN [end EXCEPT !.code = "patch_invalid"] ELSE end

\* The states of the parser, line by line.
LEMMA ParserTable ==
  ASSUME NEW L, NEW patch \in Seq(PatchLines(L))
  PROVE  \E f : /\ f[0] = [code |-> "ok", open |-> FALSE, hunks |-> <<>>]
                /\ \A i \in 1..Len(patch) : f[i] = ParseLine(f[i - 1], patch[i])
                /\ \A i \in 0..Len(patch) : f[i] \in ParserTypes(L)
                /\ Parsed(patch, f[Len(patch)])
<1> DEFINE T == ParserTypes(L)
           b == [code |-> "ok", open |-> FALSE, hunks |-> <<>>]
           n == Len(patch)
           Op(t, i) == ParseLine(t, patch[i])
           step == [t \in T |-> [i \in 1..n |-> Op(t, i)]]
           Good(f) == f = [i \in 0..n |-> IF i = 0 THEN b ELSE Op(f[i - 1], i)]
           f == CHOOSE f : Good(f)
<1>1. b \in T
  BY DEF ParserTypes
<1>2. n \in Nat
  OBVIOUS
<1>3. \A t \in T, i \in 1..n : Op(t, i) \in T
  BY ParseLineTypes
<1>4. Parsed(patch, f[Len(patch)])
  BY DEF _parse_hunks, Parsed
<1> HIDE DEF T, b, n, Op
<1>5. \A t \in T, i \in 1..n : step[t][i] = Op(t, i) /\ step[t][i] \in T
  BY <1>3
<1>6. IsStep(step, T, n)
  BY <1>5 DEF IsStep
<1> HIDE DEF step
<1>7. PICK g : IsTable(g, step, T, b, n)
  BY <1>1, <1>2, <1>6, RecursionTable
<1>8. ASSUME NEW i \in 0..n PROVE g[i] = IF i = 0 THEN b ELSE Op(g[i - 1], i)
  <2>1. CASE i = 0
    BY <2>1, <1>7 DEF IsTable
  <2>2. CASE i # 0
    <3>1. i \in 1..n /\ i - 1 \in 0..n
      BY <2>2, <1>2
    <3>2. g[i - 1] \in T /\ g[i] = step[g[i - 1]][i]
      BY <3>1, <1>7 DEF IsTable
    <3> QED BY <3>1, <3>2, <1>5, <2>2
  <2> QED BY <2>1, <2>2
<1>9. Good(g)
  <2>1. g = [i \in 0..n |-> g[i]]
    BY <1>7 DEF IsTable
  <2> QED BY <2>1, <1>8
<1>10. Good(f)
  BY <1>9
<1> HIDE DEF f
<1>11. \A i \in 0..n : f[i] = IF i = 0 THEN b ELSE Op(f[i - 1], i)
  BY <1>10
<1>12. f[0] = b /\ \A i \in 1..n : f[i] = Op(f[i - 1], i)
  <2>1. 0 \in 0..n /\ \A i \in 1..n : i \in 0..n /\ i # 0
    BY <1>2
  <2> QED BY <2>1, <1>11
<1>13. \A i \in 0..n : f[i] \in T
  <2> DEFINE S == [i \in 0..n |-> T]
  <2>1. \A i \in 0..n : S[i] = T
    OBVIOUS
  <2>2. \A i \in 1..n : i \in 0..n /\ i - 1 \in 0..n
    BY <1>2
  <2> HIDE DEF S
  <2>3. 0 \in 0..n
    BY <1>2
  <2>4. f[0] \in S[0]
    BY <1>1, <1>12, <2>1, <2>3
  <2>5. ASSUME NEW i \in 1..n, f[i - 1] \in S[i - 1] PROVE f[i] \in S[i]
    BY <2>1, <2>2, <2>5, <1>3, <1>12
  <2>6. \A i \in 0..n : f[i] \in S[i]
    BY <2>4, <2>5, <1>2, TableInduction
  <2> QED BY <2>1, <2>6
<1> QED BY <1>4, <1>12, <1>13 DEF T, b, n, Op

\* What the parser returns: hunks with their lines, or an error.
LEMMA ParsedTypes ==
  ASSUME NEW L, NEW patch \in Seq(PatchLines(L))
  PROVE  /\ _parse_hunks(patch).code \in {"ok", "patch_invalid"}
         /\ _parse_hunks(patch).hunks \in Seq(HunkTypes(L))
<1>1. PICK f : /\ \A i \in 0..Len(patch) : f[i] \in ParserTypes(L)
               /\ Parsed(patch, f[Len(patch)])
  BY ParserTable
<1>2. f[Len(patch)] \in ParserTypes(L)
  BY <1>1
<1>3. PICK end \in ParserTypes(L) : end = f[Len(patch)]
  BY <1>2
<1>4. end \in [code : {"ok", "patch_invalid"}, open : BOOLEAN, hunks : Seq(HunkTypes(L))]
  BY DEF ParserTypes
<1>5. _parse_hunks(patch) = IF end.code = "ok" /\ end.hunks = <<>>
                            THEN [end EXCEPT !.code = "patch_invalid"] ELSE end
  BY <1>1, <1>3 DEF Parsed
<1> QED BY <1>4, <1>5

-----------------------------------------------------------------------------
(* The no-newline markers.                                                 *)

\* Taking the newline away leaves a line.
Bare(L) == \A line \in L : WithoutNewline(line) \in L

NormalTypes(L) == [code : {"ok", "patch_invalid"}, lines : Seq(Marks \X L)]

\* A line keeps the types, never repairs an error, and leaves lines or an error.
LEMMA NormalizeLineTypes ==
  ASSUME NEW L, Bare(L), NEW d \in NormalTypes(L), NEW line \in BodyLines(L)
  PROVE  /\ NormalizeLine(d, line) \in NormalTypes(L)
         /\ d.code # "ok" => NormalizeLine(d, line) = d
         /\ NormalizeLine(d, line).code = "ok" <=>
              d.code = "ok" /\ (line[1] = "no_newline" => d.lines # <<>>)
         /\ NormalizeLine(d, line).code = "ok" => NormalizeLine(d, line).lines # <<>>
<1> DEFINE M == Marks \X L
           n == Len(d.lines)
<1>0. d.code \in {"ok", "patch_invalid"} /\ d.lines \in Seq(M) /\ n \in Nat
  BY DEF NormalTypes
<1>1. CASE d.code # "ok"
  BY <1>1 DEF NormalizeLine
<1>2. CASE d.code = "ok" /\ line[1] # "no_newline"
  <2>1. line \in M
    BY <1>2, BodyKinds
  <2> HIDE DEF M
  <2>2. Append(d.lines, line) \in Seq(M) /\ Append(d.lines, line) # <<>>
    BY <2>1, <1>0
  <2>3. NormalizeLine(d, line) = [d EXCEPT !.lines = Append(d.lines, line)]
    BY <1>2 DEF NormalizeLine
  <2>4. /\ [d EXCEPT !.lines = Append(d.lines, line)] \in NormalTypes(L)
        /\ [d EXCEPT !.lines = Append(d.lines, line)].code = d.code
        /\ [d EXCEPT !.lines = Append(d.lines, line)].lines = Append(d.lines, line)
    BY <2>2 DEF NormalTypes, M
  <2> QED BY <1>2, <2>2, <2>3, <2>4
<1>3. CASE d.code = "ok" /\ line[1] = "no_newline" /\ d.lines = <<>>
  <2>1. NormalizeLine(d, line) = [d EXCEPT !.code = "patch_invalid"]
    BY <1>3 DEF NormalizeLine
  <2>2. /\ [d EXCEPT !.code = "patch_invalid"] \in NormalTypes(L)
        /\ [d EXCEPT !.code = "patch_invalid"].code = "patch_invalid"
    BY DEF NormalTypes
  <2> QED BY <1>3, <2>1, <2>2
<1>4. CASE d.code = "ok" /\ line[1] = "no_newline" /\ d.lines # <<>>
  <2> DEFINE last == d.lines[n]
             new == <<last[1], WithoutNewline(last[2])>>
             lines == [d.lines EXCEPT ![n] = new]
  <2>1. n \in 1..n
    BY <1>0, <1>4, EmptySeq
  <2>2. last \in M
    BY <1>0, <2>1
  <2>3. new \in M
    <3>1. last[1] \in Marks /\ last[2] \in L
      BY <2>2
    <3>2. WithoutNewline(last[2]) \in L
      BY <3>1 DEF Bare
    <3> QED BY <3>1, <3>2
  <2>4. NormalizeLine(d, line) = [d EXCEPT !.lines = lines]
    BY <1>0, <1>4 DEF NormalizeLine
  <2> HIDE DEF M, new
  <2>5. lines \in Seq(M) /\ Len(lines) = n
    BY <1>0, <2>1, <2>3, ExceptSeq
  <2> HIDE DEF lines
  <2>6. lines # <<>>
    BY <2>1, <2>5
  <2>7. /\ [d EXCEPT !.lines = lines] \in NormalTypes(L)
        /\ [d EXCEPT !.lines = lines].code = d.code
        /\ [d EXCEPT !.lines = lines].lines = lines
    BY <2>5 DEF NormalTypes, M
  <2> QED BY <1>4, <2>4, <2>6, <2>7
<1> QED BY <1>0, <1>1, <1>2, <1>3, <1>4

\* The lines so far, line by line.
LEMMA NormalTable ==
  ASSUME NEW L, Bare(L), NEW lines \in Seq(BodyLines(L))
  PROVE  \E f : /\ f[0] = [code |-> "ok", lines |-> <<>>]
                /\ \A i \in 1..Len(lines) : f[i] = NormalizeLine(f[i - 1], lines[i])
                /\ \A i \in 0..Len(lines) : f[i] \in NormalTypes(L)
                /\ _normalize_no_newline_markers(lines) = f[Len(lines)]
<1> DEFINE T == NormalTypes(L)
           b == [code |-> "ok", lines |-> <<>>]
           n == Len(lines)
           Op(t, i) == NormalizeLine(t, lines[i])
           step == [t \in T |-> [i \in 1..n |-> Op(t, i)]]
           Good(f) == f = [i \in 0..n |-> IF i = 0 THEN b ELSE Op(f[i - 1], i)]
           f == CHOOSE f : Good(f)
<1>1. b \in T
  BY DEF NormalTypes
<1>2. n \in Nat
  OBVIOUS
<1>3. \A t \in T, i \in 1..n : Op(t, i) \in T
  BY NormalizeLineTypes
<1>4. _normalize_no_newline_markers(lines) = f[Len(lines)]
  BY DEF _normalize_no_newline_markers
<1> HIDE DEF T, b, n, Op
<1>5. \A t \in T, i \in 1..n : step[t][i] = Op(t, i) /\ step[t][i] \in T
  BY <1>3
<1>6. IsStep(step, T, n)
  BY <1>5 DEF IsStep
<1> HIDE DEF step
<1>7. PICK g : IsTable(g, step, T, b, n)
  BY <1>1, <1>2, <1>6, RecursionTable
<1>8. ASSUME NEW i \in 0..n PROVE g[i] = IF i = 0 THEN b ELSE Op(g[i - 1], i)
  <2>1. CASE i = 0
    BY <2>1, <1>7 DEF IsTable
  <2>2. CASE i # 0
    <3>1. i \in 1..n /\ i - 1 \in 0..n
      BY <2>2, <1>2
    <3>2. g[i - 1] \in T /\ g[i] = step[g[i - 1]][i]
      BY <3>1, <1>7 DEF IsTable
    <3> QED BY <3>1, <3>2, <1>5, <2>2
  <2> QED BY <2>1, <2>2
<1>9. Good(g)
  <2>1. g = [i \in 0..n |-> g[i]]
    BY <1>7 DEF IsTable
  <2> QED BY <2>1, <1>8
<1>10. Good(f)
  BY <1>9
<1> HIDE DEF f
<1>11. \A i \in 0..n : f[i] = IF i = 0 THEN b ELSE Op(f[i - 1], i)
  BY <1>10
<1>12. f[0] = b /\ \A i \in 1..n : f[i] = Op(f[i - 1], i)
  <2>1. 0 \in 0..n /\ \A i \in 1..n : i \in 0..n /\ i # 0
    BY <1>2
  <2> QED BY <2>1, <1>11
<1>13. \A i \in 0..n : f[i] \in T
  <2> DEFINE S == [i \in 0..n |-> T]
  <2>1. \A i \in 0..n : S[i] = T
    OBVIOUS
  <2>2. \A i \in 1..n : i \in 0..n /\ i - 1 \in 0..n
    BY <1>2
  <2> HIDE DEF S
  <2>3. 0 \in 0..n
    BY <1>2
  <2>4. f[0] \in S[0]
    BY <1>1, <1>12, <2>1, <2>3
  <2>5. ASSUME NEW i \in 1..n, f[i - 1] \in S[i - 1] PROVE f[i] \in S[i]
    BY <2>1, <2>2, <2>5, <1>3, <1>12
  <2>6. \A i \in 0..n : f[i] \in S[i]
    BY <2>4, <2>5, <1>2, TableInduction
  <2> QED BY <2>1, <2>6
<1> QED BY <1>4, <1>12, <1>13 DEF T, b, n, Op

\* The lines of a hunk are normalized unless they begin with a marker.
LEMMA Normalized ==
  ASSUME NEW L, Bare(L), NEW lines \in Seq(BodyLines(L))
  PROVE  /\ _normalize_no_newline_markers(lines) \in NormalTypes(L)
         /\ _normalize_no_newline_markers(lines).code = "ok" <=>
              (lines # <<>> => lines[1][1] # "no_newline")
<1> DEFINE n == Len(lines)
<1>1. PICK f : /\ f[0] = [code |-> "ok", lines |-> <<>>]
               /\ \A i \in 1..n : f[i] = NormalizeLine(f[i - 1], lines[i])
               /\ \A i \in 0..n : f[i] \in NormalTypes(L)
               /\ _normalize_no_newline_markers(lines) = f[n]
  BY NormalTable
<1>2. n \in Nat /\ n \in 0..n
  OBVIOUS
<1>3. CASE lines = <<>>
  <2>1. n = 0
    BY <1>3
  <2> QED BY <2>1, <1>1, <1>2, <1>3
<1>4. CASE lines # <<>>
  <2>1. n \in 1..n /\ 1 \in 1..n
    BY <1>4, <1>2, EmptySeq
  <2> DEFINE starts == lines[1][1] # "no_newline"
             Begun(d) == /\ d.code = "ok" <=> starts
                         /\ d.code = "ok" => d.lines # <<>>
             I == {i \in Nat : i + 1 <= n => Begun(f[i + 1])}
  <2>2. 0 \in I
    <3>1. f[1] = NormalizeLine(f[0], lines[1]) /\ f[0] \in NormalTypes(L) /\ lines[1] \in BodyLines(L)
      <4>1. 1 - 1 = 0 /\ 0 \in 0..n
        BY <1>2
      <4> QED BY <1>1, <2>1, <4>1
    <3>2. f[0].code = "ok" /\ f[0].lines = <<>>
      BY <1>1
    <3>3. Begun(f[1])
      BY <3>1, <3>2, NormalizeLineTypes
    <3> QED BY <3>3
  <2>3. ASSUME NEW i \in Nat, i \in I PROVE i + 1 \in I
    <3>1. SUFFICES ASSUME (i + 1) + 1 <= n PROVE Begun(f[(i + 1) + 1])
      OBVIOUS
    <3>2. /\ (i + 1) + 1 \in 1..n /\ ((i + 1) + 1) - 1 = i + 1 /\ i + 1 <= n /\ i + 1 \in 0..n
      BY <3>1, <1>2
    <3>3. PICK k \in 1..n : k = (i + 1) + 1
      BY <3>2
    <3>4. f[k] = NormalizeLine(f[i + 1], lines[k]) /\ f[i + 1] \in NormalTypes(L) /\ lines[k] \in BodyLines(L)
      BY <3>2, <3>3, <1>1
    <3>5. Begun(f[i + 1])
      BY <2>3, <3>2
    <3>6. Begun(f[k])
      <4>1. PICK d \in NormalTypes(L) : d = f[i + 1]
        BY <3>4
      <4>2. PICK line \in BodyLines(L) : line = lines[k]
        BY <3>4
      <4> HIDE DEF starts
      <4> QED BY SMTT(30), <3>4, <3>5, <4>1, <4>2, NormalizeLineTypes
    <3> QED BY <3>3, <3>6
  <2>4. Nat \subseteq I
    <3> HIDE DEF I
    <3> QED BY <2>2, <2>3, SetInduction
  <2>5. n - 1 \in Nat /\ (n - 1) + 1 = n
    BY <2>1, <1>2
  <2>6. Begun(f[n])
    BY <2>4, <2>5
  <2> QED BY <2>6, <1>1, <1>2, <1>4
<1> QED BY <1>3, <1>4

-----------------------------------------------------------------------------
(* The lines of a hunk.                                                    *)

NormalLines(hunk) == _normalize_no_newline_markers(hunk.lines).lines
OneSide(side, line, mark) == IF line[1] \in {"context", mark} THEN Append(side, line[2]) ELSE side

\* The lines of a hunk after normalization.
LEMMA NormalLinesTypes ==
  ASSUME NEW L, Bare(L), NEW hunk \in HunkTypes(L)
  PROVE  NormalLines(hunk) \in Seq(Marks \X L)
<1>1. hunk.lines \in Seq(BodyLines(L))
  BY DEF HunkTypes
<1>2. _normalize_no_newline_markers(hunk.lines) \in NormalTypes(L)
  BY <1>1, Normalized
<1> QED BY <1>2 DEF NormalTypes, NormalLines

\* One side of a hunk, line by line.
LEMMA SideTable ==
  ASSUME NEW L, Bare(L), NEW hunk \in HunkTypes(L), NEW mark
  PROVE  \E f : /\ f[0] = <<>>
                /\ \A i \in 1..Len(NormalLines(hunk)) : f[i] = OneSide(f[i - 1], NormalLines(hunk)[i], mark)
                /\ \A i \in 0..Len(NormalLines(hunk)) : f[i] \in Seq(L)
                /\ Side(hunk, mark) = f[Len(NormalLines(hunk))]
<1> DEFINE T == Seq(L)
           b == <<>>
           n == Len(NormalLines(hunk))
           Op(t, i) == OneSide(t, NormalLines(hunk)[i], mark)
           step == [t \in T |-> [i \in 1..n |-> Op(t, i)]]
           Good(f) == f = [i \in 0..n |-> IF i = 0 THEN b ELSE Op(f[i - 1], i)]
           f == CHOOSE f : Good(f)
<1>1. b \in T
  OBVIOUS
<1>2. n \in Nat
  BY NormalLinesTypes
<1>3. \A t \in T, i \in 1..n : Op(t, i) \in T
  <2>1. NormalLines(hunk) \in Seq(Marks \X L)
    BY NormalLinesTypes
  <2>2. \A i \in 1..n : NormalLines(hunk)[i][2] \in L
    BY <2>1
  <2> QED BY <2>2 DEF OneSide
<1>4. Side(hunk, mark) = f[Len(NormalLines(hunk))]
  BY DEF Side, NormalLines, OneSide
<1> HIDE DEF T, b, n, Op
<1>5. \A t \in T, i \in 1..n : step[t][i] = Op(t, i) /\ step[t][i] \in T
  BY <1>3
<1>6. IsStep(step, T, n)
  BY <1>5 DEF IsStep
<1> HIDE DEF step
<1>7. PICK g : IsTable(g, step, T, b, n)
  BY <1>1, <1>2, <1>6, RecursionTable
<1>8. ASSUME NEW i \in 0..n PROVE g[i] = IF i = 0 THEN b ELSE Op(g[i - 1], i)
  <2>1. CASE i = 0
    BY <2>1, <1>7 DEF IsTable
  <2>2. CASE i # 0
    <3>1. i \in 1..n /\ i - 1 \in 0..n
      BY <2>2, <1>2
    <3>2. g[i - 1] \in T /\ g[i] = step[g[i - 1]][i]
      BY <3>1, <1>7 DEF IsTable
    <3> QED BY <3>1, <3>2, <1>5, <2>2
  <2> QED BY <2>1, <2>2
<1>9. Good(g)
  <2>1. g = [i \in 0..n |-> g[i]]
    BY <1>7 DEF IsTable
  <2> QED BY <2>1, <1>8
<1>10. Good(f)
  BY <1>9
<1> HIDE DEF f
<1>11. \A i \in 0..n : f[i] = IF i = 0 THEN b ELSE Op(f[i - 1], i)
  BY <1>10
<1>12. f[0] = b /\ \A i \in 1..n : f[i] = Op(f[i - 1], i)
  <2>1. 0 \in 0..n /\ \A i \in 1..n : i \in 0..n /\ i # 0
    BY <1>2
  <2> QED BY <2>1, <1>11
<1>13. \A i \in 0..n : f[i] \in T
  <2> DEFINE S == [i \in 0..n |-> T]
  <2>1. \A i \in 0..n : S[i] = T
    OBVIOUS
  <2>2. \A i \in 1..n : i \in 0..n /\ i - 1 \in 0..n
    BY <1>2
  <2> HIDE DEF S
  <2>3. 0 \in 0..n
    BY <1>2
  <2>4. f[0] \in S[0]
    BY <1>1, <1>12, <2>1, <2>3
  <2>5. ASSUME NEW i \in 1..n, f[i - 1] \in S[i - 1] PROVE f[i] \in S[i]
    BY <2>1, <2>2, <2>5, <1>3, <1>12
  <2>6. \A i \in 0..n : f[i] \in S[i]
    BY <2>4, <2>5, <1>2, TableInduction
  <2> QED BY <2>1, <2>6
<1> QED BY <1>4, <1>12, <1>13 DEF T, b, n, Op

\* The lines stand in the source behind the first t lines.
Matches(source, t, lines) ==
  t + Len(lines) <= Len(source) /\ \A k \in 1..Len(lines) : source[t + k] = lines[k]

\* One line more.
LEMMA MatchesAppend ==
  ASSUME NEW L, NEW source \in Seq(L), NEW t \in Nat, NEW o \in Seq(L), NEW line \in L
  PROVE  Matches(source, t, Append(o, line)) <=>
           /\ Matches(source, t, o)
           /\ t + Len(o) < Len(source) /\ source[(t + Len(o)) + 1] = line
<1> DEFINE a == Append(o, line)
<1>1. /\ Len(a) = Len(o) + 1 /\ a[Len(o) + 1] = line /\ \A k \in 1..Len(o) : a[k] = o[k]
  OBVIOUS
<1>2. Len(o) \in Nat /\ Len(source) \in Nat /\ (t + Len(o)) + 1 = t + (Len(o) + 1)
  OBVIOUS
<1>3. \A k : k \in 1..Len(o) + 1 <=> k \in 1..Len(o) \/ k = Len(o) + 1
  BY <1>2
<1> HIDE DEF a
<1>4. t + Len(a) <= Len(source) <=> t + Len(o) < Len(source)
  BY <1>1, <1>2
<1>5. t + Len(o) < Len(source) => t + Len(o) <= Len(source)
  BY <1>2
<1>6. (\A k \in 1..Len(a) : source[t + k] = a[k]) <=>
        (\A k \in 1..Len(o) : source[t + k] = o[k]) /\ source[t + (Len(o) + 1)] = line
  BY <1>1, <1>3
<1> QED BY <1>2, <1>4, <1>5, <1>6 DEF Matches, a

StateTypes(L) == [code : {"ok", "file_conflict", "patch_invalid"}, result : Seq(L), index : Nat,
                  consumed : Nat, produced : Nat]

\* After the lines old and new of a hunk at t, with r before it.
Applied(source, s, t, r, old, new) ==
  /\ s.code # "patch_invalid"
  /\ s.code = "ok" <=> Matches(source, t, old)
  /\ s.code = "ok" => /\ s.index = t + Len(old) /\ s.consumed = Len(old)
                      /\ s.produced = Len(new) /\ s.result = r \o new

\* The step of one line.
LEMMA HunkLineStep ==
  ASSUME NEW L, NEW source \in Seq(L), NEW s \in StateTypes(L), NEW line \in Marks \X L,
         NEW t \in Nat, NEW r \in Seq(L), NEW old \in Seq(L), NEW new \in Seq(L),
         Applied(source, s, t, r, old, new)
  PROVE  /\ HunkLine(source, s, line) \in StateTypes(L)
         /\ Applied(source, HunkLine(source, s, line), t, r,
                    OneSide(old, line, "removed"), OneSide(new, line, "added"))
<1> DEFINE e == HunkLine(source, s, line)
           m == line[1]
           v == line[2]
<1>0. m \in Marks /\ v \in L
  OBVIOUS
<1>1. /\ s.code \in {"ok", "file_conflict", "patch_invalid"} /\ s.result \in Seq(L)
      /\ s.index \in Nat /\ s.consumed \in Nat /\ s.produced \in Nat
  BY DEF StateTypes
<1>2. Matches(source, t, Append(old, v)) <=>
        /\ Matches(source, t, old)
        /\ t + Len(old) < Len(source) /\ source[(t + Len(old)) + 1] = v
  BY <1>0, MatchesAppend
<1>3. Len(Append(old, v)) = Len(old) + 1 /\ Len(Append(new, v)) = Len(new) + 1
  BY <1>0
<1>4. (t + Len(old)) + 1 = t + (Len(old) + 1)
  OBVIOUS
<1>5. r \o Append(new, v) = Append(r \o new, v)
  BY SMTT(30), <1>0, ConcatProperties
<1>6. CASE s.code # "ok"
  <2>1. e = s
    BY <1>6 DEF HunkLine
  <2>2. ~ Matches(source, t, old) /\ s.code # "patch_invalid"
    BY <1>6 DEF Applied
  <2> HIDE DEF e
  <2>3. ~ Matches(source, t, OneSide(old, line, "removed"))
    BY <2>2, <1>2 DEF OneSide
  <2> QED BY <2>1, <2>2, <2>3, <1>6 DEF Applied, e
<1>7. CASE s.code = "ok" /\ m = "added"
  <2>1. e = [s EXCEPT !.result = Append(s.result, v), !.produced = s.produced + 1]
    BY <1>7 DEF HunkLine
  <2>2. OneSide(old, line, "removed") = old /\ OneSide(new, line, "added") = Append(new, v)
    BY <1>7 DEF OneSide
  <2>3. Append(s.result, v) \in Seq(L) /\ s.produced + 1 \in Nat
    BY <1>0, <1>1
  <2>4. /\ e \in StateTypes(L) /\ e.code = s.code /\ e.index = s.index /\ e.consumed = s.consumed
        /\ e.result = Append(s.result, v) /\ e.produced = s.produced + 1
    <3> HIDE DEF e, m, v
    <3> QED BY <2>1, <2>3 DEF StateTypes
  <2> HIDE DEF e, m, v
  <2> QED BY <2>2, <2>4, <1>3, <1>5, <1>7 DEF Applied, e
<1>8. CASE s.code = "ok" /\ m # "added" /\ ~ _require_source_line(source, s.index, v)
  <2>1. e = [s EXCEPT !.code = "file_conflict"]
    BY <1>8 DEF HunkLine
  <2>2. e \in StateTypes(L) /\ e.code = "file_conflict"
    <3> HIDE DEF e, m, v
    <3> QED BY <2>1 DEF StateTypes
  <2>3. OneSide(old, line, "removed") = Append(old, v)
    BY <1>0, <1>8 DEF OneSide, Marks
  <2> HIDE DEF e, m, v
  <2>4. ~ (t + Len(old) < Len(source) /\ source[(t + Len(old)) + 1] = v)
    BY <1>8 DEF Applied, _require_source_line
  <2> QED BY <2>2, <2>3, <2>4, <1>2 DEF Applied, e
<1>9. CASE s.code = "ok" /\ m # "added" /\ _require_source_line(source, s.index, v)
  <2> DEFINE res == IF m = "context" THEN Append(s.result, v) ELSE s.result
             prod == IF m = "context" THEN s.produced + 1 ELSE s.produced
  <2>1. e = [s EXCEPT !.index = s.index + 1, !.consumed = s.consumed + 1,
                      !.result = res, !.produced = prod]
    BY <1>9 DEF HunkLine
  <2>2. OneSide(old, line, "removed") = Append(old, v)
    BY <1>0, <1>9 DEF OneSide, Marks
  <2>3. OneSide(new, line, "added") = IF m = "context" THEN Append(new, v) ELSE new
    BY <1>9 DEF OneSide
  <2>4. res \in Seq(L) /\ prod \in Nat /\ s.index + 1 \in Nat /\ s.consumed + 1 \in Nat
    <3>1. Append(s.result, v) \in Seq(L) /\ s.produced + 1 \in Nat
      BY <1>0, <1>1
    <3> HIDE DEF m, v
    <3> QED BY SMTT(30), <3>1, <1>1
  <2>5. /\ e \in StateTypes(L) /\ e.code = s.code /\ e.index = s.index + 1 /\ e.consumed = s.consumed + 1
        /\ e.result = res /\ e.produced = prod
    <3> HIDE DEF e, m, v, res, prod
    <3> QED BY <2>1, <2>4 DEF StateTypes
  <2>6. Matches(source, t, Append(old, v))
    <3> HIDE DEF e, m, v
    <3> QED BY <1>2, <1>9 DEF Applied, _require_source_line
  <2>7. s.index = t + Len(old) /\ s.consumed = Len(old) /\ s.produced = Len(new) /\ s.result = r \o new
    BY <1>9 DEF Applied
  <2>8. e.index = t + Len(Append(old, v)) /\ e.consumed = Len(Append(old, v))
    <3> HIDE DEF e, m, v
    <3> QED BY <2>5, <2>7, <1>3, <1>4
  <2>9. /\ e.produced = Len(OneSide(new, line, "added"))
        /\ e.result = r \o OneSide(new, line, "added")
    <3> HIDE DEF e, m, v
    <3> QED BY <2>3, <2>5, <2>7, <1>3, <1>5 DEF res, prod
  <2> HIDE DEF e, m, v
  <2> QED BY <2>2, <2>5, <2>6, <2>8, <2>9, <1>9 DEF Applied, e
<1> QED BY <1>6, <1>7, <1>8, <1>9

\* A line of a hunk keeps the types.
LEMMA HunkLineTypes ==
  ASSUME NEW L, NEW source, NEW s \in StateTypes(L), NEW line \in Marks \X L
  PROVE  HunkLine(source, s, line) \in StateTypes(L)
<1>1. line[2] \in L
  OBVIOUS
<1>2. /\ s.result \in Seq(L) /\ Append(s.result, line[2]) \in Seq(L)
      /\ s.index + 1 \in Nat /\ s.consumed + 1 \in Nat /\ s.produced + 1 \in Nat
      /\ s.produced \in Nat
  BY <1>1 DEF StateTypes
<1> DEFINE res == IF line[1] = "context" THEN Append(s.result, line[2]) ELSE s.result
           prod == IF line[1] = "context" THEN s.produced + 1 ELSE s.produced
<1>3. res \in Seq(L) /\ prod \in Nat
  BY <1>2
<1>4. HunkLine(source, s, line) \in
        {s, [s EXCEPT !.result = Append(s.result, line[2]), !.produced = s.produced + 1],
         [s EXCEPT !.code = "file_conflict"],
         [s EXCEPT !.index = s.index + 1, !.consumed = s.consumed + 1, !.result = res, !.produced = prod]}
  BY DEF HunkLine
<1> HIDE DEF res, prod
<1>5. [s EXCEPT !.result = Append(s.result, line[2]), !.produced = s.produced + 1] \in StateTypes(L)
  BY <1>2 DEF StateTypes
<1>6. [s EXCEPT !.code = "file_conflict"] \in StateTypes(L)
  BY DEF StateTypes
<1>7. [s EXCEPT !.index = s.index + 1, !.consumed = s.consumed + 1, !.result = res, !.produced = prod]
        \in StateTypes(L)
  BY <1>2, <1>3 DEF StateTypes
<1> QED BY <1>4, <1>5, <1>6, <1>7

\* The states f of the inner loop, line by line.
LinesRun(f, L, source, before, lines) ==
  /\ f[0] = before
  /\ \A i \in 1..Len(lines) : f[i] = HunkLine(source, f[i - 1], lines[i])
  /\ \A i \in 0..Len(lines) : f[i] \in StateTypes(L)
  /\ HunkLines(source, before, lines) = f[Len(lines)]

\* The inner loop has such states.
LEMMA HunkLinesTable ==
  ASSUME NEW L, NEW source \in Seq(L), NEW before \in StateTypes(L), NEW lines \in Seq(Marks \X L)
  PROVE  \E f : LinesRun(f, L, source, before, lines)
<1> SUFFICES \E f : /\ f[0] = before
                    /\ \A i \in 1..Len(lines) : f[i] = HunkLine(source, f[i - 1], lines[i])
                    /\ \A i \in 0..Len(lines) : f[i] \in StateTypes(L)
                    /\ HunkLines(source, before, lines) = f[Len(lines)]
  BY DEF LinesRun
<1> DEFINE T == StateTypes(L)
           b == before
           n == Len(lines)
           Op(t, i) == HunkLine(source, t, lines[i])
           step == [t \in T |-> [i \in 1..n |-> Op(t, i)]]
           Good(f) == f = [i \in 0..n |-> IF i = 0 THEN b ELSE Op(f[i - 1], i)]
           f == CHOOSE f : Good(f)
<1>1. b \in T
  OBVIOUS
<1>2. n \in Nat
  OBVIOUS
<1>3. \A t \in T, i \in 1..n : Op(t, i) \in T
  BY HunkLineTypes
<1>4. HunkLines(source, before, lines) = f[Len(lines)]
  BY DEF HunkLines
<1> HIDE DEF T, b, n, Op
<1>5. \A t \in T, i \in 1..n : step[t][i] = Op(t, i) /\ step[t][i] \in T
  BY <1>3
<1>6. IsStep(step, T, n)
  BY <1>5 DEF IsStep
<1> HIDE DEF step
<1>7. PICK g : IsTable(g, step, T, b, n)
  BY <1>1, <1>2, <1>6, RecursionTable
<1>8. ASSUME NEW i \in 0..n PROVE g[i] = IF i = 0 THEN b ELSE Op(g[i - 1], i)
  <2>1. CASE i = 0
    BY <2>1, <1>7 DEF IsTable
  <2>2. CASE i # 0
    <3>1. i \in 1..n /\ i - 1 \in 0..n
      BY <2>2, <1>2
    <3>2. g[i - 1] \in T /\ g[i] = step[g[i - 1]][i]
      BY <3>1, <1>7 DEF IsTable
    <3> QED BY <3>1, <3>2, <1>5, <2>2
  <2> QED BY <2>1, <2>2
<1>9. Good(g)
  <2>1. g = [i \in 0..n |-> g[i]]
    BY <1>7 DEF IsTable
  <2> QED BY <2>1, <1>8
<1>10. Good(f)
  BY <1>9
<1> HIDE DEF f
<1>11. \A i \in 0..n : f[i] = IF i = 0 THEN b ELSE Op(f[i - 1], i)
  BY <1>10
<1>12. f[0] = b /\ \A i \in 1..n : f[i] = Op(f[i - 1], i)
  <2>1. 0 \in 0..n /\ \A i \in 1..n : i \in 0..n /\ i # 0
    BY <1>2
  <2> QED BY <2>1, <1>11
<1>13. \A i \in 0..n : f[i] \in T
  <2> DEFINE S == [i \in 0..n |-> T]
  <2>1. \A i \in 0..n : S[i] = T
    OBVIOUS
  <2>2. \A i \in 1..n : i \in 0..n /\ i - 1 \in 0..n
    BY <1>2
  <2> HIDE DEF S
  <2>3. 0 \in 0..n
    BY <1>2
  <2>4. f[0] \in S[0]
    BY <1>1, <1>12, <2>1, <2>3
  <2>5. ASSUME NEW i \in 1..n, f[i - 1] \in S[i - 1] PROVE f[i] \in S[i]
    BY <2>1, <2>2, <2>5, <1>3, <1>12
  <2>6. \A i \in 0..n : f[i] \in S[i]
    BY <2>4, <2>5, <1>2, TableInduction
  <2> QED BY <2>1, <2>6
<1> QED BY <1>4, <1>12, <1>13 DEF T, b, n, Op

\* The inner loop succeeds exactly if the old lines stand in the source, and appends the new.
LEMMA HunkLinesApplied ==
  ASSUME NEW L, Bare(L), NEW source \in Seq(L), NEW hunk \in HunkTypes(L),
         NEW before \in StateTypes(L), before.code = "ok", before.consumed = 0, before.produced = 0,
         before.index <= Len(source)
  PROVE  /\ HunkLines(source, before, NormalLines(hunk)) \in StateTypes(L)
         /\ Applied(source, HunkLines(source, before, NormalLines(hunk)), before.index, before.result,
                    Side(hunk, "removed"), Side(hunk, "added"))
<1> DEFINE lines == NormalLines(hunk)
           n == Len(lines)
           t == before.index
           r == before.result
<1>0. lines \in Seq(Marks \X L) /\ n \in Nat /\ n \in 0..n
  BY NormalLinesTypes
<1>1. t \in Nat /\ r \in Seq(L)
  BY DEF StateTypes
<1>2. PICK old : /\ old[0] = <<>>
                 /\ \A i \in 1..n : old[i] = OneSide(old[i - 1], lines[i], "removed")
                 /\ \A i \in 0..n : old[i] \in Seq(L)
                 /\ Side(hunk, "removed") = old[n]
  BY ZenonT(40), SideTable
<1>3. PICK new : /\ new[0] = <<>>
                 /\ \A i \in 1..n : new[i] = OneSide(new[i - 1], lines[i], "added")
                 /\ \A i \in 0..n : new[i] \in Seq(L)
                 /\ Side(hunk, "added") = new[n]
  BY ZenonT(40), SideTable
<1>4. PICK f : /\ f[0] = before
               /\ \A i \in 1..n : f[i] = HunkLine(source, f[i - 1], lines[i])
               /\ \A i \in 0..n : f[i] \in StateTypes(L)
               /\ HunkLines(source, before, lines) = f[n]
  <2>1. \E f : LinesRun(f, L, source, before, lines)
    BY <1>0, HunkLinesTable
  <2> QED BY <2>1, Zenon DEF LinesRun
<1> DEFINE S == [i \in 0..n |-> {s \in StateTypes(L) : Applied(source, s, t, r, old[i], new[i])}]
<1> HIDE DEF lines, n, t, r
<1>5. \A i \in 0..n : S[i] = {s \in StateTypes(L) : Applied(source, s, t, r, old[i], new[i])}
  OBVIOUS
<1> HIDE DEF S
<1>6. 0 \in 0..n /\ \A i \in 1..n : i \in 0..n /\ i - 1 \in 0..n
  BY <1>0
<1>7. f[0] \in S[0]
  <2>1. Len(<<>>) = 0 /\ r \o <<>> = r /\ 1..0 = {}
    BY <1>1, ConcatEmptySeq
  <2>2. t + 0 = t
    BY <1>1
  <2>3. Matches(source, t, <<>>)
    BY <2>1, <2>2 DEF Matches, t
  <2>4. Applied(source, before, t, r, <<>>, <<>>)
    BY <2>1, <2>2, <2>3 DEF Applied, t, r
  <2> QED BY <2>4, <1>2, <1>3, <1>4, <1>5, <1>6
<1>8. ASSUME NEW i \in 1..n, f[i - 1] \in S[i - 1] PROVE f[i] \in S[i]
  <2>1. i \in 0..n /\ i - 1 \in 0..n
    BY <1>6
  <2>2. PICK s \in StateTypes(L) : s = f[i - 1]
    BY <2>1, <1>4
  <2>3. PICK o \in Seq(L) : o = old[i - 1]
    BY <2>1, <1>2
  <2>4. PICK w \in Seq(L) : w = new[i - 1]
    BY <2>1, <1>3
  <2>5. PICK line \in Marks \X L : line = lines[i]
    BY <1>0 DEF n
  <2>6. Applied(source, s, t, r, o, w)
    BY <1>8, <2>1, <2>2, <2>3, <2>4, <1>5
  <2>7. /\ HunkLine(source, s, line) \in StateTypes(L)
        /\ Applied(source, HunkLine(source, s, line), t, r, OneSide(o, line, "removed"), OneSide(w, line, "added"))
    BY <2>6, <1>1, HunkLineStep
  <2>8. /\ f[i] = HunkLine(source, s, line)
        /\ old[i] = OneSide(o, line, "removed") /\ new[i] = OneSide(w, line, "added")
    BY <2>2, <2>3, <2>4, <2>5, <1>2, <1>3, <1>4
  <2> QED BY <2>1, <2>7, <2>8, <1>5
<1>9. \A i \in 0..n : f[i] \in S[i]
  BY <1>0, <1>7, <1>8, TableInduction
<1>10. f[n] \in StateTypes(L) /\ Applied(source, f[n], t, r, old[n], new[n])
  BY <1>0, <1>5, <1>9
<1> QED BY <1>2, <1>3, <1>4, <1>10 DEF lines, n, t, r

-----------------------------------------------------------------------------
(* The hunks of a patch.                                                   *)

\* The sides of a hunk and where it begins.
LEMMA SideTypes ==
  ASSUME NEW L, Bare(L), NEW hunk \in HunkTypes(L)
  PROVE  /\ Side(hunk, "removed") \in Seq(L) /\ Side(hunk, "added") \in Seq(L)
         /\ hunk.old_start \in Nat /\ hunk.old_count \in Nat /\ hunk.new_count \in Nat
         /\ Before(hunk) \in Int /\ TargetIndex(hunk) \in Int
         /\ WellFormed(hunk) => TargetIndex(hunk) = Before(hunk)
<1>1. ASSUME NEW mark PROVE Side(hunk, mark) \in Seq(L)
  <2>1. Len(NormalLines(hunk)) \in 0..Len(NormalLines(hunk))
    BY NormalLinesTypes
  <2> QED BY <2>1, SideTable
<1>2. hunk.old_start \in Nat /\ hunk.old_count \in Nat /\ hunk.new_count \in Nat
  BY DEF HunkTypes
<1>3. Before(hunk) \in Int /\ TargetIndex(hunk) \in Int
  BY <1>2 DEF Before, TargetIndex
<1>4. ASSUME WellFormed(hunk) PROVE TargetIndex(hunk) = Before(hunk)
  <2>1. Len(Side(hunk, "removed")) = hunk.old_count
    BY <1>4 DEF WellFormed
  <2>2. PICK o \in Seq(L) : o = Side(hunk, "removed")
    BY <1>1
  <2>3. o = <<>> <=> ~ (hunk.old_count > 0)
    BY <2>1, <2>2, <1>2, EmptySeq
  <2> QED BY <2>2, <2>3 DEF Before, TargetIndex
<1> QED BY <1>1, <1>2, <1>3, <1>4

\* The old lines of a hunk stand where they are said to.
LEMMA MatchesFits ==
  ASSUME NEW L, NEW source \in Seq(L), NEW t \in Nat, NEW o \in Seq(L), t + Len(o) <= Len(source)
  PROVE  SubSeq(source, t + 1, t + Len(o)) = o <=> Matches(source, t, o)
<1> DEFINE m == Len(o)
           z == SubSeq(source, t + 1, t + m)
<1>1. m \in Nat /\ Len(source) \in Nat
  OBVIOUS
<1>2. \A i \in t + 1 .. t + m : source[i] \in L
  BY <1>1
<1>3. /\ z \in Seq(L) /\ Len(z) = m /\ \A k \in 1..m : z[k] = source[t + k]
  <2>1. /\ z \in Seq(L)
        /\ Len(z) = IF t + 1 <= t + m THEN (t + m) - (t + 1) + 1 ELSE 0
        /\ \A i \in 1..(t + m) - (t + 1) + 1 : z[i] = source[(t + 1) + i - 1]
    <3> HIDE DEF m
    <3> QED BY <1>1, <1>2, SubSeqProperties
  <2>2. (t + m) - (t + 1) + 1 = m
    BY <1>1
  <2>3. \A k \in 1..m : (t + 1) + k - 1 = t + k
    BY <1>1
  <2>4. Len(z) = m
    <3> HIDE DEF m, z
    <3> QED BY <2>1, <1>1
  <2> HIDE DEF m, z
  <2> QED BY <2>1, <2>2, <2>3, <2>4
<1> HIDE DEF z
<1>4. z = o <=> \A k \in 1..m : z[k] = o[k]
  BY <1>3, SeqEqual
<1> QED BY <1>3, <1>4 DEF Matches, z

\* The part of a sequence between two of its positions.
LEMMA Part ==
  ASSUME NEW L, NEW source \in Seq(L), NEW i \in Nat, NEW j \in Int, i <= j, j <= Len(source)
  PROVE  SubSeq(source, i + 1, j) \in Seq(L)
<1>1. \A k \in i + 1 .. j : source[k] \in L
  OBVIOUS
<1> QED BY <1>1, SubSeqProperties

\* The state e that a hunk leads to from a state s that has not failed.
Outcome(source, s, hunk, e) ==
  /\ e.code = "ok" <=> WellFormed(hunk) /\ Fits(source, hunk) /\ s.index <= Before(hunk)
  /\ e.code = "ok" =>
       /\ e.index = Before(hunk) + Len(Side(hunk, "removed"))
       /\ e.result = s.result \o SubSeq(source, s.index + 1, Before(hunk)) \o Side(hunk, "added")

\* A hunk is applied exactly if it is well formed, fits and does not begin before the cursor;
\* then its new lines follow the lines it passed over.
LEMMA HunkApplied ==
  ASSUME NEW L, Bare(L), NEW source \in Seq(L), NEW s \in StateTypes(L), NEW hunk \in HunkTypes(L),
         s.code = "ok", s.index <= Len(source)
  PROVE  /\ Hunk(source, s, hunk) \in StateTypes(L)
         /\ Outcome(source, s, hunk, Hunk(source, s, hunk))
<1> SUFFICES /\ Hunk(source, s, hunk) \in StateTypes(L)
             /\ Hunk(source, s, hunk).code = "ok" <=>
                  WellFormed(hunk) /\ Fits(source, hunk) /\ s.index <= Before(hunk)
             /\ Hunk(source, s, hunk).code = "ok" =>
                      /\ Hunk(source, s, hunk).index = Before(hunk) + Len(Side(hunk, "removed"))
                      /\ Hunk(source, s, hunk).result
                       = s.result \o SubSeq(source, s.index + 1, Before(hunk)) \o Side(hunk, "added")
  BY DEF Outcome
<1> DEFINE e == Hunk(source, s, hunk)
           target == TargetIndex(hunk)
           normal == _normalize_no_newline_markers(hunk.lines)
           passed == s.result \o SubSeq(source, s.index + 1, target)
           before == [s EXCEPT !.result = passed, !.index = target, !.consumed = 0, !.produced = 0]
           after == HunkLines(source, before, NormalLines(hunk))
           old == Side(hunk, "removed")
           new == Side(hunk, "added")
           Right == WellFormed(hunk) /\ Fits(source, hunk) /\ s.index <= Before(hunk)
           outside == target < s.index \/ target > Len(source)
           counts == after.consumed = hunk.old_count /\ after.produced = hunk.new_count
<1>1. /\ s.code \in {"ok", "file_conflict", "patch_invalid"} /\ s.result \in Seq(L) /\ s.index \in Nat
  BY DEF StateTypes
<1>2. /\ old \in Seq(L) /\ new \in Seq(L) /\ target \in Int /\ Before(hunk) \in Int
      /\ WellFormed(hunk) => target = Before(hunk)
      /\ hunk.old_count \in Nat /\ hunk.new_count \in Nat
  BY SideTypes
<1>3. /\ normal \in NormalTypes(L)
      /\ normal.code = "ok" <=> (hunk.lines # <<>> => hunk.lines[1][1] # "no_newline")
  <2>1. hunk.lines \in Seq(BodyLines(L))
    BY DEF HunkTypes
  <2> QED BY <2>1, Normalized
<1>4. e = IF outside THEN [s EXCEPT !.code = "file_conflict"]
          ELSE IF normal.code # "ok" THEN [s EXCEPT !.code = normal.code]
          ELSE IF after.code = "ok" /\ ~ counts THEN [after EXCEPT !.code = "patch_invalid"]
          ELSE after
  BY DEF Hunk, NormalLines
<1>5. WellFormed(hunk) <=> /\ normal.code = "ok"
                           /\ Len(old) = hunk.old_count /\ Len(new) = hunk.new_count
  BY <1>3 DEF WellFormed
<1>6. Fits(source, hunk) <=> /\ Before(hunk) \in 0..Len(source)
                             /\ Before(hunk) + Len(old) <= Len(source)
                             /\ SubSeq(source, Before(hunk) + 1, Before(hunk) + Len(old)) = old
  BY DEF Fits
<1> HIDE DEF e, target, normal, old, new, counts
<1>7. CASE outside
  <2>1. e = [s EXCEPT !.code = "file_conflict"]
    BY <1>4, <1>7
  <2>2. e \in StateTypes(L) /\ e.code = "file_conflict"
    BY <2>1 DEF StateTypes
  <2>3. ~ Right
    <3>1. Len(source) \in Nat
      OBVIOUS
    <3>2. Right => target = Before(hunk) /\ target \in 0..Len(source) /\ s.index <= target
      BY <1>2, <1>6
    <3>3. ~ (target \in 0..Len(source) /\ s.index <= target)
      BY <1>1, <1>2, <1>7, <3>1
    <3> QED BY <3>2, <3>3
  <2> QED BY <2>2, <2>3 DEF e
<1>8. CASE ~ outside /\ normal.code # "ok"
  <2>1. e = [s EXCEPT !.code = normal.code] /\ normal.code = "patch_invalid"
    BY <1>3, <1>4, <1>8 DEF NormalTypes
  <2>2. e \in StateTypes(L) /\ e.code = "patch_invalid"
    BY <2>1 DEF StateTypes
  <2> QED BY <2>2, <1>5, <1>8 DEF e
<1>9. CASE ~ outside /\ normal.code = "ok"
  <2>1. target \in Nat /\ s.index <= target /\ target <= Len(source)
    BY <1>1, <1>2, <1>9
  <2>2. passed \in Seq(L)
    <3>1. SubSeq(source, s.index + 1, target) \in Seq(L)
      BY <1>1, <2>1, Part
    <3> QED BY <3>1, <1>1, ConcatProperties
  <2> HIDE DEF passed
  <2>3. /\ before \in StateTypes(L) /\ before.code = "ok" /\ before.consumed = 0
        /\ before.produced = 0 /\ before.index = target /\ before.result = passed
    BY <2>1, <2>2 DEF StateTypes
  <2> HIDE DEF before
  <2>4. after \in StateTypes(L) /\ Applied(source, after, target, passed, old, new)
    <3>1. before.index <= Len(source)
      BY <2>1, <2>3
    <3>2. /\ HunkLines(source, before, NormalLines(hunk)) \in StateTypes(L)
          /\ Applied(source, HunkLines(source, before, NormalLines(hunk)), before.index, before.result,
                     Side(hunk, "removed"), Side(hunk, "added"))
      BY <2>3, <3>1, HunkLinesApplied
    <3> QED BY <3>2, <2>3 DEF old, new
  <2> HIDE DEF after
  <2>5. e = IF after.code = "ok" /\ ~ counts THEN [after EXCEPT !.code = "patch_invalid"] ELSE after
    BY <1>4, <1>9
  <2>6. e \in StateTypes(L)
    <3>1. [after EXCEPT !.code = "patch_invalid"] \in StateTypes(L)
      BY <2>4 DEF StateTypes
    <3> QED BY <3>1, <2>4, <2>5
  <2>7. e.code = "ok" <=> after.code = "ok" /\ counts
    <3>1. [after EXCEPT !.code = "patch_invalid"].code = "patch_invalid"
      BY <2>4 DEF StateTypes
    <3> QED BY <3>1, <2>5
  <2>8. e.code = "ok" => e = after
    BY <2>5, <2>7
  <2>9. after.code = "ok" /\ counts <=>
          Matches(source, target, old) /\ Len(old) = hunk.old_count /\ Len(new) = hunk.new_count
    BY <2>4 DEF Applied, counts
  <2>10. Right <=> Matches(source, target, old) /\ Len(old) = hunk.old_count /\ Len(new) = hunk.new_count
    <3>1. target + Len(old) <= Len(source) =>
            (SubSeq(source, target + 1, target + Len(old)) = old <=> Matches(source, target, old))
      BY <1>2, <2>1, MatchesFits
    <3>2. Matches(source, target, old) => target + Len(old) <= Len(source)
      BY DEF Matches
    <3>3. target \in 0..Len(source)
      BY <2>1
    <3>4. ASSUME WellFormed(hunk) PROVE Right <=> Matches(source, target, old)
      <4>1. Before(hunk) = target
        BY <1>2, <3>4
      <4> QED BY <4>1, <3>1, <3>2, <3>3, <3>4, <2>1, <1>6
    <3>5. WellFormed(hunk) <=> Len(old) = hunk.old_count /\ Len(new) = hunk.new_count
      BY <1>5, <1>9
    <3> QED BY <3>4, <3>5
  <2>11. ASSUME e.code = "ok"
         PROVE  /\ e.index = Before(hunk) + Len(old)
                /\ e.result = s.result \o SubSeq(source, s.index + 1, Before(hunk)) \o new
    <3>1. Before(hunk) = target
      BY <2>7, <2>9, <2>10, <2>11, <1>2
    <3>2. after.code = "ok" /\ e = after
      BY <2>7, <2>8, <2>11
    <3>3. e.index = target + Len(old) /\ e.result = passed \o new
      BY <2>4, <3>2 DEF Applied
    <3> QED BY <3>1, <3>3 DEF passed
  <2> QED BY <2>6, <2>7, <2>9, <2>10, <2>11 DEF e, old, new
<1> QED BY <1>7, <1>8, <1>9

\* After an error nothing changes any more.
LEMMA HunkFailed ==
  ASSUME NEW source, NEW s, NEW hunk, s.code # "ok"
  PROVE  Hunk(source, s, hunk) = s
  BY DEF Hunk

\* The states between two hunks: the cursor stays within the source.
HunkStates(L, source) == {s \in StateTypes(L) : s.code = "ok" => s.index <= Len(source)}

\* A hunk leads to such a state.
LEMMA HunkStateTypes ==
  ASSUME NEW L, Bare(L), NEW source \in Seq(L), NEW s \in HunkStates(L, source), NEW hunk \in HunkTypes(L)
  PROVE  Hunk(source, s, hunk) \in HunkStates(L, source)
<1>0. s \in StateTypes(L) /\ (s.code = "ok" => s.index <= Len(source))
  BY DEF HunkStates
<1>1. CASE s.code # "ok"
  BY <1>1, HunkFailed
<1>2. CASE s.code = "ok"
  <2>1. /\ Hunk(source, s, hunk) \in StateTypes(L)
        /\ Outcome(source, s, hunk, Hunk(source, s, hunk))
    BY <1>0, <1>2, HunkApplied
  <2> QED BY <2>1 DEF HunkStates, Fits, Outcome
<1> QED BY <1>1, <1>2

\* The states of the outer loop, hunk by hunk.
LEMMA HunksTable ==
  ASSUME NEW L, Bare(L), NEW source \in Seq(L), NEW hunks \in Seq(HunkTypes(L))
  PROVE  \E f : /\ f[0] = [code |-> "ok", result |-> <<>>, index |-> 0, consumed |-> 0, produced |-> 0]
                /\ \A i \in 1..Len(hunks) : f[i] = Hunk(source, f[i - 1], hunks[i])
                /\ \A i \in 0..Len(hunks) : f[i] \in HunkStates(L, source)
                /\ Hunks(source, hunks) = f[Len(hunks)]
<1> DEFINE T == HunkStates(L, source)
           b == [code |-> "ok", result |-> <<>>, index |-> 0, consumed |-> 0, produced |-> 0]
           n == Len(hunks)
           Op(t, i) == Hunk(source, t, hunks[i])
           step == [t \in T |-> [i \in 1..n |-> Op(t, i)]]
           Good(f) == f = [i \in 0..n |-> IF i = 0 THEN b ELSE Op(f[i - 1], i)]
           f == CHOOSE f : Good(f)
<1>1. b \in T
  BY DEF HunkStates, StateTypes
<1>2. n \in Nat
  OBVIOUS
<1>3. \A t \in T, i \in 1..n : Op(t, i) \in T
  BY HunkStateTypes
<1>4. Hunks(source, hunks) = f[Len(hunks)]
  BY DEF Hunks
<1> HIDE DEF T, b, n, Op
<1>5. \A t \in T, i \in 1..n : step[t][i] = Op(t, i) /\ step[t][i] \in T
  BY <1>3
<1>6. IsStep(step, T, n)
  BY <1>5 DEF IsStep
<1> HIDE DEF step
<1>7. PICK g : IsTable(g, step, T, b, n)
  BY <1>1, <1>2, <1>6, RecursionTable
<1>8. ASSUME NEW i \in 0..n PROVE g[i] = IF i = 0 THEN b ELSE Op(g[i - 1], i)
  <2>1. CASE i = 0
    BY <2>1, <1>7 DEF IsTable
  <2>2. CASE i # 0
    <3>1. i \in 1..n /\ i - 1 \in 0..n
      BY <2>2, <1>2
    <3>2. g[i - 1] \in T /\ g[i] = step[g[i - 1]][i]
      BY <3>1, <1>7 DEF IsTable
    <3> QED BY <3>1, <3>2, <1>5, <2>2
  <2> QED BY <2>1, <2>2
<1>9. Good(g)
  <2>1. g = [i \in 0..n |-> g[i]]
    BY <1>7 DEF IsTable
  <2> QED BY <2>1, <1>8
<1>10. Good(f)
  BY <1>9
<1> HIDE DEF f
<1>11. \A i \in 0..n : f[i] = IF i = 0 THEN b ELSE Op(f[i - 1], i)
  BY <1>10
<1>12. f[0] = b /\ \A i \in 1..n : f[i] = Op(f[i - 1], i)
  <2>1. 0 \in 0..n /\ \A i \in 1..n : i \in 0..n /\ i # 0
    BY <1>2
  <2> QED BY <2>1, <1>11
<1>13. \A i \in 0..n : f[i] \in T
  <2> DEFINE S == [i \in 0..n |-> T]
  <2>1. \A i \in 0..n : S[i] = T
    OBVIOUS
  <2>2. \A i \in 1..n : i \in 0..n /\ i - 1 \in 0..n
    BY <1>2
  <2> HIDE DEF S
  <2>3. 0 \in 0..n
    BY <1>2
  <2>4. f[0] \in S[0]
    BY <1>1, <1>12, <2>1, <2>3
  <2>5. ASSUME NEW i \in 1..n, f[i - 1] \in S[i - 1] PROVE f[i] \in S[i]
    BY <2>1, <2>2, <2>5, <1>3, <1>12
  <2>6. \A i \in 0..n : f[i] \in S[i]
    BY <2>4, <2>5, <1>2, TableInduction
  <2> QED BY <2>1, <2>6
<1> QED BY <1>4, <1>12, <1>13 DEF T, b, n, Op

\* The first i hunks are well formed, fit and follow each other.
Fine(source, hunks, i) ==
  \A j \in 1..i : /\ WellFormed(hunks[j]) /\ Fits(source, hunks[j])
                  /\ Behind(hunks, j - 1) <= Before(hunks[j])

\* What follows the i-th hunk of the result.
Piece(source, hunks, text, i) ==
  text \o SubSeq(source, Behind(hunks, i - 1) + 1, Before(hunks[i])) \o Side(hunks[i], "added")

\* The outer loop goes on exactly while the hunks are fine, its cursor stands behind the
\* last one, and each hunk appends its piece.
LEMMA HunksFollow ==
  ASSUME NEW L, Bare(L), NEW source \in Seq(L), NEW hunks \in Seq(HunkTypes(L)), NEW f,
         f[0] = [code |-> "ok", result |-> <<>>, index |-> 0, consumed |-> 0, produced |-> 0],
         \A i \in 1..Len(hunks) : f[i] = Hunk(source, f[i - 1], hunks[i]),
         \A i \in 0..Len(hunks) : f[i] \in HunkStates(L, source)
  PROVE  /\ \A i \in 0..Len(hunks) :
              /\ f[i].code = "ok" <=> Fine(source, hunks, i)
              /\ f[i].code = "ok" => f[i].index = Behind(hunks, i)
         /\ \A i \in 1..Len(hunks) :
              f[i].code = "ok" => f[i].result = Piece(source, hunks, f[i - 1].result, i)
<1> DEFINE n == Len(hunks)
           Inv(i) == /\ f[i].code = "ok" <=> Fine(source, hunks, i)
                     /\ f[i].code = "ok" => f[i].index = Behind(hunks, i)
           I == {i \in Nat : i <= n => Inv(i)}
<1>0. n \in Nat
  BY SMTT(30)
<1>1. ASSUME NEW i \in 1..n
      PROVE  /\ f[i - 1].code # "ok" => f[i].code # "ok"
             /\ f[i].code = "ok" <=>
                  /\ f[i - 1].code = "ok"
                  /\ WellFormed(hunks[i]) /\ Fits(source, hunks[i]) /\ f[i - 1].index <= Before(hunks[i])
             /\ f[i].code = "ok" =>
                  /\ f[i].index = Before(hunks[i]) + Len(Side(hunks[i], "removed"))
                  /\ f[i].result = f[i - 1].result \o SubSeq(source, f[i - 1].index + 1, Before(hunks[i]))
                                     \o Side(hunks[i], "added")
  <2>1. i - 1 \in 0..n /\ i \in 1..n
    BY <1>0
  <2>2. PICK s \in HunkStates(L, source) : s = f[i - 1]
    BY <2>1
  <2>3. PICK h \in HunkTypes(L) : h = hunks[i]
    OBVIOUS
  <2>4. s \in StateTypes(L) /\ (s.code = "ok" => s.index <= Len(source))
    BY DEF HunkStates
  <2>5. f[i] = Hunk(source, s, h)
    BY <2>2, <2>3
  <2>6. CASE s.code # "ok"
    <3>1. f[i] = s
      BY <2>5, <2>6, HunkFailed
    <3> QED BY <3>1, <2>2, <2>6
  <2>7. CASE s.code = "ok"
    <3>1. /\ f[i].code = "ok" <=> WellFormed(h) /\ Fits(source, h) /\ s.index <= Before(h)
          /\ f[i].code = "ok" =>
              /\ f[i].index = Before(h) + Len(Side(h, "removed"))
              /\ f[i].result = s.result \o SubSeq(source, s.index + 1, Before(h)) \o Side(h, "added")
      <4>1. s \in StateTypes(L) /\ s.index <= Len(source)
        BY <2>4, <2>7
      <4>2. Outcome(source, s, h, Hunk(source, s, h))
        BY <4>1, <2>7, HunkApplied
      <4>3. Outcome(source, s, h, f[i])
        BY <4>2, <2>5
      <4> QED BY <4>3 DEF Outcome
    <3> QED BY <3>1, <2>2, <2>3, <2>7
  <2> QED BY <2>6, <2>7
<1>2. 0 \in I
  <2>1. f[0].code = "ok" /\ f[0].index = 0
    OBVIOUS
  <2>2. Fine(source, hunks, 0) /\ Behind(hunks, 0) = 0
    BY DEF Fine, Behind
  <2> QED BY <2>1, <2>2
<1>3. ASSUME NEW k \in Nat, k \in I PROVE k + 1 \in I
  <2>1. SUFFICES ASSUME k + 1 <= n PROVE Inv(k + 1)
    OBVIOUS
  <2>2. k + 1 \in 1..n /\ (k + 1) - 1 = k /\ k <= n /\ k + 1 # 0
    BY <2>1, <1>0
  <2>3. PICK i \in 1..n : i = k + 1 /\ i - 1 = k /\ i # 0
    BY <2>2
  <2>4. Inv(k)
    BY <1>3, <2>2
  <2>5. \A j : j \in 1..i <=> j \in 1..k \/ j = i
    BY <2>3
  <2>6. Fine(source, hunks, i) <=>
          /\ Fine(source, hunks, k)
          /\ WellFormed(hunks[i]) /\ Fits(source, hunks[i]) /\ Behind(hunks, k) <= Before(hunks[i])
    BY <2>3, <2>5 DEF Fine
  <2>7. Behind(hunks, i) = Before(hunks[i]) + Len(Side(hunks[i], "removed"))
    BY <2>3 DEF Behind
  <2>8. f[i].code = "ok" <=>
          /\ f[k].code = "ok"
          /\ WellFormed(hunks[i]) /\ Fits(source, hunks[i]) /\ f[k].index <= Before(hunks[i])
    BY <1>1, <2>3
  <2>9. f[i].code = "ok" => f[i].index = Before(hunks[i]) + Len(Side(hunks[i], "removed"))
    BY <1>1
  <2>10. f[i].code = "ok" <=> Fine(source, hunks, i)
    BY <2>4, <2>6, <2>8
  <2>11. f[i].code = "ok" => f[i].index = Behind(hunks, i)
    BY <2>7, <2>9
  <2> QED BY <2>3, <2>10, <2>11
<1>4. Nat \subseteq I
  <2> HIDE DEF I
  <2> QED BY <1>2, <1>3, SetInduction
<1>5. \A i \in 0..n : Inv(i)
  BY <1>4, <1>0
<1>6. ASSUME NEW i \in 1..n, f[i].code = "ok"
      PROVE  f[i].result = Piece(source, hunks, f[i - 1].result, i)
  <2>1. f[i - 1].code = "ok"
    BY <1>1, <1>6
  <2>2. i - 1 \in 0..n
    BY <1>0
  <2>3. f[i - 1].index = Behind(hunks, i - 1)
    BY <1>5, <2>1, <2>2
  <2> QED BY <2>3, <1>1, <1>6 DEF Piece
<1> QED BY <1>5, <1>6

\* Hunks that follow each other are in order, and the other way round.
LEMMA OrderFine ==
  ASSUME NEW L, Bare(L), NEW source \in Seq(L), NEW hunks \in Seq(HunkTypes(L))
  PROVE  Fine(source, hunks, Len(hunks)) <=>
           /\ \A i \in DOMAIN hunks : WellFormed(hunks[i]) /\ Fits(source, hunks[i])
           /\ InOrder(hunks)
<1> DEFINE n == Len(hunks)
<1>0. n \in Nat /\ DOMAIN hunks = 1..n
  OBVIOUS
<1>1. ASSUME NEW i \in 1..n, Fits(source, hunks[i])
      PROVE  /\ Before(hunks[i]) \in Nat /\ Behind(hunks, i) \in Nat
             /\ Before(hunks[i]) <= Behind(hunks, i)
  <2>1. PICK h \in HunkTypes(L) : h = hunks[i]
    OBVIOUS
  <2>2. Len(Side(h, "removed")) \in Nat
    BY SideTypes
  <2>3. Before(h) \in Nat
    BY <1>1, <2>1 DEF Fits
  <2>4. Behind(hunks, i) = Before(h) + Len(Side(h, "removed"))
    BY <2>1 DEF Behind
  <2> QED BY <2>1, <2>2, <2>3, <2>4
<1>2. ASSUME Fine(source, hunks, n)
      PROVE  /\ \A i \in 1..n : WellFormed(hunks[i]) /\ Fits(source, hunks[i])
             /\ InOrder(hunks)
  <2>1. \A i \in 1..n : /\ WellFormed(hunks[i]) /\ Fits(source, hunks[i])
                        /\ Behind(hunks, i - 1) <= Before(hunks[i])
    BY <1>2 DEF Fine
  <2> DEFINE I == {j \in Nat : j <= n => \A i \in 1..n : i < j => Behind(hunks, i) <= Before(hunks[j])}
  <2>2. 0 \in I
    OBVIOUS
  <2>3. ASSUME NEW k \in Nat, k \in I PROVE k + 1 \in I
    <3>1. SUFFICES ASSUME k + 1 <= n, NEW i \in 1..n, i < k + 1
                   PROVE  Behind(hunks, i) <= Before(hunks[k + 1])
      OBVIOUS
    <3>2. k \in 1..n /\ k + 1 \in 1..n /\ (k + 1) - 1 = k /\ k <= n
      BY <3>1, <1>0
    <3>3. PICK j \in 1..n : j = k + 1 /\ j - 1 = k
      BY <3>2
    <3>4. Behind(hunks, k) <= Before(hunks[j])
      BY <2>1, <3>3
    <3>5. CASE i = k
      BY <3>3, <3>4, <3>5
    <3>6. CASE i # k
      <4>1. i < k
        BY <3>1, <3>6
      <4>2. Behind(hunks, i) <= Before(hunks[k])
        BY <4>1, <2>3, <3>2
      <4>3. /\ Before(hunks[k]) \in Nat /\ Behind(hunks, k) \in Nat /\ Behind(hunks, i) \in Nat
            /\ Before(hunks[j]) \in Nat /\ Before(hunks[k]) <= Behind(hunks, k)
        BY <1>1, <2>1, <3>2
      <4> QED BY <4>2, <4>3, <3>3, <3>4
    <3> QED BY <3>5, <3>6
  <2>4. Nat \subseteq I
    <3> HIDE DEF I
    <3> QED BY <2>2, <2>3, SetInduction
  <2>5. \A i, j \in 1..n : i < j => Behind(hunks, i) <= Before(hunks[j])
    <3>1. \A j \in 1..n : j \in Nat /\ j <= n
      BY <1>0
    <3> QED BY <2>4, <3>1
  <2> QED BY <2>1, <2>5, <1>0 DEF InOrder
<1>3. ASSUME \A i \in 1..n : WellFormed(hunks[i]) /\ Fits(source, hunks[i]), InOrder(hunks)
      PROVE  Fine(source, hunks, n)
  <2>1. ASSUME NEW j \in 1..n PROVE Behind(hunks, j - 1) <= Before(hunks[j])
    <3>1. CASE j = 1
      <4>1. j - 1 = 0 /\ Behind(hunks, 0) = 0
        BY <3>1 DEF Behind
      <4> QED BY <4>1, <1>1, <1>3
    <3>2. CASE j # 1
      <4>1. j - 1 \in 1..n /\ j - 1 < j
        BY <3>2, <1>0
      <4> QED BY <4>1, <1>0, <1>3 DEF InOrder
    <3> QED BY <3>1, <3>2
  <2> QED BY <2>1, <1>3 DEF Fine
<1> QED BY <1>0, <1>2, <1>3

\* The source lines up to the end of a hunk that fits.
LEMMA BehindTypes ==
  ASSUME NEW L, Bare(L), NEW source \in Seq(L), NEW hunks \in Seq(HunkTypes(L)),
         Fine(source, hunks, Len(hunks)), NEW i \in 0..Len(hunks)
  PROVE  Behind(hunks, i) \in Nat /\ Behind(hunks, i) <= Len(source)
<1>1. CASE i = 0
  BY <1>1 DEF Behind
<1>2. CASE i # 0
  <2>1. i \in 1..Len(hunks)
    BY <1>2
  <2>2. PICK h \in HunkTypes(L) : h = hunks[i]
    BY <2>1
  <2>3. Fits(source, h) /\ Len(Side(h, "removed")) \in Nat
    BY <2>1, <2>2, SideTypes DEF Fine
  <2>4. Behind(hunks, i) = Before(h) + Len(Side(h, "removed"))
    BY <1>2, <2>2 DEF Behind
  <2> QED BY <2>3, <2>4 DEF Fits
<1> QED BY <1>1, <1>2

\* A piece of the result is a text.
LEMMA PieceTypes ==
  ASSUME NEW L, Bare(L), NEW source \in Seq(L), NEW hunks \in Seq(HunkTypes(L)),
         Fine(source, hunks, Len(hunks)), NEW text \in Seq(L), NEW i \in 1..Len(hunks)
  PROVE  Piece(source, hunks, text, i) \in Seq(L)
<1>1. i - 1 \in 0..Len(hunks) /\ hunks[i] \in HunkTypes(L)
  OBVIOUS
<1>2. Behind(hunks, i - 1) \in Nat
  BY <1>1, BehindTypes
<1>3. /\ Before(hunks[i]) \in Int /\ Before(hunks[i]) <= Len(source)
      /\ Behind(hunks, i - 1) <= Before(hunks[i])
  BY DEF Fine, Fits
<1>4. PICK k \in Nat : k = Behind(hunks, i - 1)
  BY <1>2
<1>5. PICK j \in Int : j = Before(hunks[i])
  BY <1>3
<1>6. SubSeq(source, k + 1, j) \in Seq(L)
  BY <1>3, <1>4, <1>5, Part
<1>7. Side(hunks[i], "added") \in Seq(L)
  BY <1>1, SideTypes
<1>8. text \o SubSeq(source, k + 1, j) \in Seq(L)
  BY <1>6, ConcatProperties
<1>9. (text \o SubSeq(source, k + 1, j)) \o Side(hunks[i], "added") \in Seq(L)
  BY <1>7, <1>8, ConcatProperties
<1> QED BY <1>4, <1>5, <1>9 DEF Piece

\* The text of a patch whose hunks fit, piece by piece.
LEMMA ReplacedTable ==
  ASSUME NEW L, Bare(L), NEW source \in Seq(L), NEW hunks \in Seq(HunkTypes(L)),
         Fine(source, hunks, Len(hunks))
  PROVE  \E f : /\ f[0] = <<>>
                /\ \A i \in 1..Len(hunks) : f[i] = Piece(source, hunks, f[i - 1], i)
                /\ \A i \in 0..Len(hunks) : f[i] \in Seq(L)
                /\ Replaced(source, hunks)
                     = f[Len(hunks)] \o SubSeq(source, Behind(hunks, Len(hunks)) + 1, Len(source))
<1> DEFINE T == Seq(L)
           b == <<>>
           n == Len(hunks)
           Op(t, i) == Piece(source, hunks, t, i)
           step == [t \in T |-> [i \in 1..n |-> Op(t, i)]]
           Good(f) == f = [i \in 0..n |-> IF i = 0 THEN b ELSE Op(f[i - 1], i)]
           f == CHOOSE f : Good(f)
<1>1. b \in T
  OBVIOUS
<1>2. n \in Nat
  OBVIOUS
<1>3. \A t \in T, i \in 1..n : Op(t, i) \in T
  BY PieceTypes
<1>4. Replaced(source, hunks)
                     = f[Len(hunks)] \o SubSeq(source, Behind(hunks, Len(hunks)) + 1, Len(source))
  BY DEF Replaced, Piece
<1> HIDE DEF T, b, n, Op
<1>5. \A t \in T, i \in 1..n : step[t][i] = Op(t, i) /\ step[t][i] \in T
  BY <1>3
<1>6. IsStep(step, T, n)
  BY <1>5 DEF IsStep
<1> HIDE DEF step
<1>7. PICK g : IsTable(g, step, T, b, n)
  BY <1>1, <1>2, <1>6, RecursionTable
<1>8. ASSUME NEW i \in 0..n PROVE g[i] = IF i = 0 THEN b ELSE Op(g[i - 1], i)
  <2>1. CASE i = 0
    BY <2>1, <1>7 DEF IsTable
  <2>2. CASE i # 0
    <3>1. i \in 1..n /\ i - 1 \in 0..n
      BY <2>2, <1>2
    <3>2. g[i - 1] \in T /\ g[i] = step[g[i - 1]][i]
      BY <3>1, <1>7 DEF IsTable
    <3> QED BY <3>1, <3>2, <1>5, <2>2
  <2> QED BY <2>1, <2>2
<1>9. Good(g)
  <2>1. g = [i \in 0..n |-> g[i]]
    BY <1>7 DEF IsTable
  <2> QED BY <2>1, <1>8
<1>10. Good(f)
  BY <1>9
<1> HIDE DEF f
<1>11. \A i \in 0..n : f[i] = IF i = 0 THEN b ELSE Op(f[i - 1], i)
  BY <1>10
<1>12. f[0] = b /\ \A i \in 1..n : f[i] = Op(f[i - 1], i)
  <2>1. 0 \in 0..n /\ \A i \in 1..n : i \in 0..n /\ i # 0
    BY <1>2
  <2> QED BY <2>1, <1>11
<1>13. \A i \in 0..n : f[i] \in T
  <2> DEFINE S == [i \in 0..n |-> T]
  <2>1. \A i \in 0..n : S[i] = T
    OBVIOUS
  <2>2. \A i \in 1..n : i \in 0..n /\ i - 1 \in 0..n
    BY <1>2
  <2> HIDE DEF S
  <2>3. 0 \in 0..n
    BY <1>2
  <2>4. f[0] \in S[0]
    BY <1>1, <1>12, <2>1, <2>3
  <2>5. ASSUME NEW i \in 1..n, f[i - 1] \in S[i - 1] PROVE f[i] \in S[i]
    BY <2>1, <2>2, <2>5, <1>3, <1>12
  <2>6. \A i \in 0..n : f[i] \in S[i]
    BY <2>4, <2>5, <1>2, TableInduction
  <2> QED BY <2>1, <2>6
<1> QED BY <1>4, <1>12, <1>13 DEF T, b, n, Op

\* What a patch makes of a text is what its hunks mean.
LEMMA PatchesMeanTheirHunks ==
  ASSUME NEW L, Bare(L), NEW source \in Seq(L), NEW patch \in Seq(PatchLines(L))
  PROVE  MeansItsHunks(source, patch)
<1> DEFINE parsed == _parse_hunks(patch)
           hunks == parsed.hunks
           n == Len(hunks)
           end == Hunks(source, hunks)
           done == apply_unified_patch(source, patch)
           fits == /\ parsed.code = "ok"
                   /\ \A i \in DOMAIN hunks : WellFormed(hunks[i]) /\ Fits(source, hunks[i])
                   /\ InOrder(hunks)
<1>1. /\ parsed.code \in {"ok", "patch_invalid"} /\ hunks \in Seq(HunkTypes(L))
      /\ n \in Nat /\ n \in 0..n
  BY ParsedTypes
<1>2. done = IF parsed.code # "ok" THEN Failed(parsed.code)
             ELSE IF end.code # "ok" THEN Failed(end.code)
             ELSE [code |-> "ok", text |-> end.result \o SubSeq(source, end.index + 1, Len(source))]
  BY DEF apply_unified_patch
<1>3. MeansItsHunks(source, patch) <=>
        /\ (done.code = "ok") <=> fits
        /\ fits => done.text = Replaced(source, hunks)
  BY DEF MeansItsHunks
<1> HIDE DEF parsed, hunks, done, fits
<1>4. PICK f : /\ f[0] = [code |-> "ok", result |-> <<>>, index |-> 0, consumed |-> 0, produced |-> 0]
               /\ \A i \in 1..n : f[i] = Hunk(source, f[i - 1], hunks[i])
               /\ \A i \in 0..n : f[i] \in HunkStates(L, source)
               /\ end = f[n]
  BY <1>1, HunksTable
<1>5. /\ \A i \in 0..n : /\ f[i].code = "ok" <=> Fine(source, hunks, i)
                         /\ f[i].code = "ok" => f[i].index = Behind(hunks, i)
      /\ \A i \in 1..n : f[i].code = "ok" => f[i].result = Piece(source, hunks, f[i - 1].result, i)
  BY SMTT(30), <1>1, <1>4, HunksFollow
<1>6. end.code = "ok" <=> Fine(source, hunks, n)
  BY <1>1, <1>4, <1>5
<1>7. fits <=> parsed.code = "ok" /\ Fine(source, hunks, n)
  BY <1>1, OrderFine DEF fits
<1>8. done.code = "ok" <=> parsed.code = "ok" /\ end.code = "ok"
  BY <1>2 DEF Failed
<1>9. ASSUME fits PROVE done.text = Replaced(source, hunks)
  <2>1. parsed.code = "ok" /\ end.code = "ok" /\ Fine(source, hunks, n)
    BY <1>6, <1>7, <1>9
  <2>2. PICK g : /\ g[0] = <<>>
                 /\ \A i \in 1..n : g[i] = Piece(source, hunks, g[i - 1], i)
                 /\ Replaced(source, hunks) = g[n] \o SubSeq(source, Behind(hunks, n) + 1, Len(source))
    BY <1>1, <2>1, ReplacedTable
  <2> DEFINE I == {i \in Nat : i <= n => f[i].result = g[i]}
  <2>3. 0 \in I
    BY <1>4, <2>2
  <2>4. ASSUME NEW k \in Nat, k \in I PROVE k + 1 \in I
    <3>1. SUFFICES ASSUME k + 1 <= n PROVE f[k + 1].result = g[k + 1]
      OBVIOUS
    <3>2. PICK i \in 1..n : i = k + 1 /\ i - 1 = k
      BY <3>1, <1>1
    <3>3. Fine(source, hunks, i)
      BY <2>1, <1>1 DEF Fine
    <3>4. i \in 0..n /\ k <= n
      BY <1>1, <3>2
    <3>5. f[i].code = "ok"
      BY <3>3, <3>4, <1>5
    <3>6. f[i].result = Piece(source, hunks, f[k].result, i) /\ g[i] = Piece(source, hunks, g[k], i)
      BY <3>2, <3>5, <1>5, <2>2
    <3>7. f[k].result = g[k]
      BY <2>4, <3>4
    <3> QED BY <3>2, <3>6, <3>7
  <2>5. Nat \subseteq I
    <3> HIDE DEF I
    <3> QED BY <2>3, <2>4, SetInduction
  <2>6. end.result = g[n]
    BY <2>5, <1>1, <1>4
  <2>7. end.index = Behind(hunks, n)
    BY <1>1, <1>4, <1>5, <2>1
  <2>8. done.text = end.result \o SubSeq(source, end.index + 1, Len(source))
    BY <1>2, <2>1
  <2> QED BY <2>2, <2>6, <2>7, <2>8
<1> QED BY <1>3, <1>6, <1>7, <1>8, <1>9

\* The lines of the texts and patches of a request lose their newline to the same lines.
LEMMA LinesAreBare == Bare(Lines)
<1> SUFFICES ASSUME NEW line \in Lines PROVE WithoutNewline(line) \in Lines
  BY DEF Bare
<1>1. PICK w \in Words, e \in BOOLEAN : line = <<w, e>>
  BY DEF Lines
<1>2. line[1] = w
  BY <1>1
<1>3. FALSE \in BOOLEAN
  OBVIOUS
<1> QED BY <1>2, <1>3 DEF WithoutNewline, Lines

\* What a read hands to the patch is a text of such lines.
LEMMA ShortenedTypes ==
  ASSUME NEW t \in FoundTexts
  PROVE  Shortened(t) \in Seq(Lines)
<1>1. t \in Seq(Lines)
  <2>1. <<>> \in Seq(Lines)
    OBVIOUS
  <2>2. TextsIn \subseteq Seq(Lines)
    BY LinesAssumption
  <2> QED BY <2>1, <2>2, Zenon DEF FoundTexts
<1>2. CASE Len(t) > ByteLimit
  <2>1. SubSeq(t, 1, ByteLimit) \in Seq(Lines)
    <3>1. \A k \in 1..ByteLimit : t[k] \in Lines
      BY <1>1, <1>2, FileBounds
    <3> QED BY <1>1, <3>1, FileBounds, SubSeqProperties
  <2> QED BY <1>2, <2>1 DEF Shortened
<1>3. CASE ~ (Len(t) > ByteLimit)
  BY <1>1, <1>3 DEF Shortened
<1> QED BY <1>2, <1>3

\* Whatever text was read and whatever the patch: apply_unified_patch succeeds exactly when
\* the hunks are well formed, fit the text and come in order, and then replaces their old
\* lines by their new ones and leaves all others (files/patch.py).
THEOREM PatchesMean == FilesSpec => []PatchMeansItsHunks
<1>1. FilesInv => PatchMeansItsHunks
  <2> SUFFICES ASSUME FilesInv, fpc = "patch" PROVE MeansItsHunks(local.text, op.patch)
    BY DEF PatchMeansItsHunks
  <2>1. op.patch \in Patches
    BY RequestFacts DEF FilesInv, FileTypes, Working, PcAction
  <2>2. PICK patch \in Seq(PatchLines(Lines)) : patch = op.patch
    BY <2>1, LinesAssumption
  <2>3. PICK t \in FoundTexts : local.text = Shortened(t)
    BY DEF FilesInv, Working, PatchKeeps
  <2>4. PICK source \in Seq(Lines) : source = local.text
    BY <2>3, ShortenedTypes
  <2>5. MeansItsHunks(source, patch)
    BY LinesAreBare, PatchesMeanTheirHunks
  <2> QED BY <2>2, <2>4, <2>5
<1> QED BY <1>1, FilesInvariant, PTL

-----------------------------------------------------------------------------
(* The texts that patches make.                                            *)

\* What a patch makes of a text is a text, or one of the errors of files/patch.py.
LEMMA PatchedTypes ==
  ASSUME NEW L, Bare(L), NEW source \in Seq(L), NEW patch \in Seq(PatchLines(L))
  PROVE  LET done == apply_unified_patch(source, patch) IN
         /\ done.code \in {"ok", "file_conflict", "patch_invalid"}
         /\ done.code = "ok" => done.text \in Seq(L)
<1> DEFINE parsed == _parse_hunks(patch)
           end == Hunks(source, parsed.hunks)
           done == apply_unified_patch(source, patch)
<1>1. parsed.code \in {"ok", "patch_invalid"} /\ parsed.hunks \in Seq(HunkTypes(L))
  BY ParsedTypes
<1>2. done = IF parsed.code # "ok" THEN Failed(parsed.code)
             ELSE IF end.code # "ok" THEN Failed(end.code)
             ELSE [code |-> "ok", text |-> end.result \o SubSeq(source, end.index + 1, Len(source))]
  BY DEF apply_unified_patch
<1>3. end \in HunkStates(L, source)
  <2>1. PICK hunks \in Seq(HunkTypes(L)) : hunks = parsed.hunks
    BY <1>1
  <2>2. PICK f : /\ \A i \in 0..Len(hunks) : f[i] \in HunkStates(L, source)
                 /\ Hunks(source, hunks) = f[Len(hunks)]
    BY HunksTable
  <2>3. Len(hunks) \in 0..Len(hunks)
    OBVIOUS
  <2> QED BY <2>1, <2>2, <2>3
<1> HIDE DEF parsed, end, done
<1>4. /\ end.code \in {"ok", "file_conflict", "patch_invalid"}
      /\ end.result \in Seq(L) /\ end.index \in Nat
  BY <1>3 DEF HunkStates, StateTypes
<1>5. SubSeq(source, end.index + 1, Len(source)) \in Seq(L)
  BY <1>4
<1>6. end.result \o SubSeq(source, end.index + 1, Len(source)) \in Seq(L)
  BY <1>4, <1>5
<1> QED BY <1>1, <1>2, <1>4, <1>6 DEF Failed, done

\* The texts somebody meant are texts.
LEMMA MeantAreTexts == MeantTexts \subseteq Text /\ Partial \in Text /\ <<>> \in Text
<1>1. FoundTexts \subseteq Seq(Lines)
  <2>1. <<>> \in Seq(Lines) /\ TextsIn \subseteq Seq(Lines)
    BY LinesAssumption
  <2> QED BY <2>1, Zenon DEF FoundTexts
<1>2. <<"new", TRUE>> \in Lines /\ <<"partial", FALSE>> \in Lines
  BY WordsAssumption DEF Lines
<1>3. Content \in Seq(Lines) /\ Partial \in Seq(Lines)
  BY <1>2 DEF Content, Partial
<1>4. ASSUME NEW done \in Patched PROVE done.text \in Seq(Lines)
  <2>1. /\ done \in {apply_unified_patch(Shortened(t), p) : t \in FoundTexts, p \in Patches}
        /\ done.code = "ok"
    BY DEF Patched
  <2>0. PICK t \in FoundTexts, p \in Patches : done = apply_unified_patch(Shortened(t), p)
    BY <2>1
  <2>2. Shortened(t) \in Seq(Lines) /\ p \in Seq(PatchLines(Lines))
    BY ShortenedTypes, LinesAssumption
  <2> QED BY <2>0, <2>1, <2>2, LinesAreBare, PatchedTypes
<1>5. <<>> \in Seq(Lines)
  OBVIOUS
<1> QED BY <1>1, <1>3, <1>4, <1>5, Zenon DEF MeantTexts, Text

-----------------------------------------------------------------------------
(* The types of the file service.                                          *)

AnswerKind(a) ==
  a # None => a.code \in Code /\ ("rows" \in DOMAIN a => Cardinality(a.rows) <= RowLimit)
EntryKind(e) == Is(e, "dir") => e.inside \in Insides
FileKinds ==
  /\ \A n \in Paths : EntryKind(fs[n])
  /\ temp \in Text \union {None} /\ trapped \in BOOLEAN
  /\ local.target \in Paths \union {None}
  /\ fpc = "rows" => IsFiniteSet(local.names)
  /\ AnswerKind(answer)

\* Every step but four keeps the directory.
LEMMA DirectoryKept ==
  [FilesNext]_fileVars =>
    \/ UNCHANGED fs \/ MoveTemp \/ MakeDirectory \/ Rename \/ RemoveEntry
    \/ \E n \in Names \ Roots, e \in Entries : ForeignChange(n, e)
BY Zenon DEF FilesNext, fileVars, Begin, Patch, Helper, HelperTimesOut, HelperKilled, ConnectionLost,
   Hangup, Resolve, ListNames, SearchFiles, Rows, Stat, HashFile, MeasureText, ReadContent, TestExists,
   InspectTarget, HashBefore, TestOwner, MakeTemp, SetTrap, Transfer, VerifyTemp, RecheckTarget,
   RehashTarget, VerifyTarget, NewEntry, MadeDirectory, ReferenceEntry, ExpectedHash, RecheckEntry, Untouched

\* Directories hold one of the kinds of entries.
LEMMA DirKind == \A x \in Insides : EntryKind(Dir(x))
BY DEF Dir, EntryKind

\* mv leaves such entries.
LEMMA MvKinds ==
  ASSUME DOMAIN fs = Paths, \A n \in Paths : IsEntry(fs[n]), \A n \in Paths : EntryKind(fs[n]),
         NEW e, EntryKind(e), NEW n \in Paths
  PROVE  \A m \in Paths : EntryKind(Mv(fs, e, n)[m])
<1>1. CASE ~Into(n)
  BY <1>1 DEF Mv
<1>2. CASE Into(n)
  <2> DEFINE d == RealpathIn(fs, n)
             x == IF fs[d].inside = "nothing" THEN "mine" ELSE fs[d].inside
  <2>1. realpath(n) = d /\ Is(FollowedIn(fs, n), "dir")
    BY <1>2, Seen DEF Into
  <2>2. d \in Paths /\ Is(fs[d], "dir")
    BY <2>1, Led DEF Is
  <2>3. Mv(fs, e, n) = [fs EXCEPT ![d] = Dir(x)]
    BY <1>2, <2>1 DEF Mv
  <2>4. EntryKind(Dir(x))
    BY <2>2, DirKind DEF EntryKind, Insides
  <2> HIDE DEF d, x
  <2> QED BY <2>2, <2>3, <2>4
<1> QED BY <1>1, <1>2

\* Every step leaves such entries.
LEMMA EntryKindsStep ==
  ASSUME FilesInv, \A n \in Paths : EntryKind(fs[n]), [FilesNext]_fileVars
  PROVE  \A n \in Paths : EntryKind(fs'[n])
<1>0. /\ DOMAIN fs = Paths /\ \A n \in Paths : IsEntry(fs[n])
      /\ op.path \in Paths /\ op.dest \in Paths
  BY RequestFacts DEF FilesInv, FileTypes
<1>1. CASE UNCHANGED fs
  BY <1>1
<1>2. CASE MoveTemp
  <2>1. local.target \in Paths
    BY <1>2 DEF MoveTemp, FilesInv, Working, PcAction, Placing, Sending
  <2>2. EntryKind(File(temp, TRUE))
    BY DEF EntryKind, Is, File
  <2>3. fs' = fs \/ fs' = Mv(fs, File(temp, TRUE), local.target)
    BY <1>2, Zenon DEF MoveTemp, Untouched
  <2> QED BY <1>0, <2>1, <2>2, <2>3, MvKinds
<1>3. CASE MakeDirectory
  <2>1. fs' = fs \/ fs' = [fs EXCEPT ![op.path] = Dir("nothing")]
    BY <1>3, Zenon DEF MakeDirectory, Untouched
  <2>2. EntryKind(Dir("nothing"))
    BY DirKind DEF Insides
  <2> QED BY <1>0, <2>1, <2>2
<1>4. CASE Rename
  <2>1. fs' = fs \/ fs' = [Mv(fs, fs[op.path], op.dest) EXCEPT ![op.path] = None]
    BY <1>4, Zenon DEF Rename, Untouched
  <2>2. DOMAIN Mv(fs, fs[op.path], op.dest) = Paths
    BY <1>0, MvFacts
  <2>3. \A m \in Paths : EntryKind(Mv(fs, fs[op.path], op.dest)[m])
    BY <1>0, MvKinds
  <2>4. EntryKind(None)
    BY DEF EntryKind, Is
  <2> QED BY <2>1, <2>2, <2>3, <2>4
<1>5. CASE RemoveEntry
  <2>1. fs' = fs \/ fs' = [fs EXCEPT ![op.path] = None] \/ fs' = [fs EXCEPT ![op.path] = Dir("mine")]
    BY <1>5, Zenon DEF RemoveEntry, Untouched
  <2>2. EntryKind(None) /\ EntryKind(Dir("mine"))
    BY DirKind DEF EntryKind, Is, Insides
  <2> QED BY <1>0, <2>1, <2>2
<1>6. ASSUME NEW m \in Names \ Roots, NEW e \in Entries, ForeignChange(m, e)
      PROVE  \A n \in Paths : EntryKind(fs'[n])
  <2>1. fs' = [fs EXCEPT ![m] = e] /\ EntryKind(e)
    BY <1>6, DirectoriesAssumption DEF ForeignChange, EntryKind, Is
  <2> QED BY <1>0, <2>1
<1> QED BY <1>1, <1>2, <1>3, <1>4, <1>5, <1>6, DirectoryKept

\* The temporary file and the trap.
LEMMA TempChoices ==
  [FilesNext]_fileVars =>
    /\ \/ temp' = temp \/ temp' = None \/ temp' = <<>>
       \/ fpc = "transfer" /\ (temp' = NewText \/ temp' = Partial)
    /\ trapped' = trapped \/ trapped' = TRUE \/ trapped' = FALSE
<1> SUFFICES ASSUME [FilesNext]_fileVars
             PROVE  /\ \/ temp' = temp \/ temp' = None \/ temp' = <<>>
                       \/ fpc = "transfer" /\ (temp' = NewText \/ temp' = Partial)
                    /\ trapped' = trapped \/ trapped' = TRUE \/ trapped' = FALSE
  OBVIOUS
<1> DEFINE Ended == (temp' = temp \/ temp' = None) /\ trapped' = FALSE
           Same == temp' = temp /\ trapped' = trapped
<1>1. Exit => Ended
  BY DEF Exit
<1>2. \A c : _serverops_error(c) => Ended
  BY <1>1, Zenon DEF _serverops_error
<1>3. \A r : _serverops_finish(r) => Ended
  BY <1>1, Zenon DEF _serverops_finish
<1>4. \A c : Refuse(c) => Same
  BY Zenon DEF Refuse, ScriptVars
<1>5. UNCHANGED ScriptVars => Same
  BY DEF ScriptVars
<1> HIDE DEF Ended, Same
<1>6. CASE UNCHANGED fileVars
  BY <1>6 DEF fileVars
<1>7. CASE Begin \/ Patch
  BY <1>7, <1>4, <1>5, Zenon DEF Begin, Patch, Same
<1>8. CASE Resolve \/ ListNames \/ SearchFiles \/ Rows \/ Stat \/ HashFile \/ MeasureText
  BY <1>8, <1>2, <1>3, <1>4, <1>5, Zenon DEF Resolve, ListNames, SearchFiles, Rows, Stat, HashFile,
     MeasureText, Same, Ended
<1>9. CASE ReadContent \/ TestExists \/ InspectTarget \/ HashBefore \/ TestOwner
  BY <1>9, <1>2, <1>3, <1>4, <1>5, Zenon DEF ReadContent, TestExists, InspectTarget, HashBefore,
     TestOwner, Same, Ended
<1>10. CASE MakeTemp \/ SetTrap \/ Transfer \/ MoveTemp
  <2>1. CASE MakeTemp
    BY <2>1, <1>2, Zenon DEF MakeTemp, Ended
  <2>2. CASE SetTrap
    BY <2>2, Zenon DEF SetTrap
  <2>3. CASE Transfer
    BY <2>3, <1>2, Zenon DEF Transfer, Ended
  <2>4. CASE MoveTemp
    BY <2>4, <1>2, Zenon DEF MoveTemp, Ended
  <2> QED BY <1>10, <2>1, <2>2, <2>3, <2>4
<1>11. CASE \/ VerifyTemp \/ RecheckTarget \/ RehashTarget \/ VerifyTarget
             \/ NewEntry \/ MadeDirectory \/ MakeDirectory
  BY <1>11, <1>2, <1>3, <1>5, Zenon DEF VerifyTemp, RecheckTarget, RehashTarget, VerifyTarget, NewEntry,
     MadeDirectory, MakeDirectory, Same, Ended
<1>12. CASE ReferenceEntry \/ ExpectedHash \/ RecheckEntry \/ Rename \/ RemoveEntry
  BY <1>12, <1>2, <1>3, <1>5, Zenon DEF ReferenceEntry, ExpectedHash, RecheckEntry, Rename,
     RemoveEntry, Same, Ended
<1>13. CASE HelperTimesOut \/ HelperKilled \/ ConnectionLost \/ Hangup
  <2>1. CASE HelperTimesOut \/ ConnectionLost
    BY <2>1, <1>2, <1>5, Zenon DEF HelperTimesOut, ConnectionLost, Same, Ended
  <2>2. CASE HelperKilled \/ Hangup
    BY <2>2 DEF HelperKilled, Hangup
  <2> QED BY <1>13, <2>1, <2>2
<1>14. ASSUME NEW n \in Names \ Roots, NEW e \in Entries, ForeignChange(n, e) PROVE Same
  BY <1>14 DEF ForeignChange, Same
<1> QED BY <1>6, <1>7, <1>8, <1>9, <1>10, <1>11, <1>12, <1>13, <1>14, Zenon DEF FilesNext, Helper, Same

\* The name a request resolved to, and the names a listing looks at.
LEMMA LocalKindsStep ==
  ASSUME FilesInv, FileKinds, [FilesNext]_fileVars
  PROVE  /\ local'.target \in Paths \union {None}
         /\ fpc' = "rows" => IsFiniteSet(local'.names)
<1>0. /\ DOMAIN local = {"existing", "target", "before", "sha", "size", "text", "names", "write"}
      /\ op.path \in Paths /\ local.target \in Paths \union {None}
      /\ fpc = "rows" => IsFiniteSet(local.names)
  BY RequestFacts DEF FilesInv, FileTypes, Blank, FileKinds
<1>1. \A n \in Paths : realpath(n) \in Paths \union {None}
  BY Seen, Led DEF FilesInv, FileTypes
<1> DEFINE Kept == /\ local'.target \in Paths \union {None}
                   /\ fpc' = "rows" => IsFiniteSet(local'.names)
<1>2. local' = local /\ fpc' \in {fpc} \union {"ended"} => Kept
  BY <1>0
<1>3. \A step : step # "rows" /\ Goto(step) => Kept
  BY <1>0 DEF Goto, Keep
<1>4. /\ \A c : _serverops_error(c) => Kept
      /\ \A r : _serverops_finish(r) => Kept
      /\ \A c : Refuse(c) => Kept
  BY <1>2 DEF _serverops_error, _serverops_finish, Refuse, Exit
<1>5. /\ \A step, n : step # "rows" /\ n \in Paths /\ Keep(step, [local EXCEPT !.target = n]) => Kept
      /\ \A step, x : step # "rows" /\ Keep(step, [local EXCEPT !.sha = x]) => Kept
      /\ \A step, x : step # "rows" /\ Keep(step, [local EXCEPT !.size = x]) => Kept
      /\ \A step, x : step # "rows" /\ Keep(step, [local EXCEPT !.text = x]) => Kept
      /\ \A step, x : step # "rows" /\ Keep(step, [local EXCEPT !.write = x]) => Kept
      /\ \A step, x : step # "rows" /\ Keep(step, [local EXCEPT !.before = x]) => Kept
      /\ \A step, x : step # "rows" /\ Keep(step, [local EXCEPT !.existing = x]) => Kept
      /\ \A step, x, n : step # "rows" /\ n \in Paths
                         /\ Keep(step, [local EXCEPT !.existing = x, !.target = n]) => Kept
  <2>1. \A step, n : step # "rows" /\ n \in Paths /\ Keep(step, [local EXCEPT !.target = n]) => Kept
    BY <1>0 DEF Keep
  <2>2. \A step, x : step # "rows" /\ Keep(step, [local EXCEPT !.sha = x]) => Kept
    BY <1>0 DEF Keep
  <2>3. \A step, x : step # "rows" /\ Keep(step, [local EXCEPT !.size = x]) => Kept
    BY <1>0 DEF Keep
  <2>4. \A step, x : step # "rows" /\ Keep(step, [local EXCEPT !.text = x]) => Kept
    BY <1>0 DEF Keep
  <2>5. \A step, x : step # "rows" /\ Keep(step, [local EXCEPT !.write = x]) => Kept
    BY <1>0 DEF Keep
  <2>6. \A step, x : step # "rows" /\ Keep(step, [local EXCEPT !.before = x]) => Kept
    BY <1>0 DEF Keep
  <2>7. \A step, x : step # "rows" /\ Keep(step, [local EXCEPT !.existing = x]) => Kept
    BY <1>0 DEF Keep
  <2>8. ASSUME NEW step, NEW x, NEW n \in Paths, step # "rows",
               Keep(step, [local EXCEPT !.existing = x, !.target = n])
        PROVE  Kept
    BY <1>0, <2>8 DEF Keep
  <2> HIDE DEF Kept
  <2> QED BY <2>1, <2>2, <2>3, <2>4, <2>5, <2>6, <2>7, <2>8
<1>6. \A names : IsFiniteSet(names) /\ Keep("rows", [local EXCEPT !.names = names]) => Kept
  BY <1>0 DEF Keep
<1>7. op.action # "rows"
  BY RequestFacts DEF FilesInv, FileTypes, ReadActions, EditActions
<1> HIDE DEF Kept
<1>. SUFFICES Kept
  BY DEF Kept
<1>8. CASE UNCHANGED fileVars
  BY <1>8, <1>2 DEF fileVars
<1>9. CASE Begin
  <2>1. \/ Refuse("refused")
        \/ \E step \in {"resolve", "exists", "new_entry", "reference"} : Goto(step)
    BY <1>9 DEF Begin
  <2> QED BY <2>1, <1>3, <1>4
<1>10. CASE Resolve
  <2> DEFINE step == IF op.action = "apply_patch" THEN "read_text" ELSE op.action
  <2>1. CASE realpath(op.path) = None \/ ~Allowed(realpath(op.path))
    BY <1>10, <2>1, <1>4, Zenon DEF Resolve
  <2>2. CASE realpath(op.path) # None /\ Allowed(realpath(op.path))
    <3>1. Keep(step, [local EXCEPT !.target = realpath(op.path)])
      BY <1>10, <2>2, Zenon DEF Resolve
    <3>2. step # "rows" /\ realpath(op.path) \in Paths
      BY <2>2, <1>0, <1>1, <1>7
    <3> QED BY <3>1, <3>2, <1>5
  <2> QED BY <2>1, <2>2
<1>11. CASE ListNames
  <2>1. IsFiniteSet(Children(local.target))
    <3>1. IsFiniteSet({m \in Names : fs[m] # None})
      BY DirectoriesAssumption, FS_Subset
    <3>2. IsFiniteSet({fs[local.target].inside} \ {"nothing"})
      <4>1. IsFiniteSet({fs[local.target].inside})
        BY FS_Singleton
      <4>2. {fs[local.target].inside} \ {"nothing"} \in SUBSET {fs[local.target].inside}
        OBVIOUS
      <4> QED BY <4>1, <4>2, FS_Subset
    <3> QED BY <3>1, <3>2, FS_EmptySet DEF Children
  <2> QED BY <1>11, <2>1, <1>4, <1>6, Zenon DEF ListNames
<1>12. CASE SearchFiles
  <2> DEFINE names == {n \in Names : n = local.target \/ local.target = Here} \intersect
                      {n \in Names : IsKind(n, "file")}
  <2>1. IsFiniteSet(names)
    BY DirectoriesAssumption, FS_Subset
  <2>2. Keep("rows", [local EXCEPT !.names = names])
    BY <1>12 DEF SearchFiles
  <2> QED BY <2>1, <2>2, <1>6
<1>13. CASE Rows \/ Stat \/ VerifyTarget \/ MadeDirectory
  BY <1>13, <1>4, Zenon DEF Rows, Stat, VerifyTarget, MadeDirectory
<1>14. CASE HashFile \/ MeasureText
  BY <1>14, <1>4, <1>5 DEF HashFile, MeasureText
<1>15. CASE ReadContent
  BY <1>15, <1>4, <1>5 DEF ReadContent
<1>16. CASE Patch
  BY <1>16, <1>4, <1>5 DEF Patch
<1>17. CASE TestExists
  BY <1>17, <1>0, <1>4, <1>5 DEF TestExists
<1>18. CASE InspectTarget
  <2>1. realpath(op.path) # None => realpath(op.path) \in Paths
    BY <1>0, <1>1
  <2> QED BY <1>18, <2>1, <1>4, <1>5 DEF InspectTarget
<1>19. CASE HashBefore \/ TestOwner
  BY <1>19, <1>3, <1>4, <1>5 DEF HashBefore, TestOwner
<1>20. CASE MakeTemp \/ SetTrap \/ Transfer \/ MoveTemp
  BY <1>20, <1>3, <1>4 DEF MakeTemp, SetTrap, Transfer, MoveTemp
<1>21. CASE VerifyTemp \/ RecheckTarget \/ RehashTarget
  BY <1>21, <1>3, <1>4 DEF VerifyTemp, RecheckTarget, RehashTarget
<1>22. CASE NewEntry \/ MakeDirectory
  BY <1>22, <1>3, <1>4, <1>7 DEF NewEntry, MakeDirectory
<1>23. CASE ReferenceEntry
  <2>1. realpath(op.path) # None => realpath(op.path) \in Paths
    BY <1>0, <1>1
  <2> QED BY <1>23, <2>1, <1>4, <1>5 DEF ReferenceEntry
<1>24. CASE ExpectedHash \/ RecheckEntry
  BY <1>24, <1>3, <1>4 DEF ExpectedHash, RecheckEntry
<1>25. CASE Rename \/ RemoveEntry
  BY <1>25, <1>4, Zenon DEF Rename, RemoveEntry
<1>26. CASE HelperTimesOut \/ HelperKilled \/ ConnectionLost \/ Hangup
  BY <1>26, <1>2, <1>4 DEF HelperTimesOut, HelperKilled, ConnectionLost, Hangup
<1>27. ASSUME NEW n \in Names \ Roots, NEW e \in Entries, ForeignChange(n, e) PROVE Kept
  BY <1>27, <1>2 DEF ForeignChange
<1> QED
  BY <1>8, <1>9, <1>10, <1>11, <1>12, <1>13, <1>14, <1>15, <1>16, <1>17, <1>18, <1>19, <1>20, <1>21,
     <1>22, <1>23, <1>24, <1>25, <1>26, <1>27, Zenon DEF FilesNext, Helper

\* A listing or a search finds finitely many rows.
LEMMA FoundFinite ==
  ASSUME FilesInv, fpc = "rows", IsFiniteSet(local.names)
  PROVE  IsFiniteSet(Found)
<1>1. CASE op.action = "list"
  <2> DEFINE K == {"symlink", "directory", "file", "other"}
  <2>1. IsFiniteSet(K)
    <3>1. IsFiniteSet({"symlink"}) /\ IsFiniteSet({"directory"}) /\ IsFiniteSet({"file"}) /\ IsFiniteSet({"other"})
      BY FS_Singleton
    <3>2. IsFiniteSet({"symlink"} \union {"directory"}) /\ IsFiniteSet({"file"} \union {"other"})
      BY <3>1, FS_Union
    <3>3. IsFiniteSet(({"symlink"} \union {"directory"}) \union ({"file"} \union {"other"}))
      BY <3>2, FS_Union
    <3>4. K = ({"symlink"} \union {"directory"}) \union ({"file"} \union {"other"})
      OBVIOUS
    <3> QED BY <3>3, <3>4
  <2>2. \A n : TypeOf(n, n) \in K
    BY DEF TypeOf
  <2>3. Found \in SUBSET (local.names \X K)
    <3>1. Found = {<<n, IF n \in Names THEN TypeOf(n, n) ELSE "file">> : n \in local.names}
      BY <1>1 DEF Found
    <3>2. "file" \in K
      OBVIOUS
    <3> HIDE DEF K
    <3> QED BY <2>2, <3>1, <3>2
  <2> HIDE DEF K
  <2>4. IsFiniteSet(local.names \X K)
    BY <2>1, FS_Product
  <2> QED BY <2>3, <2>4, FS_Subset
<1>2. CASE op.action # "list"
  <2> DEFINE G(n) == {<<n, i>> : i \in {i \in DOMAIN Hash(n) : Hash(n)[i] = Query}}
             F == {G(n) : n \in Searched}
             f == [n \in Searched |-> G(n)]
  <2>1. Found = UNION F
    BY <1>2 DEF Found
  <2>2. IsFiniteSet(Searched)
    <3>1. Searched \in SUBSET local.names
      BY DEF Searched
    <3> QED BY <3>1, FS_Subset
  <2>3. ASSUME NEW n \in Searched PROVE IsFiniteSet(G(n))
    <3>1. Hash(n) \in Text
      <4>1. Hash(n) = TextOf(Followed(n)) /\ Hash(n) # None
        BY Zenon DEF Searched, Hash
      <4>2. Followed(n) # None /\ Followed(n).kind = "file" /\ Hash(n) = Followed(n).text
        BY <4>1 DEF TextOf
      <4>3. realpath(n) # None /\ Followed(n) = fs[realpath(n)] /\ Allowed(realpath(n))
        BY <4>2 DEF Followed, Searched
      <4>4. realpath(n) \in Paths
        <5>1. CASE realpath(n) \in Names \union {Here}
          BY <5>1 DEF Paths
        <5>2. ASSUME NEW r \in Roots, realpath(r) = realpath(n) PROVE realpath(n) \in Paths
          <6>1. r \in Paths
            BY NamesAssumption DEF Paths
          <6> QED BY <4>3, <5>2, <6>1, Seen, Led DEF FilesInv, FileTypes
        <5> QED BY <4>3, <5>1, <5>2 DEF Allowed
      <4> QED BY <4>2, <4>3, <4>4, MeantAreTexts DEF FilesInv, TextsMeant, Is
    <3>2. PICK t \in Seq(Lines) : t = Hash(n)
      BY <3>1 DEF Text
    <3>3. IsFiniteSet(1..Len(t)) /\ DOMAIN t = 1..Len(t)
      <4>1. Len(t) \in Int /\ 1 \in Int
        OBVIOUS
      <4> QED BY <4>1, FS_Interval
    <3>4. IsFiniteSet({n})
      BY FS_Singleton
    <3>5. IsFiniteSet({n} \X (1..Len(t)))
      BY <3>3, <3>4, FS_Product
    <3>6. G(n) \in SUBSET ({n} \X (1..Len(t)))
      BY <3>2, <3>3
    <3> QED BY <3>5, <3>6, FS_Subset
  <2> HIDE DEF G
  <2>4. f \in Surjection(Searched, F)
    BY DEF Surjection
  <2>5. IsFiniteSet(F)
    BY <2>2, <2>4, FS_Surjection
  <2>6. \A T \in F : IsFiniteSet(T)
    BY <2>3
  <2> QED BY <2>1, <2>5, <2>6, FS_UNION
<1> QED BY <1>1, <1>2

\* What is answered: a code the service knows, and no more rows than the limit.
LEMMA AnswerKindStep ==
  ASSUME FilesInv, FileKinds, [FilesNext]_fileVars
  PROVE  AnswerKind(answer')
<1>0. AnswerKind(answer) /\ (fpc = "rows" => IsFiniteSet(local.names))
  BY DEF FileKinds
<1>1. \A a : AnswerKind(a) /\ Answered(a) => AnswerKind(answer')
  BY <1>0 DEF Answered
<1>2. \A c \in Code : AnswerKind(Raised(c))
  <2> SUFFICES ASSUME NEW c \in Code PROVE AnswerKind(Raised(c))
    OBVIOUS
  <2>1. Raised(c).code = c /\ "rows" \notin DOMAIN Raised(c)
    BY DEF Raised
  <2> QED BY <2>1 DEF AnswerKind
<1>3. /\ \A c \in Code : _serverops_error(c) => AnswerKind(answer')
      /\ \A c \in Code : Refuse(c) => AnswerKind(answer')
      /\ \A r : AnswerKind(r) /\ _serverops_finish(r) => AnswerKind(answer')
  <2>1. "file_protocol_error" \in Code
    BY DEF Code
  <2> QED BY <2>1, <1>1, <1>2, Zenon DEF _serverops_error, Refuse, _serverops_finish
<1>4. UNCHANGED answer => AnswerKind(answer')
  BY <1>0
<1>5. \A x : AnswerKind(Done(x))
  <2> SUFFICES ASSUME NEW x PROVE AnswerKind(Done(x))
    OBVIOUS
  <2>1. Done(x).code = "ok" /\ "rows" \notin DOMAIN Done(x) /\ "ok" \in Code
    BY DEF Done, Code
  <2> QED BY <2>1 DEF AnswerKind
<1>6. CASE UNCHANGED fileVars
  BY <1>6, <1>4 DEF fileVars
<1>7. CASE Begin
  BY <1>7, <1>3, <1>4 DEF Begin, Code
<1>8. CASE Patch
  <2> DEFINE done == apply_unified_patch(local.text, op.patch)
  <2>1. done.code \in Code
    <3>1. op.patch \in Patches
      BY <1>8, RequestFacts DEF Patch, FilesInv, FileTypes, Working, PcAction
    <3>2. PICK patch \in Seq(PatchLines(Lines)) : patch = op.patch
      BY <3>1, LinesAssumption
    <3>3. PICK t \in FoundTexts : local.text = Shortened(t)
      BY <1>8 DEF Patch, FilesInv, Working, PatchKeeps
    <3>4. PICK source \in Seq(Lines) : source = local.text
      BY <3>3, ShortenedTypes
    <3>5. apply_unified_patch(source, patch).code \in {"ok", "file_conflict", "patch_invalid"}
      BY LinesAreBare, PatchedTypes
    <3> QED BY <3>2, <3>4, <3>5 DEF Code
  <2>2. "file_too_large" \in Code /\ "file_conflict" \in Code /\ "invalid_request" \in Code
    BY DEF Code
  <2>3. UNCHANGED answer \/ \E c \in Code : Refuse(c)
    <3> HIDE DEF done
    <3>1. Patch => \/ Refuse("file_too_large") \/ Refuse("file_conflict") \/ Refuse(done.code)
                   \/ UNCHANGED answer \/ Refuse("invalid_request")
      BY DEF Patch, done
    <3> QED BY <1>8, <2>1, <2>2, <3>1
  <2> QED BY <2>3, <1>3, <1>4
<1>9. CASE Rows
  <2>1. PICK rows \in SUBSET Found :
          /\ Cardinality(rows) = IF Cardinality(Found) > RowLimit THEN RowLimit ELSE Cardinality(Found)
          /\ _serverops_finish([code |-> "ok", status |-> "completed", rows |-> rows,
                                truncated |-> Cardinality(Found) > RowLimit])
    BY <1>9 DEF Rows
  <2> DEFINE result == [code |-> "ok", status |-> "completed", rows |-> rows,
                        truncated |-> Cardinality(Found) > RowLimit]
  <2>2. Cardinality(Found) \in Nat
    BY <1>0, <1>9, FoundFinite, FS_CardinalityType DEF Rows
  <2>3. Cardinality(rows) <= RowLimit
    BY <2>1, <2>2, FileBounds
  <2>4. AnswerKind(result)
    <3>1. result.code = "ok" /\ result.rows = rows /\ "ok" \in Code
      BY DEF Code
    <3> QED BY <2>3, <3>1 DEF AnswerKind
  <2> HIDE DEF result
  <2> QED BY <2>1, <2>4, <1>3 DEF result
<1>10. CASE Resolve \/ ListNames \/ SearchFiles
  BY <1>10, <1>3, <1>4 DEF Resolve, ListNames, SearchFiles, Code
<1>11. CASE Stat
  <2> DEFINE result == [code |-> "ok", status |-> "completed", type |-> TypeOf(op.path, local.target)]
  <2>1. AnswerKind(result)
    BY DEF AnswerKind, Code
  <2>2. _serverops_error("stat_failed") \/ _serverops_finish(result)
    BY <1>11 DEF Stat
  <2>3. "stat_failed" \in Code
    BY DEF Code
  <2> QED BY <2>1, <2>2, <2>3, <1>3
<1>12. CASE HashFile
  <2> DEFINE result == [code |-> "ok", status |-> "completed", sha |-> Hash(local.target)]
  <2>1. AnswerKind(result)
    BY DEF AnswerKind, Code
  <2>2. _serverops_error("not_a_file") \/ _serverops_finish(result) \/ UNCHANGED answer
    BY <1>12 DEF HashFile
  <2>3. "not_a_file" \in Code
    BY DEF Code
  <2> QED BY <2>1, <2>2, <2>3, <1>3, <1>4
<1>13. CASE MeasureText \/ TestExists \/ InspectTarget \/ HashBefore \/ TestOwner
  BY <1>13, <1>3, <1>4 DEF MeasureText, TestExists, InspectTarget, HashBefore, TestOwner, Code
<1>14. CASE ReadContent
  <2>1. PICK text, truncated :
          \/ UNCHANGED answer
          \/ _serverops_finish([code |-> "ok", status |-> "completed", sha |-> local.sha,
                                text |-> text, truncated |-> truncated])
          \/ Refuse("binary_file") \/ Refuse("invalid_utf8") \/ Refuse("file_protocol_error")
    BY <1>14 DEF ReadContent
  <2>2. AnswerKind([code |-> "ok", status |-> "completed", sha |-> local.sha, text |-> text,
                    truncated |-> truncated])
    BY DEF AnswerKind, Code
  <2>3. "binary_file" \in Code /\ "invalid_utf8" \in Code /\ "file_protocol_error" \in Code
    BY DEF Code
  <2> QED BY <2>1, <2>2, <2>3, <1>3, <1>4
<1>15. CASE MakeTemp \/ SetTrap \/ Transfer \/ VerifyTemp \/ RecheckTarget
             \/ RehashTarget \/ MoveTemp
  BY <1>15, <1>3, <1>4 DEF MakeTemp, SetTrap, Transfer, VerifyTemp, RecheckTarget, RehashTarget, MoveTemp, Code
<1>16. CASE VerifyTarget \/ NewEntry \/ MakeDirectory \/ MadeDirectory
  BY <1>16, <1>3, <1>4, <1>5 DEF VerifyTarget, NewEntry, MakeDirectory, MadeDirectory, Code
<1>17. CASE ReferenceEntry \/ ExpectedHash \/ RecheckEntry
  BY <1>17, <1>3, <1>4 DEF ReferenceEntry, ExpectedHash, RecheckEntry, Code
<1>18. CASE Rename \/ RemoveEntry
  <2>1. \/ _serverops_error("rename_failed") \/ _serverops_error("remove_failed")
        \/ _serverops_error("directory_not_empty")
        \/ _serverops_finish(Done("renamed")) \/ _serverops_finish(Done("removed"))
    BY <1>18 DEF Rename, RemoveEntry
  <2>2. "rename_failed" \in Code /\ "remove_failed" \in Code /\ "directory_not_empty" \in Code
    BY DEF Code
  <2> QED BY <2>1, <2>2, <1>3, <1>5
<1>19. CASE HelperTimesOut \/ HelperKilled \/ ConnectionLost \/ Hangup
  <2>1. \/ _serverops_error("command_timed_out") \/ Answered(Raised("file_command_failed"))
        \/ Answered(Raised("outcome_unknown")) \/ UNCHANGED answer
    BY <1>19, Zenon DEF HelperTimesOut, HelperKilled, ConnectionLost, Hangup
  <2>2. "command_timed_out" \in Code /\ "file_command_failed" \in Code /\ "outcome_unknown" \in Code
    BY DEF Code
  <2> QED BY <2>1, <2>2, <1>1, <1>2, <1>3, <1>4
<1>20. CASE \E n \in Names \ Roots, e \in Entries : ForeignChange(n, e)
  BY <1>20, <1>4 DEF ForeignChange
<1> QED BY <1>6, <1>7, <1>8, <1>9, <1>10, <1>11, <1>12, <1>13, <1>14, <1>15, <1>16, <1>17, <1>18, <1>19,
           <1>20, Zenon DEF FilesNext, Helper

\* The types at first.
LEMMA FileKindsInit == InitFiles => FileKinds
<1> SUFFICES ASSUME InitFiles PROVE FileKinds
  OBVIOUS
<1>1. \A n \in Paths : EntryKind(fs[n])
  <2>1. PICK found \in [Names \ Roots -> Entries] :
          fs = [n \in Paths |-> CASE n = Here -> Dir("mine")
                                 [] n = Outside -> File(<<>>, FALSE)
                                 [] n \in Roots -> Dir("nothing")
                                 [] OTHER -> found[n]]
    BY DEF InitFiles
  <2>2. EntryKind(Dir("mine")) /\ EntryKind(Dir("nothing"))
    BY DirKind DEF Insides
  <2>3. EntryKind(File(<<>>, FALSE))
    BY DEF EntryKind, Is, File
  <2>4. \A e \in Entries : EntryKind(e)
    BY DirectoriesAssumption DEF EntryKind, Is
  <2>5. \A n \in Paths \ ({Here, Outside} \union Roots) : found[n] \in Entries
    BY DEF Paths
  <2> QED BY <2>1, <2>2, <2>3, <2>4, <2>5
<1>2. /\ temp = None /\ trapped = FALSE /\ local = Blank /\ answer = None /\ fpc = "request"
  BY DEF InitFiles
<1>3. local.target = None
  BY <1>2 DEF Blank
<1>4. trapped \in BOOLEAN
  BY <1>2, Zenon
<1> QED BY <1>1, <1>2, <1>3, <1>4 DEF FileKinds, AnswerKind

\* Every answer of the file service has a code the clients know, a listing or a search never
\* returns more rows than max_results, files hold texts of whole lines, the temporary file
\* too, and a resolved name is a path of the directory (files/service.py, files/shell.py).
THEOREM FileTypesKept == FilesSpec => []FilesTypeOK
<1>1. FilesInv /\ FileKinds /\ [FilesNext]_fileVars => FileKinds'
  <2> SUFFICES ASSUME FilesInv, FileKinds, [FilesNext]_fileVars PROVE FileKinds'
    OBVIOUS
  <2>1. \A n \in Paths : EntryKind(fs'[n])
    BY EntryKindsStep DEF FileKinds
  <2>2. temp' \in Text \union {None}
    <3>1. fpc = "transfer" => NewText \in MeantTexts
      BY DEF FilesInv, Working, PatchKeeps, Writing, Checked, Placing, Sending
    <3> QED BY <3>1, TempChoices, MeantAreTexts DEF FileKinds
  <2>3. trapped' \in BOOLEAN
    BY TempChoices, Zenon DEF FileKinds
  <2>4. local'.target \in Paths \union {None} /\ (fpc' = "rows" => IsFiniteSet(local'.names))
    BY LocalKindsStep
  <2>5. AnswerKind(answer')
    BY AnswerKindStep
  <2> QED BY <2>1, <2>2, <2>3, <2>4, <2>5, Zenon DEF FileKinds, EntryKind, AnswerKind, Is
<1>2. FilesInv /\ FileKinds => FilesTypeOK
  <2> SUFFICES ASSUME FilesInv, FileKinds PROVE FilesTypeOK
    OBVIOUS
  <2>1. ASSUME NEW n \in Paths
        PROVE  /\ IsEntry(fs[n])
               /\ IsKind(n, "file") => fs[n].text \in Text
               /\ IsKind(n, "dir") => fs[n].inside \in Insides
    BY MeantAreTexts DEF FilesInv, FileTypes, TextsMeant, FileKinds, EntryKind, Is, IsKind
  <2>2. op \in Requests /\ foreign \in 0..MaxForeign
    BY DEF FilesInv, FileTypes
  <2> QED BY <2>1, <2>2, Zenon DEF FilesTypeOK, FileKinds, AnswerKind
<1> QED BY <1>1, <1>2, FileKindsInit, FilesInvariant, PTL DEF FilesSpec
=============================================================================
