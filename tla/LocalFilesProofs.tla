-------------------------- MODULE LocalFilesProofs --------------------------
(***************************************************************************)
(* The files of the local application data, for any number of processes    *)
(* that prepare, save, install, log and generate keys beside each other.   *)
(***************************************************************************)
EXTENDS LocalState, AuditTrail, KeyFiles, Installation, FiniteSetTheorems, TLAPS

-----------------------------------------------------------------------------
(* Preparing the local state: what the inductive invariant says *)

\* While .bootstrap.lock, and while config.toml.lock, is held.
InBoot == {"locked", "examine", "create", "preimage", "filling", "migrate", "verify", "rollback",
           "state"}
InConfig == {"examine", "create", "preimage", "filling", "migrate", "verify", "rollback", "put"}
Drafting == {"preimage", "filling", "migrate", "verify", "rollback"}

StateTypes ==
  /\ config \in Configs \union {None, Partial}
  /\ preimage \in Configs \union {None, Partial}
  /\ statefile \in {None, "valid", "unsupported"}
  /\ spc \in [Everyone -> SPc] /\ read \in [Everyone -> Configs \union {None, Partial}]
  /\ report \in [Everyone -> {"none", "prepared", "error", "collision", "rolled_back", "rollback_failed",
                             "configuration_lock_timeout", "configuration_version_unsupported"}]
  /\ saved \subseteq Profiles /\ faults \in 0..MaxFaults

LocksHeld ==
  /\ bootLock \in Everyone \union {None} /\ configLock \in Everyone \union {None}
  /\ \A p \in Everyone : /\ bootLock = p <=> spc[p] \in InBoot
                         /\ configLock = p <=> spc[p] \in InConfig

\* What a process read stays true while it holds config.toml.lock.
ReadIsCurrent ==
  \A p \in Everyone :
    /\ spc[p] = "create" => config = None
    /\ spc[p] = "put" => read[p] = IF config = None THEN empty ELSE config
    /\ spc[p] = "state" => config \in Configs /\ config.schema = 1
    /\ spc[p] \in Drafting => /\ read[p] \in Configs /\ read[p].schema = 0
                              /\ config \in {read[p], Migrated(read[p])}
                              /\ preimage \in Configs => preimage = read[p]
    /\ spc[p] \in {"preimage", "filling", "migrate"} => config = read[p]
    /\ spc[p] = "filling" => preimage = Partial
    /\ spc[p] \in {"migrate", "verify", "rollback"} => preimage = read[p]

\* There is one draft: a complete preimage is the draft that is still, or again, there.
OneDraft == preimage \in Configs /\ config \in Configs /\ config.schema = 0 => config = preimage

PreparedStays ==
  (\E p \in Everyone : report[p] = "prepared") =>
     /\ statefile = "valid" /\ config \in Configs /\ config.schema = 1
     /\ \A p \in Everyone : spc[p] # "create" /\ spc[p] \notin Drafting

StateInv == /\ StateTypes /\ LocksHeld /\ ReadIsCurrent /\ OneDraft /\ PreparedStays
            /\ SavedProfilesSurvive

LEMMA StateInitially == InitState => StateInv
<1> SUFFICES ASSUME InitState PROVE StateInv
  OBVIOUS
<1> DEFINE first == CHOOSE n \in Profiles : TRUE
<1>1. first \in Profiles
  BY StateAssumption
<1>2. config \in {None, Partial} \/ (config \in Configs /\ config.profiles \in {{}, {first}})
  BY <1>1 DEF InitState, Configs, Schema
<1> HIDE DEF first
<1>3. StateTypes
  BY <1>1, <1>2, StateAssumption DEF InitState, StateTypes, SPc, Configs
<1>4. LocksHeld
  BY StateAssumption DEF InitState, LocksHeld, InBoot, InConfig, Everyone
<1>5. ReadIsCurrent /\ OneDraft /\ PreparedStays
  BY StateAssumption DEF InitState, ReadIsCurrent, OneDraft, PreparedStays, Drafting, Configs, Schema
<1>6. SavedProfilesSurvive
  BY <1>2 DEF InitState, SavedProfilesSurvive
<1> QED
  BY <1>3, <1>4, <1>5, <1>6 DEF StateInv

LEMMA StateStep ==
  ASSUME StateInv, NEW p \in Everyone,
         ensure(p) \/ EnterUpdate(p) \/ Kill(p) \/ Restart(p) \/ \E n \in Profiles : SaveProfile(p, n)
  PROVE  StateInv'
<1> USE StateAssumption
    DEF StateInv, StateTypes, LocksHeld, ReadIsCurrent, OneDraft, PreparedStays, SavedProfilesSurvive,
        InBoot, InConfig, Drafting, SPc, Everyone, Configs, Schema, empty, Migrated, files, locks,
        Raise, Release, Fault
<1>1. CASE EnterBootstrap(p)
  BY <1>1 DEF EnterBootstrap, Goes
<1>2. CASE EnterConfig(p)
  BY <1>2 DEF EnterConfig, Goes
<1>3. CASE LockTimeout(p)
  BY <1>3 DEF LockTimeout
<1>4. CASE Examine(p)
  BY <1>4 DEF Examine, Reached, LeaveConfig
<1>5. CASE Create(p)
  BY <1>5 DEF Create, LeaveConfig
<1>6. CASE Preimage(p)
  BY <1>6 DEF Preimage, Reached
<1>7. CASE Fill(p)
  BY <1>7 DEF Fill, Reached
<1>8. CASE Migrate(p)
  BY <1>8 DEF Migrate, Reached
<1>9. CASE Verify(p)
  BY <1>9 DEF Verify, Reached, LeaveConfig
<1>10. CASE Rollback(p)
  BY <1>10 DEF Rollback
<1>11. CASE EnsureState(p)
  BY <1>11 DEF EnsureState
<1>12. CASE EnterUpdate(p)
  BY <1>12 DEF EnterUpdate, Goes
<1>13. CASE Kill(p)
  BY <1>13 DEF Kill
<1>14. CASE Restart(p)
  BY <1>14 DEF Restart
<1>15. ASSUME NEW n \in Profiles, SaveProfile(p, n)
      PROVE  StateInv'
  BY <1>15 DEF SaveProfile, Goes
<1> QED
  BY <1>1, <1>2, <1>3, <1>4, <1>5, <1>6, <1>7, <1>8, <1>9, <1>10, <1>11, <1>12, <1>13, <1>14, <1>15 DEF ensure

LEMMA StateInvariant == StateSpec => []StateInv
<1>1. StateInv /\ [StateNext]_stateVars => StateInv'
  <2> SUFFICES ASSUME StateInv, [StateNext]_stateVars PROVE StateInv'
    OBVIOUS
  <2>1. CASE UNCHANGED stateVars
    BY <2>1
    DEF stateVars, StateInv, StateTypes, LocksHeld, ReadIsCurrent, OneDraft, PreparedStays,
        SavedProfilesSurvive
  <2> QED
    BY <2>1, StateStep DEF StateNext
<1> QED
  BY StateInitially, <1>1, PTL DEF StateSpec

\* InterProcessFileLock around LocalStateBootstrapper.ensure and the repository: the files keep
\* their types, .bootstrap.lock is held exactly while its holder prepares, however it leaves,
\* and config.toml.lock by that process or by one that saves.
THEOREM LocalStateTypes == StateSpec => []StateTypeOK
<1>1. StateInv => StateTypeOK
  BY DEF StateInv, StateTypes, LocksHeld, StateTypeOK, InBoot, InConfig, SPc
<1> QED
  BY StateInvariant, <1>1, PTL

\* LocalStateBootstrapper.ensure and TomlProfileRepository, for any number of processes,
\* exceptions, kills and restarts: no saved profile is lost, what was prepared stays usable, no
\* step of a preparation replaces a draft that is not in its preimage, and a complete preimage
\* stays.  A save by a running process is the one step that may replace a draft without.
THEOREM PreparationIsSafe == StateSpec => MigrationIsSafe
<1>1. StateInv => SavedProfilesSurvive /\ PreparedIsUsable
  BY DEF StateInv, PreparedStays, PreparedIsUsable, Schema
<1>2. ASSUME StateInv, NEW p \in Everyone,
             ensure(p) \/ EnterUpdate(p) \/ Kill(p) \/ Restart(p) \/ \E n \in Profiles : SaveProfile(p, n)
      PROVE  DraftIsKept
  <2> USE <1>2, StateAssumption
      DEF StateInv, StateTypes, LocksHeld, ReadIsCurrent, OneDraft, InBoot, InConfig, Drafting,
          Configs, Schema, empty, Migrated, files
  <2>1. preimage \in Configs => preimage' = preimage
    <3>1. CASE Preimage(p)
      BY <3>1 DEF Preimage
    <3>2. CASE Fill(p)
      BY <3>2 DEF Fill
    <3>3. CASE ~Preimage(p) /\ ~Fill(p)
      BY <3>3 DEF ensure, EnterBootstrap, EnterConfig, LockTimeout, Examine, Create, Migrate, Verify,
                  Rollback, EnsureState, EnterUpdate, Kill, Restart, SaveProfile
    <3> QED
      BY <3>1, <3>2, <3>3
  <2>2. ASSUME config \in Configs, config.schema = 0, config' # config
        PROVE  preimage = config \/ \E n \in Profiles : SaveProfile(p, n)
    <3>1. \/ Create(p) \/ Migrate(p) \/ Rollback(p) \/ \E n \in Profiles : SaveProfile(p, n)
      BY <2>2 DEF ensure, EnterBootstrap, EnterConfig, LockTimeout, Examine, Preimage, Fill,
                  Verify, EnsureState, EnterUpdate, Kill, Restart
    <3> QED
      BY <2>2, <3>1 DEF Create, Migrate, Rollback
  <2> QED
    BY <2>1, <2>2 DEF DraftIsKept
<1>3. StateInv /\ [StateNext]_stateVars => [DraftIsKept]_stateVars
  BY <1>2 DEF StateNext
<1> QED
  BY StateInvariant, <1>1, <1>3, PTL DEF StateSpec, MigrationIsSafe

-----------------------------------------------------------------------------
(* Generating keys *)

Saving == {"saving", "saving public"}
Answers == Windows \union {Theirs, "nothing", "failed", "exists"}

\* ssh-keygen runs and saves only for a window that waits for it.
KeygenFollows ==
  \A w \in Windows :
    /\ kpc[w] \in Resting \union {"prepare"} => keygen[w] = "none"
    /\ kpc[w] = "secure" => keygen[w] = "succeeded"
    /\ kpc[w] \in {"first", "second"} => keygen[w] \notin Saving
    /\ kpc[w] \notin Resting => private # Theirs /\ public # Theirs

\* A call that was not disturbed is alone: the files are its own, and gone where it has
\* removed them.
UndisturbedIsAlone ==
  \A w \in Windows : ~disturbed[w] /\ kpc[w] \notin Resting =>
    /\ \A v \in Windows \ {w} : kpc[v] \in Resting
    /\ private \in {NoKey, w} /\ public \in {NoKey, w}
    /\ kpc[w] \in {"unlink", "unlink public", "close"} => keygen[w] \notin Saving
    /\ kpc[w] \in {"prepare", "unlink public", "close"} => private = NoKey
    /\ kpc[w] \in {"prepare", "close"} => public = NoKey

\* A key that was returned is there, and nobody is at work who could remove it.
ReturnedIsThere ==
  \A w \in Windows : ~disturbed[w] /\ told[w] = w =>
    private = w /\ public = w /\ \A v \in Windows : kpc[v] \in Resting

KeyTypes ==
  /\ private \in Windows \union {NoKey, Theirs} /\ public \in Windows \union {NoKey, Theirs}
  /\ kpc \in [Windows -> KPc] /\ keygen \in [Windows -> Keygen]
  /\ disturbed \in [Windows -> BOOLEAN] /\ told \in [Windows -> Answers]

KeysInv == KeyTypes /\ KeygenFollows /\ UndisturbedIsAlone /\ ReturnedIsThere

LEMMA KeysInitially == InitKeys => KeysInv
BY KeyBounds, KeyNames
DEF InitKeys, KeysInv, KeyTypes, KeygenFollows, UndisturbedIsAlone, ReturnedIsThere, KPc, Keygen,
    Resting, Saving, Answers

KeyAction(w) ==
  \/ Generate(w) \/ StartKeygen(w) \/ AnswerFirst(w) \/ AnswerSecond(w) \/ NoPrompt(w)
  \/ KeygenEnded(w) \/ WaitTimesOut(w) \/ SecureKey(w) \/ Unlink(w) \/ UnlinkPublic(w)
  \/ CloseKeygen(w) \/ KeygenStarts(w) \/ KeygenSaves(w) \/ KeygenExits(w) \/ KillWindow(w)

LEMMA KeysStep ==
  ASSUME KeysInv, NEW w \in Windows, KeyAction(w)
  PROVE  KeysInv'
<1> USE KeyNames DEF Resting, Saving, keyFiles
<1>0. KeyTypes /\ KeygenFollows /\ UndisturbedIsAlone /\ ReturnedIsThere
  BY DEF KeysInv
<1>1. CASE Generate(w)
  <2>1. CASE ~Free
    <3>1. /\ told' = [told EXCEPT ![w] = "exists"]
          /\ UNCHANGED <<private, public, kpc, keygen, disturbed>>
      BY <1>1, <2>1 DEF Generate
    <3>2. KeyTypes'
      BY <1>0, <3>1 DEF KeyTypes, Answers
    <3> QED
      BY <1>0, <3>1, <3>2 DEF KeysInv, KeyTypes, KeygenFollows, UndisturbedIsAlone, ReturnedIsThere
  <2>2. CASE Free
    <3> DEFINE overlapping == {v \in Windows \ {w} : kpc[v] \notin Resting}
    <3>1. /\ kpc[w] = "idle" /\ kpc' = [kpc EXCEPT ![w] = "prepare"]
          /\ told' = [told EXCEPT ![w] = "nothing"]
          /\ UNCHANGED <<private, public, keygen>>
      BY <1>1, <2>2 DEF Generate
    <3>2. disturbed' = [v \in Windows |-> IF v = w THEN overlapping # {} ELSE disturbed[v] \/ v \in overlapping]
      BY <1>1, <2>2 DEF Generate
    <3>3. disturbed' \in [Windows -> BOOLEAN]
      <4> HIDE DEF overlapping
      <4> QED
        BY <1>0, <3>2, Zenon DEF KeyTypes
    <3>4. ~disturbed'[w] => overlapping = {}
      <4> HIDE DEF overlapping
      <4> QED
        BY <3>2, Zenon
    <3>5. \A v \in Windows \ {w} : ~disturbed'[v] => ~disturbed[v] /\ v \notin overlapping
      <4> HIDE DEF overlapping
      <4> QED
        BY <3>2, Zenon
    <3>6. KeyTypes'
      BY <1>0, <3>1, <3>3 DEF KeyTypes, KPc, Answers
    <3>7. KeygenFollows'
      BY <1>0, <2>2, <3>1 DEF KeyTypes, KeygenFollows, Free
    <3>8. UndisturbedIsAlone'
      BY <1>0, <2>2, <3>1, <3>4, <3>5 DEF KeyTypes, UndisturbedIsAlone, Free
    <3>9. ReturnedIsThere'
      BY <1>0, <2>2, <3>1, <3>4, <3>5 DEF KeyTypes, ReturnedIsThere, Free
    <3> QED
      BY <3>6, <3>7, <3>8, <3>9 DEF KeysInv
  <2> QED
    BY <2>1, <2>2
<1>2. CASE StartKeygen(w)
  <2>1. KeyTypes'
    BY <1>0, <1>2 DEF StartKeygen, KGoes, KeyTypes, KPc, Keygen, Answers
  <2>2. KeygenFollows'
    <3>1. kpc[w] = "prepare" /\ UNCHANGED <<private, public>>
      BY <1>2 DEF StartKeygen, KGoes
    <3>3. CASE kpc' = [kpc EXCEPT ![w] = "first"] /\ keygen' = [keygen EXCEPT ![w] = "starting"]
      BY <1>0, <3>1, <3>3 DEF KeyTypes, KeygenFollows
    <3>4. CASE kpc' = [kpc EXCEPT ![w] = "idle"] /\ keygen' = keygen
      BY <1>0, <3>1, <3>4 DEF KeyTypes, KeygenFollows
    <3>5. CASE kpc' = [kpc EXCEPT ![w] = "unlink"] /\ keygen' = keygen
      BY <1>0, <3>1, <3>5 DEF KeyTypes, KeygenFollows
    <3> QED
      BY <1>2, <3>3, <3>4, <3>5 DEF StartKeygen, KGoes
  <2>3. UndisturbedIsAlone'
    BY ZenonT(40), <1>0, <1>2 DEF StartKeygen, KGoes, KeyTypes, KeygenFollows, UndisturbedIsAlone
  <2>4. ReturnedIsThere'
    <3>1. /\ kpc[w] = "prepare" /\ told' \in {told, [told EXCEPT ![w] = "failed"]}
          /\ UNCHANGED <<private, public, disturbed>>
      BY <1>2 DEF StartKeygen, KGoes
    <3>2. \A v \in Windows : told'[v] = v => told[v] = v
      BY <1>0, <3>1 DEF KeyTypes
    <3>3. \A v \in Windows : ~disturbed'[v] => told'[v] # v
      BY <1>0, <3>1, <3>2 DEF ReturnedIsThere
    <3> QED
      BY <3>3 DEF ReturnedIsThere
  <2> QED
    BY <2>1, <2>2, <2>3, <2>4 DEF KeysInv
<1>3. CASE AnswerFirst(w)
  <2>1. KeyTypes'
    BY <1>0, <1>3 DEF AnswerFirst, KGoes, Asks, KeyTypes, KPc, Keygen, Answers
  <2>2. KeygenFollows'
    BY <1>0, <1>3 DEF AnswerFirst, KGoes, Asks, KeyTypes, KeygenFollows
  <2>3. UndisturbedIsAlone'
    BY <1>0, <1>3 DEF AnswerFirst, KGoes, Asks, KeyTypes, KeygenFollows, UndisturbedIsAlone
  <2>4. ReturnedIsThere'
    BY <1>0, <1>3 DEF AnswerFirst, KGoes, Asks, KeyTypes, KeygenFollows, UndisturbedIsAlone, ReturnedIsThere
  <2> QED
    BY <2>1, <2>2, <2>3, <2>4 DEF KeysInv
<1>4. CASE AnswerSecond(w)
  <2>1. KeyTypes'
    BY <1>0, <1>4 DEF AnswerSecond, KGoes, Asks, KeyTypes, KPc, Keygen, Answers
  <2>2. KeygenFollows'
    BY <1>0, <1>4 DEF AnswerSecond, KGoes, Asks, KeyTypes, KeygenFollows
  <2>3. UndisturbedIsAlone'
    BY <1>0, <1>4 DEF AnswerSecond, KGoes, Asks, KeyTypes, KeygenFollows, UndisturbedIsAlone
  <2>4. ReturnedIsThere'
    BY <1>0, <1>4 DEF AnswerSecond, KGoes, Asks, KeyTypes, KeygenFollows, UndisturbedIsAlone, ReturnedIsThere
  <2> QED
    BY <2>1, <2>2, <2>3, <2>4 DEF KeysInv
<1>5. CASE NoPrompt(w)
  <2>1. KeyTypes'
    BY <1>0, <1>5 DEF NoPrompt, KGoes, KeyTypes, KPc, Keygen, Answers
  <2>2. KeygenFollows'
    BY <1>0, <1>5 DEF NoPrompt, KGoes, KeyTypes, KeygenFollows
  <2>3. UndisturbedIsAlone'
    BY ZenonT(40), <1>0, <1>5 DEF NoPrompt, KGoes, KeyTypes, KeygenFollows, UndisturbedIsAlone
  <2>4. ReturnedIsThere'
    BY <1>0, <1>5 DEF NoPrompt, KGoes, KeyTypes, KeygenFollows, UndisturbedIsAlone, ReturnedIsThere
  <2> QED
    BY <2>1, <2>2, <2>3, <2>4 DEF KeysInv
<1>6. CASE KeygenEnded(w)
  <2>1. KeyTypes'
    BY <1>0, <1>6 DEF KeygenEnded, KGoes, KeyTypes, KPc, Keygen, Answers
  <2>2. KeygenFollows'
    BY <1>0, <1>6 DEF KeygenEnded, KGoes, KeyTypes, KeygenFollows
  <2>3. UndisturbedIsAlone'
    BY ZenonT(40), <1>0, <1>6 DEF KeygenEnded, KGoes, KeyTypes, KeygenFollows, UndisturbedIsAlone
  <2>4. ReturnedIsThere'
    BY <1>0, <1>6 DEF KeygenEnded, KGoes, KeyTypes, KeygenFollows, UndisturbedIsAlone, ReturnedIsThere
  <2> QED
    BY <2>1, <2>2, <2>3, <2>4 DEF KeysInv
<1>7. CASE WaitTimesOut(w)
  <2>1. KeyTypes'
    BY <1>0, <1>7 DEF WaitTimesOut, KGoes, KeyTypes, KPc, Keygen, Answers
  <2>2. KeygenFollows'
    BY <1>0, <1>7 DEF WaitTimesOut, KGoes, KeyTypes, KeygenFollows
  <2>3. UndisturbedIsAlone'
    BY ZenonT(40), <1>0, <1>7 DEF WaitTimesOut, KGoes, KeyTypes, KeygenFollows, UndisturbedIsAlone
  <2>4. ReturnedIsThere'
    BY ZenonT(40), <1>0, <1>7 DEF WaitTimesOut, KGoes, KeyTypes, KeygenFollows, UndisturbedIsAlone, ReturnedIsThere
  <2> QED
    BY <2>1, <2>2, <2>3, <2>4 DEF KeysInv
<1>8. CASE SecureKey(w)
  <2>1. KeyTypes'
    BY ZenonT(40), <1>0, <1>8 DEF SecureKey, KGoes, KeyTypes, KPc, Keygen, Answers
  <2>2. KeygenFollows'
    BY <1>0, <1>8 DEF SecureKey, KGoes, KeyTypes, KeygenFollows
  <2>3. UndisturbedIsAlone'
    BY ZenonT(40), <1>0, <1>8 DEF SecureKey, KGoes, KeyTypes, KeygenFollows, UndisturbedIsAlone
  <2>4. ReturnedIsThere'
    <3>1. kpc[w] = "secure" /\ UNCHANGED <<private, public, disturbed>>
      BY <1>8 DEF SecureKey, KGoes
    <3>2. \A v \in Windows : ~disturbed[v] => told[v] # v
      BY <1>0, <3>1 DEF ReturnedIsThere
    <3>3. CASE told' = told
      BY <3>1, <3>2, <3>3 DEF ReturnedIsThere
    <3>4. CASE told' # told
      <4>1. /\ public # NoKey /\ private # NoKey
            /\ told' = [told EXCEPT ![w] = public] /\ kpc' = [kpc EXCEPT ![w] = "idle"]
        BY <1>8, <3>4 DEF SecureKey, KGoes
      <4> QED
        BY <1>0, <3>1, <3>2, <4>1 DEF KeyTypes, UndisturbedIsAlone, ReturnedIsThere
    <3> QED
      BY <3>3, <3>4
  <2> QED
    BY <2>1, <2>2, <2>3, <2>4 DEF KeysInv
<1>9. CASE Unlink(w)
  <2>1. KeyTypes'
    BY <1>0, <1>9 DEF Unlink, KGoes, CleanupFails, KeyTypes, KPc, Keygen, Answers
  <2>2. KeygenFollows'
    <3>1. /\ kpc[w] = "unlink" /\ private' \in {private, NoKey} /\ UNCHANGED <<public, keygen>>
          /\ \E to \in {"unlink public", "close"} : kpc' = [kpc EXCEPT ![w] = to]
      BY <1>9 DEF Unlink, KGoes
    <3> QED
      BY <1>0, <3>1 DEF KeyTypes, KeygenFollows
  <2>3. UndisturbedIsAlone'
    BY ZenonT(40), <1>0, <1>9 DEF Unlink, KGoes, CleanupFails, KeyTypes, KeygenFollows, UndisturbedIsAlone
  <2>4. ReturnedIsThere'
    <3>1. kpc[w] = "unlink" /\ told' = told
      BY <1>9 DEF Unlink, KGoes
    <3>2. \A v \in Windows : ~disturbed[v] => told[v] # v
      BY <1>0, <3>1 DEF ReturnedIsThere
    <3>3. disturbed' = disturbed \/ disturbed' = [disturbed EXCEPT ![w] = TRUE]
      BY <1>9 DEF Unlink, CleanupFails
    <3>4. \A v \in Windows : ~disturbed'[v] => ~disturbed[v]
      BY <1>0, <3>3, Zenon DEF KeyTypes
    <3>5. \A v \in Windows : ~disturbed'[v] => told'[v] # v
      BY <3>1, <3>2, <3>4
    <3> QED
      BY <3>5 DEF ReturnedIsThere
  <2> QED
    BY <2>1, <2>2, <2>3, <2>4 DEF KeysInv
<1>10. CASE UnlinkPublic(w)
  <2>1. KeyTypes'
    BY <1>0, <1>10 DEF UnlinkPublic, KGoes, CleanupFails, KeyTypes, KPc, Keygen, Answers
  <2>2. KeygenFollows'
    BY <1>0, <1>10 DEF UnlinkPublic, KGoes, CleanupFails, KeyTypes, KeygenFollows
  <2>3. UndisturbedIsAlone'
    BY ZenonT(40), <1>0, <1>10 DEF UnlinkPublic, KGoes, CleanupFails, KeyTypes, KeygenFollows, UndisturbedIsAlone
  <2>4. ReturnedIsThere'
    BY ZenonT(40), <1>0, <1>10 DEF UnlinkPublic, KGoes, CleanupFails, KeyTypes, KeygenFollows, UndisturbedIsAlone, ReturnedIsThere
  <2> QED
    BY <2>1, <2>2, <2>3, <2>4 DEF KeysInv
<1>11. CASE CloseKeygen(w)
  <2>1. KeyTypes'
    BY <1>0, <1>11 DEF CloseKeygen, KGoes, KeyTypes, KPc, Keygen, Answers
  <2>2. KeygenFollows'
    BY <1>0, <1>11 DEF CloseKeygen, KGoes, KeyTypes, KeygenFollows
  <2>3. UndisturbedIsAlone'
    BY <1>0, <1>11 DEF CloseKeygen, KGoes, KeyTypes, KeygenFollows, UndisturbedIsAlone
  <2>4. ReturnedIsThere'
    BY <1>0, <1>11 DEF CloseKeygen, KGoes, KeyTypes, KeygenFollows, UndisturbedIsAlone, ReturnedIsThere
  <2> QED
    BY <2>1, <2>2, <2>3, <2>4 DEF KeysInv
<1>12. CASE KeygenStarts(w)
  <2>1. KeyTypes'
    BY <1>0, <1>12 DEF KeygenStarts, Asks, KeyTypes, KPc, Keygen, Answers
  <2>2. KeygenFollows'
    BY <1>0, <1>12 DEF KeygenStarts, Asks, KeyTypes, KeygenFollows
  <2>3. UndisturbedIsAlone'
    BY <1>0, <1>12 DEF KeygenStarts, Asks, KeyTypes, KeygenFollows, UndisturbedIsAlone
  <2>4. ReturnedIsThere'
    BY <1>0, <1>12 DEF KeygenStarts, Asks, KeyTypes, KeygenFollows, UndisturbedIsAlone, ReturnedIsThere
  <2> QED
    BY <2>1, <2>2, <2>3, <2>4 DEF KeysInv
<1>13. CASE KeygenSaves(w)
  <2>1. KeyTypes'
    BY <1>0, <1>13 DEF KeygenSaves, Asks, KeyTypes, KPc, Keygen, Answers
  <2>2. KeygenFollows'
    BY <1>0, <1>13 DEF KeygenSaves, Asks, KeyTypes, KeygenFollows
  <2>3. UndisturbedIsAlone'
    BY <1>0, <1>13 DEF KeygenSaves, Asks, KeyTypes, KeygenFollows, UndisturbedIsAlone
  <2>4. ReturnedIsThere'
    BY <1>0, <1>13 DEF KeygenSaves, Asks, KeyTypes, KeygenFollows, UndisturbedIsAlone, ReturnedIsThere
  <2> QED
    BY <2>1, <2>2, <2>3, <2>4 DEF KeysInv
<1>14. CASE KeygenExits(w)
  <2>1. KeyTypes'
    BY <1>0, <1>14 DEF KeygenExits, KeyTypes, KPc, Keygen, Answers
  <2>2. KeygenFollows'
    BY <1>0, <1>14 DEF KeygenExits, KeyTypes, KeygenFollows
  <2>3. UndisturbedIsAlone'
    BY <1>0, <1>14 DEF KeygenExits, KeyTypes, KeygenFollows, UndisturbedIsAlone
  <2>4. ReturnedIsThere'
    BY <1>0, <1>14 DEF KeygenExits, KeyTypes, KeygenFollows, UndisturbedIsAlone, ReturnedIsThere
  <2> QED
    BY <2>1, <2>2, <2>3, <2>4 DEF KeysInv
<1>15. CASE KillWindow(w)
  <2>1. KeyTypes'
    BY <1>0, <1>15 DEF KillWindow, KeyTypes, KPc, Keygen, Answers
  <2>2. KeygenFollows'
    BY <1>0, <1>15 DEF KillWindow, KeyTypes, KeygenFollows
  <2>3. UndisturbedIsAlone'
    BY <1>0, <1>15 DEF KillWindow, KeyTypes, KeygenFollows, UndisturbedIsAlone
  <2>4. ReturnedIsThere'
    BY <1>0, <1>15 DEF KillWindow, KeyTypes, KeygenFollows, UndisturbedIsAlone, ReturnedIsThere
  <2> QED
    BY <2>1, <2>2, <2>3, <2>4 DEF KeysInv
<1> QED
  BY <1>1, <1>2, <1>3, <1>4, <1>5, <1>6, <1>7, <1>8, <1>9, <1>10, <1>11, <1>12, <1>13, <1>14, <1>15 DEF KeyAction

LEMMA KeysInvariant == KeysSpec => []KeysInv
<1>1. KeysInv /\ [KeysNext]_keyVars => KeysInv'
  <2> SUFFICES ASSUME KeysInv, [KeysNext]_keyVars PROVE KeysInv'
    OBVIOUS
  <2>1. CASE UNCHANGED keyVars
    BY <2>1 DEF keyVars, KeysInv, KeyTypes, KeygenFollows, UndisturbedIsAlone, ReturnedIsThere
  <2>2. CASE KeysNext
    BY <2>2, KeysStep DEF KeysNext, KeyAction
  <2> QED
    BY <2>1, <2>2
<1> QED
  BY KeysInitially, <1>1, PTL DEF KeysSpec

\* Ed25519KeyGenerator.generate: files that were there are kept, and a call that nobody
\* overlapped returns a key whose files stay or leaves none, for any number of windows.
THEOREM KeysKept == KeysSpec => KeyFilesAreKept
<1> DEFINE Ends(w) == kpc[w] \notin Resting /\ kpc'[w] = "idle"
           Failed(w) == told'[w] = "failed" /\ private' = NoKey /\ public' = NoKey
           Kept == /\ private = Theirs => private' = Theirs
                   /\ public = Theirs => public' = Theirs
                   /\ \A w \in Windows : ~disturbed'[w] =>
                        /\ told'[w] = w => private' = w /\ public' = w
                        /\ kpc[w] \notin Resting /\ kpc'[w] = "idle" =>
                             \/ told'[w] = w
                             \/ told'[w] = "failed" /\ private' = NoKey /\ public' = NoKey
<1>1. ASSUME KeysInv, KeysInv', NEW w \in Windows, KeyAction(w)
      PROVE  Kept
  <2>0. KeyTypes /\ KeygenFollows /\ UndisturbedIsAlone /\ ReturnedIsThere'
    BY <1>1 DEF KeysInv
  <2>1. kpc[w] \in Resting => UNCHANGED <<private, public>>
    BY <1>1, <2>0 DEF KeygenFollows, KeyAction, Generate, StartKeygen, AnswerFirst, AnswerSecond,
         NoPrompt, KeygenEnded, WaitTimesOut, SecureKey, Unlink, UnlinkPublic, CloseKeygen,
         KeygenStarts, KeygenSaves, KeygenExits, KillWindow, KGoes, Asks, Resting, keyFiles
  <2>2. (private = Theirs => private' = Theirs) /\ (public = Theirs => public' = Theirs)
    BY <2>0, <2>1 DEF KeygenFollows
  <2>3. \A v \in Windows \ {w} : kpc'[v] = kpc[v]
    BY <1>1, <2>0 DEF KeyTypes, KeyAction, Generate, StartKeygen, AnswerFirst, AnswerSecond,
         NoPrompt, KeygenEnded, WaitTimesOut, SecureKey, Unlink, UnlinkPublic, CloseKeygen,
         KeygenStarts, KeygenSaves, KeygenExits, KillWindow, KGoes, Asks
  <2>4. ASSUME ~disturbed'[w], Ends(w)
        PROVE  told'[w] = w \/ Failed(w)
    <3>1. CASE StartKeygen(w)
      BY <2>0, <2>4, <3>1 DEF StartKeygen, KGoes, KeyTypes, UndisturbedIsAlone, keyFiles
    <3>2. CASE SecureKey(w)
      BY <2>0, <2>4, <3>2, KeyNames DEF SecureKey, KGoes, KeyTypes, UndisturbedIsAlone, keyFiles
    <3>3. CASE CloseKeygen(w)
      BY <2>0, <2>4, <3>3 DEF CloseKeygen, KGoes, KeyTypes, UndisturbedIsAlone, keyFiles, Resting
    <3>4. StartKeygen(w) \/ SecureKey(w) \/ CloseKeygen(w)
      BY <1>1, <2>0, <2>4 DEF KeyTypes, KeyAction, Generate, AnswerFirst, AnswerSecond,
           NoPrompt, KeygenEnded, WaitTimesOut, Unlink, UnlinkPublic,
           KeygenStarts, KeygenSaves, KeygenExits, KillWindow, KGoes, Asks, Resting
    <3> QED
      BY <3>1, <3>2, <3>3, <3>4
  <2>5. ASSUME NEW v \in Windows, ~disturbed'[v]
        PROVE  /\ told'[v] = v => private' = v /\ public' = v
               /\ Ends(v) => told'[v] = v \/ Failed(v)
    BY <2>0, <2>3, <2>4, <2>5 DEF ReturnedIsThere, Resting
  <2> QED
    BY <2>2, <2>5
<1>2. KeysInv /\ KeysInv' /\ [KeysNext]_keyVars => [Kept]_keyVars
  <2> HIDE DEF Kept
  <2> QED
    BY <1>1 DEF KeysNext, KeyAction
<1> QED
  BY KeysInvariant, <1>2, PTL DEF KeysSpec, KeyFilesAreKept
-----------------------------------------------------------------------------
(* The installation: what survives it *)

Files == CodexFile \union {Absent}
Tasks == {Absent, "unmanaged"} \union Versions
Steps == {"plan", "confirm", "shutdown", "inspect", "delete", "register", "registered", "compare",
          "backup", "compare again", "replace", "validate", "restore", "rmtree", "ended"}

InstallTypes ==
  /\ codex \in Files /\ backup \in Files /\ task \in Tasks /\ data \in {"kept", "partly", "removed"}
  /\ theirs \in [codex : Files, task : Tasks] /\ changes \in 0..MaxForeign
  /\ ipc \in [Installers -> Steps] /\ cmd \in [Installers -> CommandLines]
  /\ change \in [Installers -> [previous : Files, updated : Files]]
  /\ had \in [Installers -> BOOLEAN]

\* Which commands a step belongs to.
CommandAt(p, s) ==
  /\ s \in {"register", "registered"} => cmd[p].name = "broker-task"
  /\ s \in {"shutdown", "delete"} => cmd[p].name = "uninstall"
  /\ s = "inspect" => cmd[p].name \in {"broker-task", "uninstall"}
  /\ s = "confirm" => cmd[p].name # "update"
  /\ s \in {"compare", "backup", "compare again", "replace", "validate", "restore", "rmtree"} =>
       CodexCommand(cmd[p])

\* The change a codex command carries out is the one it planned.
Change(f, c) == IF Content(f).entry = "none" /\ c.name # "codex-config" THEN f ELSE Updated(f, c)

AsPlanned ==
  \A p \in Installers : ipc[p] \notin {"plan", "ended"} /\ CodexCommand(cmd[p]) =>
    ~Refusal(change[p].previous) /\ change[p].updated = Change(change[p].previous, cmd[p])

\* A text is older than every edit to come.
Older(f) == Content(f).text <= changes
TextsAreOlder ==
  /\ Older(codex) /\ Older(backup) /\ Older(theirs.codex)
  /\ \A p \in Installers : Older(change[p].previous) /\ Older(change[p].updated)

\* What an installer compared is still so when it replaces it.
ComparedAt(p, s) ==
  /\ s = "replace" => ReadText(codex) = change[p].previous
  /\ s \in {"validate", "restore"} => codex = change[p].updated
  /\ s \in BackupWindow /\ had[p] => backup = Content(change[p].previous)
  /\ s \in {"delete", "register"} => task # "unmanaged"
  /\ s = "registered" => task = cmd[p].version

\* A rollback that deletes the file finds nothing of the user in it.
NothingToLoseAt(p, s) ==
  ~had[p] =>
    /\ s = "compare again" =>
         \/ Foreign(theirs.codex) = Foreign(Absent)
         \/ Content(theirs.codex).text > Content(change[p].previous).text
    /\ s \in {"replace", "validate", "restore"} => Foreign(theirs.codex) = Foreign(Absent)

CommandSteps == \A p \in Installers : CommandAt(p, ipc[p])
Unraced == \A p \in Installers : ComparedAt(p, ipc[p]) /\ NothingToLoseAt(p, ipc[p])

InstallInv ==
  /\ InstallTypes /\ CommandSteps /\ AsPlanned /\ TextsAreOlder
  /\ ForeignSurvives /\ (~raced => Unraced)

LEMMA CommandFacts ==
  ASSUME NEW c \in CommandLines
  PROVE  /\ c.name \in {"codex-config", "remove", "broker-task", "update", "uninstall"}
         /\ c.version \in Versions /\ c.apply \in BOOLEAN /\ c.remove_data \in BOOLEAN
         /\ c.remove_data => c.name = "uninstall"
BY CommandLinesAssumption DEF Commands

LEMMA FileFacts ==
  ASSUME NEW f \in Files
  PROVE  /\ Content(f) \in CodexFile /\ Content(Content(f)) = Content(f)
         /\ Foreign(Content(f)) = Foreign(f) /\ Content(f).text \in Nat
         /\ f # Absent => Content(f) = f
<1>1. Content(f) \in CodexFile /\ (f # Absent => Content(f) = f)
  BY InstallNames DEF Files, Content, CodexFile, Blank, Entries
<1>2. Content(f) # Absent /\ Content(f).text \in Nat
  BY <1>1, InstallNames DEF CodexFile
<1>3. Content(Content(f)) = Content(f)
  BY <1>2 DEF Content
<1> QED
  BY <1>1, <1>2, <1>3 DEF Foreign

LEMMA ForeignText ==
  ASSUME NEW f \in Files, NEW g \in Files, Foreign(f) = Foreign(g)
  PROVE  Content(f).text = Content(g).text
BY DEF Foreign

\* Reading a file changes nothing of it but its line breaks.
LEMMA ReadFacts ==
  ASSUME NEW f \in Files
  PROVE  /\ ReadText(f) \in Files /\ (ReadText(f) = Absent <=> f = Absent)
         /\ ReadText(ReadText(f)) = ReadText(f)
         /\ Content(ReadText(f)).text = Content(f).text /\ Content(ReadText(f)).valid = Content(f).valid
         /\ Content(ReadText(f)).entry = Content(f).entry
         /\ Foreign(ReadText(f)) = Foreign(f) /\ (Refusal(ReadText(f)) <=> Refusal(f))
<1>1. CASE f = Absent \/ f.breaks # "crlf"
  <2>1. ReadText(f) = f
    BY <1>1 DEF ReadText
  <2> QED
    BY <2>1
<1>2. CASE f # Absent /\ f.breaks = "crlf"
  <2>1. f \in CodexFile /\ ReadText(f) = [f EXCEPT !.breaks = "lf"]
    BY <1>2 DEF ReadText, Files
  <2>2. /\ ReadText(f) \in CodexFile /\ ReadText(f).breaks = "lf" /\ ReadText(f).text = f.text
        /\ ReadText(f).valid = f.valid /\ ReadText(f).entry = f.entry
    <3> HIDE DEF ReadText
    <3> QED
      BY <2>1 DEF CodexFile
  <2>3. ReadText(f) # Absent
    BY <2>2, InstallNames
  <2>4. ReadText(ReadText(f)) = ReadText(f)
    <3>1. \A g : g.breaks = "lf" => ReadText(g) = g
      BY DEF ReadText
    <3> HIDE DEF ReadText
    <3> QED
      BY <2>2, <3>1
  <2>5. Content(ReadText(f)) = ReadText(f) /\ Content(f) = f
    BY <1>2, <2>3 DEF Content
  <2> QED
    <3> HIDE DEF ReadText
    <3> QED
      BY <1>2, <2>2, <2>3, <2>4, <2>5 DEF Files, Foreign, Refusal, Parses
<1> QED
  BY <1>1, <1>2

LEMMA ChangeFacts ==
  ASSUME NEW f \in Files, NEW c \in CommandLines, ~Refusal(f)
  PROVE  /\ Change(f, c) \in Files
         /\ Foreign(Change(f, c)) = Foreign(f)
         /\ Content(Change(f, c)).text = Content(f).text
<1>1. CASE Change(f, c) = f
  BY <1>1
<1>2. CASE Change(f, c) = Updated(f, c)
  <2>1. Content(f) \in CodexFile
    BY FileFacts
  <2>2. /\ Updated(f, c) \in CodexFile
        /\ Updated(f, c).text = Content(f).text /\ Updated(f, c).valid = Content(f).valid
        /\ Updated(f, c).entry \in Versions \union {"none"}
    BY <2>1, CommandFacts DEF Updated, CodexFile, Entries
  <2>3. Updated(f, c) \in Files /\ Updated(f, c) # Absent
    BY <2>2, InstallNames DEF Files
  <2>4. Content(Updated(f, c)) = Updated(f, c)
    BY <2>3, FileFacts
  <2>5. Content(f).entry \notin {"unmarked", "ambiguous"}
    BY DEF Refusal
  <2>6. Updated(f, c).entry \notin {"unmarked", "ambiguous"}
    BY <2>2, InstallNames
  <2>7. Foreign(Updated(f, c)) = Foreign(f)
    <3> HIDE DEF Updated
    <3> QED
      BY <2>2, <2>4, <2>5, <2>6 DEF Foreign
  <2> QED
    BY <1>2, <2>2, <2>3, <2>4, <2>7
<1> QED
  BY <1>1, <1>2 DEF Change

LEMMA InstallInitially == InitInstall => InstallInv
<1> SUFFICES ASSUME InitInstall PROVE InstallInv
  OBVIOUS
<1>1. codex \in Files
  <2>1. CASE codex = Absent
    BY <2>1 DEF Files
  <2>2. CASE codex \in [text : {0}, breaks : {"crlf"}, valid : {TRUE}, entry : {"none", "unmarked"} \union Versions]
    <3>1. 0 \in 0..MaxForeign
      BY InstallNames
    <3>2. codex.valid \in BOOLEAN
      BY <2>2, Zenon
    <3>3. /\ codex = [text |-> codex.text, breaks |-> codex.breaks, valid |-> codex.valid, entry |-> codex.entry]
          /\ codex.text = 0 /\ codex.breaks = "crlf" /\ codex.entry \in {"none", "unmarked"} \union Versions
      BY <2>2
    <3> QED
      BY <3>1, <3>2, <3>3 DEF Files, CodexFile, Entries
  <2> QED
    BY <2>1, <2>2 DEF InitInstall
<1>2. Content(codex).text = 0 /\ Content(Absent).text = 0
  BY InstallNames DEF InitInstall, Content, Blank
<1>3. InstallTypes
  BY <1>1, InstallNames DEF InitInstall, InstallTypes, Files, Tasks, Steps
<1>4. TextsAreOlder
  BY <1>2 DEF InitInstall, TextsAreOlder, Older
<1> QED
  BY <1>3, <1>4 DEF InitInstall, InstallInv, CommandSteps, CommandAt, AsPlanned, ForeignSurvives, Unraced,
     ComparedAt, NothingToLoseAt, BackupWindow

\* A step of one installer that writes nothing the others look at.
LEMMA Moves ==
  ASSUME InstallInv, NEW p \in Installers, NEW s \in Steps, ipc' = [ipc EXCEPT ![p] = s],
         UNCHANGED <<codex, backup, task, cmd, change, had, raced, theirs, changes>>,
         data' \in {"kept", "partly", "removed"},
         CommandAt(p, s), ~raced => ComparedAt(p, s) /\ NothingToLoseAt(p, s),
         s = "ended" \/ ipc[p] \notin {"plan", "ended"} \/ ~CodexCommand(cmd[p])
  PROVE  InstallInv'
<1>1. InstallTypes'
  BY DEF InstallInv, InstallTypes
<1>2. CommandSteps'
  BY DEF InstallInv, InstallTypes, CommandSteps, CommandAt
<1>3. AsPlanned'
  BY DEF InstallInv, InstallTypes, AsPlanned
<1>4. TextsAreOlder'
  BY DEF InstallInv, TextsAreOlder, Older
<1>5. ForeignSurvives'
  BY DEF InstallInv, ForeignSurvives
<1>6. ~raced' => Unraced'
  BY DEF InstallInv, InstallTypes, Unraced, ComparedAt, NothingToLoseAt
<1> QED
  BY <1>1, <1>2, <1>3, <1>4, <1>5, <1>6 DEF InstallInv

LEMMA EndsInstall ==
  ASSUME InstallInv, NEW p \in Installers, ipc' = [ipc EXCEPT ![p] = "ended"],
         UNCHANGED <<codex, backup, task, cmd, change, had, raced, theirs, changes>>,
         data' \in {"kept", "partly", "removed"}
  PROVE  InstallInv'
<1>1. CommandAt(p, "ended") /\ ComparedAt(p, "ended") /\ NothingToLoseAt(p, "ended")
  BY DEF CommandAt, ComparedAt, NothingToLoseAt, BackupWindow
<1> QED
  BY <1>1, Moves DEF Steps

\* What a write may do to the others: raced says so when one of them is in its window.
LEMMA RacesFacts ==
  ASSUME NEW p \in Installers, Races(p), ~raced'
  PROVE  ~raced /\ \A q \in Installers \ {p} : ipc[q] \notin Window
BY Zenon DEF Races

LEMMA EveryoneFacts ==
  ASSUME Everyone_races, ~raced'
  PROVE  ~raced /\ \A q \in Installers : ipc[q] \notin Window
BY Zenon DEF Everyone_races

LEMMA PlanStep ==
  ASSUME InstallInv, NEW p \in Installers, Plan(p)
  PROVE  InstallInv'
<1>0. InstallTypes /\ cmd[p] \in CommandLines /\ codex \in Files /\ ipc[p] = "plan"
  BY DEF InstallInv, InstallTypes, Plan
<1>1. CASE Refusal(codex)
  BY <1>1, EndsInstall DEF Plan, Ended, EndedWith, Step, Quiet, system, others, InstallInv, InstallTypes
<1>2. CASE ~Refusal(codex)
  <2> DEFINE new == [previous |-> ReadText(codex), updated |-> Change(ReadText(codex), cmd[p])]
  <2>1. /\ change' = [change EXCEPT ![p] = new] /\ CodexCommand(cmd[p])
        /\ UNCHANGED <<codex, backup, task, data, raced, cmd, had, theirs, changes>>
    BY <1>0, <1>2, ReadFacts DEF Plan, Change, Quiet, system, others
  <2>2. PICK s \in {"ended", "confirm"} : ipc' = [ipc EXCEPT ![p] = s]
    BY <1>2 DEF Plan, Ended, EndedWith, Step
  <2>a. /\ ReadText(codex) \in Files /\ ~Refusal(ReadText(codex))
        /\ Content(ReadText(codex)).text = Content(codex).text
    BY <1>0, <1>2, ReadFacts
  <2>3. /\ Change(ReadText(codex), cmd[p]) \in Files
        /\ Content(Change(ReadText(codex), cmd[p])).text = Content(codex).text
    BY <1>0, <2>a, ChangeFacts
  <2> HIDE DEF new
  <2>4. new.previous = ReadText(codex) /\ new.updated = Change(ReadText(codex), cmd[p])
        /\ new \in [previous : Files, updated : Files]
    BY <1>0, <2>3, <2>a DEF new
  <2>5. /\ change'[p] = new /\ ipc'[p] = s
        /\ \A q \in Installers \ {p} : change'[q] = change[q] /\ ipc'[q] = ipc[q]
    BY <1>0, <2>1, <2>2 DEF InstallTypes
  <2>6. InstallTypes'
    BY <1>0, <2>1, <2>2, <2>4 DEF InstallTypes, Steps
  <2>7. CommandSteps'
    BY <2>1, <2>5 DEF InstallInv, CommandSteps, CommandAt, CodexCommand
  <2>8. AsPlanned'
    BY <2>a, <2>1, <2>4, <2>5 DEF InstallInv, AsPlanned
  <2>9. TextsAreOlder'
    BY <2>a, <2>1, <2>3, <2>4, <2>5 DEF InstallInv, TextsAreOlder, Older
  <2>10. ForeignSurvives'
    BY <2>1 DEF InstallInv, ForeignSurvives
  <2>11. ~raced' => Unraced'
    BY <2>1, <2>5 DEF InstallInv, Unraced, ComparedAt, NothingToLoseAt, BackupWindow
  <2> QED
    BY <2>6, <2>7, <2>8, <2>9, <2>10, <2>11 DEF InstallInv
<1> QED
  BY <1>1, <1>2

LEMMA BackupStep ==
  ASSUME InstallInv, NEW p \in Installers, Backup(p)
  PROVE  InstallInv'
<1>0. /\ InstallTypes /\ CommandSteps /\ AsPlanned /\ TextsAreOlder /\ ForeignSurvives
      /\ ~raced => Unraced
  BY DEF InstallInv
<1>1. /\ ipc[p] = "backup" /\ had' = [had EXCEPT ![p] = codex # Absent]
      /\ UNCHANGED <<codex, task, data, cmd, change, theirs, changes>>
  BY DEF Backup, others
<1>2. PICK s \in {"compare again", "ended"} :
        /\ ipc' = [ipc EXCEPT ![p] = s]
        /\ s = "ended" => UNCHANGED <<backup, raced>>
        /\ s = "compare again" =>
             /\ backup' = IF codex # Absent THEN Content(change[p].previous) ELSE backup
             /\ raced' = (raced \/ \E q \in Installers \ {p} : ipc[q] \in BackupWindow)
  BY DEF Backup, Ended, EndedWith, Step
<1>3. change[p].previous \in Files /\ Content(change[p].previous) \in Files
      /\ Content(Content(change[p].previous)) = Content(change[p].previous)
  BY <1>0, FileFacts DEF InstallTypes, Files
<1>4. had' \in [Installers -> BOOLEAN] /\ (~had'[p] => codex = Absent)
      /\ \A q \in Installers \ {p} : had'[q] = had[q]
  BY <1>0, <1>1, Zenon DEF InstallTypes
<1>5. had'[p] => codex # Absent
  BY <1>0, <1>1, Zenon DEF InstallTypes
<1>6. ipc'[p] = s /\ \A q \in Installers \ {p} : ipc'[q] = ipc[q]
  BY <1>0, <1>2 DEF InstallTypes
<1>7. InstallTypes'
  BY <1>0, <1>1, <1>2, <1>3, <1>4 DEF InstallTypes, Steps
<1>8. CommandSteps'
  BY <1>0, <1>1, <1>6 DEF CommandSteps, CommandAt
<1>9. AsPlanned'
  BY <1>0, <1>1, <1>6 DEF AsPlanned
<1>10. TextsAreOlder'
  BY <1>0, <1>1, <1>2, <1>3 DEF TextsAreOlder, Older
<1>11. ~raced' => ~raced
  BY <1>2, Zenon
<1>12. ForeignSurvives'
  BY <1>0, <1>1, <1>11 DEF ForeignSurvives
<1>13. ASSUME ~raced' PROVE Unraced'
  <2>1. s = "ended" \/ \A q \in Installers \ {p} : ipc[q] \notin BackupWindow
    BY <1>2, <1>13, Zenon
  <2>2. ASSUME NEW q \in Installers \ {p} PROVE ComparedAt(q, ipc[q])' /\ NothingToLoseAt(q, ipc[q])'
    BY ZenonT(40), <1>0, <1>1, <1>2, <1>4, <1>6, <1>11, <1>13, <2>1, <2>2 DEF Unraced, ComparedAt, NothingToLoseAt
  <2>3. ComparedAt(p, ipc[p])'
    BY <1>2, <1>5, <1>6, <1>1 DEF ComparedAt, BackupWindow
  <2>4. NothingToLoseAt(p, ipc[p])'
    BY <1>0, <1>1, <1>4, <1>6, <1>11, <1>13 DEF NothingToLoseAt, ForeignSurvives
  <2> QED
    BY <2>2, <2>3, <2>4 DEF Unraced
<1> QED
  BY <1>7, <1>8, <1>9, <1>10, <1>12, <1>13 DEF InstallInv

LEMMA ReplaceStep ==
  ASSUME InstallInv, NEW p \in Installers, Replace(p)
  PROVE  InstallInv'
<1>0. /\ InstallTypes /\ CommandSteps /\ AsPlanned /\ TextsAreOlder /\ ForeignSurvives
      /\ ~raced => Unraced
  BY DEF InstallInv
<1>1. CASE ipc' = [ipc EXCEPT ![p] = "ended"]
  BY <1>0, <1>1, EndsInstall DEF Replace, Step, others, InstallTypes
<1>2. CASE ipc' # [ipc EXCEPT ![p] = "ended"]
  <2>1. /\ ipc[p] = "replace" /\ codex' = change[p].updated /\ ipc' = [ipc EXCEPT ![p] = "validate"]
        /\ Races(p) /\ UNCHANGED <<backup, task, data, cmd, change, had, theirs, changes>>
    BY <1>2 DEF Replace, Ended, EndedWith, Step, others
  <2>2. /\ change[p].updated \in Files /\ CodexCommand(cmd[p]) /\ cmd[p] \in CommandLines
        /\ change[p].previous \in Files
    BY <1>0, <2>1 DEF InstallTypes, CommandSteps, CommandAt
  <2>3. Foreign(change[p].updated) = Foreign(change[p].previous)
    BY <1>0, <2>1, <2>2, ChangeFacts DEF AsPlanned
  <2>4. ipc'[p] = "validate" /\ \A q \in Installers \ {p} : ipc'[q] = ipc[q]
    BY <1>0, <2>1 DEF InstallTypes
  <2>5. InstallTypes' /\ CommandSteps' /\ AsPlanned' /\ TextsAreOlder'
    <3>1. InstallTypes'
      BY <1>0, <2>1, <2>2 DEF InstallTypes, Steps
    <3>2. CommandSteps'
      BY <1>0, <2>1, <2>4 DEF CommandSteps, CommandAt
    <3>3. AsPlanned'
      BY <1>0, <2>1, <2>4 DEF AsPlanned
    <3>4. TextsAreOlder'
      BY <1>0, <2>1 DEF TextsAreOlder, Older
    <3> QED
      BY <3>1, <3>2, <3>3, <3>4
  <2>6. ASSUME ~raced' PROVE ForeignSurvives' /\ Unraced'
    <3>1. ~raced /\ \A q \in Installers \ {p} : ipc[q] \notin Window
      BY <2>1, <2>6, RacesFacts
    <3>2. Foreign(codex) = Foreign(change[p].previous)
      <4>1. ReadText(codex) = change[p].previous /\ codex \in Files
        BY <1>0, <2>1, <3>1 DEF Unraced, ComparedAt, InstallTypes
      <4> QED
        BY <4>1, ReadFacts
    <3>3. ForeignSurvives'
      BY <1>0, <2>1, <2>3, <3>1, <3>2 DEF ForeignSurvives
    <3>4. ASSUME NEW q \in Installers \ {p} PROVE ComparedAt(q, ipc[q])' /\ NothingToLoseAt(q, ipc[q])'
      BY <1>0, <2>1, <2>4, <3>1 DEF Unraced, ComparedAt, NothingToLoseAt, Window
    <3>5. ComparedAt(p, ipc[p])' /\ NothingToLoseAt(p, ipc[p])'
      BY <1>0, <2>1, <2>4, <3>1 DEF Unraced, ComparedAt, NothingToLoseAt, BackupWindow
    <3> QED
      BY <3>3, <3>4, <3>5 DEF Unraced
  <2> QED
    BY <2>5, <2>6 DEF InstallInv, ForeignSurvives
<1> QED
  BY <1>1, <1>2

LEMMA RestoreStep ==
  ASSUME InstallInv, NEW p \in Installers, Restore(p)
  PROVE  InstallInv'
<1>0. /\ InstallTypes /\ CommandSteps /\ AsPlanned /\ TextsAreOlder /\ ForeignSurvives
      /\ ~raced => Unraced
  BY DEF InstallInv
<1>1. /\ ipc[p] = "restore" /\ ipc' = [ipc EXCEPT ![p] = "ended"] /\ Races(p)
      /\ UNCHANGED <<backup, task, data, cmd, change, had, theirs, changes>>
      /\ codex' = codex \/ codex' = IF had[p] THEN backup ELSE Absent
  BY DEF Restore, Ended, EndedWith, Step, others
<1>2. change[p].previous \in Files /\ Absent \in Files /\ backup \in Files
  BY <1>0 DEF InstallTypes, Files
<1>3. ipc'[p] = "ended" /\ \A q \in Installers \ {p} : ipc'[q] = ipc[q]
  BY <1>0, <1>1 DEF InstallTypes
<1>4. InstallTypes'
  BY <1>0, <1>1, <1>2 DEF InstallTypes, Steps
<1>5. CommandSteps'
  BY <1>0, <1>1, <1>3 DEF CommandSteps, CommandAt
<1>6. AsPlanned'
  BY <1>0, <1>1, <1>3 DEF AsPlanned
<1>7. TextsAreOlder'
  <2>1. Content(Absent).text = 0 /\ changes \in Nat
    BY <1>0, InstallNames DEF Content, Blank, InstallTypes
  <2>2. Older(codex')
    BY <1>0, <1>1, <2>1 DEF TextsAreOlder, Older
  <2> QED
    BY <1>0, <1>1, <2>2 DEF TextsAreOlder, Older
<1>8. ASSUME ~raced' PROVE ForeignSurvives' /\ Unraced'
  <2>1. ~raced /\ \A q \in Installers \ {p} : ipc[q] \notin Window
    BY <1>1, <1>8, RacesFacts
  <2>2. Foreign(codex') = Foreign(theirs.codex)
    <3>1. CASE codex' = codex
      BY <1>0, <2>1, <3>1 DEF ForeignSurvives
    <3>2. CASE codex' = Absent /\ ~had[p]
      BY <1>0, <1>1, <2>1, <3>2 DEF Unraced, NothingToLoseAt
    <3>3. CASE codex' = backup /\ had[p]
      <4>1. codex' = Content(change[p].previous)
        BY <1>0, <1>1, <2>1, <3>3 DEF Unraced, ComparedAt, BackupWindow
      <4>2. Foreign(codex') = Foreign(change[p].previous)
        BY <1>2, <4>1, FileFacts
      <4>3. codex = change[p].updated /\ CodexCommand(cmd[p])
        BY <1>0, <1>1, <2>1 DEF Unraced, ComparedAt, CommandSteps, CommandAt
      <4>4. cmd[p] \in CommandLines
        BY <1>0 DEF InstallTypes
      <4>5. Foreign(change[p].updated) = Foreign(change[p].previous)
        BY <1>0, <1>1, <1>2, <4>3, <4>4, ChangeFacts DEF AsPlanned
      <4> QED
        BY <1>0, <2>1, <4>2, <4>3, <4>5 DEF ForeignSurvives
    <3> QED
      BY <1>1, <3>1, <3>2, <3>3
  <2>3. ForeignSurvives'
    BY <1>0, <1>1, <2>1, <2>2 DEF ForeignSurvives
  <2>4. ASSUME NEW q \in Installers \ {p} PROVE ComparedAt(q, ipc[q])' /\ NothingToLoseAt(q, ipc[q])'
    BY <1>0, <1>1, <1>3, <2>1 DEF Unraced, ComparedAt, NothingToLoseAt, Window
  <2>5. ComparedAt(p, ipc[p])' /\ NothingToLoseAt(p, ipc[p])'
    BY <1>3 DEF ComparedAt, NothingToLoseAt, BackupWindow
  <2> QED
    BY <2>3, <2>4, <2>5 DEF Unraced
<1> QED
  BY <1>4, <1>5, <1>6, <1>7, <1>8 DEF InstallInv, ForeignSurvives

LEMMA TaskStep ==
  ASSUME InstallInv, NEW p \in Installers, DeleteTask(p) \/ RegisterTask(p)
  PROVE  InstallInv'
<1>0. /\ InstallTypes /\ CommandSteps /\ AsPlanned /\ TextsAreOlder /\ ForeignSurvives
      /\ ~raced => Unraced
  BY DEF InstallInv
<1>1. CASE ipc' = [ipc EXCEPT ![p] = "ended"]
  BY <1>0, <1>1, EndsInstall DEF DeleteTask, RegisterTask, Step, others, InstallTypes
<1>2. CASE ipc' # [ipc EXCEPT ![p] = "ended"]
  <2>1. PICK s \in {"compare", "registered"} :
          /\ ipc' = [ipc EXCEPT ![p] = s] /\ ipc[p] = IF s = "compare" THEN "delete" ELSE "register"
          /\ task' = IF s = "compare" THEN Absent ELSE cmd[p].version
    BY <1>2 DEF DeleteTask, RegisterTask, Ended, EndedWith, Step
  <2>2. Races(p) /\ UNCHANGED <<codex, backup, data, cmd, change, had, theirs, changes>>
    BY <1>2 DEF DeleteTask, RegisterTask, Ended, EndedWith, Step, others
  <2>3. cmd[p].version \in Versions /\ cmd[p] \in CommandLines
    BY <1>0, CommandFacts DEF InstallTypes
  <2>4. task' \in Tasks /\ task' # "unmanaged"
    BY <2>1, <2>3, InstallNames DEF Tasks
  <2>5. ipc'[p] = s /\ \A q \in Installers \ {p} : ipc'[q] = ipc[q]
    BY <1>0, <2>1 DEF InstallTypes
  <2>6. InstallTypes'
    BY <1>0, <2>1, <2>2, <2>4 DEF InstallTypes, Steps
  <2>7. CommandSteps'
    BY <1>0, <2>1, <2>2, <2>5 DEF CommandSteps, CommandAt, CodexCommand
  <2>8. AsPlanned'
    BY <1>0, <2>1, <2>2, <2>5 DEF AsPlanned
  <2>9. TextsAreOlder'
    BY <1>0, <2>2 DEF TextsAreOlder, Older
  <2>10. ASSUME ~raced' PROVE ForeignSurvives' /\ Unraced'
    <3>1. ~raced /\ \A q \in Installers \ {p} : ipc[q] \notin Window
      BY <2>2, <2>10, RacesFacts
    <3>2. task # "unmanaged"
      BY <1>0, <2>1, <3>1 DEF Unraced, ComparedAt
    <3>3. ForeignSurvives'
      BY <1>0, <2>2, <3>1, <3>2 DEF ForeignSurvives
    <3>4. ASSUME NEW q \in Installers \ {p} PROVE ComparedAt(q, ipc[q])' /\ NothingToLoseAt(q, ipc[q])'
      BY <1>0, <2>2, <2>5, <3>1 DEF Unraced, ComparedAt, NothingToLoseAt, Window
    <3>5. ComparedAt(p, ipc[p])' /\ NothingToLoseAt(p, ipc[p])'
      BY <2>1, <2>2, <2>5 DEF ComparedAt, NothingToLoseAt, BackupWindow
    <3> QED
      BY <3>3, <3>4, <3>5 DEF Unraced
  <2> QED
    BY <2>6, <2>7, <2>8, <2>9, <2>10 DEF InstallInv, ForeignSurvives
<1> QED
  BY <1>1, <1>2

LEMMA RewrittenFacts ==
  ASSUME InstallTypes, changes < MaxForeign, NEW f \in Rewritten
  PROVE  /\ f \in Files /\ Content(f).text <= changes + 1
         /\ f = Absent \/ Content(f).text = changes + 1
<1>1. CASE f = Absent
  BY <1>1, InstallNames DEF Files, Content, Blank, InstallTypes
<1>2. CASE f # Absent
  <2>1. PICK v \in BOOLEAN, e \in {Content(codex).entry, "unmarked", "ambiguous"} :
          f = [text |-> changes + 1, breaks |-> "crlf", valid |-> e = Content(codex).entry => v, entry |-> e]
    <3>1. f \in {[text |-> changes + 1, breaks |-> "crlf", valid |-> e = Content(codex).entry => v, entry |-> e] :
                    v \in BOOLEAN, e \in {Content(codex).entry, "unmarked", "ambiguous"}}
      BY <1>2 DEF Rewritten
    <3> QED
      BY <3>1
  <2>2. Content(codex).entry \in Entries
    BY FileFacts DEF InstallTypes, CodexFile
  <2>3. (e = Content(codex).entry => v) \in BOOLEAN
    BY Zenon
  <2>4. e \in Entries /\ changes + 1 \in 0..MaxForeign
    BY <2>2, InstallNames DEF Entries, InstallTypes
  <2>5. f \in Files
    <3>1. \A t \in 0..MaxForeign, b \in BOOLEAN, x \in Entries :
            [text |-> t, breaks |-> "crlf", valid |-> b, entry |-> x] \in CodexFile
      BY DEF CodexFile
    <3> QED
      BY <2>1, <2>3, <2>4, <3>1, Zenon DEF Files
  <2>6. f.text = changes + 1
    BY <2>1, Zenon
  <2>7. Content(f) = f
    BY <1>2, <2>5, FileFacts
  <2> QED
    BY <2>4, <2>5, <2>6, <2>7
<1> QED
  BY <1>1, <1>2

LEMMA EditStep ==
  ASSUME InstallInv, NEW f \in Rewritten, EditCodex(f)
  PROVE  InstallInv'
<1>0. /\ InstallTypes /\ CommandSteps /\ AsPlanned /\ TextsAreOlder /\ ForeignSurvives
      /\ ~raced => Unraced
  BY DEF InstallInv
<1>1. /\ codex' = f /\ theirs' = [theirs EXCEPT !.codex = f] /\ changes' = changes + 1
      /\ changes < MaxForeign /\ Everyone_races
      /\ UNCHANGED <<backup, task, data, ipc, cmd, change, had>>
  BY DEF EditCodex
<1>2. /\ f \in Files /\ Content(f).text <= changes + 1
      /\ f = Absent \/ Content(f).text = changes + 1
  BY <1>0, <1>1, RewrittenFacts
<1>3. theirs'.codex = f /\ theirs'.task = theirs.task /\ theirs' \in [codex : Files, task : Tasks]
  BY <1>0, <1>1, <1>2 DEF InstallTypes
<1>4. changes \in Nat /\ changes' \in 0..MaxForeign
  BY <1>0, <1>1, InstallNames DEF InstallTypes
<1>5. InstallTypes'
  BY <1>0, <1>1, <1>2, <1>3, <1>4 DEF InstallTypes
<1>6. CommandSteps' /\ AsPlanned'
  BY <1>0, <1>1 DEF CommandSteps, CommandAt, AsPlanned
<1>7. TextsAreOlder'
  <2>1. \A g \in Files : Content(g).text <= changes => Content(g).text <= changes'
    BY <1>1, <1>4, FileFacts
  <2>2. Older(codex)' /\ Older(theirs.codex)' /\ Older(backup)'
    BY <1>0, <1>1, <1>2, <1>3, <2>1 DEF TextsAreOlder, Older, InstallTypes
  <2>3. \A p \in Installers : Older(change[p].previous)' /\ Older(change[p].updated)'
    BY <1>0, <1>1, <2>1 DEF TextsAreOlder, Older, InstallTypes
  <2> QED
    BY <2>2, <2>3 DEF TextsAreOlder
<1>8. ASSUME ~raced' PROVE ForeignSurvives' /\ Unraced'
  <2>1. ~raced /\ \A q \in Installers : ipc[q] \notin Window
    BY <1>1, <1>8, EveryoneFacts
  <2>2. ForeignSurvives'
    BY <1>0, <1>1, <1>3, <2>1 DEF ForeignSurvives
  <2>3. ASSUME NEW q \in Installers PROVE ComparedAt(q, ipc[q])'
    BY <1>0, <1>1, <2>1 DEF Unraced, ComparedAt, Window
  <2>4. ASSUME NEW q \in Installers PROVE NothingToLoseAt(q, ipc[q])'
    <3>1. Content(change[q].previous).text <= changes /\ Content(change[q].previous).text \in Nat
      BY <1>0, FileFacts DEF TextsAreOlder, Older, InstallTypes
    <3>2. f = Absent \/ Content(f).text > Content(change[q].previous).text
      BY <1>2, <1>4, <3>1
    <3> QED
      BY <1>1, <1>3, <2>1, <3>2 DEF NothingToLoseAt, Window
  <2> QED
    BY <2>2, <2>3, <2>4 DEF Unraced
<1> QED
  BY <1>5, <1>6, <1>7, <1>8 DEF InstallInv, ForeignSurvives

LEMMA ChangeTaskStep ==
  ASSUME InstallInv, NEW t \in {Absent, "unmanaged"}, ChangeTask(t)
  PROVE  InstallInv'
<1>0. /\ InstallTypes /\ CommandSteps /\ AsPlanned /\ TextsAreOlder /\ ForeignSurvives
      /\ ~raced => Unraced
  BY DEF InstallInv
<1>1. /\ task' = t /\ theirs' = [theirs EXCEPT !.task = t] /\ changes' = changes + 1
      /\ changes < MaxForeign /\ Everyone_races
      /\ UNCHANGED <<codex, backup, data, ipc, cmd, change, had>>
  BY DEF ChangeTask
<1>2. theirs'.codex = theirs.codex /\ theirs'.task = t /\ theirs' \in [codex : Files, task : Tasks]
  BY <1>0, <1>1 DEF InstallTypes, Tasks
<1>3. changes \in Nat /\ changes' \in 0..MaxForeign
  BY <1>0, <1>1, InstallNames DEF InstallTypes
<1>4. InstallTypes'
  BY <1>0, <1>1, <1>2, <1>3 DEF InstallTypes, Tasks
<1>5. CommandSteps' /\ AsPlanned'
  BY <1>0, <1>1 DEF CommandSteps, CommandAt, AsPlanned
<1>6. TextsAreOlder'
  <2>1. \A g \in Files : Content(g).text <= changes => Content(g).text <= changes'
    BY <1>1, <1>3, FileFacts
  <2> QED
    BY <1>0, <1>1, <1>2, <2>1 DEF TextsAreOlder, Older, InstallTypes
<1>7. ASSUME ~raced' PROVE ForeignSurvives' /\ Unraced'
  <2>1. ~raced /\ \A q \in Installers : ipc[q] \notin Window
    BY <1>1, <1>7, EveryoneFacts
  <2>2. ForeignSurvives'
    BY <1>0, <1>1, <1>2, <2>1 DEF ForeignSurvives
  <2>3. ASSUME NEW q \in Installers PROVE ComparedAt(q, ipc[q])' /\ NothingToLoseAt(q, ipc[q])'
    BY <1>0, <1>1, <1>2, <2>1 DEF Unraced, ComparedAt, NothingToLoseAt, Window
  <2> QED
    BY <2>2, <2>3 DEF Unraced
<1> QED
  BY <1>4, <1>5, <1>6, <1>7 DEF InstallInv, ForeignSurvives

\* The steps that only look: where each goes, and what it found there.
LooksTo(p, s) ==
  \/ s = "confirm" /\ ipc[p] = "plan" /\ cmd[p].name = "broker-task"
  \/ s = "shutdown" /\ ipc[p] = "confirm" /\ cmd[p].name = "uninstall"
  \/ s = "inspect" /\ ipc[p] = "confirm" /\ cmd[p].name = "broker-task"
  \/ s = "inspect" /\ ipc[p] = "shutdown"
  \/ s = "compare" /\ ipc[p] = "confirm" /\ cmd[p].name \notin {"uninstall", "broker-task"}
  \/ s = "compare" /\ ipc[p] = "inspect" /\ cmd[p].name = "uninstall" /\ task = Absent
  \/ s = "delete" /\ ipc[p] = "inspect" /\ cmd[p].name = "uninstall" /\ task # "unmanaged"
  \/ s = "register" /\ ipc[p] = "inspect" /\ cmd[p].name = "broker-task" /\ task # "unmanaged"
  \/ s = "backup" /\ ipc[p] = "compare"
  \/ s = "rmtree" /\ ipc[p] \in {"compare", "validate"} /\ cmd[p].remove_data
  \/ s = "replace" /\ ipc[p] = "compare again" /\ Current(p)
  \/ s = "restore" /\ ipc[p] = "validate"

Looking(p) == \/ PlanFails(p) \/ PlanTask(p) \/ Confirm(p) \/ ShutdownBroker(p) \/ Compare(p) \/ CompareAgain(p)
              \/ Validate(p) \/ RemoveData(p) \/ Inspect(p) \/ Registered(p) \/ Killed(p)

LEMMA LooksFacts ==
  ASSUME NEW p \in Installers, Looking(p), ipc' # [ipc EXCEPT ![p] = "ended"]
  PROVE  /\ \E s \in Steps : ipc' = [ipc EXCEPT ![p] = s] /\ LooksTo(p, s)
         /\ UNCHANGED <<result, data>>
<1> USE DEF Step, Ended, EndedWith, Quiet, system, LooksTo
<1>1. CASE PlanTask(p)
  BY <1>1 DEF PlanTask, Steps
<1>2. CASE Confirm(p)
  BY <1>2 DEF Confirm, Steps
<1>3. CASE ShutdownBroker(p)
  BY <1>3 DEF ShutdownBroker, Steps
<1>4. CASE Compare(p)
  BY <1>4 DEF Compare, Steps
<1>5. CASE CompareAgain(p)
  BY <1>5 DEF CompareAgain, Steps
<1>6. CASE Validate(p)
  BY <1>6 DEF Validate, Steps
<1>7. CASE Inspect(p)
  BY <1>7 DEF Inspect, Steps
<1>8. CASE PlanFails(p) \/ RemoveData(p) \/ Registered(p) \/ Killed(p)
  BY <1>8 DEF PlanFails, RemoveData, Registered, Killed
<1> QED
  BY <1>1, <1>2, <1>3, <1>4, <1>5, <1>6, <1>7, <1>8 DEF Looking

LEMMA LookStep ==
  ASSUME InstallInv, NEW p \in Installers, Looking(p)
  PROVE  InstallInv'
<1> USE DEF Step, Ended, EndedWith, Quiet, system, others
<1>0. /\ InstallTypes /\ CommandSteps /\ AsPlanned /\ TextsAreOlder /\ ForeignSurvives
      /\ ~raced => Unraced
  BY DEF InstallInv
<1>1. /\ UNCHANGED <<codex, backup, task, cmd, change, had, raced, theirs, changes>>
      /\ data' \in {"kept", "partly", "removed"}
  BY <1>0 DEF Looking, PlanFails, PlanTask, Confirm, ShutdownBroker, Compare, CompareAgain, Validate,
     RemoveData, Inspect, Registered, Killed, Interrupted, InstallTypes
<1>2. CASE ipc' = [ipc EXCEPT ![p] = "ended"]
  BY <1>1, <1>2, EndsInstall
<1>3. CASE ipc' # [ipc EXCEPT ![p] = "ended"]
  <2>1. PICK s \in Steps : ipc' = [ipc EXCEPT ![p] = s] /\ LooksTo(p, s)
    BY <1>3, LooksFacts
  <2>2. CommandAt(p, ipc[p]) /\ cmd[p] \in CommandLines
    BY <1>0 DEF CommandSteps, InstallTypes
  <2>3. cmd[p].name \in {"codex-config", "remove", "broker-task", "update", "uninstall"}
    BY <2>2, CommandFacts
  <2>4. CommandAt(p, s)
    BY <2>1, <2>2, <2>3 DEF LooksTo, CommandAt, CodexCommand
  <2>5. s = "ended" \/ ipc[p] \notin {"plan", "ended"} \/ ~CodexCommand(cmd[p])
    BY <2>1 DEF LooksTo, CodexCommand
  <2>6. ASSUME ~raced PROVE ComparedAt(p, s) /\ NothingToLoseAt(p, s)
    <3>1. ComparedAt(p, ipc[p]) /\ NothingToLoseAt(p, ipc[p])
      BY <1>0, <2>6 DEF Unraced
    <3>2. CASE s = "replace"
      <4>1. /\ ipc[p] = "compare again" /\ ReadText(codex) = change[p].previous
            /\ Content(codex).text = Content(change[p].previous).text
        <5>1. ipc[p] = "compare again" /\ ReadText(codex) = change[p].previous
          BY <2>1, <3>2 DEF LooksTo, Current
        <5> QED
          BY <1>0, <5>1, ReadFacts DEF InstallTypes
      <4>2. Foreign(codex) = Foreign(theirs.codex)
        BY <1>0, <2>6 DEF ForeignSurvives
      <4>3. Content(codex).text = Content(theirs.codex).text /\ Content(codex).text \in Nat
        BY <1>0, <4>2, ForeignText, FileFacts DEF InstallTypes
      <4>4. NothingToLoseAt(p, s)
        <5>1. ~(Content(theirs.codex).text > Content(change[p].previous).text)
          <6> DEFINE x == Content(theirs.codex).text  y == Content(change[p].previous).text
          <6>1. x = y /\ x \in Nat
            BY <4>1, <4>3
          <6> HIDE DEF x, y
          <6>2. ~(x > y)
            BY <6>1
          <6> QED
            BY <6>2 DEF x, y
        <5>2. ~had[p] => Foreign(theirs.codex) = Foreign(Absent)
          <6> HIDE DEF Foreign
          <6> QED
            BY <3>1, <4>1, <5>1 DEF NothingToLoseAt
        <5> QED
          BY <3>2, <5>2 DEF NothingToLoseAt
      <4> QED
        BY <3>1, <3>2, <4>1, <4>4 DEF ComparedAt, BackupWindow
    <3>3. CASE s # "replace"
      BY <2>1, <3>1, <3>3, InstallNames DEF LooksTo, ComparedAt, NothingToLoseAt, BackupWindow
    <3> QED
      BY <3>2, <3>3
  <2> QED
    BY <1>1, <2>1, <2>4, <2>5, <2>6, Moves
<1> QED
  BY <1>2, <1>3

LEMMA InstallStep == InstallInv /\ [InstallNext]_installVars => InstallInv'
<1> SUFFICES ASSUME InstallInv, [InstallNext]_installVars PROVE InstallInv'
  OBVIOUS
<1>1. CASE UNCHANGED installVars
  BY <1>1 DEF installVars, InstallInv, InstallTypes, CommandSteps, CommandAt, AsPlanned, TextsAreOlder, Older,
     ForeignSurvives, Unraced, ComparedAt, NothingToLoseAt
<1>2. ASSUME NEW p \in Installers, run(p) PROVE InstallInv'
  BY <1>2, PlanStep, BackupStep, ReplaceStep, RestoreStep, TaskStep, LookStep DEF run, Looking
<1>3. ASSUME NEW f \in Rewritten, EditCodex(f) PROVE InstallInv'
  BY <1>3, EditStep
<1>4. ASSUME NEW t \in {Absent, "unmanaged"}, ChangeTask(t) PROVE InstallInv'
  BY <1>4, ChangeTaskStep
<1> QED
  BY <1>1, <1>2, <1>3, <1>4 DEF InstallNext

LEMMA InstallInvariant == InstallSpec => []InstallInv
BY InstallInitially, InstallStep, PTL DEF InstallSpec

\* serverops-install: without a change between its last comparison and its replacement, no
\* installation, removal, failure, kill or rollback, of any number of installers with any
\* command lines, loses what the user wrote or a task that is not managed.
THEOREM ForeignKept == InstallSpec => []ForeignSurvives
<1>1. InstallInv => ForeignSurvives
  BY DEF InstallInv
<1> QED
  BY InstallInvariant, <1>1, PTL

-----------------------------------------------------------------------------
(* The installation: what is printed of it *)

BeforeReplacing == {"plan", "confirm", "shutdown", "inspect", "delete", "compare", "backup",
                    "compare again", "replace"}

\* A file up to its line breaks, no file being an empty one.
AsRead(f) == Content(ReadText(f))

\* A content that p did not write: the user's, or what another installer planned.
NotOf(p, f) == \/ AsRead(f) = AsRead(theirs.codex)
               \/ \E q \in Installers \ {p} : ipc[q] # "plan" /\ AsRead(f) = AsRead(change[q].updated)

\* Where the file, and what an installer would put back, came from.
FileOrigin(p) == ipc[p] \in BeforeReplacing => NotOf(p, codex)
RollbackOrigin(p, q) ==
  ipc[q] \in {"replace", "validate", "restore"} =>
    /\ p # q /\ ipc[p] \in BeforeReplacing => NotOf(p, change[q].previous)
    /\ ~had[q] /\ (p = q \/ ipc[p] \in BeforeReplacing) => NotOf(p, Absent)
AbsenceOrigin(p, q) ==
  ipc[q] = "compare again" /\ ~had[q] =>
    \/ p = q \/ ipc[p] \in BeforeReplacing => NotOf(p, Absent)
    \/ Content(theirs.codex).text > Content(change[q].previous).text

OriginsKnown ==
  \A p, q \in Installers : FileOrigin(p) /\ RollbackOrigin(p, q) /\ AbsenceOrigin(p, q)

\* No managed task after an uninstallation removed it, unless another one registers it.
Registering(p) == \E q \in Installers \ {p} : cmd[q].name = "broker-task"
TaskIsGone ==
  \A p \in Installers :
    cmd[p].name = "uninstall" /\ ipc[p] \in {"compare", "backup", "compare again", "replace", "validate",
                                            "restore", "rmtree"} =>
      (Managed(task) => Registering(p))

\* What was printed of each command.
UpdatedIsTrue(p) ==
  LET r == result[p]  c == cmd[p] IN
  r.status = "updated" =>
    CASE c.name = "codex-config" -> _codex_config(r.codex, c.version) = "pass"
      [] c.name = "remove" -> _codex_config(r.codex, c.version) \in {"missing", "unmanaged"}
      [] c.name = "broker-task" -> r.task = c.version
      [] c.name = "update" -> r.task \in {Absent, c.version}
      [] OTHER -> /\ c.remove_data => r.data = "removed"
                  /\ Managed(r.task) => Registering(p)

RolledBackIsTrue(p) ==
  LET r == result[p] IN
  r.status = "rolled back" =>
    \/ AsRead(r.codex) \in {AsRead(change[p].previous), AsRead(r.theirs)}
    \/ \E q \in Installers \ {p} : ipc[q] # "plan" /\ AsRead(r.codex) = AsRead(change[q].updated)

Printed == \A p \in Installers : UpdatedIsTrue(p) /\ RolledBackIsTrue(p)

Endings == {"refused", "preview", "not applied", "failed", "changed", "updated", "rolled back",
              "rollback incomplete", "killed"}
Results == [status : {"none"}] \union
           [status : Endings, codex : Files, task : Tasks, data : {"kept", "partly", "removed"},
            theirs : Files]

ResultTypes ==
  /\ result \in [Installers -> Results]
  /\ \A p \in Installers : /\ ipc[p] # "ended" => result[p].status = "none"
                           /\ ipc[p] = "rmtree" => cmd[p].remove_data

DataRemoved == data # "kept" => \E p \in Installers : cmd[p].remove_data /\ ipc[p] = "ended"
                                                   /\ result[p].status \in {"updated", "failed", "killed"}

ReportInv == /\ ResultTypes /\ DataRemoved
             /\ ~raced => OriginsKnown /\ TaskIsGone /\ Printed

LEMMA AsReadFacts ==
  ASSUME NEW f \in Files
  PROVE  AsRead(ReadText(f)) = AsRead(f) /\ AsRead(Content(f)) = AsRead(f)
<1>1. ReadText(ReadText(f)) = ReadText(f)
  BY ReadFacts
<1>2. CASE f = Absent
  <2>1. Content(f) = Blank /\ Blank # Absent /\ Blank.breaks = "lf"
    BY <1>2, FileFacts, InstallNames DEF Content, Blank
  <2>2. ReadText(f) = f /\ ReadText(Blank) = Blank
    BY <1>2, <2>1 DEF ReadText
  <2>3. Content(Blank) = Blank
    BY <2>1 DEF Content
  <2> QED
    BY <1>1, <2>1, <2>2, <2>3 DEF AsRead
<1>3. CASE f # Absent
  BY <1>1, <1>3, FileFacts DEF AsRead
<1> QED
  BY <1>2, <1>3

LEMMA ReportInitially == InitInstall => ReportInv
<1> SUFFICES ASSUME InitInstall PROVE ReportInv
  OBVIOUS
<1>1. ResultTypes /\ DataRemoved
  BY DEF InitInstall, ResultTypes, DataRemoved, Results
<1>2. OriginsKnown
  BY DEF InitInstall, OriginsKnown, FileOrigin, RollbackOrigin, AbsenceOrigin, NotOf
<1>3. TaskIsGone /\ Printed
  BY DEF InitInstall, TaskIsGone, Printed, UpdatedIsTrue, RolledBackIsTrue
<1> QED
  BY <1>1, <1>2, <1>3 DEF ReportInv

\* What the check says of a file that a planned change made.
LEMMA CheckAccepts ==
  ASSUME NEW f \in Files, NEW c \in CommandLines, ~Refusal(f)
  PROVE  /\ c.name = "codex-config" => _codex_config(Change(f, c), c.version) = "pass"
         /\ c.name = "remove" => _codex_config(Change(f, c), c.version) \in {"missing", "unmanaged"}
<1>1. Content(f) \in CodexFile /\ Content(f).valid /\ Content(f).entry \notin {"unmarked", "ambiguous"}
  BY FileFacts DEF Refusal, Parses, Content, Blank
<1>2. ASSUME NEW v \in Versions \union {"none"}
      PROVE  LET g == [Content(f) EXCEPT !.entry = v] IN g # Absent /\ g.valid /\ g.entry = v
  <2> DEFINE g == [Content(f) EXCEPT !.entry = v]
  <2>1. g.valid = Content(f).valid /\ g.entry = v /\ g \in CodexFile
    BY <1>1 DEF CodexFile, Entries
  <2> HIDE DEF g
  <2>2. g # Absent
    BY <2>1, InstallNames
  <2>3. g.valid
    BY <1>1, <2>1, Zenon
  <2> QED
    BY <2>1, <2>2, <2>3 DEF g
<1>3. ASSUME c.name = "codex-config" PROVE _codex_config(Change(f, c), c.version) = "pass"
  <2>1. Change(f, c) = [Content(f) EXCEPT !.entry = c.version] /\ c.version \in Versions
    BY <1>3, CommandFacts DEF Change, Updated
  <2>2. Change(f, c) # Absent /\ Change(f, c).valid /\ Change(f, c).entry = c.version
    BY <1>2, <2>1
  <2> QED
    BY <2>1, <2>2, InstallNames DEF _codex_config
<1>4. ASSUME c.name = "remove" PROVE _codex_config(Change(f, c), c.version) \in {"missing", "unmanaged"}
  <2>1. CASE Content(f).entry = "none"
    <3>1. Change(f, c) = f
      BY <1>4, <2>1 DEF Change
    <3>2. f # Absent => f.valid /\ f.entry = "none"
      BY <1>1, <2>1 DEF Content
    <3> QED
      BY <3>1, <3>2 DEF _codex_config
  <2>2. CASE Content(f).entry # "none"
    <3>1. Change(f, c) = [Content(f) EXCEPT !.entry = "none", !.breaks = "stripped"]
      BY <1>4, <2>2 DEF Change, Updated
    <3>2. Change(f, c) # Absent /\ Change(f, c).valid /\ Change(f, c).entry = "none"
      <4> DEFINE g == [Content(f) EXCEPT !.entry = "none", !.breaks = "stripped"]
      <4>1. g.valid = Content(f).valid /\ g.entry = "none" /\ g \in CodexFile
        BY <1>1 DEF CodexFile, Entries
      <4> HIDE DEF g
      <4>2. g # Absent
        BY <4>1, InstallNames
      <4>3. g.valid
        BY <1>1, <4>1, Zenon
      <4> QED
        BY <3>1, <4>1, <4>2, <4>3 DEF g
    <3> QED
      BY <3>2 DEF _codex_config
  <2> QED
    BY <2>1, <2>2
<1> QED
  BY <1>3, <1>4

\* The check reads a file whatever its line breaks are.
LEMMA CheckReads ==
  ASSUME NEW f \in Files, NEW v
  PROVE  _codex_config(ReadText(f), v) = _codex_config(f, v)
<1>1. CASE f = Absent
  BY <1>1, ReadFacts
<1>2. CASE f # Absent
  <2>1. /\ ReadText(f) \in Files /\ ReadText(f) # Absent /\ Content(ReadText(f)).valid = Content(f).valid
        /\ Content(ReadText(f)).entry = Content(f).entry
    BY <1>2, ReadFacts
  <2>2. Content(f) = f /\ Content(ReadText(f)) = ReadText(f)
    BY <1>2, <2>1, FileFacts
  <2>3. ReadText(f).valid = f.valid /\ ReadText(f).entry = f.entry
    BY <2>1, <2>2
  <2> HIDE DEF ReadText
  <2> QED
    BY <1>2, <2>1, <2>3 DEF _codex_config
<1> QED
  BY <1>1, <1>2

\* How an installer ends: what it prints, and what it found.
UpdatedAt(p) ==
  \/ ipc[p] = "compare" /\ Current(p) /\ change[p].updated = change[p].previous /\ ~cmd[p].remove_data
  \/ ipc[p] = "validate" /\ ~cmd[p].remove_data
  \/ ipc[p] = "rmtree" /\ data' = "removed"
  \/ ipc[p] = "plan" /\ cmd[p].name = "update" /\ inspect_compatible(task, cmd[p].version)
  \/ ipc[p] = "registered"

Prints(p, status) ==
  /\ ipc' = [ipc EXCEPT ![p] = "ended"] /\ task' = task
  /\ \E d \in {data, data'} :
       /\ result' = [result EXCEPT ![p] = [status |-> status, codex |-> codex', task |-> task, data |-> d,
                                          theirs |-> theirs.codex]]
       /\ status = "updated" => d = data'
  /\ status = "updated" => UpdatedAt(p) /\ codex' = codex
  /\ status = "rolled back" => \/ ipc[p] \in {"backup", "compare again", "replace"} /\ codex' = codex
                               \/ ipc[p] = "restore" /\ codex' = IF had[p] THEN backup ELSE Absent
  /\ data' # data => ipc[p] = "rmtree" /\ status \in {"updated", "failed", "killed"}
  /\ data' \in {data, "partly", "removed"}

LEMMA EndsFacts ==
  ASSUME InstallTypes, NEW p \in Installers, run(p), ipc' = [ipc EXCEPT ![p] = "ended"]
  PROVE  \E status \in Endings : Prints(p, status)
<1>0. \A s : s # "ended" => ipc' # [ipc EXCEPT ![p] = s]
  BY DEF InstallTypes
<1> USE DEF Ended, EndedWith, Step, Quiet, system, Endings, Prints, UpdatedAt
<1>1. CASE Plan(p)
  BY <1>0, <1>1 DEF Plan
<1>2. CASE PlanFails(p) \/ Killed(p)
  BY <1>2 DEF PlanFails, Killed, Interrupted
<1>3. CASE PlanTask(p)
  BY <1>0, <1>3 DEF PlanTask
<1>4. CASE Confirm(p)
  BY <1>0, <1>4 DEF Confirm
<1>5. CASE ShutdownBroker(p)
  BY <1>0, <1>5 DEF ShutdownBroker
<1>6. CASE Compare(p)
  BY <1>0, <1>6 DEF Compare
<1>7. CASE Backup(p)
  BY <1>0, <1>7 DEF Backup
<1>8. CASE CompareAgain(p)
  BY <1>0, <1>8 DEF CompareAgain
<1>9. CASE Replace(p)
  BY <1>0, <1>9 DEF Replace
<1>10. CASE Validate(p)
  BY <1>0, <1>10 DEF Validate
<1>11. CASE Restore(p)
  BY <1>0, <1>11 DEF Restore
<1>12. CASE RemoveData(p)
  <2>1. CASE data' = "removed" /\ EndedWith(p, "updated", codex, "removed")
    BY <1>12, <2>1 DEF RemoveData
  <2>2. CASE data' \in {data, "partly"} /\ Ended(p, "failed")
    <3>1. \/ data' = data
          \/ data' = "partly"
      BY <2>2
    <3> QED
      BY <1>12, <2>2, <3>1 DEF RemoveData
  <2> QED
    BY <1>12, <2>1, <2>2 DEF RemoveData, Interrupted
<1>13. CASE Inspect(p)
  BY <1>0, <1>13 DEF Inspect
<1>14. CASE DeleteTask(p)
  BY <1>0, <1>14 DEF DeleteTask
<1>15. CASE RegisterTask(p)
  BY <1>0, <1>15 DEF RegisterTask
<1>16. CASE Registered(p)
  BY <1>0, <1>16 DEF Registered
<1> QED
  BY <1>1, <1>2, <1>3, <1>4, <1>5, <1>6, <1>7, <1>8, <1>9, <1>10, <1>11, <1>12, <1>13, <1>14, <1>15, <1>16
  DEF run

\* What every step of an installer leaves alone.
LEMMA RunFacts ==
  ASSUME InstallTypes, NEW p \in Installers, run(p)
  PROVE  /\ UNCHANGED <<cmd, theirs, changes>> /\ ipc[p] # "ended"
         /\ \A q \in Installers \ {p} : ipc'[q] = ipc[q] /\ change'[q] = change[q] /\ had'[q] = had[q]
         /\ ipc[p] # "plan" => change' = change
         /\ ipc'[p] # "plan" /\ (~raced' => ~raced)
         /\ \/ ipc' = [ipc EXCEPT ![p] = "ended"]
            \/ ipc'[p] # "ended" /\ UNCHANGED <<result, data>>
<1>1. UNCHANGED <<cmd, theirs, changes>> /\ ipc[p] # "ended"
  <2>1. CASE \/ Plan(p) \/ PlanFails(p) \/ PlanTask(p) \/ Confirm(p) \/ ShutdownBroker(p) \/ Compare(p)
    BY <2>1 DEF others, Plan, PlanFails, PlanTask, Confirm, ShutdownBroker, Compare
  <2>2. CASE \/ Backup(p) \/ CompareAgain(p) \/ Replace(p) \/ Validate(p) \/ Restore(p) \/ RemoveData(p)
    BY <2>2 DEF others, Backup, CompareAgain, Replace, Validate, Restore, RemoveData
  <2>3. CASE Inspect(p) \/ DeleteTask(p) \/ RegisterTask(p) \/ Registered(p) \/ Killed(p)
    BY <2>3 DEF others, Inspect, DeleteTask, RegisterTask, Registered, Killed
  <2> QED
    BY <2>1, <2>2, <2>3 DEF run
<1>2. PICK s \in Steps \ {"plan"} :
        /\ ipc' = [ipc EXCEPT ![p] = s]
        /\ s = "ended" \/ UNCHANGED <<result, data>>
  <2>1. CASE Looking(p) /\ ipc' # [ipc EXCEPT ![p] = "ended"]
    <3>1. PICK s \in Steps : ipc' = [ipc EXCEPT ![p] = s] /\ LooksTo(p, s)
      BY <2>1, LooksFacts
    <3>2. s # "plan"
      BY <3>1 DEF LooksTo
    <3>3. UNCHANGED <<result, data>>
      BY <2>1, LooksFacts
    <3> QED
      BY <3>1, <3>2, <3>3
  <2>2. CASE ipc' = [ipc EXCEPT ![p] = "ended"]
    BY <2>2 DEF Steps
  <2>3. CASE Plan(p) \/ Backup(p) \/ Replace(p)
    BY <2>3 DEF Plan, Backup, Replace, Step, Ended, EndedWith, Quiet, system, Steps
  <2>4. CASE Restore(p) \/ DeleteTask(p) \/ RegisterTask(p)
    BY <2>4 DEF Restore, DeleteTask, RegisterTask, Step, Ended, EndedWith, Quiet, system, Steps
  <2> QED
    BY <2>1, <2>2, <2>3, <2>4 DEF run, Looking
<1>3. \/ change' = change
      \/ ipc[p] = "plan" /\ \E c : change' = [change EXCEPT ![p] = c]
  <2>1. CASE Plan(p)
    <3>1. CASE change' = change
      BY <3>1
    <3>2. CASE change' # change
      BY <2>1, <3>2 DEF Plan, Ended, EndedWith
    <3> QED
      BY <3>1, <3>2
  <2>2. CASE ~Plan(p)
    BY <2>2 DEF run, PlanFails, PlanTask, Confirm, ShutdownBroker, Compare, Backup, CompareAgain, Replace,
       Validate, Restore, RemoveData, Inspect, DeleteTask, RegisterTask, Registered, Killed
  <2> QED
    BY <2>1, <2>2
<1>4. had' = had \/ \E b : had' = [had EXCEPT ![p] = b]
  <2>1. CASE Backup(p)
    BY <2>1, Zenon DEF Backup
  <2>2. CASE ~Backup(p)
    BY <2>2 DEF run, Plan, PlanFails, PlanTask, Confirm, ShutdownBroker, Compare, CompareAgain, Replace,
       Validate, Restore, RemoveData, Inspect, DeleteTask, RegisterTask, Registered, Killed
  <2> QED
    BY <2>1, <2>2
<1>5. ~raced' => ~raced
  <2>1. raced' = raced \/ Races(p) \/ Backup(p)
    BY DEF run, Plan, PlanFails, PlanTask, Confirm, ShutdownBroker, Compare, CompareAgain, Replace,
       Validate, Restore, RemoveData, Inspect, DeleteTask, RegisterTask, Registered, Killed, Quiet
  <2>2. Backup(p) /\ ~raced' => ~raced
    BY Zenon DEF Backup
  <2> QED
    BY <2>1, <2>2, RacesFacts
<1>6. /\ ipc'[p] = s /\ \A q \in Installers \ {p} : ipc'[q] = ipc[q]
      /\ \A q \in Installers \ {p} : change'[q] = change[q]
  BY <1>2, <1>3 DEF InstallTypes
<1>7. \A q \in Installers \ {p} : had'[q] = had[q]
  <2>1. CASE had' = had
    BY <2>1
  <2>2. CASE \E b : had' = [had EXCEPT ![p] = b]
    BY <2>2, Zenon DEF InstallTypes
  <2> QED
    BY <1>4, <2>1, <2>2
<1> QED
  BY <1>1, <1>2, <1>3, <1>5, <1>6, <1>7

LEMMA ResultStep ==
  ASSUME InstallInv, InstallInv', ReportInv, NEW p \in Installers, run(p)
  PROVE  ResultTypes' /\ DataRemoved'
<1>0. InstallTypes /\ InstallTypes' /\ ResultTypes /\ DataRemoved
  BY DEF InstallInv, ReportInv
<1>1. /\ cmd' = cmd /\ ipc[p] # "ended"
      /\ \A q \in Installers \ {p} : ipc'[q] = ipc[q]
  BY <1>0, RunFacts
<1>2. CASE ipc' = [ipc EXCEPT ![p] = "ended"]
  <2>1. PICK status \in Endings : Prints(p, status)
    BY <1>0, <1>2, EndsFacts
  <2>2. PICK r : /\ result' = [result EXCEPT ![p] = r] /\ r \in Results /\ r.status = status
    <3>1. /\ codex' \in Files /\ task \in Tasks /\ theirs.codex \in Files
          /\ \A d \in {data, data'} : d \in {"kept", "partly", "removed"}
      BY <1>0 DEF InstallTypes
    <3>2. PICK d \in {data, data'} :
            result' = [result EXCEPT ![p] = [status |-> status, codex |-> codex', task |-> task, data |-> d,
                                             theirs |-> theirs.codex]]
      BY <2>1 DEF Prints
    <3> DEFINE r == [status |-> status, codex |-> codex', task |-> task, data |-> d, theirs |-> theirs.codex]
    <3>3. r \in Results /\ r.status = status
      BY <3>1 DEF Results
    <3> QED
      BY <3>2, <3>3
  <2>3. /\ ipc'[p] = "ended" /\ result'[p] = r
        /\ \A q \in Installers \ {p} : result'[q] = result[q]
    BY <1>0, <1>2, <2>2 DEF InstallTypes, ResultTypes
  <2>4. ResultTypes'
    BY <1>0, <1>1, <2>2, <2>3 DEF ResultTypes
  <2>5. DataRemoved'
    <3>1. CASE data' = data
      BY <1>0, <1>1, <2>3, <3>1 DEF DataRemoved
    <3>2. CASE data' # data
      <4>1. ipc[p] = "rmtree" /\ status \in {"updated", "failed", "killed"}
        BY <2>1, <3>2 DEF Prints
      <4>2. cmd'[p].remove_data
        BY <1>0, <1>1, <4>1 DEF ResultTypes
      <4> QED
        BY <2>2, <2>3, <4>1, <4>2 DEF DataRemoved
    <3> QED
      BY <3>1, <3>2
  <2> QED
    BY <2>4, <2>5
<1>3. CASE ipc' # [ipc EXCEPT ![p] = "ended"]
  <2>1. result' = result /\ data' = data /\ ipc'[p] # "ended"
    BY <1>0, <1>3, RunFacts
  <2>2. ipc'[p] = "rmtree" => cmd[p].remove_data
    <3>1. CASE Looking(p)
      <4>1. PICK s \in Steps : ipc' = [ipc EXCEPT ![p] = s] /\ LooksTo(p, s)
        BY <1>3, <3>1, LooksFacts
      <4>2. ipc'[p] = s
        BY <1>0, <4>1 DEF InstallTypes
      <4> QED
        BY <4>1, <4>2 DEF LooksTo
    <3>2. CASE ~Looking(p)
      BY <1>0, <1>3, <3>2 DEF run, Looking, Plan, Backup, Replace, Restore, DeleteTask, RegisterTask, Step,
         Ended, EndedWith, InstallTypes
    <3> QED
      BY <3>1, <3>2
  <2>3. ResultTypes'
    <3>1. \A q \in Installers : ipc'[q] = "rmtree" => cmd'[q].remove_data
      BY <1>0, <1>1, <2>2 DEF ResultTypes
    <3> QED
      BY <1>0, <1>1, <2>1, <3>1 DEF ResultTypes
  <2>4. DataRemoved'
    BY <1>0, <1>1, <2>1 DEF DataRemoved
  <2> QED
    BY <2>3, <2>4
<1> QED
  BY <1>2, <1>3

LEMMA GoneStep ==
  ASSUME InstallInv, ReportInv, NEW p \in Installers, run(p), ~raced'
  PROVE  TaskIsGone'
<1>0. InstallTypes /\ CommandSteps /\ (~raced => TaskIsGone)
  BY DEF InstallInv, ReportInv
<1>1. /\ cmd' = cmd /\ TaskIsGone
      /\ \A q \in Installers \ {p} : ipc'[q] = ipc[q]
  BY <1>0, RunFacts
<1> DEFINE After == {"compare", "backup", "compare again", "replace", "validate", "restore", "rmtree"}
<1>2. CASE task' = task
  <2>1. cmd[p].name = "uninstall" /\ ipc'[p] \in After => ipc[p] \in After \/ task = Absent
    <3>1. CASE Looking(p) /\ ipc' # [ipc EXCEPT ![p] = "ended"]
      <4>1. PICK s \in Steps : ipc' = [ipc EXCEPT ![p] = s] /\ LooksTo(p, s)
        BY <3>1, LooksFacts
      <4>2. ipc'[p] = s
        BY <1>0, <4>1 DEF InstallTypes
      <4> QED
        BY <4>1, <4>2 DEF LooksTo
    <3>2. CASE ipc' = [ipc EXCEPT ![p] = "ended"]
      BY <1>0, <3>2 DEF InstallTypes
    <3>3. CASE ~Looking(p)
      BY <1>0, <3>3, <1>2 DEF run, Looking, Plan, Backup, Replace, Restore, DeleteTask, RegisterTask, Step,
         Ended, EndedWith, InstallTypes
    <3> QED
      BY <3>1, <3>2, <3>3
  <2> QED
    BY <1>1, <1>2, <2>1, InstallNames DEF TaskIsGone, Managed, Registering
<1>3. CASE task' # task
  <2>1. DeleteTask(p) \/ RegisterTask(p)
    BY <1>3 DEF run, Plan, PlanFails, PlanTask, Confirm, ShutdownBroker, Compare, Backup, CompareAgain, Replace,
       Validate, Restore, RemoveData, Inspect, Registered, Killed, Quiet, system
  <2>2. CASE task' = Absent
    BY <2>2, InstallNames DEF TaskIsGone, Managed
  <2>3. CASE task' # Absent
    <3>1. cmd[p].name = "broker-task"
      BY <1>0, <1>3, <2>1, <2>3 DEF DeleteTask, RegisterTask, CommandSteps, CommandAt
    <3> QED
      BY <1>1, <3>1 DEF TaskIsGone, Registering
  <2> QED
    BY <2>2, <2>3
<1> QED
  BY <1>2, <1>3

LEMMA PrintStep ==
  ASSUME InstallInv, InstallInv', ReportInv, NEW p \in Installers, run(p), ~raced'
  PROVE  Printed'
<1>0. InstallTypes /\ CommandSteps /\ AsPlanned /\ ResultTypes
  BY DEF InstallInv, ReportInv
<1>1. /\ cmd' = cmd /\ theirs' = theirs /\ ~raced /\ ipc[p] # "ended" /\ ipc'[p] # "plan"
      /\ \A q \in Installers \ {p} : ipc'[q] = ipc[q] /\ change'[q] = change[q]
      /\ ipc[p] # "plan" => change' = change
  BY <1>0, RunFacts
<1>2. OriginsKnown /\ TaskIsGone /\ Printed /\ Unraced
  BY <1>1 DEF ReportInv, InstallInv
<1>3. result[p].status = "none"
  BY <1>0, <1>1 DEF ResultTypes
<1>4. ASSUME NEW x \in Installers, result'[x] = result[x] PROVE UpdatedIsTrue(x)' /\ RolledBackIsTrue(x)'
  <2>1. UpdatedIsTrue(x) /\ RolledBackIsTrue(x)
    BY <1>2 DEF Printed
  <2>2. UpdatedIsTrue(x)'
    BY <1>1, <1>4, <2>1 DEF UpdatedIsTrue, Registering
  <2>3. RolledBackIsTrue(x)'
    <3>1. \A q \in Installers : ipc[q] # "plan" => ipc'[q] # "plan" /\ change'[q] = change[q]
      BY <1>1
    <3>2. result[x].status = "rolled back" => ipc[x] # "plan"
      BY <1>0, <1>3 DEF ResultTypes
    <3> QED
      BY <1>4, <2>1, <3>1, <3>2 DEF RolledBackIsTrue
  <2> QED
    BY <2>2, <2>3
<1>5. CASE ipc' # [ipc EXCEPT ![p] = "ended"]
  <2>1. result' = result
    BY <1>0, <1>5, RunFacts
  <2> QED
    BY <1>4, <2>1 DEF Printed
<1>6. CASE ipc' = [ipc EXCEPT ![p] = "ended"]
  <2>1. PICK status \in Endings : Prints(p, status)
    BY <1>0, <1>6, EndsFacts
  <2>2. PICK d : /\ result' = [result EXCEPT ![p] = [status |-> status, codex |-> codex', task |-> task,
                                                     data |-> d, theirs |-> theirs.codex]]
                 /\ status = "updated" => d = data'
    BY <2>1 DEF Prints
  <2>3. /\ \A x \in Installers \ {p} : result'[x] = result[x]
        /\ result'[p].status = status /\ result'[p].codex = codex' /\ result'[p].task = task
        /\ result'[p].data = d /\ result'[p].theirs = theirs.codex
    BY <1>0, <2>2 DEF ResultTypes
  <2>4. cmd[p] \in CommandLines /\ change[p].previous \in Files
    BY <1>0 DEF InstallTypes
  <2>5. ASSUME status = "updated" PROVE UpdatedIsTrue(p)'
    <3>0. codex' = codex /\ d = data' /\ UpdatedAt(p)
      BY <2>1, <2>2, <2>5 DEF Prints
    <3>1. cmd[p].name \in {"codex-config", "remove", "broker-task", "update", "uninstall"}
          /\ (cmd[p].remove_data => cmd[p].name = "uninstall") /\ CommandAt(p, ipc[p])
          /\ ComparedAt(p, ipc[p])
      BY <1>0, <1>2, <2>4, CommandFacts DEF CommandSteps, Unraced
    <3>2. CASE cmd[p].name \in {"codex-config", "remove"}
      <4>1. /\ codex = change[p].updated \/ ReadText(codex) = change[p].updated
            /\ ipc[p] \notin {"plan", "ended"} /\ CodexCommand(cmd[p])
        <5>1. ipc[p] # "rmtree"
          BY <1>0, <3>1, <3>2 DEF ResultTypes
        <5>2. ipc[p] \in {"compare", "validate"}
          BY <3>0, <3>1, <3>2, <5>1 DEF UpdatedAt, CommandAt, CodexCommand
        <5>3. ipc[p] = "compare" => ReadText(codex) = change[p].updated
          BY <3>0, <5>2 DEF UpdatedAt, Current
        <5>4. ipc[p] = "validate" => codex = change[p].updated
          BY <3>1 DEF ComparedAt
        <5> QED
          BY <3>2, <5>2, <5>3, <5>4 DEF CodexCommand
      <4>2. change[p].updated = Change(change[p].previous, cmd[p]) /\ ~Refusal(change[p].previous)
        BY <1>0, <4>1 DEF AsPlanned
      <4>a. /\ cmd[p].name = "codex-config" => _codex_config(change[p].updated, cmd[p].version) = "pass"
            /\ cmd[p].name = "remove" =>
                 _codex_config(change[p].updated, cmd[p].version) \in {"missing", "unmanaged"}
        BY <2>4, <4>2, CheckAccepts
      <4>3. /\ cmd[p].name = "codex-config" => _codex_config(codex, cmd[p].version) = "pass"
            /\ cmd[p].name = "remove" => _codex_config(codex, cmd[p].version) \in {"missing", "unmanaged"}
        <5>1. _codex_config(ReadText(codex), cmd[p].version) = _codex_config(codex, cmd[p].version)
          BY <1>0, CheckReads DEF InstallTypes
        <5> HIDE DEF _codex_config, ReadText
        <5> QED
          BY <4>1, <4>a, <5>1
      <4>4. _codex_config(result[p].codex, cmd[p].version)' = _codex_config(codex, cmd[p].version)
        BY <1>1, <2>3, <3>0 DEF _codex_config
      <4> QED
        BY <1>1, <3>2, <4>3, <4>4 DEF UpdatedIsTrue
    <3>3. CASE cmd[p].name = "broker-task"
      <4>1. ipc[p] = "registered"
        BY <1>0, <3>0, <3>1, <3>3 DEF UpdatedAt, CommandAt, CodexCommand, ResultTypes
      <4>2. task = cmd[p].version
        BY <3>1, <4>1 DEF ComparedAt
      <4> QED
        BY <1>1, <2>3, <3>3, <4>2 DEF UpdatedIsTrue
    <3>4. CASE cmd[p].name = "update"
      <4>1. ipc[p] = "plan"
        BY <1>0, <3>0, <3>1, <3>4 DEF UpdatedAt, CommandAt, CodexCommand, ResultTypes
      <4>2. task \in {Absent, cmd[p].version}
        BY <3>0, <4>1 DEF UpdatedAt, inspect_compatible
      <4> QED
        BY <1>1, <2>3, <3>4, <4>2 DEF UpdatedIsTrue
    <3>5. CASE cmd[p].name = "uninstall"
      <4>1. ipc[p] \in {"compare", "validate", "rmtree"} /\ (cmd[p].remove_data => data' = "removed")
        BY <3>0, <3>1, <3>5 DEF UpdatedAt, CommandAt
      <4>2. Managed(task) => Registering(p)
        BY <1>2, <3>5, <4>1 DEF TaskIsGone
      <4>3. Registering(p) => Registering(p)'
        BY <1>1 DEF Registering
      <4> QED
        BY <1>1, <2>3, <3>0, <3>5, <4>1, <4>2, <4>3 DEF UpdatedIsTrue, Managed
    <3> QED
      BY <3>1, <3>2, <3>3, <3>4, <3>5
  <2>6. ASSUME status = "rolled back" PROVE RolledBackIsTrue(p)'
    <3>1. ipc[p] # "plan" /\ change' = change
      BY <1>1, <2>1, <2>6 DEF Prints
    <3>2. AsRead(codex') = AsRead(change[p].previous) \/ NotOf(p, codex')
      <4>1. CASE ipc[p] \in {"backup", "compare again", "replace"} /\ codex' = codex
        BY <1>2, <4>1 DEF OriginsKnown, FileOrigin, BeforeReplacing
      <4>2. CASE ipc[p] = "restore" /\ had[p] /\ codex' = backup
        <5>1. codex' = Content(change[p].previous)
          BY <1>2, <4>2 DEF Unraced, ComparedAt, BackupWindow
        <5> QED
          BY <2>4, <5>1, AsReadFacts
      <4>3. CASE ipc[p] = "restore" /\ ~had[p] /\ codex' = Absent
        BY <1>2, <4>3 DEF OriginsKnown, RollbackOrigin
      <4> QED
        BY <2>1, <2>6, <4>1, <4>2, <4>3 DEF Prints
    <3> QED
      BY <1>1, <2>3, <3>1, <3>2 DEF RolledBackIsTrue, NotOf
  <2>7. UpdatedIsTrue(p)' /\ RolledBackIsTrue(p)'
    <3>1. UpdatedIsTrue(p)'
      BY <2>3, <2>5 DEF UpdatedIsTrue
    <3>2. RolledBackIsTrue(p)'
      BY <2>3, <2>6 DEF RolledBackIsTrue
    <3> QED
      BY <3>1, <3>2
  <2> QED
    BY <1>4, <2>3, <2>7 DEF Printed
<1> QED
  BY <1>5, <1>6

\* An installer whose step leaves the file alone.
LEMMA OriginsStay ==
  ASSUME InstallInv, ReportInv, NEW p \in Installers, run(p), ~raced', codex' = codex,
         \/ ipc' = [ipc EXCEPT ![p] = "ended"]
         \/ \E s \in Steps : /\ ipc' = [ipc EXCEPT ![p] = s] /\ had' = had
                             /\ s \in BeforeReplacing => ipc[p] \in BeforeReplacing
                             /\ s \notin {"compare again", "replace", "validate"}
                             /\ s = "restore" => ipc[p] = "validate"
  PROVE  OriginsKnown'
<1>0. InstallTypes
  BY DEF InstallInv
<1>1. /\ theirs' = theirs /\ ~raced /\ ipc'[p] # "plan"
      /\ \A q \in Installers \ {p} : ipc'[q] = ipc[q] /\ change'[q] = change[q] /\ had'[q] = had[q]
      /\ ipc[p] # "plan" => change' = change
  BY <1>0, RunFacts
<1>2. OriginsKnown
  BY <1>1 DEF ReportInv
<1>3. \A x \in Installers, f \in Files : NotOf(x, f) => NotOf(x, f)'
  BY <1>1 DEF NotOf
<1>4. /\ ipc'[p] \in BeforeReplacing => ipc[p] \in BeforeReplacing
      /\ ipc'[p] \notin {"compare again", "replace", "validate"}
      /\ ipc'[p] = "restore" => ipc[p] = "validate" /\ had'[p] = had[p]
  BY <1>0 DEF InstallTypes, BeforeReplacing
<1>5. codex \in Files /\ Absent \in Files /\ \A q \in Installers : change[q].previous \in Files
  BY <1>0 DEF InstallTypes, Files
<1>6. \A q \in Installers : ipc'[q] \in {"compare again", "replace", "validate", "restore"} =>
        change'[q] = change[q] /\ had'[q] = had[q]
  BY <1>1, <1>4
<1>7. ASSUME NEW x \in Installers PROVE FileOrigin(x)'
  BY <1>1, <1>2, <1>3, <1>4, <1>5 DEF OriginsKnown, FileOrigin
<1>8. ASSUME NEW x \in Installers, NEW q \in Installers PROVE RollbackOrigin(x, q)'
  <2>1. ASSUME ipc'[q] \in {"replace", "validate", "restore"} PROVE ipc[q] \in {"replace", "validate", "restore"}
    BY <1>1, <1>4, <2>1
  <2> QED
    BY <1>1, <1>2, <1>3, <1>4, <1>5, <1>6, <2>1 DEF OriginsKnown, RollbackOrigin
<1>9. ASSUME NEW x \in Installers, NEW q \in Installers PROVE AbsenceOrigin(x, q)'
  BY <1>1, <1>2, <1>3, <1>4, <1>5, <1>6 DEF OriginsKnown, AbsenceOrigin
<1> QED
  BY <1>7, <1>8, <1>9 DEF OriginsKnown

LEMMA OriginStep ==
  ASSUME InstallInv, ReportInv, NEW p \in Installers, run(p), ~raced'
  PROVE  OriginsKnown'
<1>0. InstallTypes /\ ForeignSurvives
  BY DEF InstallInv
<1>1. /\ theirs' = theirs /\ ~raced /\ ipc'[p] # "plan"
      /\ \A q \in Installers \ {p} : ipc'[q] = ipc[q] /\ change'[q] = change[q] /\ had'[q] = had[q]
      /\ ipc[p] # "plan" => change' = change
  BY <1>0, RunFacts
<1>2. OriginsKnown /\ Unraced
  BY <1>1 DEF ReportInv, InstallInv
<1>3. \A x \in Installers, f \in Files : NotOf(x, f) => NotOf(x, f)'
  BY <1>1 DEF NotOf
<1>4. codex \in Files /\ Absent \in Files /\ backup \in Files
      /\ \A q \in Installers : change[q].previous \in Files /\ change[q].updated \in Files
  BY <1>0 DEF InstallTypes, Files
<1>5. CASE Looking(p) /\ ipc' # [ipc EXCEPT ![p] = "ended"]
  <2>1. PICK s \in Steps : ipc' = [ipc EXCEPT ![p] = s] /\ LooksTo(p, s)
    BY <1>5, LooksFacts
  <2>2. codex' = codex /\ had' = had /\ change' = change
    BY <1>5 DEF Looking, PlanFails, PlanTask, Confirm, ShutdownBroker, Compare, CompareAgain, Validate,
       RemoveData, Inspect, Registered, Killed, Quiet, system
  <2>3. CASE s # "replace"
    <3>1. /\ s \in BeforeReplacing => ipc[p] \in BeforeReplacing
          /\ s \notin {"compare again", "replace", "validate"}
          /\ s = "restore" => ipc[p] = "validate"
      BY <2>1, <2>3 DEF LooksTo, BeforeReplacing
    <3> QED
      BY <2>1, <2>2, <3>1, OriginsStay
  <2>4. CASE s = "replace"
    <3>1. ipc[p] = "compare again" /\ ReadText(codex) = change[p].previous /\ ipc'[p] = "replace"
      BY <1>0, <2>1, <2>4 DEF LooksTo, Current, InstallTypes
    <3>a. /\ AsRead(change[p].previous) = AsRead(codex)
          /\ Content(change[p].previous).text = Content(codex).text
      BY <1>4, <3>1, AsReadFacts, ReadFacts
    <3>2. ~(Content(theirs.codex).text > Content(change[p].previous).text)
      <4> DEFINE x == Content(theirs.codex).text  y == Content(change[p].previous).text
      <4>1. Foreign(codex) = Foreign(theirs.codex) /\ theirs.codex \in Files
        BY <1>0, <1>1 DEF ForeignSurvives, InstallTypes
      <4>2. x = y /\ x \in Nat
        BY <1>4, <3>a, <4>1, ForeignText, FileFacts
      <4> HIDE DEF x, y
      <4>3. ~(x > y)
        BY <4>2
      <4> QED
        BY <4>3 DEF x, y
    <3>3. \A x \in Installers : ipc'[x] \in BeforeReplacing => ipc[x] \in BeforeReplacing
      BY <1>1, <3>1 DEF BeforeReplacing
    <3>4. ASSUME NEW x \in Installers PROVE FileOrigin(x)'
      BY <1>2, <1>3, <1>4, <2>2, <3>3 DEF OriginsKnown, FileOrigin
    <3>5. ASSUME NEW x \in Installers PROVE RollbackOrigin(x, p)'
      <4>1. ipc'[x] \in BeforeReplacing => NotOf(x, change[p].previous)'
        <5>1. ipc'[x] \in BeforeReplacing => NotOf(x, codex)
          BY <1>2, <3>3 DEF OriginsKnown, FileOrigin
        <5>2. NotOf(x, codex) => NotOf(x, change[p].previous)
          BY <3>a DEF NotOf
        <5> QED
          BY <1>3, <1>4, <2>2, <5>1, <5>2
      <4>2. ~had[p] /\ (x = p \/ ipc[x] \in BeforeReplacing) => NotOf(x, Absent)
        BY <1>2, <3>1, <3>2 DEF OriginsKnown, AbsenceOrigin
      <4>3. ~had'[p] /\ (x = p \/ ipc'[x] \in BeforeReplacing) => NotOf(x, Absent)'
        BY <1>3, <1>4, <2>2, <3>3, <4>2
      <4> QED
        BY <4>1, <4>3 DEF RollbackOrigin
    <3>6. ASSUME NEW x \in Installers, NEW q \in Installers \ {p} PROVE RollbackOrigin(x, q)'
      BY <1>1, <1>2, <1>3, <1>4, <2>2, <3>3 DEF OriginsKnown, RollbackOrigin
    <3>7. ASSUME NEW x \in Installers, NEW q \in Installers PROVE AbsenceOrigin(x, q)'
      BY <1>1, <1>2, <1>3, <1>4, <2>2, <3>1, <3>3 DEF OriginsKnown, AbsenceOrigin
    <3> QED
      BY <3>4, <3>5, <3>6, <3>7 DEF OriginsKnown
  <2> QED
    BY <2>3, <2>4
<1>6. CASE ipc' = [ipc EXCEPT ![p] = "ended"] /\ codex' = codex
  BY <1>6, OriginsStay
<1>7. CASE (Plan(p) \/ DeleteTask(p) \/ RegisterTask(p)) /\ ipc' # [ipc EXCEPT ![p] = "ended"]
  <2>1. /\ codex' = codex /\ had' = had
        /\ \E s \in {"confirm", "compare", "registered"} : ipc' = [ipc EXCEPT ![p] = s]
        /\ ipc[p] \in {"plan", "delete", "register"}
        /\ ipc[p] = "register" => ipc' = [ipc EXCEPT ![p] = "registered"]
    BY <1>7 DEF Plan, DeleteTask, RegisterTask, Step, Ended, EndedWith, Quiet, system
  <2>2. PICK s \in {"confirm", "compare", "registered"} : ipc' = [ipc EXCEPT ![p] = s]
    BY <2>1
  <2>3. s \in BeforeReplacing => ipc[p] \in BeforeReplacing
    <3>1. ipc[p] = "register" => s = "registered"
      BY <1>0, <2>1, <2>2 DEF InstallTypes
    <3> QED
      BY <2>1, <3>1 DEF BeforeReplacing
  <2> QED
    BY <2>1, <2>2, <2>3, OriginsStay DEF Steps
<1>8. CASE Backup(p) /\ ipc' # [ipc EXCEPT ![p] = "ended"]
  <2>1. /\ ipc[p] = "backup" /\ ipc' = [ipc EXCEPT ![p] = "compare again"] /\ codex' = codex
        /\ change' = change
    BY <1>8 DEF Backup, Step, Ended, EndedWith
  <2>2. ~had'[p] => codex = Absent
    <3>1. had' = [had EXCEPT ![p] = codex # Absent]
      BY <1>8 DEF Backup
    <3> QED
      BY <1>0, <3>1, Zenon DEF InstallTypes
  <2>3. ipc'[p] = "compare again"
    BY <1>0, <2>1 DEF InstallTypes
  <2>4. \A x \in Installers : ipc'[x] \in BeforeReplacing => ipc[x] \in BeforeReplacing
    BY <1>1, <2>1 DEF BeforeReplacing
  <2>5. ASSUME NEW x \in Installers PROVE FileOrigin(x)'
    BY <1>2, <1>3, <1>4, <2>1, <2>4 DEF OriginsKnown, FileOrigin
  <2>6. ASSUME NEW x \in Installers, NEW q \in Installers PROVE RollbackOrigin(x, q)'
    BY <1>1, <1>2, <1>3, <1>4, <2>1, <2>3, <2>4 DEF OriginsKnown, RollbackOrigin
  <2>7. ASSUME NEW x \in Installers PROVE AbsenceOrigin(x, p)'
    <3>1. x = p \/ ipc'[x] \in BeforeReplacing => ipc[x] \in BeforeReplacing
      BY <2>1, <2>4 DEF BeforeReplacing
    <3>2. ~had'[p] /\ (x = p \/ ipc'[x] \in BeforeReplacing) => NotOf(x, Absent)'
      BY <1>2, <1>3, <1>4, <2>1, <2>2, <2>4 DEF OriginsKnown, FileOrigin, BeforeReplacing
    <3> QED
      BY <3>2 DEF AbsenceOrigin
  <2>8. ASSUME NEW x \in Installers, NEW q \in Installers \ {p} PROVE AbsenceOrigin(x, q)'
    BY <1>1, <1>2, <1>3, <1>4, <2>1, <2>4 DEF OriginsKnown, AbsenceOrigin
  <2> QED
    BY <2>5, <2>6, <2>7, <2>8 DEF OriginsKnown
<1>9. CASE Replace(p) /\ ipc' # [ipc EXCEPT ![p] = "ended"]
  <2>1. /\ ipc[p] = "replace" /\ ipc' = [ipc EXCEPT ![p] = "validate"] /\ codex' = change[p].updated
        /\ change' = change /\ had' = had /\ Races(p)
    BY <1>9 DEF Replace, Step, Ended, EndedWith
  <2>2. ipc'[p] = "validate" /\ \A q \in Installers \ {p} : ipc[q] \notin Window
    BY <1>0, <2>1, RacesFacts DEF InstallTypes
  <2>3. ASSUME NEW x \in Installers PROVE FileOrigin(x)'
    <3>1. CASE x = p
      BY <2>2, <3>1 DEF FileOrigin, BeforeReplacing
    <3>2. CASE x # p
      BY <2>1, <2>2, <3>2 DEF FileOrigin, NotOf
    <3> QED
      BY <3>1, <3>2
  <2>4. \A x \in Installers : ipc'[x] \in BeforeReplacing => ipc[x] \in BeforeReplacing
    BY <1>1, <2>2 DEF BeforeReplacing
  <2>5. ASSUME NEW x \in Installers, NEW q \in Installers PROVE RollbackOrigin(x, q)'
    BY <1>1, <1>2, <1>3, <1>4, <2>1, <2>2, <2>4 DEF OriginsKnown, RollbackOrigin, Window
  <2>6. ASSUME NEW x \in Installers, NEW q \in Installers PROVE AbsenceOrigin(x, q)'
    BY <1>1, <1>2, <1>3, <1>4, <2>1, <2>2, <2>4 DEF OriginsKnown, AbsenceOrigin
  <2> QED
    BY <2>3, <2>5, <2>6 DEF OriginsKnown
<1>10. CASE Restore(p)
  <2>1. /\ ipc[p] = "restore" /\ ipc' = [ipc EXCEPT ![p] = "ended"] /\ change' = change /\ had' = had
        /\ Races(p)
        /\ codex' = codex \/ codex' = IF had[p] THEN backup ELSE Absent
    BY <1>10 DEF Restore, Step, Ended, EndedWith
  <2>2. ipc'[p] = "ended" /\ \A q \in Installers \ {p} : ipc[q] \notin Window
    BY <1>0, <2>1, RacesFacts DEF InstallTypes
  <2>3. ASSUME NEW x \in Installers PROVE FileOrigin(x)'
    <3>1. CASE codex' = codex
      BY <1>1, <1>2, <1>3, <1>4, <2>2, <3>1 DEF OriginsKnown, FileOrigin, BeforeReplacing
    <3>2. CASE codex' = Absent /\ ~had[p]
      BY <1>1, <1>2, <1>3, <1>4, <2>1, <2>2, <3>2 DEF OriginsKnown, FileOrigin, RollbackOrigin, BeforeReplacing
    <3>3. CASE codex' = backup /\ had[p]
      <4>1. AsRead(codex') = AsRead(change[p].previous)
        BY <1>2, <1>4, <2>1, <3>3, AsReadFacts DEF Unraced, ComparedAt, BackupWindow
      <4>2. x # p /\ ipc[x] \in BeforeReplacing => NotOf(x, change[p].previous)'
        BY <1>2, <1>3, <1>4, <2>1 DEF OriginsKnown, RollbackOrigin
      <4> QED
        BY <1>1, <2>1, <2>2, <4>1, <4>2 DEF FileOrigin, NotOf, BeforeReplacing
    <3> QED
      BY <2>1, <3>1, <3>2, <3>3
  <2>4. ASSUME NEW x \in Installers, NEW q \in Installers PROVE RollbackOrigin(x, q)'
    BY <1>1, <2>2 DEF RollbackOrigin, Window
  <2>5. \A x \in Installers : ipc'[x] \in BeforeReplacing => ipc[x] \in BeforeReplacing
    BY <1>1, <2>2 DEF BeforeReplacing
  <2>6. ASSUME NEW x \in Installers, NEW q \in Installers PROVE AbsenceOrigin(x, q)'
    BY <1>1, <1>2, <1>3, <1>4, <2>1, <2>2, <2>5 DEF OriginsKnown, AbsenceOrigin
  <2> QED
    BY <2>3, <2>4, <2>6 DEF OriginsKnown
<1>11. ipc' = [ipc EXCEPT ![p] = "ended"] => codex' = codex \/ Restore(p)
  BY <1>0 DEF run, Plan, PlanFails, PlanTask, Confirm, ShutdownBroker, Compare, Backup, CompareAgain, Replace,
     Validate, RemoveData, Inspect, DeleteTask, RegisterTask, Registered, Killed, Quiet, system, Step,
     InstallTypes
<1> QED
  BY <1>5, <1>6, <1>7, <1>8, <1>9, <1>10, <1>11 DEF run, Looking

LEMMA ForeignReportStep ==
  ASSUME InstallInv, ReportInv, UNCHANGED <<ipc, cmd, change, had, result, data>>, Everyone_races,
         \/ \E f \in Rewritten : EditCodex(f)
         \/ \E t \in {Absent, "unmanaged"} : ChangeTask(t)
  PROVE  ReportInv'
<1>0. InstallTypes /\ TextsAreOlder /\ ResultTypes /\ DataRemoved
  BY DEF InstallInv, ReportInv
<1>1. ResultTypes' /\ DataRemoved'
  BY <1>0 DEF ResultTypes, DataRemoved
<1>2. ASSUME ~raced' PROVE OriginsKnown' /\ TaskIsGone' /\ Printed'
  <2>1. ~raced /\ \A q \in Installers : ipc[q] \notin Window
    BY <1>2, EveryoneFacts
  <2>2. OriginsKnown /\ TaskIsGone /\ Printed
    BY <2>1 DEF ReportInv
  <2>3. Printed'
    BY ZenonT(40), <2>2 DEF Printed, UpdatedIsTrue, RolledBackIsTrue, Registering
  <2>4. CASE \E f \in Rewritten : EditCodex(f)
    <3>1. PICK f \in Rewritten : EditCodex(f)
      BY <2>4
    <3>2. codex' = f /\ theirs' = [theirs EXCEPT !.codex = f] /\ changes < MaxForeign /\ task' = task
      BY <3>1 DEF EditCodex
    <3>3. theirs'.codex = f /\ changes \in Nat
      BY <1>0, <3>2 DEF InstallTypes
    <3>4. f = Absent \/ Content(f).text = changes + 1
      BY <1>0, <3>2, RewrittenFacts
    <3>5. TaskIsGone'
      BY <2>2, <3>2 DEF TaskIsGone, Registering
    <3>6. ASSUME NEW x \in Installers PROVE FileOrigin(x)'
      BY <3>2, <3>3 DEF FileOrigin, NotOf
    <3>7. ASSUME NEW x \in Installers, NEW q \in Installers PROVE RollbackOrigin(x, q)'
      BY <2>1 DEF RollbackOrigin, Window
    <3>8. ASSUME NEW x \in Installers, NEW q \in Installers PROVE AbsenceOrigin(x, q)'
      <4>1. Content(change[q].previous).text <= changes /\ Content(change[q].previous).text \in Nat
        BY <1>0, FileFacts DEF TextsAreOlder, Older, InstallTypes
      <4>2. f = Absent \/ Content(f).text > Content(change[q].previous).text
        BY <3>3, <3>4, <4>1
      <4> QED
        BY <3>3, <4>2 DEF AbsenceOrigin, NotOf
    <3> QED
      BY <2>3, <3>5, <3>6, <3>7, <3>8 DEF OriginsKnown
  <2>5. CASE \E t \in {Absent, "unmanaged"} : ChangeTask(t)
    <3>1. PICK t \in {Absent, "unmanaged"} : ChangeTask(t)
      BY <2>5
    <3>2. codex' = codex /\ theirs' = [theirs EXCEPT !.task = t] /\ task' = t
      BY <3>1 DEF ChangeTask
    <3>3. theirs'.codex = theirs.codex
      BY <1>0, <3>2 DEF InstallTypes
    <3>4. TaskIsGone'
      BY <3>2, InstallNames DEF TaskIsGone, Managed
    <3>5. \A x \in Installers : \A f : NotOf(x, f) => NotOf(x, f)'
      BY <3>3 DEF NotOf
    <3>6. OriginsKnown'
      BY <2>2, <3>2, <3>3, <3>5 DEF OriginsKnown, FileOrigin, RollbackOrigin, AbsenceOrigin
    <3> QED
      BY <2>3, <3>4, <3>6
  <2> QED
    BY <2>4, <2>5
<1> QED
  BY <1>1, <1>2 DEF ReportInv

LEMMA ReportStep == InstallInv /\ InstallInv' /\ ReportInv /\ [InstallNext]_installVars => ReportInv'
<1> SUFFICES ASSUME InstallInv, InstallInv', ReportInv, [InstallNext]_installVars PROVE ReportInv'
  OBVIOUS
<1>1. CASE UNCHANGED installVars
  <2>1. UNCHANGED <<codex, task, data, ipc, cmd, change, had, result, raced, theirs>>
    BY <1>1 DEF installVars
  <2>2. ResultTypes' /\ DataRemoved'
    BY <2>1 DEF ReportInv, ResultTypes, DataRemoved
  <2>3. ~raced' => OriginsKnown' /\ TaskIsGone'
    <3>1. \A x \in Installers : \A f : NotOf(x, f) => NotOf(x, f)'
      BY <2>1 DEF NotOf
    <3>2. ~raced' => OriginsKnown'
      BY <2>1, <3>1 DEF ReportInv, OriginsKnown, FileOrigin, RollbackOrigin, AbsenceOrigin
    <3>3. ~raced' => TaskIsGone'
      BY <2>1 DEF ReportInv, TaskIsGone, Registering
    <3> QED
      BY <3>2, <3>3
  <2>4. ~raced' => Printed'
    BY ZenonT(40), <2>1 DEF ReportInv, Printed, UpdatedIsTrue, RolledBackIsTrue, Registering
  <2> QED
    BY <2>2, <2>3, <2>4 DEF ReportInv
<1>2. ASSUME NEW p \in Installers, run(p) PROVE ReportInv'
  BY <1>2, ResultStep, OriginStep, GoneStep, PrintStep DEF ReportInv
<1>3. ASSUME NEW f \in Rewritten, EditCodex(f) PROVE ReportInv'
  BY <1>3, ForeignReportStep DEF EditCodex
<1>4. ASSUME NEW t \in {Absent, "unmanaged"}, ChangeTask(t) PROVE ReportInv'
  BY <1>4, ForeignReportStep DEF ChangeTask
<1> QED
  BY <1>1, <1>2, <1>3, <1>4 DEF InstallNext

\* serverops-install: what any number of installers print, of any command lines, was so when
\* they printed it, rollbacks of failed replacements and concurrent installations included, and
\* only an uninstallation that got that far has removed data.
THEOREM InstallersTellTheTruth == InstallSpec => []InstallerReportsAreTrue
<1>1. InstallInv /\ ReportInv => InstallerReportsAreTrue
  <2> SUFFICES ASSUME InstallInv, ReportInv PROVE InstallerReportsAreTrue
    OBVIOUS
  <2>1. ASSUME ~raced, NEW p \in Installers, result[p].status = "rolled back"
        PROVE  \E f \in {change[p].previous, result[p].theirs}
                    \union {change[q].updated : q \in Installers \ {p}} :
                 AsRead(result[p].codex) = AsRead(f)
    <3>1. RolledBackIsTrue(p)
      BY <2>1 DEF ReportInv, Printed
    <3> QED
      BY <2>1, <3>1 DEF RolledBackIsTrue
  <2>2. \A p \in Installers : ~raced => UpdatedIsTrue(p)
    BY DEF ReportInv, Printed
  <2>3. DataRemoved
    BY DEF ReportInv
  <2> QED
    BY <2>1, <2>2, <2>3 DEF InstallerReportsAreTrue, UpdatedIsTrue, Registering, DataRemoved, AsRead
<1>2. InstallSpec => []ReportInv
  BY InstallInvariant, ReportInitially, ReportStep, PTL DEF InstallSpec
<1> QED
  BY InstallInvariant, <1>1, <1>2, PTL

-----------------------------------------------------------------------------
(* The audit log: what the inductive invariant says *)

Writing == {"write", "rest", "secure"}
Recording == {"record", "lock"} \union Writing
LogEvents == [by : Callers, n : Nat, status : {"started", "completed", "failed"}]
LogPieces == [event : LogEvents, part : {"head", "tail"}]
Outcomes == {"completed", "failed"}
AnswerTypes == [by : Callers, n : Nat, kind : Kinds, outcome : Outcomes, logged : {"yes", "no", "unsaid"}]

AuditTypes ==
  /\ log \in Seq(LogPieces) /\ apc \in [Callers -> APc] /\ calls \in [Callers -> Nat]
  /\ kind \in [Callers -> Kinds] /\ outcome \in [Callers -> {"none"} \union Outcomes]
  /\ event \in [Callers -> LogEvents] /\ logged \in [Callers -> BOOLEAN]
  /\ answers \subseteq AnswerTypes /\ auditFaults \in Nat

\* .audit.lock excludes the other writers.
OneWriter ==
  /\ \A c \in Callers : apc[c] \in Writing <=> c \in holders
  /\ \A c, d \in holders : c = d
  /\ holders \subseteq Callers

\* Where a call stands determines the event it records.
Status(c) == IF outcome[c] = "none" THEN "started" ELSE outcome[c]
CallFollows(c) ==
  /\ apc[c] \in Recording => event[c] = Event(c, calls[c], Status(c))
  /\ apc[c] \in Recording /\ outcome[c] = "none" => kind[c] = "attempt"
  /\ apc[c] = "operation" => outcome[c] = "none"
  /\ apc[c] = "answer" => outcome[c] # "none"

\* What the log holds of a call that is under way.
OfCall(i, c) == log[i].event.by = c /\ log[i].event.n = calls[c]
LogFollows(c) ==
  \A i \in 1..Len(log) :
    /\ log[i].event.by = c => log[i].event.n <= calls[c]
    /\ OfCall(i, c) /\ apc[c] \notin {"idle", "dead"} =>
         \/ log[i].event.status = "started" /\ kind[c] = "attempt"
         \/ log[i].event.status = outcome[c]
    /\ apc[c] \in {"record", "lock", "write"} => log[i].event # event[c]
    /\ apc[c] = "rest" /\ log[i].event = event[c] => i = Len(log)

LastIsHead(c) == apc[c] = "rest" => Len(log) > 0 /\ log[Len(log)] = Piece(event[c], "head")

Unrepeated == \A i, j \in 1..Len(log) : log[i] = log[j] => i = j
SameCall(i, j) == log[i].event.by = log[j].event.by /\ log[i].event.n = log[j].event.n
StartedFirst ==
  \A i, j \in 1..Len(log) :
    SameCall(i, j) /\ log[i].event.status = "started" /\ log[j].event.status # "started" => i < j

\* What logged says of the events of a call.
InLog(e) == \E i \in 1..Len(log) : Complete(i) /\ log[i].event = e
Begun(c) == apc[c] \in {"operation", "answer"} \/ (apc[c] \in Recording /\ outcome[c] # "none")
LoggedIsWhole(c) ==
  /\ apc[c] = "secure" => InLog(event[c])
  /\ logged[c] /\ kind[c] = "attempt" /\ Begun(c) => InLog(Event(c, calls[c], "started"))
  /\ logged[c] /\ apc[c] = "answer" /\ outcome[c] = "completed" => InLog(Event(c, calls[c], "completed"))

AnsweredIsLogged ==
  \A a \in answers :
    /\ a.n <= calls[a.by] /\ (a.n = calls[a.by] => apc[a.by] = "idle")
    /\ a.logged = "yes" => \A s \in Statuses(a) : InLog(Event(a.by, a.n, s))
    /\ \A i \in 1..Len(log) : log[i].event.by = a.by /\ log[i].event.n = a.n =>
         log[i].event.status \in Statuses(a)

TornLines == {i \in 1..Len(log) : Torn(i)}
FaultsTear == IsFiniteSet(TornLines) /\ Cardinality(TornLines) <= auditFaults

Caller(c) == CallFollows(c) /\ LogFollows(c) /\ LastIsHead(c) /\ LoggedIsWhole(c)

AuditInv == /\ AuditTypes /\ OneWriter /\ (\A c \in Callers : Caller(c)) /\ Unrepeated /\ StartedFirst
            /\ AnsweredIsLogged /\ FaultsTear

LEMMA AuditInitially == InitAudit => AuditInv
<1> SUFFICES ASSUME InitAudit PROVE AuditInv
  OBVIOUS
<1>1. AuditTypes
  <2>1. log = <<>> /\ <<>> \in Seq(LogPieces)
    BY DEF InitAudit
  <2>2. logged \in [Callers -> BOOLEAN]
    BY Zenon DEF InitAudit
  <2> QED
    BY <2>1, <2>2 DEF InitAudit, AuditTypes, APc, Kinds, LogEvents, Event
<1>2. OneWriter
  BY DEF InitAudit, OneWriter, Writing
<1>3. 1..Len(log) = {}
  BY DEF InitAudit
<1>4. ASSUME NEW c \in Callers PROVE Caller(c)
  <2>1. apc[c] = "idle"
    BY DEF InitAudit
  <2> QED
    BY <1>3, <2>1 DEF Caller, CallFollows, LogFollows, LastIsHead, LoggedIsWhole, Begun, Recording, Writing
<1>5. Unrepeated /\ StartedFirst
  BY <1>3 DEF Unrepeated, StartedFirst
<1>6. AnsweredIsLogged
  BY DEF InitAudit, AnsweredIsLogged
<1>7. FaultsTear
  <2>1. TornLines = {} /\ auditFaults = 0
    BY <1>3 DEF TornLines, InitAudit
  <2> QED
    BY <2>1, FS_EmptySet DEF FaultsTear
<1> QED
  BY <1>1, <1>2, <1>4, <1>5, <1>6, <1>7 DEF AuditInv

\* What the other processes keep through a step of c.
OthersKeep(c) ==
  \A d \in Callers \ {c} :
    /\ apc'[d] = apc[d] /\ calls'[d] = calls[d] /\ kind'[d] = kind[d] /\ outcome'[d] = outcome[d]
    /\ event'[d] = event[d] /\ logged'[d] = logged[d]

LEMMA PieceFacts ==
  ASSUME AuditTypes, NEW i \in 1..Len(log)
  PROVE  log[i] \in LogPieces /\ log[i].event \in LogEvents /\ Len(log) \in Nat
<1>1. log[i] \in LogPieces /\ Len(log) \in Nat
  BY DEF AuditTypes
<1> QED
  BY <1>1 DEF LogPieces

\* A step that writes nothing.
LEMMA StayStep ==
  ASSUME AuditInv, NEW c \in Callers, log' = log, OthersKeep(c), AuditTypes', OneWriter', Caller(c)',
         AnsweredIsLogged', apc'[c] # "rest", auditFaults' \in {auditFaults, auditFaults + 1},
         apc[c] = "rest" => auditFaults' = auditFaults + 1
  PROVE  AuditInv'
<1>0. AuditTypes /\ OneWriter /\ Unrepeated /\ StartedFirst /\ FaultsTear
  BY DEF AuditInv
<1>1. \A e : InLog(e) <=> InLog(e)'
  BY DEF InLog, Complete
<1>2. ASSUME NEW d \in Callers \ {c} PROVE Caller(d)'
  <2>1. Caller(d)
    BY DEF AuditInv
  <2>2. CallFollows(d)'
    BY <2>1 DEF OthersKeep, Caller, CallFollows, Status
  <2>3. LogFollows(d)'
    BY <2>1 DEF OthersKeep, Caller, LogFollows, OfCall
  <2>4. LastIsHead(d)'
    BY <2>1 DEF OthersKeep, Caller, LastIsHead
  <2>5. LoggedIsWhole(d)'
    <3>1. Begun(d)' <=> Begun(d)
      BY DEF OthersKeep, Begun
    <3>2. logged'[d] = logged[d] /\ apc'[d] = apc[d] /\ calls'[d] = calls[d] /\ kind'[d] = kind[d]
          /\ outcome'[d] = outcome[d] /\ event'[d] = event[d]
      BY DEF OthersKeep
    <3> QED
      BY <1>1, <2>1, <3>1, <3>2 DEF Caller, LoggedIsWhole
  <2> QED
    BY <2>2, <2>3, <2>4, <2>5 DEF Caller
<1>3. Unrepeated' /\ StartedFirst'
  BY <1>0 DEF Unrepeated, StartedFirst, SameCall
<1>4. FaultsTear'
  <2>1. Len(log) \in Nat /\ Cardinality(TornLines) \in Nat /\ auditFaults \in Nat
    BY <1>0, FS_CardinalityType DEF FaultsTear, AuditTypes
  <2>2. \A i \in 1..Len(log) : log[i].event.by \in Callers
    BY <1>0, PieceFacts DEF LogEvents
  <2>3. CASE apc[c] # "rest"
    <3>1. \A i \in 1..Len(log) : Torn(i)' <=> Torn(i)
      BY <2>2, <2>3 DEF Torn, InWriting, Complete, OthersKeep
    <3>2. TornLines' = TornLines
      BY <3>1 DEF TornLines
    <3> QED
      BY <1>0, <2>1, <3>2 DEF FaultsTear
  <2>4. CASE apc[c] = "rest"
    <3>1. \A i \in 1..Len(log) : Torn(i)' => Torn(i) \/ i = Len(log)
      BY <2>2 DEF Torn, InWriting, Complete, OthersKeep
    <3>2. TornLines' \subseteq TornLines \union {Len(log)}
      BY <3>1 DEF TornLines
    <3> DEFINE more == TornLines \union {Len(log)}
    <3>3. IsFiniteSet(more) /\ Cardinality(more) <= Cardinality(TornLines) + 1 /\ Cardinality(more) \in Nat
      <4>1. IsFiniteSet(TornLines)
        BY <1>0 DEF FaultsTear
      <4>2. IsFiniteSet(more) /\ Cardinality(more) = IF Len(log) \in TornLines THEN Cardinality(TornLines)
                                                     ELSE Cardinality(TornLines) + 1
        BY <4>1, FS_AddElement
      <4> QED
        BY <2>1, <4>2
    <3> HIDE DEF more
    <3>4. IsFiniteSet(TornLines') /\ Cardinality(TornLines') <= Cardinality(more)
      BY <3>2, <3>3, FS_Subset DEF more
    <3>5. Cardinality(TornLines') \in Nat
      BY <3>4, FS_CardinalityType
    <3>6. Cardinality(TornLines') <= auditFaults'
      BY <1>0, <2>1, <2>4, <3>3, <3>4, <3>5 DEF FaultsTear
    <3> QED
      BY <3>4, <3>6 DEF FaultsTear
  <2> QED
    BY <2>3, <2>4
<1> QED
  BY <1>2, <1>3, <1>4 DEF AuditInv

\* A step that appends the next piece of a line.
LEMMA AppendStep ==
  ASSUME AuditInv, NEW c \in Callers, NEW part \in {"head", "tail"}, OthersKeep(c),
         apc[c] = IF part = "head" THEN "write" ELSE "rest",
         log' = Append(log, Piece(event[c], part)), UNCHANGED callVars,
         AuditTypes', OneWriter', CallFollows(c)',
         IF part = "head" THEN apc'[c] = "rest" ELSE apc'[c] \in {"secure", "operation", "answer"},
         logged'[c] => logged[c], apc'[c] \in {"operation", "answer"} => ~logged'[c],
         auditFaults' \in {auditFaults, auditFaults + 1}
  PROVE  AuditInv'
<1>0. AuditTypes /\ OneWriter /\ Unrepeated /\ StartedFirst /\ FaultsTear /\ AnsweredIsLogged /\ Caller(c)
  BY  DEF AuditInv
<1>a. PICK n \in Nat : n = Len(log)
  BY <1>0 DEF AuditTypes
<1> DEFINE new == Piece(event[c], part)
<1>1. /\ n \in Nat /\ Len(log') = n + 1 /\ log'[n + 1] = new
      /\ \A i \in 1..n : log'[i] = log[i]
  BY <1>0, <1>a DEF AuditTypes
<1>2. new.event = event[c] /\ new.part = part
  BY  DEF Piece
<1>3. /\ event[c] = Event(c, calls[c], Status(c)) /\ calls[c] \in Nat
      /\ event[c].by = c /\ event[c].n = calls[c] /\ event[c].status = Status(c)
  BY <1>0 DEF Caller, CallFollows, Recording, Writing, Event, AuditTypes
<1>4. \A d \in Callers \ {c} : apc[d] \notin Writing
  BY <1>0 DEF OneWriter, Writing
<1>5. UNCHANGED <<calls, kind, outcome, event, answers>>
  BY  DEF callVars
<1>6. \A i \in 1..n : Complete(i) => Complete(i)'
  BY <1>a, <1>1 DEF Complete
<1>7. \A e : InLog(e) => InLog(e)'
  BY <1>a, <1>1, <1>6 DEF InLog
<1> HIDE DEF new
<1>8. \A i \in 1..(n + 1) : i \in 1..n \/ i = n + 1
  BY <1>1
<1>9. ASSUME NEW i \in 1..n, OfCall(i, c) PROVE log[i].event.status = "started" \/ log[i].event.status = outcome[c]
  BY <1>a, <1>0, <1>9 DEF Caller, LogFollows
<1>10. outcome[c] \in {"none", "completed", "failed"} /\ event[c].status \in {"started", "completed", "failed"}
  BY <1>0 DEF AuditTypes, Outcomes, LogEvents
<1>11. \A i \in 1..n : log[i].event \in LogEvents
  BY <1>a, <1>0, PieceFacts
<1>12. ASSUME NEW d \in Callers \ {c} PROVE Caller(d)'
  <2>1. Caller(d)
    BY  DEF AuditInv
  <2>2. CallFollows(d)'
    BY <2>1 DEF OthersKeep, Caller, CallFollows, Status
  <2>3. ASSUME NEW i \in 1..(n + 1)
        PROVE  /\ log'[i].event.by = d => log'[i].event.n <= calls'[d]
               /\ OfCall(i, d)' /\ apc'[d] \notin {"idle", "dead"} =>
                    \/ log'[i].event.status = "started" /\ kind'[d] = "attempt"
                    \/ log'[i].event.status = outcome'[d]
               /\ apc'[d] \in {"record", "lock", "write"} => log'[i].event # event'[d]
               /\ apc'[d] # "rest"
    <3>1. CASE i \in 1..n
      BY <1>a, <1>1, <1>4, <2>1, <3>1 DEF OthersKeep, Caller, LogFollows, OfCall, Writing
    <3>2. CASE i = n + 1
      <4>1. log'[i].event = event[c] /\ event[c].by # d
        BY <1>1, <1>2, <1>3, <3>2
      <4>2. apc[d] \in {"record", "lock"} => event[d].by = d
        BY <2>1 DEF Caller, CallFollows, Recording, Event
      <4> QED
        BY <1>4, <4>1, <4>2 DEF OthersKeep, OfCall, Writing
    <3> QED
      BY <1>8, <3>1, <3>2
  <2>4. LogFollows(d)'
    BY <1>1, <2>3 DEF LogFollows
  <2>5. LastIsHead(d)'
    BY <1>4 DEF LastIsHead, OthersKeep, Writing
  <2>6. LoggedIsWhole(d)'
    <3>1. Begun(d)' <=> Begun(d)
      BY  DEF OthersKeep, Begun
    <3>2. logged'[d] = logged[d] /\ apc'[d] = apc[d] /\ calls'[d] = calls[d] /\ kind'[d] = kind[d]
          /\ outcome'[d] = outcome[d] /\ event'[d] = event[d]
      BY  DEF OthersKeep
    <3> QED
      BY <1>7, <2>1, <3>1, <3>2 DEF Caller, LoggedIsWhole
  <2> QED
    BY <2>2, <2>4, <2>5, <2>6 DEF Caller
<1>13. Caller(c)'
  <2>1. ASSUME NEW i \in 1..(n + 1)
        PROVE  /\ log'[i].event.by = c => log'[i].event.n <= calls'[c]
               /\ OfCall(i, c)' => \/ log'[i].event.status = "started" /\ kind'[c] = "attempt"
                                  \/ log'[i].event.status = outcome'[c]
               /\ apc'[c] \notin {"record", "lock", "write"}
               /\ apc'[c] = "rest" /\ log'[i].event = event'[c] => i = n + 1
    <3>1. CASE i \in 1..n
      BY <1>a, <1>0, <1>1, <1>5, <3>1 DEF Caller, LogFollows, OfCall
    <3>2. CASE i = n + 1
      <4>1. \/ event[c].status = "started" /\ kind[c] = "attempt"
            \/ event[c].status = outcome[c]
        BY <1>0, <1>3 DEF Caller, CallFollows, Status, Recording, Writing
      <4> QED
        BY <1>1, <1>2, <1>3, <1>5, <3>2, <4>1 DEF OfCall
    <3> QED
      BY <1>8, <3>1, <3>2
  <2>2. LogFollows(c)'
    BY <1>1, <2>1 DEF LogFollows
  <2>3. LastIsHead(c)'
    BY <1>1, <1>2, <1>5 DEF LastIsHead, new
  <2>4. LoggedIsWhole(c)'
    <3>1. apc'[c] = "secure" => InLog(event[c])'
      <4>1. CASE part = "tail"
        <5>0. n > 0 /\ log[n] = Piece(event[c], "head")
          BY <1>a, <1>0, <4>1 DEF Caller, LastIsHead
        <5>1. n \in 1..n /\ n # n + 1
          BY <1>1, <5>0
        <5>2. log'[n].part = "head" /\ log'[n].event = event[c]
          BY <1>1, <5>0, <5>1 DEF Piece
        <5>3. Complete(n)'
          <6>1. n < Len(log') /\ log'[n + 1] = Piece(event[c], "tail")
            BY <1>1, <4>1 DEF new
          <6> QED
            BY <5>2, <6>1 DEF Complete
        <5>4. n \in 1..Len(log')
          BY <1>1, <5>1
        <5> QED
          BY <1>5, <5>2, <5>3, <5>4 DEF InLog
      <4>2. CASE part = "head"
        BY <4>2
      <4> QED
        BY <4>1, <4>2
    <3>2. apc'[c] \in {"rest", "secure"} /\ Begun(c)' => Begun(c)
      BY <1>5 DEF Begun, Recording, Writing
    <3>3. ASSUME logged'[c] PROVE logged[c] /\ apc'[c] \in {"rest", "secure"}
      BY <3>3
    <3>4. logged'[c] /\ kind'[c] = "attempt" /\ Begun(c)' => InLog(Event(c, calls[c], "started"))'
      BY <1>0, <1>5, <1>7, <3>2, <3>3 DEF Caller, LoggedIsWhole
    <3> QED
      BY <1>5, <3>1, <3>3, <3>4 DEF LoggedIsWhole
  <2> QED
    BY <2>2, <2>3, <2>4 DEF Caller
<1>14. Unrepeated'
  <2>1. ASSUME NEW i \in 1..n PROVE log[i] # new
    <3>1. CASE part = "head"
      BY <1>a, <1>0, <1>2, <3>1 DEF Caller, LogFollows
    <3>2. CASE part = "tail"
      <4>1. log[n].part = "head"
        BY <1>a, <1>0, <3>2 DEF Caller, LastIsHead, Piece
      <4>2. log[i].event = event[c] => i = n
        BY <1>a, <1>0, <3>2 DEF Caller, LogFollows
      <4> QED
        BY <1>2, <3>2, <4>1, <4>2
    <3> QED
      BY <3>1, <3>2
  <2> QED
    BY <1>a, <1>0, <1>1, <1>8, <2>1 DEF Unrepeated
<1>15. StartedFirst'
  <2>1. ASSUME NEW j \in 1..n, log[j].event.by = c, log[j].event.n = calls[c], log[j].event.status # "started"
        PROVE  event[c].status # "started"
    <3>1. log[j].event.status = outcome[c]
      BY <1>9, <2>1 DEF OfCall
    <3>2. log[j].event.status # "none"
      BY <1>11, <2>1 DEF LogEvents
    <3> QED
      BY <1>3, <2>1, <3>1, <3>2 DEF Status
  <2>2. ASSUME NEW i \in 1..(n + 1), NEW j \in 1..(n + 1), SameCall(i, j)',
               log'[i].event.status = "started", log'[j].event.status # "started"
        PROVE  i < j
    <3>1. CASE i \in 1..n /\ j \in 1..n
      BY <1>a, <1>0, <1>1, <2>2, <3>1 DEF StartedFirst, SameCall
    <3>2. CASE i \in 1..n /\ j = n + 1
      BY <1>1, <3>2
    <3>3. CASE i = n + 1 /\ j \in 1..n
      BY <1>1, <1>2, <1>3, <2>1, <2>2, <3>3 DEF SameCall
    <3>4. CASE i = n + 1 /\ j = n + 1
      BY <2>2, <3>4
    <3> QED
      BY <1>8, <3>1, <3>2, <3>3, <3>4
  <2> QED
    BY <1>1, <2>2 DEF StartedFirst
<1>16. AnsweredIsLogged'
  <2>1. ASSUME NEW a \in answers
        PROVE  /\ a.n <= calls'[a.by] /\ (a.n = calls'[a.by] => apc'[a.by] = "idle")
               /\ a.logged = "yes" => \A t \in Statuses(a) : InLog(Event(a.by, a.n, t))'
               /\ \A i \in 1..(n + 1) : log'[i].event.by = a.by /\ log'[i].event.n = a.n =>
                    log'[i].event.status \in Statuses(a)
    <3>1. a.by \in Callers /\ a.n <= calls[a.by] /\ (a.n = calls[a.by] => apc[a.by] = "idle")
      BY <1>0 DEF AuditTypes, AnswerTypes, AnsweredIsLogged
    <3>2. a.n = calls'[a.by] => apc'[a.by] = "idle"
      BY <1>5, <3>1 DEF OthersKeep
    <3>3. a.logged = "yes" => \A t \in Statuses(a) : InLog(Event(a.by, a.n, t))'
      BY <1>0, <1>7 DEF AnsweredIsLogged
    <3>4. ASSUME NEW i \in 1..(n + 1), log'[i].event.by = a.by, log'[i].event.n = a.n
          PROVE  log'[i].event.status \in Statuses(a)
      <4>1. CASE i \in 1..n
        BY <1>a, <1>0, <1>1, <3>4, <4>1 DEF AnsweredIsLogged
      <4>2. CASE i = n + 1
        BY <1>1, <1>2, <1>3, <3>1, <3>4, <4>2
      <4> QED
        BY <1>8, <4>1, <4>2
    <3> QED
      BY <1>5, <3>1, <3>2, <3>3, <3>4
  <2> QED
    BY <1>1, <1>5, <2>1 DEF AnsweredIsLogged, Statuses
<1>17. FaultsTear'
  <2>1. ASSUME NEW i \in 1..(n + 1), Torn(i)' PROVE i \in TornLines
    <3>1. CASE i = n + 1
      BY <1>1, <1>2, <1>3, <2>1, <3>1 DEF Torn, InWriting
    <3>2. CASE i \in 1..n
      <4>1. log[i].part = "head" /\ ~Complete(i)
        BY <1>1, <1>6, <2>1, <3>2 DEF Torn
      <4>2. ASSUME i = n, apc[log[i].event.by] = "rest" PROVE FALSE
        <5>1. log[i].event.by \in Callers
          BY <1>11, <3>2 DEF LogEvents
        <5>2. log[i].event.by = c /\ part = "tail"
          BY <1>4, <4>2, <5>1 DEF Writing
        <5>3. log[n] = Piece(event[c], "head")
          BY <1>a, <1>0, <5>2 DEF Caller, LastIsHead
        <5>4. Complete(n)'
          <6>1. log'[n].part = "head" /\ log'[n].event = event[c]
            BY <1>1, <3>2, <4>2, <5>3 DEF Piece
          <6>2. n < Len(log') /\ log'[n + 1] = Piece(event[c], "tail")
            BY <1>1, <5>2 DEF new
          <6> QED
            BY <6>1, <6>2 DEF Complete
        <5>5. ~Complete(i)'
          BY <2>1 DEF Torn
        <5> QED
          BY <4>2, <5>4, <5>5
      <4> QED
        BY <1>a, <3>2, <4>1, <4>2 DEF TornLines, Torn, InWriting
    <3> QED
      BY <1>8, <3>1, <3>2
  <2>2. TornLines' \subseteq TornLines
    BY <1>a, <1>1, <2>1 DEF TornLines
  <2>3. IsFiniteSet(TornLines') /\ Cardinality(TornLines') <= Cardinality(TornLines)
    BY <1>0, <2>2, FS_Subset DEF FaultsTear
  <2>4. Cardinality(TornLines') \in Nat /\ Cardinality(TornLines) \in Nat /\ auditFaults \in Nat
    BY <1>0, <2>3, FS_CardinalityType DEF FaultsTear, AuditTypes
  <2> QED
    BY <1>0, <2>3, <2>4 DEF FaultsTear
<1> QED
  BY <1>12, <1>13, <1>14, <1>15, <1>16, <1>17 DEF AuditInv

LEMMA CallStep ==
  ASSUME AuditInv, NEW c \in Callers, NEW k \in Kinds, Call(c, k)
  PROVE  AuditInv'
<1>0. AuditTypes /\ OneWriter /\ Caller(c) /\ AnsweredIsLogged
  BY DEF AuditInv
<1>1. /\ apc[c] = "idle" /\ apc' = [apc EXCEPT ![c] = IF k = "attempt" THEN "record" ELSE "operation"]
      /\ calls' = [calls EXCEPT ![c] = calls[c] + 1] /\ kind' = [kind EXCEPT ![c] = k]
      /\ outcome' = [outcome EXCEPT ![c] = "none"]
      /\ event' = [event EXCEPT ![c] = Event(c, calls'[c], "started")]
      /\ UNCHANGED <<log, holders, answers, auditFaults>>
  BY DEF Call, AGoes
<1>2. logged' = [logged EXCEPT ![c] = TRUE]
  BY DEF Call
<1>3. logged' \in [Callers -> BOOLEAN] /\ \A d \in Callers \ {c} : logged'[d] = logged[d]
  BY <1>0, <1>2, Zenon DEF AuditTypes
<1>4. /\ apc'[c] = (IF k = "attempt" THEN "record" ELSE "operation") /\ calls'[c] = calls[c] + 1
      /\ kind'[c] = k /\ outcome'[c] = "none" /\ event'[c] = Event(c, calls[c] + 1, "started")
      /\ calls[c] \in Nat
  BY <1>0, <1>1 DEF AuditTypes
<1>5. OthersKeep(c)
  BY <1>0, <1>1, <1>3 DEF AuditTypes, OthersKeep
<1>6. AuditTypes'
  <2>1. Event(c, calls[c] + 1, "started") \in LogEvents
    BY <1>4 DEF Event, LogEvents
  <2>2. event' = [event EXCEPT ![c] = Event(c, calls[c] + 1, "started")]
    BY <1>1, <1>4
  <2>3. event' \in [Callers -> LogEvents] /\ calls' \in [Callers -> Nat]
    BY <1>0, <1>1, <1>4, <2>1, <2>2 DEF AuditTypes
  <2>4. apc' \in [Callers -> APc] /\ kind' \in [Callers -> Kinds]
        /\ outcome' \in [Callers -> {"none"} \union Outcomes]
    BY <1>0, <1>1 DEF AuditTypes, APc
  <2> QED
    BY <1>0, <1>1, <1>3, <2>3, <2>4 DEF AuditTypes
<1>7. OneWriter'
  BY <1>0, <1>1, <1>4, <1>5 DEF OneWriter, Writing, OthersKeep
<1>8. Caller(c)'
  <2>1. CallFollows(c)'
    BY <1>4 DEF CallFollows, Recording, Writing, Status
  <2>2. LogFollows(c)'
    <3>1. ASSUME NEW i \in 1..Len(log), log[i].event.by = c
          PROVE  log[i].event.n <= calls[c] /\ log[i].event.n \in Nat
      BY <1>0, <3>1, PieceFacts DEF Caller, LogFollows, LogEvents
    <3>2. \A i \in 1..Len(log) : log[i].event.by = c => log[i].event.n # calls[c] + 1
      BY <1>4, <3>1
    <3>3. \A i \in 1..Len(log) : log[i].event.by = c => log[i].event.n <= calls[c] + 1
      BY <1>4, <3>1
    <3>4. event'[c].by = c /\ event'[c].n = calls[c] + 1
      BY <1>4 DEF Event
    <3> QED
      BY <1>1, <1>4, <3>2, <3>3, <3>4 DEF LogFollows, OfCall
  <2>3. LastIsHead(c)' /\ LoggedIsWhole(c)'
    BY <1>4 DEF LastIsHead, LoggedIsWhole, Begun, Recording, Writing
  <2> QED
    BY <2>1, <2>2, <2>3 DEF Caller
<1>9. AnsweredIsLogged'
  <2>1. \A e : InLog(e) => InLog(e)'
    BY <1>1 DEF InLog, Complete
  <2>2. ASSUME NEW a \in answers PROVE a.n <= calls'[a.by] /\ (a.n = calls'[a.by] => apc'[a.by] = "idle")
    <3>1. a.by \in Callers /\ a.n \in Nat /\ a.n <= calls[a.by] /\ (a.n = calls[a.by] => apc[a.by] = "idle")
      BY <1>0 DEF AuditTypes, AnswerTypes, AnsweredIsLogged
    <3>2. CASE a.by = c
      BY <1>4, <3>1, <3>2
    <3>3. CASE a.by # c
      BY <1>5, <3>1, <3>3 DEF OthersKeep
    <3> QED
      BY <3>2, <3>3
  <2> QED
    BY <1>0, <1>1, <2>1, <2>2 DEF AnsweredIsLogged, Statuses
<1> QED
  BY <1>0, <1>1, <1>4, <1>5, <1>6, <1>7, <1>8, <1>9, StayStep DEF AuditTypes

\* A step that leaves the answers alone, of a call that is under way and stays at its number.
LEMMA AnswersStay ==
  ASSUME AuditTypes, AnsweredIsLogged, NEW c \in Callers, UNCHANGED <<log, answers, calls>>, OthersKeep(c),
         apc[c] # "idle"
  PROVE  AnsweredIsLogged'
<1>1. \A e : InLog(e) => InLog(e)'
  BY DEF InLog, Complete
<1>2. ASSUME NEW a \in answers PROVE a.n = calls'[a.by] => apc'[a.by] = "idle"
  <2>1. a.by \in Callers /\ (a.n = calls[a.by] => apc[a.by] = "idle")
    BY DEF AuditTypes, AnswerTypes, AnsweredIsLogged
  <2> QED
    BY <2>1 DEF OthersKeep
<1> QED
  BY <1>1, <1>2 DEF AnsweredIsLogged, Statuses

LEMMA OperationStep ==
  ASSUME AuditInv, NEW c \in Callers, NEW o \in Outcomes, Operation(c, o)
  PROVE  AuditInv'
<1>0. AuditTypes /\ OneWriter /\ Caller(c) /\ AnsweredIsLogged
  BY DEF AuditInv
<1>1. /\ apc[c] = "operation"
      /\ apc' = [apc EXCEPT ![c] = IF kind[c] = "change" /\ o = "failed" THEN "answer" ELSE "record"]
      /\ outcome' = [outcome EXCEPT ![c] = o]
      /\ event' = [event EXCEPT ![c] = Event(c, calls[c], o)]
      /\ UNCHANGED <<log, holders, calls, kind, logged, answers, auditFaults>>
  BY DEF Operation, AGoes
<1>2. /\ apc'[c] \in {"answer", "record"} /\ outcome'[c] = o /\ event'[c] = Event(c, calls[c], o)
      /\ apc'[c] = "answer" => kind[c] = "change" /\ o = "failed"
      /\ calls[c] \in Nat
  BY <1>0, <1>1 DEF AuditTypes
<1>3. OthersKeep(c)
  BY <1>0, <1>1 DEF AuditTypes, OthersKeep
<1>4. AuditTypes'
  <2>1. Event(c, calls[c], o) \in LogEvents
    BY <1>2 DEF Event, LogEvents, Outcomes
  <2> QED
    BY <1>0, <1>1, <2>1 DEF AuditTypes, APc
<1>5. OneWriter'
  BY <1>0, <1>1, <1>2, <1>3 DEF OneWriter, Writing, OthersKeep
<1>6. Caller(c)'
  <2>1. o # "none" /\ o # "started"
    BY DEF Outcomes
  <2>2. CallFollows(c)'
    BY <1>1, <1>2, <2>1 DEF CallFollows, Recording, Writing, Status
  <2>3. LogFollows(c)'
    <3>1. ASSUME NEW i \in 1..Len(log), OfCall(i, c)
          PROVE  log[i].event.status = "started" /\ kind[c] = "attempt"
      <4>1. outcome[c] = "none"
        BY <1>0, <1>1 DEF Caller, CallFollows
      <4>2. log[i].event.status # "none"
        BY <1>0, PieceFacts DEF LogEvents
      <4> QED
        BY <1>0, <1>1, <3>1, <4>1, <4>2 DEF Caller, LogFollows
    <3>2. event'[c].by = c /\ event'[c].n = calls[c] /\ event'[c].status = o
      BY <1>2 DEF Event
    <3>3. \A i \in 1..Len(log) : log[i].event # event'[c]
      BY <2>1, <3>1, <3>2 DEF OfCall
    <3>4. \A i \in 1..Len(log) : log[i].event.by = c => log[i].event.n <= calls[c]
      BY <1>0 DEF Caller, LogFollows
    <3> QED
      BY <1>1, <1>2, <3>1, <3>3, <3>4 DEF LogFollows, OfCall
  <2>4. LoggedIsWhole(c)'
    <3>1. logged[c] /\ kind[c] = "attempt" => InLog(Event(c, calls[c], "started"))
      BY <1>0, <1>1 DEF Caller, LoggedIsWhole, Begun
    <3>2. \A e : InLog(e) => InLog(e)'
      BY <1>1 DEF InLog, Complete
    <3> QED
      BY <1>1, <1>2, <3>1, <3>2 DEF LoggedIsWhole
  <2>5. LastIsHead(c)'
    BY <1>2 DEF LastIsHead
  <2> QED
    BY <2>2, <2>3, <2>4, <2>5 DEF Caller
<1>7. AnsweredIsLogged'
  BY <1>0, <1>1, <1>3, AnswersStay
<1> QED
  BY <1>0, <1>1, <1>2, <1>3, <1>4, <1>5, <1>6, <1>7, StayStep DEF AuditTypes

\* The end of a record: the call goes on, and what it claims of the log is so.
LEMMA RecordedStep ==
  ASSUME AuditInv, NEW c \in Callers, NEW written \in BOOLEAN, Recorded(c, written), log' = log,
         apc[c] \in Recording, UNCHANGED callVars, auditFaults' \in {auditFaults, auditFaults + 1},
         apc[c] = "rest" => auditFaults' = auditFaults + 1, written => apc[c] = "secure"
  PROVE  AuditInv'
<1>0. AuditTypes /\ OneWriter /\ Caller(c) /\ AnsweredIsLogged
  BY DEF AuditInv
<1>1. /\ apc' = [apc EXCEPT ![c] = IF outcome[c] = "none" THEN "operation" ELSE "answer"]
      /\ holders' = holders \ {c} /\ UNCHANGED <<calls, kind, outcome, event, answers>>
  BY DEF Recorded, callVars
<1>2. /\ logged' \in [Callers -> BOOLEAN] /\ \A d \in Callers \ {c} : logged'[d] = logged[d]
      /\ logged'[c] => logged[c] /\ written
  <2>1. logged' = [logged EXCEPT ![c] = logged[c] /\ written] /\ logged \in [Callers -> BOOLEAN]
    BY <1>0, Zenon DEF Recorded, AuditTypes
  <2>2. logged' \in [Callers -> BOOLEAN] /\ \A d \in Callers \ {c} : logged'[d] = logged[d]
    BY <2>1, Zenon
  <2>3. logged'[c] => logged[c] /\ written
    BY <2>1, Zenon
  <2> QED
    BY <2>2, <2>3
<1>3. apc'[c] = IF outcome[c] = "none" THEN "operation" ELSE "answer"
  BY <1>0, <1>1 DEF AuditTypes
<1>4. OthersKeep(c)
  BY <1>0, <1>1, <1>2 DEF AuditTypes, OthersKeep
<1>5. AuditTypes'
  <2>1. apc' \in [Callers -> APc] /\ auditFaults' \in Nat
    BY <1>0, <1>1 DEF AuditTypes, APc
  <2>2. logged' \in [Callers -> BOOLEAN]
    BY <1>2
  <2> QED
    BY <1>0, <1>1, <2>1, <2>2 DEF AuditTypes
<1>6. OneWriter'
  BY <1>0, <1>1, <1>3, <1>4 DEF OneWriter, Writing, OthersKeep
<1>7. Caller(c)'
  <2>1. CallFollows(c)'
    BY <1>1, <1>3 DEF CallFollows, Recording, Writing
  <2>2. LogFollows(c)' /\ LastIsHead(c)'
    BY <1>0, <1>1, <1>3 DEF Caller, LogFollows, LastIsHead, OfCall, Recording, Writing
  <2>3. LoggedIsWhole(c)'
    <3>1. \A e : InLog(e) => InLog(e)'
      BY DEF InLog, Complete
    <3>2. ASSUME logged'[c]
          PROVE  /\ InLog(Event(c, calls[c], Status(c)))
                 /\ kind[c] = "attempt" => InLog(Event(c, calls[c], "started"))
      <4>1. logged[c] /\ apc[c] = "secure"
        BY <1>2, <3>2
      <4>2. event[c] = Event(c, calls[c], Status(c)) /\ InLog(event[c])
        BY <1>0, <4>1 DEF Caller, CallFollows, LoggedIsWhole, Recording, Writing
      <4>3. InLog(Event(c, calls[c], Status(c)))
        BY <4>2
      <4>4. CASE outcome[c] = "none"
        BY <4>3, <4>4 DEF Status
      <4>5. CASE outcome[c] # "none"
        BY <1>0, <4>1, <4>3, <4>5 DEF Caller, LoggedIsWhole, Begun, Recording, Writing
      <4> QED
        BY <4>4, <4>5
    <3>3. ASSUME logged'[c], kind[c] = "attempt" PROVE InLog(Event(c, calls[c], "started"))'
      <4>1. InLog(Event(c, calls[c], "started"))
        BY <3>2, <3>3
      <4> QED
        BY <1>1, <3>1, <4>1
    <3>4. ASSUME logged'[c], outcome[c] = "completed" PROVE InLog(Event(c, calls[c], "completed"))'
      <4>1. InLog(Event(c, calls[c], "completed"))
        BY <3>2, <3>4 DEF Status
      <4> QED
        BY <1>1, <3>1, <4>1
    <3>5. apc'[c] # "secure"
      BY <1>3
    <3> QED
      BY <1>1, <3>3, <3>4, <3>5 DEF LoggedIsWhole
  <2> QED
    BY <2>1, <2>2, <2>3 DEF Caller
<1>8. AnsweredIsLogged'
  BY <1>0, <1>1, <1>4, AnswersStay DEF Recording, Writing
<1> QED
  BY <1>3, <1>4, <1>5, <1>6, <1>7, <1>8, StayStep

\* A step that only moves a call that is under way.
LEMMA MoveStep ==
  ASSUME AuditInv, NEW c \in Callers, NEW to \in {"lock", "write", "dead"}, AGoes(c, apc[c], to), log' = log,
         UNCHANGED <<logged, callVars>>, OneWriter', auditFaults' \in {auditFaults, auditFaults + 1},
         to = "lock" => apc[c] = "record", to = "write" => apc[c] = "lock",
         apc[c] # "idle", apc[c] = "rest" => auditFaults' = auditFaults + 1
  PROVE  AuditInv'
<1>0. AuditTypes /\ Caller(c) /\ AnsweredIsLogged
  BY DEF AuditInv
<1>1. apc' = [apc EXCEPT ![c] = to] /\ UNCHANGED <<calls, kind, outcome, event, answers, logged>>
  BY DEF AGoes, callVars
<1>2. apc'[c] = to
  BY <1>0, <1>1 DEF AuditTypes
<1>3. OthersKeep(c)
  BY <1>0, <1>1 DEF AuditTypes, OthersKeep
<1>4. AuditTypes'
  BY <1>0, <1>1 DEF AuditTypes, APc
<1>5. Caller(c)'
  <2>1. CallFollows(c)'
    BY <1>0, <1>1, <1>2 DEF Caller, CallFollows, Status, Recording, Writing
  <2>2. LogFollows(c)' /\ LastIsHead(c)'
    BY <1>0, <1>1, <1>2 DEF Caller, LogFollows, LastIsHead, OfCall
  <2>3. LoggedIsWhole(c)'
    <3>1. \A e : InLog(e) => InLog(e)'
      BY DEF InLog, Complete
    <3>2. Begun(c)' => Begun(c)
      BY <1>1, <1>2 DEF Begun, Recording, Writing
    <3>3. logged'[c] = logged[c]
      BY <1>1
    <3> QED
      BY <1>0, <1>1, <1>2, <3>1, <3>2, <3>3 DEF Caller, LoggedIsWhole
  <2> QED
    BY <2>1, <2>2, <2>3 DEF Caller
<1>6. AnsweredIsLogged'
  BY <1>0, <1>1, <1>3, AnswersStay
<1> QED
  BY <1>2, <1>3, <1>4, <1>5, <1>6, StayStep

\* What Recorded assigns, for an event that was not written.
LEMMA UnrecordedFacts ==
  ASSUME AuditInv, NEW c \in Callers, Recorded(c, FALSE), UNCHANGED callVars, log' \in Seq(LogPieces),
         auditFaults' = auditFaults + 1, apc[c] \in Recording
  PROVE  /\ OthersKeep(c) /\ AuditTypes' /\ OneWriter' /\ CallFollows(c)' /\ ~logged'[c]
         /\ apc'[c] \in {"operation", "answer"}
<1>0. AuditTypes /\ OneWriter
  BY DEF AuditInv
<1>1. /\ apc' = [apc EXCEPT ![c] = IF outcome[c] = "none" THEN "operation" ELSE "answer"]
      /\ holders' = holders \ {c} /\ UNCHANGED <<calls, kind, outcome, event, answers>>
  BY DEF Recorded, callVars
<1>2. logged' = [logged EXCEPT ![c] = logged[c] /\ FALSE] /\ logged \in [Callers -> BOOLEAN]
  BY <1>0, Zenon DEF Recorded, AuditTypes
<1>3. logged' \in [Callers -> BOOLEAN] /\ \A d \in Callers \ {c} : logged'[d] = logged[d]
  BY <1>2, Zenon
<1>4. ~logged'[c]
  BY <1>2, Zenon
<1>5. apc'[c] = IF outcome[c] = "none" THEN "operation" ELSE "answer"
  BY <1>0, <1>1 DEF AuditTypes
<1>6. OthersKeep(c)
  BY <1>0, <1>1, <1>3 DEF AuditTypes, OthersKeep
<1>7. AuditTypes'
  <2>1. apc' \in [Callers -> APc] /\ auditFaults' \in Nat
    BY <1>0, <1>1 DEF AuditTypes, APc
  <2>2. logged' \in [Callers -> BOOLEAN]
    BY <1>3
  <2> QED
    BY <1>0, <1>1, <2>1, <2>2 DEF AuditTypes
<1>8. OneWriter'
  BY <1>0, <1>1, <1>5, <1>6 DEF OneWriter, Writing, OthersKeep
<1>9. CallFollows(c)'
  BY <1>1, <1>5 DEF CallFollows, Recording, Writing
<1> QED
  BY <1>4, <1>5, <1>6, <1>7, <1>8, <1>9

LEMMA RecordStep ==
  ASSUME AuditInv, NEW c \in Callers, Record(c)
  PROVE  AuditInv'
<1>0. AuditTypes /\ OneWriter /\ apc[c] = "record" /\ log' = log /\ UNCHANGED callVars
  BY DEF AuditInv, Record
<1>1. CASE apc' = [apc EXCEPT ![c] = "lock"] /\ UNCHANGED <<holders, logged, auditFaults>>
  <2>1. OneWriter'
    BY <1>0, <1>1 DEF AuditTypes, OneWriter, Writing
  <2> QED
    BY <1>0, <1>1, <2>1, MoveStep DEF AGoes, AuditTypes
<1>2. CASE AuditFault /\ Recorded(c, FALSE)
  BY <1>0, <1>2, RecordedStep DEF AuditFault, Recording
<1> QED
  BY <1>1, <1>2 DEF Record

LEMMA EnterLockStep ==
  ASSUME AuditInv, NEW c \in Callers, EnterLock(c)
  PROVE  AuditInv'
<1>0. /\ AuditTypes /\ OneWriter /\ apc[c] = "lock" /\ log' = log /\ UNCHANGED <<logged, callVars, auditFaults>>
      /\ holders = {} /\ holders' = {c} /\ apc' = [apc EXCEPT ![c] = "write"]
  BY DEF AuditInv, EnterLock, AGoes
<1>1. OneWriter'
  BY <1>0 DEF AuditTypes, OneWriter, Writing
<1> QED
  BY <1>0, <1>1, MoveStep DEF AGoes, AuditTypes

LEMMA TimeoutStep ==
  ASSUME AuditInv, NEW c \in Callers, AuditLockTimeout(c)
  PROVE  AuditInv'
<1>1. apc[c] = "lock" /\ Recorded(c, FALSE) /\ log' = log /\ UNCHANGED callVars /\ auditFaults' = auditFaults
  BY DEF AuditLockTimeout
<1> QED
  BY <1>1, RecordedStep DEF Recording

\* The step that writes a piece and leaves the file to be secured.
LEMMA WritePiece ==
  ASSUME AuditInv, NEW c \in Callers, NEW part \in {"head", "tail"},
         apc[c] = IF part = "head" THEN "write" ELSE "rest",
         apc' = [apc EXCEPT ![c] = IF part = "head" THEN "rest" ELSE "secure"],
         log' = Append(log, Piece(event[c], part)), UNCHANGED <<holders, logged, auditFaults, callVars>>
  PROVE  AuditInv'
<1>0. AuditTypes /\ OneWriter /\ Caller(c)
  BY DEF AuditInv
<1>1. apc'[c] = IF part = "head" THEN "rest" ELSE "secure"
  BY <1>0 DEF AuditTypes
<1>2. UNCHANGED <<calls, kind, outcome, event, answers, logged>>
  BY DEF callVars
<1>3. OthersKeep(c)
  BY <1>0, <1>2 DEF AuditTypes, OthersKeep
<1>4. AuditTypes'
  <2>1. Piece(event[c], part) \in LogPieces
    BY <1>0 DEF AuditTypes, Piece, LogPieces
  <2>2. log' \in Seq(LogPieces) /\ apc' \in [Callers -> APc]
    BY <1>0, <2>1 DEF AuditTypes, APc
  <2> QED
    BY <1>0, <1>2, <2>2 DEF AuditTypes
<1>5. OneWriter'
  BY <1>0, <1>1, <1>3 DEF OneWriter, Writing, OthersKeep
<1>6. CallFollows(c)'
  BY <1>0, <1>1, <1>2 DEF Caller, CallFollows, Status, Recording, Writing
<1>7. logged'[c] => logged[c]
  BY <1>2, Zenon
<1>8. apc'[c] \notin {"operation", "answer"}
  BY <1>1
<1> QED
  BY <1>0, <1>1, <1>3, <1>4, <1>5, <1>6, <1>7, <1>8, AppendStep DEF AuditTypes

LEMMA WriteLineStep ==
  ASSUME AuditInv, NEW c \in Callers, WriteLine(c)
  PROVE  AuditInv'
<1>0. apc[c] = "write" /\ UNCHANGED callVars
  BY DEF WriteLine
<1>1. CASE /\ log' = Append(log, Piece(event[c], "head")) /\ apc' = [apc EXCEPT ![c] = "rest"]
           /\ UNCHANGED <<holders, logged, auditFaults>>
  BY <1>0, <1>1, WritePiece
<1>2. CASE AuditFault /\ Recorded(c, FALSE) /\ UNCHANGED log
  BY <1>0, <1>2, RecordedStep DEF AuditFault, Recording, Writing
<1> QED
  BY <1>1, <1>2 DEF WriteLine

LEMMA WriteRestStep ==
  ASSUME AuditInv, NEW c \in Callers, WriteRest(c)
  PROVE  AuditInv'
<1>0. apc[c] = "rest" /\ UNCHANGED callVars /\ AuditTypes
  BY DEF WriteRest, AuditInv
<1>1. CASE /\ log' = Append(log, Piece(event[c], "tail")) /\ apc' = [apc EXCEPT ![c] = "secure"]
           /\ UNCHANGED <<holders, logged, auditFaults>>
  BY <1>0, <1>1, WritePiece
<1>2. CASE AuditFault /\ Recorded(c, FALSE) /\ log' = log
  BY <1>0, <1>2, RecordedStep DEF AuditFault, Recording, Writing
<1>3. CASE AuditFault /\ Recorded(c, FALSE) /\ log' = Append(log, Piece(event[c], "tail"))
  <2>1. Piece(event[c], "tail") \in LogPieces
    BY <1>0 DEF AuditTypes, Piece, LogPieces
  <2>2. log' \in Seq(LogPieces)
    BY <1>0, <1>3, <2>1 DEF AuditTypes
  <2>3. auditFaults' = auditFaults + 1 /\ apc[c] \in Recording
    BY <1>0, <1>3 DEF AuditFault, Recording, Writing
  <2>4. /\ OthersKeep(c) /\ AuditTypes' /\ OneWriter' /\ CallFollows(c)' /\ ~logged'[c]
        /\ apc'[c] \in {"operation", "answer"}
    BY <1>0, <1>3, <2>2, <2>3, UnrecordedFacts
  <2> QED
    BY <1>0, <1>3, <2>3, <2>4, AppendStep
<1> QED
  BY <1>1, <1>2, <1>3 DEF WriteRest

LEMMA SecureStep ==
  ASSUME AuditInv, NEW c \in Callers, SecureLog(c)
  PROVE  AuditInv'
<1>0. apc[c] = "secure" /\ log' = log /\ UNCHANGED callVars /\ apc[c] \in Recording
  BY DEF SecureLog, Recording, Writing
<1>1. CASE Recorded(c, TRUE) /\ UNCHANGED auditFaults
  BY <1>0, <1>1, RecordedStep
<1>2. CASE AuditFault /\ Recorded(c, FALSE)
  BY <1>0, <1>2, RecordedStep DEF AuditFault
<1> QED
  BY <1>1, <1>2 DEF SecureLog

LEMMA KilledCallerStep ==
  ASSUME AuditInv, NEW c \in Callers, KilledCaller(c)
  PROVE  AuditInv'
<1>0. /\ AuditTypes /\ OneWriter /\ apc[c] \notin {"idle", "dead"} /\ log' = log /\ UNCHANGED <<logged, callVars>>
      /\ holders' = holders \ {c} /\ apc' = [apc EXCEPT ![c] = "dead"] /\ auditFaults' = auditFaults + 1
  BY DEF AuditInv, KilledCaller, AuditFault
<1>1. OneWriter'
  BY <1>0 DEF AuditTypes, OneWriter, Writing
<1> QED
  BY <1>0, <1>1, MoveStep DEF AGoes

LEMMA ReturnStep ==
  ASSUME AuditInv, NEW c \in Callers, Return(c)
  PROVE  AuditInv'
<1>0. AuditTypes /\ OneWriter /\ Caller(c) /\ AnsweredIsLogged
  BY DEF AuditInv
<1> DEFINE said == IF outcome[c] = "failed" THEN "unsaid" ELSE IF logged[c] THEN "yes" ELSE "no"
           reply == [by |-> c, n |-> calls[c], kind |-> kind[c], outcome |-> outcome[c], logged |-> said]
<1>1. /\ apc[c] = "answer" /\ apc' = [apc EXCEPT ![c] = "idle"] /\ answers' = answers \union {reply}
      /\ UNCHANGED <<log, holders, calls, kind, outcome, event, logged, auditFaults>>
  BY DEF Return, AGoes
<1>2. apc'[c] = "idle" /\ calls[c] \in Nat /\ kind[c] \in Kinds /\ outcome[c] \in Outcomes
  BY <1>0, <1>1 DEF AuditTypes, Caller, CallFollows
<1>3. said \in {"yes", "no", "unsaid"} /\ (said = "yes" => logged[c] /\ outcome[c] # "failed")
  BY Zenon
<1>4. PICK a : a = reply
  OBVIOUS
<1>5. a.by = c /\ a.n = calls[c] /\ a.kind = kind[c] /\ a.outcome = outcome[c] /\ a.logged = said
  BY <1>4
<1>6. a \in AnswerTypes
  BY <1>2, <1>3, <1>4 DEF AnswerTypes
<1>7. a.logged = "yes" => logged[c] /\ outcome[c] = "completed"
  BY <1>2, <1>3, <1>5 DEF Outcomes
<1>8. answers' = answers \union {a}
  BY <1>1, <1>4
<1> HIDE DEF reply, said
<1>9. OthersKeep(c)
  BY <1>0, <1>1 DEF AuditTypes, OthersKeep
<1>10. AuditTypes'
  BY <1>0, <1>1, <1>6, <1>8 DEF AuditTypes, APc
<1>11. OneWriter'
  BY <1>0, <1>1, <1>2, <1>9 DEF OneWriter, Writing, OthersKeep
<1>12. Caller(c)'
  <2>1. CallFollows(c)' /\ LastIsHead(c)' /\ LoggedIsWhole(c)'
    BY <1>2 DEF CallFollows, LastIsHead, LoggedIsWhole, Begun, Recording, Writing
  <2>2. LogFollows(c)'
    BY <1>0, <1>1, <1>2 DEF Caller, LogFollows
  <2> QED
    BY <2>1, <2>2 DEF Caller
<1>13. \A e : InLog(e) => InLog(e)'
  BY <1>1 DEF InLog, Complete
<1>14. ASSUME NEW b \in answers
       PROVE  /\ b.n <= calls[b.by] /\ (b.n = calls[b.by] => apc'[b.by] = "idle")
              /\ b.logged = "yes" => \A t \in Statuses(b) : InLog(Event(b.by, b.n, t))
              /\ \A i \in 1..Len(log) : log[i].event.by = b.by /\ log[i].event.n = b.n =>
                    log[i].event.status \in Statuses(b)
  <2>1. b.by \in Callers
    BY <1>0 DEF AuditTypes, AnswerTypes
  <2> QED
    BY <1>0, <1>2, <1>9, <2>1 DEF AnsweredIsLogged, OthersKeep
<1>15. a.logged = "yes" => \A t \in Statuses(a) : InLog(Event(a.by, a.n, t))
  <2>1. SUFFICES ASSUME a.logged = "yes", NEW t \in Statuses(a) PROVE InLog(Event(c, calls[c], t))
    BY <1>5
  <2>2. logged[c] /\ outcome[c] = "completed"
    BY <1>7, <2>1
  <2>3. CASE t = "completed"
    BY <1>0, <1>1, <2>2, <2>3 DEF Caller, LoggedIsWhole
  <2>4. CASE t = "started" /\ kind[c] = "attempt"
    BY <1>0, <1>1, <2>2, <2>4 DEF Caller, LoggedIsWhole, Begun
  <2> QED
    BY <1>5, <2>1, <2>2, <2>3, <2>4 DEF Statuses
<1>16. ASSUME NEW i \in 1..Len(log), log[i].event.by = c, log[i].event.n = calls[c]
       PROVE  log[i].event.status \in Statuses(a)
  <2>1. (log[i].event.status = "started" /\ kind[c] = "attempt") \/ log[i].event.status = outcome[c]
    BY <1>0, <1>1, <1>16 DEF Caller, LogFollows, OfCall
  <2> QED
    BY <1>5, <2>1 DEF Statuses
<1>17. AnsweredIsLogged'
  <2>1. ASSUME NEW b \in answers'
        PROVE  /\ b.n <= calls[b.by] /\ (b.n = calls[b.by] => apc'[b.by] = "idle")
               /\ b.logged = "yes" => \A t \in Statuses(b) : InLog(Event(b.by, b.n, t))
               /\ \A i \in 1..Len(log) : log[i].event.by = b.by /\ log[i].event.n = b.n =>
                     log[i].event.status \in Statuses(b)
    <3>1. CASE b \in answers
      BY <1>14, <3>1
    <3>2. CASE b = a
      BY <1>2, <1>5, <1>15, <1>16, <3>2
    <3> QED
      BY <1>8, <3>1, <3>2
  <2> QED
    BY <1>1, <1>13, <2>1 DEF AnsweredIsLogged, Statuses
<1> QED
  BY <1>0, <1>1, <1>2, <1>9, <1>10, <1>11, <1>12, <1>17, StayStep DEF AuditTypes

LEMMA AuditStep ==
  ASSUME AuditInv, [AuditNext]_auditVars
  PROVE  AuditInv'
<1>1. ASSUME NEW c \in Callers, NEW k \in Kinds, Call(c, k) PROVE AuditInv'
  BY <1>1, CallStep
<1>2. ASSUME NEW c \in Callers, NEW o \in {"completed", "failed"}, Operation(c, o) PROVE AuditInv'
  BY <1>2, OperationStep DEF Outcomes
<1>3. ASSUME NEW c \in Callers,
             \/ Record(c) \/ EnterLock(c) \/ AuditLockTimeout(c) \/ WriteLine(c) \/ WriteRest(c)
             \/ SecureLog(c) \/ Return(c) \/ KilledCaller(c)
      PROVE  AuditInv'
  BY <1>3, RecordStep, EnterLockStep, TimeoutStep, WriteLineStep, WriteRestStep, SecureStep, ReturnStep,
     KilledCallerStep
<1>4. CASE UNCHANGED auditVars
  <2>1. UNCHANGED <<log, holders, apc, calls, kind, outcome, event, logged, answers, auditFaults>>
    BY <1>4 DEF auditVars
  <2>2. AuditTypes' /\ OneWriter' /\ Unrepeated' /\ StartedFirst'
    BY <2>1 DEF AuditInv, AuditTypes, OneWriter, Unrepeated, StartedFirst, SameCall
  <2>3. \A e : InLog(e) <=> InLog(e)'
    BY <2>1 DEF InLog, Complete
  <2>4. AnsweredIsLogged'
    BY <2>1, <2>3 DEF AuditInv, AnsweredIsLogged, Statuses
  <2>5. ASSUME NEW c \in Callers PROVE Caller(c)'
    <3>1. Caller(c)
      BY DEF AuditInv
    <3>2. CallFollows(c)' /\ LogFollows(c)' /\ LastIsHead(c)'
      BY <2>1, <3>1 DEF Caller, CallFollows, Status, LogFollows, OfCall, LastIsHead
    <3>3. Begun(c)' <=> Begun(c)
      BY <2>1 DEF Begun
    <3>4. LoggedIsWhole(c)'
      BY <2>1, <2>3, <3>1, <3>3 DEF Caller, LoggedIsWhole
    <3> QED
      BY <3>2, <3>4 DEF Caller
  <2>6. FaultsTear'
    <3>1. \A i : Torn(i)' <=> Torn(i)
      BY <2>1 DEF Torn, InWriting, Complete
    <3>2. TornLines' = TornLines
      BY <2>1, <3>1 DEF TornLines
    <3> QED
      BY <2>1, <3>2 DEF AuditInv, FaultsTear
  <2> QED
    BY <2>2, <2>4, <2>5, <2>6 DEF AuditInv
<1> QED
  BY <1>1, <1>2, <1>3, <1>4 DEF AuditNext

LEMMA LogDomain ==
  ASSUME AuditTypes
  PROVE  /\ DOMAIN log = 1..Len(log) /\ Len(log) \in Nat
         /\ \A i \in 1..Len(log) : log[i].part \in {"head", "tail"}
<1>1. DOMAIN log = 1..Len(log) /\ Len(log) \in Nat
  BY DEF AuditTypes
<1>2. ASSUME NEW i \in 1..Len(log) PROVE log[i].part \in {"head", "tail"}
  <2>1. log[i] \in LogPieces
    BY PieceFacts
  <2> QED BY <2>1 DEF LogPieces
<1> QED BY <1>1, <1>2

\* A line appended to a torn one stands right behind it; so there are at most as many.
LEMMA UnreadableBound ==
  ASSUME AuditTypes, FaultsTear
  PROVE  Cardinality(Unreadable) <= 2 * auditFaults
<1>0. DOMAIN log = 1..Len(log) /\ Len(log) \in Nat /\ \A i \in 1..Len(log) : log[i].part \in {"head", "tail"}
  BY LogDomain
<1> DEFINE Merged == {i \in Unreadable : Complete(i)}
           before == [i \in Merged |-> i - 1]
<1>1. ASSUME NEW i \in Merged PROVE i \in 1..Len(log) /\ i - 1 \in TornLines
  <2>1. i \in 1..Len(log) /\ Complete(i) /\ ~Readable(i) /\ log[i].part = "head"
    BY <1>0, <1>1 DEF Unreadable
  <2>2. i # 1 /\ log[i - 1].part # "tail"
    BY <2>1 DEF Readable
  <2>3. i - 1 \in 1..Len(log) /\ i - 1 # Len(log) /\ (i - 1) + 1 = i
    BY <1>0, <2>1, <2>2
  <2>4. log[i - 1].part = "head"
    BY <1>0, <2>2, <2>3
  <2>5. ~Complete(i - 1)
    <3>1. log[i] # Piece(log[i - 1].event, "tail")
      BY <2>1 DEF Piece
    <3> QED BY <2>3, <3>1 DEF Complete
  <2> QED
    BY <2>1, <2>3, <2>4, <2>5 DEF TornLines, Torn, InWriting
<1>2. IsFiniteSet(TornLines) /\ Cardinality(TornLines) \in Nat /\ auditFaults \in Nat /\ Cardinality(TornLines) <= auditFaults
  BY FS_CardinalityType DEF FaultsTear, AuditTypes
<1>3. before \in Injection(Merged, TornLines)
  <2>1. before \in [Merged -> TornLines]
    BY <1>1
  <2>2. ASSUME NEW i \in Merged, NEW j \in Merged, before[i] = before[j] PROVE i = j
    BY <1>1, <2>2
  <2> QED
    BY <2>1, <2>2 DEF Injection, IsInjective
<1>4. IsFiniteSet(Merged) /\ Cardinality(Merged) <= Cardinality(TornLines) /\ Cardinality(Merged) \in Nat
  BY <1>2, <1>3, FS_Injection, FS_CardinalityType
<1> HIDE DEF Merged, before
<1>5. Unreadable \subseteq TornLines \union Merged
  BY <1>0 DEF Unreadable, TornLines, Torn, Merged
<1>6. /\ IsFiniteSet(TornLines \union Merged)
      /\ Cardinality(TornLines \union Merged) <= Cardinality(TornLines) + Cardinality(Merged)
      /\ Cardinality(TornLines \union Merged) \in Nat
  <2>1. /\ IsFiniteSet(TornLines \union Merged)
        /\ Cardinality(TornLines \union Merged)
              = Cardinality(TornLines) + Cardinality(Merged) - Cardinality(TornLines \intersect Merged)
    BY <1>2, <1>4, FS_Union
  <2>2. Cardinality(TornLines \intersect Merged) \in Nat
    BY <1>2, FS_Subset, FS_CardinalityType
  <2> QED
    BY <1>2, <1>4, <2>1, <2>2, FS_CardinalityType
<1>7. Cardinality(Unreadable) <= Cardinality(TornLines \union Merged) /\ Cardinality(Unreadable) \in Nat
  BY <1>5, <1>6, FS_Subset, FS_CardinalityType
<1> QED
  BY <1>2, <1>4, <1>6, <1>7

(* However many processes append to the audit log, and whatever the disk     *)
(* does to them: an exception or a kill spoils at most the line it tears and *)
(* the one appended to that, no event is written twice, and what a caller    *)
(* was told of its events and of their order is so, but that a torn line may *)
(* stand right before them.                                                  *)
THEOREM AuditKept == AuditSpec => []AuditIsHonest
<1>1. AuditInv => AuditIsHonest
  <2> SUFFICES ASSUME AuditInv PROVE AuditIsHonest
    OBVIOUS
  <2>0. AuditTypes /\ Unrepeated /\ StartedFirst /\ AnsweredIsLogged /\ FaultsTear
    BY DEF AuditInv
  <2>1. DOMAIN log = 1..Len(log) /\ \A i \in 1..Len(log) : log[i].part \in {"head", "tail"}
    BY <2>0, LogDomain
  <2>2. Cardinality(Unreadable) <= 2 * auditFaults
    BY <2>0, UnreadableBound
  <2>3. \A i, j \in DOMAIN log : log[i] = log[j] => i = j
    BY <2>0, <2>1 DEF Unrepeated
  <2>4. ASSUME NEW a \in answers, a.logged = "yes", NEW t \in Statuses(a)
        PROVE  \E i \in DOMAIN log : /\ Complete(i) /\ log[i].event = Event(a.by, a.n, t)
                                     /\ Readable(i) \/ Torn(i - 1)
    <3>1. PICK i \in 1..Len(log) : Complete(i) /\ log[i].event = Event(a.by, a.n, t)
      BY <2>0, <2>4 DEF AnsweredIsLogged, InLog
    <3>2. ASSUME ~Readable(i) PROVE Torn(i - 1)
      <4>1. i # 1 /\ log[i - 1].part # "tail" /\ i - 1 # Len(log) /\ i - 1 \in 1..Len(log) /\ (i - 1) + 1 = i
        BY <2>0, <3>1, <3>2 DEF Readable, AuditTypes
      <4>2. log[i].part = "head" /\ log[i - 1].part = "head"
        BY <2>1, <3>1, <4>1 DEF Complete
      <4>3. log[i] # Piece(log[i - 1].event, "tail")
        BY <4>2 DEF Piece
      <4> QED
        BY <4>1, <4>2, <4>3 DEF Torn, InWriting, Complete
    <3> QED BY <2>1, <3>1, <3>2
  <2>5. ASSUME NEW a \in answers, NEW i \in DOMAIN log, log[i].event.by = a.by, log[i].event.n = a.n
        PROVE  /\ log[i].event.status \in Statuses(a)
               /\ log[i].event.status = a.outcome =>
                    \A j \in DOMAIN log : log[j].event = Event(a.by, a.n, "started") => j < i
    <3>1. log[i].event.status \in Statuses(a)
      BY <2>0, <2>1, <2>5 DEF AnsweredIsLogged
    <3>2. ASSUME log[i].event.status = a.outcome, NEW j \in DOMAIN log, log[j].event = Event(a.by, a.n, "started")
          PROVE  j < i
      <4>1. a.outcome # "started"
        BY <2>0 DEF AuditTypes, AnswerTypes, Outcomes
      <4>2. log[j].event.by = a.by /\ log[j].event.n = a.n /\ log[j].event.status = "started"
        BY <3>2 DEF Event
      <4>3. SameCall(j, i)
        BY <2>5, <4>2 DEF SameCall
      <4> QED
        BY <2>0, <2>1, <3>2, <4>1, <4>2, <4>3 DEF StartedFirst
    <3> QED
      BY <3>1, <3>2
  <2> QED
    BY <2>2, <2>3, <2>4, <2>5 DEF AuditIsHonest
<1> QED
  BY AuditInitially, AuditStep, <1>1, PTL DEF AuditSpec

-----------------------------------------------------------------------------
(* The types of key generation, installation and audit log *)

\* The counters of key generation.
KeyCounts == generations \in [Windows -> 0..MaxGenerations] /\ keyFaults \in 0..MaxKeyFaults

\* Ed25519KeyGenerator.generate: whoever else generates keys, a key file belongs to a window,
\* was there before, or is absent, and every window and its ssh-keygen stand where the code
\* can be.
THEOREM KeyTypesKept == KeysSpec => []KeysTypeOK
<1>1. InitKeys => KeyCounts
  BY KeyBounds DEF InitKeys, KeyCounts
<1>2. KeyCounts /\ [KeysNext]_keyVars => KeyCounts'
  <2> SUFFICES ASSUME KeyCounts, [KeysNext]_keyVars PROVE KeyCounts'
    OBVIOUS
  <2>1. ASSUME NEW w \in Windows, Generate(w) PROVE KeyCounts'
    BY <2>1, KeyBounds DEF Generate, KeyCounts
  <2>2. UNCHANGED generations /\ (UNCHANGED keyFaults \/ KeyFault) => KeyCounts'
    BY KeyBounds DEF KeyCounts, KeyFault
  <2>3. ASSUME NEW w \in Windows, KeyAction(w), ~Generate(w)
        PROVE  UNCHANGED generations /\ (UNCHANGED keyFaults \/ KeyFault)
    BY <2>3, Zenon DEF KeyAction, StartKeygen, AnswerFirst, AnswerSecond, NoPrompt, KeygenEnded,
       WaitTimesOut, SecureKey, Unlink, UnlinkPublic, CloseKeygen, KeygenStarts, KeygenSaves,
       KeygenExits, KillWindow, CleanupFails
  <2>4. CASE UNCHANGED keyVars
    BY <2>2, <2>4 DEF keyVars
  <2> QED BY <2>1, <2>2, <2>3, <2>4, Zenon DEF KeysNext, KeyAction
<1>3. KeysInv /\ KeyCounts => KeysTypeOK
  BY DEF KeysInv, KeyTypes, KeyCounts, KeysTypeOK
<1> QED BY <1>1, <1>2, <1>3, KeysInvariant, PTL DEF KeysSpec

\* codex_config.py, task_scheduler.py: whatever installers and others do, config.toml and its backup are
\* absent or files the code writes or reads, and the task is absent, foreign or of a version.
THEOREM InstallTypesKept == InstallSpec => []InstallTypeOK
<1>1. InstallInv => InstallTypeOK
  BY CommandLinesAssumption DEF InstallInv, InstallTypes, InstallTypeOK, Files, Tasks
<1> QED BY <1>1, InstallInvariant, PTL

\* The counters of the audit log, and that an event names a call that was made.
AuditCounts ==
  /\ calls \in [Callers -> 0..MaxCalls] /\ auditFaults \in 0..MaxAuditFaults
  /\ \A c \in Callers : event[c] \in Events
  /\ \A c \in Callers : apc[c] \notin {"idle", "dead"} => calls[c] > 0
  /\ \A i \in 1..Len(log) : log[i].event \in Events

\* The counters at first.
LEMMA AuditCountsInit == InitAudit => AuditCounts
<1> SUFFICES ASSUME InitAudit PROVE AuditCounts
  OBVIOUS
<1>1. \A c \in Callers : event[c] \in Events
  BY AuditBounds DEF InitAudit, Event, Events
<1> QED BY <1>1, AuditBounds DEF InitAudit, AuditCounts

\* A step that begins no call and makes no event.
LEMMA CallKept ==
  ASSUME AuditInv, AuditCounts, NEW c \in Callers,
         UNCHANGED <<calls, event>>, UNCHANGED auditFaults \/ AuditFault,
         apc[c] \notin {"idle", "dead"}, NEW x, apc' = [apc EXCEPT ![c] = x],
         \/ UNCHANGED log
         \/ \E part \in {"head", "tail"} : log' = Append(log, Piece(event[c], part))
  PROVE  AuditCounts'
<1>1. auditFaults' \in 0..MaxAuditFaults
  BY AuditBounds DEF AuditCounts, AuditFault
<1>2. \A d \in Callers : apc'[d] \notin {"idle", "dead"} => calls'[d] > 0
  BY DEF AuditCounts, AuditInv, AuditTypes
<1>3. \A i \in 1..Len(log') : log'[i].event \in Events
  <2>1. CASE UNCHANGED log
    BY <2>1 DEF AuditCounts
  <2>2. ASSUME NEW part \in {"head", "tail"}, log' = Append(log, Piece(event[c], part))
        PROVE  \A i \in 1..Len(log') : log'[i].event \in Events
    <3>1. log \in Seq(LogPieces)
      BY DEF AuditInv, AuditTypes
    <3>2. Piece(event[c], part).event = event[c] /\ event[c] \in Events
      BY DEF Piece, AuditCounts
    <3>3. Len(log') = Len(log) + 1 /\ Len(log) \in Nat
      BY <2>2, <3>1
    <3>4. \A i \in 1..Len(log') : log'[i] = IF i <= Len(log) THEN log[i] ELSE Piece(event[c], part)
      BY <2>2, <3>1
    <3> QED BY <3>2, <3>3, <3>4 DEF AuditCounts
  <2> QED BY <2>1, <2>2
<1> QED BY <1>1, <1>2, <1>3 DEF AuditCounts

\* Every step keeps them.
LEMMA AuditCountsStep ==
  ASSUME AuditInv, AuditCounts, [AuditNext]_auditVars
  PROVE  AuditCounts'
<1>0. apc \in [Callers -> APc] /\ event \in [Callers -> LogEvents]
  BY DEF AuditInv, AuditTypes
<1>1. ASSUME NEW c \in Callers, NEW k \in Kinds, Call(c, k) PROVE AuditCounts'
  <2>1. /\ calls[c] \in Nat /\ calls[c] < MaxCalls /\ calls' = [calls EXCEPT ![c] = calls[c] + 1]
        /\ event' = [event EXCEPT ![c] = Event(c, calls'[c], "started")]
        /\ UNCHANGED <<log, auditFaults>>
        /\ apc' = [apc EXCEPT ![c] = IF k = "attempt" THEN "record" ELSE "operation"]
    BY <1>1 DEF Call, AGoes, AuditCounts
  <2>2. calls' \in [Callers -> 0..MaxCalls] /\ calls'[c] \in 1..MaxCalls
    BY <2>1, AuditBounds DEF AuditCounts
  <2>3. Event(c, calls'[c], "started") \in Events
    BY <2>2 DEF Event, Events
  <2>4. \A d \in Callers : event'[d] \in Events
    BY <1>0, <2>1, <2>3 DEF AuditCounts
  <2>5. \A d \in Callers : apc'[d] \notin {"idle", "dead"} => calls'[d] > 0
    BY <1>0, <2>1, <2>2 DEF AuditCounts
  <2> QED BY <2>1, <2>2, <2>4, <2>5 DEF AuditCounts
<1>2. ASSUME NEW c \in Callers, NEW o \in {"completed", "failed"}, Operation(c, o) PROVE AuditCounts'
  <2>1. /\ apc[c] = "operation" /\ UNCHANGED <<log, calls, auditFaults>>
        /\ \E x : apc' = [apc EXCEPT ![c] = x]
        /\ event' = [event EXCEPT ![c] = Event(c, calls[c], o)]
    BY <1>2 DEF Operation, AGoes
  <2>2. Event(c, calls[c], o) \in Events
    <3>1. calls[c] \in 1..MaxCalls
      BY <2>1, AuditBounds DEF AuditCounts
    <3> QED BY <3>1 DEF Event, Events
  <2>3. \A d \in Callers : event'[d] \in Events
    BY <1>0, <2>1, <2>2 DEF AuditCounts
  <2>4. \A d \in Callers : apc'[d] \notin {"idle", "dead"} => calls'[d] > 0
    BY <1>0, <2>1 DEF AuditCounts
  <2> QED BY <2>1, <2>3, <2>4 DEF AuditCounts
<1>3. ASSUME NEW c \in Callers, NEW x, apc[c] \notin {"idle", "dead"}, UNCHANGED <<calls, event>>,
             UNCHANGED auditFaults \/ AuditFault, apc' = [apc EXCEPT ![c] = x],
             \/ UNCHANGED log
             \/ \E part \in {"head", "tail"} : log' = Append(log, Piece(event[c], part))
      PROVE  AuditCounts'
  BY <1>3, CallKept
<1>4. ASSUME NEW c \in Callers, Record(c) \/ EnterLock(c) \/ AuditLockTimeout(c) PROVE AuditCounts'
  <2>1. /\ apc[c] \notin {"idle", "dead"} /\ UNCHANGED <<calls, event, log>>
        /\ UNCHANGED auditFaults \/ AuditFault
        /\ \E x : apc' = [apc EXCEPT ![c] = x]
    BY <1>4 DEF Record, EnterLock, AuditLockTimeout, AGoes, Recorded, callVars
  <2> QED BY <2>1, <1>3
<1>5. ASSUME NEW c \in Callers, WriteLine(c) \/ WriteRest(c) PROVE AuditCounts'
  <2>1. /\ apc[c] \notin {"idle", "dead"} /\ UNCHANGED <<calls, event>>
        /\ UNCHANGED auditFaults \/ AuditFault
        /\ \E x : apc' = [apc EXCEPT ![c] = x]
        /\ \/ UNCHANGED log
           \/ \E part \in {"head", "tail"} : log' = Append(log, Piece(event[c], part))
    BY <1>5 DEF WriteLine, WriteRest, Recorded, callVars
  <2> QED BY <2>1, <1>3
<1>6. ASSUME NEW c \in Callers, SecureLog(c) \/ Return(c) \/ KilledCaller(c) PROVE AuditCounts'
  <2>1. /\ apc[c] \notin {"idle", "dead"} /\ UNCHANGED <<calls, event, log>>
        /\ UNCHANGED auditFaults \/ AuditFault
        /\ \E x : apc' = [apc EXCEPT ![c] = x]
    BY <1>6 DEF SecureLog, Return, KilledCaller, AGoes, Recorded, callVars
  <2> QED BY <2>1, <1>3
<1>7. CASE UNCHANGED auditVars
  BY <1>7 DEF auditVars, AuditCounts
<1> QED BY <1>1, <1>2, <1>4, <1>5, <1>6, <1>7 DEF AuditNext

\* AuditLogger.record: an event in the log or about to be written names a caller and a call it
\* really made, and only processes of this user hold the lock.
THEOREM AuditTypesKept == AuditSpec => []AuditTypeOK
<1>1. AuditInv /\ AuditCounts => AuditTypeOK
  <2> SUFFICES ASSUME AuditInv, AuditCounts PROVE AuditTypeOK
    OBVIOUS
  <2>1. /\ log \in Seq(LogPieces) /\ apc \in [Callers -> APc] /\ kind \in [Callers -> Kinds]
        /\ event \in [Callers -> LogEvents] /\ holders \subseteq Callers
    BY DEF AuditInv, AuditTypes, OneWriter
  <2>2. logged \in [Callers -> BOOLEAN]
    BY Zenon DEF AuditInv, AuditTypes
  <2>3. event \in [Callers -> Events]
    BY <2>1 DEF AuditCounts
  <2>4. log \in Seq([event : Events, part : {"head", "tail"}])
    <3>1. ASSUME NEW i \in 1..Len(log) PROVE log[i] \in [event : Events, part : {"head", "tail"}]
      <4>1. log[i] \in LogPieces /\ log[i].event \in Events
        BY <2>1 DEF AuditCounts
      <4> QED BY <4>1 DEF LogPieces
    <3> DEFINE S == [event : Events, part : {"head", "tail"}]
    <3>2. Len(log) \in Nat /\ log = [i \in 1..Len(log) |-> log[i]]
      BY <2>1
    <3> HIDE DEF S
    <3>3. log \in [1..Len(log) -> S]
      BY <3>1, <3>2 DEF S
    <3>4. log \in Seq(S)
      BY <3>2, <3>3
    <3> QED BY <3>4 DEF S
  <2> QED BY <2>1, <2>2, <2>3, <2>4, Zenon DEF AuditTypeOK, AuditCounts
<1>2. AuditInv /\ [AuditNext]_auditVars => AuditInv'
  BY AuditStep
<1>3. AuditInv /\ AuditCounts /\ [AuditNext]_auditVars => AuditCounts'
  BY AuditCountsStep
<1> QED BY <1>1, <1>2, <1>3, AuditInitially, AuditCountsInit, PTL DEF AuditSpec
=============================================================================
