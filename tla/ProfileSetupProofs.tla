-------------------------- MODULE ProfileSetupProofs --------------------------
(***************************************************************************)
(* Proofs about ProfileSetup, for any number of requests, profiles and     *)
(* tries.  A hash comparison lets a transition replace a file only if it   *)
(* is the one it knows; that this is enough needs more than the comparison *)
(* itself: a profile that was replaced must not come back by the rollback  *)
(* of another window (OneRollback), and what the operation of a window     *)
(* wrote must be traced in the file and in every snapshot (NotHeld).       *)
(***************************************************************************)
EXTENDS ProfileSetup, TLAPS

-----------------------------------------------------------------------------
(* The inductive invariant *)

\* The transition has saved its password profile and may still roll it back.
Staged(r) == apc[r] \in {"key", "switch", "login", "confirm", "rollback", "restore"}

\* An operation is running and has written nothing yet.
Started(r) == apc[r] \in {"save", "remove", "removing", "test", "install", "stage"}

\* The process has not ended, so that the number of its tries still counts.
Counting(r) == apc[r] \notin {"failing", "fail", "exited"}

\* A profile in the file, or one that a rollback may still bring back.
Held(p, e) ==
  \/ config[p] = e
  \/ \E x \in Requests : Staged(x) /\ win[x].name = p /\ win[x].original[p] = e

\* What goes with each point of the setup process.
WindowShape(r) ==
  /\ apc[r] \in {"launched", "expire", "start", "build", "window"} =>
       win[r].action \in SetupAction /\ (win[r].action # "add" => win[r].name \in Profiles)
  /\ Started(r) \/ Staged(r) => win[r].name \in Profiles /\ win[r].action \in SetupAction
  /\ apc[r] = "window" /\ win[r].tries > 0 => win[r].name \in Profiles
  /\ apc[r] \in {"save", "install", "stage"} \/ Staged(r) => win[r].action \in {"add", "edit"}
  /\ Counting(r) /\ ~Started(r) /\ ~Staged(r) /\ apc[r] \notin {"window", "finish"} => win[r].tries = 0
  /\ record[r] = "absent" => apc[r] = "none"
  /\ win[r].outcome # None => apc[r] = "finish"
  /\ apc[r] = "finish" => win[r].outcome \in Done

\* The file a transition owns is its snapshot with its own profile in it.
OwnedShape(r) ==
  Staged(r) =>
    /\ \A p \in Profiles : p # win[r].name => win[r].owned[p] = win[r].original[p]
    /\ win[r].owned[win[r].name] \in {Written(r, "password"), Written(r, "key")}
    /\ win[r].original[win[r].name] \notin {Written(r, "password"), Written(r, "key")}
    /\ wrote[r] \in {"password", "key"}
    /\ apc[r] \in {"key", "switch"} => wrote[r] = "password"
    /\ apc[r] \in {"login", "confirm"} => wrote[r] = "key"
    /\ wrote[r] = "password" => win[r].owned[win[r].name] = Written(r, "password")
    /\ apc[r] \in {"switch", "login", "confirm"} => r \in authorized /\ win[r].installed
    /\ wrote[r] = "key" => win[r].installed

\* A profile that a transition replaced is back only after its rollback, and no two
\* transitions can bring back the same one.
OneRollback(r) ==
  Staged(r) /\ win[r].original[win[r].name] # None =>
    /\ config[win[r].name] # win[r].original[win[r].name]
    /\ \A x \in Requests : x # r /\ Staged(x) /\ win[x].name = win[r].name =>
         win[x].original[win[r].name] # win[r].original[win[r].name]

\* Where a profile of the current operation cannot be.
NotHeld(r) ==
  /\ Counting(r) => \A p \in Profiles, j \in 0..MaxTries, k \in {"plain", "password", "key"} :
                      j > win[r].tries => ~Held(p, <<r, j, k>>)
  /\ Started(r) => \A p \in Profiles, k \in {"plain", "password", "key"} : ~Held(p, Written(r, k))
  /\ Staged(r) /\ wrote[r] = "password" => ~Held(win[r].name, Written(r, "key"))
  /\ Staged(r) /\ wrote[r] = "key" => ~Held(win[r].name, Written(r, "password"))
  /\ apc[r] = "window" /\ win[r].tries > 0 =>
       /\ win[r].report \notin {"skipped_concurrent_change", "failed"} =>
            ~Held(win[r].name, Written(r, "key"))
       /\ win[r].report = "rolled_back" => ~Held(win[r].name, Written(r, "password"))

\* The record says created, updated or removed only after the process has ended, and then
\* as its outcome said.
RecordShape(r) ==
  /\ record[r] \in {"created", "updated", "removed"} => apc[r] \in {"failing", "exited"}
  /\ \A s \in {record[r], win[r].outcome} :
       /\ s \in {"created", "updated"} => wrote[r] = "plain" \/ (wrote[r] = "key" /\ r \in authorized)
       /\ s = "removed" => wrote[r] = "removed"

SetupInv ==
  TypeOK /\ \A r \in Requests : /\ WindowShape(r) /\ OwnedShape(r) /\ OneRollback(r)
                                /\ NotHeld(r) /\ RecordShape(r)

-----------------------------------------------------------------------------
(* Facts about values *)

Kinds == {"plain", "password", "key"}
Others(r) == \A u \in Requests : u # r =>
  /\ record'[u] = record[u] /\ apc'[u] = apc[u] /\ win'[u] = win[u] /\ wrote'[u] = wrote[u]
  /\ u \in authorized' <=> u \in authorized

LEMMA Values ==
  /\ \A r \in Requests, j \in 0..MaxTries, k \in Kinds : <<r, j, k>> # None /\ <<r, j, k>> \in Profile
  /\ \A r, u, j, i, k, l : <<r, j, k>> = <<u, i, l>> => r = u /\ j = i /\ k = l
  /\ None \notin Done /\ None \notin LocalRollbackStatus
BY NoValueAssumption DEF Profile, Kinds

LEMMA MemoryFacts ==
  ASSUME TypeOK, NEW r \in Requests
  PROVE  /\ win[r] \in Memory /\ win[r].tries \in 0..MaxTries /\ win[r].tries \in Nat
         /\ win[r].original \in File /\ win[r].owned \in File
         /\ \A k \in Kinds : Written(r, k) # None /\ Written(r, k) \in Profile
<1>1. win[r] \in Memory
  BY DEF TypeOK
<1>2. win[r].tries \in 0..MaxTries /\ win[r].original \in File /\ win[r].owned \in File
  BY <1>1 DEF Memory
<1> QED
  BY <1>1, <1>2, TriesAssumption, Values DEF Written

\* A step of one process says nothing of the others but through the file.
LEMMA OtherWindows ==
  ASSUME SetupInv, NEW r \in Requests, Others(r), NEW u \in Requests, u # r,
         \A p \in Profiles : \A e : Held(p, e)' =>
           Held(p, e) \/ e = None \/ \E j \in 0..MaxTries, k \in Kinds : e = <<r, j, k>>
  PROVE  WindowShape(u)' /\ OwnedShape(u)' /\ NotHeld(u)' /\ RecordShape(u)'
<1>1. /\ record'[u] = record[u] /\ apc'[u] = apc[u] /\ win'[u] = win[u] /\ wrote'[u] = wrote[u]
      /\ u \in authorized' <=> u \in authorized
  BY DEF Others
<1>2. /\ Staged(u)' <=> Staged(u)
      /\ Started(u)' <=> Started(u)
      /\ Counting(u)' <=> Counting(u)
      /\ \A k : Written(u, k)' = Written(u, k)
  BY <1>1 DEF Staged, Started, Counting, Written
<1>3. WindowShape(u) /\ OwnedShape(u) /\ NotHeld(u) /\ RecordShape(u) /\ TypeOK
  BY DEF SetupInv
<1>4. WindowShape(u)'
  BY <1>1, <1>2, <1>3 DEF WindowShape
<1>5. OwnedShape(u)'
  BY <1>1, <1>2, <1>3 DEF OwnedShape
<1>6. RecordShape(u)'
  BY <1>1, <1>3 DEF RecordShape
<1>7. \A p \in Profiles : \A j \in 0..MaxTries, k \in Kinds : Held(p, <<u, j, k>>)' => Held(p, <<u, j, k>>)
  BY Values
<1>8. win[u].tries \in 0..MaxTries
  BY <1>3, MemoryFacts
<1>9. \A p \in Profiles : \A k \in Kinds : Held(p, Written(u, k))' => Held(p, Written(u, k))
  BY <1>1, <1>7, <1>8 DEF Written
<1>10. NotHeld(u)'
  BY <1>1, <1>2, <1>3, <1>7, <1>9 DEF NotHeld, WindowShape, Kinds
<1> QED
  BY <1>4, <1>5, <1>6, <1>10

-----------------------------------------------------------------------------
(* What a step does to the file and to what a rollback may bring back *)

LEMMA FileKept ==
  ASSUME SetupInv, NEW r \in Requests, Others(r), UNCHANGED config,
         Staged(r)' => /\ Staged(r) /\ win'[r].name = win[r].name
                       /\ win'[r].original = win[r].original
  PROVE  /\ \A p \in Profiles : \A e : Held(p, e)' => Held(p, e)
         /\ \A u \in Requests : OneRollback(u)'
<1>1. \A x \in Requests : Staged(x)' => /\ Staged(x) /\ win'[x].name = win[x].name
                                        /\ win'[x].original = win[x].original
  BY DEF Others, Staged
<1>2. \A p \in Profiles : \A e : Held(p, e)' => Held(p, e)
  BY <1>1 DEF Held
<1>3. \A u \in Requests : OneRollback(u)'
  BY <1>1 DEF SetupInv, OneRollback
<1> QED
  BY <1>2, <1>3

\* A profile is put into the file, and nothing else is changed in it.
Put(n, w) == config' = [config EXCEPT ![n] = w]

\* The process puts its own profile into the file: one that was nowhere before.
LEMMA FilePut ==
  ASSUME SetupInv, NEW r \in Requests, Others(r), NEW k \in Kinds, NEW n \in Profiles,
         n = win[r].name, win'[r].name = n, NEW w, w = Written(r, k),
         Put(n, w), ~Held(n, w),
         Staged(r)' => \/ Staged(r) /\ win'[r].original = win[r].original
                       \/ ~Staged(r) /\ win'[r].original = config
  PROVE  /\ \A p \in Profiles : \A e : Held(p, e)' => Held(p, e) \/ (p = n /\ e = w)
         /\ \A u \in Requests : OneRollback(u)'
<1>1. \A x \in Requests : x # r => /\ Staged(x)' <=> Staged(x)
                                   /\ win'[x] = win[x]
  BY DEF Others, Staged
<1>2. config'[n] = w /\ \A p \in Profiles : p # n => config'[p] = config[p]
  BY DEF Put, SetupInv, TypeOK, File
<1>4. \A x \in Requests : Staged(x) => win[x].name \in Profiles
  BY DEF SetupInv, WindowShape
<1>5. \A p \in Profiles : \A e : Held(p, e)' => Held(p, e) \/ (p = n /\ e = w)
  BY <1>1, <1>2 DEF Held
<1>6. ASSUME NEW u \in Requests, u # r PROVE OneRollback(u)'
  <2> SUFFICES ASSUME Staged(u), win[u].original[win[u].name] # None
               PROVE  /\ config'[win[u].name] # win[u].original[win[u].name]
                      /\ \A x \in Requests : x # u /\ Staged(x)' /\ win'[x].name = win[u].name =>
                           win'[x].original[win[u].name] # win[u].original[win[u].name]
    BY <1>1, <1>6 DEF OneRollback
  <2>1. OneRollback(u) /\ Held(win[u].name, win[u].original[win[u].name])
    BY DEF SetupInv, Held
  <2>2. config'[win[u].name] # win[u].original[win[u].name]
    BY <1>2, <1>4, <2>1 DEF OneRollback
  <2>3. ASSUME NEW x \in Requests, x # u, Staged(x)', win'[x].name = win[u].name
        PROVE  win'[x].original[win[u].name] # win[u].original[win[u].name]
    BY <1>1, <2>1, <2>3 DEF OneRollback
  <2> QED
    BY <2>2, <2>3
<1>7. OneRollback(r)'
  <2> SUFFICES ASSUME Staged(r)', win'[r].original[n] # None
               PROVE  /\ w # win'[r].original[n]
                      /\ \A x \in Requests : x # r /\ Staged(x) /\ win[x].name = n =>
                           win[x].original[n] # win'[r].original[n]
    BY <1>1, <1>2 DEF OneRollback
  <2>1. CASE Staged(r) /\ win'[r].original = win[r].original
    <3>1. OneRollback(r) /\ Held(n, win[r].original[n])
      BY <2>1 DEF SetupInv, Held
    <3> QED
      BY <2>1, <3>1 DEF OneRollback
  <2>2. CASE win'[r].original = config
    <3>1. w # config[n]
      BY DEF Held
    <3>2. \A x \in Requests : Staged(x) /\ win[x].name = n => win[x].original[n] = None \/ config[n] # win[x].original[n]
      BY DEF SetupInv, OneRollback
    <3> QED
      BY <2>2, <3>1, <3>2
  <2> QED
    BY <2>1, <2>2
<1> QED
  BY <1>5, <1>6, <1>7

\* The process takes its profile out of the file.
LEMMA FileRemoved ==
  ASSUME SetupInv, NEW r \in Requests, Others(r), ~Staged(r)', win[r].name \in Profiles,
         config' = [config EXCEPT ![win[r].name] = None]
  PROVE  /\ \A p \in Profiles : \A e : Held(p, e)' => Held(p, e) \/ e = None
         /\ \A u \in Requests : OneRollback(u)'
<1>1. \A x \in Requests : Staged(x)' => Staged(x) /\ win'[x] = win[x]
  BY DEF Others, Staged
<1>2. \A p \in Profiles : config'[p] = config[p] \/ config'[p] = None
  BY DEF SetupInv, TypeOK, File
<1>4. \A p \in Profiles : \A e : Held(p, e)' => Held(p, e) \/ e = None
  BY <1>1, <1>2 DEF Held
<1>5. \A x \in Requests : Staged(x) => win[x].name \in Profiles
  BY DEF SetupInv, WindowShape
<1>6. \A u \in Requests : OneRollback(u)'
  BY <1>1, <1>2, <1>5 DEF SetupInv, OneRollback
<1> QED
  BY <1>4, <1>6

\* The transition rolls back: the file is its own, so only its own profile changes.
LEMMA FileRestored ==
  ASSUME SetupInv, NEW r \in Requests, Others(r), Staged(r), ~Staged(r)',
         config = win[r].owned, config' = win[r].original
  PROVE  /\ \A p \in Profiles : p # win[r].name => config'[p] = config[p]
         /\ \A p \in Profiles : \A e : Held(p, e)' => Held(p, e)
         /\ \A u \in Requests : OneRollback(u)'
<1>1. \A x \in Requests : Staged(x)' => x # r /\ Staged(x) /\ win'[x] = win[x]
  BY DEF Others, Staged
<1>2. \A p \in Profiles : p # win[r].name => config'[p] = config[p]
  BY DEF SetupInv, OwnedShape
<1>3. \A p \in Profiles : \A e : Held(p, e)' => Held(p, e)
  BY <1>1, <1>2 DEF Held
<1>4. \A x \in Requests : Staged(x) => win[x].name \in Profiles
  BY DEF SetupInv, WindowShape
<1>5. ASSUME NEW u \in Requests PROVE OneRollback(u)'
  <2> SUFFICES ASSUME u # r, Staged(u), win[u].original[win[u].name] # None
               PROVE  /\ config'[win[u].name] # win[u].original[win[u].name]
                      /\ \A x \in Requests : x # u /\ Staged(x)' /\ win'[x].name = win[u].name =>
                           win'[x].original[win[u].name] # win[u].original[win[u].name]
    BY <1>1 DEF OneRollback
  <2>1. OneRollback(u)
    BY DEF SetupInv
  <2> QED
    BY <1>1, <1>2, <1>4, <2>1 DEF OneRollback
<1> QED
  BY <1>2, <1>3, <1>5

-----------------------------------------------------------------------------
(* The steps of a process *)

\* A step that takes one process to a point with this memory.
Moves(r, to, m) ==
  /\ to \in AppPc /\ m \in Memory
  /\ apc' = [apc EXCEPT ![r] = to] /\ win' = [win EXCEPT ![r] = m]

Own(r) == WindowShape(r) /\ OwnedShape(r) /\ NotHeld(r) /\ RecordShape(r)

LEMMA MovesFacts ==
  ASSUME TypeOK, NEW r \in Requests, NEW to, NEW m, Moves(r, to, m)
  PROVE  /\ apc'[r] = to /\ win'[r] = m
         /\ \A u \in Requests : u # r => apc'[u] = apc[u] /\ win'[u] = win[u]
         /\ apc' \in [Requests -> AppPc]
         /\ win' \in [Requests -> Memory]
BY DEF TypeOK, Moves

\* The points of a process, for the leaves that compare them.
LEMMA Points ==
  AppPc = {"none", "launched", "build", "failing", "exited", "expire", "start", "finish", "fail",
           "window", "save", "remove", "removing", "test",
           "install", "stage", "key", "switch", "login", "confirm", "rollback", "restore"}
BY DEF AppPc, UpdatePc, WindowPc, TransitionPc

LEMMA BlankMemory == Blank \in Memory /\ Blank.outcome = None
<1>1. Empty \in File
  BY DEF Empty, File
<1>2. 0 \in 0..MaxTries
  BY TriesAssumption
<1> QED
  BY <1>1, <1>2 DEF Blank, Memory

LEMMA Assembled ==
  ASSUME SetupInv, NEW r \in Requests, TypeOK', Others(r), Own(r)',
         \A p \in Profiles : \A e : Held(p, e)' =>
           Held(p, e) \/ e = None \/ \E j \in 0..MaxTries, k \in Kinds : e = <<r, j, k>>,
         \A u \in Requests : OneRollback(u)'
  PROVE  SetupInv'
BY OtherWindows DEF SetupInv, Own

\* A step that leaves the file alone: the types, and what it asks of the process itself.
LEMMA LocalStep ==
  ASSUME SetupInv, NEW r \in Requests, NEW to, NEW m, Moves(r, to, m),
         NEW st \in SetupStatus \union {"absent"}, record' = [record EXCEPT ![r] = st],
         poll' \in [Requests -> {"idle", "expiring", "passed"}], due' \in [Requests -> BOOLEAN],
         UNCHANGED <<config, wrote>>, authorized' \in {authorized, authorized \union {r}},
         Staged(r)' => Staged(r) /\ m.name = win[r].name /\ m.original = win[r].original
  PROVE  /\ TypeOK' /\ Others(r)
         /\ \A p \in Profiles : \A e : Held(p, e)' => Held(p, e)
         /\ \A u \in Requests : OneRollback(u)'
         /\ apc'[r] = to /\ win'[r] = m /\ record'[r] = st
<1>0. TypeOK
  BY DEF SetupInv
<1>1. /\ apc'[r] = to /\ win'[r] = m
      /\ \A u \in Requests : u # r => apc'[u] = apc[u] /\ win'[u] = win[u]
      /\ apc' \in [Requests -> AppPc]
      /\ win' \in [Requests -> Memory]
  BY <1>0, MovesFacts
<1>2. record' \in [Requests -> SetupStatus \union {"absent"}] /\ record'[r] = st
      /\ \A u \in Requests : u # r => record'[u] = record[u]
  BY <1>0 DEF TypeOK
<1>3. TypeOK'
  BY <1>0, <1>1, <1>2 DEF TypeOK
<1>4. Others(r)
  BY <1>1, <1>2 DEF Others
<1> QED
  BY <1>1, <1>2, <1>3, <1>4, FileKept

\* The process stays where it is and the record changes or not: the clock, the poller
\* and a launcher that fails.
LEMMA RecordStep ==
  ASSUME SetupInv, NEW r \in Requests, LaunchFails(r) \/ ClockExpires(r) \/ PollStep(r)
  PROVE  SetupInv'
<1>0. /\ TypeOK /\ WindowShape(r) /\ OwnedShape(r) /\ NotHeld(r) /\ RecordShape(r)
      /\ apc[r] \in AppPc /\ win[r] \in Memory
  BY DEF SetupInv, TypeOK
<1>1. UNCHANGED <<apc, win, config, wrote, authorized>>
  BY DEF LaunchFails, ClockExpires, PollStep, expire_if_needed, ExpiryLoads, ExpiryWrites,
         ExpiryRaises, fileVars
<1>2. Moves(r, apc[r], win[r])
  <2>1. apc = [apc EXCEPT ![r] = apc[r]]
    BY <1>0 DEF TypeOK
  <2>2. win = [win EXCEPT ![r] = win[r]]
    BY <1>0 DEF TypeOK
  <2> QED
    BY <1>0, <1>1, <2>1, <2>2 DEF Moves
<1>3. PICK st \in SetupStatus \union {"absent"} :
        /\ record' = [record EXCEPT ![r] = st]
        /\ st = record[r] \/ st \in {"failed", "user_interaction_required", "expired"}
  <2>1. record' = record => record' = [record EXCEPT ![r] = record[r]]
    BY <1>0 DEF TypeOK
  <2>2. record[r] \in SetupStatus \union {"absent"}
    BY <1>0 DEF TypeOK
  <2>3. {"failed", "user_interaction_required", "expired"} \subseteq SetupStatus
    BY DEF SetupStatus, Open, Done
  <2>4. \/ record' = record
        \/ \E x \in {"failed", "user_interaction_required", "expired"} : record' = [record EXCEPT ![r] = x]
    BY DEF LaunchFails, ClockExpires, PollStep, expire_if_needed, ExpiryLoads, ExpiryWrites,
           ExpiryRaises, Set
  <2> QED
    BY <2>1, <2>2, <2>3, <2>4
<1>4. poll' \in [Requests -> {"idle", "expiring", "passed"}] /\ due' \in [Requests -> BOOLEAN]
  BY <1>0 DEF LaunchFails, ClockExpires, PollStep, expire_if_needed, ExpiryLoads, ExpiryWrites,
         ExpiryRaises, Set, TypeOK
<1>5. /\ TypeOK' /\ Others(r)
      /\ \A p \in Profiles : \A e : Held(p, e)' => Held(p, e)
      /\ \A u \in Requests : OneRollback(u)'
      /\ record'[r] = st
  BY ZenonT(40), <1>1, <1>2, <1>3, <1>4, LocalStep DEF Staged
<1>6. WindowShape(r)'
  BY <1>0, <1>1, <1>3, <1>5 DEF WindowShape, Started, Staged, Counting
<1>7. OwnedShape(r)'
  BY <1>0, <1>1 DEF OwnedShape, Staged, Written
<1>8. NotHeld(r)'
  <2>1. \A k : Written(r, k)' = Written(r, k)
    BY <1>1 DEF Written
  <2> QED
    BY <1>0, <1>1, <1>5, <2>1 DEF NotHeld, WindowShape, Started, Staged, Counting
<1>9. RecordShape(r)'
  BY <1>0, <1>1, <1>3, <1>5 DEF RecordShape
<1> QED
  BY <1>5, <1>6, <1>7, <1>8, <1>9, Assembled DEF Own

\* The process ends, or fails and will: nothing is left in its memory.
LEMMA EndStep ==
  ASSUME SetupInv, NEW r \in Requests, NEW to \in {"failing", "fail", "exited"}, NEW m,
         Moves(r, to, m), m.outcome = None,
         NEW st \in SetupStatus \union {"absent"}, record' = [record EXCEPT ![r] = st],
         UNCHANGED <<poll, due, config, wrote, authorized>>, apc[r] # "none",
         st = record[r] \/ st \notin {"absent", "created", "updated", "removed"}
           \/ (apc[r] = "finish" /\ st = win[r].outcome),
         to = "fail" => record[r] \in Open /\ st = record[r]
  PROVE  SetupInv'
<1>0. /\ TypeOK /\ WindowShape(r) /\ RecordShape(r) /\ record[r] # "absent"
  BY DEF SetupInv, WindowShape
<1>1. ~Staged(r)' /\ ~Started(r)' /\ ~Counting(r)' /\ apc'[r] = to
  BY <1>0, MovesFacts DEF Staged, Started, Counting
<1>2. /\ TypeOK' /\ Others(r)
      /\ \A p \in Profiles : \A e : Held(p, e)' => Held(p, e)
      /\ \A u \in Requests : OneRollback(u)'
      /\ win'[r] = m /\ record'[r] = st
  BY ZenonT(40), <1>0, <1>1, LocalStep DEF TypeOK
<1>3. st # "absent"
  BY <1>0, Values DEF WindowShape, Done
<1>4. WindowShape(r)'
  BY <1>1, <1>2, <1>3 DEF WindowShape
<1>5. OwnedShape(r)' /\ NotHeld(r)'
  BY <1>1 DEF OwnedShape, NotHeld
<1>6. RecordShape(r)'
  <2>1. st \in {"created", "updated", "removed"} => to \in {"failing", "exited"}
    BY DEF Open
  <2>2. None \notin {"created", "updated", "removed"}
    BY Values DEF Done
  <2> QED
    BY <1>0, <1>1, <1>2, <2>1, <2>2 DEF RecordShape
<1> QED
  BY <1>2, <1>4, <1>5, <1>6, Assembled DEF Own

LEMMA EndsEffect ==
  ASSUME TypeOK, NEW r \in Requests
  PROVE  /\ Exit(r) => Moves(r, "exited", Blank)
         /\ Raise(r) => \E to \in {"failing", "exited"} : Moves(r, to, Blank)
<1>1. "exited" \in AppPc /\ "failing" \in AppPc
  BY Points
<1> QED
  BY <1>1, BlankMemory DEF Exit, Raise, Goto, Set, Moves

LEMMA SameMemory ==
  ASSUME TypeOK, NEW r \in Requests
  PROVE  /\ record[r] \in SetupStatus \union {"absent"} /\ record = [record EXCEPT ![r] = record[r]]
         /\ win[r] \in Memory /\ win = [win EXCEPT ![r] = win[r]]
         /\ apc[r] \in AppPc /\ apc = [apc EXCEPT ![r] = apc[r]]
BY DEF TypeOK

\* A crash, an exception and every update that ends the process.
LEMMA EndingSteps ==
  ASSUME SetupInv, NEW r \in Requests,
         \/ AppCrashes(r) \/ AppRaises(r) \/ AppFails(r) \/ UpdateRaises(r)
         \/ AppLoads(r) /\ record[r] \notin Open
         \/ UpdateLoads(r) /\ record[r] \notin Open
         \/ UpdateWrites(r) /\ apc[r] # "start"
  PROVE  SetupInv'
<1>0. /\ TypeOK /\ WindowShape(r) /\ record[r] \in SetupStatus \union {"absent"}
      /\ record = [record EXCEPT ![r] = record[r]]
  BY SameMemory DEF SetupInv
<1>1. /\ UNCHANGED <<poll, due, config, wrote, authorized>> /\ apc[r] # "none"
  BY DEF AppCrashes, AppRaises, AppFails, UpdateRaises, AppLoads, UpdateLoads, UpdateWrites,
         recordVars, fileVars, UpdatePc
<1>2. CASE AppFails(r) /\ record[r] \in Open
  <2>1. apc' = [apc EXCEPT ![r] = "fail"] /\ UNCHANGED <<win, record>> /\ apc[r] = "failing"
    BY <1>2 DEF AppFails, Goto, Set, recordVars
  <2>2. Moves(r, "fail", win[r])
    BY <1>0, <2>1, SameMemory, Points DEF Moves
  <2>3. win[r].outcome = None
    BY <1>0, <2>1 DEF WindowShape
  <2> QED
    BY <1>0, <1>1, <1>2, <2>1, <2>2, <2>3, EndStep
<1>3. CASE ~(AppFails(r) /\ record[r] \in Open)
  <2>1. PICK to \in {"failing", "exited"} : Moves(r, to, Blank)
    <3>1. Exit(r) \/ Raise(r)
      BY <1>3 DEF AppCrashes, AppRaises, AppFails, UpdateRaises, AppLoads, UpdateLoads, UpdateWrites, Open
    <3> QED
      BY <1>0, <3>1, EndsEffect
  <2>2. PICK st \in SetupStatus \union {"absent"} :
          /\ record' = [record EXCEPT ![r] = st]
          /\ \/ st = record[r] \/ st \notin {"absent", "created", "updated", "removed"}
             \/ (apc[r] = "finish" /\ st = win[r].outcome)
    <3>1. record' = record \/ (apc[r] \in UpdatePc /\ record' = [record EXCEPT ![r] = NewStatus(r)])
      BY DEF AppCrashes, AppRaises, AppFails, UpdateRaises, AppLoads, UpdateLoads, UpdateWrites,
             recordVars, Set
    <3>2. apc[r] \in UpdatePc => \/ NewStatus(r) \in {"expired", "running", "failed"}
                                 \/ apc[r] = "finish" /\ NewStatus(r) = win[r].outcome /\ win[r].outcome \in Done
      BY <1>0 DEF NewStatus, UpdatePc, WindowShape
    <3>3. {"expired", "running", "failed"} \union Done \subseteq SetupStatus
      BY DEF SetupStatus, Open, Done
    <3> QED
      BY <1>0, <3>1, <3>2, <3>3
  <2> QED
    BY <1>1, <2>1, <2>2, BlankMemory, EndStep
<1> QED
  BY <1>2, <1>3

\* Before the first operation: the request is made, the process starts, the window opens.
LEMMA OpeningSteps ==
  ASSUME SetupInv, NEW r \in Requests,
         \/ Start(r) \/ BuildWindow(r)
         \/ AppLoads(r) /\ record[r] \in Open
         \/ UpdateWrites(r) /\ apc[r] = "start"
  PROVE  SetupInv'
<1>0. /\ TypeOK /\ WindowShape(r) /\ RecordShape(r) /\ NotHeld(r)
      /\ record[r] \in SetupStatus \union {"absent"}
      /\ record = [record EXCEPT ![r] = record[r]] /\ win[r] \in Memory
  BY SameMemory DEF SetupInv
<1>1. /\ UNCHANGED <<poll, due, config, wrote, authorized>>
      /\ apc[r] \in {"none", "build", "launched", "start"}
  BY <1>0 DEF Start, BuildWindow, AppLoads, UpdateWrites, recordVars, fileVars, WindowShape
<1>2. ~Staged(r) /\ ~Started(r) /\ Counting(r) /\ win[r].tries = 0
      /\ win[r].outcome = None
  <2>1. ~Staged(r) /\ ~Started(r) /\ Counting(r)
    BY <1>1 DEF Staged, Started, Counting
  <2> QED
    BY <1>0, <1>1, <2>1 DEF WindowShape
<1>3. PICK to \in {"launched", "window", "expire", "start", "build"}, m \in Memory,
           st \in {"user_interaction_required", "running", record[r]} :
        /\ Moves(r, to, m) /\ record' = [record EXCEPT ![r] = st] /\ st # "absent"
        /\ m.tries = win[r].tries /\ m.outcome = win[r].outcome
        /\ m.action \in SetupAction /\ (m.action # "add" => m.name \in Profiles)
        /\ st = record[r] => apc[r] # "none"
  <2>1. CASE Start(r)
    <3>1. PICK a \in SetupAction : \E p \in IF a = "add" THEN {None} ELSE Profiles :
            win' = [win EXCEPT ![r] = [@ EXCEPT !.action = a, !.name = p]]
      BY <2>1 DEF Start
    <3>2. PICK p \in IF a = "add" THEN {None} ELSE Profiles :
            win' = [win EXCEPT ![r] = [win[r] EXCEPT !.action = a, !.name = p]]
      BY <1>0, <3>1 DEF TypeOK
    <3> DEFINE m == [win[r] EXCEPT !.action = a, !.name = p]
    <3>3. /\ m \in Memory /\ m.tries = win[r].tries /\ m.outcome = win[r].outcome
          /\ m.action = a /\ m.name = p
      BY <1>0 DEF Memory
    <3>4. apc' = [apc EXCEPT ![r] = "launched"] /\ record' = [record EXCEPT ![r] = "user_interaction_required"]
          /\ record[r] = "absent"
      BY <2>1 DEF Start, Goto, Set
    <3>5. Moves(r, "launched", m)
      BY <3>2, <3>3, <3>4, Points DEF Moves
    <3> HIDE DEF m
    <3> QED
      BY <3>3, <3>4, <3>5
  <2>2. CASE BuildWindow(r) \/ (AppLoads(r) /\ record[r] \in Open)
    <3>1. /\ \E to \in {"window", "expire", "start"} : apc' = [apc EXCEPT ![r] = to]
          /\ UNCHANGED <<win, record>> /\ apc[r] \in {"build", "launched"}
      BY <2>2 DEF BuildWindow, AppLoads, Goto, Set, recordVars
    <3>2. \E to \in {"window", "expire", "start"} : Moves(r, to, win[r])
      BY <1>0, <3>1, SameMemory, Points DEF Moves
    <3>3. record[r] # "absent" /\ win[r].action \in SetupAction /\ (win[r].action # "add" => win[r].name \in Profiles)
      BY <1>0, <3>1 DEF WindowShape
    <3> QED
      BY <1>0, <3>1, <3>2, <3>3
  <2>3. CASE UpdateWrites(r) /\ apc[r] = "start"
    <3> DEFINE m == [win[r] EXCEPT !.passed = FALSE]
    <3>1. /\ apc' = [apc EXCEPT ![r] = "build"] /\ record' = [record EXCEPT ![r] = "running"]
          /\ win' = [win EXCEPT ![r] = m] /\ apc[r] = "start"
      BY <2>3, <1>0 DEF UpdateWrites, NewStatus, Goto, Set, TypeOK
    <3>2. /\ m \in Memory /\ m.tries = win[r].tries /\ m.outcome = win[r].outcome
          /\ m.action = win[r].action /\ m.name = win[r].name
      BY <1>0 DEF Memory
    <3>3. Moves(r, "build", m)
      BY <3>1, <3>2, Points DEF Moves
    <3>4. win[r].action \in SetupAction /\ (win[r].action # "add" => win[r].name \in Profiles)
      BY <1>0, <3>1 DEF WindowShape
    <3> HIDE DEF m
    <3> QED
      BY <3>1, <3>2, <3>3, <3>4
  <2> QED
    BY <2>1, <2>2, <2>3
<1>4. ~Staged(r)' /\ ~Started(r)' /\ apc'[r] = to
  BY <1>0, <1>3, MovesFacts DEF Staged, Started
<1>5. /\ st \in SetupStatus \union {"absent"}
      /\ poll' \in [Requests -> {"idle", "expiring", "passed"}] /\ due' \in [Requests -> BOOLEAN]
  BY <1>0, <1>1, <1>3 DEF SetupStatus, Open, TypeOK
<1>6. /\ TypeOK' /\ Others(r)
      /\ \A p \in Profiles : \A e : Held(p, e)' => Held(p, e)
      /\ \A u \in Requests : OneRollback(u)'
      /\ win'[r] = m /\ record'[r] = st
  <2>1. /\ Moves(r, to, m) /\ record' = [record EXCEPT ![r] = st] /\ UNCHANGED <<config, wrote>>
        /\ authorized' \in {authorized, authorized \union {r}}
    BY <1>1, <1>3
  <2> QED
    BY ONLY SetupInv, r \in Requests, <2>1, <1>4, <1>5, LocalStep
<1>7. WindowShape(r)'
  BY <1>2, <1>3, <1>4, <1>6 DEF WindowShape
<1>8. OwnedShape(r)'
  BY <1>4 DEF OwnedShape
<1>9. NotHeld(r)'
  BY <1>0, <1>2, <1>3, <1>4, <1>6 DEF NotHeld
<1>10. RecordShape(r)'
  <2>1. None \notin {"created", "updated", "removed"}
    BY Values DEF Done
  <2> QED
    BY <1>0, <1>1, <1>2, <1>3, <1>6, <2>1 DEF RecordShape
<1> QED
  BY <1>6, <1>7, <1>8, <1>9, <1>10, Assembled DEF Own

\* The update of a record that is open: nothing but the mark changes.
LEMMA UpdatePasses ==
  ASSUME SetupInv, NEW r \in Requests, UpdateLoads(r), record[r] \in Open
  PROVE  SetupInv'
<1>0. /\ TypeOK /\ WindowShape(r) /\ RecordShape(r) /\ NotHeld(r)
      /\ record[r] \in SetupStatus \union {"absent"}
      /\ record = [record EXCEPT ![r] = record[r]] /\ win[r] \in Memory
  BY SameMemory DEF SetupInv
<1> DEFINE m == [win[r] EXCEPT !.passed = TRUE]
<1>1. /\ UNCHANGED <<record, poll, due, config, wrote, authorized, apc>> /\ apc[r] \in UpdatePc
      /\ win' = [win EXCEPT ![r] = m]
  BY <1>0 DEF UpdateLoads, recordVars, fileVars, TypeOK
<1>2. /\ m \in Memory /\ m.tries = win[r].tries /\ m.outcome = win[r].outcome
      /\ m.action = win[r].action /\ m.name = win[r].name
  BY <1>0 DEF Memory
<1>3. Moves(r, apc[r], m)
  BY <1>0, <1>1, <1>2, SameMemory DEF Moves
<1> HIDE DEF m
<1>4. /\ ~Staged(r) /\ ~Started(r)
      /\ ~Staged(r)' /\ ~Started(r)' /\ apc[r] # "window"
      /\ Counting(r)' <=> Counting(r)
  BY <1>1 DEF Staged, Started, Counting, UpdatePc
<1>6. /\ TypeOK' /\ Others(r)
      /\ \A p \in Profiles : \A e : Held(p, e)' => Held(p, e)
      /\ \A u \in Requests : OneRollback(u)'
      /\ win'[r] = m
  BY <1>0, <1>1, <1>3, <1>4, LocalStep DEF TypeOK
<1>7. WindowShape(r)'
  BY <1>0, <1>1, <1>2, <1>4, <1>6 DEF WindowShape
<1>8. OwnedShape(r)' /\ NotHeld(r)'
  BY <1>0, <1>1, <1>2, <1>4, <1>6 DEF OwnedShape, NotHeld
<1>9. RecordShape(r)'
  BY <1>0, <1>1, <1>2, <1>6 DEF RecordShape
<1> QED
  BY <1>6, <1>7, <1>8, <1>9, Assembled DEF Own

-----------------------------------------------------------------------------
(* The ends of an operation *)

\* Nothing comes into the file but None and this operation's own profiles.
Grows(r) ==
  \A p \in Profiles : \A e : Held(p, e)' =>
    Held(p, e) \/ e = None \/ \E k \in Kinds : e = <<r, win[r].tries, k>>

LEMMA NothingNewer ==
  ASSUME SetupInv, NEW r \in Requests, Grows(r), Counting(r)
  PROVE  \A p \in Profiles, j \in 0..MaxTries, k \in Kinds :
           j > win[r].tries => ~Held(p, <<r, j, k>>)'
<1>1. \A p \in Profiles, j \in 0..MaxTries, k \in Kinds :
           j > win[r].tries => ~Held(p, <<r, j, k>>) /\ <<r, j, k>> # None
  BY Values DEF SetupInv, NotHeld, Kinds
<1>2. win[r].tries \in Nat
  BY MemoryFacts DEF SetupInv
<1>3. \A j \in 0..MaxTries : \A k, l : j > win[r].tries => <<r, j, k>> # <<r, win[r].tries, l>>
  BY <1>2, Values
<1> QED
  BY <1>1, <1>3 DEF Grows

LEMMA BackEffect ==
  ASSUME TypeOK, NEW r \in Requests, NEW s \in LocalRollbackStatus \union {None}, BackToWindow(r, s)
  PROVE  \E m : /\ Moves(r, "window", m) /\ m.name = win[r].name /\ m.tries = win[r].tries
                /\ m.action = win[r].action /\ m.outcome = win[r].outcome /\ m.report = s
<1> DEFINE m == [win[r] EXCEPT !.original = Empty, !.owned = Empty,
                               !.installed = FALSE, !.unknown = FALSE, !.report = s]
<1>1. Empty \in File /\ win[r] \in Memory
  BY DEF Empty, File, TypeOK
<1>2. /\ m \in Memory /\ m.name = win[r].name /\ m.tries = win[r].tries
      /\ m.action = win[r].action /\ m.outcome = win[r].outcome /\ m.report = s
  BY <1>1 DEF Memory
<1>3. apc' = [apc EXCEPT ![r] = "window"] /\ win' = [win EXCEPT ![r] = m]
  BY DEF BackToWindow, Goto, Set, TypeOK
<1> HIDE DEF m
<1> QED
  BY <1>2, <1>3, Points DEF Moves

LEMMA CompleteEffect ==
  ASSUME TypeOK, NEW r \in Requests, NEW s \in Done, Complete(r, s)
  PROVE  \E m : /\ Moves(r, "finish", m) /\ m.name = win[r].name /\ m.tries = win[r].tries
                /\ m.outcome = s
<1> DEFINE m == [win[r] EXCEPT !.original = Empty, !.owned = Empty,
                               !.installed = FALSE, !.unknown = FALSE, !.outcome = s]
<1>1. Empty \in File /\ win[r] \in Memory
  BY DEF Empty, File, TypeOK
<1>2. m \in Memory /\ m.name = win[r].name /\ m.tries = win[r].tries /\ m.outcome = s
  BY <1>1 DEF Memory
<1>3. apc' = [apc EXCEPT ![r] = "finish"] /\ win' = [win EXCEPT ![r] = m]
  BY DEF Complete, Goto, Set, TypeOK
<1> HIDE DEF m
<1> QED
  BY <1>2, <1>3, Points DEF Moves

\* The status that an operation reports is true of the file it has just written.
LEMMA CompleteOwn ==
  ASSUME SetupInv, NEW r \in Requests, NEW s \in Done, NEW m, Moves(r, "finish", m),
         m.tries = win[r].tries, m.outcome = s, record'[r] = record[r],
         apc[r] = "window" \/ Started(r) \/ Staged(r), Grows(r),
         s \in {"created", "updated"} => wrote'[r] = "plain" \/ (wrote'[r] = "key" /\ r \in authorized'),
         s = "removed" => wrote'[r] = "removed"
  PROVE  Own(r)'
<1>0. TypeOK /\ WindowShape(r) /\ RecordShape(r) /\ Counting(r) /\ apc[r] \notin {"none", "failing", "exited"}
  BY DEF SetupInv, Counting, Started, Staged
<1>1. /\ apc'[r] = "finish" /\ win'[r] = m /\ ~Staged(r)' /\ ~Started(r)'
  BY <1>0, MovesFacts DEF Staged, Started
<1>2. record[r] \notin {"created", "updated", "removed", "absent"}
  BY <1>0 DEF RecordShape, WindowShape
<1>3. WindowShape(r)'
  BY <1>1, <1>2 DEF WindowShape
<1>4. OwnedShape(r)'
  BY <1>1 DEF OwnedShape
<1>5. NotHeld(r)'
  BY <1>0, <1>1, NothingNewer DEF NotHeld, Kinds
<1>6. RecordShape(r)'
  BY <1>1, <1>2 DEF RecordShape
<1> QED
  BY <1>3, <1>4, <1>5, <1>6 DEF Own

\* The window says what became of the transition.
LEMMA BackOwn ==
  ASSUME SetupInv, NEW r \in Requests, NEW s \in LocalRollbackStatus \union {None},
         NEW m, Moves(r, "window", m), m.name = win[r].name, m.tries = win[r].tries,
         m.action = win[r].action, m.outcome = win[r].outcome, m.report = s,
         record'[r] = record[r], Started(r) \/ Staged(r), Grows(r),
         NEW n, n = win[r].name, NEW kw, kw = Written(r, "key"), NEW pw, pw = Written(r, "password"),
         s \notin {"skipped_concurrent_change", "failed"} => ~Held(n, kw)',
         s = "rolled_back" => ~Held(n, pw)',
         win[r].action \in SetupAction
  PROVE  Own(r)'
<1>0. /\ TypeOK /\ WindowShape(r) /\ RecordShape(r) /\ Counting(r) /\ n \in Profiles
      /\ apc[r] \notin {"none", "failing", "exited", "finish"}
  BY DEF SetupInv, Counting, Started, Staged, WindowShape
<1>1. /\ apc'[r] = "window" /\ win'[r] = m /\ ~Staged(r)' /\ ~Started(r)'
  BY <1>0, MovesFacts DEF Staged, Started
<1>2. record[r] \notin {"created", "updated", "removed", "absent"} /\ win[r].outcome = None
  BY <1>0 DEF RecordShape, WindowShape
<1>3. WindowShape(r)'
  BY <1>0, <1>1, <1>2 DEF WindowShape
<1>4. OwnedShape(r)'
  BY <1>1 DEF OwnedShape
<1>5. NotHeld(r)'
  <2>1. Written(r, "key")' = kw /\ Written(r, "password")' = pw
    BY <1>1 DEF Written
  <2> QED
    BY <1>0, <1>1, <2>1, NothingNewer DEF NotHeld, Kinds
<1>6. RecordShape(r)'
  <2>1. None \notin {"created", "updated", "removed"}
    BY Values DEF Done
  <2> QED
    BY <1>1, <1>2, <2>1 DEF RecordShape
<1> QED
  BY <1>3, <1>4, <1>5, <1>6 DEF Own

\* The same without a write.
LEMMA CompleteLocal ==
  ASSUME SetupInv, NEW r \in Requests, NEW s \in Done, Complete(r, s),
         UNCHANGED <<record, poll, due, config, wrote, authorized>>,
         apc[r] = "window" \/ Started(r) \/ Staged(r),
         s \in {"created", "updated"} => wrote[r] = "plain" \/ (wrote[r] = "key" /\ r \in authorized),
         s # "removed"
  PROVE  SetupInv'
<1>0. TypeOK
  BY DEF SetupInv
<1>1. PICK m : Moves(r, "finish", m) /\ m.tries = win[r].tries /\ m.outcome = s
  BY <1>0, CompleteEffect
<1>2. ~Staged(r)'
  BY <1>0, <1>1, MovesFacts DEF Staged
<1>3. /\ poll' \in [Requests -> {"idle", "expiring", "passed"}] /\ due' \in [Requests -> BOOLEAN]
      /\ record[r] \in SetupStatus \union {"absent"} /\ record' = [record EXCEPT ![r] = record[r]]
  BY <1>0, SameMemory DEF TypeOK
<1>4. /\ TypeOK' /\ Others(r)
      /\ \A p \in Profiles : \A e : Held(p, e)' => Held(p, e)
      /\ \A u \in Requests : OneRollback(u)'
  BY ZenonT(40), <1>1, <1>2, <1>3, LocalStep
<1>5. Own(r)'
  BY <1>1, <1>4, CompleteOwn DEF Grows
<1> QED
  BY <1>4, <1>5, Assembled

LEMMA BackLocal ==
  ASSUME SetupInv, NEW r \in Requests, NEW s \in LocalRollbackStatus \union {None},
         BackToWindow(r, s), UNCHANGED <<record, poll, due, config, wrote, authorized>>,
         Started(r) \/ Staged(r), win[r].action \in SetupAction,
         s \notin {"skipped_concurrent_change", "failed"} => ~Held(win[r].name, Written(r, "key")),
         s # "rolled_back"
  PROVE  SetupInv'
<1>0. TypeOK /\ win[r].name \in Profiles
  BY DEF SetupInv, WindowShape
<1>1. PICK m : /\ Moves(r, "window", m) /\ m.name = win[r].name /\ m.tries = win[r].tries
               /\ m.action = win[r].action /\ m.outcome = win[r].outcome /\ m.report = s
  BY <1>0, BackEffect
<1>2. ~Staged(r)'
  BY <1>0, <1>1, MovesFacts DEF Staged
<1>3. /\ poll' \in [Requests -> {"idle", "expiring", "passed"}] /\ due' \in [Requests -> BOOLEAN]
      /\ record[r] \in SetupStatus \union {"absent"} /\ record' = [record EXCEPT ![r] = record[r]]
  BY <1>0, SameMemory DEF TypeOK
<1>4. /\ TypeOK' /\ Others(r)
      /\ \A p \in Profiles : \A e : Held(p, e)' => Held(p, e)
      /\ \A u \in Requests : OneRollback(u)'
  BY ZenonT(40), <1>1, <1>2, <1>3, LocalStep
<1>5. PICK n, kw, pw : n = win[r].name /\ kw = Written(r, "key") /\ pw = Written(r, "password")
  OBVIOUS
<1>6. s \notin {"skipped_concurrent_change", "failed"} => ~Held(n, kw)'
  BY <1>0, <1>4, <1>5
<1>7. Own(r)'
  BY <1>1, <1>4, <1>5, <1>6, BackOwn DEF Grows
<1> QED
  BY <1>4, <1>7, Assembled

-----------------------------------------------------------------------------
(* The steps of the window and of the transition that leave the file alone *)

LEMMA EndOperation ==
  ASSUME SetupInv, NEW r \in Requests,
         \/ Cancel(r) \/ WindowExpires(r) \/ TestProfile(r) \/ SwitchCompletes(r)
         \/ OperationFails(r) \/ RollbackSkipped(r) \/ RollbackFails(r)
  PROVE  SetupInv'
<1>0. /\ TypeOK /\ WindowShape(r) /\ OwnedShape(r) /\ NotHeld(r)
  BY DEF SetupInv
<1>1. UNCHANGED <<record, poll, due, config, wrote, authorized>>
  BY DEF Cancel, WindowExpires, TestProfile, SwitchCompletes, OperationFails, RollbackSkipped,
         RollbackFails, recordVars, fileVars
<1>2. CASE Cancel(r) \/ WindowExpires(r) \/ TestProfile(r)
  <2>1. PICK s \in {"cancelled", "expired", "tested"} : Complete(r, s)
    BY <1>2 DEF Cancel, WindowExpires, TestProfile
  <2>2. apc[r] = "window" \/ Started(r)
    BY <1>2 DEF Cancel, WindowExpires, TestProfile, Started
  <2>3. s \in Done
    BY DEF Done
  <2> QED
    BY <1>1, <2>1, <2>2, <2>3, CompleteLocal
<1>3. CASE SwitchCompletes(r)
  <2>1. apc[r] = "confirm" /\ Staged(r) /\ Complete(r, StatusOf(win[r].action))
    BY <1>3 DEF SwitchCompletes, Staged
  <2>2. win[r].action \in {"add", "edit"} /\ wrote[r] = "key" /\ r \in authorized
    BY <1>0, <2>1 DEF WindowShape, OwnedShape
  <2>3. StatusOf(win[r].action) \in {"created", "updated"} /\ {"created", "updated"} \subseteq Done
    BY <2>2 DEF StatusOf, Done
  <2> QED
    BY <1>1, <2>1, <2>2, <2>3, CompleteLocal
<1>4. CASE OperationFails(r)
  <2>1. Started(r) /\ BackToWindow(r, None)
    BY <1>4 DEF OperationFails, Started
  <2>2. win[r].name \in Profiles /\ win[r].action \in SetupAction /\ ~Held(win[r].name, Written(r, "key"))
    BY <1>0, <2>1 DEF WindowShape, NotHeld
  <2>3. None # "rolled_back"
    BY Values DEF LocalRollbackStatus
  <2> QED
    BY <1>1, <2>1, <2>2, <2>3, BackLocal
<1>5. CASE RollbackSkipped(r) \/ RollbackFails(r)
  <2>1. PICK status \in {"skipped_concurrent_change", "failed"} : BackToWindow(r, Told(r, status))
    BY <1>5 DEF RollbackSkipped, RollbackFails
  <2>2. Staged(r)
    BY <1>5 DEF RollbackSkipped, RollbackFails, Staged
  <2>3. Told(r, status) = status \/ (Told(r, status) = None /\ ~win[r].installed)
    BY DEF Told
  <2>4. ~win[r].installed => ~Held(win[r].name, Written(r, "key"))
    BY <1>0, <2>2 DEF OwnedShape, NotHeld
  <2>5. /\ None # "rolled_back" /\ status # "rolled_back" /\ status \in LocalRollbackStatus
    BY Values DEF LocalRollbackStatus
  <2>6. win[r].action \in SetupAction
    BY <1>0, <2>2 DEF WindowShape
  <2>7. PICK s \in LocalRollbackStatus \union {None} : s = Told(r, status)
    BY <2>3, <2>5
  <2> QED
    BY <1>1, <2>1, <2>2, <2>3, <2>4, <2>5, <2>6, <2>7, BackLocal
<1> QED
  BY <1>2, <1>3, <1>4, <1>5

\* The user confirms: an operation with a new number, of which nothing is in the file.
LEMMA ConfirmStep ==
  ASSUME SetupInv, NEW r \in Requests, Confirm(r)
  PROVE  SetupInv'
<1>0. /\ TypeOK /\ WindowShape(r) /\ NotHeld(r) /\ RecordShape(r) /\ win[r] \in Memory
      /\ apc[r] = "window" /\ win[r].action \in SetupAction
      /\ UNCHANGED <<record, poll, due, config, wrote, authorized>>
  BY SameMemory DEF SetupInv, Confirm, recordVars, fileVars, WindowShape
<1>1. PICK where \in {"remove", "test", "save", "install"} :
        /\ apc' = [apc EXCEPT ![r] = where]
        /\ where \in {"save", "install"} => win[r].action \in {"add", "edit"}
  BY <1>0 DEF Confirm, Goto, Set, SetupAction
<1>2. PICK p \in Profiles :
        win' = [win EXCEPT ![r] = [win[r] EXCEPT !.name = p, !.tries = win[r].tries + 1, !.report = None]]
  <2>1. \A p \in (IF win[r].action = "add" THEN Profiles ELSE {win[r].name}) : p \in Profiles
    BY <1>0 DEF WindowShape
  <2>2. PICK p \in (IF win[r].action = "add" THEN Profiles ELSE {win[r].name}) :
          win' = [win EXCEPT ![r] = [@ EXCEPT !.name = p, !.tries = win[r].tries + 1, !.report = None]]
    BY DEF Confirm
  <2>3. win' = [win EXCEPT ![r] = [win[r] EXCEPT !.name = p, !.tries = win[r].tries + 1, !.report = None]]
    BY <1>0, <2>2 DEF TypeOK
  <2> QED
    BY <2>1, <2>3
<1> DEFINE m == [win[r] EXCEPT !.name = p, !.tries = win[r].tries + 1, !.report = None]
<1>3. win[r].tries + 1 \in 0..MaxTries /\ win[r].tries + 1 > win[r].tries
  <2>1. win[r].tries \in 0..MaxTries /\ win[r].tries < MaxTries
    BY <1>0, MemoryFacts DEF Confirm
  <2> QED
    BY <2>1, TriesAssumption
<1>4. /\ m \in Memory /\ m.name = p /\ m.tries = win[r].tries + 1 /\ m.action = win[r].action
      /\ m.outcome = win[r].outcome
  BY <1>0, <1>3 DEF Memory
<1>5. Moves(r, where, m)
  BY <1>1, <1>2, <1>4, Points DEF Moves
<1> HIDE DEF m
<1>6. /\ apc'[r] = where /\ win'[r] = m /\ ~Staged(r)' /\ Started(r)' /\ Counting(r)' /\ Counting(r)
  BY <1>0, <1>5, MovesFacts DEF Staged, Started, Counting
<1>7. /\ poll' \in [Requests -> {"idle", "expiring", "passed"}] /\ due' \in [Requests -> BOOLEAN]
      /\ record[r] \in SetupStatus \union {"absent"} /\ record' = [record EXCEPT ![r] = record[r]]
  BY <1>0, SameMemory DEF TypeOK
<1>8. /\ TypeOK' /\ Others(r)
      /\ \A q \in Profiles : \A e : Held(q, e)' => Held(q, e)
      /\ \A u \in Requests : OneRollback(u)'
  BY ZenonT(40), <1>0, <1>5, <1>6, <1>7, LocalStep
<1>9. WindowShape(r)'
  BY <1>0, <1>1, <1>4, <1>6 DEF WindowShape
<1>10. OwnedShape(r)'
  BY <1>6 DEF OwnedShape
<1>11. NotHeld(r)'
  <2>1. \A k : Written(r, k)' = <<r, win[r].tries + 1, k>>
    BY <1>4, <1>6 DEF Written
  <2>2. \A q \in Profiles, j \in 0..MaxTries, k \in {"plain", "password", "key"} :
          j > win[r].tries => ~Held(q, <<r, j, k>>)
    BY <1>0, <1>6 DEF NotHeld
  <2>3. \A j \in 0..MaxTries : j > win[r].tries + 1 => j > win[r].tries
    BY <1>0, MemoryFacts
  <2> QED
    BY <1>3, <1>4, <1>6, <1>8, <2>1, <2>2, <2>3 DEF NotHeld
<1>12. RecordShape(r)'
  BY <1>0, <1>4, <1>6 DEF RecordShape
<1> QED
  BY <1>8, <1>9, <1>10, <1>11, <1>12, Assembled DEF Own

\* Nothing is written yet: a snapshot is taken.
LEMMA SnapshotStep ==
  ASSUME SetupInv, NEW r \in Requests, RemoveLoads(r) \/ InstallLoads(r)
  PROVE  SetupInv'
<1>0. /\ TypeOK /\ WindowShape(r) /\ NotHeld(r) /\ RecordShape(r) /\ win[r] \in Memory /\ config \in File
      /\ UNCHANGED <<record, poll, due, config, wrote, authorized>>
  BY SameMemory DEF SetupInv, RemoveLoads, InstallLoads, recordVars, fileVars, TypeOK
<1> DEFINE m == [win[r] EXCEPT !.original = config]
<1>1. PICK to \in {"removing", "stage"} :
        /\ apc' = [apc EXCEPT ![r] = to] /\ win' = [win EXCEPT ![r] = m]
        /\ to = "stage" => apc[r] = "install"
        /\ apc[r] \in {"remove", "install"}
  BY <1>0 DEF RemoveLoads, InstallLoads, Goto, Set, TypeOK
<1>4. /\ m \in Memory /\ m.name = win[r].name /\ m.tries = win[r].tries /\ m.action = win[r].action
      /\ m.outcome = win[r].outcome
  BY <1>0 DEF Memory
<1>5. Moves(r, to, m)
  BY <1>1, <1>4, Points DEF Moves
<1> HIDE DEF m
<1>6. /\ apc'[r] = to /\ win'[r] = m /\ ~Staged(r)' /\ Started(r)' /\ Counting(r)'
      /\ Counting(r) /\ Started(r)
  BY <1>0, <1>1, <1>5, MovesFacts DEF Staged, Started, Counting
<1>7. /\ poll' \in [Requests -> {"idle", "expiring", "passed"}] /\ due' \in [Requests -> BOOLEAN]
      /\ record[r] \in SetupStatus \union {"absent"} /\ record' = [record EXCEPT ![r] = record[r]]
  BY <1>0, SameMemory DEF TypeOK
<1>8. /\ TypeOK' /\ Others(r)
      /\ \A q \in Profiles : \A e : Held(q, e)' => Held(q, e)
      /\ \A u \in Requests : OneRollback(u)'
  BY <1>0, <1>5, <1>6, <1>7, LocalStep
<1>9. WindowShape(r)'
  BY <1>0, <1>1, <1>4, <1>6 DEF WindowShape
<1>10. OwnedShape(r)'
  BY <1>6 DEF OwnedShape
<1>11. NotHeld(r)'
  <2>1. \A k : Written(r, k)' = Written(r, k)
    BY <1>4, <1>6 DEF Written
  <2> QED
    BY <1>0, <1>4, <1>6, <1>8, <2>1 DEF NotHeld
<1>12. RecordShape(r)'
  BY <1>0, <1>1, <1>4, <1>6 DEF RecordShape
<1> QED
  BY <1>8, <1>9, <1>10, <1>11, <1>12, Assembled DEF Own

\* Within a transition: the key, the login, and the way to the rollback.
LEMMA TransitionGoesOn ==
  ASSUME SetupInv, NEW r \in Requests,
         \/ InstallKey(r) \/ InstallKeyFails(r) \/ FreshLogin(r) \/ TransitionFails(r)
         \/ RollbackLoads(r)
  PROVE  SetupInv'
<1>0. /\ TypeOK /\ WindowShape(r) /\ OwnedShape(r) /\ NotHeld(r) /\ RecordShape(r) /\ win[r] \in Memory
      /\ UNCHANGED <<record, poll, due, config, wrote>>
  BY SameMemory DEF SetupInv, InstallKey, InstallKeyFails, FreshLogin, TransitionFails, RollbackLoads,
                    recordVars, fileVars
<1>1. PICK to \in {"switch", "rollback", "confirm", "restore"}, m \in Memory :
        /\ Moves(r, to, m)
        /\ m.name = win[r].name /\ m.tries = win[r].tries /\ m.action = win[r].action
        /\ m.outcome = win[r].outcome /\ m.original = win[r].original /\ m.owned = win[r].owned
        /\ win[r].installed => m.installed
        /\ to = "switch" => apc[r] = "key" /\ m.installed /\ r \in authorized'
        /\ to = "confirm" => apc[r] = "login"
        /\ authorized' \in {authorized, authorized \union {r}}
  <2>1. CASE InstallKey(r)
    <3> DEFINE m == [win[r] EXCEPT !.installed = TRUE]
    <3>1. /\ apc' = [apc EXCEPT ![r] = "switch"] /\ win' = [win EXCEPT ![r] = m] /\ apc[r] = "key"
          /\ authorized' = authorized \union {r}
      BY <2>1, <1>0 DEF InstallKey, Goto, Set, TypeOK
    <3>2. /\ m \in Memory /\ m.name = win[r].name /\ m.tries = win[r].tries /\ m.action = win[r].action
          /\ m.outcome = win[r].outcome /\ m.original = win[r].original /\ m.owned = win[r].owned
          /\ m.installed = TRUE
      BY <1>0 DEF Memory
    <3> HIDE DEF m
    <3>3. Moves(r, "switch", m)
      BY <3>1, <3>2, Points DEF Moves
    <3> QED
      BY <3>1, <3>2, <3>3
  <2>2. CASE InstallKeyFails(r)
    <3>0. PICK v \in BOOLEAN : win' = [win EXCEPT ![r] = [win[r] EXCEPT !.unknown = v]]
      BY <2>2, <1>0 DEF InstallKeyFails, TypeOK
    <3> DEFINE m == [win[r] EXCEPT !.unknown = v]
    <3>1. /\ apc' = [apc EXCEPT ![r] = "rollback"] /\ win' = [win EXCEPT ![r] = m]
          /\ authorized' \in {authorized, authorized \union {r}}
      BY <2>2, <3>0 DEF InstallKeyFails, Goto, Set
    <3>2. /\ m \in Memory /\ m.name = win[r].name /\ m.tries = win[r].tries /\ m.action = win[r].action
          /\ m.outcome = win[r].outcome /\ m.original = win[r].original /\ m.owned = win[r].owned
          /\ m.installed = win[r].installed
      BY <1>0 DEF Memory
    <3> HIDE DEF m
    <3>3. Moves(r, "rollback", m)
      BY <3>1, <3>2, Points DEF Moves
    <3> QED
      BY <3>1, <3>2, <3>3
  <2>3. CASE FreshLogin(r) \/ TransitionFails(r) \/ RollbackLoads(r)
    <3>1. /\ \E to \in {"confirm", "rollback", "restore"} :
               apc' = [apc EXCEPT ![r] = to] /\ (to = "confirm" => apc[r] = "login")
          /\ UNCHANGED <<win, authorized>>
      BY <2>3 DEF FreshLogin, TransitionFails, RollbackLoads, Goto, Set
    <3>2. PICK to \in {"confirm", "rollback", "restore"} :
            apc' = [apc EXCEPT ![r] = to] /\ (to = "confirm" => apc[r] = "login")
      BY <3>1
    <3>3. to \in AppPc
      BY Points
    <3>4. win = [win EXCEPT ![r] = win[r]]
      BY <1>0, SameMemory
    <3>5. Moves(r, to, win[r])
      BY <1>0, <3>1, <3>2, <3>3, <3>4 DEF Moves
    <3>6. to # "switch" /\ to \in {"switch", "rollback", "confirm", "restore"}
      OBVIOUS
    <3>7. authorized' \in {authorized, authorized \union {r}}
      BY <3>1
    <3> QED
      BY <1>0, <3>2, <3>5, <3>6, <3>7
  <2> QED
    BY <2>1, <2>2, <2>3
<1>2. Staged(r) /\ Counting(r) /\ ~Started(r) /\ apc[r] \notin {"finish", "window", "none"}
  BY DEF InstallKey, InstallKeyFails, FreshLogin, TransitionFails, RollbackLoads, Staged, Started, Counting
<1>6. /\ apc'[r] = to /\ win'[r] = m /\ Staged(r)' /\ ~Started(r)' /\ Counting(r)'
  BY <1>0, <1>1, MovesFacts DEF Staged, Started, Counting
<1>7. /\ poll' \in [Requests -> {"idle", "expiring", "passed"}] /\ due' \in [Requests -> BOOLEAN]
      /\ record[r] \in SetupStatus \union {"absent"} /\ record' = [record EXCEPT ![r] = record[r]]
  BY <1>0, SameMemory DEF TypeOK
<1>8. /\ TypeOK' /\ Others(r)
      /\ \A q \in Profiles : \A e : Held(q, e)' => Held(q, e)
      /\ \A u \in Requests : OneRollback(u)'
  <2>1. /\ UNCHANGED <<config, wrote>> /\ authorized' \in {authorized, authorized \union {r}} /\ Moves(r, to, m)
        /\ Staged(r)' => Staged(r) /\ m.name = win[r].name /\ m.original = win[r].original
    BY <1>0, <1>1, <1>2
  <2> QED
    BY ONLY SetupInv, r \in Requests, <2>1, <1>7, LocalStep
<1>9. WindowShape(r)'
  BY <1>0, <1>1, <1>2, <1>6 DEF WindowShape
<1>10. \A k : Written(r, k)' = Written(r, k)
  BY <1>1, <1>6 DEF Written
<1>11. OwnedShape(r)'
  BY <1>0, <1>1, <1>2, <1>6, <1>10 DEF OwnedShape
<1>12. NotHeld(r)'
  BY <1>0, <1>1, <1>2, <1>6, <1>8, <1>10 DEF NotHeld, WindowShape
<1>13. RecordShape(r)'
  BY <1>0, <1>1, <1>2, <1>6 DEF RecordShape, Staged
<1> QED
  BY <1>8, <1>9, <1>11, <1>12, <1>13, Assembled DEF Own

-----------------------------------------------------------------------------
(* The steps that write the file *)

LEMMA WriteStep ==
  ASSUME SetupInv, NEW r \in Requests, NEW to, NEW m, Moves(r, to, m),
         UNCHANGED <<record, poll, due, authorized>>, NEW file \in File,
         NEW what \in {"plain", "password", "key", "removed", "restored"}, WriteFile(r, file, what)
  PROVE  /\ TypeOK' /\ Others(r)
         /\ apc'[r] = to /\ win'[r] = m /\ record'[r] = record[r] /\ wrote'[r] = what
<1>0. TypeOK
  BY DEF SetupInv
<1>1. /\ apc'[r] = to /\ win'[r] = m
      /\ \A u \in Requests : u # r => apc'[u] = apc[u] /\ win'[u] = win[u]
      /\ apc' \in [Requests -> AppPc]
      /\ win' \in [Requests -> Memory]
  BY <1>0, MovesFacts
<1>2. /\ wrote' \in [Requests -> {None, "plain", "password", "key", "removed", "restored"}]
      /\ wrote'[r] = what /\ \A u \in Requests : u # r => wrote'[u] = wrote[u]
  BY <1>0 DEF TypeOK, WriteFile, Set
<1>3. TypeOK'
  BY <1>0, <1>1, <1>2 DEF TypeOK, WriteFile
<1> QED
  BY <1>1, <1>2, <1>3 DEF Others

\* What the process puts into the file is a profile of its own.
LEMMA WithIsAFile ==
  ASSUME TypeOK, NEW r \in Requests, NEW k \in Kinds, NEW f \in File, win[r].name \in Profiles
  PROVE  With(f, r, k) \in File /\ With(f, r, k) = [f EXCEPT ![win[r].name] = Written(r, k)]
<1>1. Written(r, k) \in Profile
  BY MemoryFacts
<1> QED
  BY <1>1 DEF With, File

LEMMA DifferentKinds ==
  ASSUME NEW r
  PROVE  /\ Written(r, "plain") # Written(r, "key") /\ Written(r, "password") # Written(r, "key")
BY Values DEF Written

\* The first write of an operation after which the window shows an error.
LEMMA PutFails ==
  ASSUME SetupInv, NEW r \in Requests, NEW k \in {"plain", "password"}, Started(r),
         WriteFile(r, With(config, r, k), k),
         BackToWindow(r, None), UNCHANGED <<record, poll, due, authorized>>
  PROVE  SetupInv'
<1>0. /\ TypeOK /\ WindowShape(r) /\ NotHeld(r) /\ config \in File
      /\ win[r].name \in Profiles /\ win[r].action \in SetupAction /\ k \in Kinds
  BY DEF SetupInv, TypeOK, WindowShape, Kinds
<1>1. PICK m : /\ Moves(r, "window", m) /\ m.name = win[r].name /\ m.tries = win[r].tries
               /\ m.action = win[r].action /\ m.outcome = win[r].outcome /\ m.report = None
  BY <1>0, BackEffect
<1>2. PICK n, w, kw, pw : /\ n \in Profiles /\ n = win[r].name /\ w = Written(r, k)
                          /\ kw = Written(r, "key") /\ pw = Written(r, "password")
  BY <1>0
<1>3. With(config, r, k) \in File /\ Put(n, w)
  BY <1>0, <1>2, WithIsAFile DEF Put, WriteFile
<1>4. /\ TypeOK' /\ Others(r) /\ apc'[r] = "window" /\ win'[r] = m /\ record'[r] = record[r]
  BY <1>1, <1>3, WriteStep
<1>5. ~Held(n, w) /\ ~Held(n, kw) /\ w # kw /\ w = <<r, win[r].tries, k>>
  BY <1>0, <1>2, DifferentKinds DEF NotHeld, Written
<1>6. ~Staged(r)'
  BY <1>4 DEF Staged
<1>7. /\ \A p \in Profiles : \A e : Held(p, e)' => Held(p, e) \/ (p = n /\ e = w)
      /\ \A u \in Requests : OneRollback(u)'
  <2>1. /\ Others(r) /\ k \in Kinds /\ n \in Profiles /\ n = win[r].name /\ win'[r].name = n
        /\ w = Written(r, k) /\ Put(n, w) /\ ~Held(n, w) /\ ~Staged(r)'
    BY <1>0, <1>1, <1>2, <1>3, <1>4, <1>5, <1>6
  <2> QED
    BY ONLY SetupInv, r \in Requests, <2>1, FilePut
<1>8. Grows(r)
  BY <1>0, <1>5, <1>7 DEF Grows
<1>9. ~Held(n, kw)'
  BY <1>2, <1>5, <1>7
<1>10. None # "rolled_back"
  BY Values DEF LocalRollbackStatus
<1>11. Own(r)'
  BY <1>0, <1>1, <1>2, <1>4, <1>8, <1>9, <1>10, BackOwn
<1>12. \A p \in Profiles : \A e : Held(p, e)' =>
           Held(p, e) \/ e = None \/ \E j \in 0..MaxTries, i \in Kinds : e = <<r, j, i>>
  BY <1>0, <1>8, MemoryFacts DEF Grows
<1> QED
  BY <1>4, <1>7, <1>11, <1>12, Assembled

LEMMA SaveStep ==
  ASSUME SetupInv, NEW r \in Requests, SaveProfile(r)
  PROVE  SetupInv'
<1>0. /\ TypeOK /\ WindowShape(r) /\ NotHeld(r) /\ config \in File /\ apc[r] = "save" /\ Started(r)
      /\ UNCHANGED <<record, poll, due, authorized>>
      /\ WriteFile(r, With(config, r, "plain"), "plain")
  BY DEF SetupInv, TypeOK, SaveProfile, Started, recordVars
<1>1. CASE BackToWindow(r, None)
  BY <1>0, <1>1, PutFails
<1>2. CASE Complete(r, StatusOf(win[r].action))
  <2>1. win[r].name \in Profiles /\ win[r].action \in {"add", "edit"} /\ "plain" \in Kinds
    BY <1>0 DEF WindowShape, Kinds
  <2>2. PICK s \in Done : s = StatusOf(win[r].action) /\ s \in {"created", "updated"}
    BY <2>1 DEF StatusOf, Done
  <2>3. PICK m : /\ Moves(r, "finish", m) /\ m.name = win[r].name /\ m.tries = win[r].tries
                 /\ m.outcome = s
    BY <1>0, <1>2, <2>2, CompleteEffect
  <2>4. PICK n, w : n \in Profiles /\ n = win[r].name /\ w = Written(r, "plain")
    BY <2>1
  <2>5. With(config, r, "plain") \in File /\ Put(n, w)
    BY <1>0, <2>1, <2>4, WithIsAFile DEF Put, WriteFile
  <2>6. /\ TypeOK' /\ Others(r) /\ apc'[r] = "finish" /\ win'[r] = m /\ record'[r] = record[r]
        /\ wrote'[r] = "plain"
    BY <1>0, <2>3, <2>5, WriteStep
  <2>7. ~Held(n, w) /\ w = <<r, win[r].tries, "plain">>
    BY <1>0, <2>4 DEF NotHeld, Written
  <2>8. ~Staged(r)'
    BY <2>6 DEF Staged
  <2>9. /\ \A p \in Profiles : \A e : Held(p, e)' => Held(p, e) \/ (p = n /\ e = w)
        /\ \A u \in Requests : OneRollback(u)'
    BY <2>1, <2>3, <2>4, <2>5, <2>6, <2>7, <2>8, FilePut
  <2>10. Grows(r)
    BY <2>1, <2>7, <2>9 DEF Grows
  <2>11. Own(r)'
    BY <1>0, <2>2, <2>3, <2>6, <2>10, CompleteOwn
  <2>12. \A p \in Profiles : \A e : Held(p, e)' =>
             Held(p, e) \/ e = None \/ \E j \in 0..MaxTries, i \in Kinds : e = <<r, j, i>>
    BY <1>0, <2>10, MemoryFacts DEF Grows
  <2> QED
    BY <2>6, <2>9, <2>11, <2>12, Assembled
<1> QED
  BY <1>1, <1>2 DEF SaveProfile

LEMMA RemoveStep ==
  ASSUME SetupInv, NEW r \in Requests, RemoveProfile(r)
  PROVE  SetupInv'
<1>0. /\ TypeOK /\ WindowShape(r) /\ NotHeld(r) /\ config \in File /\ apc[r] = "removing" /\ Started(r)
      /\ UNCHANGED <<record, poll, due, authorized>>
  BY DEF SetupInv, TypeOK, RemoveProfile, Started, recordVars
<1>1. PICK n, kw, pw : /\ n \in Profiles /\ n = win[r].name
                       /\ kw = Written(r, "key") /\ pw = Written(r, "password")
  BY <1>0 DEF WindowShape
<1>2. PICK file : /\ WriteFile(r, file, "removed") /\ file \in File
                  /\ config' = [config EXCEPT ![win[r].name] = None]
  <2> DEFINE f == [config EXCEPT ![win[r].name] = None]
  <2>1. f \in File
    BY <1>0 DEF File
  <2>2. WriteFile(r, f, "removed")
    BY DEF RemoveProfile
  <2>3. config' = f
    BY <2>2 DEF WriteFile
  <2> QED
    BY <2>1, <2>2, <2>3
<1>3. win[r].name \in Profiles /\ win[r].action \in SetupAction
  BY <1>0 DEF WindowShape
<1>4. \E to \in {"finish", "window"} : \E m : Moves(r, to, m)
  <2>1. "removed" \in Done
    BY DEF Done
  <2> QED
    BY <1>0, <2>1, BackEffect, CompleteEffect DEF RemoveProfile
<1>5. TypeOK' /\ Others(r) /\ record'[r] = record[r] /\ wrote'[r] = "removed" /\ ~Staged(r)'
  <2>1. PICK to, m : to \in {"finish", "window"} /\ Moves(r, to, m)
    BY <1>4
  <2>2. TypeOK' /\ Others(r) /\ record'[r] = record[r] /\ wrote'[r] = "removed" /\ apc'[r] = to
    BY ONLY SetupInv, r \in Requests, <1>0, <1>2, <2>1, WriteStep
  <2> QED
    BY <2>1, <2>2 DEF Staged
<1>6. /\ \A p \in Profiles : \A e : Held(p, e)' => Held(p, e) \/ e = None
      /\ \A u \in Requests : OneRollback(u)'
  BY <1>2, <1>3, <1>5, FileRemoved
<1>7. Grows(r)
  BY <1>6 DEF Grows
<1>8. CASE Complete(r, "removed")
  <2>1. PICK s \in Done : s = "removed"
    BY DEF Done
  <2>2. PICK m : Moves(r, "finish", m) /\ m.tries = win[r].tries /\ m.outcome = s
    BY <1>0, <1>8, <2>1, CompleteEffect
  <2>3. Own(r)'
    BY <1>0, <1>5, <1>7, <2>1, <2>2, CompleteOwn
  <2> QED
    BY <1>5, <1>6, <2>3, Assembled
<1>9. CASE BackToWindow(r, None)
  <2>1. PICK m : /\ Moves(r, "window", m) /\ m.name = win[r].name /\ m.tries = win[r].tries
                 /\ m.action = win[r].action /\ m.outcome = win[r].outcome /\ m.report = None
    BY <1>0, <1>9, BackEffect
  <2>2. ~Held(n, kw) /\ kw # None
    BY <1>0, <1>1, MemoryFacts DEF NotHeld, Kinds
  <2>3. ~Held(n, kw)'
    BY <1>1, <1>6, <2>2
  <2>4. None # "rolled_back"
    BY Values DEF LocalRollbackStatus
  <2>5. Own(r)'
    BY <1>0, <1>1, <1>3, <1>5, <1>7, <2>1, <2>3, <2>4, BackOwn
  <2> QED
    BY <1>5, <1>6, <2>5, Assembled
<1> QED
  BY <1>8, <1>9 DEF RemoveProfile

LEMMA StageStep ==
  ASSUME SetupInv, NEW r \in Requests, StageProfile(r)
  PROVE  SetupInv'
<1>0. /\ TypeOK /\ WindowShape(r) /\ NotHeld(r) /\ RecordShape(r) /\ config \in File
      /\ apc[r] = "stage" /\ Started(r)
      /\ UNCHANGED <<record, poll, due, authorized>>
      /\ win[r] \in Memory /\ win[r].original = config
      /\ WriteFile(r, With(config, r, "password"), "password")
  BY DEF SetupInv, TypeOK, StageProfile, HashMatches, Started, recordVars
<1>1. CASE BackToWindow(r, None)
  BY <1>0, <1>1, PutFails
<1>2. CASE Goto(r, "key") /\ win' = [win EXCEPT ![r].owned = With(win[r].original, r, "password")]
  <2>1. win[r].name \in Profiles /\ win[r].action \in {"add", "edit"} /\ "password" \in Kinds
    BY <1>0 DEF WindowShape, Kinds
  <2>2. PICK n, w, kw, file : /\ n \in Profiles /\ n = win[r].name /\ w = Written(r, "password")
                              /\ kw = Written(r, "key") /\ file = With(config, r, "password")
    BY <2>1
  <2>3. file \in File /\ Put(n, w) /\ file[n] = w /\ (\A p \in Profiles : p # n => file[p] = config[p])
        /\ WriteFile(r, file, "password")
    <3>1. file \in File /\ file = [config EXCEPT ![n] = w]
      BY <1>0, <2>1, <2>2, WithIsAFile
    <3> QED
      BY <1>0, <2>2, <3>1 DEF Put, WriteFile, File
  <2> DEFINE m == [win[r] EXCEPT !.owned = file]
  <2>4. apc' = [apc EXCEPT ![r] = "key"] /\ win' = [win EXCEPT ![r] = m]
    BY <1>0, <1>2, <2>2 DEF Goto, Set, TypeOK
  <2>5. /\ m \in Memory /\ m.name = win[r].name /\ m.tries = win[r].tries /\ m.action = win[r].action
        /\ m.outcome = win[r].outcome /\ m.original = config /\ m.owned = file
    BY <1>0, <2>3 DEF Memory
  <2>6. Moves(r, "key", m)
    BY <2>4, <2>5, Points DEF Moves
  <2> HIDE DEF m
  <2>7. /\ TypeOK' /\ Others(r) /\ apc'[r] = "key" /\ win'[r] = m /\ record'[r] = record[r]
        /\ wrote'[r] = "password"
    BY ONLY SetupInv, r \in Requests, <1>0, <2>3, <2>6, WriteStep
  <2>8. /\ ~Held(n, w) /\ ~Held(n, kw) /\ w # kw /\ w = <<r, win[r].tries, "password">>
    BY <1>0, <2>1, <2>2, DifferentKinds DEF NotHeld, Written
  <2>9. /\ ~Staged(r) /\ Staged(r)' /\ ~Started(r)' /\ Counting(r)' /\ Counting(r)
    BY <1>0, <2>7 DEF Staged, Started, Counting
  <2>10. /\ \A p \in Profiles : \A e : Held(p, e)' => Held(p, e) \/ (p = n /\ e = w)
         /\ \A u \in Requests : OneRollback(u)'
    <3>1. /\ Others(r) /\ "password" \in Kinds /\ n \in Profiles /\ n = win[r].name /\ win'[r].name = n
          /\ w = Written(r, "password") /\ Put(n, w) /\ ~Held(n, w)
          /\ ~Staged(r) /\ win'[r].original = config
      BY <2>1, <2>2, <2>3, <2>5, <2>7, <2>8, <2>9
    <3> QED
      BY ONLY SetupInv, r \in Requests, <3>1, FilePut
  <2>11. Grows(r)
    BY <2>1, <2>8, <2>10 DEF Grows
  <2>12. WindowShape(r)'
    BY <1>0, <2>1, <2>5, <2>7, <2>9 DEF WindowShape
  <2>13. /\ \A k : Written(r, k)' = Written(r, k)
    BY <2>5, <2>7 DEF Written
  <2>14. OwnedShape(r)'
    <3>1. config[n] # w /\ config[n] # kw
      BY <2>8 DEF Held
    <3>2. Written(r, "password")' = w /\ Written(r, "key")' = kw /\ win'[r].name = n
          /\ win'[r].original = config /\ win'[r].owned = file
      BY <2>2, <2>5, <2>7, <2>13
    <3> QED
      BY <2>3, <2>7, <3>1, <3>2 DEF OwnedShape
  <2>15. NotHeld(r)'
    <3>1. ~Held(n, kw)'
      BY <2>2, <2>8, <2>10
    <3>2. Written(r, "key")' = kw /\ win'[r].name = n /\ win'[r].tries = win[r].tries
      BY <2>2, <2>5, <2>7, <2>13
    <3> QED
      BY <2>7, <2>9, <2>11, <3>1, <3>2, NothingNewer DEF NotHeld, Kinds
  <2>16. RecordShape(r)'
    <3>1. record[r] \notin {"created", "updated", "removed"} /\ win[r].outcome = None
      BY <1>0 DEF RecordShape, WindowShape
    <3>2. None \notin {"created", "updated", "removed"}
      BY Values DEF Done
    <3> QED
      BY <2>5, <2>7, <3>1, <3>2 DEF RecordShape
  <2>17. \A p \in Profiles : \A e : Held(p, e)' =>
             Held(p, e) \/ e = None \/ \E j \in 0..MaxTries, i \in Kinds : e = <<r, j, i>>
    BY <1>0, <2>11, MemoryFacts DEF Grows
  <2> QED
    BY <2>7, <2>10, <2>12, <2>14, <2>15, <2>16, <2>17, Assembled DEF Own
<1> QED
  BY <1>1, <1>2 DEF StageProfile

\* The key profile over the staged one.  That the staged one is then nowhere is what
\* OneRollback is for: it was in the file, so no rollback of another window brings it back.
LEMMA SwitchStep ==
  ASSUME SetupInv, NEW r \in Requests, SwitchProfile(r)
  PROVE  SetupInv'
<1>0. /\ TypeOK /\ WindowShape(r) /\ OwnedShape(r) /\ NotHeld(r) /\ RecordShape(r) /\ config \in File
      /\ apc[r] = "switch" /\ Staged(r)
      /\ UNCHANGED <<record, poll, due, authorized>>
      /\ win[r] \in Memory /\ win[r].owned = config
      /\ WriteFile(r, With(config, r, "key"), "key")
  BY DEF SetupInv, TypeOK, SwitchProfile, HashMatches, Staged, recordVars
<1>1. win[r].name \in Profiles /\ win[r].action \in {"add", "edit"} /\ "key" \in Kinds
  BY <1>0 DEF WindowShape, Kinds
<1>2. PICK n, w, kw, file : /\ n \in Profiles /\ n = win[r].name /\ w = Written(r, "password")
                            /\ kw = Written(r, "key") /\ file = With(config, r, "key")
  BY <1>1
<1>3. file \in File /\ Put(n, kw) /\ file[n] = kw /\ (\A p \in Profiles : p # n => file[p] = config[p])
      /\ WriteFile(r, file, "key") /\ config' = file
  <2>1. file \in File /\ file = [config EXCEPT ![n] = kw]
    BY SMTT(30), <1>0, <1>1, <1>2, WithIsAFile
  <2> QED
    BY <1>0, <1>2, <2>1 DEF Put, WriteFile, File
<1>4. /\ wrote[r] = "password" /\ config[n] = w /\ r \in authorized /\ win[r].installed
      /\ ~Held(n, kw) /\ w # kw /\ w # None /\ win[r].original[n] # w /\ win[r].original[n] # kw
      /\ kw = <<r, win[r].tries, "key">>
  <2>1. wrote[r] = "password" /\ config[n] = w /\ r \in authorized /\ win[r].installed
        /\ win[r].original[n] # w /\ win[r].original[n] # kw
    BY <1>0, <1>2 DEF OwnedShape
  <2>2. ~Held(n, kw)
    BY <1>0, <1>2, <2>1 DEF NotHeld
  <2> QED
    BY <1>0, <1>2, <2>1, <2>2, DifferentKinds, MemoryFacts DEF Kinds, Written
<1>5. PICK to, m : /\ to \in {"login", "rollback"} /\ Moves(r, to, m)
                   /\ m.name = win[r].name /\ m.tries = win[r].tries /\ m.action = win[r].action
                   /\ m.outcome = win[r].outcome /\ m.original = win[r].original
                   /\ m.installed = win[r].installed /\ m.owned \in {config, file}
  <2>1. CASE Goto(r, "login") /\ win' = [win EXCEPT ![r].owned = With(win[r].owned, r, "key")]
    <3> DEFINE m == [win[r] EXCEPT !.owned = file]
    <3>1. apc' = [apc EXCEPT ![r] = "login"] /\ win' = [win EXCEPT ![r] = m]
      BY <1>0, <1>2, <2>1 DEF Goto, Set, TypeOK
    <3>2. /\ m \in Memory /\ m.name = win[r].name /\ m.tries = win[r].tries /\ m.action = win[r].action
          /\ m.outcome = win[r].outcome /\ m.original = win[r].original
          /\ m.installed = win[r].installed /\ m.owned = file
      BY <1>0, <1>3 DEF Memory
    <3>3. Moves(r, "login", m)
      BY <3>1, <3>2, Points DEF Moves
    <3> HIDE DEF m
    <3> QED
      BY <3>2, <3>3
  <2>2. CASE Goto(r, "rollback") /\ UNCHANGED win
    <3>1. win = [win EXCEPT ![r] = win[r]] /\ "rollback" \in AppPc
      BY <1>0, SameMemory, Points
    <3>2. Moves(r, "rollback", win[r])
      BY <1>0, <2>2, <3>1 DEF Moves, Goto, Set
    <3> QED
      BY <1>0, <3>2
  <2> QED
    BY <2>1, <2>2 DEF SwitchProfile
<1>6. /\ TypeOK' /\ Others(r) /\ apc'[r] = to /\ win'[r] = m /\ record'[r] = record[r]
      /\ wrote'[r] = "key"
  BY ONLY SetupInv, r \in Requests, <1>0, <1>3, <1>5, WriteStep
<1>7. /\ Staged(r)' /\ ~Started(r)' /\ Counting(r)' /\ Counting(r)
  BY <1>0, <1>5, <1>6 DEF Staged, Started, Counting
<1>8. /\ \A p \in Profiles : \A e : Held(p, e)' => Held(p, e) \/ (p = n /\ e = kw)
      /\ \A u \in Requests : OneRollback(u)'
  <2>1. /\ Others(r) /\ "key" \in Kinds /\ n \in Profiles /\ n = win[r].name /\ win'[r].name = n
        /\ kw = Written(r, "key") /\ Put(n, kw) /\ ~Held(n, kw)
        /\ Staged(r) /\ win'[r].original = win[r].original
    BY <1>0, <1>1, <1>2, <1>3, <1>4, <1>5, <1>6
  <2> QED
    BY ONLY SetupInv, r \in Requests, <2>1, FilePut
<1>9. Grows(r)
  BY <1>1, <1>4, <1>8 DEF Grows
<1>10. WindowShape(r)'
  BY <1>0, <1>1, <1>5, <1>6, <1>7 DEF WindowShape
<1>11. /\ Written(r, "password")' = w /\ Written(r, "key")' = kw
       /\ win'[r].name = n /\ win'[r].tries = win[r].tries
  BY <1>2, <1>5, <1>6 DEF Written
<1>12. OwnedShape(r)'
  <2>1. \A p \in Profiles : p # n => win[r].owned[p] = win[r].original[p]
    BY <1>0, <1>2 DEF OwnedShape
  <2>2. m.owned[n] \in {w, kw} /\ \A p \in Profiles : p # n => m.owned[p] = m.original[p]
    BY <1>0, <1>3, <1>4, <1>5, <2>1
  <2> QED
    BY <1>0, <1>4, <1>5, <1>6, <1>11, <2>2 DEF OwnedShape
<1>13. NotHeld(r)'
  <2>1. ~Held(n, w)'
    <3>1. \A x \in Requests : Staged(x) /\ win[x].name = n => win[x].original[n] # w
      BY <1>4 DEF SetupInv, OneRollback
    <3>2. \A x \in Requests : Staged(x)' /\ win'[x].name = n => win'[x].original[n] # w
      BY <1>4, <1>5, <1>6, <3>1 DEF Others, Staged
    <3> QED
      BY <1>3, <1>4, <3>2 DEF Held
  <2> QED
    BY <1>5, <1>6, <1>7, <1>9, <1>11, <2>1, NothingNewer DEF NotHeld, Kinds
<1>14. RecordShape(r)'
  <2>1. record[r] \notin {"created", "updated", "removed"} /\ win[r].outcome = None
    BY <1>0 DEF RecordShape, WindowShape
  <2>2. None \notin {"created", "updated", "removed"}
    BY Values DEF Done
  <2> QED
    BY <1>5, <1>6, <2>1, <2>2 DEF RecordShape
<1>15. \A p \in Profiles : \A e : Held(p, e)' =>
           Held(p, e) \/ e = None \/ \E j \in 0..MaxTries, i \in Kinds : e = <<r, j, i>>
  BY <1>0, <1>9, MemoryFacts DEF Grows
<1> QED
  BY <1>6, <1>8, <1>10, <1>12, <1>13, <1>14, <1>15, Assembled DEF Own

\* The rollback: neither profile of the operation is left, in the file or anywhere.
LEMMA RestoreStep ==
  ASSUME SetupInv, NEW r \in Requests, Restore(r)
  PROVE  SetupInv'
<1>0. /\ TypeOK /\ WindowShape(r) /\ OwnedShape(r) /\ NotHeld(r)
      /\ apc[r] = "restore" /\ Staged(r)
      /\ UNCHANGED <<record, poll, due, authorized>>
      /\ win[r].owned = config /\ win[r].original \in File
      /\ WriteFile(r, win[r].original, "restored") /\ config' = win[r].original
  BY MemoryFacts DEF SetupInv, Restore, HashMatches, Staged, recordVars, WriteFile
<1>1. PICK n, w, kw : /\ n \in Profiles /\ n = win[r].name /\ w = Written(r, "password")
                      /\ kw = Written(r, "key")
  BY <1>0 DEF WindowShape
<1>2. PICK status \in {"rolled_back", "failed"} : BackToWindow(r, Told(r, status))
  BY DEF Restore
<1>3. PICK s \in LocalRollbackStatus \union {None} : s = Told(r, status)
  BY DEF Told, LocalRollbackStatus
<1>4. PICK m : /\ Moves(r, "window", m) /\ m.name = win[r].name /\ m.tries = win[r].tries
               /\ m.action = win[r].action /\ m.outcome = win[r].outcome /\ m.report = s
  BY <1>0, <1>2, <1>3, BackEffect
<1>5. /\ TypeOK' /\ Others(r) /\ apc'[r] = "window" /\ win'[r] = m /\ record'[r] = record[r]
  BY ONLY SetupInv, r \in Requests, <1>0, <1>4, WriteStep
<1>6. ~Staged(r)'
  BY <1>5 DEF Staged
<1>7. /\ \A p \in Profiles : \A e : Held(p, e)' => Held(p, e)
      /\ \A u \in Requests : OneRollback(u)'
  BY <1>0, <1>5, <1>6, FileRestored
<1>8. Grows(r)
  BY <1>7 DEF Grows
<1>9. ASSUME NEW e \in {w, kw} PROVE ~Held(n, e)'
  <2>1. config'[n] # e
    BY <1>0, <1>1 DEF OwnedShape
  <2>2. config[n] \in {w, kw} /\ wrote[r] \in {"password", "key"}
        /\ (wrote[r] = "password" => config[n] = w /\ ~Held(n, kw))
        /\ (wrote[r] = "key" => ~Held(n, w))
    BY <1>0, <1>1 DEF OwnedShape, NotHeld
  <2>3. config[n] = e \/ ~Held(n, e)
    BY <2>2 DEF Held
  <2>4. e # None
    BY <1>0, <1>1, MemoryFacts DEF Kinds
  <2>5. \A x \in Requests : Staged(x) /\ win[x].name = n => win[x].original[n] # e
    BY <2>3, <2>4 DEF SetupInv, OneRollback, Held
  <2>6. \A x \in Requests : Staged(x)' => Staged(x) /\ win'[x] = win[x]
    BY <1>5, <1>6 DEF Others, Staged
  <2> QED
    BY <2>1, <2>5, <2>6 DEF Held
<1>10. win[r].action \in SetupAction /\ ~Held(n, kw)' /\ ~Held(n, w)'
  BY <1>0, <1>9 DEF WindowShape
<1>11. Own(r)'
  BY <1>0, <1>1, <1>4, <1>5, <1>8, <1>10, BackOwn
<1> QED
  BY <1>5, <1>7, <1>11, Assembled

-----------------------------------------------------------------------------
(* The theorems *)

LEMMA SetupInit == Init => SetupInv
<1> SUFFICES ASSUME Init PROVE SetupInv
  OBVIOUS
<1>1. /\ record = [r \in Requests |-> "absent"] /\ poll = [r \in Requests |-> "idle"]
      /\ due = [r \in Requests |-> FALSE] /\ apc = [r \in Requests |-> "none"]
      /\ win = [r \in Requests |-> Blank] /\ config \in [Profiles -> {None, <<None, 0, "initial">>}]
      /\ wrote = [r \in Requests |-> None] /\ authorized = {}
  BY DEF Init
<1>2. TypeOK
  <2>1. config \in File /\ "none" \in AppPc
    BY <1>1, Points DEF File, Profile
  <2>2. win \in [Requests -> Memory]
    BY <1>1, BlankMemory
  <2> QED
    BY <1>1, <2>1, <2>2 DEF TypeOK
<1>3. ASSUME NEW r \in Requests
      PROVE  WindowShape(r) /\ OwnedShape(r) /\ OneRollback(r) /\ NotHeld(r) /\ RecordShape(r)
  <2>1. /\ record[r] = "absent" /\ apc[r] = "none" /\ win[r] = Blank
        /\ ~Staged(r) /\ ~Started(r)
    BY <1>1 DEF Staged, Started
  <2>2. Blank.tries = 0 /\ Blank.outcome = None
    BY DEF Blank
  <2>3. \A p \in Profiles : \A e : Held(p, e) => e \in {None, <<None, 0, "initial">>}
    BY <1>1 DEF Held, Staged
  <2>4. \A j \in 0..MaxTries, k \in Kinds : <<r, j, k>> \notin {None, <<None, 0, "initial">>}
    BY Values, NoneAssumption
  <2>5. WindowShape(r) /\ OwnedShape(r) /\ OneRollback(r)
    BY <2>1, <2>2 DEF WindowShape, OwnedShape, OneRollback
  <2>6. NotHeld(r)
    BY <2>1, <2>3, <2>4 DEF NotHeld, Kinds
  <2>7. RecordShape(r)
    <3>1. None \notin {"created", "updated", "removed"}
      BY Values DEF Done
    <3> QED
      BY <2>1, <2>2, <3>1 DEF RecordShape
  <2> QED
    BY <2>5, <2>6, <2>7
<1> QED
  BY <1>2, <1>3 DEF SetupInv

LEMMA SetupNext == SetupInv /\ [Next]_vars => SetupInv'
<1> SUFFICES ASSUME SetupInv, [Next]_vars PROVE SetupInv'
  OBVIOUS
<1>1. CASE UNCHANGED vars
  <2>1. UNCHANGED <<record, poll, due, apc, win, config, wrote, authorized>>
    BY <1>1 DEF vars, recordVars, fileVars
  <2>2. TypeOK'
    BY <2>1 DEF SetupInv, TypeOK
  <2>3. /\ \A r \in Requests : Staged(r)' <=> Staged(r)
        /\ \A r \in Requests : Started(r)' <=> Started(r)
        /\ \A r \in Requests : Counting(r)' <=> Counting(r)
        /\ \A r, k : Written(r, k)' = Written(r, k)
    BY <2>1 DEF Staged, Started, Counting, Written
  <2>4. \A p, e : Held(p, e)' <=> Held(p, e)
    BY <2>1, <2>3 DEF Held
  <2>5. ASSUME NEW r \in Requests PROVE WindowShape(r)' /\ OwnedShape(r)' /\ OneRollback(r)'
    BY <2>1, <2>3 DEF SetupInv, WindowShape, OwnedShape, OneRollback
  <2>6. ASSUME NEW r \in Requests PROVE NotHeld(r)' /\ RecordShape(r)'
    BY <2>1, <2>3, <2>4 DEF SetupInv, NotHeld, RecordShape
  <2> QED
    BY <2>2, <2>5, <2>6 DEF SetupInv
<1>2. CASE Next
  <2>1. PICK r \in Requests :
          \/ Start(r) \/ LaunchFails(r) \/ ClockExpires(r) \/ AppCrashes(r)
          \/ PollStep(r) \/ StoreStep(r) \/ WindowStep(r) \/ TransitionStep(r)
    BY <1>2 DEF Next
  <2>2. CASE LaunchFails(r) \/ ClockExpires(r) \/ PollStep(r)
    BY <2>2, RecordStep
  <2>3. CASE Start(r) \/ AppCrashes(r)
    BY <2>3, OpeningSteps, EndingSteps
  <2>4. CASE StoreStep(r)
    <3>1. CASE AppFails(r) \/ UpdateRaises(r) \/ AppRaises(r)
      BY <3>1, EndingSteps
    <3>2. CASE BuildWindow(r)
      BY <3>2, OpeningSteps
    <3>3. CASE AppLoads(r)
      BY <3>3, OpeningSteps, EndingSteps
    <3>4. CASE UpdateLoads(r)
      BY <3>4, UpdatePasses, EndingSteps
    <3>5. CASE UpdateWrites(r)
      BY <3>5, OpeningSteps, EndingSteps
    <3> QED
      BY <2>4, <3>1, <3>2, <3>3, <3>4, <3>5 DEF StoreStep
  <2>5. CASE WindowStep(r)
    <3>1. CASE Cancel(r) \/ WindowExpires(r) \/ OperationFails(r) \/ TestProfile(r)
      BY <3>1, EndOperation
    <3>2. CASE Confirm(r)
      BY <3>2, ConfirmStep
    <3>3. CASE SaveProfile(r)
      BY <3>3, SaveStep
    <3>4. CASE RemoveLoads(r)
      BY <3>4, SnapshotStep
    <3>5. CASE RemoveProfile(r)
      BY <3>5, RemoveStep
    <3> QED
      BY <2>5, <3>1, <3>2, <3>3, <3>4, <3>5 DEF WindowStep
  <2>6. CASE TransitionStep(r)
    <3>1. CASE SwitchCompletes(r) \/ RollbackSkipped(r) \/ RollbackFails(r)
      BY <3>1, EndOperation
    <3>2. CASE InstallLoads(r)
      BY <3>2, SnapshotStep
    <3>3. CASE StageProfile(r)
      BY <3>3, StageStep
    <3>4. CASE SwitchProfile(r)
      BY <3>4, SwitchStep
    <3>5. CASE Restore(r)
      BY <3>5, RestoreStep
    <3>6. CASE InstallKey(r) \/ InstallKeyFails(r) \/ FreshLogin(r) \/ TransitionFails(r) \/ RollbackLoads(r)
      BY <3>6, TransitionGoesOn
    <3> QED
      BY <2>6, <3>1, <3>2, <3>3, <3>4, <3>5, <3>6 DEF TransitionStep
  <2> QED
    BY <2>1, <2>2, <2>3, <2>4, <2>5, <2>6
<1> QED
  BY <1>1, <1>2

LEMMA SetupInvariant == Spec => []SetupInv
BY SetupInit, SetupNext, PTL DEF Spec

\* The record, the poller and the process that write it, the process's memory and the
\* profile file hold values of their types whatever the requests, the profiles and the
\* number of tries: no step of the store, the window or the transition leaves its types.
THEOREM SetupTypes == Spec => []TypeOK
<1>1. SetupInv => TypeOK
  BY DEF SetupInv
<1> QED
  BY <1>1, SetupInvariant, PTL

\* What the window reports of a key transition and what the record says of a request is
\* what was done to the profile file, whatever other windows do to the same profile
\* between any two steps, and wherever a write raises.
THEOREM SetupReportsKept == Spec => []SetupReportsAreTrue
<1>1. SetupInv => SetupReportsAreTrue
  <2> SUFFICES ASSUME SetupInv, NEW r \in Requests
               PROVE  /\ apc[r] = "window" /\ win[r].tries > 0 =>
                           /\ config[win[r].name] = Written(r, "key")
                                => win[r].report \in {"skipped_concurrent_change", "failed"}
                           /\ win[r].report = "rolled_back"
                                => config[win[r].name] \notin {Written(r, "key"), Written(r, "password")}
                      /\ record[r] \in {"created", "updated"} =>
                           wrote[r] = "plain" \/ (wrote[r] = "key" /\ r \in authorized)
                      /\ record[r] = "removed" => wrote[r] = "removed"
    BY DEF SetupReportsAreTrue, TransitionIsReported, RecordsAreTrue
  <2>1. NotHeld(r) /\ RecordShape(r)
    BY DEF SetupInv
  <2>2. \A p, e : config[p] = e => Held(p, e)
    BY DEF Held
  <2> QED
    BY <2>1, <2>2 DEF NotHeld, RecordShape
<1> QED
  BY <1>1, SetupInvariant, PTL

\* A step of one process moves no other.
LEMMA OwnStep ==
  ASSUME TypeOK, NEW q \in Requests,
         \/ Start(q) \/ LaunchFails(q) \/ ClockExpires(q) \/ AppCrashes(q)
         \/ PollStep(q) \/ StoreStep(q) \/ WindowStep(q) \/ TransitionStep(q)
  PROVE  \A r \in Requests : r # q => apc'[r] = apc[r]
<1>1. \/ UNCHANGED apc
      \/ \E to : apc' = [apc EXCEPT ![q] = to]
  <2>1. CASE Start(q) \/ LaunchFails(q) \/ ClockExpires(q) \/ AppCrashes(q) \/ PollStep(q)
    BY <2>1 DEF Start, LaunchFails, ClockExpires, AppCrashes, PollStep, expire_if_needed, ExpiryLoads,
                ExpiryWrites, ExpiryRaises, Exit, Goto, Set
  <2>2. CASE StoreStep(q)
    BY SMTT(30), <2>2 DEF StoreStep, AppLoads, UpdateLoads, UpdateWrites, UpdateRaises, AppFails, BuildWindow,
                AppRaises, Raise, Exit, Goto, Set
  <2>3. CASE WindowStep(q)
    BY ZenonT(40), <2>3 DEF WindowStep, Cancel, WindowExpires, Confirm, OperationFails, SaveProfile, RemoveLoads,
                RemoveProfile, TestProfile, Complete, BackToWindow, Goto, Set
  <2>4. CASE TransitionStep(q)
    BY <2>4 DEF TransitionStep, InstallLoads, StageProfile, InstallKey, InstallKeyFails, SwitchProfile,
                FreshLogin, SwitchCompletes, TransitionFails, RollbackLoads, RollbackSkipped, Restore,
                RollbackFails, Complete, BackToWindow, Goto, Set
  <2> QED
    BY SMTT(30), <2>1, <2>2, <2>3, <2>4
<1> QED
  BY <1>1 DEF TypeOK

\* From the points at which the file is replaced under the hash, only these four steps
\* change it.
LEMMA GuardedWriters ==
  ASSUME NEW r \in Requests, apc[r] \in {"removing", "stage", "switch", "restore"}, config' # config,
         \/ Start(r) \/ LaunchFails(r) \/ ClockExpires(r) \/ AppCrashes(r)
         \/ PollStep(r) \/ StoreStep(r) \/ WindowStep(r) \/ TransitionStep(r)
  PROVE  RemoveProfile(r) \/ StageProfile(r) \/ SwitchProfile(r) \/ Restore(r)
<1>1. ~(Start(r) \/ LaunchFails(r) \/ ClockExpires(r) \/ AppCrashes(r) \/ PollStep(r))
  BY DEF Start, LaunchFails, ClockExpires, AppCrashes, PollStep, expire_if_needed, ExpiryLoads,
         ExpiryWrites, ExpiryRaises, fileVars
<1>2. ~StoreStep(r)
  BY SMTT(30) DEF StoreStep, AppLoads, UpdateLoads, UpdateWrites, UpdateRaises, AppFails, BuildWindow,
         AppRaises, fileVars
<1>3. WindowStep(r) => RemoveProfile(r)
  BY DEF WindowStep, Cancel, WindowExpires, Confirm, OperationFails, SaveProfile, RemoveLoads,
         TestProfile, fileVars
<1>4. TransitionStep(r) => StageProfile(r) \/ SwitchProfile(r) \/ Restore(r)
  BY DEF TransitionStep, InstallLoads, InstallKey, InstallKeyFails, FreshLogin, SwitchCompletes,
         TransitionFails, RollbackLoads, RollbackSkipped, RollbackFails, fileVars
<1> QED
  BY <1>1, <1>2, <1>3, <1>4

\* A removal, a transition and its rollback save whole files, and yet lose no edit made
\* meanwhile by another window: they change no other profile, and replace their own only
\* where it is what they found or wrote themselves.
THEOREM EditsSurvive == Spec => ConcurrentEditsSurvive
<1>1. SetupInv /\ [Next]_vars =>
        [\A r \in Requests, p \in Profiles :
           apc[r] \in {"removing", "stage", "switch", "restore"} /\ apc'[r] # apc[r]
             /\ config'[p] # config[p]
           => /\ p = win[r].name
              /\ config[p] \in {win[r].original[p], Written(r, "password"), Written(r, "key")}]_vars
  <2> SUFFICES ASSUME SetupInv, Next, NEW r \in Requests, NEW p \in Profiles,
                      apc[r] \in {"removing", "stage", "switch", "restore"}, apc'[r] # apc[r],
                      config'[p] # config[p]
               PROVE  /\ p = win[r].name
                      /\ config[p] \in {win[r].original[p], Written(r, "password"), Written(r, "key")}
    OBVIOUS
  <2>1. \/ Start(r) \/ LaunchFails(r) \/ ClockExpires(r) \/ AppCrashes(r)
        \/ PollStep(r) \/ StoreStep(r) \/ WindowStep(r) \/ TransitionStep(r)
    <3>1. PICK q \in Requests :
            \/ Start(q) \/ LaunchFails(q) \/ ClockExpires(q) \/ AppCrashes(q)
            \/ PollStep(q) \/ StoreStep(q) \/ WindowStep(q) \/ TransitionStep(q)
      BY DEF Next
    <3>2. q = r
      BY <3>1, OwnStep DEF SetupInv
    <3> QED
      BY <3>1, <3>2
  <2>2. RemoveProfile(r) \/ StageProfile(r) \/ SwitchProfile(r) \/ Restore(r)
    BY <2>1, GuardedWriters
  <2>3. config \in File /\ OwnedShape(r) /\ WindowShape(r) /\ win[r].original \in File
    BY MemoryFacts DEF SetupInv, TypeOK
  <2>4. CASE RemoveProfile(r)
    <3>1. config = win[r].original /\ config' = [config EXCEPT ![win[r].name] = None]
      BY <2>4 DEF RemoveProfile, HashMatches, WriteFile
    <3> QED
      BY <2>3, <3>1 DEF File
  <2>5. CASE StageProfile(r)
    <3>1. config = win[r].original /\ config' = [config EXCEPT ![win[r].name] = Written(r, "password")]
      BY <2>5 DEF StageProfile, HashMatches, WriteFile, With
    <3> QED
      BY <2>3, <3>1 DEF File
  <2>6. CASE SwitchProfile(r)
    <3>1. config = win[r].owned /\ config' = [config EXCEPT ![win[r].name] = Written(r, "key")]
      BY <2>6 DEF SwitchProfile, HashMatches, WriteFile, With
    <3>2. Staged(r)
      BY <2>6 DEF SwitchProfile, Staged
    <3> QED
      BY <2>3, <3>1, <3>2 DEF File, OwnedShape
  <2>7. CASE Restore(r)
    <3>1. config = win[r].owned /\ config' = win[r].original
      BY <2>7 DEF Restore, HashMatches, WriteFile
    <3>2. Staged(r)
      BY <2>7 DEF Restore, Staged
    <3> QED
      BY <2>3, <3>1, <3>2 DEF OwnedShape
  <2> QED
    BY <2>2, <2>4, <2>5, <2>6, <2>7
<1> QED
  BY <1>1, SetupInvariant, PTL DEF Spec, ConcurrentEditsSurvive
=============================================================================
