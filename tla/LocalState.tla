----------------------------- MODULE LocalState -----------------------------
(***************************************************************************)
(* The preparation of the local application data every entry point runs    *)
(* before it does anything else: LocalStateBootstrapper.ensure             *)
(* (bootstrap/service.py) and, inside it, the creation or migration of     *)
(* config.toml (TomlProfileRepository.initialize_or_migrate).              *)
(*                                                                         *)
(* Processes prepare the same directory at the same time.  The bootstrap   *)
(* lock serialises them; a process that is already running (Running)       *)
(* prepared the directory before it was removed or an older file was put   *)
(* back, and takes the configuration lock only.  Every write may raise     *)
(* OSError, before or after the file is replaced (the access list is set   *)
(* after os.replace), and a process may be killed at any step: the         *)
(* operating system then releases its byte-range locks.                    *)
(***************************************************************************)
EXTENDS Naturals, FiniteSets

CONSTANTS Procs,        \* processes that run ensure
          Running,      \* processes that ran it earlier and now save profiles
          Profiles,     \* profile names
          None,
          Partial,      \* a file that is no whole configuration: cut short, or not to be decoded
          MaxFaults     \* bound on kills, exceptions and restarts

ASSUME StateAssumption ==
    /\ None \notin Procs \union Running /\ None # Partial
    /\ {None, Partial} \intersect [schema : 0..2, profiles : SUBSET Profiles] = {}
    /\ Profiles # {} /\ MaxFaults \in Nat

VARIABLES config,       \* config.toml: None, Partial or [schema, profiles]
          preimage,     \* the hash-named file in migrations/: None, Partial or the bytes of a configuration
          statefile,    \* state.json: None, "valid" or "unsupported"
          bootLock,     \* who holds .bootstrap.lock
          configLock,   \* who holds config.toml.lock
          spc,          \* what each process is about to do
          read,         \* the configuration it has read
          report,       \* how its last preparation ended
          saved,        \* ghost: the profiles that were saved to the file
          faults

stateVars == <<config, preimage, statefile, bootLock, configLock, spc, read, report, saved, faults>>
files == <<config, preimage, statefile>>
locks == <<bootLock, configLock>>

Everyone == Procs \union Running
Schema == 1                                     \* CONFIG_SCHEMA_VERSION
Configs == [schema : 0..Schema + 1, profiles : SUBSET Profiles]
empty == [schema |-> Schema, profiles |-> {}]
SPc == {"start", "locked", "examine", "create", "preimage", "filling", "migrate", "verify",
        "rollback", "state", "ready", "put", "failed", "killed"}

Goes(p, from, to) == spc[p] = from /\ spc' = [spc EXCEPT ![p] = to]

(* Leaving the with-blocks releases the locks the process holds. *)
Release(p) == /\ bootLock' = IF bootLock = p THEN None ELSE bootLock
              /\ configLock' = IF configLock = p THEN None ELSE configLock
LeaveConfig(p) == configLock' = None /\ UNCHANGED bootLock

(* A mutant: an exception keeps the locks. *)
Raise_locked(p, code) == /\ spc' = [spc EXCEPT ![p] = "failed"]
                         /\ report' = [report EXCEPT ![p] = code] /\ UNCHANGED locks

Raise(p, code) == /\ spc' = [spc EXCEPT ![p] = "failed"]
                  /\ report' = [report EXCEPT ![p] = code] /\ Release(p)

(* A write that may raise: with the file still as it was, or replaced. *)
Fault == faults < MaxFaults /\ faults' = faults + 1
Reached(p, to) == spc' = [spc EXCEPT ![p] = to] /\ UNCHANGED <<report, locks>>

---------------------------------------------------------------------------
(* InterProcessFileLock.__enter__ on .bootstrap.lock; the managed directories. *)
EnterBootstrap(p) ==
    /\ bootLock = None /\ Goes(p, "start", "locked")
    /\ bootLock' = p
    /\ UNCHANGED <<files, configLock, read, report, saved, faults>>

(* A mutant: the lock is not taken. *)
EnterConfig_unlocked(p) ==
    /\ Goes(p, "locked", "examine")
    /\ UNCHANGED <<files, locks, read, report, saved, faults>>

(* The configuration lock is taken for the whole of initialize_or_migrate. *)
EnterConfig(p) ==
    /\ configLock = None /\ Goes(p, "locked", "examine")
    /\ configLock' = p
    /\ UNCHANGED <<files, bootLock, read, report, saved, faults>>

(* The lock was not free until its timeout. *)
LockTimeout(p) ==
    /\ \/ spc[p] = "start" /\ bootLock # None
       \/ spc[p] = "locked" /\ configLock # None
    /\ Raise(p, "configuration_lock_timeout")
    /\ UNCHANGED <<files, read, saved, faults>>

(* initialize_or_migrate: an absent file is created, the current schema is *)
(* left alone, the draft schema is migrated; a newer one, and a file that  *)
(* does not decode, is refused.                                            *)
Examine(p) ==
    /\ spc[p] = "examine"
    /\ \/ config = None /\ Reached(p, "create") /\ UNCHANGED read
       \/ config = Partial /\ Raise(p, "error") /\ UNCHANGED read
       \/ /\ config \in Configs /\ config.schema > Schema
          /\ Raise(p, "configuration_version_unsupported") /\ UNCHANGED read
       \/ /\ config \in Configs /\ config.schema = Schema
          /\ spc' = [spc EXCEPT ![p] = "state"] /\ LeaveConfig(p) /\ UNCHANGED <<read, report>>
       \/ /\ config \in Configs /\ config.schema = 0
          /\ read' = [read EXCEPT ![p] = config] /\ Reached(p, "preimage")
    /\ UNCHANGED <<files, saved, faults>>

Create(p) ==
    /\ spc[p] = "create"
    /\ \/ /\ config' = empty /\ spc' = [spc EXCEPT ![p] = "state"]
          /\ LeaveConfig(p) /\ UNCHANGED <<report, faults>>
       \/ Fault /\ config' \in {config, empty} /\ Raise(p, "error")
    /\ UNCHANGED <<preimage, statefile, read, saved>>

---------------------------------------------------------------------------
(* _backup_migration_unlocked: an existing file must be the preimage, byte *)
(* for byte; a new one is created exclusively and then filled in place.    *)
Preimage(p) ==
    /\ spc[p] = "preimage"
    /\ \/ preimage = None /\ preimage' = Partial /\ Reached(p, "filling") /\ UNCHANGED faults
       \/ preimage = Partial /\ Raise(p, "collision") /\ UNCHANGED <<preimage, faults>>
       \/ preimage \notin {None, Partial} /\ Reached(p, "migrate") /\ UNCHANGED <<preimage, faults>>
       \/ Fault /\ Raise(p, "error") /\ UNCHANGED preimage
    /\ UNCHANGED <<config, statefile, read, saved>>

Fill(p) ==
    /\ spc[p] = "filling"
    /\ \/ preimage' = read[p] /\ Reached(p, "migrate") /\ UNCHANGED faults
       \/ Fault /\ preimage' \in {Partial, read[p]} /\ Raise(p, "error")
    /\ UNCHANGED <<config, statefile, read, saved>>

Migrated(c) == [c EXCEPT !.schema = Schema]

Migrate(p) ==
    /\ spc[p] = "migrate"
    /\ \/ config' = Migrated(read[p]) /\ Reached(p, "verify") /\ UNCHANGED faults
       \/ Fault /\ config' \in {config, Migrated(read[p])} /\ Reached(p, "rollback")
    /\ UNCHANGED <<preimage, statefile, read, saved>>

(* The written file is decoded again before the migration counts. *)
Verify(p) ==
    /\ spc[p] = "verify"
    /\ \/ /\ config = Migrated(read[p]) /\ spc' = [spc EXCEPT ![p] = "state"]
          /\ LeaveConfig(p) /\ UNCHANGED <<report, faults>>
       \/ config # Migrated(read[p]) /\ Reached(p, "rollback") /\ UNCHANGED faults
       \/ Fault /\ Reached(p, "rollback")
    /\ UNCHANGED <<files, read, saved>>

(* The preimage is put back under the same lock. *)
Rollback(p) ==
    /\ spc[p] = "rollback"
    /\ \/ config' = read[p] /\ Raise(p, "rolled_back") /\ UNCHANGED faults
       \/ Fault /\ config' \in {config, read[p]} /\ Raise(p, "rollback_failed")
    /\ UNCHANGED <<preimage, statefile, read, saved>>

(* _ensure_state, written atomically; then the bootstrap lock is left. *)
EnsureState(p) ==
    /\ spc[p] = "state"
    /\ \/ /\ statefile \in {None, "valid"} /\ statefile' = "valid"
          /\ spc' = [spc EXCEPT ![p] = "ready"]
          /\ report' = [report EXCEPT ![p] = "prepared"] /\ Release(p) /\ UNCHANGED faults
       \/ statefile = "unsupported" /\ Raise(p, "error") /\ UNCHANGED <<statefile, faults>>
       \/ Fault /\ Raise(p, "error")
          /\ statefile' \in {statefile} \union (IF statefile = None THEN {"valid"} ELSE {})
    /\ UNCHANGED <<config, preimage, read, saved>>

---------------------------------------------------------------------------
(* TomlProfileRepository.update of a prepared process: load, change and    *)
(* replace under the configuration lock.  A lock that is not free until    *)
(* its timeout leaves everything as it is; so does a file that is refused. *)
EnterUpdate(p) ==
    /\ configLock = None /\ Goes(p, "ready", "put")
    /\ configLock' = p /\ read' = [read EXCEPT ![p] = IF config = None THEN empty ELSE config]
    /\ UNCHANGED <<files, bootLock, report, saved, faults>>

(* A save of the draft migrates it; no preimage is made here. *)
SaveProfile(p, n) ==
    LET replaced == /\ config' = [schema |-> Schema, profiles |-> read[p].profiles \union {n}]
                    /\ saved' = saved \union {n}
        decoded == read[p] # Partial /\ read[p].schema <= Schema
    IN  /\ Goes(p, "put", "ready") /\ Release(p)
        /\ \/ decoded /\ replaced /\ UNCHANGED faults
           \/ decoded /\ Fault /\ (replaced \/ UNCHANGED <<config, saved>>)
           \/ ~decoded /\ UNCHANGED <<config, saved, faults>>
        /\ UNCHANGED <<preimage, statefile, read, report>>

(* The process ends without leaving its with-blocks. *)
Kill(p) ==
    /\ Fault /\ spc[p] \notin {"killed", "failed"}
    /\ spc' = [spc EXCEPT ![p] = "killed"] /\ Release(p)
    /\ UNCHANGED <<files, read, report, saved>>

(* The client starts the entry point again. *)
Restart(p) ==
    /\ spc[p] \in {"killed", "failed"} /\ Fault
    /\ spc' = [spc EXCEPT ![p] = "start"]
    /\ UNCHANGED <<files, locks, read, report, saved>>

---------------------------------------------------------------------------
InitState ==
    /\ config \in {None, Partial}
                  \union [schema : 0..Schema + 1, profiles : {{}, {CHOOSE n \in Profiles : TRUE}}]
    /\ preimage = None /\ statefile \in {None, "valid", "unsupported"}
    /\ bootLock = None /\ configLock = None
    /\ spc = [p \in Everyone |-> IF p \in Procs THEN "start" ELSE "ready"]
    /\ read = [p \in Everyone |-> None] /\ report = [p \in Everyone |-> "none"]
    /\ saved = IF config \in {None, Partial} THEN {} ELSE config.profiles
    /\ faults = 0

ensure(p) == EnterBootstrap(p) \/ EnterConfig(p) \/ LockTimeout(p) \/ Examine(p) \/ Create(p)
             \/ Preimage(p) \/ Fill(p) \/ Migrate(p) \/ Verify(p) \/ Rollback(p) \/ EnsureState(p)

StateNext == \E p \in Everyone : \/ ensure(p) \/ EnterUpdate(p) \/ Kill(p) \/ Restart(p)
                                 \/ \E n \in Profiles : SaveProfile(p, n)

StateSpec == InitState /\ [][StateNext]_stateVars

---------------------------------------------------------------------------
(* The types, and who holds the locks: the bootstrap lock is held exactly  *)
(* while its holder prepares the directory, however it leaves, and the     *)
(* configuration lock by that process or by one that saves a profile.      *)
StateTypeOK ==
    /\ config \in Configs \union {None, Partial}
    /\ preimage \in Configs \union {None, Partial}
    /\ statefile \in {None, "valid", "unsupported"}
    /\ spc \in [Everyone -> SPc] /\ read \in [Everyone -> Configs \union {None, Partial}]
    /\ saved \subseteq Profiles /\ faults \in 0..MaxFaults
    /\ \A p \in Everyone :
         bootLock = p <=> spc[p] \in SPc \ {"start", "ready", "put", "failed", "killed"}
    /\ configLock # None => configLock = bootLock \/ spc[configLock] = "put"

(* A profile once saved stays in config.toml: neither the creation of an   *)
(* absent file, nor a migration, nor its rollback loses what another       *)
(* process saved meanwhile.                                                *)
SavedProfilesSurvive == saved # {} => config \in Configs /\ saved \subseteq config.profiles

(* A preparation that succeeded leaves a configuration this version reads  *)
(* and a valid state file, and both stay so.                               *)
PreparedIsUsable ==
    (\E p \in Everyone : report[p] = "prepared") =>
        statefile = "valid" /\ config \in Configs /\ config.schema = Schema

(* Whatever step replaces a draft file, its bytes are in the preimage      *)
(* before, unless the step saves a profile: TomlProfileRepository.update   *)
(* migrates a draft it finds without a preimage.  A preimage, once         *)
(* complete, stays.                                                        *)
DraftIsKept ==
    /\ config \in Configs /\ config.schema = 0 /\ config' # config =>
         \/ preimage = config
         \/ \E p \in Everyone, n \in Profiles : SaveProfile(p, n)
    /\ preimage \in Configs => preimage' = preimage

(* Preparing the local state is safe whatever runs beside it and wherever  *)
(* it is interrupted: saved profiles survive, what was prepared stays      *)
(* usable, and of the steps of a preparation none replaces a draft that is *)
(* not in its preimage.                                                    *)
MigrationIsSafe == /\ [](SavedProfilesSurvive /\ PreparedIsUsable)
                   /\ [][DraftIsKept]_stateVars

(* docs/adr/016: the preimage is stored "byte-for-byte"; a start that was  *)
(* interrupted leaves nothing a later start refuses.                       *)
PreimageIsWhole == configLock = None => preimage # Partial
=============================================================================
