---------------------------- MODULE MCLocalFiles ----------------------------
(* The local state, the installation, the audit log and the key files,     *)
(* each checked with the others at rest: they share nothing but the        *)
(* processes that run them.                                                *)
EXTENDS LocalState, Installation, AuditTrail, KeyFiles, TLC

CONSTANTS v1, v2

Line(n, v, remove_data) == [name |-> n, version |-> v, apply |-> TRUE, remove_data |-> remove_data]
(* uninstall removes the data too, which is the longer way. *)
MCCommandLines ==
    {Line("codex-config", v, FALSE) : v \in {v1, v2}}
    \union {Line(n, v1, FALSE) : n \in {"broker-task", "remove", "update"}}
    \union {Line("uninstall", v1, TRUE), [Line("codex-config", v1, FALSE) EXCEPT !.apply = FALSE]}

NoBootstrap == /\ config = None /\ preimage = None /\ statefile = None
               /\ bootLock = None /\ configLock = None /\ saved = {} /\ faults = MaxFaults
               /\ spc = [p \in Everyone |-> "killed"]
               /\ read = [p \in Everyone |-> None] /\ report = [p \in Everyone |-> "none"]
NoInstall == /\ codex = Absent /\ backup = Absent /\ task = Absent /\ data = "kept"
             /\ ipc = [p \in Installers |-> "ended"] /\ raced = FALSE /\ changes = MaxForeign
             /\ cmd = [p \in Installers |-> Line("update", v1, FALSE)]
             /\ change = [p \in Installers |-> [previous |-> Absent, updated |-> Absent]]
             /\ had = [p \in Installers |-> FALSE]
             /\ result = [p \in Installers |-> [status |-> "none"]]
             /\ theirs = [codex |-> Absent, task |-> Absent]

NoAudit == /\ log = <<>> /\ holders = {} /\ answers = {} /\ auditFaults = 0
           /\ apc = [c \in Callers |-> "dead"] /\ calls = [c \in Callers |-> 0]
           /\ kind = [c \in Callers |-> "tool"] /\ outcome = [c \in Callers |-> "none"]
           /\ event = [c \in Callers |-> Event(c, 1, "started")]
           /\ logged = [c \in Callers |-> TRUE]

NoKeys == /\ private = NoKey /\ public = NoKey /\ keyFaults = 0
          /\ kpc = [w \in Windows |-> "killed"] /\ keygen = [w \in Windows |-> "none"]
          /\ generations = [w \in Windows |-> 0] /\ told = [w \in Windows |-> "nothing"]
          /\ disturbed = [w \in Windows |-> FALSE]

Init == \/ InitState /\ NoInstall /\ NoAudit /\ NoKeys
        \/ NoBootstrap /\ InitInstall /\ NoAudit /\ NoKeys
        \/ NoBootstrap /\ NoInstall /\ InitAudit /\ NoKeys
        \/ NoBootstrap /\ NoInstall /\ NoAudit /\ InitKeys
Next == \/ StateNext /\ UNCHANGED <<installVars, auditVars, keyVars>>
        \/ InstallNext /\ UNCHANGED <<stateVars, auditVars, keyVars>>
        \/ AuditNext /\ UNCHANGED <<stateVars, installVars, keyVars>>
        \/ KeysNext /\ UNCHANGED <<stateVars, installVars, auditVars>>
Spec == Init /\ [][Next]_<<stateVars, installVars, auditVars, keyVars>>
Symmetry == Permutations(Installers) \union Permutations(Procs)

(* The types of the four modules, and who holds the locks of the local state. *)
TypesOK == StateTypeOK /\ InstallTypeOK /\ AuditTypeOK /\ KeysTypeOK
=============================================================================
