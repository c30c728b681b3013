----------------------------- MODULE AuditTrail -----------------------------
(***************************************************************************)
(* The local audit log: processes carry out operations and append their    *)
(* events, as JSON lines, to the file of the day.                          *)
(*                                                                         *)
(*   tool      ApplicationAudit.call: the operation, then one event        *)
(*   change    ProfileSetupOperations.add, edit, remove: an event follows  *)
(*             the operation only if it succeeded                          *)
(*   attempt   test, generate_key: an event before and one after it        *)
(*                                                                         *)
(* A line is two pieces, so that it can be cut: a full disk or a kill may  *)
(* leave the first alone.  Every call of the file system may raise.        *)
(***************************************************************************)
EXTENDS Naturals, Sequences, FiniteSets

CONSTANTS Callers,          \* processes: MCP servers and setup windows
          MaxCalls,         \* bound: operations of a process
          MaxAuditFaults    \* bound: exceptions of the file system and kills

ASSUME AuditBounds == MaxCalls \in Nat \ {0} /\ MaxAuditFaults \in Nat

VARIABLES log,         \* the pieces in the file
          holders,     \* who holds .audit.lock
          apc,         \* where each process stands
          calls,       \* its operations so far
          kind,        \* the operation it carries out
          outcome,     \* how that ended
          event,       \* the event it records
          logged,      \* every event of the operation was written so far
          answers,     \* what its callers were told
          auditFaults

auditVars == <<log, holders, apc, calls, kind, outcome, event, logged, answers, auditFaults>>
callVars == <<calls, kind, outcome, event, answers>>

Kinds == {"tool", "change", "attempt"}
APc == {"idle", "operation", "record", "lock", "write", "rest", "secure", "answer", "dead"}
Event(c, n, status) == [by |-> c, n |-> n, status |-> status]
Events == [by : Callers, n : 1..MaxCalls, status : {"started", "completed", "failed"}]
Piece(e, part) == [event |-> e, part |-> part]

AGoes(c, from, to) == apc[c] = from /\ apc' = [apc EXCEPT ![c] = to]
AuditFault == auditFaults < MaxAuditFaults /\ auditFaults' = auditFaults + 1

---------------------------------------------------------------------------
(* A call begins; an attempt records that it does. *)
Call(c, k) ==
    /\ calls[c] < MaxCalls
    /\ AGoes(c, "idle", IF k = "attempt" THEN "record" ELSE "operation")
    /\ calls' = [calls EXCEPT ![c] = @ + 1]
    /\ kind' = [kind EXCEPT ![c] = k]
    /\ outcome' = [outcome EXCEPT ![c] = "none"]
    /\ logged' = [logged EXCEPT ![c] = TRUE]
    /\ event' = [event EXCEPT ![c] = Event(c, calls'[c], "started")]
    /\ UNCHANGED <<log, holders, answers, auditFaults>>

(* The operation itself ends or raises. *)
Operation(c, o) ==
    /\ AGoes(c, "operation", IF kind[c] = "change" /\ o = "failed" THEN "answer" ELSE "record")
    /\ outcome' = [outcome EXCEPT ![c] = o]
    /\ event' = [event EXCEPT ![c] = Event(c, calls[c], o)]
    /\ UNCHANGED <<log, holders, calls, kind, logged, answers, auditFaults>>

(* _safe_record, ProfileAudit.record: an exception is an event not logged. *)
Recorded(c, written) ==
    /\ logged' = [logged EXCEPT ![c] = @ /\ written]
    /\ apc' = [apc EXCEPT ![c] = IF outcome[c] = "none" THEN "operation" ELSE "answer"]
    /\ holders' = holders \ {c}

(* The event is built; the directory and the lock file are there or made. *)
Record(c) ==
    /\ apc[c] = "record"
    /\ \/ apc' = [apc EXCEPT ![c] = "lock"] /\ UNCHANGED <<holders, logged, auditFaults>>
       \/ AuditFault /\ Recorded(c, FALSE)
    /\ UNCHANGED <<log, callVars>>

(* A mutant: the lock excludes nobody. *)
EnterLock_shared(c) ==
    /\ AGoes(c, "lock", "write") /\ holders' = holders \union {c}
    /\ UNCHANGED <<log, logged, auditFaults, callVars>>

(* AuditFileLock.__enter__ *)
EnterLock(c) ==
    /\ holders = {} /\ AGoes(c, "lock", "write") /\ holders' = {c}
    /\ UNCHANGED <<log, logged, auditFaults, callVars>>

AuditLockTimeout(c) ==
    /\ apc[c] = "lock" /\ holders # {} /\ Recorded(c, FALSE)
    /\ UNCHANGED <<log, auditFaults, callVars>>

(* _append: the line is flushed as one write, of which a part may fail; closing  *)
(* the stream flushes what is left once more.                                    *)
WriteLine(c) ==
    /\ apc[c] = "write"
    /\ \/ /\ log' = Append(log, Piece(event[c], "head"))
          /\ apc' = [apc EXCEPT ![c] = "rest"] /\ UNCHANGED <<holders, logged, auditFaults>>
       \/ AuditFault /\ Recorded(c, FALSE) /\ UNCHANGED log
    /\ UNCHANGED callVars

WriteRest(c) ==
    LET whole == Append(log, Piece(event[c], "tail")) IN
    /\ apc[c] = "rest"
    /\ \/ /\ log' = whole
          /\ apc' = [apc EXCEPT ![c] = "secure"] /\ UNCHANGED <<holders, logged, auditFaults>>
       \/ AuditFault /\ Recorded(c, FALSE) /\ log' \in {log, whole}
    /\ UNCHANGED callVars

(* fsync and the access list of the file, then AuditFileLock.__exit__. *)
SecureLog(c) ==
    /\ apc[c] = "secure"
    /\ \/ Recorded(c, TRUE) /\ UNCHANGED auditFaults
       \/ AuditFault /\ Recorded(c, FALSE)
    /\ UNCHANGED <<log, callVars>>

(* The result with audit.logged, or the operation's own exception without it. *)
Return(c) ==
    /\ AGoes(c, "answer", "idle")
    /\ answers' = answers \union {[by |-> c, n |-> calls[c], kind |-> kind[c], outcome |-> outcome[c],
          logged |-> IF outcome[c] = "failed" THEN "unsaid" ELSE IF logged[c] THEN "yes" ELSE "no"]}
    /\ UNCHANGED <<log, holders, calls, kind, outcome, event, logged, auditFaults>>

(* The operating system releases the lock of a process that is killed. *)
KilledCaller(c) ==
    /\ AuditFault /\ apc[c] \notin {"idle", "dead"}
    /\ apc' = [apc EXCEPT ![c] = "dead"] /\ holders' = holders \ {c}
    /\ UNCHANGED <<log, logged, callVars>>

---------------------------------------------------------------------------
InitAudit ==
    /\ log = <<>> /\ holders = {} /\ answers = {} /\ auditFaults = 0
    /\ apc = [c \in Callers |-> "idle"] /\ calls = [c \in Callers |-> 0]
    /\ kind = [c \in Callers |-> "tool"] /\ outcome = [c \in Callers |-> "none"]
    /\ event = [c \in Callers |-> Event(c, 1, "started")]
    /\ logged = [c \in Callers |-> TRUE]

AuditNext ==
    \E c \in Callers :
       \/ \E k \in Kinds : Call(c, k)
       \/ \E o \in {"completed", "failed"} : Operation(c, o)
       \/ Record(c) \/ EnterLock(c) \/ AuditLockTimeout(c) \/ WriteLine(c) \/ WriteRest(c)
       \/ SecureLog(c) \/ Return(c) \/ KilledCaller(c)

AuditSpec == InitAudit /\ [][AuditNext]_auditVars

---------------------------------------------------------------------------
AuditTypeOK ==
    /\ log \in Seq([event : Events, part : {"head", "tail"}])
    /\ holders \subseteq Callers /\ apc \in [Callers -> APc]
    /\ calls \in [Callers -> 0..MaxCalls] /\ kind \in [Callers -> Kinds]
    /\ event \in [Callers -> Events] /\ logged \in [Callers -> BOOLEAN]
    /\ auditFaults \in 0..MaxAuditFaults

(* The pieces of a line stand together; it is still being written; or it was torn. *)
Complete(i) == log[i].part = "head" /\ i < Len(log) /\ log[i + 1] = Piece(log[i].event, "tail")
InWriting(i) == i = Len(log) /\ apc[log[i].event.by] = "rest"
Torn(i) == log[i].part = "head" /\ ~Complete(i) /\ ~InWriting(i)

(* _append writes no newline first: what follows a torn line becomes part of it.    *)
Readable(i) == Complete(i) /\ (i = 1 \/ log[i - 1].part = "tail")
Unreadable == {i \in DOMAIN log : log[i].part = "head" /\ ~Readable(i) /\ ~InWriting(i)}

Statuses(a) == {a.outcome} \union (IF a.kind = "attempt" THEN {"started"} ELSE {})

(* docs/security.md: "a failed write does not falsify the remote result".    *)
(* However the appends of the processes interleave, a line becomes            *)
(* unreadable only by a file system error or a kill, and each of these costs  *)
(* at most the line it tears and the one appended to that; no event is        *)
(* written twice.  A caller told that its operation was logged finds every    *)
(* event of it written to the end, and readable unless it was appended to a   *)
(* torn line.  The events of an answered operation stand in order and tell    *)
(* the outcome its caller was told.                                           *)
AuditIsHonest ==
    /\ Cardinality(Unreadable) <= 2 * auditFaults
    /\ \A i, j \in DOMAIN log : log[i] = log[j] => i = j
    /\ \A a \in answers :
         /\ a.logged = "yes" => \A s \in Statuses(a) : \E i \in DOMAIN log :
              /\ Complete(i) /\ log[i].event = Event(a.by, a.n, s)
              /\ Readable(i) \/ Torn(i - 1)
         /\ \A i \in DOMAIN log : LET e == log[i].event IN
              e.by = a.by /\ e.n = a.n =>
                /\ e.status \in Statuses(a)
                /\ e.status = a.outcome =>
                     \A j \in DOMAIN log : log[j].event = Event(a.by, a.n, "started") => j < i
=============================================================================
