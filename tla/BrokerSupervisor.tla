--------------------------- MODULE BrokerSupervisor ---------------------------
(***************************************************************************)
(* The broker's WorkerSupervisor and SessionRegistry, driven by the        *)
(* broker's client threads, with one worker process per session at the     *)
(* other end of a pipe.                                                    *)
(*                                                                         *)
(* A client thread carries out one operation at a time; pc says at which   *)
(* lock boundary of supervisor.py it stands.  Everything done under        *)
(* WorkerSupervisor._lock is one step, because only the holder of _lock    *)
(* reads or writes _handles; everything between two lock regions is open   *)
(* to the steps of the other threads, the worker and the operating system. *)
(***************************************************************************)
EXTENDS Naturals, Sequences, SessionStates

CONSTANTS
  Threads,      \* the broker's client threads
  Sessions,     \* the session ids new_session_id can return
  Ops,          \* the broker operations clients use, a subset of BrokerOps
  MaxOps,       \* bound: the operations one thread carries out
  None          \* no session, no state, no lock owner

\* The requests BrokerServer forwards to a worker.  worker.terminal and
\* worker.elevation stand for their actions that change something.
Effectful == {"worker.exec", "worker.terminal", "worker.file_edit", "worker.elevation"}
WorkerOps == Effectful \union {"worker.status", "worker.files"}

\* The operations of BrokerServer._handle_request that reach the supervisor.
BrokerOps == WorkerOps \union {"session.create", "session.open", "session.list",
                               "session.rediscover", "session.close"}

ASSUME NoneAssumption ==
  /\ None \notin Threads /\ None \notin Sessions /\ None \notin SessionState
ASSUME OpsAssumption == Ops \subseteq BrokerOps
ASSUME BoundAssumption == MaxOps \in Nat

VARIABLES
  pc,           \* where each thread stands
  job,          \* the operation each thread carries out
  sess,         \* the session that operation is about
  seq,          \* operations begun by each thread; <<t, seq[t]>> is the message_id
  res,          \* what the operation answered to its client
  upd,          \* the state a reply carried, to be recorded
  handles,      \* WorkerSupervisor._handles: the sessions with a WorkerHandle
  hrec,         \* WorkerHandle.record.state
  registry,     \* SessionRegistry._records: the state in a session's record
  lock,         \* WorkerHandle.request_lock: its holder
  closed,       \* PipeConnection._closed at the broker's end
  toWorker,     \* requests in the pipe
  fromWorker,   \* responses in the pipe
  proc,         \* the worker process
  wstate,       \* the session state inside the worker
  reply,        \* the response a worker computed and has not sent
  executed      \* the message ids whose remote effect took place

threadVars == <<pc, job, sess, seq, res, upd>>
tableVars  == <<handles, hrec, registry>>
pipeVars   == <<closed, toWorker, fromWorker>>
workerVars == <<proc, wstate, reply, executed>>
vars == <<threadVars, tableVars, lock, pipeVars, workerVars>>

-----------------------------------------------------------------------------
(* Types *)

MessageId == Threads \X (0..MaxOps)
Request   == [id: MessageId, op: WorkerOps \union {"worker.shutdown"}]
\* A result may leave the state out; WorkerProtocolHandler.error_payload never does.
Response  ==
  {r \in [id: MessageId, kind: {"result", "error"},
          state: SessionState \union {None}, stop: BOOLEAN] :
     r.kind = "error" => r.state # None}

\* "none": not spawned.  "stopping": out of the request loop, not yet gone.
ProcState == {"none", "serving", "stopping", "exited"}
Alive(s) == proc[s] \in {"serving", "stopping"}

PcStart    == {"spawned", "publish", "start_failed"}
PcRequest  == {"refresh", "get", "lookup", "send", "receive", "check",
               "update_result", "update_error", "invalidate", "kill"}
PcShutdown == {"pop", "poll", "finish", "finish_raised", "remove"}
PcState    == {"idle"} \union PcStart \union PcRequest \union PcShutdown

\* What a client is told: the operation's result, the worker's own error, or
\* one of the codes the broker makes up.
Answer == {"none", "result", "worker_error", "session_not_found",
           "outcome_unknown", "file_outcome_unknown", "elevation_outcome_unknown",
           "worker_ipc_failed", "start_failed", "broker_internal_error"}

ASSUME NoAnswerAssumption == None \notin Answer

\* MUTANT: a terminal write counts as harmless.
uncertain_outcome_code_no_terminal(o) ==
  CASE o \in {"worker.exec", "worker.shutdown"} -> "outcome_unknown"
    [] o = "worker.file_edit" -> "file_outcome_unknown"
    [] o = "worker.elevation" -> "elevation_outcome_unknown"
    [] OTHER -> None

\* The code for a request whose effect cannot be inferred after delivery.
uncertain_outcome_code(o) ==
  CASE o \in {"worker.exec", "worker.terminal", "worker.shutdown"} -> "outcome_unknown"
    [] o = "worker.file_edit" -> "file_outcome_unknown"
    [] o = "worker.elevation" -> "elevation_outcome_unknown"
    [] OTHER -> None

\* The message type an operation sends to the worker.
MessageType(o) ==
  CASE o = "session.close"      -> "worker.shutdown"
    [] o = "session.rediscover" -> "worker.status"
    [] OTHER                    -> o

Id(t) == <<t, seq[t]>>

-----------------------------------------------------------------------------
(* Thread-local bookkeeping *)

Goto(t, where) == pc' = [pc EXCEPT ![t] = where]

\* The operation ends and its client is answered.
Finish(t, answer) ==
  /\ Goto(t, "idle")
  /\ res' = [res EXCEPT ![t] = answer]

\* A client thread takes the next request off its connection.
Begin(t) ==
  /\ pc[t] = "idle"
  /\ seq[t] < MaxOps
  /\ seq' = [seq EXCEPT ![t] = @ + 1]
  /\ res' = [res EXCEPT ![t] = "none"]
  /\ upd' = [upd EXCEPT ![t] = None]
  /\ \E o \in Ops :
       /\ job' = [job EXCEPT ![t] = o]
       /\ \/ /\ o \in {"session.create", "session.open"}
             /\ \E s \in Sessions :
                  /\ proc[s] = "none"
                  /\ sess' = [sess EXCEPT ![t] = s]
                  /\ proc' = [proc EXCEPT ![s] = "serving"]
             /\ Goto(t, "spawned")
          \/ /\ o = "session.list"
             /\ sess' = [sess EXCEPT ![t] = None]
             /\ Goto(t, "refresh")
             /\ UNCHANGED proc
          \/ /\ o \in WorkerOps \union {"session.rediscover", "session.close"}
             /\ \E s \in Sessions : /\ proc[s] # "none"
                                    /\ sess' = [sess EXCEPT ![t] = s]
             /\ Goto(t, IF o = "session.close" THEN "pop" ELSE "refresh")
             /\ UNCHANGED proc
  /\ UNCHANGED <<tableVars, lock, pipeVars, wstate, reply, executed>>

-----------------------------------------------------------------------------
(* WorkerSupervisor.start *)

\* The worker published its status, the handshake and the ping succeeded and,
\* for session.open, worker.open answered "ready".  No other thread knows the
\* handle yet, so these requests cannot interleave with another request.
StartOpened(t) ==
  LET s == sess[t] IN
  /\ pc[t] = "spawned"
  /\ proc[s] = "serving"
  /\ wstate' = [wstate EXCEPT ![s] = IF job[t] = "session.open" THEN "ready"
                                                                 ELSE "created"]
  /\ Goto(t, "publish")
  /\ UNCHANGED <<job, sess, seq, res, upd, tableVars, lock, pipeVars, proc, reply,
                 executed>>

\* A missing or invalid status, a failed handshake, ping or open.
StartFails(t) ==
  /\ pc[t] = "spawned"
  /\ Goto(t, "start_failed")
  /\ UNCHANGED <<job, sess, seq, res, upd, tableVars, lock, pipeVars, workerVars>>

\* The except branch: ask for shutdown, close, terminate, remove the status.
StartCleanup(t) ==
  LET s == sess[t] IN
  /\ pc[t] = "start_failed"
  /\ closed' = [closed EXCEPT ![s] = TRUE]
  /\ proc' = [proc EXCEPT ![s] = "exited"]
  /\ Finish(t, "start_failed")
  /\ UNCHANGED <<job, sess, seq, upd, tableVars, lock, toWorker, fromWorker, wstate,
                 reply, executed>>

\* Under _lock the handle and the record appear together.  The record carries
\* the state of the last reply, whatever became of the worker since.
Publish(t) ==
  LET s == sess[t]
      st == IF job[t] = "session.open" THEN "ready" ELSE "created" IN
  /\ pc[t] = "publish"
  /\ handles' = handles \union {s}
  /\ hrec' = [hrec EXCEPT ![s] = st]
  /\ registry' = [registry EXCEPT ![s] = st]
  /\ Finish(t, "result")
  /\ UNCHANGED <<job, sess, seq, upd, lock, pipeVars, workerVars>>

-----------------------------------------------------------------------------
(* WorkerSupervisor.list, get and request *)

\* SessionRegistry.replace raises when the record is missing.
Replace(table, s, st) ==
  [table EXCEPT ![s] = IF @ = None THEN None ELSE st]


\* MUTANT: handle.record keeps its old state.
Refresh_registry_only(t) ==
  LET dead == {s \in handles : ~Alive(s) /\ hrec[s] # "lost"} IN
  /\ pc[t] = "refresh"
  /\ registry' = [s \in Sessions |->
                    IF s \in dead /\ registry[s] # None THEN "lost" ELSE registry[s]]
  /\ \/ job[t] = "session.list" /\ Finish(t, "result")
     \/ job[t] # "session.list" /\ Goto(t, "get") /\ UNCHANGED res
  /\ UNCHANGED <<job, sess, seq, upd, handles, hrec, lock, pipeVars, workerVars>>

\* _refresh_dead_workers, under _lock: a handle whose process is gone gets a
\* "lost" record; the handle stays.  session.list then answers.
Refresh(t) ==
  LET dead == {s \in handles : ~Alive(s) /\ hrec[s] # "lost"} IN
  /\ pc[t] = "refresh"
  /\ hrec' = [s \in Sessions |-> IF s \in dead THEN "lost" ELSE hrec[s]]
  /\ registry' = [s \in Sessions |->
                    IF s \in dead /\ registry[s] # None THEN "lost" ELSE registry[s]]
  /\ \/ job[t] = "session.list" /\ Finish(t, "result")
     \/ job[t] # "session.list" /\ Goto(t, "get") /\ UNCHANGED res
  /\ UNCHANGED <<job, sess, seq, upd, handles, lock, pipeVars, workerVars>>

\* registry.get; session.rediscover answers a lost record without a request.
Get(t) ==
  LET s == sess[t] IN
  /\ pc[t] = "get"
  /\ \/ registry[s] = None /\ Finish(t, "session_not_found")
     \/ /\ registry[s] = "lost" /\ job[t] = "session.rediscover"
        /\ Finish(t, "result")
     \/ /\ registry[s] # None
        /\ ~(registry[s] = "lost" /\ job[t] = "session.rediscover")
        /\ Goto(t, "lookup") /\ UNCHANGED res
  /\ UNCHANGED <<job, sess, seq, upd, tableVars, lock, pipeVars, workerVars>>

\* supervisor.request takes the handle under _lock.
Lookup(t) ==
  /\ pc[t] = "lookup"
  /\ \/ sess[t] \in handles /\ Goto(t, "send") /\ UNCHANGED res
     \/ sess[t] \notin handles /\ Finish(t, "session_not_found")
  /\ UNCHANGED <<job, sess, seq, upd, tableVars, lock, pipeVars, workerVars>>


\* MUTANT: the outcome code is recorded where the state belongs.
TransportError_code_as_state(t) ==
  IF job[t] = "session.close"
  THEN /\ Goto(t, "finish") /\ UNCHANGED <<res, upd>>
  ELSE /\ Goto(t, "update_error")
       /\ res' = [res EXCEPT ![t] = "outcome_unknown"]
       /\ upd' = [upd EXCEPT ![t] = "outcome_unknown"]

\* Where WorkerHandle.request leaves a thread when it raises a transport error:
\* shutdown swallows it, request records the session as lost.
TransportError(t) ==
  IF job[t] = "session.close"
  THEN /\ Goto(t, "finish") /\ UNCHANGED <<res, upd>>
  ELSE /\ Goto(t, "update_error")
       /\ res' = [res EXCEPT ![t] =
                    LET code == uncertain_outcome_code(MessageType(job[t])) IN
                    IF code # None THEN code ELSE "worker_ipc_failed"]
       /\ upd' = [upd EXCEPT ![t] = "lost"]

\* request_lock is acquired; the request goes into the pipe.
Send(t) ==
  LET s == sess[t] IN
  /\ pc[t] = "send"
  /\ lock[s] = None
  /\ ~closed[s] /\ proc[s] # "exited"
  /\ lock' = [lock EXCEPT ![s] = t]
  /\ toWorker' = [toWorker EXCEPT ![s] =
                    Append(@, [id |-> Id(t), op |-> MessageType(job[t])])]
  /\ Goto(t, "receive")
  /\ UNCHANGED <<job, sess, seq, res, upd, tableVars, closed, fromWorker, workerVars>>

\* send raises IpcClosed on a closed or broken pipe: the lock is released and
\* the connection closed.
SendFails(t) ==
  LET s == sess[t] IN
  /\ pc[t] = "send"
  /\ lock[s] = None
  /\ closed[s] \/ proc[s] = "exited"
  /\ closed' = [closed EXCEPT ![s] = TRUE]
  /\ TransportError(t)
  /\ UNCHANGED <<job, sess, seq, tableVars, lock, toWorker, fromWorker, workerVars>>

\* A response is read and the lock released.  A response to another request is
\* a transport error; an error response carries the worker's state; a result
\* carries one for worker.status and worker.terminal only.
Receive(t) ==
  LET s == sess[t]
      r == Head(fromWorker[s]) IN
  /\ pc[t] = "receive"
  /\ ~closed[s] /\ fromWorker[s] # <<>>
  /\ lock' = [lock EXCEPT ![s] = None]
  /\ fromWorker' = [fromWorker EXCEPT ![s] = Tail(@)]
  /\ IF r.id # Id(t)
     THEN TransportError(t) /\ closed' = [closed EXCEPT ![s] = TRUE]
     ELSE /\ UNCHANGED closed
          /\ IF job[t] = "session.close"
             THEN Goto(t, "finish") /\ UNCHANGED <<res, upd>>
             ELSE IF r.kind = "result" /\ r.state = None
             THEN Finish(t, "result") /\ UNCHANGED upd
             ELSE /\ Goto(t, IF r.kind = "error" THEN "update_error" ELSE "check")
                  /\ res' = [res EXCEPT ![t] = IF r.kind = "error"
                                               THEN "worker_error" ELSE "result"]
                  /\ upd' = [upd EXCEPT ![t] = r.state]
  /\ UNCHANGED <<job, sess, seq, tableVars, toWorker, workerVars>>


\* MUTANT: a timed-out receive leaves the connection open for the next request.
ReceiveFails_stays_open(t) ==
  /\ pc[t] = "receive"
  /\ lock' = [lock EXCEPT ![sess[t]] = None]
  /\ TransportError(t)
  /\ UNCHANGED <<job, sess, seq, tableVars, pipeVars, workerVars>>

\* MUTANT: a timed-out receive does not release request_lock.
ReceiveFails_keeps_lock(t) ==
  /\ pc[t] = "receive"
  /\ closed' = [closed EXCEPT ![sess[t]] = TRUE]
  /\ TransportError(t)
  /\ UNCHANGED <<job, sess, seq, tableVars, lock, toWorker, fromWorker, workerVars>>

\* receive raises IpcTimeout or IpcClosed: it closes the connection itself,
\* still under request_lock.  The timeout may strike at any moment.
ReceiveFails(t) ==
  LET s == sess[t] IN
  /\ pc[t] = "receive"
  /\ closed' = [closed EXCEPT ![s] = TRUE]
  /\ lock' = [lock EXCEPT ![s] = None]
  /\ TransportError(t)
  /\ UNCHANGED <<job, sess, seq, tableVars, toWorker, fromWorker, workerVars>>

\* Another thread closed the connection between the _closed test of
\* _wait_for_available_bytes and its PeekNamedPipe: the invalid-handle error is
\* not an IpcError and passes through WorkerHandle.request unhandled.
ReceiveRaises(t) ==
  LET s == sess[t] IN
  /\ pc[t] = "receive"
  /\ closed[s]
  /\ lock' = [lock EXCEPT ![s] = None]
  /\ \/ /\ job[t] = "session.close"
        /\ Goto(t, "finish_raised") /\ UNCHANGED res
     \/ /\ job[t] # "session.close"
        /\ Finish(t, "broker_internal_error")
  /\ UNCHANGED <<job, sess, seq, upd, tableVars, pipeVars, workerVars>>

\* `state != handle.record.state`, read outside every lock.
Check(t) ==
  /\ pc[t] = "check"
  /\ Goto(t, IF upd[t] # hrec[sess[t]] THEN "update_result" ELSE "idle")
  /\ UNCHANGED <<job, sess, seq, res, upd, tableVars, lock, pipeVars, workerVars>>


\* MUTANT: the identity check on the handle and the presence check are dropped.
UpdateRecord_unchecked(t) ==
  LET s == sess[t] IN
  /\ hrec' = [hrec EXCEPT ![s] = upd[t]]
  /\ registry' = [registry EXCEPT ![s] = upd[t]]

\* _update_record_state: under _lock, only while this handle is published.
UpdateRecord(t) ==
  LET s == sess[t] IN
  IF s \in handles
  THEN /\ hrec' = [hrec EXCEPT ![s] = upd[t]]
       /\ registry' = Replace(registry, s, upd[t])
  ELSE UNCHANGED <<hrec, registry>>

UpdateAfterResult(t) ==
  /\ pc[t] = "update_result"
  /\ UpdateRecord(t)
  /\ Goto(t, "idle")
  /\ UNCHANGED <<job, sess, seq, res, upd, handles, lock, pipeVars, workerVars>>

UpdateAfterError(t) ==
  /\ pc[t] = "update_error"
  /\ UpdateRecord(t)
  /\ Goto(t, IF upd[t] = "lost" THEN "invalidate" ELSE "idle")
  /\ UNCHANGED <<job, sess, seq, res, upd, handles, lock, pipeVars, workerVars>>

\* _invalidate_handle: the handle leaves the table under _lock ...
Invalidate(t) ==
  /\ pc[t] = "invalidate"
  /\ handles' = handles \ {sess[t]}
  /\ Goto(t, "kill")
  /\ UNCHANGED <<job, sess, seq, res, upd, hrec, registry, lock, pipeVars, workerVars>>


\* MUTANT: the process is not waited for and not terminated.
CloseAndTerminate_close_only(s) ==
  /\ closed' = [closed EXCEPT ![s] = TRUE]
  /\ UNCHANGED proc

\* Close the connection and terminate the process.
CloseAndTerminate(s) ==
  /\ closed' = [closed EXCEPT ![s] = TRUE]
  /\ proc' = [proc EXCEPT ![s] = "exited"]

\* ... and its connection and its process go, outside every lock.
Kill(t) ==
  /\ pc[t] = "kill"
  /\ CloseAndTerminate(sess[t])
  /\ Goto(t, "idle")
  /\ UNCHANGED <<job, sess, seq, res, upd, tableVars, lock, toWorker, fromWorker, wstate,
                 reply, executed>>

-----------------------------------------------------------------------------
(* WorkerSupervisor.shutdown *)

\* Under _lock: take the handle, or drop the record of a lost session.
Pop(t) ==
  LET s == sess[t] IN
  /\ pc[t] = "pop"
  /\ \/ /\ s \in handles
        /\ handles' = handles \ {s}
        /\ Goto(t, "poll") /\ UNCHANGED <<registry, res>>
     \/ /\ s \notin handles /\ registry[s] = "lost"
        /\ registry' = [registry EXCEPT ![s] = None]
        /\ Finish(t, "result") /\ UNCHANGED handles
     \/ /\ s \notin handles /\ registry[s] # "lost"
        /\ Finish(t, "session_not_found") /\ UNCHANGED <<handles, registry>>
  /\ UNCHANGED <<job, sess, seq, upd, hrec, lock, pipeVars, workerVars>>

\* process.poll(): a dead worker is not asked to shut down.
Poll(t) ==
  /\ pc[t] = "poll"
  /\ Goto(t, IF Alive(sess[t]) THEN "send" ELSE "finish")
  /\ UNCHANGED <<job, sess, seq, res, upd, tableVars, lock, pipeVars, workerVars>>

\* The finally block: close, wait for the process or terminate it.  An
\* exception other than a broker or IPC error goes on after it and skips the
\* registry.
FinishShutdown(t) ==
  /\ pc[t] \in {"finish", "finish_raised"}
  /\ CloseAndTerminate(sess[t])
  /\ \/ pc[t] = "finish" /\ Goto(t, "remove") /\ UNCHANGED res
     \/ pc[t] = "finish_raised" /\ Finish(t, "broker_internal_error")
  /\ UNCHANGED <<job, sess, seq, upd, tableVars, lock, toWorker, fromWorker, wstate,
                 reply, executed>>

\* registry.remove raises when another close took the record meanwhile.
Remove(t) ==
  LET s == sess[t] IN
  /\ pc[t] = "remove"
  /\ registry' = [registry EXCEPT ![s] = None]
  /\ Finish(t, IF registry[s] = None THEN "session_not_found" ELSE "result")
  /\ UNCHANGED <<job, sess, seq, upd, handles, hrec, lock, pipeVars, workerVars>>

-----------------------------------------------------------------------------
(* The worker process: run_worker's request loop, one request at a time *)

Reply(kind, st, report, effect) ==
  [kind |-> kind, state |-> st, report |-> report, effect |-> effect]

\* What the worker may answer to a request in session state st: the kind of
\* response, the state it leaves the session in, whether the payload reports
\* that state, and whether the remote side was acted on.  worker.exec results
\* carry no state; every error payload does.  A refused request has no effect.
\* Only an elevated request can fail in the visible window, which leaves FAILED.
Replies(o, st) ==
  CASE o = "worker.status" -> {Reply("result", st, TRUE, FALSE)}
    [] o = "worker.files" ->
         IF st = "ready"
         THEN {Reply("result", "ready", FALSE, FALSE)}
              \union {Reply("error", x, TRUE, FALSE) : x \in {"ready", "lost"}}
         ELSE {Reply("error", st, TRUE, FALSE)}
    [] o \in {"worker.exec", "worker.file_edit", "worker.elevation"} ->
         IF st = "ready"
         THEN {Reply("result", "ready", FALSE, TRUE)}
              \union {Reply("error", x, TRUE, TRUE) :
                        x \in {"ready", "lost"} \union
                              (IF o = "worker.elevation" THEN {"failed"} ELSE {})}
         ELSE {Reply("error", st, TRUE, FALSE)}
    [] o = "worker.terminal" ->
         {Reply("error", st, TRUE, FALSE)} \union
         (CASE st = "ready" -> {Reply("result", "interactive", TRUE, TRUE),
                                Reply("error", "lost", TRUE, TRUE)}
            [] st = "interactive" -> {Reply("result", "interactive", TRUE, TRUE),
                                      Reply("result", "ready", TRUE, TRUE),
                                      Reply("error", "lost", TRUE, TRUE)}
            [] OTHER -> {})
    [] o = "worker.shutdown" -> {Reply("result", "closed", FALSE, TRUE)}

\* handler.handle runs a request to its end; the reply is not sent yet.
WorkerHandles(s) ==
  LET m == Head(toWorker[s]) IN
  /\ proc[s] = "serving"
  /\ reply[s] = None /\ toWorker[s] # <<>>
  /\ toWorker' = [toWorker EXCEPT ![s] = Tail(@)]
  /\ \E a \in Replies(m.op, wstate[s]) :
       /\ wstate' = [wstate EXCEPT ![s] = a.state]
       /\ reply' = [reply EXCEPT ![s] =
                      [id |-> m.id, kind |-> a.kind,
                       state |-> IF a.report THEN a.state ELSE None,
                       stop |-> m.op = "worker.shutdown"]]
       /\ executed' = IF a.effect THEN executed \union {m.id} ELSE executed
  /\ UNCHANGED <<threadVars, tableVars, lock, closed, fromWorker, proc>>

\* An unexpected exception in the handler, before or after the effect: the
\* session, if there is one, is closed, the error says so and the loop ends.
WorkerFails(s) ==
  LET m == Head(toWorker[s])
      st == IF wstate[s] = "created" THEN "created" ELSE "closed" IN
  /\ proc[s] = "serving"
  /\ reply[s] = None /\ toWorker[s] # <<>>
  /\ toWorker' = [toWorker EXCEPT ![s] = Tail(@)]
  /\ wstate' = [wstate EXCEPT ![s] = st]
  /\ reply' = [reply EXCEPT ![s] = [id |-> m.id, kind |-> "error",
                                    state |-> st, stop |-> TRUE]]
  /\ executed' \in {executed} \union
       (IF wstate[s] \in {"ready", "interactive"} /\ m.op \in Effectful
        THEN {executed \union {m.id}} ELSE {})
  /\ UNCHANGED <<threadVars, tableVars, lock, closed, fromWorker, proc>>

\* connection.send of the response; on a closed pipe it raises and an
\* authenticated worker leaves its loop.
WorkerReplies(s) ==
  /\ proc[s] = "serving" /\ reply[s] # None
  /\ reply' = [reply EXCEPT ![s] = None]
  /\ fromWorker' = [fromWorker EXCEPT ![s] = IF closed[s] THEN @ ELSE Append(@, reply[s])]
  /\ proc' = [proc EXCEPT ![s] = IF closed[s] \/ reply[s].stop THEN "stopping" ELSE @]
  /\ UNCHANGED <<threadVars, tableVars, lock, closed, toWorker, wstate, executed>>

\* An idle worker whose broker closed the pipe leaves its loop.
WorkerDisconnected(s) ==
  /\ proc[s] = "serving" /\ reply[s] = None
  /\ closed[s] /\ toWorker[s] = <<>>
  /\ proc' = [proc EXCEPT ![s] = "stopping"]
  /\ UNCHANGED <<threadVars, tableVars, lock, pipeVars, wstate, reply, executed>>

\* The process ends: after its loop, or at any time by a crash or a kill.
\* Responses the broker has not read may be lost with it.
WorkerExits(s) ==
  /\ Alive(s)
  /\ proc' = [proc EXCEPT ![s] = "exited"]
  /\ fromWorker' \in {fromWorker, [fromWorker EXCEPT ![s] = <<>>]}
  /\ UNCHANGED <<threadVars, tableVars, lock, closed, toWorker, wstate, reply, executed>>

-----------------------------------------------------------------------------
Init ==
  /\ pc = [t \in Threads |-> "idle"]
  /\ job = [t \in Threads |-> "session.list"]
  /\ sess = [t \in Threads |-> None]
  /\ seq = [t \in Threads |-> 0]
  /\ res = [t \in Threads |-> "none"]
  /\ upd = [t \in Threads |-> None]
  /\ handles = {}
  /\ hrec = [s \in Sessions |-> None]
  /\ registry = [s \in Sessions |-> None]
  /\ lock = [s \in Sessions |-> None]
  /\ closed = [s \in Sessions |-> FALSE]
  /\ toWorker = [s \in Sessions |-> <<>>]
  /\ fromWorker = [s \in Sessions |-> <<>>]
  /\ proc = [s \in Sessions |-> "none"]
  /\ wstate = [s \in Sessions |-> "created"]
  /\ reply = [s \in Sessions |-> None]
  /\ executed = {}

StartStep(t) == StartOpened(t) \/ StartFails(t) \/ StartCleanup(t) \/ Publish(t)

RequestStep(t) ==
  \/ Refresh(t) \/ Get(t) \/ Lookup(t)
  \/ Send(t) \/ SendFails(t)
  \/ Receive(t) \/ ReceiveFails(t) \/ ReceiveRaises(t)
  \/ Check(t) \/ UpdateAfterResult(t) \/ UpdateAfterError(t)
  \/ Invalidate(t) \/ Kill(t)

ShutdownStep(t) == Pop(t) \/ Poll(t) \/ FinishShutdown(t) \/ Remove(t)

WorkerStep(s) ==
  \/ WorkerHandles(s) \/ WorkerFails(s) \/ WorkerReplies(s)
  \/ WorkerDisconnected(s) \/ WorkerExits(s)

Next ==
  \/ \E t \in Threads : Begin(t) \/ StartStep(t) \/ RequestStep(t) \/ ShutdownStep(t)
  \/ \E s \in Sessions : WorkerStep(s)

Spec == Init /\ [][Next]_vars

\* A thread inside an operation keeps running: every wait of supervisor.py has
\* a deadline.  Nothing is asked of clients or of the worker.
FairSpec ==
  Spec /\ \A t \in Threads : WF_vars(StartStep(t) \/ RequestStep(t) \/ ShutdownStep(t))

-----------------------------------------------------------------------------
(* Properties *)

\* Every variable has the shape supervisor.py, registry.py and the pipe give it.
TypeOK ==
  /\ pc \in [Threads -> PcState]
  /\ job \in [Threads -> BrokerOps]
  /\ sess \in [Threads -> Sessions \union {None}]
  /\ seq \in [Threads -> 0..MaxOps]
  /\ res \in [Threads -> Answer]
  /\ upd \in [Threads -> SessionState \union {None}]
  /\ handles \subseteq Sessions
  /\ hrec \in [Sessions -> SessionState \union {None}]
  /\ registry \in [Sessions -> SessionState \union {None}]
  /\ lock \in [Sessions -> Threads \union {None}]
  /\ closed \in [Sessions -> BOOLEAN]
  /\ toWorker \in [Sessions -> Seq(Request)]
  /\ fromWorker \in [Sessions -> Seq(Response)]
  /\ proc \in [Sessions -> ProcState]
  /\ wstate \in [Sessions -> SessionState]
  /\ reply \in [Sessions -> Response \union {None}]
  /\ executed \subseteq MessageId

\* A thread that has the handle s out of the table and has still to release it.
Releasing(t, s) ==
  /\ sess[t] = s
  /\ \/ pc[t] \in {"spawned", "publish", "start_failed", "kill", "poll", "finish",
                   "finish_raised"}
     \/ pc[t] \in {"send", "receive"} /\ job[t] = "session.close"

\* The table of handles and the registry never disagree: _update_record_state and
\* _refresh_dead_workers always find the record they replace, and a published
\* handle's own record is the registry's.
RegistryMirrorsHandles ==
  \A s \in handles : registry[s] # None /\ registry[s] = hrec[s]

\* A worker process the broker no longer tracks and no thread is about to release
\* is gone: neither close, loss nor a failed start leaves a process behind.
NoOrphanWorker ==
  \A s \in Sessions :
    Alive(s) => s \in handles \/ \E t \in Threads : Releasing(t, s)

\* A late answer to a timed-out request never reaches the next request on the
\* pipe: whoever may read a response is the one it answers.
NoStaleResponse ==
  \A t \in Threads :
    LET s == sess[t] IN
    (pc[t] = "receive" /\ ~closed[s] /\ fromWorker[s] # <<>>)
      => /\ Head(fromWorker[s]).id = Id(t)
         /\ Len(fromWorker[s]) = 1

\* What a client is told of an effectful request is honest.  "Not found" and the
\* code of a harmless IPC failure mean that the worker has not acted on it and
\* never will, however late it reads its pipe; a result means that it has.
HonestAnswer ==
  \A t \in Threads : job[t] \in Effectful =>
    /\ res[t] \in {"session_not_found", "worker_ipc_failed"} => Id(t) \notin executed
    /\ res[t] = "result" => Id(t) \in executed

\* A session that left the registry does not come back: no reply that arrives
\* after a close has removed the record, and no late starter, recreates it.
NoResurrection ==
  [][\A s \in Sessions :
       (hrec[s] # None /\ registry[s] = None) => registry'[s] = None]_vars

\* Every operation a client started is answered, whatever the worker does.
OperationsAnswered ==
  \A t \in Threads : pc[t] # "idle" ~> pc[t] = "idle"
=============================================================================
