------------------------ MODULE BrokerSupervisorProofs ------------------------
(***************************************************************************)
(* What holds of the broker's supervisor for any number of threads,        *)
(* sessions and operations: the types, the agreement of the handle table   *)
(* with the registry, that no worker process is left behind, that a late   *)
(* response reaches no other request, and that what a client is told of a  *)
(* request is true.                                                        *)
(*                                                                         *)
(* Two inductive invariants.  TypeInv adds to TypeOK which operation can   *)
(* stand at which program point (Shape): without it a thread could send a  *)
(* message that is no request, or record a state that is none.  TrackInv   *)
(* adds who holds a session (Ownership): a starter's session is known to   *)
(* nobody else, and a closer's is in the table no more.  Without it Remove *)
(* could drop the record of a published handle.                            *)
(***************************************************************************)
EXTENDS BrokerSupervisor, SequenceTheorems, TLAPS

-----------------------------------------------------------------------------
(* Types *)

\* Which operation, session and recorded state go with a thread's program point.
Shape ==
  \A t \in Threads :
    /\ pc[t] # "idle" /\ job[t] # "session.list" => sess[t] \in Sessions
    /\ job[t] = "session.list" => pc[t] \in {"idle", "refresh"}
    /\ pc[t] \in PcStart => job[t] \in {"session.create", "session.open"}
    /\ pc[t] \in PcRequest =>
         job[t] \in WorkerOps \union {"session.rediscover", "session.close", "session.list"}
    /\ job[t] = "session.close" => pc[t] \in {"idle", "send", "receive"} \union PcShutdown
    /\ pc[t] \in PcShutdown => job[t] = "session.close"
    /\ pc[t] \in {"check", "update_result", "update_error"} => upd[t] \in SessionState

\* Types and shape together are inductive.
TypeInv == TypeOK /\ Shape

\* The broker starts with no thread in an operation, no handle and no worker.
LEMMA TypeInvInit == Init => TypeInv
  BY NoneAssumption, BoundAssumption
  DEF Init, TypeInv, TypeOK, Shape, BrokerOps, PcState, PcStart, PcRequest, PcShutdown,
      Answer, SessionState, ProcState

\* What WorkerHandle._transport_error and its two callers make of a thread: close goes
\* on to its finally block, request goes on to record "lost" under an outcome code.
LEMMA TransportErrorEffect ==
  ASSUME NEW t \in Threads, TypeOK, TransportError(t)
  PROVE  /\ res' \in [Threads -> Answer]
         /\ upd' \in [Threads -> SessionState \union {None}]
         /\ pc' = [pc EXCEPT ![t] = IF job[t] = "session.close" THEN "finish"
                                                               ELSE "update_error"]
         /\ IF job[t] = "session.close" THEN UNCHANGED upd
                                        ELSE upd' = [upd EXCEPT ![t] = "lost"]
<1>1. \A o : uncertain_outcome_code(o) \in Answer \union {None}
  BY DEF uncertain_outcome_code, Answer
<1>2. "lost" \in SessionState /\ "worker_ipc_failed" \in Answer
  BY DEF SessionState, Answer
<1>3. CASE job[t] = "session.close"
  BY <1>3 DEF TransportError, Goto, TypeOK
<1>4. CASE job[t] # "session.close"
  <2> DEFINE code == uncertain_outcome_code(MessageType(job[t]))
  <2>1. (IF code # None THEN code ELSE "worker_ipc_failed") \in Answer
    BY <1>1, <1>2
  <2>2. res' = [res EXCEPT ![t] = IF code # None THEN code ELSE "worker_ipc_failed"]
    BY <1>4 DEF TransportError
  <2>3. res' \in [Threads -> Answer]
    BY <2>1, <2>2 DEF TypeOK
  <2>4. pc' = [pc EXCEPT ![t] = "update_error"] /\ upd' = [upd EXCEPT ![t] = "lost"]
    BY <1>4 DEF TransportError, Goto
  <2>5. upd \in [Threads -> SessionState \union {None}]
    BY DEF TypeOK
  <2>6. upd' \in [Threads -> SessionState \union {None}]
    BY <1>2, <2>4, <2>5
  <2> HIDE DEF code
  <2> QED BY <1>4, <2>3, <2>4, <2>6
<1> QED BY <1>3, <1>4

\* After a transport error the thread stands at a point that fits its operation.
LEMMA TransportErrorShape ==
  ASSUME NEW t \in Threads, TypeOK, Shape, TransportError(t),
         pc[t] \in {"send", "receive"}, UNCHANGED <<job, sess>>
  PROVE  Shape'
<1> DEFINE to == IF job[t] = "session.close" THEN "finish" ELSE "update_error"
<1>1. /\ pc' = [pc EXCEPT ![t] = to]
      /\ IF job[t] = "session.close" THEN UNCHANGED upd
                                     ELSE upd' = [upd EXCEPT ![t] = "lost"]
  BY TransportErrorEffect
<1>2. "lost" \in SessionState
  BY DEF SessionState
<1>3. pc[t] \in PcRequest /\ pc[t] \notin {"idle", "refresh"}
  BY DEF PcRequest
<1> SUFFICES ASSUME NEW u \in Threads PROVE Shape!(u)'
  BY DEF Shape
<1>4. CASE u = t
  BY <1>1, <1>2, <1>3, <1>4 DEF Shape, TypeOK, PcStart, PcRequest, PcShutdown
<1>5. CASE u # t
  <2>1. pc'[u] = pc[u] /\ upd'[u] = upd[u]
    BY <1>1, <1>5 DEF TypeOK
  <2> QED BY <2>1 DEF Shape
<1> QED BY <1>4, <1>5

\* Every step of a client thread, from _handle_request to the registry, keeps the types.
LEMMA TypeInvThread ==
  ASSUME TypeInv, NEW t \in Threads,
         Begin(t) \/ StartStep(t) \/ RequestStep(t) \/ ShutdownStep(t)
  PROVE  TypeInv'
<1> USE NoneAssumption, OpsAssumption, BoundAssumption
<1> USE DEF TypeInv, Goto, threadVars, tableVars, pipeVars, workerVars,
            PcState, PcStart, PcRequest, PcShutdown
<1>Begin. ASSUME Begin(t) PROVE TypeInv'
  <2>1. PICK o \in Ops : Begin(t)!6!(o)
    BY <1>Begin DEF Begin
  <2>2. TypeOK'
    <3>1. pc' \in [Threads -> PcState] /\ job' \in [Threads -> BrokerOps]
      BY <2>1 DEF TypeOK
    <3>2. sess' \in [Threads -> Sessions \union {None}]
      BY ZenonT(60), <2>1 DEF TypeOK
    <3>5. proc' \in [Sessions -> ProcState]
      BY <2>1 DEF TypeOK, ProcState
    <3>3. /\ seq' \in [Threads -> 0..MaxOps] /\ res' \in [Threads -> Answer]
          /\ upd' \in [Threads -> SessionState \union {None}]
      BY <1>Begin DEF Begin, TypeOK, Answer
    <3>4. UNCHANGED <<tableVars, lock, pipeVars, wstate, reply, executed>>
      BY <1>Begin DEF Begin
    <3> QED BY <3>1, <3>2, <3>3, <3>4, <3>5 DEF TypeOK
  <2>3. Shape'
    BY <1>Begin, <2>1 DEF Begin, TypeOK, Shape
  <2> QED BY <2>2, <2>3
<1>StartOpened. ASSUME StartOpened(t) PROVE TypeInv'
  <2>1. TypeOK'
    BY <1>StartOpened DEF StartOpened, TypeOK, SessionState
  <2>2. Shape'
    BY <1>StartOpened DEF StartOpened, TypeOK, Shape
  <2> QED BY <2>1, <2>2
<1>Publish. ASSUME Publish(t) PROVE TypeInv'
  <2>1. TypeOK'
    BY <1>Publish DEF Publish, Finish, TypeOK, Shape, Answer, SessionState
  <2>2. Shape'
    BY <1>Publish DEF Publish, Finish, TypeOK, Shape
  <2> QED BY <2>1, <2>2
<1>Refresh. ASSUME Refresh(t) PROVE TypeInv'
  <2>1. TypeOK'
    <3>0. "lost" \in SessionState /\ "result" \in Answer
      BY DEF SessionState, Answer
    <3>1. hrec' \in [Sessions -> SessionState \union {None}]
      BY <1>Refresh, <3>0 DEF Refresh, TypeOK
    <3>2. registry' \in [Sessions -> SessionState \union {None}]
      BY <1>Refresh, <3>0 DEF Refresh, TypeOK
    <3>3. pc' \in [Threads -> PcState] /\ res' \in [Threads -> Answer]
      <4>1. CASE Finish(t, "result")
        BY <3>0, <4>1 DEF Finish, TypeOK
      <4>2. CASE Goto(t, "get") /\ UNCHANGED res
        BY <4>2 DEF TypeOK
      <4> QED BY <1>Refresh, <4>1, <4>2 DEF Refresh
    <3>4. UNCHANGED <<job, sess, seq, upd, handles, lock, pipeVars, workerVars>>
      BY <1>Refresh DEF Refresh
    <3> QED BY <3>1, <3>2, <3>3, <3>4 DEF TypeOK
  <2>2. Shape'
    BY <1>Refresh DEF Refresh, Finish, TypeOK, Shape
  <2> QED BY <2>1, <2>2
<1>Send. ASSUME Send(t) PROVE TypeInv'
  <2>1. sess[t] \in Sessions
    BY <1>Send DEF Send, TypeOK, Shape
  <2>2. [id |-> Id(t), op |-> MessageType(job[t])] \in Request
    <3>1. job[t] \in WorkerOps \union {"session.rediscover", "session.close"}
      BY <1>Send DEF Send, Shape
    <3>2. MessageType(job[t]) \in WorkerOps \union {"worker.shutdown"}
      BY <3>1 DEF MessageType, WorkerOps, Effectful
    <3>3. Id(t) \in MessageId
      BY DEF Id, MessageId, TypeOK
    <3> QED BY <3>2, <3>3 DEF Request
  <2>3. toWorker' \in [Sessions -> Seq(Request)]
    BY <1>Send, <2>1, <2>2 DEF Send, TypeOK
  <2>4. TypeOK'
    BY <1>Send, <2>3 DEF Send, TypeOK
  <2>5. Shape'
    BY <1>Send DEF Send, TypeOK, Shape
  <2> QED BY <2>4, <2>5
<1>SendFails. ASSUME SendFails(t) PROVE TypeInv'
  <2>1. TypeOK'
    BY ZenonT(40), <1>SendFails, TransportErrorEffect DEF SendFails, TypeOK
  <2>2. Shape'
    BY <1>SendFails, TransportErrorShape DEF SendFails
  <2> QED BY <2>1, <2>2
<1>Receive. ASSUME Receive(t) PROVE TypeInv'
  <2> DEFINE s == sess[t]
             r == Head(fromWorker[s])
  <2>1. s \in Sessions /\ fromWorker[s] \in Seq(Response) /\ fromWorker[s] # <<>>
    BY <1>Receive DEF Receive, TypeOK, Shape
  <2>2. r \in Response /\ Tail(fromWorker[s]) \in Seq(Response)
    BY <2>1, HeadTailProperties
  <2>3. fromWorker' \in [Sessions -> Seq(Response)]
    BY <1>Receive, <2>1, <2>2 DEF Receive, TypeOK
  <2>4. /\ pc[t] = "receive" /\ lock' = [lock EXCEPT ![s] = None]
        /\ UNCHANGED <<job, sess, seq, tableVars, toWorker, workerVars>>
    BY <1>Receive DEF Receive
  <2> HIDE DEF s, r
  <2>5. CASE r.id # Id(t)
    <3>1. TransportError(t) /\ closed' = [closed EXCEPT ![s] = TRUE]
      BY <1>Receive, <2>5 DEF Receive, s, r
    <3>2. TypeOK'
      BY ZenonT(40), <2>3, <2>4, <3>1, TransportErrorEffect DEF TypeOK
    <3>3. Shape'
      BY <2>4, <3>1, TransportErrorShape
    <3> QED BY <3>2, <3>3
  <2>6. CASE r.id = Id(t) /\ job[t] = "session.close"
    <3>1. Goto(t, "finish") /\ UNCHANGED <<closed, res, upd>>
      BY <1>Receive, <2>6 DEF Receive, s, r
    <3> QED BY ZenonT(40), <2>3, <2>4, <2>6, <3>1 DEF TypeOK, Shape
  <2>7. CASE r.id = Id(t) /\ job[t] # "session.close" /\ r.kind = "result" /\ r.state = None
    <3>1. Finish(t, "result") /\ UNCHANGED <<closed, upd>>
      BY <1>Receive, <2>7 DEF Receive, s, r
    <3> QED BY <2>3, <2>4, <3>1 DEF Finish, TypeOK, Shape, Answer
  <2>8. CASE r.id = Id(t) /\ job[t] # "session.close" /\ ~(r.kind = "result" /\ r.state = None)
    <3>1. r.state \in SessionState
      BY <2>2, <2>8 DEF Response
    <3>2. /\ Goto(t, IF r.kind = "error" THEN "update_error" ELSE "check")
          /\ res' = [res EXCEPT ![t] = IF r.kind = "error" THEN "worker_error" ELSE "result"]
          /\ upd' = [upd EXCEPT ![t] = r.state]
          /\ UNCHANGED closed
      BY <1>Receive, <2>8 DEF Receive, s, r
    <3>3. TypeOK'
      BY <2>3, <2>4, <3>1, <3>2 DEF TypeOK, Answer
    <3>4. Shape'
      BY <2>4, <2>8, <3>1, <3>2 DEF TypeOK, Shape
    <3> QED BY <3>3, <3>4
  <2> QED BY <2>5, <2>6, <2>7, <2>8
<1>ReceiveFails. ASSUME ReceiveFails(t) PROVE TypeInv'
  <2>1. TypeOK'
    BY ZenonT(40), <1>ReceiveFails, TransportErrorEffect DEF ReceiveFails, TypeOK
  <2>2. Shape'
    BY <1>ReceiveFails, TransportErrorShape DEF ReceiveFails
  <2> QED BY <2>1, <2>2
<1>ReceiveRaises. ASSUME ReceiveRaises(t) PROVE TypeInv'
  <2>1. TypeOK'
    BY ZenonT(40), <1>ReceiveRaises DEF ReceiveRaises, Finish, TypeOK, Answer
  <2>2. Shape'
    BY <1>ReceiveRaises DEF ReceiveRaises, Finish, TypeOK, Shape
  <2> QED BY <2>1, <2>2
<1>Pop. ASSUME Pop(t) PROVE TypeInv'
  <2>1. TypeOK'
    BY ZenonT(40), <1>Pop DEF Pop, Finish, TypeOK, Answer
  <2>2. Shape'
    BY <1>Pop DEF Pop, Finish, TypeOK, Shape
  <2> QED BY <2>1, <2>2
<1>StartFails. ASSUME StartFails(t) PROVE TypeInv'
  <2>1. TypeOK'
    BY <1>StartFails DEF StartFails, TypeOK, Answer, ProcState
  <2>2. Shape'
    BY <1>StartFails DEF StartFails, TypeOK, Shape
  <2> QED BY <2>1, <2>2
<1>StartCleanup. ASSUME StartCleanup(t) PROVE TypeInv'
  <2>1. TypeOK'
    BY <1>StartCleanup DEF StartCleanup, Finish, TypeOK, Answer, ProcState
  <2>2. Shape'
    BY <1>StartCleanup DEF StartCleanup, Finish, TypeOK, Shape
  <2> QED BY <2>1, <2>2
<1>Get. ASSUME Get(t) PROVE TypeInv'
  <2>1. TypeOK'
    BY ZenonT(60), <1>Get DEF Get, Finish, TypeOK, Answer, ProcState
  <2>2. Shape'
    BY <1>Get DEF Get, Finish, TypeOK, Shape
  <2> QED BY <2>1, <2>2
<1>Lookup. ASSUME Lookup(t) PROVE TypeInv'
  <2>1. TypeOK'
    BY <1>Lookup DEF Lookup, Finish, TypeOK, Answer, ProcState
  <2>2. Shape'
    BY <1>Lookup DEF Lookup, Finish, TypeOK, Shape
  <2> QED BY <2>1, <2>2
<1>Check. ASSUME Check(t) PROVE TypeInv'
  <2>1. TypeOK'
    BY <1>Check DEF Check, TypeOK, Answer, ProcState
  <2>2. Shape'
    BY <1>Check DEF Check, TypeOK, Shape
  <2> QED BY <2>1, <2>2
<1>UpdateAfterResult. ASSUME UpdateAfterResult(t) PROVE TypeInv'
  <2>1. TypeOK'
    BY ZenonT(40), <1>UpdateAfterResult DEF UpdateAfterResult, UpdateRecord, Replace, TypeOK, Answer, ProcState
  <2>2. Shape'
    BY <1>UpdateAfterResult DEF UpdateAfterResult, UpdateRecord, Replace, TypeOK, Shape
  <2> QED BY <2>1, <2>2
<1>UpdateAfterError. ASSUME UpdateAfterError(t) PROVE TypeInv'
  <2>1. TypeOK'
    BY ZenonT(40), <1>UpdateAfterError DEF UpdateAfterError, UpdateRecord, Replace, TypeOK, Answer, ProcState
  <2>2. Shape'
    BY <1>UpdateAfterError DEF UpdateAfterError, UpdateRecord, Replace, TypeOK, Shape
  <2> QED BY <2>1, <2>2
<1>Invalidate. ASSUME Invalidate(t) PROVE TypeInv'
  <2>1. TypeOK'
    BY <1>Invalidate DEF Invalidate, TypeOK, Answer, ProcState
  <2>2. Shape'
    BY <1>Invalidate DEF Invalidate, TypeOK, Shape
  <2> QED BY <2>1, <2>2
<1>Kill. ASSUME Kill(t) PROVE TypeInv'
  <2>1. TypeOK'
    BY <1>Kill DEF Kill, CloseAndTerminate, TypeOK, Answer, ProcState
  <2>2. Shape'
    BY <1>Kill DEF Kill, CloseAndTerminate, TypeOK, Shape
  <2> QED BY <2>1, <2>2
<1>Poll. ASSUME Poll(t) PROVE TypeInv'
  <2>1. TypeOK'
    BY <1>Poll DEF Poll, TypeOK, Answer, ProcState
  <2>2. Shape'
    BY <1>Poll DEF Poll, TypeOK, Shape
  <2> QED BY <2>1, <2>2
<1>FinishShutdown. ASSUME FinishShutdown(t) PROVE TypeInv'
  <2>1. TypeOK'
    BY <1>FinishShutdown DEF FinishShutdown, CloseAndTerminate, Finish, TypeOK, Answer, ProcState
  <2>2. Shape'
    BY <1>FinishShutdown DEF FinishShutdown, CloseAndTerminate, Finish, TypeOK, Shape
  <2> QED BY <2>1, <2>2
<1>Remove. ASSUME Remove(t) PROVE TypeInv'
  <2>1. TypeOK'
    BY <1>Remove DEF Remove, Finish, TypeOK, Answer, ProcState
  <2>2. Shape'
    BY <1>Remove DEF Remove, Finish, TypeOK, Shape
  <2> QED BY <2>1, <2>2
<1> QED
  BY <1>Begin, <1>StartOpened, <1>StartFails, <1>StartCleanup, <1>Publish, <1>Refresh,
     <1>Get, <1>Lookup, <1>Send, <1>SendFails, <1>Receive, <1>ReceiveFails,
     <1>ReceiveRaises, <1>Check, <1>UpdateAfterResult, <1>UpdateAfterError,
     <1>Invalidate, <1>Kill, <1>Pop, <1>Poll, <1>FinishShutdown, <1>Remove
  DEF StartStep, RequestStep, ShutdownStep

\* WorkerProtocolHandler answers with a session state, and error_payload always
\* reports it.
LEMMA RepliesType ==
  ASSUME NEW o \in WorkerOps \union {"worker.shutdown"}, NEW st \in SessionState,
         NEW a \in Replies(o, st)
  PROVE  /\ a.kind \in {"result", "error"} /\ a.state \in SessionState
         /\ a.kind = "error" => a.report
<1>1. CASE o = "worker.status"
  <2>1. a.kind \in {"result", "error"} /\ a.state \in SessionState
    BY <1>1 DEF Replies, Reply, SessionState
  <2>2. a.kind = "error" => a.report
    BY <1>1 DEF Replies, Reply
  <2> QED BY <2>1, <2>2
<1>2. CASE o = "worker.files"
  <2>1. a.kind \in {"result", "error"} /\ a.state \in SessionState
    BY <1>2 DEF Replies, Reply, SessionState
  <2>2. a.kind = "error" => a.report
    BY <1>2 DEF Replies, Reply
  <2> QED BY <2>1, <2>2
<1>3. CASE o \in {"worker.exec", "worker.file_edit", "worker.elevation"}
  <2>1. a.kind \in {"result", "error"} /\ a.state \in SessionState
    BY <1>3 DEF Replies, Reply, SessionState
  <2>2. a.kind = "error" => a.report
    BY <1>3 DEF Replies, Reply
  <2> QED BY <2>1, <2>2
<1>4. CASE o = "worker.terminal"
  <2>1. a.kind \in {"result", "error"} /\ a.state \in SessionState
    BY <1>4 DEF Replies, Reply, SessionState
  <2>2. a.kind = "error" => a.report
    BY <1>4 DEF Replies, Reply
  <2> QED BY <2>1, <2>2
<1>5. CASE o = "worker.shutdown"
  <2>1. a.kind \in {"result", "error"} /\ a.state \in SessionState
    BY <1>5 DEF Replies, Reply, SessionState
  <2>2. a.kind = "error" => a.report
    BY <1>5 DEF Replies, Reply
  <2> QED BY <2>1, <2>2
<1> QED BY <1>1, <1>2, <1>3, <1>4, <1>5 DEF WorkerOps, Effectful

\* Every step of run_worker's loop keeps the types of the pipe and the session state.
LEMMA TypeInvWorker ==
  ASSUME TypeInv, NEW s \in Sessions, WorkerStep(s)
  PROVE  TypeInv'
<1> USE NoneAssumption
<1> USE DEF TypeInv, threadVars, tableVars, pipeVars, workerVars
<1>1. Shape'
  BY DEF WorkerStep, WorkerHandles, WorkerFails, WorkerReplies, WorkerDisconnected,
         WorkerExits, Shape
<1>2. ASSUME WorkerHandles(s) \/ WorkerFails(s)
      PROVE  TypeOK'
  <2> DEFINE m == Head(toWorker[s])
  <2>1. m \in Request /\ Tail(toWorker[s]) \in Seq(Request)
    BY <1>2, HeadTailProperties DEF TypeOK, WorkerHandles, WorkerFails
  <2>2. m.id \in MessageId /\ m.op \in WorkerOps \union {"worker.shutdown"}
    BY <2>1 DEF Request
  <2>3. toWorker' \in [Sessions -> Seq(Request)]
    BY ZenonT(60), <1>2, <2>1 DEF TypeOK, WorkerHandles, WorkerFails
  <2>4. CASE WorkerHandles(s)
    <3>1. PICK a \in Replies(m.op, wstate[s]) :
            /\ wstate' = [wstate EXCEPT ![s] = a.state]
            /\ reply' = [reply EXCEPT ![s] =
                           [id |-> m.id, kind |-> a.kind,
                            state |-> IF a.report THEN a.state ELSE None,
                            stop |-> m.op = "worker.shutdown"]]
            /\ executed' = IF a.effect THEN executed \union {m.id} ELSE executed
      BY <2>4 DEF WorkerHandles
    <3>2. /\ a.kind \in {"result", "error"} /\ a.state \in SessionState
          /\ a.kind = "error" => a.report
      BY <2>2, RepliesType DEF TypeOK
    <3> DEFINE r == [id |-> m.id, kind |-> a.kind,
                     state |-> IF a.report THEN a.state ELSE None,
                     stop |-> m.op = "worker.shutdown"]
    <3>3. r \in Response
      BY <2>2, <3>2 DEF Response
    <3> HIDE DEF m, r
    <3>4. executed' \subseteq MessageId
      BY <2>2, <3>1 DEF TypeOK
    <3> QED BY <2>3, <2>4, <3>1, <3>2, <3>3, <3>4 DEF r, WorkerHandles, TypeOK
  <2>5. CASE WorkerFails(s)
    <3> DEFINE st == IF wstate[s] = "created" THEN "created" ELSE "closed"
               r == [id |-> m.id, kind |-> "error", state |-> st, stop |-> TRUE]
    <3>1. st \in SessionState
      BY DEF SessionState
    <3>2. r \in Response
      BY <2>2, <3>1 DEF Response
    <3>3. executed' \subseteq MessageId
      BY <2>2, <2>5 DEF WorkerFails, TypeOK
    <3>4. reply' = [reply EXCEPT ![s] = r] /\ wstate' = [wstate EXCEPT ![s] = st]
      BY <2>5 DEF WorkerFails
    <3>5. UNCHANGED <<threadVars, tableVars, lock, closed, fromWorker, proc>>
      BY <2>5 DEF WorkerFails
    <3> HIDE DEF m, r, st
    <3> QED BY <2>3, <3>1, <3>2, <3>3, <3>4, <3>5 DEF TypeOK
  <2> QED BY <1>2, <2>4, <2>5
<1>3. ASSUME WorkerReplies(s) PROVE TypeOK'
  BY <1>3 DEF WorkerReplies, TypeOK, ProcState
<1>4. ASSUME WorkerDisconnected(s) PROVE TypeOK'
  BY <1>4 DEF WorkerDisconnected, TypeOK, ProcState
<1>5. ASSUME WorkerExits(s) PROVE TypeOK'
  <2>1. fromWorker' \in [Sessions -> Seq(Response)]
    <3>1. [fromWorker EXCEPT ![s] = <<>>] \in [Sessions -> Seq(Response)]
      BY EmptySeq DEF TypeOK
    <3> QED BY <1>5, <3>1 DEF WorkerExits, TypeOK
  <2> QED BY <1>5, <2>1 DEF WorkerExits, TypeOK, ProcState
<1> QED BY <1>1, <1>2, <1>3, <1>4, <1>5 DEF WorkerStep

\* TypeInv is inductive.
LEMMA TypeInvNext == TypeInv /\ [Next]_vars => TypeInv'
<1> SUFFICES ASSUME TypeInv, [Next]_vars PROVE TypeInv'
  OBVIOUS
<1>1. CASE Next
  BY <1>1, TypeInvThread, TypeInvWorker DEF Next
<1>2. CASE UNCHANGED vars
  BY <1>2 DEF TypeInv, TypeOK, Shape, vars, threadVars, tableVars, pipeVars, workerVars
<1> QED BY <1>1, <1>2

\* Whatever threads, workers and crashes do, every variable of the supervisor, the
\* registry and the pipe keeps its type; only requests the worker knows are sent.
THEOREM TypeCorrect == Spec => []TypeOK
<1>1. TypeInv => TypeOK
  BY DEF TypeInv
<1> QED BY <1>1, TypeInvInit, TypeInvNext, PTL DEF Spec

-----------------------------------------------------------------------------
(* Who holds a session: the table, a starter or a closer *)

\* The thread has taken the handle out of the table.
Popped(t) ==
  \/ pc[t] \in {"kill", "poll", "finish", "finish_raised", "remove"}
  \/ pc[t] \in {"send", "receive"} /\ job[t] = "session.close"

\* The thread has, or once had, the session's handle in its hands.
Holding == {"send", "receive", "check", "update_result", "update_error",
            "invalidate", "kill", "poll", "finish", "finish_raised", "remove"}

\* A starter is alone with a session that has no handle yet; whoever got a handle
\* works on a session that has one or had one; a popped handle is not in the table.
Ownership ==
  /\ \A s \in Sessions : proc[s] = "none" => hrec[s] = None
  /\ \A t \in Threads : pc[t] \in PcStart =>
       proc[sess[t]] # "none" /\ hrec[sess[t]] = None
  /\ \A t, u \in Threads :
       pc[t] \in PcStart /\ pc[u] \in PcStart /\ sess[t] = sess[u] => t = u
  /\ \A t \in Threads : pc[t] \in Holding => hrec[sess[t]] # None
  /\ \A t \in Threads : Popped(t) => sess[t] \notin handles

\* The tables agree, every session has a holder and every process a keeper.
TrackInv == TypeInv /\ RegistryMirrorsHandles /\ Ownership /\ NoOrphanWorker

\* With no handle and no process there is nothing to track.
LEMMA TrackInvInit == Init => TrackInv
<1> SUFFICES ASSUME Init PROVE TrackInv
  OBVIOUS
<1>1. TypeInv
  BY TypeInvInit
<1>2. RegistryMirrorsHandles /\ NoOrphanWorker
  BY DEF Init, RegistryMirrorsHandles, NoOrphanWorker, Alive
<1>3. Ownership
  BY DEF Init, Ownership, PcStart, Holding, Popped
<1> QED BY <1>1, <1>2, <1>3 DEF TrackInv

\* A step that only moves one thread on keeps the tables consistent if it gives up
\* no session it was releasing and enters no point that needs one.
LEMMA QuietStep ==
  ASSUME TrackInv, NEW t \in Threads, NEW to,
         pc' = [pc EXCEPT ![t] = to],
         UNCHANGED <<job, sess, tableVars, proc>>,
         to \in PcStart => pc[t] \in PcStart,
         to \in Holding => hrec[sess[t]] # None,
         Popped(t)' => sess[t] \notin handles,
         \A s \in Sessions : Releasing(t, s) => Releasing(t, s)'
  PROVE  RegistryMirrorsHandles' /\ Ownership' /\ NoOrphanWorker'
<1> USE DEF TrackInv, TypeInv, tableVars
<1>1. RegistryMirrorsHandles'
  BY DEF RegistryMirrorsHandles
<1>2. pc'[t] = to /\ \A u \in Threads : u # t => pc'[u] = pc[u]
  BY DEF TypeOK
<1>3. Ownership'
  <2>1. \A u \in Threads : pc'[u] \in PcStart => pc[u] \in PcStart
    BY <1>2
  <2>2. \A u \in Threads : Popped(u)' => sess[u] \notin handles
    BY <1>2 DEF Popped, Ownership
  <2>3. \A u \in Threads : pc'[u] \in Holding => hrec[sess[u]] # None
    BY <1>2 DEF Ownership
  <2> QED BY <2>1, <2>2, <2>3 DEF Ownership
<1>4. NoOrphanWorker'
  <2>1. \A u \in Threads, s \in Sessions : Releasing(u, s) => Releasing(u, s)'
    BY <1>2 DEF Releasing
  <2> QED BY <2>1 DEF NoOrphanWorker, Alive
<1> QED BY <1>1, <1>3, <1>4

\* The steps of start, get, request and shutdown that touch neither the tables nor
\* the process.
LEMMA TrackInvQuiet ==
  ASSUME TrackInv, NEW t \in Threads,
         \/ StartOpened(t) \/ StartFails(t) \/ Get(t) \/ Lookup(t) \/ Send(t)
         \/ SendFails(t) \/ Receive(t) \/ ReceiveFails(t) \/ ReceiveRaises(t)
         \/ Check(t) \/ Poll(t)
  PROVE  RegistryMirrorsHandles' /\ Ownership' /\ NoOrphanWorker'
<1> USE DEF TrackInv, TypeInv, Goto, Finish, tableVars, workerVars
<1> DEFINE Moves(to) ==
      /\ pc' = [pc EXCEPT ![t] = to]
      /\ UNCHANGED <<job, sess, tableVars, proc>>
<1>1. ASSUME StartOpened(t) \/ StartFails(t)
      PROVE  RegistryMirrorsHandles' /\ Ownership' /\ NoOrphanWorker'
  <2>1. PICK to \in {"publish", "start_failed"} : Moves(to)
    BY <1>1 DEF StartOpened, StartFails
  <2>2. pc[t] = "spawned" /\ pc'[t] = to
    BY <1>1, <2>1 DEF StartOpened, StartFails, TypeOK
  <2>3. \A s \in Sessions : Releasing(t, s) => Releasing(t, s)'
    BY <2>1, <2>2 DEF Releasing
  <2>4. ~Popped(t)' /\ to \notin Holding /\ pc[t] \in PcStart
    BY <2>1, <2>2 DEF Popped, Holding, PcStart
  <2> QED BY <2>1, <2>3, <2>4, QuietStep
<1>2. ASSUME Get(t) \/ Lookup(t) \/ Check(t)
      PROVE  RegistryMirrorsHandles' /\ Ownership' /\ NoOrphanWorker'
  <2>1. PICK to \in {"idle", "lookup", "send", "update_result"} : Moves(to)
    BY <1>2 DEF Get, Lookup, Check
  <2>2. pc[t] \in {"get", "lookup", "check"} /\ pc'[t] = to
    BY <1>2, <2>1 DEF Get, Lookup, Check, TypeOK
  <2>3. \A s \in Sessions : ~Releasing(t, s)
    BY <2>2 DEF Releasing
  <2>4. to \in Holding => hrec[sess[t]] # None
    <3>1. to = "send" => sess[t] \in handles
      BY <1>2, <2>1, <2>2 DEF Get, Lookup, Check, TypeOK
    <3>2. to = "update_result" => pc[t] = "check"
      BY <1>2, <2>1, <2>2 DEF Get, Lookup, Check, TypeOK
    <3> QED BY <2>1, <3>1, <3>2 DEF Holding, Ownership, RegistryMirrorsHandles
  <2>5. to \notin PcStart
    BY <2>1 DEF PcStart
  <2>6. ~Popped(t)'
    <3>1. job[t] # "session.close"
      BY <2>2 DEF Shape, PcShutdown
    <3> QED BY <2>1, <2>2, <3>1 DEF Popped
  <2> QED BY <2>1, <2>3, <2>4, <2>5, <2>6, QuietStep
<1>3. ASSUME Send(t) \/ SendFails(t) \/ Receive(t) \/ ReceiveFails(t) \/ ReceiveRaises(t)
             \/ Poll(t)
      PROVE  RegistryMirrorsHandles' /\ Ownership' /\ NoOrphanWorker'
  <2>1. PICK to \in {"idle", "send", "receive", "check", "update_error", "finish",
                     "finish_raised"} :
          /\ Moves(to)
          /\ job[t] = "session.close" => to \in {"send", "receive", "finish", "finish_raised"}
          /\ job[t] # "session.close" => to \notin {"finish", "finish_raised"}
    <3>1. CASE Send(t) \/ Poll(t)
      BY <3>1 DEF Send, Poll, Shape, PcShutdown
    <3>2. CASE SendFails(t)
      BY <3>2, TransportErrorEffect DEF SendFails
    <3>3. CASE ReceiveFails(t)
      BY <3>3, TransportErrorEffect DEF ReceiveFails
    <3>4. CASE ReceiveRaises(t)
      BY <3>4 DEF ReceiveRaises
    <3>5. CASE Receive(t)
      BY <3>5, TransportErrorEffect DEF Receive
    <3> QED BY <1>3, <3>1, <3>2, <3>3, <3>4, <3>5
  <2>2. pc[t] \in {"send", "receive", "poll"} /\ pc'[t] = to
    BY <1>3, <2>1 DEF Send, SendFails, Receive, ReceiveFails, ReceiveRaises, Poll, TypeOK
  <2>3. hrec[sess[t]] # None
    BY <2>2 DEF Ownership, Holding
  <2>4. job[t] = "session.close" => sess[t] \notin handles
    BY <2>2 DEF Ownership, Popped
  <2>5. pc[t] = "poll" => job[t] = "session.close"
    BY <2>2 DEF Shape, PcShutdown
  <2>6. \A s \in Sessions : Releasing(t, s) => Releasing(t, s)'
    BY <2>1, <2>2, <2>5 DEF Releasing
  <2>7. Popped(t)' => sess[t] \notin handles
    BY <2>1, <2>2, <2>4 DEF Popped
  <2>8. to \notin PcStart
    BY <2>1 DEF PcStart
  <2> QED BY <2>1, <2>3, <2>6, <2>7, <2>8, QuietStep
<1> QED BY <1>1, <1>2, <1>3

\* start spawns a process for an id that was never used: the starter holds it alone.
LEMMA TrackInvBegin ==
  ASSUME TrackInv, NEW t \in Threads, Begin(t)
  PROVE  RegistryMirrorsHandles' /\ Ownership' /\ NoOrphanWorker'
<1> USE DEF TrackInv, TypeInv, Goto, tableVars
<1>1. UNCHANGED <<handles, hrec, registry>> /\ pc[t] = "idle"
  BY DEF Begin
<1>2. \A u \in Threads : u # t => pc'[u] = pc[u] /\ job'[u] = job[u] /\ sess'[u] = sess[u]
  BY DEF Begin, TypeOK
<1>3. \/ /\ pc'[t] = "spawned" /\ sess'[t] \in Sessions
         /\ proc[sess'[t]] = "none" /\ proc' = [proc EXCEPT ![sess'[t]] = "serving"]
      \/ pc'[t] \in {"refresh", "pop"} /\ UNCHANGED proc
  BY DEF Begin, TypeOK
<1>4. RegistryMirrorsHandles'
  BY <1>1 DEF RegistryMirrorsHandles
<1>5. \A s \in Sessions : proc[s] # "none" => proc'[s] = proc[s]
  BY <1>3 DEF TypeOK
<1>6. \A u \in Threads : u # t => (Popped(u)' <=> Popped(u))
  BY <1>2 DEF Popped
<1>7. Ownership'
  <2>1. \A s \in Sessions : proc'[s] = "none" => hrec'[s] = None
    BY <1>1, <1>3 DEF Ownership, TypeOK
  <2>2. \A u \in Threads : pc[u] \in PcStart => sess[u] \in Sessions
    BY DEF Shape, PcStart
  <2>3. ASSUME NEW u \in Threads, pc'[u] \in PcStart
        PROVE  proc'[sess'[u]] # "none" /\ hrec'[sess'[u]] = None
    <3>1. CASE u = t
      BY <1>1, <1>3, <2>3, <3>1 DEF Ownership, PcStart, TypeOK
    <3>2. CASE u # t
      BY <1>1, <1>2, <1>5, <2>2, <2>3, <3>2 DEF Ownership
    <3> QED BY <3>1, <3>2
  <2>4. ASSUME NEW u \in Threads, NEW v \in Threads,
               pc'[u] \in PcStart, pc'[v] \in PcStart, sess'[u] = sess'[v]
        PROVE  u = v
    BY <1>2, <1>3, <2>2, <2>4 DEF Ownership, PcStart
  <2>5. ASSUME NEW u \in Threads, pc'[u] \in Holding
        PROVE  hrec'[sess'[u]] # None
    BY <1>1, <1>2, <1>3, <2>5 DEF Ownership, Holding
  <2>6. ASSUME NEW u \in Threads, Popped(u)'
        PROVE  sess'[u] \notin handles'
    <3>1. u # t
      BY <1>3, <2>6 DEF Popped
    <3> QED BY <1>1, <1>2, <1>6, <2>6, <3>1 DEF Ownership
  <2> QED BY <2>1, <2>3, <2>4, <2>5, <2>6 DEF Ownership
<1>8. NoOrphanWorker'
  <2> SUFFICES ASSUME NEW s \in Sessions, Alive(s)', s \notin handles
               PROVE  \E u \in Threads : Releasing(u, s)'
    BY <1>1 DEF NoOrphanWorker
  <2>1. CASE Alive(s)
    <3>1. PICK u \in Threads : Releasing(u, s)
      BY <2>1 DEF NoOrphanWorker
    <3>2. u # t
      BY <1>1, <3>1 DEF Releasing
    <3>3. Releasing(u, s)'
      BY <1>2, <3>1, <3>2 DEF Releasing
    <3> QED BY <3>3
  <2>2. CASE ~Alive(s)
    <3>1. sess'[t] = s /\ pc'[t] = "spawned"
      BY <1>3, <2>2 DEF Alive, TypeOK
    <3> QED BY <3>1 DEF Releasing
  <2> QED BY <2>1, <2>2
<1> QED BY <1>4, <1>7, <1>8

\* The except branch of start, _invalidate_handle and the finally block of shutdown
\* give a session up only together with its process.
LEMMA TrackInvRelease ==
  ASSUME TrackInv, NEW t \in Threads, NEW to \in {"idle", "remove"},
         pc[t] \in {"start_failed", "kill", "finish", "finish_raised"},
         pc[t] \in {"start_failed", "kill"} => to = "idle",
         pc' = [pc EXCEPT ![t] = to],
         UNCHANGED <<job, sess, tableVars>>,
         proc' = [proc EXCEPT ![sess[t]] = "exited"]
  PROVE  RegistryMirrorsHandles' /\ Ownership' /\ NoOrphanWorker'
<1> USE DEF TrackInv, TypeInv, tableVars
<1>1. RegistryMirrorsHandles'
  BY DEF RegistryMirrorsHandles
<1>2. pc'[t] = to /\ \A u \in Threads : u # t => pc'[u] = pc[u]
  BY DEF TypeOK
<1>3. \A s \in Sessions : proc'[s] = IF s = sess[t] THEN "exited" ELSE proc[s]
  BY DEF TypeOK
<1>4. sess[t] \in Sessions
  BY DEF Shape
<1>5. Ownership'
  <2>1. \A s \in Sessions : proc'[s] = "none" => hrec[s] = None
    BY <1>3 DEF Ownership
  <2>2. \A u \in Threads : pc'[u] \in PcStart => pc[u] \in PcStart /\ sess[u] \in Sessions
    BY <1>2 DEF PcStart, Shape
  <2>3. \A u \in Threads : pc'[u] \in PcStart => proc'[sess[u]] # "none"
    BY <1>3, <2>2 DEF Ownership
  <2>4. \A u \in Threads : pc'[u] \in Holding => hrec[sess[u]] # None
    BY <1>2 DEF Holding, Ownership
  <2>5. \A u \in Threads : Popped(u)' => sess[u] \notin handles
    BY <1>2 DEF Popped, Ownership
  <2> QED BY <2>1, <2>2, <2>3, <2>4, <2>5 DEF Ownership
<1>6. NoOrphanWorker'
  <2> SUFFICES ASSUME NEW s \in Sessions, Alive(s)', s \notin handles
               PROVE  \E u \in Threads : Releasing(u, s)'
    BY DEF NoOrphanWorker
  <2>1. s # sess[t] /\ Alive(s)
    BY <1>3 DEF Alive
  <2>2. PICK u \in Threads : Releasing(u, s)
    BY <2>1 DEF NoOrphanWorker
  <2>3. Releasing(u, s)'
    BY <1>2, <2>1, <2>2 DEF Releasing
  <2> QED BY <2>3
<1> QED BY <1>1, <1>5, <1>6

\* Steps that write the records: no record of a published handle disappears.
LEMMA TrackInvRecord ==
  ASSUME TrackInv, NEW t \in Threads, NEW to \in {"idle", "get", "invalidate"},
         pc[t] \in {"refresh", "update_result", "update_error"},
         to = "invalidate" => pc[t] = "update_error",
         pc' = [pc EXCEPT ![t] = to],
         UNCHANGED <<job, sess, handles, proc>>,
         RegistryMirrorsHandles',
         \A s \in Sessions : hrec'[s] = None <=> hrec[s] = None
  PROVE  Ownership' /\ NoOrphanWorker'
<1> USE DEF TrackInv, TypeInv
<1>1. pc'[t] = to /\ \A u \in Threads : u # t => pc'[u] = pc[u]
  BY DEF TypeOK
<1>2. \A u \in Threads : pc[u] \in PcStart \union Holding => sess[u] \in Sessions
  BY DEF Shape, PcStart, Holding
<1>3. Ownership'
  <2>1. \A u \in Threads : pc'[u] \in PcStart => pc[u] \in PcStart
    BY <1>1 DEF PcStart
  <2>2. \A u \in Threads : pc'[u] \in Holding => pc[u] \in Holding
    BY <1>1 DEF Holding
  <2>3. \A u \in Threads : Popped(u)' => Popped(u)
    BY <1>1 DEF Popped
  <2> QED BY <1>2, <2>1, <2>2, <2>3 DEF Ownership
<1>4. NoOrphanWorker'
  <2>1. \A u \in Threads, s \in Sessions : Releasing(u, s) => Releasing(u, s)'
    BY <1>1 DEF Releasing
  <2> QED BY <2>1 DEF NoOrphanWorker, Alive
<1> QED BY <1>3, <1>4

\* Invalidate and Pop with a handle: the table gives the session to the thread.
LEMMA TrackInvTake ==
  ASSUME TrackInv, NEW t \in Threads, NEW to \in {"kill", "poll"},
         pc[t] \in {"invalidate", "pop"},
         pc[t] = "pop" => sess[t] \in handles,
         pc' = [pc EXCEPT ![t] = to],
         handles' = handles \ {sess[t]},
         UNCHANGED <<job, sess, hrec, registry, proc>>
  PROVE  RegistryMirrorsHandles' /\ Ownership' /\ NoOrphanWorker'
<1> USE DEF TrackInv, TypeInv
<1>1. pc'[t] = to /\ \A u \in Threads : u # t => pc'[u] = pc[u]
  BY DEF TypeOK
<1>2. RegistryMirrorsHandles'
  BY DEF RegistryMirrorsHandles
<1>3. Ownership'
  <2>1. \A u \in Threads : pc'[u] \in PcStart => pc[u] \in PcStart
    BY <1>1 DEF PcStart
  <2>2. hrec[sess[t]] # None
    BY DEF Ownership, Holding, RegistryMirrorsHandles
  <2>3. \A u \in Threads : pc'[u] \in Holding => hrec[sess[u]] # None
    BY <1>1, <2>2 DEF Ownership
  <2>4. \A u \in Threads : Popped(u)' => sess[u] \notin handles'
    BY <1>1 DEF Popped, Ownership
  <2> QED BY <2>1, <2>3, <2>4 DEF Ownership
<1>4. NoOrphanWorker'
  <2> SUFFICES ASSUME NEW s \in Sessions, Alive(s), s \notin handles'
               PROVE  \E u \in Threads : Releasing(u, s)'
    BY DEF NoOrphanWorker, Alive
  <2>1. CASE s = sess[t]
    BY <1>1, <2>1 DEF Releasing
  <2>2. CASE s # sess[t]
    <3>1. PICK u \in Threads : Releasing(u, s)
      BY <2>2 DEF NoOrphanWorker
    <3>2. Releasing(u, s)'
      BY <1>1, <2>2, <3>1 DEF Releasing
    <3> QED BY <3>2
  <2> QED BY <2>1, <2>2
<1> QED BY <1>2, <1>3, <1>4

\* Removing the record of a session whose handle is gone.
LEMMA TrackInvForget ==
  ASSUME TrackInv, NEW t \in Threads,
         pc[t] \in {"pop", "remove"}, sess[t] \notin handles,
         pc' = [pc EXCEPT ![t] = "idle"],
         registry' = registry \/ registry' = [registry EXCEPT ![sess[t]] = None],
         UNCHANGED <<job, sess, handles, hrec, proc>>
  PROVE  RegistryMirrorsHandles' /\ Ownership' /\ NoOrphanWorker'
<1> USE DEF TrackInv, TypeInv
<1>1. pc'[t] = "idle" /\ \A u \in Threads : u # t => pc'[u] = pc[u]
  BY DEF TypeOK
<1>2. RegistryMirrorsHandles'
  BY DEF RegistryMirrorsHandles, TypeOK
<1>3. Ownership'
  <2>1. \A u \in Threads : pc'[u] \in PcStart => pc[u] \in PcStart
    BY <1>1 DEF PcStart
  <2>2. \A u \in Threads : pc'[u] \in Holding => pc[u] \in Holding
    BY <1>1 DEF Holding
  <2>3. \A u \in Threads : Popped(u)' => Popped(u)
    BY <1>1 DEF Popped
  <2> QED BY <2>1, <2>2, <2>3 DEF Ownership
<1>4. NoOrphanWorker'
  <2>1. \A u \in Threads, s \in Sessions : Releasing(u, s) => Releasing(u, s)'
    BY <1>1 DEF Releasing
  <2> QED BY <2>1 DEF NoOrphanWorker, Alive
<1> QED BY <1>2, <1>3, <1>4

\* start enters handle and record together; no thread can hold that session yet.
LEMMA TrackInvPublish ==
  ASSUME TrackInv, NEW t \in Threads, Publish(t)
  PROVE  RegistryMirrorsHandles' /\ Ownership' /\ NoOrphanWorker'
<1> USE DEF TrackInv, TypeInv
<1> DEFINE s == sess[t]
           st == IF job[t] = "session.open" THEN "ready" ELSE "created"
<1>1. /\ pc[t] = "publish" /\ handles' = handles \union {s}
      /\ hrec' = [hrec EXCEPT ![s] = st] /\ registry' = [registry EXCEPT ![s] = st]
      /\ pc' = [pc EXCEPT ![t] = "idle"] /\ UNCHANGED <<job, sess, proc>>
  BY DEF Publish, Finish, Goto, workerVars
<1>2. s \in Sessions /\ st \in SessionState /\ st # None
  BY <1>1, NoneAssumption DEF Shape, SessionState
<1> HIDE DEF s, st
<1>3. pc'[t] = "idle" /\ \A u \in Threads : u # t => pc'[u] = pc[u]
  BY <1>1 DEF TypeOK
<1>4. \A r \in Sessions : /\ hrec'[r] = IF r = s THEN st ELSE hrec[r]
                          /\ registry'[r] = IF r = s THEN st ELSE registry[r]
  BY <1>1 DEF TypeOK
<1>5. RegistryMirrorsHandles'
  <2>1. handles \subseteq Sessions
    BY DEF TypeOK
  <2> QED BY <1>1, <1>2, <1>4, <2>1 DEF RegistryMirrorsHandles
<1>6. Ownership'
  <2>1. pc[t] \in PcStart /\ proc[s] # "none" /\ hrec[s] = None
    BY <1>1 DEF PcStart, Ownership, s
  <2>2. \A u \in Threads : pc[u] \in PcStart \union Holding => sess[u] \in Sessions
    BY DEF Shape, PcStart, Holding
  <2>3. \A u \in Threads : pc'[u] \in PcStart => pc[u] \in PcStart /\ sess[u] # s
    BY <1>3, <2>1 DEF Ownership, s, PcStart
  <2>4. \A u \in Threads : pc'[u] \in Holding => pc[u] \in Holding /\ sess[u] # s
    BY <1>3, <2>1 DEF Ownership, Holding
  <2>5. \A u \in Threads : Popped(u) => pc[u] \in Holding
    BY DEF Popped, Holding
  <2>6. \A u \in Threads : Popped(u)' => Popped(u) /\ u # t
    BY <1>1, <1>3 DEF Popped
  <2>7. \A u \in Threads : Popped(u)' => sess[u] \notin handles'
    BY <1>1, <2>1, <2>5, <2>6 DEF Ownership
  <2>8. \A r \in Sessions : proc'[r] = "none" => hrec'[r] = None
    BY <1>1, <1>4, <2>1 DEF Ownership
  <2>9. \A u \in Threads : pc'[u] \in PcStart => proc'[sess'[u]] # "none" /\ hrec'[sess'[u]] = None
    BY <1>1, <1>4, <2>2, <2>3 DEF Ownership
  <2>10. \A u \in Threads : pc'[u] \in Holding => hrec'[sess'[u]] # None
    BY <1>1, <1>4, <2>2, <2>4 DEF Ownership
  <2>11. \A u, v \in Threads :
           pc'[u] \in PcStart /\ pc'[v] \in PcStart /\ sess'[u] = sess'[v] => u = v
    BY <1>1, <2>3 DEF Ownership
  <2> QED BY <1>1, <2>7, <2>8, <2>9, <2>10, <2>11 DEF Ownership
<1>7. NoOrphanWorker'
  <2> SUFFICES ASSUME NEW r \in Sessions, Alive(r), r \notin handles'
               PROVE  \E u \in Threads : Releasing(u, r)'
    BY <1>1 DEF NoOrphanWorker, Alive
  <2>1. PICK u \in Threads : Releasing(u, r)
    BY <1>1 DEF NoOrphanWorker
  <2>2. Releasing(u, r)'
    BY <1>1, <1>3, <2>1 DEF Releasing, s
  <2> QED BY <2>2
<1> QED BY <1>5, <1>6, <1>7

\* Every step of a client thread preserves the agreement of tables and processes.
LEMMA TrackInvThread ==
  ASSUME TrackInv, NEW t \in Threads,
         Begin(t) \/ StartStep(t) \/ RequestStep(t) \/ ShutdownStep(t)
  PROVE  RegistryMirrorsHandles' /\ Ownership' /\ NoOrphanWorker'
<1> DEFINE Goal == RegistryMirrorsHandles' /\ Ownership' /\ NoOrphanWorker'
<1> USE DEF Goto, Finish, tableVars, workerVars
<1>StartCleanup. ASSUME StartCleanup(t) PROVE Goal
  BY <1>StartCleanup, TrackInvRelease DEF StartCleanup
<1>Kill. ASSUME Kill(t) PROVE Goal
  BY <1>Kill, TrackInvRelease DEF Kill, CloseAndTerminate
<1>FinishShutdown. ASSUME FinishShutdown(t) PROVE Goal
  BY <1>FinishShutdown, TrackInvRelease DEF FinishShutdown, CloseAndTerminate
<1>Refresh. ASSUME Refresh(t) PROVE Goal
  <2> DEFINE dead == {s \in handles : ~Alive(s) /\ hrec[s] # "lost"}
  <2>1. /\ hrec' = [s \in Sessions |-> IF s \in dead THEN "lost" ELSE hrec[s]]
        /\ registry' = [s \in Sessions |->
                          IF s \in dead /\ registry[s] # None THEN "lost" ELSE registry[s]]
        /\ UNCHANGED <<job, sess, handles, proc>> /\ pc[t] = "refresh"
    BY <1>Refresh DEF Refresh
  <2>2. "lost" # None
    BY NoneAssumption DEF SessionState
  <2>3. \A s \in dead : s \in handles /\ hrec[s] # None /\ registry[s] # None
    BY DEF TrackInv, RegistryMirrorsHandles
  <2> HIDE DEF dead
  <2>4. \A s \in Sessions : hrec'[s] = None <=> hrec[s] = None
    BY <2>1, <2>2, <2>3
  <2>5. RegistryMirrorsHandles'
    BY <2>1, <2>2, <2>3 DEF TrackInv, TypeInv, TypeOK, RegistryMirrorsHandles
  <2>6. \E to \in {"idle", "get"} : pc' = [pc EXCEPT ![t] = to]
    BY <1>Refresh DEF Refresh
  <2> QED BY <2>1, <2>4, <2>5, <2>6, TrackInvRecord
<1>Update. ASSUME UpdateAfterResult(t) \/ UpdateAfterError(t) PROVE Goal
  <2>1. upd[t] \in SessionState /\ upd[t] # None /\ sess[t] \in Sessions
    BY <1>Update, NoneAssumption
    DEF UpdateAfterResult, UpdateAfterError, TrackInv, TypeInv, Shape
  <2>2. /\ UNCHANGED <<job, sess, handles, proc>> /\ UpdateRecord(t)
        /\ pc[t] \in {"update_result", "update_error"}
    BY <1>Update DEF UpdateAfterResult, UpdateAfterError
  <2>3. PICK to \in {"idle", "invalidate"} :
          pc' = [pc EXCEPT ![t] = to] /\ (to = "invalidate" => pc[t] = "update_error")
    BY <1>Update DEF UpdateAfterResult, UpdateAfterError
  <2>4. \A s \in Sessions : hrec'[s] = None <=> hrec[s] = None
    BY <2>1, <2>2 DEF UpdateRecord, TrackInv, TypeInv, TypeOK, RegistryMirrorsHandles
  <2>5. RegistryMirrorsHandles'
    <3>1. CASE sess[t] \in handles
      <4>1. /\ hrec' = [hrec EXCEPT ![sess[t]] = upd[t]]
            /\ registry' = [registry EXCEPT ![sess[t]] = upd[t]]
        BY <2>2, <3>1 DEF UpdateRecord, Replace, TrackInv, RegistryMirrorsHandles
      <4> QED
        BY <2>1, <2>2, <4>1 DEF TrackInv, TypeInv, TypeOK, RegistryMirrorsHandles
    <3>2. CASE sess[t] \notin handles
      BY <2>2, <3>2 DEF UpdateRecord, TrackInv, RegistryMirrorsHandles
    <3> QED BY <3>1, <3>2
  <2> QED BY <2>2, <2>3, <2>4, <2>5, TrackInvRecord
<1>Invalidate. ASSUME Invalidate(t) PROVE Goal
  BY <1>Invalidate, TrackInvTake DEF Invalidate
<1>Pop. ASSUME Pop(t) PROVE Goal
  <2>1. CASE sess[t] \in handles
    BY <1>Pop, <2>1, TrackInvTake DEF Pop
  <2>2. CASE sess[t] \notin handles
    BY <1>Pop, <2>2, TrackInvForget DEF Pop
  <2> QED BY <2>1, <2>2
<1>Remove. ASSUME Remove(t) PROVE Goal
  <2>1. sess[t] \notin handles
    BY <1>Remove DEF Remove, TrackInv, Ownership, Popped
  <2> QED BY <1>Remove, <2>1, TrackInvForget DEF Remove
<1> QED
  BY <1>StartCleanup, <1>Kill, <1>FinishShutdown, <1>Refresh, <1>Update, <1>Invalidate,
     <1>Pop, <1>Remove, TrackInvBegin, TrackInvPublish, TrackInvQuiet
  DEF StartStep, RequestStep, ShutdownStep

\* A worker process may end by itself, but none appears by itself.
LEMMA TrackInvWorker ==
  ASSUME TrackInv, NEW w \in Sessions, WorkerStep(w)
  PROVE  RegistryMirrorsHandles' /\ Ownership' /\ NoOrphanWorker'
<1> USE DEF TrackInv, TypeInv
<1>1. UNCHANGED <<threadVars, tableVars>>
  BY DEF WorkerStep, WorkerHandles, WorkerFails, WorkerReplies, WorkerDisconnected,
         WorkerExits, threadVars, tableVars, workerVars, pipeVars
<1>2. \A s \in Sessions : /\ Alive(s)' => Alive(s)
                          /\ proc'[s] = "none" <=> proc[s] = "none"
  BY DEF WorkerStep, WorkerHandles, WorkerFails, WorkerReplies, WorkerDisconnected,
         WorkerExits, Alive, TypeOK
<1>3. \A u \in Threads : pc[u] \in PcStart => sess[u] \in Sessions
  BY DEF Shape, PcStart
<1>4. RegistryMirrorsHandles'
  BY <1>1 DEF RegistryMirrorsHandles, tableVars
<1>5. Ownership'
  BY <1>1, <1>2, <1>3 DEF Ownership, Popped, threadVars, tableVars
<1>6. NoOrphanWorker'
  BY <1>1, <1>2 DEF NoOrphanWorker, Releasing, threadVars, tableVars
<1> QED BY <1>4, <1>5, <1>6

\* TrackInv is inductive.
LEMMA TrackInvNext == TrackInv /\ [Next]_vars => TrackInv'
<1> SUFFICES ASSUME TrackInv, [Next]_vars PROVE TrackInv'
  OBVIOUS
<1>1. TypeInv'
  BY TypeInvNext DEF TrackInv
<1>2. CASE Next
  BY <1>1, <1>2, TrackInvThread, TrackInvWorker DEF Next, TrackInv
<1>3. CASE UNCHANGED vars
  BY <1>1, <1>3
  DEF TrackInv, RegistryMirrorsHandles, Ownership, Popped, NoOrphanWorker, Releasing, Alive,
      vars, threadVars, tableVars, workerVars
<1> QED BY <1>2, <1>3

\* WorkerSupervisor._handles and SessionRegistry never disagree, so replace in
\* _update_record_state and _refresh_dead_workers never raises SessionNotFound.
THEOREM RegistryConsistent == Spec => []RegistryMirrorsHandles
<1>1. TrackInv => RegistryMirrorsHandles
  BY DEF TrackInv
<1> QED BY <1>1, TrackInvInit, TrackInvNext, PTL DEF Spec

\* Every live worker process is in the handle table or in the hands of a thread that
\* is about to publish or terminate it: start, loss and close leave none behind.
THEOREM NoWorkerLeftBehind == Spec => []NoOrphanWorker
<1>1. TrackInv => NoOrphanWorker
  BY DEF TrackInv
<1> QED BY <1>1, TrackInvInit, TrackInvNext, PTL DEF Spec

\* _update_record_state, _refresh_dead_workers and start write no record over a
\* missing one, once the session had been published.
LEMMA RemovedStaysRemoved ==
  ASSUME TrackInv, Next, NEW s \in Sessions, hrec[s] # None, registry[s] = None
  PROVE  registry'[s] = None
<1>1. ASSUME NEW w \in Sessions, WorkerStep(w) PROVE UNCHANGED registry
  BY <1>1 DEF WorkerStep, WorkerHandles, WorkerFails, WorkerReplies, WorkerDisconnected,
         WorkerExits, tableVars
<1>2. ASSUME NEW t \in Threads, Begin(t) \/ ShutdownStep(t) PROVE registry'[s] = None
  BY <1>2 DEF Begin, ShutdownStep, Pop, Poll, FinishShutdown, Remove, tableVars,
         TrackInv, TypeInv, TypeOK
<1>3. ASSUME NEW t \in Threads, RequestStep(t) PROVE registry'[s] = None
  BY <1>3 DEF RequestStep, Refresh, Get, Lookup, Send, SendFails, Receive, ReceiveFails,
         ReceiveRaises, Check, UpdateAfterResult, UpdateAfterError, UpdateRecord, Replace,
         Invalidate, Kill, tableVars, TrackInv, TypeInv, TypeOK
<1>4. ASSUME NEW t \in Threads, StartStep(t) PROVE registry'[s] = None
  <2>1. pc[t] = "publish" => sess[t] # s
    BY DEF TrackInv, Ownership, PcStart
  <2> QED BY <1>4, <2>1 DEF StartStep, StartOpened, StartFails, StartCleanup, Publish,
                        tableVars, TrackInv, TypeInv, TypeOK
<1> QED BY <1>1, <1>2, <1>3, <1>4 DEF Next

\* A record that shutdown removed is never written again, by no late reply and no
\* starter.
THEOREM NeverResurrected == Spec => NoResurrection
<1> DEFINE A == \A s \in Sessions :
                  (hrec[s] # None /\ registry[s] = None) => registry'[s] = None
<1>1. TrackInv /\ [Next]_vars => [A]_vars
  BY RemovedStaysRemoved
<1> QED BY <1>1, TrackInvInit, TrackInvNext, PTL DEF Spec, NoResurrection

-----------------------------------------------------------------------------
(* One request at a time on a worker's pipe: request_lock, and the rule    *)
(* that every failed receive closes the connection before the lock is      *)
(* given up, keep a late response from reaching the next request.  And     *)
(* what a client is told of a request is true of the worker, because an id *)
(* is in the pipe only between its send and its answer.                    *)

\* request_lock is held exactly while a thread waits for its response.
LockHeld ==
  \A t \in Threads, s \in Sessions :
    lock[s] = t <=> pc[t] = "receive" /\ sess[t] = s

\* At most one message, and if there is one it carries this id.
AtMost(q, id) == q = <<>> \/ (Len(q) = 1 /\ Head(q).id = id)

PipeEmpty(s) == toWorker[s] = <<>> /\ reply[s] = None /\ fromWorker[s] = <<>>

\* The exchange with this id is in one place: request, computed reply or response.
PipeHolds(s, id) ==
  /\ AtMost(toWorker[s], id) /\ AtMost(fromWorker[s], id)
  /\ reply[s] # None => reply[s].id = id
  /\ toWorker[s] # <<>> => reply[s] = None /\ fromWorker[s] = <<>>
  /\ reply[s] # None => fromWorker[s] = <<>>

\* While the connection is open the pipe belongs to the lock's holder.
PipeOwned ==
  \A s \in Sessions : ~closed[s] =>
    /\ lock[s] = None => PipeEmpty(s)
    /\ \A t \in Threads : lock[s] = t => PipeHolds(s, Id(t))

PipeInv == TypeInv /\ LockHeld /\ PipeOwned

-----------------------------------------------------------------------------
\* Initially no lock is held and every pipe is empty.
LEMMA PipeInvInit == Init => PipeInv
<1> SUFFICES ASSUME Init PROVE PipeInv
  OBVIOUS
<1>1. TypeInv
  BY TypeInvInit
<1>2. LockHeld
  BY NoneAssumption DEF Init, LockHeld
<1>3. PipeOwned
  BY NoneAssumption DEF Init, PipeOwned, PipeEmpty
<1> QED BY <1>1, <1>2, <1>3 DEF PipeInv

\* A step that neither takes nor releases request_lock and adds nothing to a pipe;
\* it may close connections.
LEMMA PipeInvElsewhere ==
  ASSUME PipeInv, NEW t \in Threads,
         pc[t] # "receive", pc'[t] # "receive",
         \A u \in Threads : u # t =>
           pc'[u] = pc[u] /\ sess'[u] = sess[u] /\ seq'[u] = seq[u],
         UNCHANGED <<lock, toWorker, fromWorker, reply>>,
         \A s \in Sessions : closed[s] => closed'[s]
  PROVE  LockHeld' /\ PipeOwned'
<1> USE DEF PipeInv, TypeInv
<1>1. LockHeld'
  BY DEF LockHeld
<1>2. ASSUME NEW s \in Sessions, NEW u \in Threads, lock[s] = u
      PROVE  u # t /\ Id(u)' = Id(u)
  BY <1>2 DEF LockHeld, Id
<1>3. PipeOwned'
  BY <1>2 DEF PipeOwned, PipeEmpty, PipeHolds, AtMost
<1> QED BY <1>1, <1>3

\* The steps of supervisor.py outside WorkerHandle.request's lock region.
LEMMA PipeInvThreadElsewhere ==
  ASSUME PipeInv, NEW t \in Threads,
         \/ Begin(t) \/ StartStep(t) \/ ShutdownStep(t) \/ SendFails(t)
         \/ Refresh(t) \/ Get(t) \/ Lookup(t) \/ Check(t)
         \/ UpdateAfterResult(t) \/ UpdateAfterError(t) \/ Invalidate(t) \/ Kill(t)
  PROVE  LockHeld' /\ PipeOwned'
<1> USE DEF PipeInv, TypeInv, TypeOK, Goto, Finish, threadVars, tableVars, pipeVars,
            workerVars
<1> DEFINE Elsewhere ==
      /\ pc[t] # "receive" /\ pc'[t] # "receive"
      /\ \A u \in Threads : u # t =>
           pc'[u] = pc[u] /\ sess'[u] = sess[u] /\ seq'[u] = seq[u]
      /\ UNCHANGED <<lock, toWorker, fromWorker, reply>>
      /\ \A s \in Sessions : closed[s] => closed'[s]
<1>1. ASSUME Begin(t) PROVE Elsewhere
  BY <1>1 DEF Begin
<1>2. ASSUME StartStep(t) PROVE Elsewhere
  BY ZenonT(40), <1>2 DEF StartStep, StartOpened, StartFails, StartCleanup, Publish
<1>3. ASSUME ShutdownStep(t) PROVE Elsewhere
  BY ZenonT(40), <1>3 DEF ShutdownStep, Pop, Poll, FinishShutdown, Remove, CloseAndTerminate
<1>4. ASSUME SendFails(t) PROVE Elsewhere
  BY ZenonT(60), <1>4, TransportErrorEffect DEF SendFails
<1>5. ASSUME Refresh(t) \/ Get(t) \/ Lookup(t) \/ Check(t) PROVE Elsewhere
  BY <1>5 DEF Refresh, Get, Lookup, Check
<1>6. ASSUME UpdateAfterResult(t) \/ UpdateAfterError(t) PROVE Elsewhere
  BY <1>6 DEF UpdateAfterResult, UpdateAfterError
<1>7. ASSUME Invalidate(t) \/ Kill(t) PROVE Elsewhere
  BY <1>7 DEF Invalidate, Kill, CloseAndTerminate
<1>8. Elsewhere
  BY <1>1, <1>2, <1>3, <1>4, <1>5, <1>6, <1>7
<1> HIDE DEF TypeInv, TypeOK, PipeInv
<1> QED BY <1>8, PipeInvElsewhere

\* The tail of a sequence of one element.
LEMMA SingletonTail ==
  ASSUME NEW S, NEW q \in Seq(S), Len(q) = 1
  PROVE  Tail(q) = <<>>
<1>1. q # <<>>
  BY EmptySeq
<1>2. Tail(q) \in Seq(S) /\ Len(Tail(q)) = 0
  BY <1>1, HeadTailProperties
<1> QED BY <1>2, EmptySeq

\* The lock region of WorkerHandle.request: taking the lock finds an empty pipe,
\* and the lock is given up with the pipe empty or the connection closed.
LEMMA PipeInvLockRegion ==
  ASSUME PipeInv, NEW t \in Threads,
         Send(t) \/ Receive(t) \/ ReceiveFails(t) \/ ReceiveRaises(t)
  PROVE  LockHeld' /\ PipeOwned'
<1> USE NoneAssumption
<1>1. PICK s \in Sessions :
        /\ s = sess[t] /\ pc[t] \in {"send", "receive"}
        /\ UNCHANGED <<sess, seq, reply>>
  BY DEF Send, Receive, ReceiveFails, ReceiveRaises, PipeInv, TypeInv, Shape, workerVars
<1>2. PICK to \in PcState : pc' = [pc EXCEPT ![t] = to] /\ (to = "receive" <=> Send(t))
  <2> USE DEF PipeInv, TypeInv, Goto, Finish, PcState, PcRequest, PcShutdown
  <2>1. CASE Send(t)
    BY <2>1 DEF Send
  <2>2. CASE ReceiveFails(t) \/ ReceiveRaises(t)
    <3>1. ~Send(t)
      BY <2>2 DEF Send, ReceiveFails, ReceiveRaises
    <3> QED BY <2>2, <3>1, TransportErrorEffect DEF ReceiveFails, ReceiveRaises
  <2>3. CASE Receive(t)
    <3>1. ~Send(t)
      BY <2>3 DEF Send, Receive
    <3> QED BY <2>3, <3>1, TransportErrorEffect DEF Receive
  <2> QED BY <2>1, <2>2, <2>3
<1>0. pc'[t] = to /\ \A u \in Threads : u # t => pc'[u] = pc[u]
  BY <1>2 DEF PipeInv, TypeInv, TypeOK
<1>3. \A r \in Sessions : r # s =>
        /\ lock'[r] = lock[r] /\ closed'[r] = closed[r]
        /\ toWorker'[r] = toWorker[r] /\ fromWorker'[r] = fromWorker[r]
  BY <1>1 DEF Send, Receive, ReceiveFails, ReceiveRaises, pipeVars, PipeInv, TypeInv, TypeOK
<1>4. \A u \in Threads : Id(u)' = Id(u)
  BY <1>1 DEF Id
<1>5. ASSUME NEW r \in Sessions, r # s, ~closed'[r]
      PROVE  /\ lock'[r] = None => PipeEmpty(r)'
             /\ \A u \in Threads : lock'[r] = u => PipeHolds(r, Id(u))'
  BY <1>1, <1>3, <1>4, <1>5 DEF PipeInv, PipeOwned, PipeEmpty, PipeHolds
<1>6. CASE Send(t)
  <2>1. /\ lock[s] = None /\ ~closed[s] /\ lock'[s] = t /\ pc'[t] = "receive"
        /\ toWorker'[s] = Append(toWorker[s], [id |-> Id(t), op |-> MessageType(job[t])])
        /\ fromWorker'[s] = fromWorker[s]
    BY <1>1, <1>6 DEF Send, Goto, PipeInv, TypeInv, TypeOK
  <2>2. PipeEmpty(s)
    BY <1>1, <2>1 DEF PipeInv, PipeOwned
  <2>3. PipeHolds(s, Id(t))'
    <3> DEFINE m == [id |-> Id(t), op |-> MessageType(job[t])]
    <3>1. Len(Append(<<>>, m)) = 1 /\ Head(Append(<<>>, m)) = m /\ m.id = Id(t)
      OBVIOUS
    <3>2. toWorker'[s] = Append(<<>>, m) /\ reply'[s] = None /\ fromWorker'[s] = <<>>
      BY <1>1, <2>1, <2>2 DEF PipeEmpty
    <3> HIDE DEF m
    <3> QED BY <1>4, <3>1, <3>2 DEF PipeHolds, AtMost
  <2>4. LockHeld'
    BY <1>0, <1>1, <1>3, <2>1 DEF PipeInv, LockHeld
  <2>5. lock'[s] # None /\ \A u \in Threads : lock'[s] = u => u = t
    BY <2>1
  <2>6. PipeOwned'
    BY <1>5, <2>3, <2>5 DEF PipeOwned
  <2> QED BY <2>4, <2>6
<1>7. CASE ~Send(t)
  <2>1. lock'[s] = None /\ pc[t] = "receive" /\ pc'[t] # "receive"
    <3>1. pc[t] = "receive" /\ lock' = [lock EXCEPT ![s] = None]
      BY <1>1, <1>7 DEF Receive, ReceiveFails, ReceiveRaises
    <3> QED BY <1>0, <1>1, <1>2, <1>7, <3>1 DEF PipeInv, TypeInv, TypeOK
  <2>2. lock[s] = t
    BY <1>1, <2>1 DEF PipeInv, LockHeld
  <2>3. LockHeld'
    BY <1>0, <1>1, <1>3, <2>1, <2>2 DEF PipeInv, LockHeld
  <2>4. closed'[s] \/ PipeEmpty(s)'
    <3>1. CASE ReceiveFails(t) \/ ReceiveRaises(t)
      BY <1>1, <3>1 DEF ReceiveFails, ReceiveRaises, pipeVars, PipeInv, TypeInv, TypeOK
    <3>2. CASE Receive(t)
      <4>1. /\ ~closed[s] /\ fromWorker[s] # <<>> /\ fromWorker'[s] = Tail(fromWorker[s])
            /\ toWorker'[s] = toWorker[s]
        BY <1>1, <3>2 DEF Receive, PipeInv, TypeInv, TypeOK
      <4>2. PipeHolds(s, Id(t))
        BY <1>1, <2>2, <4>1 DEF PipeInv, PipeOwned
      <4>3. toWorker[s] = <<>> /\ reply[s] = None /\ Len(fromWorker[s]) = 1
        BY <4>1, <4>2 DEF PipeHolds, AtMost
      <4>4. fromWorker[s] \in Seq(Response)
        BY <1>1 DEF PipeInv, TypeInv, TypeOK
      <4>5. Tail(fromWorker[s]) = <<>>
        BY <4>3, <4>4, SingletonTail
      <4> QED BY <1>1, <4>1, <4>3, <4>5 DEF PipeEmpty
    <3> QED BY <1>7, <3>1, <3>2
  <2>5. \A u \in Threads : lock'[s] # u
    BY <2>1
  <2>6. PipeOwned'
    BY <1>5, <2>4, <2>5 DEF PipeOwned
  <2> QED BY <2>3, <2>6
<1> QED BY <1>6, <1>7

\* The worker moves the exchange on, one place at a time, and never starts one.
LEMMA PipeInvWorker ==
  ASSUME PipeInv, NEW w \in Sessions, WorkerStep(w)
  PROVE  LockHeld' /\ PipeOwned'
<1> USE NoneAssumption
<1>1. UNCHANGED <<pc, sess, seq, lock, closed>>
  BY DEF WorkerStep, WorkerHandles, WorkerFails, WorkerReplies, WorkerDisconnected,
         WorkerExits, threadVars, pipeVars
<1>2. LockHeld'
  BY <1>1 DEF PipeInv, LockHeld
<1>3. \A r \in Sessions : r # w =>
        toWorker'[r] = toWorker[r] /\ fromWorker'[r] = fromWorker[r] /\ reply'[r] = reply[r]
  BY DEF WorkerStep, WorkerHandles, WorkerFails, WorkerReplies, WorkerDisconnected,
         WorkerExits, threadVars, pipeVars, PipeInv, TypeInv, TypeOK
<1>4. \A u \in Threads : Id(u)' = Id(u)
  BY <1>1 DEF Id
<1>5. /\ toWorker[w] \in Seq(Request) /\ fromWorker[w] \in Seq(Response)
      /\ lock[w] \in Threads \union {None}
  BY DEF PipeInv, TypeInv, TypeOK
<1>6. ASSUME ~closed[w]
      PROVE  /\ lock[w] = None => PipeEmpty(w)'
             /\ \A u \in Threads : lock[w] = u => PipeHolds(w, Id(u))'
  <2>1. CASE WorkerHandles(w) \/ WorkerFails(w)
    <3>1. /\ toWorker[w] # <<>> /\ toWorker'[w] = Tail(toWorker[w])
          /\ fromWorker'[w] = fromWorker[w]
          /\ reply'[w].id = Head(toWorker[w]).id
      BY <2>1 DEF WorkerHandles, WorkerFails, PipeInv, TypeInv, TypeOK
    <3>2. lock[w] # None
      BY <1>6, <3>1 DEF PipeInv, PipeOwned, PipeEmpty
    <3>3. ASSUME NEW u \in Threads, lock[w] = u PROVE PipeHolds(w, Id(u))'
      <4>1. PipeHolds(w, Id(u))
        BY <1>6, <3>3 DEF PipeInv, PipeOwned
      <4>2. Len(toWorker[w]) = 1 /\ Head(toWorker[w]).id = Id(u) /\ fromWorker[w] = <<>>
        BY <3>1, <4>1 DEF PipeHolds, AtMost
      <4>3. Tail(toWorker[w]) = <<>>
        BY <1>5, <4>2, SingletonTail
      <4> QED BY <1>4, <3>1, <4>2, <4>3 DEF PipeHolds, AtMost
    <3> QED BY <3>2, <3>3
  <2>2. CASE WorkerReplies(w)
    <3>1. /\ reply[w] # None /\ reply'[w] = None /\ toWorker'[w] = toWorker[w]
          /\ fromWorker'[w] = Append(fromWorker[w], reply[w])
      BY <1>6, <2>2 DEF WorkerReplies, PipeInv, TypeInv, TypeOK
    <3>2. lock[w] # None
      BY <1>6, <3>1 DEF PipeInv, PipeOwned, PipeEmpty
    <3>3. ASSUME NEW u \in Threads, lock[w] = u PROVE PipeHolds(w, Id(u))'
      <4>1. PipeHolds(w, Id(u))
        BY <1>6, <3>3 DEF PipeInv, PipeOwned
      <4>2. toWorker[w] = <<>> /\ fromWorker[w] = <<>> /\ reply[w].id = Id(u)
        BY <3>1, <4>1 DEF PipeHolds
      <4>3. Len(Append(<<>>, reply[w])) = 1 /\ Head(Append(<<>>, reply[w])) = reply[w]
        OBVIOUS
      <4> QED BY <1>4, <3>1, <4>2, <4>3 DEF PipeHolds, AtMost
    <3> QED BY <3>2, <3>3
  <2>3. CASE WorkerDisconnected(w) \/ WorkerExits(w)
    <3>1. /\ toWorker'[w] = toWorker[w] /\ reply'[w] = reply[w]
          /\ fromWorker'[w] \in {fromWorker[w], <<>>}
      BY <2>3 DEF WorkerDisconnected, WorkerExits, pipeVars, PipeInv, TypeInv, TypeOK
    <3> QED BY <1>4, <1>6, <3>1 DEF PipeInv, PipeOwned, PipeEmpty, PipeHolds, AtMost
  <2> QED BY <2>1, <2>2, <2>3 DEF WorkerStep
<1>7. PipeOwned'
  <2> SUFFICES ASSUME NEW r \in Sessions, ~closed[r]
               PROVE  /\ lock[r] = None => PipeEmpty(r)'
                      /\ \A u \in Threads : lock[r] = u => PipeHolds(r, Id(u))'
    BY <1>1 DEF PipeOwned
  <2>1. CASE r = w
    BY <1>6, <2>1
  <2>2. CASE r # w
    BY <1>3, <1>4, <2>2 DEF PipeInv, PipeOwned, PipeEmpty, PipeHolds, AtMost
  <2> QED BY <2>1, <2>2
<1> QED BY <1>2, <1>7

\* Every step preserves the pipe's invariant.
LEMMA PipeInvNext == PipeInv /\ [Next]_vars => PipeInv'
<1> SUFFICES ASSUME PipeInv, [Next]_vars PROVE PipeInv'
  OBVIOUS
<1>1. TypeInv'
  BY TypeInvNext DEF PipeInv
<1>2. CASE Next
  BY <1>1, <1>2, PipeInvThreadElsewhere, PipeInvLockRegion, PipeInvWorker
  DEF Next, RequestStep, PipeInv
<1>3. CASE UNCHANGED vars
  BY <1>1, <1>3
  DEF PipeInv, LockHeld, PipeOwned, PipeEmpty, PipeHolds, AtMost, Id,
      vars, threadVars, pipeVars, workerVars
<1> QED BY <1>2, <1>3

\* WorkerHandle.request never reads another request's answer: whatever a waiting
\* thread can read from an open connection is the one response to its own request.
THEOREM ResponsesMatchRequests == Spec => []NoStaleResponse
<1>1. PipeInv => NoStaleResponse
  <2> SUFFICES ASSUME PipeInv, NEW t \in Threads,
                      pc[t] = "receive", ~closed[sess[t]], fromWorker[sess[t]] # <<>>
               PROVE  /\ Head(fromWorker[sess[t]]).id = Id(t)
                      /\ Len(fromWorker[sess[t]]) = 1
    BY DEF NoStaleResponse
  <2>1. sess[t] \in Sessions
    BY DEF PipeInv, TypeInv, Shape
  <2>2. lock[sess[t]] = t
    BY <2>1 DEF PipeInv, LockHeld
  <2>3. PipeHolds(sess[t], Id(t))
    BY <2>1, <2>2 DEF PipeInv, PipeOwned
  <2> QED BY <2>3 DEF PipeHolds, AtMost
<1> QED BY <1>1, PipeInvInit, PipeInvNext, PTL DEF Spec
-----------------------------------------------------------------------------
(* What a client is told *)

\* The messages of a queue, and the responses of a worker that were not received.
In(q) == {q[i] : i \in 1..Len(q)}
Told(s) == In(fromWorker[s]) \union ({reply[s]} \ {None})

\* Neither worker nor pipe knows a request with this id.
Unknown(id) ==
  /\ id \notin executed
  /\ \A s \in Sessions : /\ \A m \in In(toWorker[s]) : m.id # id
                         /\ \A r \in Told(s) : r.id # id

BeforeSend == {"refresh", "get", "lookup", "send"}

\* A request that was not sent, and one not even begun, is unknown.
Unsent ==
  \A t \in Threads, n \in 0..MaxOps :
    \/ n > seq[t]
    \/ n = seq[t] /\ job[t] \in Effectful
       /\ (pc[t] \in BeforeSend \/ res[t] = "session_not_found")
    => Unknown(<<t, n>>)

\* A message with a thread's id asks for that thread's operation, and a result with
\* it means that the effect took place.
Matched ==
  \A t \in Threads, s \in Sessions :
    /\ \A m \in In(toWorker[s]) : m.id = Id(t) => m.op = MessageType(job[t])
    /\ \A r \in Told(s) : r.id = Id(t) /\ r.kind = "result" /\ job[t] \in Effectful
                            => Id(t) \in executed

\* An operation has no answer before its request was sent and answered.
AnswerLast ==
  \A t \in Threads :
    job[t] \in Effectful =>
      /\ pc[t] \in BeforeSend \union {"receive"} => res[t] = "none"
      /\ res[t] = "result" => Id(t) \in executed
      /\ res[t] # "worker_ipc_failed"

HonestInv == TypeInv /\ Unsent /\ Matched /\ AnswerLast

-----------------------------------------------------------------------------
\* What reading and writing a queue does to its messages.
LEMMA QueueRead ==
  ASSUME NEW S, NEW q \in Seq(S), q # <<>>
  PROVE  Head(q) \in In(q) /\ In(Tail(q)) \subseteq In(q)
<1>1. PICK n \in Nat : n = Len(q) /\ n > 0
  OBVIOUS
<1>2. /\ Len(Tail(q)) = n - 1 /\ Head(q) = q[1] /\ 1 \in 1..n
      /\ \A i \in 1..(n - 1) : Tail(q)[i] = q[i + 1] /\ i + 1 \in 1..n
  BY <1>1
<1> QED BY <1>1, <1>2 DEF In

LEMMA QueueWrite ==
  ASSUME NEW S, NEW q \in Seq(S), NEW x \in S
  PROVE  In(Append(q, x)) \subseteq In(q) \union {x}
<1>1. PICK n \in Nat : n = Len(q)
  OBVIOUS
<1>2. /\ Len(Append(q, x)) = n + 1 /\ Append(q, x)[n + 1] = x
      /\ \A i \in 1..n : Append(q, x)[i] = q[i]
  BY <1>1
<1>3. \A i \in 1..(n + 1) : i \in 1..n \/ i = n + 1
  OBVIOUS
<1> QED BY <1>1, <1>2, <1>3 DEF In

LEMMA HonestInvInit == Init => HonestInv
<1> SUFFICES ASSUME Init PROVE HonestInv
  OBVIOUS
<1>1. TypeInv
  BY TypeInvInit
<1>2. executed = {} /\ \A s \in Sessions : In(toWorker[s]) = {} /\ Told(s) = {}
  <2>1. \A q : q = <<>> => In(q) = {}
    BY DEF In
  <2> QED BY <2>1 DEF Init, Told
<1>3. Unsent /\ Matched
  BY <1>2 DEF Unsent, Unknown, Matched
<1>4. AnswerLast
  BY DEF Init, AnswerLast, Effectful
<1> QED BY <1>1, <1>3, <1>4 DEF HonestInv

\* A step of a thread that sends nothing: what it answers must be true already.
LEMMA HonestQuiet ==
  ASSUME HonestInv, NEW t \in Threads, NEW to \in PcState, NEW a \in Answer,
         pc' = [pc EXCEPT ![t] = to], res' = [res EXCEPT ![t] = a],
         UNCHANGED <<job, seq, toWorker, reply, executed>>,
         \A s \in Sessions : In(fromWorker'[s]) \subseteq In(fromWorker[s]),
         job[t] \in Effectful =>
           /\ to \in BeforeSend => pc[t] \in BeforeSend
           /\ to \in BeforeSend \union {"receive"} => a = "none"
           /\ a = "session_not_found" => pc[t] \in BeforeSend \/ res[t] = "session_not_found"
           /\ a = "result" => Id(t) \in executed
           /\ a # "worker_ipc_failed"
  PROVE  Unsent' /\ Matched' /\ AnswerLast'
<1>1. /\ pc'[t] = to /\ res'[t] = a
      /\ \A u \in Threads : u # t => pc'[u] = pc[u] /\ res'[u] = res[u]
  BY DEF HonestInv, TypeInv, TypeOK
<1>2. \A u \in Threads : Id(u)' = Id(u)
  BY DEF Id
<1>3. \A s \in Sessions : Told(s)' \subseteq Told(s)
  BY DEF Told
<1>4. \A id : Unknown(id) => Unknown(id)'
  BY <1>3 DEF Unknown
<1>5. Unsent'
  BY <1>1, <1>4 DEF HonestInv, Unsent
<1>6. Matched'
  BY <1>2, <1>3 DEF HonestInv, Matched
<1>7. AnswerLast'
  BY <1>1, <1>2 DEF HonestInv, AnswerLast
<1> QED BY <1>5, <1>6, <1>7

\* Begin takes an id nobody has seen.
LEMMA HonestBegin ==
  ASSUME HonestInv, NEW t \in Threads, Begin(t)
  PROVE  Unsent' /\ Matched' /\ AnswerLast'
<1>1. /\ UNCHANGED <<toWorker, fromWorker, reply, executed>>
      /\ seq[t] \in 0..MaxOps /\ seq[t] + 1 \in 0..MaxOps
      /\ seq'[t] = seq[t] + 1 /\ res'[t] = "none"
      /\ \A u \in Threads : u # t => /\ pc'[u] = pc[u] /\ res'[u] = res[u]
                                     /\ seq'[u] = seq[u] /\ job'[u] = job[u]
  BY BoundAssumption DEF Begin, Goto, HonestInv, TypeInv, TypeOK, pipeVars
<1>2. /\ \A u \in Threads : u # t => Id(u)' = Id(u)
      /\ Id(t)' = <<t, seq[t] + 1>>
  BY <1>1 DEF Id
<1>3. \A s \in Sessions : Told(s)' = Told(s)
  BY <1>1 DEF Told
<1>4. \A id : Unknown(id) => Unknown(id)'
  BY <1>1, <1>3 DEF Unknown
<1>5. \A n \in 0..MaxOps : n >= seq[t] + 1 => Unknown(<<t, n>>)
  BY <1>1 DEF HonestInv, Unsent
<1>6. Unsent'
  <2> SUFFICES ASSUME NEW u \in Threads, NEW n \in 0..MaxOps,
                      \/ n > seq'[u]
                      \/ n = seq'[u] /\ job'[u] \in Effectful
                         /\ (pc'[u] \in BeforeSend \/ res'[u] = "session_not_found")
               PROVE  Unknown(<<u, n>>)
    BY <1>4 DEF Unsent
  <2>1. CASE u = t
    <3>1. n >= seq[t] + 1
      BY <1>1, <2>1
    <3> QED BY <1>5, <2>1, <3>1
  <2>2. CASE u # t
    BY <1>1, <2>2 DEF HonestInv, Unsent
  <2> QED BY <2>1, <2>2
<1>7. Unknown(Id(t)')
  BY <1>1, <1>2, <1>5
<1>8. Matched'
  BY <1>1, <1>2, <1>3, <1>7 DEF HonestInv, Matched, Unknown
<1>9. AnswerLast'
  BY <1>1, <1>2 DEF HonestInv, AnswerLast
<1> QED BY <1>6, <1>8, <1>9

\* Send puts the thread's own request into the pipe.
LEMMA HonestSend ==
  ASSUME HonestInv, NEW t \in Threads, Send(t)
  PROVE  Unsent' /\ Matched' /\ AnswerLast'
<1> DEFINE m == [id |-> Id(t), op |-> MessageType(job[t])]
<1>1. /\ UNCHANGED <<job, seq, res, fromWorker, reply, executed>>
      /\ pc[t] = "send" /\ pc'[t] = "receive" /\ sess[t] \in Sessions
      /\ \A u \in Threads : u # t => pc'[u] = pc[u]
      /\ toWorker' = [toWorker EXCEPT ![sess[t]] = Append(@, m)]
      /\ m \in Request /\ m.id = <<t, seq[t]>> /\ m.op = MessageType(job[t])
  <2>1. sess[t] \in Sessions /\ m.op \in WorkerOps \union {"worker.shutdown"}
    BY DEF Send, HonestInv, TypeInv, TypeOK, Shape, MessageType, WorkerOps, Effectful, PcRequest
  <2>2. m \in Request /\ m.id = <<t, seq[t]>> /\ m.op = MessageType(job[t])
    BY <2>1 DEF Request, MessageId, Id, HonestInv, TypeInv, TypeOK
  <2> QED BY <2>1, <2>2 DEF Send, Goto, HonestInv, TypeInv, TypeOK, workerVars
<1> HIDE DEF m
<1>2. \A s \in Sessions : In(toWorker'[s]) \subseteq In(toWorker[s]) \union {m}
  BY <1>1, QueueWrite DEF HonestInv, TypeInv, TypeOK
<1>3. (\A u \in Threads : Id(u)' = Id(u)) /\ \A s \in Sessions : Told(s)' = Told(s)
  BY <1>1 DEF Id, Told
<1>4. \A id : Unknown(id) /\ id # <<t, seq[t]>> => Unknown(id)'
  BY <1>1, <1>2, <1>3 DEF Unknown
<1>5. job[t] \in Effectful => res[t] = "none"
  BY <1>1 DEF HonestInv, AnswerLast, BeforeSend
<1>6. Unsent'
  <2> SUFFICES ASSUME NEW u \in Threads, NEW n \in 0..MaxOps,
                      \/ n > seq[u]
                      \/ n = seq[u] /\ job[u] \in Effectful
                         /\ (pc'[u] \in BeforeSend \/ res[u] = "session_not_found")
               PROVE  Unknown(<<u, n>>)'
    BY <1>1 DEF Unsent
  <2>1. CASE u = t
    <3>1. n > seq[t] /\ n # seq[t]
      BY <1>1, <1>5, <2>1 DEF BeforeSend, HonestInv, TypeInv, TypeOK
    <3>2. Unknown(<<t, n>>)
      BY <3>1 DEF HonestInv, Unsent
    <3>3. <<t, n>> # <<t, seq[t]>>
      BY <3>1
    <3> QED BY <1>4, <2>1, <3>2, <3>3
  <2>2. CASE u # t
    <3>1. Unknown(<<u, n>>)
      BY <1>1, <2>2 DEF HonestInv, Unsent
    <3>2. <<u, n>> # <<t, seq[t]>>
      BY <2>2
    <3> QED BY <1>4, <3>1, <3>2
  <2> QED BY <2>1, <2>2
<1>7. ASSUME NEW u \in Threads, m.id = Id(u) PROVE u = t
  BY <1>1, <1>7 DEF Id
<1>8. Matched'
  BY ZenonT(40), <1>1, <1>2, <1>3, <1>7 DEF HonestInv, Matched
<1>9. AnswerLast'
  BY <1>1, <1>3, <1>5 DEF HonestInv, AnswerLast
<1> QED BY <1>6, <1>8, <1>9

\* The code of a transport error is true of an effectful request: unknown outcome.
LEMMA HonestTransportError ==
  ASSUME HonestInv, NEW t \in Threads, TransportError(t), pc[t] \in {"send", "receive"}
  PROVE  \E to \in PcState, a \in Answer :
           /\ pc' = [pc EXCEPT ![t] = to] /\ res' = [res EXCEPT ![t] = a]
           /\ to \notin BeforeSend \union {"receive"}
           /\ job[t] \in Effectful =>
                a \notin {"session_not_found", "result", "worker_ipc_failed"}
<1>1. CASE job[t] = "session.close"
  <2>1. pc' = [pc EXCEPT ![t] = "finish"] /\ res' = res
    BY <1>1 DEF TransportError, Goto
  <2>2. res' = [res EXCEPT ![t] = res[t]] /\ res[t] \in Answer /\ job[t] \notin Effectful
    BY <1>1, <2>1 DEF HonestInv, TypeInv, TypeOK, Effectful
  <2>3. "finish" \in PcState /\ "finish" \notin BeforeSend \union {"receive"}
    BY DEF PcState, PcShutdown, BeforeSend
  <2> QED BY <2>1, <2>2, <2>3
<1>2. CASE job[t] # "session.close"
  <2> DEFINE code == uncertain_outcome_code(MessageType(job[t]))
             a == IF code # None THEN code ELSE "worker_ipc_failed"
  <2>1. pc' = [pc EXCEPT ![t] = "update_error"] /\ res' = [res EXCEPT ![t] = a]
    BY <1>2 DEF TransportError, Goto
  <2>2. a \in Answer
    BY DEF uncertain_outcome_code, Answer
  <2>3. job[t] \in Effectful => a \notin {"session_not_found", "result", "worker_ipc_failed"}
    <3>1. job[t] \in Effectful =>
            code \in {"outcome_unknown", "file_outcome_unknown", "elevation_outcome_unknown"}
      BY DEF uncertain_outcome_code, MessageType, Effectful
    <3>2. None \notin {"outcome_unknown", "file_outcome_unknown", "elevation_outcome_unknown"}
      BY NoAnswerAssumption DEF Answer
    <3> QED BY <3>1, <3>2
  <2>4. "update_error" \in PcState /\ "update_error" \notin BeforeSend \union {"receive"}
    BY DEF PcState, PcRequest, BeforeSend
  <2> HIDE DEF a
  <2> QED BY <2>1, <2>2, <2>3, <2>4
<1> QED BY <1>1, <1>2

\* The steps of a thread other than Begin and Send.
LEMMA HonestThread ==
  ASSUME HonestInv, NEW t \in Threads,
         Begin(t) \/ StartStep(t) \/ RequestStep(t) \/ ShutdownStep(t)
  PROVE  Unsent' /\ Matched' /\ AnswerLast'
<1> DEFINE Same == UNCHANGED <<job, seq, toWorker, reply, executed>>
           Fewer == \A s \in Sessions : In(fromWorker'[s]) \subseteq In(fromWorker[s])
           True(to, a) ==
             job[t] \in Effectful =>
               /\ to \in BeforeSend => pc[t] \in BeforeSend
               /\ to \in BeforeSend \union {"receive"} => a = "none"
               /\ a = "session_not_found" => pc[t] \in BeforeSend \/ res[t] = "session_not_found"
               /\ a = "result" => Id(t) \in executed
               /\ a # "worker_ipc_failed"
           Quiet == \E to \in PcState, a \in Answer :
                      pc' = [pc EXCEPT ![t] = to] /\ res' = [res EXCEPT ![t] = a] /\ True(to, a)
<1>1. /\ res \in [Threads -> Answer] /\ fromWorker \in [Sessions -> Seq(Response)]
      /\ res[t] \in Answer /\ (UNCHANGED res => res' = [res EXCEPT ![t] = res[t]])
  BY DEF HonestInv, TypeInv, TypeOK
<1>2. \A to \in PcState : to \notin BeforeSend \union {"receive"} => True(to, res[t])
  BY DEF HonestInv, AnswerLast
<1>3. \A to \in PcState, a \in Answer : job[t] \notin Effectful => True(to, a)
  OBVIOUS
<1>0. /\ {"result", "none", "session_not_found", "worker_error", "start_failed", "broker_internal_error"} \subseteq Answer
      /\ {"idle", "publish", "start_failed", "get", "lookup", "send", "finish", "finish_raised", "check",
          "update_result", "update_error", "invalidate", "kill", "poll", "remove"} \subseteq PcState
      /\ BeforeSend = {"refresh", "get", "lookup", "send"}
  BY DEF Answer, PcState, PcStart, PcRequest, PcShutdown, BeforeSend
<1>4. CASE StartStep(t)
  <2>1. job[t] \notin Effectful
    BY <1>4 DEF StartStep, StartOpened, StartFails, StartCleanup, Publish, HonestInv, TypeInv, Shape,
                PcStart, Effectful
  <2>2. Same /\ Fewer
    BY <1>4 DEF StartStep, StartOpened, StartFails, StartCleanup, Publish, pipeVars, workerVars
  <2>3. \E to \in PcState, a \in Answer : pc' = [pc EXCEPT ![t] = to] /\ res' = [res EXCEPT ![t] = a]
    BY <1>0, <1>1, <1>4 DEF StartStep, StartOpened, StartFails, StartCleanup, Publish, Goto, Finish
  <2>4. Quiet
    BY <1>3, <2>1, <2>3
  <2> QED BY <2>2, <2>4, HonestQuiet
<1>5. CASE ShutdownStep(t)
  <2>1. job[t] \notin Effectful
    BY <1>5 DEF ShutdownStep, Pop, Poll, FinishShutdown, Remove, HonestInv, TypeInv, Shape,
                PcShutdown, Effectful
  <2>2. Same /\ Fewer
    BY <1>5 DEF ShutdownStep, Pop, Poll, FinishShutdown, Remove, pipeVars, workerVars
  <2>3. \E to \in PcState, a \in Answer : pc' = [pc EXCEPT ![t] = to] /\ res' = [res EXCEPT ![t] = a]
    BY <1>0, <1>1, <1>5 DEF ShutdownStep, Pop, Poll, FinishShutdown, Remove, Goto, Finish
  <2>4. Quiet
    BY <1>3, <2>1, <2>3
  <2> QED BY <2>2, <2>4, HonestQuiet
<1>6. CASE Refresh(t) \/ Get(t) \/ Lookup(t)
  <2>2. Same /\ Fewer
    BY <1>6 DEF Refresh, Get, Lookup, pipeVars, workerVars
  <2>3. pc[t] \in BeforeSend
    BY <1>6 DEF Refresh, Get, Lookup, BeforeSend
  <2>4. job[t] \in Effectful => res[t] = "none" /\ job[t] # "session.list" /\ job[t] # "session.rediscover"
    BY <2>3 DEF HonestInv, AnswerLast, Effectful
  <2>5. Quiet
    <3>1. CASE job[t] \in Effectful
      <4>1. \/ pc' = [pc EXCEPT ![t] = "get"] /\ UNCHANGED res
            \/ pc' = [pc EXCEPT ![t] = "lookup"] /\ UNCHANGED res
            \/ pc' = [pc EXCEPT ![t] = "send"] /\ UNCHANGED res
            \/ pc' = [pc EXCEPT ![t] = "idle"] /\ res' = [res EXCEPT ![t] = "session_not_found"]
        BY <1>6, <2>4, <3>1 DEF Refresh, Get, Lookup, Goto, Finish
      <4> QED BY <1>0, <1>1, <2>3, <2>4, <3>1, <4>1
    <3>2. CASE job[t] \notin Effectful
      <4>1. \E to \in PcState, a \in Answer : pc' = [pc EXCEPT ![t] = to] /\ res' = [res EXCEPT ![t] = a]
        BY <1>0, <1>1, <1>6 DEF Refresh, Get, Lookup, Goto, Finish
      <4> QED BY <1>3, <3>2, <4>1
    <3> QED BY <3>1, <3>2
  <2> QED BY <2>2, <2>5, HonestQuiet
<1>7. CASE SendFails(t) \/ ReceiveFails(t)
  <2>2. Same /\ Fewer
    BY <1>7 DEF SendFails, ReceiveFails, workerVars
  <2>3. TransportError(t) /\ pc[t] \in {"send", "receive"}
    BY <1>7 DEF SendFails, ReceiveFails
  <2>4. Quiet
    BY <2>3, HonestTransportError
  <2> QED BY <2>2, <2>4, HonestQuiet
<1>8. CASE ReceiveRaises(t)
  <2>2. Same /\ Fewer
    BY <1>8 DEF ReceiveRaises, pipeVars, workerVars
  <2>4. Quiet
    <3>1. \/ job[t] = "session.close" /\ pc' = [pc EXCEPT ![t] = "finish_raised"] /\ UNCHANGED res
          \/ pc' = [pc EXCEPT ![t] = "idle"] /\ res' = [res EXCEPT ![t] = "broker_internal_error"]
      BY <1>8 DEF ReceiveRaises, Goto, Finish
    <3> QED BY <1>0, <1>1, <1>2, <3>1
  <2> QED BY <2>2, <2>4, HonestQuiet
<1>9. CASE Check(t) \/ UpdateAfterResult(t) \/ UpdateAfterError(t) \/ Invalidate(t) \/ Kill(t)
  <2>2. Same /\ Fewer
    BY <1>9 DEF Check, UpdateAfterResult, UpdateAfterError, Invalidate, Kill, CloseAndTerminate, pipeVars, workerVars
  <2>4. Quiet
    <3>1. UNCHANGED res /\ \E to \in {"update_result", "idle", "invalidate", "kill"} : pc' = [pc EXCEPT ![t] = to]
      BY <1>9 DEF Check, UpdateAfterResult, UpdateAfterError, Invalidate, Kill, Goto
    <3> QED BY <1>0, <1>1, <1>2, <3>1
  <2> QED BY <2>2, <2>4, HonestQuiet
<1>10. CASE Receive(t)
  <2> DEFINE s == sess[t]
             r == Head(fromWorker[s])
  <2>1. pc[t] = "receive" /\ s \in Sessions /\ fromWorker[s] # <<>>
    BY <1>10 DEF Receive, HonestInv, TypeInv, Shape
  <2>2. r \in In(fromWorker[s]) /\ In(Tail(fromWorker[s])) \subseteq In(fromWorker[s])
    BY <1>1, <2>1, QueueRead
  <2>3. Same /\ Fewer
    BY <1>1, <1>10, <2>1, <2>2 DEF Receive, workerVars
  <2>4. job[t] \in Effectful /\ r.id = Id(t) /\ r.kind = "result" => Id(t) \in executed
    <3>1. r \in Told(s)
      BY <2>2 DEF Told
    <3> QED BY <2>1, <3>1 DEF HonestInv, Matched
  <2>5. Quiet
    <3>1. CASE r.id # Id(t)
      <4>1. TransportError(t)
        BY <1>10, <3>1 DEF Receive
      <4> QED BY <2>1, <4>1, HonestTransportError
    <3>2. CASE r.id = Id(t) /\ job[t] = "session.close"
      <4>1. pc' = [pc EXCEPT ![t] = "finish"] /\ UNCHANGED res
        BY <1>10, <3>2 DEF Receive, Goto
      <4> QED BY <1>0, <1>1, <1>2, <4>1
    <3>3. CASE r.id = Id(t) /\ job[t] # "session.close"
      <4>1. /\ \E to \in {"idle", "update_error", "check"} : pc' = [pc EXCEPT ![t] = to]
            /\ \/ r.kind = "result" /\ res' = [res EXCEPT ![t] = "result"]
               \/ res' = [res EXCEPT ![t] = "worker_error"]
        <5>1. r \in Response
          BY <1>1, <2>1
        <5>2. r.kind \in {"result", "error"}
          BY <5>1 DEF Response
        <5>3. \/ r.kind = "result" /\ r.state = None /\ Finish(t, "result")
              \/ /\ Goto(t, IF r.kind = "error" THEN "update_error" ELSE "check")
                 /\ res' = [res EXCEPT ![t] = IF r.kind = "error" THEN "worker_error" ELSE "result"]
          BY <1>10, <3>3 DEF Receive
        <5> QED BY <5>2, <5>3 DEF Goto, Finish
      <4> QED BY ZenonT(40), <1>0, <2>4, <3>3, <4>1
    <3> QED BY <3>1, <3>2, <3>3
  <2> QED BY <2>3, <2>5, HonestQuiet
<1> QED
  BY <1>4, <1>5, <1>6, <1>7, <1>8, <1>9, <1>10, HonestBegin, HonestSend DEF RequestStep

\* A worker only moves on what it was asked for, and its result means that it acted.
LEMMA HonestWorker ==
  ASSUME HonestInv, NEW w \in Sessions, WorkerStep(w)
  PROVE  Unsent' /\ Matched' /\ AnswerLast'
<1>0. /\ toWorker \in [Sessions -> Seq(Request)] /\ fromWorker \in [Sessions -> Seq(Response)]
      /\ reply \in [Sessions -> Response \union {None}] /\ wstate[w] \in SessionState
  BY DEF HonestInv, TypeInv, TypeOK
<1>1. UNCHANGED <<pc, job, seq, res>> /\ \A t \in Threads : Id(t)' = Id(t)
  BY DEF WorkerStep, WorkerHandles, WorkerFails, WorkerReplies, WorkerDisconnected,
         WorkerExits, threadVars, Id
<1> DEFINE Moved(s, r) ==
             \/ r \in Told(s)
             \/ \E m \in In(toWorker[s]) :
                  /\ r.id = m.id
                  /\ r.kind = "result" /\ m.op \in Effectful => m.id \in executed'
<1>2. /\ executed \subseteq executed'
      /\ \A id \in executed' : id \in executed \/ \E m \in In(toWorker[w]) : m.id = id
      /\ \A s \in Sessions : In(toWorker'[s]) \subseteq In(toWorker[s])
      /\ \A s \in Sessions : \A r \in Told(s)' : Moved(s, r)
  <2>1. CASE WorkerHandles(w)
    <3> DEFINE m == Head(toWorker[w])
    <3>1. /\ toWorker[w] # <<>> /\ toWorker' = [toWorker EXCEPT ![w] = Tail(@)] /\ UNCHANGED fromWorker
          /\ \A s \in Sessions : s # w => reply'[s] = reply[s]
      BY <1>0, <2>1 DEF WorkerHandles
    <3>2. m \in In(toWorker[w]) /\ In(Tail(toWorker[w])) \subseteq In(toWorker[w])
      BY <1>0, <3>1, QueueRead
    <3>3. PICK a \in Replies(m.op, wstate[w]) :
             /\ reply'[w].id = m.id /\ reply'[w].kind = a.kind
             /\ executed' = IF a.effect THEN executed \union {m.id} ELSE executed
      BY <1>0, <2>1 DEF WorkerHandles
    <3>4. m.op \in Effectful /\ a.kind = "result" => a.effect = TRUE
      <4>1. m.op = "worker.exec" \/ m.op = "worker.file_edit" \/ m.op = "worker.elevation"
              => (a.kind = "result" => a.effect = TRUE)
        BY <3>3 DEF Replies, Reply
      <4>2. m.op = "worker.terminal" => (a.kind = "result" => a.effect = TRUE)
        BY <3>3 DEF Replies, Reply
      <4> QED BY <4>1, <4>2 DEF Effectful
    <3>5. /\ executed \subseteq executed' /\ \A id \in executed' : id \in executed \/ m.id = id
          /\ reply'[w].kind = "result" /\ m.op \in Effectful => m.id \in executed'
      BY <3>3, <3>4
    <3>6. \A s \in Sessions : In(toWorker'[s]) \subseteq In(toWorker[s])
      BY <1>0, <3>1, <3>2
    <3>7. \A s \in Sessions : \A r \in Told(s)' : r \in Told(s) \/ (s = w /\ r = reply'[w])
      BY <3>1 DEF Told
    <3> QED BY <3>2, <3>3, <3>5, <3>6, <3>7
  <2>2. CASE WorkerFails(w)
    <3> DEFINE m == Head(toWorker[w])
    <3>1. /\ toWorker[w] # <<>> /\ toWorker' = [toWorker EXCEPT ![w] = Tail(@)] /\ UNCHANGED fromWorker
          /\ \A s \in Sessions : s # w => reply'[s] = reply[s]
          /\ reply'[w].id = m.id /\ reply'[w].kind = "error"
      BY <1>0, <2>2 DEF WorkerFails
    <3>2. m \in In(toWorker[w]) /\ In(Tail(toWorker[w])) \subseteq In(toWorker[w])
      BY <1>0, <3>1, QueueRead
    <3>5. executed \subseteq executed' /\ \A id \in executed' : id \in executed \/ m.id = id
      BY <2>2 DEF WorkerFails
    <3>6. \A s \in Sessions : In(toWorker'[s]) \subseteq In(toWorker[s])
      BY <1>0, <3>1, <3>2
    <3>7. \A s \in Sessions : \A r \in Told(s)' : r \in Told(s) \/ (s = w /\ r = reply'[w])
      BY <3>1 DEF Told
    <3> QED BY <3>1, <3>2, <3>5, <3>6, <3>7
  <2>3. CASE WorkerReplies(w)
    <3>1. /\ UNCHANGED <<toWorker, executed>> /\ reply[w] # None /\ reply[w] \in Response
          /\ reply' = [reply EXCEPT ![w] = None]
          /\ \A s \in Sessions : fromWorker'[s] \in {fromWorker[s], IF s = w THEN Append(fromWorker[w], reply[w]) ELSE fromWorker[s]}
      BY <1>0, <2>3 DEF WorkerReplies
    <3>2. In(Append(fromWorker[w], reply[w])) \subseteq In(fromWorker[w]) \union {reply[w]}
      BY <1>0, <3>1, QueueWrite
    <3>3. \A s \in Sessions : Told(s)' \subseteq Told(s)
      BY <1>0, <3>1, <3>2 DEF Told
    <3> QED BY <3>1, <3>3
  <2>4. CASE WorkerDisconnected(w) \/ WorkerExits(w)
    <3>1. /\ UNCHANGED <<toWorker, executed, reply>>
          /\ \A s \in Sessions : fromWorker'[s] = fromWorker[s] \/ fromWorker'[s] = <<>>
      BY <1>0, <2>4 DEF WorkerDisconnected, WorkerExits, pipeVars
    <3>2. \A s \in Sessions : Told(s)' \subseteq Told(s)
      <4>1. In(<<>>) = {}
        BY DEF In
      <4> QED BY <3>1, <4>1 DEF Told
    <3> QED BY <3>1, <3>2
  <2> QED BY <2>1, <2>2, <2>3, <2>4 DEF WorkerStep
<1> HIDE DEF Moved
<1>3. \A id : Unknown(id) => Unknown(id)'
  BY <1>2 DEF Unknown, Moved
<1>4. Unsent'
  BY <1>1, <1>3 DEF HonestInv, Unsent
<1>5. Matched'
  <2>1. \A o \in Effectful : MessageType(o) = o
    BY DEF MessageType, Effectful
  <2> QED BY <1>1, <1>2, <2>1 DEF HonestInv, Matched, Moved
<1>6. AnswerLast'
  BY <1>1, <1>2 DEF HonestInv, AnswerLast
<1> QED BY <1>4, <1>5, <1>6

\* Every step preserves it.
LEMMA HonestInvNext == HonestInv /\ [Next]_vars => HonestInv'
<1> SUFFICES ASSUME HonestInv, [Next]_vars PROVE HonestInv'
  OBVIOUS
<1>1. TypeInv'
  BY TypeInvNext DEF HonestInv
<1>2. CASE Next
  BY <1>1, <1>2, HonestThread, HonestWorker DEF Next, HonestInv
<1>3. CASE UNCHANGED vars
  <2>1. /\ UNCHANGED <<pc, job, seq, res, toWorker, fromWorker, reply, executed>>
    BY <1>3 DEF vars, threadVars, pipeVars, workerVars
  <2>2. /\ \A t \in Threads : Id(t)' = Id(t)
        /\ \A s \in Sessions : Told(s)' = Told(s)
    BY <2>1 DEF Id, Told
  <2>3. \A id : Unknown(id) => Unknown(id)'
    BY <2>1, <2>2 DEF Unknown
  <2> QED BY <1>1, <2>1, <2>2, <2>3 DEF HonestInv, Unsent, Matched, AnswerLast
<1> QED BY <1>2, <1>3

\* What BrokerServer tells a client of an effectful request is true of the worker: a
\* request that was "not found" never took and never takes effect, no effect is
\* reported as a harmless IPC failure, and a result means that it took effect.
THEOREM AnswersToldHonest == Spec => []HonestAnswer
<1>1. HonestInv => HonestAnswer
  <2> SUFFICES ASSUME HonestInv, NEW t \in Threads, job[t] \in Effectful
               PROVE  /\ res[t] \in {"session_not_found", "worker_ipc_failed"} => Id(t) \notin executed
                      /\ res[t] = "result" => Id(t) \in executed
    BY DEF HonestAnswer
  <2>1. seq[t] \in 0..MaxOps /\ Id(t) = <<t, seq[t]>>
    BY DEF HonestInv, TypeInv, TypeOK, Id
  <2>2. res[t] = "session_not_found" => Unknown(Id(t))
    BY <2>1 DEF HonestInv, Unsent
  <2> QED BY <2>2 DEF HonestInv, AnswerLast, Unknown
<1> QED BY <1>1, HonestInvInit, HonestInvNext, PTL DEF Spec
=============================================================================
