------------------------ MODULE BrokerLifecycleProofs ------------------------
(***************************************************************************)
(* The status files of the runtime directory, for any number of brokers,   *)
(* clients and workers: launching, refusing, crashing and replacing        *)
(* brokers leaves the records of those that live alone.                    *)
(***************************************************************************)
EXTENDS BrokerLifecycle, TLAPS

-----------------------------------------------------------------------------
(* The records of the workers *)

WPc == {"none", "spawned", "waiting", "connected", "exited"}
RecordsInv == wpc \in [Workers -> WPc] /\ LiveRecordsPreserved

LEMMA RecordsFrame ==
  ASSUME RecordsInv, UNCHANGED <<wpc, records>>
  PROVE  RecordsInv'
BY DEF RecordsInv, LiveRecordsPreserved, WPc

LEMMA RecordsBrokerStep ==
  ASSUME RecordsInv, NEW b \in Brokers, BrokerStep(b) \/ Crash(b)
  PROVE  RecordsInv'
<1> USE DEF workerVars
<1>1. CASE clean_stale_statuses(b)
  BY <1>1 DEF clean_stale_statuses, RecordsInv, LiveRecordsPreserved, WPc
<1>2. ASSUME NEW w \in Workers, CloseOne(b, w)
      PROVE  RecordsInv'
  BY <1>2 DEF CloseOne, RecordsInv, LiveRecordsPreserved, WPc
<1>3. CASE Claim(b) \/ BrokerAlreadyRunning(b) \/ WriteStatus(b) \/ CreateInstance(b)
  BY <1>3, RecordsFrame DEF Claim, BrokerAlreadyRunning, WriteStatus, CreateInstance
<1>4. ASSUME NEW k \in Conns, Accept(b, k) \/ AcceptRaises(b, k)
      PROVE  RecordsInv'
  BY <1>4, RecordsFrame DEF Accept, AcceptRaises, CloseListener
<1>5. CASE LeaveLoop(b) \/ JoinClients(b)
  BY <1>5, RecordsFrame DEF LeaveLoop, CloseListener, JoinClients
<1>6. ASSUME NEW w \in Workers, PopOne(b, w)
      PROVE  RecordsInv'
  BY <1>6, RecordsFrame DEF PopOne
<1>7. CASE ReadOwnStatus(b) \/ UnlinkStatus(b) \/ Crash(b)
  BY <1>7, RecordsFrame DEF ReadOwnStatus, UnlinkStatus, Crash
<1> QED
  BY <1>1, <1>2, <1>3, <1>4, <1>5, <1>6, <1>7 DEF BrokerStep

LEMMA RecordsThreadStep ==
  ASSUME RecordsInv, NEW k \in Conns, ThreadStep(k)
  PROVE  RecordsInv'
<1> USE DEF workerVars
<1>1. CASE Handshake(k) \/ TestStop(k) \/ ThreadEnds(k) \/ HandleShutdown(k) \/ HandleOther(k)
  BY <1>1, RecordsFrame DEF Handshake, TestStop, ThreadEnds, HandleShutdown, HandleOther
<1>2. ASSUME NEW w \in Workers, HandleOpen(k, w)
      PROVE  RecordsInv'
  BY <1>2 DEF HandleOpen, RecordsInv, LiveRecordsPreserved, WPc
<1>3. ASSUME NEW w \in Workers, HandleExec(k, w)
      PROVE  RecordsInv'
  BY <1>3, RecordsFrame DEF HandleExec
<1>4. CASE ConnectWorker(k)
  BY <1>4 DEF ConnectWorker, RecordsInv, LiveRecordsPreserved, WPc
<1>5. CASE StartEnds(k)
  BY <1>5 DEF StartEnds, RecordsInv, LiveRecordsPreserved, WPc
<1>6. CASE ExecEnds(k)
  BY <1>6, RecordsFrame DEF ExecEnds
<1> QED
  BY <1>1, <1>2, <1>3, <1>4, <1>5, <1>6 DEF ThreadStep

LEMMA RecordsClientStep ==
  ASSUME RecordsInv, NEW c \in Clients, ClientStep(c)
  PROVE  RecordsInv'
<1> USE DEF workerVars
<1>1. ASSUME NEW b \in Brokers, OpenPipe(c, b)
      PROVE  RecordsInv'
  BY <1>1, RecordsFrame DEF OpenPipe
<1>2. CASE Connect(c) \/ ReadStatus(c) \/ BrokerUnavailable(c) \/ SendRequest(c) \/ CloseClient(c)
  BY <1>2, RecordsFrame DEF Connect, ReadStatus, BrokerUnavailable, SendRequest, CloseClient
<1> QED
  BY <1>1, <1>2 DEF ClientStep

LEMMA RecordsWorkerStep ==
  ASSUME RecordsInv, NEW w \in Workers, WorkerStep(w) \/ WorkerCrashes(w)
  PROVE  RecordsInv'
BY DEF WorkerStep, WorkerListens, WorkerDisconnected, WorkerCrashes, RecordsInv, LiveRecordsPreserved, WPc

\* clean_stale_statuses, supervisor.shutdown and run_worker: the status file of a worker that
\* waits or is connected is never removed, whoever cleans up beside it.
THEOREM LiveRecordsKept == Spec => []LiveRecordsPreserved
<1>1. Init => RecordsInv
  BY DEF Init, RecordsInv, LiveRecordsPreserved, WPc
<1>2. RecordsInv /\ [Next]_vars => RecordsInv'
  <2> SUFFICES ASSUME RecordsInv, [Next]_vars PROVE RecordsInv'
    OBVIOUS
  <2>1. CASE UNCHANGED vars
    BY <2>1, RecordsFrame DEF vars, workerVars
  <2> QED
    BY <2>1, RecordsBrokerStep, RecordsThreadStep, RecordsClientStep, RecordsWorkerStep DEF Next
<1>3. RecordsInv => LiveRecordsPreserved
  BY DEF RecordsInv
<1> QED
  BY <1>1, <1>2, <1>3, PTL DEF Spec

-----------------------------------------------------------------------------
(* The status of the broker *)

\* Before a broker holds the pipe name, and after it was refused it.
Outside(b) == bpc[b] \in {"unborn", "launched", "refused"}

BPc == {"unborn", "launched", "claimed", "cleaned", "serving", "leaving", "closing", "checked",
        "refused", "exited", "crashed"}
StatusInv == bpc \in [Brokers -> BPc] /\ RefusedBrokerLeavesNoTrace

\* A step that leaves the status alone, lets no broker serve and puts none outside that
\* has been inside.
LEMMA StatusFrame ==
  ASSUME StatusInv, status' = status, bpc' \in [Brokers -> BPc],
         \A b \in Brokers : /\ bpc'[b] = "serving" => bpc[b] = "serving"
                            /\ bpc'[b] \in {"unborn", "launched", "refused"} => Outside(b)
  PROVE  StatusInv'
BY DEF StatusInv, RefusedBrokerLeavesNoTrace, Outside

LEMMA StatusBrokerStep ==
  ASSUME StatusInv, NEW b \in Brokers, BrokerStep(b) \/ Crash(b)
  PROVE  StatusInv'
<1> USE DEF StatusInv, RefusedBrokerLeavesNoTrace, Outside, BPc
<1>1. CASE Claim(b) \/ BrokerAlreadyRunning(b)
  BY <1>1, StatusFrame DEF Claim, BrokerAlreadyRunning
<1>2. CASE clean_stale_statuses(b)
  BY <1>2 DEF clean_stale_statuses
<1>3. CASE WriteStatus(b)
  BY <1>3 DEF WriteStatus
<1>4. ASSUME NEW k \in Conns, Accept(b, k) \/ AcceptRaises(b, k)
      PROVE  StatusInv'
  BY <1>4, StatusFrame DEF Accept, AcceptRaises, CloseListener
<1>5. CASE LeaveLoop(b) \/ JoinClients(b) \/ CreateInstance(b)
  BY <1>5, StatusFrame DEF LeaveLoop, CloseListener, JoinClients, CreateInstance
<1>6. ASSUME NEW w \in Workers, PopOne(b, w) \/ CloseOne(b, w)
      PROVE  StatusInv'
  BY <1>6, StatusFrame DEF PopOne, CloseOne
<1>7. CASE ReadOwnStatus(b)
  BY <1>7, StatusFrame DEF ReadOwnStatus, Exit
<1>8. CASE UnlinkStatus(b)
  BY <1>8 DEF UnlinkStatus, Exit
<1>9. CASE Crash(b)
  BY <1>9, StatusFrame DEF Crash, Exit
<1> QED
  BY <1>1, <1>2, <1>3, <1>4, <1>5, <1>6, <1>7, <1>8, <1>9 DEF BrokerStep

LEMMA StatusThreadStep ==
  ASSUME StatusInv, NEW k \in Conns, ThreadStep(k)
  PROVE  StatusInv'
<1>1. UNCHANGED <<bpc, status>>
  BY DEF ThreadStep, Handshake, TestStop, ThreadEnds, HandleShutdown, HandleOther, HandleOpen,
         HandleExec, ConnectWorker, StartEnds, ExecEnds, brokerVars
<1> QED
  BY <1>1, StatusFrame DEF StatusInv, Outside

LEMMA StatusClientStep ==
  ASSUME StatusInv, NEW c \in Clients, ClientStep(c)
  PROVE  StatusInv'
<1> USE DEF StatusInv, Outside, BPc
<1>1. CASE BrokerUnavailable(c)
  BY <1>1, StatusFrame DEF BrokerUnavailable, StartBroker
<1>2. ASSUME NEW b \in Brokers, OpenPipe(c, b)
      PROVE  StatusInv'
  BY <1>2, StatusFrame DEF OpenPipe, brokerVars
<1>3. CASE Connect(c) \/ ReadStatus(c) \/ SendRequest(c) \/ CloseClient(c)
  BY <1>3, StatusFrame DEF Connect, ReadStatus, SendRequest, CloseClient, brokerVars
<1> QED
  BY <1>1, <1>2, <1>3 DEF ClientStep

LEMMA StatusWorkerStep ==
  ASSUME StatusInv, NEW w \in Workers, WorkerStep(w) \/ WorkerCrashes(w)
  PROVE  StatusInv'
BY StatusFrame
DEF StatusInv, Outside, WorkerStep, WorkerListens, WorkerDisconnected, WorkerCrashes, brokerVars

\* BrokerServer.__init__ and serve_forever: brokers that are launched beside a serving one and
\* refused its pipe leave broker.json to it, in whatever order they and their clients run.
THEOREM RefusedLeaveNoTrace == Spec => []RefusedBrokerLeavesNoTrace
<1>1. Init => StatusInv
  BY DEF Init, StatusInv, RefusedBrokerLeavesNoTrace, BPc
<1>2. StatusInv /\ [Next]_vars => StatusInv'
  <2> SUFFICES ASSUME StatusInv, [Next]_vars PROVE StatusInv'
    OBVIOUS
  <2>1. CASE UNCHANGED vars
    BY <2>1, StatusFrame DEF vars, brokerVars, StatusInv, Outside
  <2> QED
    BY <2>1, StatusBrokerStep, StatusThreadStep, StatusClientStep, StatusWorkerStep DEF Next
<1>3. StatusInv => RefusedBrokerLeavesNoTrace
  BY DEF StatusInv
<1> QED
  BY <1>1, <1>2, <1>3, PTL DEF Spec
=============================================================================
