--------------------------- MODULE BrokerLifecycle ---------------------------
(***************************************************************************)
(* The life of the per-user broker: claiming the pipe name, the status     *)
(* file, the accept loop and its client threads, shutdown, crashes and     *)
(* replacement; the clients that find and launch it; and the worker        *)
(* processes that outlive it or do not.                                    *)
(*                                                                         *)
(* What a session does inside its worker is BrokerSupervisor's subject:    *)
(* here a session is opened, is busy and is closed.  The pipe name has the *)
(* semantics of a Windows named pipe: it exists while some handle to one   *)
(* of its instances does, and a creator that asks to be first is refused   *)
(* while it exists.                                                        *)
(***************************************************************************)
EXTENDS Naturals, FiniteSets

CONSTANTS
  Brokers,      \* the broker processes that may be launched, each once
  Clients,      \* the tool calls, each with a BrokerManager and one request
  Workers,      \* the worker processes that may be spawned, each once
  MaxTries,     \* bound: the pipe connections one client opens
  None          \* no broker, no worker

ASSUME NoneAssumption == None \notin Brokers /\ None \notin Workers
ASSUME TriesAssumption == MaxTries \in Nat

VARIABLES
  bpc,          \* where each broker process stands
  stop,         \* BrokerServer._stop
  listening,    \* the listener holds an instance waiting for a client
  handles,      \* WorkerSupervisor._handles
  toClose,      \* close_all: the session ids still to be shut down
  status,       \* broker.json: the broker whose instance_token it holds
  side,         \* the server end of each connection
  owner,        \* the broker at that end
  task,         \* the worker the serving thread is busy with
  cpc,          \* where each client stands
  tries,        \* connections it opened so far; <<c, tries[c]>> is the current one
  token,        \* the instance_token the client read
  polling,      \* the client has called _start_broker and polls
  wpc,          \* each worker process
  parent,       \* the broker that spawned it
  records       \* the workers whose status file exists

brokerVars == <<bpc, stop, listening, handles, toClose>>
connVars   == <<side, owner, task>>
clientVars == <<cpc, tries, token, polling>>
workerVars == <<wpc, parent, records>>
vars == <<brokerVars, status, connVars, clientVars, workerVars>>

-----------------------------------------------------------------------------
Conns == Clients \X (1..MaxTries)

\* A broker goes through unborn, launched, claimed, cleaned, serving, leaving, closing and
\* checked (the status holds its own token), and ends refused, exited or crashed.  A server
\* end is pending until accept returns, looping before it tests _stop, receiving while it
\* waits for a request.  A worker is spawned before its status is there, then waiting in
\* listener.accept().
Running(b) == bpc[b] \notin {"unborn", "refused", "exited", "crashed"}
Open(k) == side[k] \notin {"none", "closed"}
Current(c) == <<c, tries[c]>>

\* The client still holds its end of the connection.
ClientHolds(k) ==
  tries[k[1]] = k[2] /\ cpc[k[1]] \in {"opened", "connected", "waiting"}

\* Some handle to an instance of the per-user pipe exists.
NameExists == \/ \E b \in Brokers : listening[b]
              \/ \E k \in Conns : Open(k)

\* A client still holds an instance whose server end is gone.
Lingers == \E k \in Conns : side[k] = "closed" /\ ClientHolds(k)

SetSide(k, where) == side' = [side EXCEPT ![k] = where]

\* Connections of a process that ends close with it.
CloseEnds(b) ==
  side' = [k \in Conns |-> IF owner[k] = b /\ Open(k) THEN "closed" ELSE side[k]]

-----------------------------------------------------------------------------
(* BrokerServer.__init__ and serve_forever *)

\* NamedPipeListener creates the first instance: it exists for one broker only.
Claim(b) ==
  /\ bpc[b] = "launched" /\ ~NameExists
  /\ bpc' = [bpc EXCEPT ![b] = "claimed"]
  /\ listening' = [listening EXCEPT ![b] = TRUE]
  /\ UNCHANGED <<stop, handles, toClose, status, connVars, clientVars, workerVars>>

\* MUTANT: stale statuses are cleaned before the pipe is claimed.
BrokerAlreadyRunning_cleans_first(b) ==
  /\ bpc[b] = "launched" /\ (NameExists \/ Lingers)
  /\ bpc' = [bpc EXCEPT ![b] = "refused"]
  /\ status' = None
  /\ UNCHANGED <<stop, listening, handles, toClose, connVars, clientVars, workerVars>>

\* The instance flag makes CreateNamedPipe fail, perhaps already on a lingering one.
BrokerAlreadyRunning(b) ==
  /\ bpc[b] = "launched" /\ (NameExists \/ Lingers)
  /\ bpc' = [bpc EXCEPT ![b] = "refused"]
  /\ UNCHANGED <<stop, listening, handles, toClose, status, connVars, clientVars,
                 workerVars>>

\* MUTANT: the liveness of the process is not asked for.
clean_stale_statuses_all(b) ==
  /\ bpc[b] = "claimed"
  /\ bpc' = [bpc EXCEPT ![b] = "cleaned"]
  /\ status' = None
  /\ records' = {}
  /\ UNCHANGED <<stop, listening, handles, toClose, connVars, clientVars, wpc, parent>>

\* clean_stale_statuses: the broker status goes; of the worker statuses, those
\* whose process is gone.
clean_stale_statuses(b) ==
  /\ bpc[b] = "claimed"
  /\ bpc' = [bpc EXCEPT ![b] = "cleaned"]
  /\ status' = None
  /\ records' = {w \in records : wpc[w] # "exited"}
  /\ UNCHANGED <<stop, listening, handles, toClose, connVars, clientVars, wpc, parent>>

\* serve_forever publishes the status and enters the accept loop.
WriteStatus(b) ==
  /\ bpc[b] = "cleaned"
  /\ bpc' = [bpc EXCEPT ![b] = "serving"]
  /\ status' = b
  /\ UNCHANGED <<stop, listening, handles, toClose, connVars, clientVars, workerVars>>

\* accept returns the instance a client opened and a thread starts serving it.
\* The next instance is created by the next call of accept, not before.
Accept(b, k) ==
  /\ bpc[b] = "serving" /\ ~stop[b]
  /\ side[k] = "pending" /\ owner[k] = b
  /\ SetSide(k, "handshake")
  /\ listening' = [listening EXCEPT ![b] = FALSE]
  /\ UNCHANGED <<bpc, stop, handles, toClose, status, owner, task, clientVars,
                 workerVars>>

\* accept creates another instance, without asking to be first.
CreateInstance(b) ==
  /\ bpc[b] = "serving" /\ ~stop[b] /\ ~listening[b]
  /\ listening' = [listening EXCEPT ![b] = TRUE]
  /\ UNCHANGED <<bpc, stop, handles, toClose, status, connVars, clientVars, workerVars>>

\* The listener closes, with an instance a client may have opened meanwhile.
CloseListener(b) ==
  /\ bpc' = [bpc EXCEPT ![b] = "leaving"]
  /\ stop' = [stop EXCEPT ![b] = TRUE]
  /\ listening' = [listening EXCEPT ![b] = FALSE]
  /\ side' = [k \in Conns |-> IF owner[k] = b /\ side[k] = "pending"
                              THEN "closed" ELSE side[k]]
  /\ UNCHANGED <<handles, toClose, status, owner, task, clientVars, workerVars>>

\* _stop is set: accept returns once more, for stop()'s own connection or
\* another one, and the loop ends.
LeaveLoop(b) == bpc[b] = "serving" /\ stop[b] /\ CloseListener(b)

\* The client closed its end before ConnectNamedPipe: Windows reports that there
\* is no data, accept raises and serve_forever ends.
AcceptRaises(b, k) ==
  /\ bpc[b] = "serving" /\ ~stop[b]
  /\ side[k] = "pending" /\ owner[k] = b /\ ~ClientHolds(k)
  /\ CloseListener(b)

\* MUTANT: the join has no timeout.
JoinClients_forever(b) ==
  /\ bpc[b] = "leaving"
  /\ \A k \in Conns : owner[k] = b => ~Open(k)
  /\ bpc' = [bpc EXCEPT ![b] = "closing"]
  /\ toClose' = [toClose EXCEPT ![b] = handles[b]]
  /\ UNCHANGED <<stop, listening, handles, status, connVars, clientVars, workerVars>>

\* _join_clients gives every client thread two seconds and goes on without it;
\* close_all then takes the session ids it is to shut down.
JoinClients(b) ==
  /\ bpc[b] = "leaving"
  /\ bpc' = [bpc EXCEPT ![b] = "closing"]
  /\ toClose' = [toClose EXCEPT ![b] = handles[b]]
  /\ UNCHANGED <<stop, listening, handles, status, connVars, clientVars, workerVars>>

\* close_all shuts the sessions down one after the other.  supervisor.shutdown
\* takes the handle ...
PopOne(b, w) ==
  /\ bpc[b] = "closing" /\ w \in toClose[b] /\ toClose[b] \subseteq handles[b]
  /\ handles' = [handles EXCEPT ![b] = @ \ {w}]
  /\ UNCHANGED <<bpc, stop, listening, toClose, status, connVars, clientVars, workerVars>>

\* ... and waits for the request_lock of a thread that is executing in the session
\* before it ends the worker.
CloseOne(b, w) ==
  /\ bpc[b] = "closing" /\ w \in toClose[b] \ handles[b]
  /\ ~\E k \in Conns : owner[k] = b /\ side[k] = "exec" /\ task[k] = w
  /\ toClose' = [toClose EXCEPT ![b] = @ \ {w}]
  /\ wpc' = [wpc EXCEPT ![w] = "exited"]
  /\ records' = records \ {w}
  /\ UNCHANGED <<bpc, stop, listening, handles, status, connVars, clientVars, parent>>

\* The process ends, and with it its daemon threads and its pipe handles.
Exit(b, how) ==
  /\ bpc' = [bpc EXCEPT ![b] = how]
  /\ listening' = [listening EXCEPT ![b] = FALSE]
  /\ CloseEnds(b)

\* _remove_own_status reads the status ...
ReadOwnStatus(b) ==
  /\ bpc[b] = "closing" /\ toClose[b] = {}
  /\ \/ /\ status = b
        /\ bpc' = [bpc EXCEPT ![b] = "checked"]
        /\ UNCHANGED <<listening, side>>
     \/ status # b /\ Exit(b, "exited")
  /\ UNCHANGED <<stop, handles, toClose, status, owner, task, clientVars, workerVars>>

\* ... and unlinks the file, whatever it holds by now.
UnlinkStatus(b) ==
  /\ bpc[b] = "checked"
  /\ status' = None
  /\ Exit(b, "exited")
  /\ UNCHANGED <<stop, handles, toClose, owner, task, clientVars, workerVars>>

\* A crash, a log-off or BrokerManager's process.terminate().
Crash(b) ==
  /\ Running(b)
  /\ Exit(b, "crashed")
  /\ UNCHANGED <<stop, handles, toClose, status, owner, task, clientVars, workerVars>>

-----------------------------------------------------------------------------
(* _serve_client: the broker's thread for one connection *)

\* Both proofs are made with the token: the client's is the one it read from the
\* status, the server's its own.
Handshake(k) ==
  LET c == k[1] IN
  /\ side[k] = "handshake"
  /\ ClientHolds(k) /\ token[c] = owner[k]
  /\ SetSide(k, "looping")
  /\ cpc' = [cpc EXCEPT ![c] = "connected"]
  /\ UNCHANGED <<brokerVars, status, owner, task, tries, token, polling, workerVars>>

\* `while not self._stop.is_set()`.
TestStop(k) ==
  /\ side[k] = "looping"
  /\ SetSide(k, IF stop[owner[k]] THEN "closed" ELSE "receiving")
  /\ UNCHANGED <<brokerVars, status, owner, task, clientVars, workerVars>>

\* receive raises: the client is gone, its proof is wrong or the handshake timed
\* out.  The wait for a request has no deadline.
ThreadEnds(k) ==
  /\ \/ side[k] = "handshake"
     \/ side[k] = "receiving" /\ ~ClientHolds(k)
  /\ SetSide(k, "closed")
  /\ UNCHANGED <<brokerVars, status, owner, task, clientVars, workerVars>>

\* broker.shutdown: _stop is set before stop() wakes the accept loop.
HandleShutdown(k) ==
  /\ side[k] = "requested"
  /\ stop' = [stop EXCEPT ![owner[k]] = TRUE]
  /\ SetSide(k, "looping")
  /\ UNCHANGED <<bpc, listening, handles, toClose, status, owner, task, clientVars, workerVars>>

\* A request that changes no session.
HandleOther(k) ==
  /\ side[k] = "requested"
  /\ SetSide(k, "looping")
  /\ UNCHANGED <<brokerVars, status, owner, task, clientVars, workerVars>>

\* session.open: supervisor.start spawns the worker ...
HandleOpen(k, w) ==
  /\ side[k] = "requested" /\ wpc[w] = "none"
  /\ SetSide(k, "starting")
  /\ task' = [task EXCEPT ![k] = w]
  /\ wpc' = [wpc EXCEPT ![w] = "spawned"]
  /\ parent' = [parent EXCEPT ![w] = owner[k]]
  /\ UNCHANGED <<brokerVars, status, owner, clientVars, records>>

\* ... connects to it once it has published its status ...
ConnectWorker(k) ==
  LET w == task[k] IN
  /\ side[k] = "starting" /\ wpc[w] = "waiting"
  /\ wpc' = [wpc EXCEPT ![w] = "connected"]
  /\ UNCHANGED <<brokerVars, status, connVars, clientVars, parent, records>>

\* ... and publishes the handle, or cleans up.
StartEnds(k) ==
  LET w == task[k] IN
  /\ side[k] = "starting"
  /\ \/ /\ wpc[w] = "connected"
        /\ handles' = [handles EXCEPT ![owner[k]] = @ \union {w}]
        /\ UNCHANGED <<wpc, records>>
     \/ /\ wpc' = [wpc EXCEPT ![w] = "exited"]
        /\ records' = records \ {w}
        /\ UNCHANGED handles
  /\ SetSide(k, "looping")
  /\ task' = [task EXCEPT ![k] = None]
  /\ UNCHANGED <<bpc, stop, listening, toClose, status, owner, clientVars, parent>>

\* session.exec holds the session's request_lock until it ends.
HandleExec(k, w) ==
  /\ side[k] = "requested" /\ w \in handles[owner[k]]
  /\ ~\E j \in Conns : side[j] = "exec" /\ task[j] = w
  /\ SetSide(k, "exec")
  /\ task' = [task EXCEPT ![k] = w]
  /\ UNCHANGED <<brokerVars, status, owner, clientVars, workerVars>>

ExecEnds(k) ==
  /\ side[k] = "exec"
  /\ SetSide(k, "looping")
  /\ task' = [task EXCEPT ![k] = None]
  /\ UNCHANGED <<brokerVars, status, owner, clientVars, workerVars>>

-----------------------------------------------------------------------------
(* BrokerClient and BrokerManager *)

ClientGoto(c, where) == cpc' = [cpc EXCEPT ![c] = where]

\* connect() begins.
Connect(c) ==
  /\ cpc[c] = "idle"
  /\ ClientGoto(c, "try")
  /\ UNCHANGED <<brokerVars, status, connVars, tries, token, polling, workerVars>>

\* BrokerClient.__init__ reads the status.
ReadStatus(c) ==
  /\ cpc[c] = "try" /\ status # None
  /\ token' = [token EXCEPT ![c] = status]
  /\ ClientGoto(c, "read")
  /\ UNCHANGED <<brokerVars, status, connVars, tries, polling, workerVars>>

\* connect_named_pipe opens the free instance of whichever broker listens.
OpenPipe(c, b) ==
  /\ cpc[c] = "read" /\ tries[c] < MaxTries
  /\ listening[b] /\ ~\E k \in Conns : owner[k] = b /\ side[k] = "pending"
  /\ tries' = [tries EXCEPT ![c] = @ + 1]
  /\ side' = [side EXCEPT ![<<c, tries[c] + 1>>] = "pending"]
  /\ owner' = [owner EXCEPT ![<<c, tries[c] + 1>>] = b]
  /\ ClientGoto(c, "opened")
  /\ UNCHANGED <<brokerVars, status, task, token, polling, workerVars>>

\* _start_broker: a new process, or none where the scheduled task or the process
\* this manager launched before still runs.
StartBroker(c) ==
  /\ ~polling[c]
  /\ polling' = [polling EXCEPT ![c] = TRUE]
  /\ \/ UNCHANGED bpc
     \/ \E b \in Brokers : bpc[b] = "unborn" /\ bpc' = [bpc EXCEPT ![b] = "launched"]

\* BrokerUnavailable: no status, no pipe, a wrong proof or no answer.  The first
\* time a broker is launched; afterwards the client polls until its deadline.
BrokerUnavailable(c) ==
  /\ cpc[c] \in {"try", "read", "opened"}
  /\ cpc[c] = "try" => status = None
  /\ \/ StartBroker(c) /\ ClientGoto(c, "try")
     \/ polling[c] /\ ClientGoto(c, "try") /\ UNCHANGED <<polling, bpc>>
     \/ polling[c] /\ ClientGoto(c, "done") /\ UNCHANGED <<polling, bpc>>
  /\ UNCHANGED <<stop, listening, handles, toClose, status, connVars, tries, token,
                 workerVars>>

\* BrokerClient.request.
SendRequest(c) ==
  /\ cpc[c] = "connected" /\ side[Current(c)] = "receiving"
  /\ SetSide(Current(c), "requested")
  /\ ClientGoto(c, "waiting")
  /\ UNCHANGED <<brokerVars, status, owner, task, tries, token, polling, workerVars>>

\* The response, an error, a timeout or the end of the MCP process: the client
\* closes its connection.
CloseClient(c) ==
  /\ cpc[c] \in {"opened", "connected", "waiting"}
  /\ ClientGoto(c, "done")
  /\ UNCHANGED <<brokerVars, status, connVars, tries, token, polling, workerVars>>

-----------------------------------------------------------------------------
(* run_worker *)

\* The pipe listener is there and the status written: the worker waits in accept,
\* which has no timeout.
WorkerListens(w) ==
  /\ wpc[w] = "spawned"
  /\ wpc' = [wpc EXCEPT ![w] = "waiting"]
  /\ records' = records \union {w}
  /\ UNCHANGED <<brokerVars, status, connVars, clientVars, parent>>

\* The broker's end is gone: an authenticated worker leaves its loop and removes
\* its status.
WorkerDisconnected(w) ==
  /\ wpc[w] = "connected" /\ ~Running(parent[w])
  /\ wpc' = [wpc EXCEPT ![w] = "exited"]
  /\ records' = records \ {w}
  /\ UNCHANGED <<brokerVars, status, connVars, clientVars, parent>>

\* A worker that dies leaves its status behind.
WorkerCrashes(w) ==
  /\ wpc[w] \in {"spawned", "waiting", "connected"}
  /\ wpc' = [wpc EXCEPT ![w] = "exited"]
  /\ UNCHANGED <<brokerVars, status, connVars, clientVars, parent, records>>

-----------------------------------------------------------------------------
Init ==
  /\ bpc = [b \in Brokers |-> "unborn"]
  /\ stop = [b \in Brokers |-> FALSE]
  /\ listening = [b \in Brokers |-> FALSE]
  /\ handles = [b \in Brokers |-> {}]
  /\ toClose = [b \in Brokers |-> {}]
  /\ status = None
  /\ side = [k \in Conns |-> "none"]
  /\ owner = [k \in Conns |-> None]
  /\ task = [k \in Conns |-> None]
  /\ cpc = [c \in Clients |-> "idle"]
  /\ tries = [c \in Clients |-> 0]
  /\ token = [c \in Clients |-> None]
  /\ polling = [c \in Clients |-> FALSE]
  /\ wpc = [w \in Workers |-> "none"]
  /\ parent = [w \in Workers |-> None]
  /\ records = {}

BrokerStep(b) ==
  \/ Claim(b) \/ BrokerAlreadyRunning(b) \/ clean_stale_statuses(b) \/ WriteStatus(b)
  \/ \E k \in Conns : Accept(b, k) \/ AcceptRaises(b, k)
  \/ CreateInstance(b) \/ LeaveLoop(b) \/ JoinClients(b)
  \/ \E w \in Workers : PopOne(b, w) \/ CloseOne(b, w)
  \/ ReadOwnStatus(b) \/ UnlinkStatus(b)

\* The steps a thread takes by itself: waiting for a request is not among them.
ThreadStep(k) ==
  \/ Handshake(k) \/ TestStop(k) \/ ThreadEnds(k)
  \/ HandleShutdown(k) \/ HandleOther(k)
  \/ \E w \in Workers : HandleOpen(k, w) \/ HandleExec(k, w)
  \/ ConnectWorker(k) \/ StartEnds(k) \/ ExecEnds(k)

ClientStep(c) ==
  \/ Connect(c) \/ ReadStatus(c) \/ \E b \in Brokers : OpenPipe(c, b)
  \/ BrokerUnavailable(c) \/ SendRequest(c) \/ CloseClient(c)

WorkerStep(w) == WorkerListens(w) \/ WorkerDisconnected(w)

Next ==
  \/ \E b \in Brokers : BrokerStep(b) \/ Crash(b)
  \/ \E k \in Conns : ThreadStep(k)
  \/ \E c \in Clients : ClientStep(c)
  \/ \E w \in Workers : WorkerStep(w) \/ WorkerCrashes(w)

Spec == Init /\ [][Next]_vars

\* Broker code, client threads and workers keep running; every wait of theirs has
\* a deadline except those that no step here leaves by itself: for a client, for
\* its next request, and a worker's for its broker.  Clients owe nothing.
FairSpec ==
  /\ Spec
  /\ \A b \in Brokers : WF_vars(BrokerStep(b))
  /\ \A k \in Conns : WF_vars(ThreadStep(k))
  /\ \A w \in Workers : WF_vars(WorkerStep(w))

-----------------------------------------------------------------------------
(* Properties *)

\* A broker that is refused the pipe leaves no trace: while no other broker ever
\* owned the name, a serving broker's status stays its own, however many are
\* launched beside it.
RefusedBrokerLeavesNoTrace ==
  \A b \in Brokers :
    (bpc[b] = "serving"
       /\ \A o \in Brokers \ {b} : bpc[o] \in {"unborn", "launched", "refused"})
      => status = b

\* A worker that is alive keeps the status it published, through the end of its
\* broker and the clean-up of the next one.
LiveRecordsPreserved ==
  \A w \in Workers : wpc[w] \in {"waiting", "connected"} => w \in records

\* A broker that is told to stop ends: no thread of a silent client and no running
\* command keeps serve_forever from its end.
StopEndsBroker ==
  \A b \in Brokers : stop[b] ~> ~Running(b)

\* The connected workers of a stopping broker end, those that a thread still starts
\* or publishes after close_all took its list included.
StopEndsWorkers ==
  \A w \in Workers :
    (wpc[w] = "connected" /\ stop[parent[w]]) ~> wpc[w] = "exited"

\* Stopping ends the broker and the workers it had connected.
StopEnds == StopEndsBroker /\ StopEndsWorkers
=============================================================================
