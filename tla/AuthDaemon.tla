------------------------------- MODULE AuthDaemon -----------------------------
(***************************************************************************)
(* The authentication half of the daemon: the listener thread, which       *)
(* serves one connection at a time through the socket coordinator, the     *)
(* engine worker thread behind its bounded request and update channels,    *)
(* the biometric lease, the shutdown token, and the clients.               *)
(*                                                                         *)
(* The session slot is SessionManager's.  A connection token is minted for *)
(* every accepted connection and a transaction id for every request, so a  *)
(* client's name stands for both.                                          *)
(*                                                                         *)
(* Slip definitions are deliberate errors, as in SessionManager.           *)
(***************************************************************************)
EXTENDS Integers, Sequences

CONSTANTS
  Clients,      \* connecting processes; one connection each
  Duration,     \* transaction lifetime
  ClockMax,     \* bound on the clock
  MaxFrames,    \* bound on the frames read from one connection
  MaxProgress,  \* MAX_PROGRESS_UPDATES
  MaxDrain,     \* MAX_CANCEL_DRAIN_POLLS
  Idle,         \* no active session
  Nobody        \* no connection being served

ASSUME DaemonAssumption ==
  /\ MaxFrames \in Nat
  /\ MaxProgress \in Nat
  /\ MaxDrain \in Nat \ {0}
  /\ Nobody \notin Clients

VARIABLES
  slot, starts, signalled, reply,  \* SessionManager
  clock,      \* the monotonic clock
  reads,      \* clients that still hold their end of the connection
  frames,     \* frames read so far from the connection being served
  output,     \* responses written to the connection served last
  admitted,   \* connections taken from the listen backlog
  lpc,        \* the listener thread's place in the coordinator
  peer,       \* the connection being served
  sampled,    \* the time argument of the handle_one call under way
  attached,   \* the job whose update receiver the coordinator holds, or 0
  polls,      \* polls left in drain_cancelled_engine
  drainOk,    \* what the coordinator returns after a complete drain
  updates,    \* contents of the update channel
  queue,      \* the request channel's one place: a job, or 0
  active,     \* the engine client's active flag
  lease,      \* the job holding the biometric lease, or 0
  wpc,        \* the worker thread's place in run and run_job
  wjob,       \* the job the worker runs, or 0
  sent,       \* progress updates of this job
  captured,   \* capture time of the newest frame pair of this job
  result,     \* the job's result
  fault,      \* the error the worker's run returns, if any
  shutdown    \* ShutdownToken's flag

SM == INSTANCE SessionManager WITH Connections <- Clients, Transactions <- Clients

\* None is no session, and the times are monotonic ones (SessionAssumption).
ASSUME SlotAssumption ==
  /\ Duration \in Nat
  /\ ClockMax \in Nat
  /\ Idle \notin SM!Sessions

manager == <<slot, starts, signalled, reply>>
sockets == <<reads, frames, output, admitted>>
listener == <<lpc, peer, sampled, attached, polls, drainOk>>
worker == <<wpc, wjob, sent, captured, result, fault>>
engine == <<updates, queue, active, lease>>
vars == <<manager, clock, sockets, listener, worker, engine, shutdown>>

NoCapture == -1
NoResult == [kind |-> "None"]
Failure == [kind |-> "Failure"]
Evidence(match, at) == [kind |-> "Evidence", match |-> match, at |-> at]
ProgressUpdate == [kind |-> "Progress"]

Init ==
  /\ SM!ManagerInit
  /\ clock = 0
  /\ reads = Clients
  /\ frames = 0
  /\ output = <<>>
  /\ admitted = {}
  /\ lpc = "accept"
  /\ peer = Nobody
  /\ sampled = 0
  /\ attached = 0
  /\ polls = 0
  /\ drainOk = FALSE
  /\ updates = <<>>
  /\ queue = 0
  /\ active = FALSE
  /\ lease = 0
  /\ wpc = "check"
  /\ wjob = 0
  /\ sent = 0
  /\ captured = NoCapture
  /\ result = NoResult
  /\ fault = "none"
  /\ shutdown = FALSE

-------------------------------------------------------------------------------
(***************************************************************************)
(* Clients, clock, and the supervisor.                                     *)
(***************************************************************************)

\* A client connects before the daemon admits it and may leave at any time.
\* What it writes is chosen when the daemon reads.
Disconnect(c) ==
  /\ c \in reads
  /\ reads' = reads \ {c}
  /\ UNCHANGED <<manager, clock, frames, output, admitted, listener, worker,
                 engine, shutdown>>

Tick ==
  /\ clock < ClockMax
  /\ clock' = clock + 1
  /\ UNCHANGED <<manager, sockets, listener, worker, engine, shutdown>>

\* The supervisor requests shutdown when it is told to from outside, and when
\* a service has returned.
RequestShutdown ==
  /\ ~shutdown
  /\ shutdown' = TRUE
  /\ UNCHANGED <<manager, clock, sockets, listener, worker, engine>>

ServiceReturned == lpc = "stopped" \/ wpc \in {"stopped", "failed"}

-------------------------------------------------------------------------------
(***************************************************************************)
(* The listener thread: run_accept_loop and the connection coordinator.    *)
(***************************************************************************)

Token == slot.token

\* The client whose connection is served still reads.
Delivers == peer \in reads

\* write_message of the manager's newest reply to the served connection.
Respond(response) ==
  output' = IF Delivers THEN Append(output, response) ELSE output

\* The handler's return: the update receiver is dropped with the handle.  An
\* error is first stored: the shutdown is requested in a step of its own.
Return(ok) ==
  /\ \/ ok /\ lpc' = "accept" /\ peer' = Nobody
     \/ ~ok /\ lpc' = "fatal" /\ UNCHANGED peer
  /\ attached' = 0
  /\ updates' = <<>>
  /\ sampled' = 0
  /\ polls' = 0
  /\ drainOk' = FALSE
  /\ UNCHANGED shutdown

\* A handler error is dropped instead of stopping the daemon.
SlipRequestFatal ==
  /\ lpc = "fatal"
  /\ lpc' = "accept"
  /\ peer' = Nobody
  /\ UNCHANGED <<manager, clock, sockets, sampled, attached, polls, drainOk,
                 worker, engine, shutdown>>

\* A handler error requests daemon shutdown, and only then is the connection
\* let go.
RequestFatal ==
  /\ lpc = "fatal"
  /\ shutdown' = TRUE
  /\ lpc' = "accept"
  /\ peer' = Nobody
  /\ UNCHANGED <<manager, clock, sockets, sampled, attached, polls, drainOk,
                 worker, engine>>

\* Continue in the coordinator at label.
Goto(label) ==
  /\ lpc' = label
  /\ UNCHANGED <<peer, sampled, attached, polls, drainOk, updates, shutdown>>

\* Enter drain_cancelled_engine; ok is what a complete drain returns.
Drain(ok) ==
  /\ lpc' = "drain"
  /\ polls' = MaxDrain
  /\ drainOk' = ok
  /\ UNCHANGED <<peer, sampled, attached, shutdown>>

\* handle_one is called with the time of the call, before the frame is read.
EnterHandler(label) ==
  /\ lpc' = label
  /\ sampled' = clock

Accept(c) ==
  /\ lpc = "accept"
  /\ ~shutdown
  /\ c \notin admitted
  /\ admitted' = admitted \cup {c}
  /\ peer' = c
  /\ frames' = 0
  /\ output' = <<>>
  /\ EnterHandler("admit")
  /\ UNCHANGED <<manager, clock, reads, attached, polls, drainOk, worker,
                 engine, shutdown>>

AcceptLoopStops ==
  /\ lpc = "accept"
  /\ shutdown
  /\ lpc' = "stopped"
  /\ UNCHANGED <<manager, clock, sockets, peer, sampled, attached, polls,
                 drainOk, worker, engine, shutdown>>

\* Too many connections in a row could not be initialized, or max_connections
\* were served: run_accept_loop returns, and with it the listener.
AcceptLoopFails ==
  /\ lpc = "accept"
  /\ ~shutdown
  /\ lpc' = "stopped"
  /\ UNCHANGED <<manager, clock, sockets, peer, sampled, attached, polls,
                 drainOk, worker, engine, shutdown>>

\* The rejection the boundary writes for a manager error.
Rejection(error) ==
  [kind |-> "Rejected",
   reason |-> CASE error = "Busy" -> "Busy"
                [] error \in {"WrongConnection", "WrongTransaction"} -> "UnauthorizedPeer"
                [] OTHER -> "ServiceUnavailable"]

BoundaryReply(r) == IF r.kind = "Error" THEN Rejection(r.error) ELSE r

\* A transaction id no connection of this behaviour was given.
OtherTransaction == Nobody

\* read_message returns a frame.
TakeFrame ==
  /\ frames < MaxFrames
  /\ frames' = frames + 1
  /\ UNCHANGED <<clock, reads, admitted>>

\* Request::Authenticate that executable verification or policy refuses.
HandleUnauthorized ==
  /\ \E reason \in {"ServiceNotAllowed", "UnauthorizedPeer"} :
       Respond([kind |-> "Rejected", reason |-> reason])
  /\ UNCHANGED manager

HandleAuthenticate ==
  /\ SM!Start(peer, peer, sampled)
  /\ Respond(BoundaryReply(reply'))

HandleCancel ==
  /\ \/ SM!Cancel(peer, peer, sampled)
     \/ SM!Cancel(peer, OtherTransaction, sampled)
  /\ Respond(BoundaryReply(reply'))

\* handle_one up to its response: one frame read, one response written.
HandleOne ==
  /\ TakeFrame
  /\ HandleUnauthorized \/ HandleAuthenticate \/ HandleCancel

\* handle_one fails to read a frame: end of stream, a malformed frame, or the
\* read timeout of a connection that stays silent.
ReadFails == UNCHANGED <<clock, sockets>>

\* coordinate_authentication_connection: the first frame.
AdmitFrame ==
  /\ lpc = "admit"
  /\ HandleOne
  /\ \/ ~Delivers /\ Return(FALSE)
     \/ /\ Delivers
        /\ reply' = SM!Started(peer)
        /\ Goto("acquire")
     \/ /\ Delivers
        /\ reply' # SM!Started(peer)
        /\ Return(TRUE)
  /\ UNCHANGED <<worker, queue, active, lease>>

AdmitFails ==
  /\ lpc = "admit"
  /\ ReadFails
  /\ Return(FALSE)
  /\ UNCHANGED <<manager, worker, queue, active, lease>>

\* The lease is taken over from the job that holds it.
SlipSubmitAcquire ==
  /\ lpc = "acquire"
  /\ lease' = Token
  /\ Goto("reserve")
  /\ UNCHANGED <<manager, clock, sockets, worker, queue, active>>

\* AuthenticationEngineClient::submit, step by step.
SubmitAcquire ==
  /\ lpc = "acquire"
  /\ \/ lease # 0 /\ Goto("giveup") /\ UNCHANGED lease
     \/ lease = 0 /\ lease' = Token /\ Goto("reserve")
  /\ UNCHANGED <<manager, clock, sockets, worker, queue, active>>

SubmitReserve ==
  /\ lpc = "reserve"
  /\ \/ active /\ lease' = 0 /\ Goto("giveup") /\ UNCHANGED active
     \/ ~active /\ active' = TRUE /\ Goto("enqueue") /\ UNCHANGED lease
  /\ UNCHANGED <<manager, clock, sockets, worker, queue>>

SubmitEnqueue ==
  /\ lpc = "enqueue"
  /\ \/ /\ wpc \in {"stopped", "failed"} \/ queue # 0
        /\ active' = FALSE
        /\ lease' = 0
        /\ Goto("giveup")
        /\ UNCHANGED queue
     \/ /\ wpc \notin {"stopped", "failed"}
        /\ queue = 0
        /\ queue' = Token
        /\ attached' = Token
        /\ updates' = <<>>
        /\ lpc' = "wait"
        /\ UNCHANGED <<peer, sampled, polls, drainOk, shutdown, active, lease>>
  /\ UNCHANGED <<manager, clock, sockets, worker>>

\* The session is left in the slot when the engine does not take it.
SlipGiveUp ==
  /\ lpc = "giveup"
  /\ Return(TRUE)
  /\ UNCHANGED <<manager, clock, sockets, worker, queue, active, lease>>

\* send_engine_failure, then the handler's return.
GiveUp ==
  /\ lpc = "giveup"
  /\ SM!Complete(peer, peer, "InternalError", clock)
  /\ Respond(reply')
  /\ Return(Delivers)
  /\ UNCHANGED <<clock, reads, frames, admitted, worker, queue,
                 active, lease>>

\* A vanished worker is taken for a slow one.
SlipDisconnected == FALSE

\* The worker no longer holds the update sender of the attached job.
Disconnected == queue # attached /\ wjob # attached

\* A progress update is relayed.  The failed write of a progress response
\* returns at once: it neither cancels the session nor drains the engine.
RelayProgress ==
  /\ lpc = "wait"
  /\ updates # <<>>
  /\ Head(updates) = ProgressUpdate
  /\ SM!Progress(peer, peer, clock)
  /\ Respond(reply')
  /\ \/ ~Delivers /\ Return(FALSE)
     \/ /\ Delivers
        /\ slot' = Idle
        /\ updates' = Tail(updates)
        /\ Drain(TRUE)
     \/ /\ Delivers
        /\ slot' # Idle
        /\ updates' = Tail(updates)
        /\ lpc' = "poll"
        /\ UNCHANGED <<peer, sampled, attached, polls, drainOk, shutdown>>
  /\ UNCHANGED <<clock, reads, frames, admitted, worker, queue,
                 active, lease>>

\* The decision of complete_authentication for one evidence and the template
\* found in storage: an unusable template is an internal error.
DecisionsFor(match) ==
  {IF match THEN "Accepted" ELSE "Refused", "InternalError"}

\* send_derived_completion: the deadline is compared with the time at which
\* the evidence was captured.
CompleteWithEvidence ==
  /\ lpc = "wait"
  /\ updates # <<>>
  /\ Head(updates).kind = "Evidence"
  /\ \E d \in DecisionsFor(Head(updates).match) :
       SM!Complete(peer, peer, d, Head(updates).at)
  /\ Respond(reply')
  /\ Return(Delivers)
  /\ UNCHANGED <<clock, reads, frames, admitted, worker, queue,
                 active, lease>>

EngineFailed ==
  /\ lpc = "wait"
  /\ \/ updates # <<>> /\ Head(updates) = Failure
     \/ updates = <<>> /\ Disconnected
  /\ Goto("giveup")
  /\ UNCHANGED <<manager, clock, sockets, worker, queue, active, lease>>

UpdateTimeout ==
  /\ lpc = "wait"
  /\ updates = <<>>
  /\ ~Disconnected
  /\ Goto("poll")
  /\ UNCHANGED <<manager, clock, sockets, worker, queue, active, lease>>

PollClient ==
  /\ lpc = "poll"
  /\ \/ Delivers /\ Goto("wait")
     \/ /\ EnterHandler("serve")
        /\ UNCHANGED <<peer, attached, polls, drainOk, updates, shutdown>>
  /\ UNCHANGED <<manager, clock, sockets, worker, queue, active, lease>>

\* The coordinator goes on after a client's cancellation.
SlipServeFrame ==
  /\ lpc = "serve"
  /\ Delivers
  /\ HandleOne
  /\ Goto("wait")
  /\ UNCHANGED <<worker, queue, active, lease>>

\* A frame of the served client while its job runs.
ServeFrame ==
  /\ lpc = "serve"
  /\ Delivers
  /\ HandleOne
  /\ \/ slot' = Idle /\ Drain(TRUE) /\ UNCHANGED updates
     \/ slot' # Idle /\ Goto("wait")
  /\ UNCHANGED <<worker, queue, active, lease>>

\* Any failure of handle_one cancels the session and drains the engine.  A
\* failed write has already handled its frame.
ServeFails ==
  /\ lpc = "serve"
  /\ \/ ReadFails /\ SM!Cancel(peer, peer, clock)
     \/ ~Delivers /\ HandleOne /\ slot' = Idle
     \/ ~Delivers /\ TakeFrame /\ SM!Cancel(peer, peer, clock) /\ UNCHANGED output
  /\ Drain(FALSE)
  /\ UNCHANGED <<updates, worker, queue, active, lease>>

\* poll(2) itself fails.
PollFails ==
  /\ lpc = "poll"
  /\ SM!Cancel(peer, peer, clock)
  /\ Drain(FALSE)
  /\ UNCHANGED <<clock, sockets, updates, worker, queue, active, lease>>

\* One round of drain_cancelled_engine.
DrainRound ==
  /\ lpc = "drain"
  /\ polls > 0
  /\ \/ /\ updates # <<>>
        /\ Head(updates) # ProgressUpdate
        /\ Return(drainOk)
     \/ /\ updates = <<>>
        /\ Disconnected
        /\ Return(FALSE)
     \/ /\ updates # <<>>
        /\ Head(updates) = ProgressUpdate
        /\ updates' = Tail(updates)
        /\ polls' = polls - 1
        /\ UNCHANGED <<lpc, peer, sampled, attached, drainOk, shutdown>>
     \/ /\ updates = <<>>
        /\ ~Disconnected
        /\ polls' = polls - 1
        /\ UNCHANGED <<lpc, peer, sampled, attached, drainOk, updates, shutdown>>
  /\ UNCHANGED <<manager, clock, sockets, worker, queue, active, lease>>

DrainGivesUp ==
  /\ lpc = "drain"
  /\ polls = 0
  /\ Return(FALSE)
  /\ UNCHANGED <<manager, clock, sockets, worker, queue, active, lease>>

-------------------------------------------------------------------------------
(***************************************************************************)
(* The engine worker thread.                                               *)
(***************************************************************************)

\* AuthenticationJob::is_cancelled: the session's token or daemon shutdown.
Cancelled == wjob \in signalled \/ shutdown

\* run looks at the shutdown flag, then waits for a request.
WorkerChecks ==
  /\ wpc = "check"
  /\ ~shutdown
  /\ wpc' = "recv"
  /\ UNCHANGED <<manager, clock, sockets, listener, wjob, sent, captured,
                 result, fault, engine, shutdown>>

WaitTimeout ==
  /\ wpc = "recv"
  /\ queue = 0
  /\ wpc' = "check"
  /\ UNCHANGED <<manager, clock, sockets, listener, wjob, sent, captured,
                 result, fault, engine, shutdown>>

\* The last engine client went away with the listener's handler.
RequestChannelCloses ==
  /\ wpc = "recv"
  /\ queue = 0
  /\ lpc = "stopped"
  /\ wpc' = "failed"
  /\ fault' = "RequestChannelClosed"
  /\ UNCHANGED <<manager, clock, sockets, listener, wjob, sent, captured,
                 result, engine, shutdown>>

TakeRequest ==
  /\ wpc = "recv"
  /\ queue # 0
  /\ wjob' = queue
  /\ queue' = 0
  /\ wpc' = "start"
  /\ UNCHANGED <<manager, clock, sockets, listener, sent, captured, result,
                 fault, updates, active, lease, shutdown>>

\* run returns, with or without the error of run_job.  A request still queued
\* is dropped with the receiver, and its lease with it.
WorkerStops ==
  /\ \/ wpc = "check" /\ shutdown /\ wpc' = "stopped"
     \/ wpc = "failing" /\ wpc' = "failed"
  /\ queue' = 0
  /\ lease' = IF queue # 0 THEN 0 ELSE lease
  /\ UNCHANGED <<manager, clock, sockets, listener, wjob, sent, captured,
                 result, fault, updates, active, shutdown>>

BeginJob ==
  /\ wpc = "start"
  /\ \/ Cancelled /\ result' = Failure /\ wpc' = "recheck"
     \/ ~Cancelled /\ wpc' = "work" /\ UNCHANGED result
  /\ UNCHANGED <<manager, clock, sockets, listener, wjob, sent, captured,
                 fault, engine, shutdown>>

CapturePair ==
  /\ wpc = "work"
  /\ captured' = clock
  /\ UNCHANGED <<manager, clock, sockets, listener, wpc, wjob, sent, result,
                 fault, engine, shutdown>>

\* The progress callback.  The update channel holds every update a job may
\* send, so only a dropped receiver makes try_send fail.
ReportProgress ==
  /\ wpc = "work"
  /\ \/ /\ Cancelled \/ sent >= MaxProgress \/ attached # wjob
        /\ result' = Failure
        /\ wpc' = "recheck"
        /\ UNCHANGED <<updates, sent>>
     \/ /\ ~Cancelled
        /\ sent < MaxProgress
        /\ attached = wjob
        /\ updates' = Append(updates, ProgressUpdate)
        /\ sent' = sent + 1
        /\ UNCHANGED <<wpc, result>>
  /\ UNCHANGED <<manager, clock, sockets, listener, wjob, captured,
                 fault, queue, active, lease, shutdown>>

\* authenticate returns: evidence on the newest pair, or any failure.
FinishJob ==
  /\ wpc = "work"
  /\ \/ result' = Failure
     \/ /\ captured # NoCapture
        /\ \E match \in BOOLEAN : result' = Evidence(match, captured)
  /\ wpc' = "recheck"
  /\ UNCHANGED <<manager, clock, sockets, listener, wjob, sent, captured,
                 fault, engine, shutdown>>

RecheckCancelled ==
  /\ wpc = "recheck"
  /\ result' = IF Cancelled THEN Failure ELSE result
  /\ wpc' = "report"
  /\ UNCHANGED <<manager, clock, sockets, listener, wjob, sent, captured,
                 fault, engine, shutdown>>

ReportResult ==
  /\ wpc = "report"
  /\ updates' = IF attached = wjob THEN Append(updates, result) ELSE updates
  /\ fault' = IF attached = wjob THEN fault ELSE "ResultReceiverClosed"
  /\ wpc' = "release"
  /\ UNCHANGED <<manager, clock, sockets, listener, wjob, sent, captured,
                 result, queue, active, lease, shutdown>>

ReleaseActive ==
  /\ wpc = "release"
  /\ active' = FALSE
  /\ wpc' = "drop"
  /\ UNCHANGED <<manager, clock, sockets, listener, wjob, sent, captured,
                 result, fault, updates, queue, lease, shutdown>>

\* The frames of a finished job stay with the engine.
SlipDropRequest ==
  /\ wpc = "drop"
  /\ lease' = 0
  /\ wjob' = 0
  /\ sent' = 0
  /\ result' = NoResult
  /\ wpc' = IF fault = "none" THEN "check" ELSE "failing"
  /\ UNCHANGED <<manager, clock, sockets, listener, captured, fault, updates,
                 queue, active, shutdown>>

\* run_job returns: the request, with the lease and the update sender, is
\* dropped.  A lost receiver ends the worker with an error.
DropRequest ==
  /\ wpc = "drop"
  /\ lease' = 0
  /\ wjob' = 0
  /\ sent' = 0
  /\ captured' = NoCapture
  /\ result' = NoResult
  /\ wpc' = IF fault = "none" THEN "check" ELSE "failing"
  /\ UNCHANGED <<manager, clock, sockets, listener, fault, updates, queue,
                 active, shutdown>>

-------------------------------------------------------------------------------

ListenerStep ==
  \/ \E c \in Clients : Accept(c)
  \/ AcceptLoopStops
  \/ AdmitFrame
  \/ AdmitFails
  \/ SubmitAcquire
  \/ SubmitReserve
  \/ SubmitEnqueue
  \/ GiveUp
  \/ RelayProgress
  \/ CompleteWithEvidence
  \/ EngineFailed
  \/ UpdateTimeout
  \/ PollClient
  \/ ServeFrame
  \/ ServeFails
  \/ PollFails
  \/ DrainRound
  \/ DrainGivesUp
  \/ RequestFatal

WorkerStep ==
  \/ WorkerChecks
  \/ WaitTimeout
  \/ RequestChannelCloses
  \/ TakeRequest
  \/ WorkerStops
  \/ BeginJob
  \/ ReportProgress
  \/ FinishJob
  \/ RecheckCancelled
  \/ ReportResult
  \/ ReleaseActive
  \/ DropRequest

ClientStep == \E c \in Clients : Disconnect(c)

Next ==
  \/ ListenerStep
  \/ WorkerStep
  \/ AcceptLoopFails
  \/ CapturePair
  \/ ClientStep
  \/ Tick
  \/ RequestShutdown

Spec == Init /\ [][Next]_vars

\* Both service threads keep running, and the supervisor notices a service
\* that returned.  The engine's authenticate returns: its capture attempts and
\* observations are bounded, so FinishJob or ReportProgress is not put off
\* forever.  Clients and the clock are under no obligation.
Fairness ==
  /\ WF_vars(ListenerStep)
  /\ WF_vars(WorkerStep)
  /\ WF_vars(ServiceReturned /\ RequestShutdown)

FairSpec == Spec /\ Fairness

-------------------------------------------------------------------------------
(***************************************************************************)
(* Properties.                                                             *)
(***************************************************************************)

\* The values of the variables.
Updates == {ProgressUpdate, Failure} \cup
           {Evidence(match, at) : match \in BOOLEAN, at \in 0..ClockMax}

TypeOK ==
  /\ slot = Idle \/ slot.connection \in Clients
  /\ clock \in 0..ClockMax
  /\ reads \subseteq Clients
  /\ frames \in 0..MaxFrames
  /\ admitted \subseteq Clients
  /\ lpc \in {"accept", "admit", "acquire", "reserve", "enqueue", "giveup",
              "wait", "poll", "serve", "drain", "fatal", "stopped"}
  /\ peer \in Clients \cup {Nobody}
  /\ updates \in Seq(Updates)
  /\ wpc \in {"check", "recv", "start", "work", "recheck", "report",
              "release", "drop", "failing", "stopped", "failed"}
  /\ result \in Updates \cup {NoResult}
  /\ fault \in {"none", "ResultReceiverClosed", "RequestChannelClosed"}

Kind(i) == output[i].kind

\* A connection reads at most one terminal response and nothing after it, no
\* progress or completion before Started, and Started once.
ResponseOrder ==
  \A i, j \in DOMAIN output :
    /\ Kind(i) \in {"Progress", "Completed"} =>
         \E k \in 1..(i - 1) : Kind(k) = "Started"
    /\ Kind(i) = "Completed" => j <= i
    /\ Kind(i) = "Started" /\ Kind(j) = "Started" => i = j

\* The lease and the active flag bracket one job, from submission to the last
\* statement of run_job: a job queued or running holds the lease, and no two
\* jobs are ever in the pipeline.  A submission that got the lease is never
\* refused by the active flag.
PipelineExclusive ==
  /\ queue # 0 => lease = queue /\ wjob = 0
  /\ wjob # 0 => lease = wjob /\ queue = 0
  /\ lease # 0 /\ lpc \notin {"reserve", "enqueue"} => lease \in {queue, wjob}
  /\ lpc = "reserve" => ~active

\* A job nobody waits for is a cancelled job, and every cancellation check will
\* stop it, with one exception: after the failed write of a progress response to
\* a client that is gone, the job runs on until the listener, whose next step
\* this is, has requested the shutdown.  Whatever else took the coordinator away
\* from its job has signalled the job's token first.
OrphanIsCancelled ==
  wjob # 0 /\ wpc \in {"start", "work", "recheck"} /\ attached # wjob =>
    Cancelled \/ (lpc = "fatal" /\ ~Delivers)

\* The response written in this step.
Writes(response) == output' = Append(output, response)

\* An acceptance rests on evidence this very session's job captured while the
\* session ran and before its deadline, and nothing had cancelled it: neither
\* an earlier job's frames nor a cancelled session can be accepted.
AcceptanceIsEarned ==
  [][\A c \in Clients : Writes(SM!Completed(c, "Accepted")) =>
       /\ peer = c /\ slot # Idle /\ slot.connection = c
       /\ attached = Token /\ Token \notin signalled
       /\ Head(updates).match
       /\ Head(updates).at \in (slot.deadline - Duration)..(slot.deadline - 1)]_vars

\* Every accepted connection is let go, and every lease given back: no client,
\* silent, slow or gone, and no engine outcome keeps the sequential listener or
\* the pipeline forever.
NothingIsKept ==
  /\ \A c \in Clients : peer = c ~> peer # c
  /\ lease # 0 ~> lease = 0

\* A started transaction is answered, unless its client left or the daemon is
\* going down.
StartedIsAnswered ==
  \A c \in Clients :
    (peer = c /\ slot # Idle) ~> \/ output # <<>> /\ Kind(Len(output)) = "Completed"
                                \/ c \notin reads
                                \/ shutdown

\* After a shutdown request both threads return, whatever they were doing.
ShutdownCompletes ==
  shutdown ~> lpc = "stopped" /\ wpc \in {"stopped", "failed"}

(***************************************************************************)
(* What the documentation says and the code does not do.                   *)
(***************************************************************************)

\* docs/ipc.md: "A deadline reached during processing overrides even a valid
\* biometric decision with TimedOut".  The completion is judged at the capture
\* time of its evidence, so the time spent on inference and storage does not
\* count.
NoLateAcceptance ==
  [][\A c \in Clients :
       Writes(SM!Completed(c, "Accepted")) => clock < slot.deadline]_vars

\* coordinate_authentication_connection: "Client cancellation and disconnect
\* signal the exact session token before the coordinator drains".  A disconnect
\* noticed by the write of a progress response does neither.
DisconnectSignalsToken ==
  wjob # 0 /\ wpc = "work" /\ attached # wjob => wjob \in signalled

\* AuthenticationEngineService::run fails "if the request channel [...]
\* disappears before orderly daemon shutdown".  The listener's orderly return
\* closes the channel while the worker may still be waiting on it.
ChannelLossIsEarly == fault = "RequestChannelClosed" => ~shutdown

===============================================================================
