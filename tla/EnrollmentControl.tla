--------------------------- MODULE EnrollmentControl --------------------------
(***************************************************************************)
(* The enrollment half of the daemon: the Manager1 method handlers, each a *)
(* task of the bus executor that suspends at its awaits and between its    *)
(* critical sections; the watcher of bus names; the controller bridge; the *)
(* relay thread that a daemon coordinator runs for an operation; and the   *)
(* enrollment worker thread with its template commit.                      *)
(*                                                                         *)
(* The operation slot is ManagementCoordinator's.  One lock guards it      *)
(* together with its owner, another the controller; an action is one       *)
(* critical section.  A sender has at most one method call under way.      *)
(*                                                                         *)
(* Slip definitions are deliberate errors, as in SessionManager.           *)
(***************************************************************************)
EXTENDS ManagementCoordinator, Sequences

CONSTANTS
  Senders,         \* unique bus names
  UidOf,           \* the account each sender's process runs under
  MaxOperations,   \* bound on the operations of one behaviour
  MaxEvents,       \* bound on the interruptions of one behaviour
  MaxProgress,     \* MAX_PROGRESS_UPDATES
  Authentication,  \* the lease's other owner
  NoOwner          \* Option::None for the owner of the slot

ASSUME ControlAssumption ==
  /\ UidOf \in [Senders -> Uids]
  /\ MaxOperations \in Nat
  /\ MaxEvents \in Nat
  /\ MaxProgress \in Nat
  /\ Authentication \notin 0..MaxOperations

VARIABLES
  clock,
  owner,       \* ManagementState::owner
  account,     \* the account each operation was authorized for
  connected,   \* senders on the bus
  departed,    \* senders whose owner-change signal is not yet handled
  call,        \* each sender's method call and where it stands
  events,      \* interruptions so far: cancellations, departures, failed
               \* signals, authentications, a shutdown request
  watcher,     \* the owner-change loop of run_manager1_service
  cancelled,   \* operations whose EnrollmentCancellation is set
  controlled,  \* the operation registered with the controller, or 0
  taken,       \* its handle was taken by a relay
  relay,       \* the relay thread
  receiver,    \* the operation whose update receiver is alive, or 0
  updates,     \* contents of its channel
  queue,       \* the request channel's one place
  active,      \* the enrollment client's active flag
  lease,       \* owner of the biometric resources, or 0
  wpc,         \* the worker thread's place in run and run_job
  wjob,        \* the operation the worker runs, or 0
  sent,        \* its progress updates
  result,      \* its outcome
  fault,       \* the error the worker's run returns, if any
  stored,      \* operations whose template was written
  announced,   \* number of terminal signals broadcast for each operation
  shutdown

manager == <<operation, issued, owner, account>>
bus == <<connected, departed, announced>>
calls == <<call, events>>
controller == <<cancelled, controlled, taken>>
channel == <<receiver, updates>>
resources == <<queue, active, lease>>
worker == <<wpc, wjob, sent, result, fault, stored>>
engine == <<channel, resources, worker>>
vars == <<manager, reply, clock, bus, calls, watcher, controller, relay,
          engine, shutdown>>

Ids == 1..MaxOperations

IdleCall == [step |-> "idle", id |-> 0]
Call(step, o) == [step |-> step, id |-> o]
Watching == [step |-> "watch", id |-> 0]
IdleRelay == [step |-> "idle", id |-> 0, update |-> NoReply]

Progressing == "Progress"

\* The bound on interruptions.
Interrupts == events < MaxEvents /\ events' = events + 1

\* The coordinator is not called in this step.
Uncalled == UNCHANGED manager /\ reply' = NoReply

Init ==
  /\ CoordinatorInit
  /\ clock = 0
  /\ owner = NoOwner
  /\ account = [o \in Ids |-> NoOwner]
  /\ connected = Senders
  /\ departed = {}
  /\ call = [s \in Senders |-> IdleCall]
  /\ events = 0
  /\ watcher = Watching
  /\ cancelled = {}
  /\ controlled = 0
  /\ taken = FALSE
  /\ relay = IdleRelay
  /\ receiver = 0
  /\ updates = <<>>
  /\ queue = 0
  /\ active = FALSE
  /\ lease = 0
  /\ wpc = "check"
  /\ wjob = 0
  /\ sent = 0
  /\ result = "none"
  /\ fault = "none"
  /\ stored = {}
  /\ announced = [o \in Ids |-> 0]
  /\ shutdown = FALSE

-------------------------------------------------------------------------------
(***************************************************************************)
(* Shared pieces.                                                          *)
(***************************************************************************)

\* The last coordinator call consumed the operation.
Consumed == reply'.kind = "Completed"

\* clear_owner_if_terminal.
ClearOwnerIfTerminal ==
  /\ owner' = IF Consumed THEN NoOwner ELSE owner
  /\ UNCHANGED account

\* Sender s owns the operation in the slot.
Owns(s) == owner # NoOwner /\ owner.sender = s

\* EnrollmentControllerBridge::cancel finds the operation.
Controls(o) == controlled = o

\* A terminal signal for operation o.
Announce(o) == announced' = [announced EXCEPT ![o] = @ + 1]

\* Sender s's call goes on at another step, or returns.
Step(s, step, o) == call' = [call EXCEPT ![s] = Call(step, o)]
Returns(s) == call' = [call EXCEPT ![s] = IdleCall]

\* Manager1 is exported while its service runs.
Exported == watcher.step \notin {"failed", "stopped"}

-------------------------------------------------------------------------------
(***************************************************************************)
(* Manager1.BeginEnrollment.                                               *)
(***************************************************************************)

\* require_target, then PolicyKit is asked; the user may take any time.
BeginEnrollment(s) ==
  /\ Exported
  /\ s \in connected
  /\ call[s] = IdleCall
  /\ issued < MaxOperations
  /\ Step(s, "authorize", 0)
  /\ Uncalled
  /\ UNCHANGED <<events, clock, bus, watcher, controller, relay, engine,
                 shutdown>>

AuthorizationDenied(s) ==
  /\ call[s].step = "authorize"
  /\ Returns(s)
  /\ Uncalled
  /\ UNCHANGED <<events, clock, bus, watcher, controller, relay, engine,
                 shutdown>>

\* Authorized: the operation and its owner are recorded under one lock.
StartOperation(s) ==
  /\ call[s].step = "authorize"
  /\ issued < MaxOperations
  /\ Start(UidOf[s], clock)
  /\ \/ /\ reply'.kind = "Progress"
        /\ owner' = [sender |-> s, uid |-> UidOf[s], id |-> reply'.id]
        /\ account' = [account EXCEPT ![reply'.id] = UidOf[s]]
        /\ Step(s, "submit", reply'.id)
     \/ /\ reply'.kind = "Error"
        /\ UNCHANGED <<owner, account>>
        /\ Returns(s)
  /\ UNCHANGED <<events, clock, bus, watcher, controller, relay, engine,
                 shutdown>>

WorkerGone == wpc \in {"stopped", "failed"}

\* EnrollmentControllerBridge::start, under the controller's lock: nothing
\* else changes between the lease, the active flag and the request.
Submits(o) ==
  /\ controlled = 0
  /\ lease = 0
  /\ ~active
  /\ ~WorkerGone
  /\ queue = 0
  /\ lease' = o
  /\ active' = TRUE
  /\ queue' = o
  /\ receiver' = o
  /\ updates' = <<>>
  /\ controlled' = o
  /\ taken' = FALSE

CannotSubmit ==
  controlled # 0 \/ lease # 0 \/ active \/ WorkerGone \/ queue # 0

SubmitEnrollment(s) ==
  /\ call[s].step = "submit"
  /\ \/ Submits(call[s].id) /\ Step(s, "announce", call[s].id)
     \/ /\ CannotSubmit
        /\ Step(s, "rollback", call[s].id)
        /\ UNCHANGED <<controlled, taken, channel, resources>>
  /\ Uncalled
  /\ UNCHANGED <<events, clock, bus, watcher, cancelled, relay, worker,
                 shutdown>>

\* The controller refused: the operation is withdrawn, whatever the
\* coordinator answers, and the owner is cleared.
RollBack(s) ==
  /\ call[s].step = "rollback"
  /\ Cancel(UidOf[s], call[s].id, clock)
  /\ owner' = NoOwner
  /\ UNCHANGED account
  /\ Returns(s)
  /\ UNCHANGED <<events, clock, bus, watcher, controller, relay, engine,
                 shutdown>>

\* The initial progress signal is emitted, and the method returns.
AnnounceOperation(s) ==
  /\ call[s].step = "announce"
  /\ Returns(s)
  /\ Uncalled
  /\ UNCHANGED <<events, clock, bus, watcher, controller, relay, engine,
                 shutdown>>

\* The signal cannot be sent: cancel_disconnected_sender, its result ignored.
AnnounceFails(s) ==
  /\ call[s].step = "announce"
  /\ \/ Owns(s) /\ Step(s, "withdraw", owner.id)
     \/ ~Owns(s) /\ Returns(s)
  /\ Interrupts
  /\ Uncalled
  /\ UNCHANGED <<clock, bus, watcher, controller, relay, engine,
                 shutdown>>

WithdrawFromWorker(s) ==
  /\ call[s].step = "withdraw"
  /\ \/ /\ Controls(call[s].id)
        /\ cancelled' = cancelled \cup {call[s].id}
        /\ Step(s, "withdraw-slot", call[s].id)
     \/ /\ ~Controls(call[s].id)
        /\ Returns(s)
        /\ UNCHANGED cancelled
  /\ Uncalled
  /\ UNCHANGED <<events, clock, bus, watcher, controlled, taken, relay,
                 engine, shutdown>>

WithdrawFromSlot(s) ==
  /\ call[s].step = "withdraw-slot"
  /\ Cancel(UidOf[s], call[s].id, clock)
  /\ ClearOwnerIfTerminal
  /\ Returns(s)
  /\ UNCHANGED <<events, clock, bus, watcher, controller, relay, engine,
                 shutdown>>

-------------------------------------------------------------------------------
(***************************************************************************)
(* Manager1.CancelEnrollment.  Identifiers are broadcast with every signal,*)
(* so any sender may name any operation.                                   *)
(***************************************************************************)

\* require_target; the controller is told before the owner is looked at.
CancelEnrollment(s, o) ==
  /\ Exported
  /\ s \in connected
  /\ call[s] = IdleCall
  /\ o \in 1..issued
  /\ Controls(o)
  /\ cancelled' = cancelled \cup {o}
  /\ Step(s, "cancel", o)
  /\ Interrupts
  /\ Uncalled
  /\ UNCHANGED <<clock, bus, watcher, controlled, taken, relay, engine,
                 shutdown>>

\* The owner is looked at, and the operation consumed, under the lock.
ConsumeCancelled(s) ==
  /\ call[s].step = "cancel"
  /\ \/ /\ ~Owns(s)
        /\ Returns(s)
        /\ Uncalled
     \/ /\ Owns(s)
        /\ Cancel(UidOf[s], call[s].id, clock)
        /\ ClearOwnerIfTerminal
        /\ IF Consumed THEN Step(s, "signal", reply'.id) ELSE Returns(s)
  /\ UNCHANGED <<events, clock, bus, watcher, controller, relay, engine,
                 shutdown>>

\* The terminal signal of a cancelled operation.
SignalCancelled(s) ==
  /\ call[s].step = "signal"
  /\ Announce(call[s].id)
  /\ Returns(s)
  /\ Uncalled
  /\ UNCHANGED <<events, clock, connected, departed, watcher, controller,
                 relay, engine, shutdown>>

-------------------------------------------------------------------------------
(***************************************************************************)
(* Senders leaving the bus, and the watcher.                               *)
(***************************************************************************)

Disconnect(s) ==
  /\ s \in connected
  /\ connected' = connected \ {s}
  /\ departed' = departed \cup {s}
  /\ Interrupts
  /\ Uncalled
  /\ UNCHANGED <<clock, announced, call, watcher, controller, relay, engine,
                 shutdown>>

\* cancel_sender reads the owner and releases the lock.
WatcherTakes(s) ==
  /\ watcher.step = "watch"
  /\ s \in departed
  /\ departed' = departed \ {s}
  /\ watcher' = IF Owns(s)
                THEN [watcher EXCEPT !.step = "cancel", !.id = owner.id]
                ELSE watcher
  /\ Uncalled
  /\ UNCHANGED <<clock, connected, announced, calls, controller, relay, engine,
                 shutdown>>

WatcherFails == watcher' = [watcher EXCEPT !.step = "failed"]

WatcherCancelsWorker ==
  /\ watcher.step = "cancel"
  /\ \/ /\ Controls(watcher.id)
        /\ cancelled' = cancelled \cup {watcher.id}
        /\ watcher' = [watcher EXCEPT !.step = "consume"]
     \/ /\ ~Controls(watcher.id)
        /\ WatcherFails
        /\ UNCHANGED cancelled
  /\ Uncalled
  /\ UNCHANGED <<clock, bus, calls, controlled, taken, relay, engine,
                 shutdown>>

WatcherConsumes ==
  /\ watcher.step = "consume"
  /\ Cancel(account[watcher.id], watcher.id, clock)
  /\ ClearOwnerIfTerminal
  /\ IF Consumed
     THEN watcher' = [watcher EXCEPT !.step = "signal"]
     ELSE WatcherFails
  /\ UNCHANGED <<clock, bus, calls, controller, relay, engine, shutdown>>

WatcherSignals ==
  /\ watcher.step = "signal"
  /\ Announce(watcher.id)
  /\ watcher' = Watching
  /\ Uncalled
  /\ UNCHANGED <<clock, connected, departed, calls, controller, relay, engine,
                 shutdown>>

\* The signal cannot be sent: the watcher of disconnects gives up.
WatcherCannotSignal ==
  /\ watcher.step = "signal"
  /\ WatcherFails
  /\ Interrupts
  /\ Uncalled
  /\ UNCHANGED <<clock, bus, call, controller, relay, engine, shutdown>>

\* The shutdown future resolves between two owner changes.
WatcherStops ==
  /\ watcher.step = "watch"
  /\ shutdown
  /\ watcher' = [watcher EXCEPT !.step = "stopped"]
  /\ Uncalled
  /\ UNCHANGED <<clock, bus, calls, controller, relay, engine, shutdown>>

-------------------------------------------------------------------------------
(***************************************************************************)
(* The relay thread.                                                       *)
(***************************************************************************)

\* The daemon coordinator takes the handle of a submitted operation.
TakeHandle ==
  /\ relay = IdleRelay
  /\ controlled # 0
  /\ ~taken
  /\ taken' = TRUE
  /\ relay' = [IdleRelay EXCEPT !.step = "recv", !.id = controlled]
  /\ Uncalled
  /\ UNCHANGED <<clock, bus, calls, watcher, cancelled, controlled, engine,
                 shutdown>>

\* relay returns and drops the handle.
RelayReturns ==
  /\ relay' = IdleRelay
  /\ receiver' = 0
  /\ updates' = <<>>

\* A terminal update that finds no operation is announced all the same.
SlipRelayFollows ==
  \/ /\ reply'.kind # "Error"
     /\ relay' = [relay EXCEPT !.step = "emit", !.update = reply']
     /\ updates' = Tail(updates)
     /\ UNCHANGED receiver
  \/ /\ reply' = Failed("NoActiveOperation")
     /\ relay' = [relay EXCEPT !.step = "emit",
                               !.update = Completed(relay.id, "Failed")]
     /\ updates' = Tail(updates)
     /\ UNCHANGED receiver
  \/ /\ reply'.kind = "Error"
     /\ reply' # Failed("NoActiveOperation")
     /\ RelayReturns

\* What the coordinator's answer makes of the relay.  An error other than a
\* missing operation is returned at once, without finish.
RelayFollows ==
  \/ /\ reply'.kind # "Error"
     /\ relay' = [relay EXCEPT !.step = "emit", !.update = reply']
     /\ updates' = Tail(updates)
     /\ UNCHANGED receiver
  \/ /\ reply' = Failed("NoActiveOperation")
     /\ relay' = [relay EXCEPT !.step = "finish"]
     /\ updates' = Tail(updates)
     /\ UNCHANGED receiver
  \/ /\ reply'.kind = "Error"
     /\ reply' # Failed("NoActiveOperation")
     /\ RelayReturns

RelayProgress ==
  /\ relay.step = "recv"
  /\ updates # <<>>
  /\ Head(updates) = Progressing
  /\ Progress(account[relay.id], relay.id, clock)
  /\ ClearOwnerIfTerminal
  /\ RelayFollows
  /\ UNCHANGED <<clock, bus, calls, watcher, controller, resources, worker,
                 shutdown>>

\* What the relay reports for a worker's outcome.
PublicResult(r) == IF r \in {"Completed", "Cancelled"} THEN r ELSE "Failed"

RelayCompletion ==
  /\ relay.step = "recv"
  /\ updates # <<>>
  /\ Head(updates) # Progressing
  /\ Complete(account[relay.id], relay.id, PublicResult(Head(updates)), clock)
  /\ ClearOwnerIfTerminal
  /\ RelayFollows
  /\ UNCHANGED <<clock, bus, calls, watcher, controller, resources, worker,
                 shutdown>>

\* The worker is gone and sent no terminal update.
RelayLosesChannel ==
  /\ relay.step = "recv"
  /\ updates = <<>>
  /\ queue # relay.id
  /\ wjob # relay.id
  /\ RelayReturns
  /\ Uncalled
  /\ UNCHANGED <<clock, bus, calls, watcher, controller, resources, worker,
                 shutdown>>

RelayEmits ==
  /\ relay.step = "emit"
  /\ \/ /\ relay.update.kind = "Progress"
        /\ relay' = [relay EXCEPT !.step = "recv", !.update = NoReply]
        /\ UNCHANGED announced
     \/ /\ relay.update.kind = "Completed"
        /\ Announce(relay.id)
        /\ relay' = [relay EXCEPT !.step = "finish"]
  /\ Uncalled
  /\ UNCHANGED <<clock, connected, departed, calls, watcher, controller,
                 engine, shutdown>>

\* The signal sink fails.
RelayCannotEmit ==
  /\ relay.step = "emit"
  /\ RelayReturns
  /\ Interrupts
  /\ Uncalled
  /\ UNCHANGED <<clock, bus, call, watcher, controller, resources, worker,
                 shutdown>>

\* finish, and relay returns.
RelayFinishes ==
  /\ relay.step = "finish"
  /\ controlled' = IF Controls(relay.id) THEN 0 ELSE controlled
  /\ taken' = IF Controls(relay.id) THEN FALSE ELSE taken
  /\ RelayReturns
  /\ Uncalled
  /\ UNCHANGED <<clock, bus, calls, watcher, cancelled, resources, worker,
                 shutdown>>

\* ManagementWorkerHandle::expire, called by the daemon coordinator, which
\* then broadcasts the update.
ReapExpired ==
  /\ operation # Idle
  /\ Expire(clock)
  /\ ClearOwnerIfTerminal
  /\ \/ Consumed /\ Announce(reply'.id)
     \/ ~Consumed /\ UNCHANGED announced
  /\ UNCHANGED <<clock, connected, departed, calls, watcher, controller, relay,
                 engine, shutdown>>

-------------------------------------------------------------------------------
(***************************************************************************)
(* The enrollment worker thread.                                           *)
(***************************************************************************)

\* EnrollmentJob::is_cancelled.
JobCancelled == wjob \in cancelled \/ shutdown

WorkerChecks ==
  /\ wpc = "check"
  /\ ~shutdown
  /\ wpc' = "recv"
  /\ Uncalled
  /\ UNCHANGED <<clock, bus, calls, watcher, controller, relay, channel,
                 resources, wjob, sent, result, fault, stored, shutdown>>

WaitTimeout ==
  /\ wpc = "recv"
  /\ queue = 0
  /\ wpc' = "check"
  /\ Uncalled
  /\ UNCHANGED <<clock, bus, calls, watcher, controller, relay, channel,
                 resources, wjob, sent, result, fault, stored, shutdown>>

TakeRequest ==
  /\ wpc = "recv"
  /\ queue # 0
  /\ wjob' = queue
  /\ queue' = 0
  /\ wpc' = "start"
  /\ Uncalled
  /\ UNCHANGED <<clock, bus, calls, watcher, controller, relay, channel,
                 active, lease, sent, result, fault, stored, shutdown>>

\* run returns, with or without the error of run_job.  A request still queued
\* is dropped with the receiver, and its lease with it.
WorkerStops ==
  /\ \/ wpc = "check" /\ shutdown /\ wpc' = "stopped"
     \/ wpc = "failing" /\ wpc' = "failed"
  /\ queue' = 0
  /\ lease' = IF queue # 0 THEN 0 ELSE lease
  /\ Uncalled
  /\ UNCHANGED <<clock, bus, calls, watcher, controller, relay, channel,
                 active, wjob, sent, result, fault, stored, shutdown>>

BeginJob ==
  /\ wpc = "start"
  /\ \/ JobCancelled /\ result' = "Cancelled" /\ wpc' = "report"
     \/ ~JobCancelled /\ wpc' = "work" /\ UNCHANGED result
  /\ Uncalled
  /\ UNCHANGED <<clock, bus, calls, watcher, controller, relay, channel,
                 resources, wjob, sent, fault, stored, shutdown>>

\* The progress callback, and enroll's return when it fails.
ReportProgress ==
  /\ wpc = "work"
  /\ \/ /\ JobCancelled \/ sent >= MaxProgress \/ receiver # wjob
        /\ result' = IF JobCancelled THEN "Cancelled" ELSE "Failed"
        /\ wpc' = "report"
        /\ UNCHANGED <<updates, sent>>
     \/ /\ ~JobCancelled
        /\ sent < MaxProgress
        /\ receiver = wjob
        /\ updates' = Append(updates, Progressing)
        /\ sent' = sent + 1
        /\ UNCHANGED <<wpc, result>>
  /\ Uncalled
  /\ UNCHANGED <<clock, bus, calls, watcher, controller, relay, receiver,
                 resources, wjob, fault, stored, shutdown>>

\* enroll returns an error, or a record: the cancellation is looked at once
\* more before the record is saved.
FinishEnroll ==
  /\ wpc = "work"
  /\ \/ /\ result' = "Failed"
        /\ wpc' = "report"
     \/ /\ JobCancelled
        /\ result' = "Cancelled"
        /\ wpc' = "report"
     \/ /\ ~JobCancelled
        /\ wpc' = "save"
        /\ UNCHANGED result
  /\ Uncalled
  /\ UNCHANGED <<clock, bus, calls, watcher, controller, relay, channel,
                 resources, wjob, sent, fault, stored, shutdown>>

\* Success is reported whether or not the template reached the disk.
SlipSaveTemplate ==
  /\ wpc = "save"
  /\ wpc' = "report"
  /\ result' = "Completed"
  /\ \/ stored' = stored \cup {wjob}
     \/ UNCHANGED stored
  /\ Uncalled
  /\ UNCHANGED <<clock, bus, calls, watcher, controller, relay, channel,
                 resources, wjob, sent, fault, shutdown>>

\* save_template.  A failure after the rename leaves the new template.
SaveTemplate ==
  /\ wpc = "save"
  /\ wpc' = "report"
  /\ \/ result' = "Completed" /\ stored' = stored \cup {wjob}
     \/ result' = "Storage" /\ stored' \in {stored, stored \cup {wjob}}
  /\ Uncalled
  /\ UNCHANGED <<clock, bus, calls, watcher, controller, relay, channel,
                 resources, wjob, sent, fault, shutdown>>

ReportResult ==
  /\ wpc = "report"
  /\ updates' = IF receiver = wjob THEN Append(updates, result) ELSE updates
  /\ fault' = IF receiver = wjob THEN fault ELSE "ResultReceiverClosed"
  /\ wpc' = "release"
  /\ Uncalled
  /\ UNCHANGED <<clock, bus, calls, watcher, controller, relay, receiver,
                 resources, wjob, sent, result, stored, shutdown>>

\* The lease outlives the request.
SlipDropRequest ==
  /\ wpc = "release"
  /\ active' = FALSE
  /\ wjob' = 0
  /\ sent' = 0
  /\ result' = "none"
  /\ wpc' = IF fault = "none" THEN "check" ELSE "failing"
  /\ Uncalled
  /\ UNCHANGED <<clock, bus, calls, watcher, controller, relay, channel, queue,
                 lease, fault, stored, shutdown>>

\* run_job clears the active flag and returns, which drops the request with
\* its lease.  The lease is what a submission meets first.
DropRequest ==
  /\ wpc = "release"
  /\ active' = FALSE
  /\ lease' = 0
  /\ wjob' = 0
  /\ sent' = 0
  /\ result' = "none"
  /\ wpc' = IF fault = "none" THEN "check" ELSE "failing"
  /\ Uncalled
  /\ UNCHANGED <<clock, bus, calls, watcher, controller, relay, channel, queue,
                 fault, stored, shutdown>>

-------------------------------------------------------------------------------
(***************************************************************************)
(* The rest of the daemon.                                                 *)
(***************************************************************************)

\* An authentication does not wait for the lease.
SlipAuthenticationTakes ==
  /\ lease # Authentication
  /\ lease' = Authentication
  /\ Interrupts
  /\ Uncalled
  /\ UNCHANGED <<clock, bus, call, watcher, controller, relay, channel, queue,
                 active, worker, shutdown>>

\* An authentication takes the camera and the models, and returns them.
AuthenticationTakes ==
  /\ lease = 0
  /\ lease' = Authentication
  /\ Interrupts
  /\ Uncalled
  /\ UNCHANGED <<clock, bus, call, watcher, controller, relay, channel, queue,
                 active, worker, shutdown>>

AuthenticationReturns ==
  /\ lease = Authentication
  /\ lease' = 0
  /\ Uncalled
  /\ UNCHANGED <<clock, bus, calls, watcher, controller, relay, channel, queue,
                 active, worker, shutdown>>

Tick ==
  /\ clock < ClockMax
  /\ clock' = clock + 1
  /\ Uncalled
  /\ UNCHANGED <<bus, calls, watcher, controller, relay, engine, shutdown>>

\* From outside, or because a service returned.
RequestShutdown ==
  /\ ~shutdown
  /\ shutdown' = TRUE
  /\ Interrupts
  /\ Uncalled
  /\ UNCHANGED <<clock, bus, call, watcher, controller, relay, engine>>

CallStep(s) ==
  \/ SubmitEnrollment(s)
  \/ RollBack(s)
  \/ AnnounceOperation(s)
  \/ AnnounceFails(s)
  \/ WithdrawFromWorker(s)
  \/ WithdrawFromSlot(s)
  \/ ConsumeCancelled(s)
  \/ SignalCancelled(s)

\* What waits for a person: calls, PolicyKit's answer, leaving.
SenderStep(s) ==
  \/ BeginEnrollment(s)
  \/ AuthorizationDenied(s)
  \/ StartOperation(s)
  \/ \E o \in Ids : CancelEnrollment(s, o)
  \/ Disconnect(s)

WatcherStep ==
  \/ \E s \in Senders : WatcherTakes(s)
  \/ WatcherCancelsWorker
  \/ WatcherConsumes
  \/ WatcherSignals
  \/ WatcherCannotSignal
  \/ WatcherStops

RelayStep ==
  \/ TakeHandle
  \/ RelayProgress
  \/ RelayCompletion
  \/ RelayLosesChannel
  \/ RelayEmits
  \/ RelayCannotEmit
  \/ RelayFinishes

WorkerStep ==
  \/ WorkerChecks
  \/ WaitTimeout
  \/ TakeRequest
  \/ WorkerStops
  \/ BeginJob
  \/ ReportProgress
  \/ FinishEnroll
  \/ SaveTemplate
  \/ ReportResult
  \/ DropRequest

Next ==
  \/ \E s \in Senders : CallStep(s) \/ SenderStep(s)
  \/ WatcherStep
  \/ RelayStep
  \/ ReapExpired
  \/ WorkerStep
  \/ AuthenticationTakes
  \/ AuthenticationReturns
  \/ Tick
  \/ RequestShutdown

Spec == Init /\ [][Next]_vars

\* The executor runs the tasks that can run, the threads keep running, enroll
\* returns (its attempts are bounded).  No fairness of senders, of PolicyKit, of
\* the clock, or of ReapExpired: nothing in the repository calls expire.
Fairness ==
  /\ \A s \in Senders : WF_vars(CallStep(s))
  /\ WF_vars(WatcherStep)
  /\ WF_vars(RelayStep)
  /\ WF_vars(WorkerStep)
  /\ WF_vars(AuthenticationReturns)

FairSpec == Spec /\ Fairness

-------------------------------------------------------------------------------
(***************************************************************************)
(* Properties.                                                             *)
(***************************************************************************)

\* The values of the variables.
TypeOK ==
  /\ operation = Idle \/ /\ operation.id \in 1..issued
                         /\ operation.uid \in Uids
                         /\ operation.deadline \in 0..ClockMax
  /\ issued \in 0..MaxOperations
  /\ owner = NoOwner \/ owner.sender \in Senders
  /\ \A s \in Senders : call[s].id \in 0..MaxOperations
  /\ cancelled \subseteq Ids
  /\ controlled \in 0..MaxOperations
  /\ updates \in Seq({Progressing, "Completed", "Cancelled", "Failed", "Storage"})
  /\ lease \in 0..MaxOperations \cup {Authentication}
  /\ wjob \in 0..MaxOperations
  /\ stored \subseteq Ids

\* Clients learn at most one terminal result of an operation, whoever consumes
\* it: its owner, the watcher, the relay or the deadline.  They learn it only
\* after the slot let go of the operation.
OneTerminalSignal ==
  /\ \A o \in Ids : announced[o] <= 1
  /\ operation # Idle => announced[operation.id] = 0

\* Nothing is announced as enrolled unless its template was written.
EnrolledIsStored ==
  \A o \in Ids : relay.update = Completed(o, "Completed") => o \in stored

\* The lease covers an enrollment from its submission to the end of run_job,
\* so authentication and enrollment never hold the cameras together, and the
\* worker never has a job that the lease does not name.
EnrollmentHoldsLease ==
  /\ queue # 0 => lease = queue /\ active /\ wjob = 0
  /\ wjob # 0 => lease = wjob /\ queue = 0
  /\ lease \in Ids => lease \in {queue, wjob}

\* The holder of the biometric lease gives it back, whatever happens to its
\* job, its relay and its client.
LeaseReturns == \A o \in Ids : lease = o ~> lease # o

\* A submitted operation gets a public result, unless its relay gave up.
OperationIsDecided ==
  \A o \in Ids :
    (operation # Idle /\ controlled = o) ~>
      \/ operation = Idle \/ operation.id # o
      \/ taken /\ relay.id # o

(***************************************************************************)
(* What the documentation says and the code does not do.                   *)
(***************************************************************************)

\* The relay handles an update of the worker in this step.
Hears(update) ==
  relay.step = "recv" /\ updates # <<>> /\ Head(updates) = update
    /\ updates' # updates

\* docs/enrollment.md: "Worker failures collapse to failed; cancellation maps
\* to cancelled".  The relay passes the worker's cancellation to complete,
\* which refuses it as a reserved result.
CancellationMaps ==
  [][Hears("Cancelled") /\ operation # Idle =>
       reply' \in {Completed(relay.id, "Cancelled"), Completed(relay.id, "TimedOut")}]_vars

\* docs/enrollment.md: "If the public operation was already consumed by a
\* client cancellation, a late worker terminal performs private cleanup only".
\* The reserved result is refused before the missing operation is noticed, and
\* the relay returns without finish: the controller is never free again.
LateTerminalCleansUp ==
  [][Hears("Cancelled") /\ operation = Idle => relay'.step = "finish"]_vars

\* docs/management.md: "another connection owned by the same UID cannot cancel
\* the operation".  The worker is cancelled before the sender is compared.
OnlyOwnerCancels ==
  [][\A s \in Senders, o \in Ids :
       call[s] = IdleCall /\ call'[s] = Call("cancel", o) /\ owner # NoOwner
       /\ owner.id = o /\ o \notin cancelled => owner.sender = s]_vars

\* The watcher has handled, or is handling, or will handle the end of sender s.
Watched(s) ==
  s \in connected \cup departed \/ watcher.step # "watch" \/ call[s] # IdleCall

\* docs/kde-ui.md: "the daemon's sender-disconnect watcher also cancels an
\* enrollment that is still waiting for authorization and has not returned an
\* operation ID yet".  The owner is recorded only after the authorization, and
\* by then the departure has been handled.
DepartedOwnsNothing == owner # NoOwner => Watched(owner.sender)

===============================================================================
