------------------------ MODULE EnrollmentControlProofs ------------------------
(***************************************************************************)
(* Proofs about EnrollmentControl, for any senders, accounts, durations,   *)
(* clock range and bounds: the lease follows the one request there is, a   *)
(* result is announced once whoever consumes the operation, and what is    *)
(* announced as enrolled was written.                                      *)
(***************************************************************************)
EXTENDS EnrollmentControl, TLAPS

CallSteps == {"idle", "authorize", "submit", "rollback", "announce",
              "withdraw", "withdraw-slot", "cancel", "signal"}
WatcherSteps == {"watch", "cancel", "consume", "signal", "failed", "stopped"}
RelaySteps == {"idle", "recv", "emit", "finish"}
InJob == {"start", "work", "save", "report", "release"}
Outcomes == {"Completed", "Cancelled", "Failed", "Storage"}
Messages == {Progressing} \cup Outcomes

\* What a relay may hold of the coordinator's answers.
Updates ==
  {NoReply} \cup {Progressed(o) : o \in Ids}
    \cup {Completed(o, r) : o \in Ids, r \in Results}

\* The types, by the part of the daemon that can disturb them.
SlotTypes ==
  /\ operation = Idle \/ /\ operation.id \in 1..issued
                         /\ operation.uid \in Uids
                         /\ operation.deadline \in 0..ClockMax
  /\ issued \in 0..MaxOperations
  /\ clock \in Nat

CallTypes ==
  /\ owner = NoOwner \/ owner.sender \in Senders
  /\ owner # NoOwner => owner.id \in Ids
  /\ call \in [Senders -> [step : CallSteps, id : 0..MaxOperations]]
  /\ \A s \in Senders : call[s].step \in {"submit", "withdraw"} => call[s].id # 0
  /\ watcher \in [step : WatcherSteps, id : 0..MaxOperations]
  /\ watcher.step = "cancel" => watcher.id # 0
  /\ cancelled \subseteq Ids
  /\ announced \in [Ids -> Nat]

ChannelTypes ==
  /\ controlled \in 0..MaxOperations
  /\ relay \in [step : RelaySteps, id : 0..MaxOperations, update : Updates]
  /\ relay.step # "idle" => relay.id # 0
  /\ receiver \in 0..MaxOperations
  /\ updates \in Seq(Messages)

WorkTypes ==
  /\ queue \in 0..MaxOperations
  /\ lease \in 0..MaxOperations \cup {Authentication}
  /\ wjob \in 0..MaxOperations
  /\ stored \subseteq Ids
  /\ wjob # 0 <=> wpc \in InJob
  /\ wpc = "report" => result \in Outcomes

TypeInv == SlotTypes /\ CallTypes /\ ChannelTypes /\ WorkTypes

\* The relay serves the operation that the controller has, and listens to its
\* channel; a handle that nobody took still has its channel.
RelayInv ==
  /\ relay.step # "idle" => relay.id = controlled /\ receiver = controlled /\ taken
  /\ relay.step = "idle" => relay = IdleRelay
  /\ controlled # 0 /\ ~taken => receiver = controlled

\* A success is the success of the operation it is told of: in the worker, in
\* the channel and in the relay.
StoredInv ==
  /\ result = "Completed" => wjob \in stored
  /\ \A i \in 1..Len(updates) : updates[i] = "Completed" => receiver \in stored
  /\ EnrolledIsStored

-------------------------------------------------------------------------------
(***************************************************************************)
(* Who is about to announce the result of operation o.                     *)
(***************************************************************************)

Live(o) == operation # Idle /\ operation.id = o

\* The operation is in the slot, or was not started yet.
Undecided(o) == Live(o) \/ o > issued

CallTells(s, o) == call[s].step = "signal" /\ call[s].id = o
WatcherTells(o) == watcher.step = "signal" /\ watcher.id = o
RelayTells(o) ==
  relay.step = "emit" /\ relay.update.kind = "Completed" /\ relay.id = o

\* At most one of them tells.
OneTeller(o) ==
  /\ \A s, t \in Senders : CallTells(s, o) /\ CallTells(t, o) => s = t
  /\ \A s \in Senders : CallTells(s, o) => ~WatcherTells(o) /\ ~RelayTells(o)
  /\ WatcherTells(o) => ~RelayTells(o)

NoTeller(o) ==
  /\ \A s \in Senders : ~CallTells(s, o)
  /\ ~WatcherTells(o)
  /\ ~RelayTells(o)

\* Whoever consumed the operation is its only teller, until it told.
ToldOnce(o) ==
  /\ announced[o] \in {0, 1}
  /\ OneTeller(o)
  /\ announced[o] = 1 => NoTeller(o)
  /\ Undecided(o) => announced[o] = 0 /\ NoTeller(o)

TellInv == \A o \in Ids : ToldOnce(o)

-------------------------------------------------------------------------------
(***************************************************************************)
(* The coordinator's methods.                                              *)
(***************************************************************************)

\* The call leaves the slot alone.
Keeps == UNCHANGED <<operation, issued>> /\ reply'.kind # "Completed"

\* The call takes operation o out of the slot, with the given result.
Consumes(o, r) ==
  Live(o) /\ operation' = Idle /\ UNCHANGED issued /\ reply' = Completed(o, r)

LEMMA RefusalKeeps ==
  ASSUME NEW e, Refuse(e)
  PROVE  Keeps /\ reply' = Failed(e) /\ reply'.kind = "Error"
BY DEF Refuse, Keeps, Failed

LEMMA UnboundKeeps ==
  ASSUME NEW u, NEW o, RefuseUnbound(u, o)
  PROVE  Keeps /\ reply'.kind = "Error"
BY RefusalKeeps DEF RefuseUnbound

LEMMA FinishConsumes ==
  ASSUME NEW u, NEW o, NEW r, NEW at, Bound(u, o), Finish(r, at)
  PROVE  \E x \in {r, "TimedOut"} : Consumes(o, x)
BY DEF Bound, Finish, TakeTerminal, Consumes, Live

LEMMA CancelKinds ==
  ASSUME NEW u, NEW o, NEW at, Cancel(u, o, at)
  PROVE  Keeps \/ \E r \in Results : Consumes(o, r)
BY UnboundKeeps, FinishConsumes DEF Cancel, Results, ReservedResults

LEMMA ProgressKinds ==
  ASSUME NEW u, NEW o, NEW at, Progress(u, o, at)
  PROVE  \/ Keeps /\ (reply'.kind = "Error" \/ reply' = Progressed(o))
         \/ Consumes(o, "TimedOut")
<1>1. CASE RefuseUnbound(u, o)
  BY <1>1, UnboundKeeps
<1>2. CASE Bound(u, o) /\ TakeTerminal("TimedOut")
  BY <1>2 DEF Bound, TakeTerminal, Consumes, Live
<1>3. CASE reply' = Progressed(o) /\ UNCHANGED <<operation, issued>>
  BY <1>3 DEF Keeps, Progressed
<1> QED
  BY <1>1, <1>2, <1>3 DEF Progress

LEMMA CompleteKinds ==
  ASSUME NEW u, NEW o, NEW r, NEW at, Complete(u, o, r, at)
  PROVE  \/ Keeps /\ reply'.kind = "Error"
         \/ \E x \in {r, "TimedOut"} : Consumes(o, x)
BY RefusalKeeps, UnboundKeeps, FinishConsumes DEF Complete

LEMMA StartKinds ==
  ASSUME TypeInv, NEW u \in Uids, Start(u, clock), issued < MaxOperations
  PROVE  \/ Keeps /\ reply'.kind = "Error"
         \/ /\ operation = Idle
            /\ issued' = issued + 1
            /\ reply' = Progressed(issued + 1) /\ reply'.kind = "Progress"
            /\ operation' # Idle
            /\ operation' = [id |-> issued + 1, uid |-> u, deadline |-> clock + Duration]
            /\ clock + Duration \in 0..ClockMax
<1>1. CASE \E e \in Errors : Refuse(e)
  BY <1>1, RefusalKeeps
<1>2. CASE /\ operation = Idle
           /\ clock + Duration <= ClockMax
           /\ operation' = [id |-> issued + 1, uid |-> u, deadline |-> clock + Duration]
           /\ issued' = issued + 1
           /\ reply' = Progressed(issued + 1)
  <2>1. clock + Duration \in 0..ClockMax /\ issued + 1 \in Nat \ {0}
    BY <1>2, ManagementAssumption, ControlAssumption DEF TypeInv, SlotTypes
  <2>2. operation' \in Operations
    BY <1>2, <2>1 DEF Operations
  <2> QED
    BY <1>2, <2>1, <2>2, ManagementAssumption DEF Progressed
<1> QED
  BY <1>1, <1>2 DEF Start, Errors

LEMMA ExpireKinds ==
  ASSUME NEW at, Expire(at)
  PROVE  Keeps \/ Consumes(operation.id, "TimedOut")
BY DEF Expire, TakeTerminal, Keeps, Consumes, Live, NoReply

\* An answer says what kind it is.
LEMMA AnswerKinds ==
  ASSUME NEW o, NEW r
  PROVE  /\ Completed(o, r).kind = "Completed"
         /\ Completed(o, r).id = o
         /\ Completed(o, r).result = r
         /\ Progressed(o).kind = "Progress"
         /\ Failed(r).kind = "Error"
         /\ NoReply.kind = "None"
BY DEF Completed, Progressed, Failed, NoReply

-------------------------------------------------------------------------------
(***************************************************************************)
(* Types.                                                                  *)
(***************************************************************************)

LEMMA EmptyChannel == <<>> \in Seq(Messages)
OBVIOUS

LEMMA TypeInit == Init => TypeInv
<1> SUFFICES ASSUME Init PROVE TypeInv
  OBVIOUS
<1>1. SlotTypes /\ CallTypes
  BY ControlAssumption DEF Init, CoordinatorInit, SlotTypes, CallTypes, IdleCall,
       Watching, CallSteps, WatcherSteps
<1>2. IdleRelay \in [step : RelaySteps, id : 0..MaxOperations, update : Updates]
  BY ControlAssumption DEF IdleRelay, RelaySteps, Updates
<1>3. ChannelTypes
  BY <1>2, ControlAssumption, EmptyChannel DEF Init, ChannelTypes, IdleRelay
<1>4. WorkTypes
  BY ControlAssumption DEF Init, WorkTypes, InJob
<1> QED
  BY <1>1, <1>3, <1>4 DEF TypeInv

\* The operation in the slot after a call that did not start one.
LEMMA SlotType ==
  ASSUME TypeInv, Keeps \/ \E o, r : Consumes(o, r)
  PROVE  /\ operation' = Idle \/ /\ operation'.id \in 1..issued'
                                 /\ operation'.uid \in Uids
                                 /\ operation'.deadline \in 0..ClockMax
         /\ issued' \in 0..MaxOperations
BY DEF TypeInv, SlotTypes, Keeps, Consumes

LEMMA UncalledKeeps == Uncalled => Keeps /\ UNCHANGED <<owner, account>>
BY DEF Uncalled, manager, Keeps, NoReply

LEMMA ClearKeepsOwner ==
  ASSUME TypeInv, ClearOwnerIfTerminal
  PROVE  /\ owner' = NoOwner \/ owner'.sender \in Senders
         /\ owner' # NoOwner => owner'.id \in Ids
BY DEF TypeInv, CallTypes, ClearOwnerIfTerminal

LEMMA TypesGiveTypeOK == TypeInv => TypeOK
<1>1. Messages = {Progressing, "Completed", "Cancelled", "Failed", "Storage"}
  BY DEF Messages, Outcomes
<1>2. call \in [Senders -> [step : CallSteps, id : 0..MaxOperations]]
        => \A s \in Senders : call[s].id \in 0..MaxOperations
  OBVIOUS
<1> QED
  BY <1>1, <1>2
     DEF TypeInv, TypeOK, SlotTypes, CallTypes, ChannelTypes, WorkTypes

\* A step that does not call the coordinator.
UncalledCall(s) ==
  \/ BeginEnrollment(s)
  \/ AuthorizationDenied(s)
  \/ SubmitEnrollment(s)
  \/ AnnounceOperation(s)
  \/ AnnounceFails(s)
  \/ WithdrawFromWorker(s)
  \/ \E o \in Ids : CancelEnrollment(s, o)
  \/ Disconnect(s)

UncalledWatcher ==
  \/ \E s \in Senders : WatcherTakes(s)
  \/ WatcherCancelsWorker
  \/ WatcherCannotSignal
  \/ WatcherStops

UncalledRelay ==
  \/ TakeHandle
  \/ RelayLosesChannel
  \/ RelayCannotEmit
  \/ RelayFinishes

Surroundings ==
  AuthenticationTakes \/ AuthenticationReturns \/ Tick \/ RequestShutdown

\* Announcements aside, the steps that leave the slot alone.
Silent ==
  \/ \E s \in Senders : UncalledCall(s)
  \/ UncalledWatcher
  \/ UncalledRelay
  \/ WorkerStep
  \/ Surroundings

\* The steps that a result passes through.
Telling ==
  \/ \E s \in Senders : SignalCancelled(s)
  \/ WatcherSignals
  \/ RelayEmits

\* The steps that call the coordinator.
Calling ==
  \/ \E s \in Senders : \/ StartOperation(s)
                        \/ RollBack(s)
                        \/ WithdrawFromSlot(s)
                        \/ ConsumeCancelled(s)
  \/ WatcherConsumes
  \/ RelayProgress
  \/ RelayCompletion
  \/ ReapExpired

LEMMA StepGroups == [Next]_vars => Silent \/ Telling \/ Calling \/ UNCHANGED vars
BY DEF Next, CallStep, SenderStep, WatcherStep, RelayStep, Silent, Telling, Calling,
       UncalledCall, UncalledWatcher, UncalledRelay, Surroundings

LEMMA WorkerUncalled ==
  ASSUME WorkerStep
  PROVE  Uncalled /\ UNCHANGED <<clock, bus, calls, watcher, controller, relay,
                                 receiver, shutdown>>
BY DEF WorkerStep, WorkerChecks, WaitTimeout, TakeRequest, WorkerStops, BeginJob,
       ReportProgress, FinishEnroll, SaveTemplate, ReportResult, DropRequest, channel

LEMMA SilentUncalled ==
  ASSUME Silent \/ Telling PROVE Uncalled /\ (clock' = clock \/ clock' = clock + 1)
<1>1. CASE \E s \in Senders : UncalledCall(s)
  BY <1>1 DEF UncalledCall, BeginEnrollment, AuthorizationDenied, SubmitEnrollment,
       AnnounceOperation, AnnounceFails, WithdrawFromWorker, CancelEnrollment, Disconnect
<1>2. CASE UncalledWatcher \/ UncalledRelay \/ Surroundings \/ Telling
  BY <1>2 DEF UncalledWatcher, WatcherTakes, WatcherCancelsWorker,
       WatcherCannotSignal, WatcherFails, WatcherStops,
       UncalledRelay, TakeHandle, RelayLosesChannel, RelayCannotEmit, RelayFinishes,
       Surroundings, AuthenticationTakes, AuthenticationReturns, Tick, RequestShutdown,
       Telling, SignalCancelled, WatcherSignals, RelayEmits
<1>3. CASE WorkerStep
  BY <1>3, WorkerUncalled
<1> QED
  BY <1>1, <1>2, <1>3 DEF Silent

\* What a coordinator call makes of the slot: it starts an operation, ends the
\* one it was bound to, or leaves it alone.
LEMMA CallingKinds ==
  ASSUME TypeInv, Calling
  PROVE  /\ UNCHANGED clock
         /\ \/ Keeps
            \/ \E o : \E r \in Results : Consumes(o, r)
            \/ \E s \in Senders : StartOperation(s)
<1>1. CASE \E s \in Senders : StartOperation(s)
  BY <1>1 DEF StartOperation
<1>2. ASSUME NEW s \in Senders, RollBack(s) \/ WithdrawFromSlot(s) \/ ConsumeCancelled(s)
      PROVE  /\ UNCHANGED clock
             /\ Uncalled \/ Cancel(UidOf[s], call[s].id, clock)
  BY <1>2 DEF RollBack, WithdrawFromSlot, ConsumeCancelled
<1>3. CASE WatcherConsumes
  BY <1>3, CancelKinds DEF WatcherConsumes
<1>4. CASE RelayProgress
  BY <1>4, ProgressKinds DEF RelayProgress, Results, ReservedResults
<1>5. CASE RelayCompletion
  <2>1. PublicResult(Head(updates)) \in Results /\ "TimedOut" \in Results
    BY DEF PublicResult, Results, WorkerResults, ReservedResults
  <2> QED BY <1>5, <2>1, CompleteKinds DEF RelayCompletion
<1>6. CASE ReapExpired
  BY <1>6, ExpireKinds DEF ReapExpired, Results, ReservedResults
<1> QED
  BY <1>1, <1>2, <1>3, <1>4, <1>5, <1>6, CancelKinds, UncalledKeeps DEF Calling

\* How a step starts an operation.
LEMMA StartStep ==
  ASSUME TypeInv, NEW s \in Senders, StartOperation(s)
  PROVE  \/ Keeps /\ Returns(s) /\ UNCHANGED owner
         \/ /\ operation = Idle
            /\ issued' = issued + 1 /\ issued' \in Ids
            /\ operation' # Idle /\ operation'.id = issued'
            /\ operation'.uid \in Uids
            /\ operation'.deadline \in 0..ClockMax
            /\ Step(s, "submit", issued')
            /\ owner' = [sender |-> s, uid |-> UidOf[s], id |-> issued']
<1>1. UidOf[s] \in Uids /\ issued < MaxOperations /\ Start(UidOf[s], clock)
  BY ControlAssumption DEF StartOperation
<1>2. CASE Keeps /\ reply'.kind = "Error"
  BY <1>2 DEF StartOperation
<1>3. CASE /\ operation = Idle
           /\ issued' = issued + 1
           /\ reply' = Progressed(issued + 1) /\ reply'.kind = "Progress"
           /\ operation' # Idle
           /\ operation' = [id |-> issued + 1, uid |-> UidOf[s], deadline |-> clock + Duration]
           /\ clock + Duration \in 0..ClockMax
  <2>1. reply'.id = issued + 1
    BY <1>3 DEF Progressed
  <2>2. issued + 1 \in Ids
    BY <1>1, ControlAssumption DEF TypeInv, SlotTypes, Ids
  <2> QED
    BY <1>1, <1>3, <2>1, <2>2 DEF StartOperation
<1> QED
  BY <1>1, <1>2, <1>3, StartKinds

LEMMA SlotNext == ASSUME TypeInv, [Next]_vars PROVE SlotTypes'
<1>1. CASE Silent \/ Telling
  BY <1>1, SilentUncalled, UncalledKeeps, SlotType DEF TypeInv, SlotTypes
<1>2. CASE \E s \in Senders : StartOperation(s)
  <2>1. PICK s \in Senders : StartOperation(s)
    BY <1>2
  <2>2. UNCHANGED clock
    BY <2>1 DEF StartOperation
  <2> QED
    BY <2>1, <2>2, StartStep, SlotType, ControlAssumption DEF TypeInv, SlotTypes, Ids
<1>3. CASE Calling
  BY <1>2, <1>3, CallingKinds, SlotType DEF TypeInv, SlotTypes
<1>4. CASE UNCHANGED vars
  BY <1>4 DEF vars, manager, TypeInv, SlotTypes
<1> QED
  BY <1>1, <1>3, <1>4, StepGroups

\* A method call that moves to a typed step keeps its types.
LEMMA CallMoves ==
  ASSUME TypeInv, NEW s \in Senders, NEW step \in CallSteps, NEW o \in 0..MaxOperations,
         Step(s, step, o), step \in {"submit", "withdraw"} => o # 0
  PROVE  /\ call' \in [Senders -> [step : CallSteps, id : 0..MaxOperations]]
         /\ \A t \in Senders : call'[t].step \in {"submit", "withdraw"} => call'[t].id # 0
BY DEF Step, Call, TypeInv, CallTypes

LEMMA CallReturns ==
  ASSUME TypeInv, NEW s \in Senders, Returns(s)
  PROVE  /\ call' \in [Senders -> [step : CallSteps, id : 0..MaxOperations]]
         /\ \A t \in Senders : call'[t].step \in {"submit", "withdraw"} => call'[t].id # 0
<1>1. MaxOperations \in Nat
  BY ControlAssumption
<1> QED
  BY <1>1 DEF Returns, IdleCall, TypeInv, CallTypes, CallSteps

LEMMA AnnounceType ==
  ASSUME TypeInv, NEW o, Announce(o) PROVE announced' \in [Ids -> Nat]
<1>1. announced \in [Ids -> Nat]
  BY DEF TypeInv, CallTypes
<1>2. \A p \in Ids : announced[p] + 1 \in Nat
  BY <1>1
<1> QED
  BY <1>1, <1>2 DEF Announce

LEMMA SilentCallTypes == ASSUME TypeInv, Silent PROVE CallTypes'
<1> USE DEF manager, bus, calls, controller
<1>1. /\ owner' = NoOwner \/ owner'.sender \in Senders
      /\ owner' # NoOwner => owner'.id \in Ids
  BY SilentUncalled, UncalledKeeps DEF TypeInv, CallTypes
<1>2. CASE \E s \in Senders : UncalledCall(s)
  <2>1. PICK s \in Senders : UncalledCall(s)
    BY <1>2
  <2>2. call[s].id \in 0..MaxOperations /\ 0 \in 0..MaxOperations
    BY ControlAssumption DEF TypeInv, CallTypes
  <2>3. Owns(s) => owner.id \in Ids /\ owner.id \in 0..MaxOperations /\ owner.id # 0
    BY ControlAssumption DEF Owns, TypeInv, CallTypes, Ids
  <2>4. CASE BeginEnrollment(s)
    BY <1>1, <2>2, <2>4, CallMoves DEF BeginEnrollment, TypeInv, CallTypes, CallSteps
  <2>5. CASE AuthorizationDenied(s) \/ AnnounceOperation(s)
    BY <1>1, <2>5, CallReturns DEF AuthorizationDenied, AnnounceOperation, TypeInv, CallTypes
  <2>6. CASE SubmitEnrollment(s)
    <3>1. Step(s, "announce", call[s].id) \/ Step(s, "rollback", call[s].id)
      BY <2>6 DEF SubmitEnrollment
    <3> QED
      BY <1>1, <2>2, <2>6, <3>1, CallMoves
         DEF SubmitEnrollment, TypeInv, CallTypes, CallSteps
  <2>7. CASE AnnounceFails(s)
    <3>1. (Owns(s) /\ Step(s, "withdraw", owner.id)) \/ Returns(s)
      BY <2>7 DEF AnnounceFails
    <3> QED
      BY <1>1, <2>3, <2>7, <3>1, CallMoves, CallReturns
         DEF AnnounceFails, TypeInv, CallTypes, CallSteps
  <2>8. CASE WithdrawFromWorker(s)
    <3>1. call[s].id \in Ids
      BY <2>2, <2>8 DEF WithdrawFromWorker, TypeInv, CallTypes, Ids
    <3>2. Step(s, "withdraw-slot", call[s].id) \/ Returns(s)
      BY <2>8 DEF WithdrawFromWorker
    <3> QED
      BY <1>1, <2>2, <2>8, <3>1, <3>2, CallMoves, CallReturns
         DEF WithdrawFromWorker, TypeInv, CallTypes, CallSteps
  <2>9. ASSUME NEW o \in Ids, CancelEnrollment(s, o) PROVE CallTypes'
    <3>1. o \in 0..MaxOperations
      BY DEF Ids
    <3> QED
      BY <1>1, <2>9, <3>1, CallMoves DEF CancelEnrollment, TypeInv, CallTypes, CallSteps
  <2>10. CASE Disconnect(s)
    BY <1>1, <2>10 DEF Disconnect, TypeInv, CallTypes
  <2> QED
    BY <2>1, <2>4, <2>5, <2>6, <2>7, <2>8, <2>9, <2>10 DEF UncalledCall
<1>3. CASE UncalledWatcher
  <2>1. owner # NoOwner => owner.id \in 0..MaxOperations /\ owner.id # 0
    BY ControlAssumption DEF TypeInv, CallTypes, Ids
  <2>2. watcher.step = "cancel" => watcher.id \in Ids
    BY DEF TypeInv, CallTypes, Ids
  <2>3. CASE \E s \in Senders : WatcherTakes(s)
    BY <1>1, <2>1, <2>3 DEF WatcherTakes, Owns, TypeInv, CallTypes, WatcherSteps
  <2>4. CASE WatcherCancelsWorker \/ WatcherCannotSignal \/ WatcherStops
    BY <1>1, <2>2, <2>4 DEF WatcherCancelsWorker, WatcherCannotSignal, WatcherFails, WatcherStops,
         TypeInv, CallTypes, WatcherSteps
  <2> QED
    BY <1>3, <2>3, <2>4 DEF UncalledWatcher
<1>4. CASE UncalledRelay \/ Surroundings
  BY <1>1, <1>4 DEF UncalledRelay, TakeHandle, RelayLosesChannel, RelayCannotEmit,
       RelayFinishes, Surroundings, AuthenticationTakes, AuthenticationReturns, Tick,
       RequestShutdown, TypeInv, CallTypes
<1>5. CASE WorkerStep
  BY <1>1, <1>5, WorkerUncalled DEF TypeInv, CallTypes
<1> QED
  BY <1>2, <1>3, <1>4, <1>5 DEF Silent

LEMMA TellingCallTypes == ASSUME TypeInv, Telling PROVE CallTypes'
<1> USE DEF manager, bus, calls, controller
<1>1. /\ owner' = NoOwner \/ owner'.sender \in Senders
      /\ owner' # NoOwner => owner'.id \in Ids
  BY SilentUncalled, UncalledKeeps DEF TypeInv, CallTypes
<1>2. CASE \E s \in Senders : SignalCancelled(s)
  BY <1>1, <1>2, CallReturns, AnnounceType DEF SignalCancelled, TypeInv, CallTypes
<1>3. CASE WatcherSignals
  <2>1. watcher' \in [step : WatcherSteps, id : 0..MaxOperations] /\ watcher'.step = "watch"
    BY <1>3, ControlAssumption DEF WatcherSignals, Watching, WatcherSteps
  <2> QED
    BY <1>1, <1>3, <2>1, AnnounceType DEF WatcherSignals, TypeInv, CallTypes
<1>4. CASE RelayEmits
  <2>1. announced' \in [Ids -> Nat]
    BY <1>4, AnnounceType DEF RelayEmits, TypeInv, CallTypes
  <2> QED
    BY <1>1, <1>4, <2>1 DEF RelayEmits, TypeInv, CallTypes
<1> QED
  BY <1>2, <1>3, <1>4 DEF Telling

LEMMA CallingCallTypes == ASSUME TypeInv, Calling PROVE CallTypes'
<1> USE DEF manager, bus, calls, controller
<1>1. ASSUME NEW s \in Senders, StartOperation(s) PROVE CallTypes'
  <2>1. UNCHANGED <<bus, watcher, controller>>
    BY <1>1 DEF StartOperation
  <2>2. issued' \in Ids => issued' \in 0..MaxOperations /\ issued' # 0
    BY DEF Ids
  <2> QED
    BY <1>1, <2>1, <2>2, StartStep, CallMoves, CallReturns
       DEF TypeInv, CallTypes, CallSteps
<1>2. ASSUME NEW s \in Senders, RollBack(s) \/ WithdrawFromSlot(s)
      PROVE  CallTypes'
  <2>1. /\ Returns(s)
        /\ UNCHANGED <<bus, watcher, controller>>
        /\ owner' = NoOwner \/ ClearOwnerIfTerminal
    BY <1>2 DEF RollBack, WithdrawFromSlot
  <2> QED
    BY <2>1, ClearKeepsOwner, CallReturns DEF TypeInv, CallTypes
<1>3. ASSUME NEW s \in Senders, ConsumeCancelled(s) PROVE CallTypes'
  <2>1. UNCHANGED <<bus, watcher, controller>>
    BY <1>3 DEF ConsumeCancelled
  <2>2. CASE Returns(s) /\ (Uncalled \/ ClearOwnerIfTerminal)
    BY <2>1, <2>2, UncalledKeeps, ClearKeepsOwner, CallReturns DEF TypeInv, CallTypes
  <2>3. CASE Cancel(UidOf[s], call[s].id, clock) /\ ClearOwnerIfTerminal /\ Consumed
             /\ Step(s, "signal", reply'.id)
    <3>1. \E r \in Results : Consumes(call[s].id, r)
      BY <2>3, CancelKinds DEF Consumed, Keeps
    <3>2. reply'.id \in 0..MaxOperations
      BY <3>1, AnswerKinds, ControlAssumption
         DEF Consumes, Live, TypeInv, CallTypes, SlotTypes
    <3> QED
      BY <2>1, <2>3, <3>2, ClearKeepsOwner, CallMoves DEF TypeInv, CallTypes, CallSteps
  <2> QED
    BY <1>3, <2>2, <2>3 DEF ConsumeCancelled
<1>4. CASE WatcherConsumes
  <2>1. UNCHANGED <<bus, calls, controller>> /\ ClearOwnerIfTerminal
    BY <1>4 DEF WatcherConsumes
  <2>2. \E step \in {"signal", "failed"} : watcher' = [watcher EXCEPT !.step = step]
    BY <1>4 DEF WatcherConsumes, WatcherFails
  <2> QED
    BY <2>1, <2>2, ClearKeepsOwner DEF TypeInv, CallTypes, WatcherSteps
<1>5. CASE RelayProgress \/ RelayCompletion
  BY <1>5, ClearKeepsOwner DEF RelayProgress, RelayCompletion, TypeInv, CallTypes
<1>6. CASE ReapExpired
  <2>1. announced' \in [Ids -> Nat]
    BY <1>6, AnnounceType DEF ReapExpired, TypeInv, CallTypes
  <2> QED
    BY <1>6, <2>1, ClearKeepsOwner DEF ReapExpired, TypeInv, CallTypes
<1> QED
  BY <1>1, <1>2, <1>3, <1>4, <1>5, <1>6 DEF Calling

LEMMA CallNext == ASSUME TypeInv, [Next]_vars PROVE CallTypes'
<1>1. CASE UNCHANGED vars
  BY <1>1 DEF vars, manager, bus, calls, controller, TypeInv, CallTypes
<1> QED
  BY <1>1, StepGroups, SilentCallTypes, TellingCallTypes, CallingCallTypes

\* What the relay makes of an answer that it can use.
LEMMA RelayFollowsTypes ==
  ASSUME TypeInv, RelayFollows, relay.step = "recv",
         reply'.kind # "Error" => reply' \in Updates
  PROVE  /\ relay' \in [step : RelaySteps, id : 0..MaxOperations, update : Updates]
         /\ relay'.step # "idle" => relay'.id # 0
         /\ receiver' \in 0..MaxOperations
<1> USE ControlAssumption DEF TypeInv, ChannelTypes, RelaySteps
<1>1. CASE /\ reply'.kind # "Error"
           /\ relay' = [relay EXCEPT !.step = "emit", !.update = reply']
           /\ UNCHANGED receiver
  BY <1>1
<1>2. CASE /\ relay' = [relay EXCEPT !.step = "finish"]
           /\ UNCHANGED receiver
  BY <1>2
<1>3. CASE RelayReturns
  <2>1. NoReply \in Updates
    BY DEF Updates
  <2> QED BY <1>3, <2>1 DEF RelayReturns, IdleRelay
<1> QED
  BY <1>1, <1>2, <1>3 DEF RelayFollows

LEMMA RelayFollowsUpdates ==
  ASSUME TypeInv, RelayFollows, updates # <<>>
  PROVE  updates' \in Seq(Messages)
<1>1. updates \in Seq(Messages) /\ Tail(updates) \in Seq(Messages)
  BY DEF TypeInv, ChannelTypes
<1>2. updates' = Tail(updates) \/ updates' = <<>>
  BY DEF RelayFollows, RelayReturns
<1> QED
  BY <1>1, <1>2, EmptyChannel

\* What the coordinator answers the relay: progress of its own operation, or
\* the result of it.
LEMMA RelayAnswers ==
  ASSUME TypeInv, RelayProgress \/ RelayCompletion
  PROVE  \/ Keeps /\ reply'.kind = "Error"
         \/ Keeps /\ reply' = Progressed(relay.id) /\ relay.id \in Ids
         \/ /\ relay.id \in Ids
            /\ \E r \in Results :
                 /\ Consumes(relay.id, r)
                 /\ r = "Completed" => Head(updates) = "Completed"
<1>1. RelayProgress \/ RelayCompletion => relay.id \in Ids
  BY DEF RelayProgress, RelayCompletion, TypeInv, ChannelTypes, Ids
<1>2. CASE RelayProgress
  BY <1>1, <1>2, ProgressKinds DEF RelayProgress, Results, ReservedResults
<1>3. CASE RelayCompletion
  <2>1. \/ Keeps /\ reply'.kind = "Error"
        \/ \E x \in {PublicResult(Head(updates)), "TimedOut"} : Consumes(relay.id, x)
    BY <1>3, CompleteKinds DEF RelayCompletion
  <2> QED
    BY <1>1, <1>3, <2>1 DEF PublicResult, Results, WorkerResults, ReservedResults
<1> QED
  BY <1>2, <1>3

LEMMA RelayAnswerTyped ==
  ASSUME TypeInv, RelayProgress \/ RelayCompletion
  PROVE  reply'.kind # "Error" => reply' \in Updates
BY RelayAnswers DEF Updates, Consumes

LEMMA ChannelNext == ASSUME TypeInv, [Next]_vars PROVE ChannelTypes'
<1> USE DEF controller, channel, engine, resources
<1>1. CASE \E s \in Senders : UncalledCall(s)
  <2>1. PICK s \in Senders : UncalledCall(s)
    BY <1>1
  <2>2. CASE SubmitEnrollment(s)
    <3>1. call[s].id \in 0..MaxOperations
      BY DEF TypeInv, CallTypes
    <3> QED
      BY <2>2, <3>1, EmptyChannel DEF SubmitEnrollment, Submits, TypeInv, ChannelTypes
  <2>3. CASE ~SubmitEnrollment(s)
    BY <2>1, <2>3 DEF UncalledCall, BeginEnrollment, AuthorizationDenied,
         AnnounceOperation, AnnounceFails, WithdrawFromWorker, CancelEnrollment,
         Disconnect, TypeInv, ChannelTypes
  <2> QED BY <2>2, <2>3
<1>2. CASE UncalledWatcher \/ Surroundings
  BY <1>2 DEF UncalledWatcher, WatcherTakes, WatcherCancelsWorker,
       WatcherCannotSignal, WatcherFails, WatcherStops,
       Surroundings, AuthenticationTakes, AuthenticationReturns, Tick, RequestShutdown,
       TypeInv, ChannelTypes
<1>3. CASE UncalledRelay
  <2>1. NoReply \in Updates /\ 0 \in 0..MaxOperations
    BY ControlAssumption DEF Updates
  <2>2. CASE TakeHandle
    BY <2>1, <2>2 DEF TakeHandle, IdleRelay, TypeInv, ChannelTypes, RelaySteps
  <2>3. CASE RelayLosesChannel \/ RelayCannotEmit \/ RelayFinishes
    <3>1. RelayReturns /\ controlled' \in {0, controlled}
      BY <2>3 DEF RelayLosesChannel, RelayCannotEmit, RelayFinishes
    <3>2. IdleRelay \in [step : RelaySteps, id : 0..MaxOperations, update : Updates]
      BY <2>1 DEF IdleRelay, RelaySteps
    <3> QED
      BY <2>1, <3>1, <3>2, EmptyChannel DEF RelayReturns, IdleRelay, TypeInv, ChannelTypes
  <2> QED BY <1>3, <2>2, <2>3 DEF UncalledRelay
<1>4. CASE WorkerStep
  <2>1. UNCHANGED <<controller, relay, receiver>>
    BY <1>4, WorkerUncalled
  <2>2. CASE ReportProgress
    <3>1. updates' = updates \/ (updates' = Append(updates, Progressing) /\ Progressing \in Messages)
      BY <2>2 DEF ReportProgress, Messages
    <3> QED BY <2>1, <3>1 DEF TypeInv, ChannelTypes
  <2>3. CASE ReportResult
    <3>1. updates' = updates \/ (updates' = Append(updates, result) /\ result \in Messages)
      BY <2>3 DEF ReportResult, TypeInv, WorkTypes, Messages
    <3> QED BY <2>1, <3>1 DEF TypeInv, ChannelTypes
  <2>4. CASE ~ReportProgress /\ ~ReportResult
    <3>1. UNCHANGED updates
      BY <1>4, <2>4 DEF WorkerStep, WorkerChecks, WaitTimeout, TakeRequest, WorkerStops,
           BeginJob, FinishEnroll, SaveTemplate, DropRequest
    <3> QED BY <2>1, <3>1 DEF TypeInv, ChannelTypes
  <2> QED BY <2>2, <2>3, <2>4
<1>5. CASE Telling
  <2>1. NoReply \in Updates
    BY DEF Updates
  <2> QED
    BY <1>5, <2>1 DEF Telling, SignalCancelled, WatcherSignals, RelayEmits, TypeInv,
         ChannelTypes, RelaySteps
<1>6. CASE RelayProgress \/ RelayCompletion
  <2>1. /\ relay.step = "recv" /\ updates # <<>> /\ RelayFollows
        /\ UNCHANGED controller
    BY <1>6 DEF RelayProgress, RelayCompletion
  <2> QED
    BY <1>6, <2>1, RelayAnswerTyped, RelayFollowsTypes, RelayFollowsUpdates
       DEF TypeInv, ChannelTypes
<1>7. CASE Calling /\ ~RelayProgress /\ ~RelayCompletion
  BY <1>7 DEF Calling, StartOperation, RollBack, WithdrawFromSlot, ConsumeCancelled,
       WatcherConsumes, ReapExpired, TypeInv, ChannelTypes
<1>8. CASE UNCHANGED vars
  BY <1>8 DEF vars, TypeInv, ChannelTypes
<1> QED
  BY <1>1, <1>2, <1>3, <1>4, <1>5, <1>6, <1>7, <1>8, StepGroups DEF Silent

\* Only a submission, the worker and an authentication touch the worker's side.
OtherStep ==
  /\ [Next]_vars
  /\ ~WorkerStep
  /\ ~AuthenticationTakes
  /\ ~AuthenticationReturns
  /\ \A s \in Senders : ~SubmitEnrollment(s)

LEMMA OthersKeepWork == OtherStep => UNCHANGED <<resources, worker>>
<1> USE DEF engine
<1>1. CASE \E s \in Senders : UncalledCall(s) /\ ~SubmitEnrollment(s)
  BY <1>1 DEF UncalledCall, BeginEnrollment, AuthorizationDenied, AnnounceOperation,
       AnnounceFails, WithdrawFromWorker, CancelEnrollment, Disconnect
<1>2. CASE UncalledWatcher \/ UncalledRelay \/ Tick \/ RequestShutdown \/ Telling
  BY <1>2 DEF UncalledWatcher, WatcherTakes, WatcherCancelsWorker,
       WatcherCannotSignal, WatcherFails, WatcherStops,
       UncalledRelay, TakeHandle, RelayLosesChannel, RelayCannotEmit, RelayFinishes,
       Tick, RequestShutdown, Telling, SignalCancelled, WatcherSignals, RelayEmits
<1>3. CASE Calling
  BY <1>3 DEF Calling, StartOperation, RollBack, WithdrawFromSlot, ConsumeCancelled,
       WatcherConsumes, RelayProgress, RelayCompletion, ReapExpired
<1>4. CASE UNCHANGED vars
  BY <1>4 DEF vars
<1> QED
  BY <1>1, <1>2, <1>3, <1>4, StepGroups DEF OtherStep, Silent, Surroundings

LEMMA WorkNext == ASSUME TypeInv, [Next]_vars PROVE WorkTypes'
<1> USE DEF resources, worker
<1>1. ASSUME NEW s \in Senders, SubmitEnrollment(s) PROVE WorkTypes'
  <2>1. call[s].id \in 0..MaxOperations
    BY DEF TypeInv, CallTypes
  <2> QED
    BY <1>1, <2>1 DEF SubmitEnrollment, Submits, TypeInv, WorkTypes
<1>2. CASE WorkerStep
  <2>1. 0 \in 0..MaxOperations
    BY ControlAssumption
  <2>2. CASE WorkerChecks \/ WaitTimeout \/ TakeRequest \/ WorkerStops
    BY <2>1, <2>2 DEF WorkerChecks, WaitTimeout, TakeRequest, WorkerStops, TypeInv,
         WorkTypes, InJob
  <2>3. CASE BeginJob \/ ReportProgress \/ FinishEnroll \/ ReportResult \/ DropRequest
    BY <2>1, <2>3 DEF BeginJob, ReportProgress, FinishEnroll, ReportResult, DropRequest,
         TypeInv, WorkTypes, InJob, Outcomes
  <2>4. CASE SaveTemplate
    <3>1. wjob \in Ids
      BY <2>4 DEF SaveTemplate, TypeInv, WorkTypes, InJob, Ids
    <3> QED
      BY <2>4, <3>1 DEF SaveTemplate, TypeInv, WorkTypes, InJob, Outcomes
  <2> QED
    BY <1>2, <2>2, <2>3, <2>4 DEF WorkerStep
<1>3. CASE AuthenticationTakes \/ AuthenticationReturns
  BY <1>3, ControlAssumption DEF AuthenticationTakes, AuthenticationReturns, TypeInv, WorkTypes
<1>4. CASE OtherStep
  BY <1>4, OthersKeepWork DEF TypeInv, WorkTypes
<1> QED
  BY <1>1, <1>2, <1>3, <1>4 DEF OtherStep

LEMMA TypeNext == TypeInv /\ [Next]_vars => TypeInv'
BY SlotNext, CallNext, ChannelNext, WorkNext DEF TypeInv

\* The manager, its callers, the channels and the worker keep their types.
THEOREM TypeCorrect == Spec => []TypeOK
<1>1. Spec => []TypeInv
  BY TypeInit, TypeNext, PTL DEF Spec
<1> QED
  BY <1>1, TypesGiveTypeOK, PTL

-------------------------------------------------------------------------------
(***************************************************************************)
(* The lease.                                                              *)
(***************************************************************************)

LEMMA LeaseInit == Init => EnrollmentHoldsLease
BY ControlAssumption DEF Init, EnrollmentHoldsLease, Ids

LEMMA LeaseNext ==
  TypeInv /\ EnrollmentHoldsLease /\ [Next]_vars => EnrollmentHoldsLease'
<1> SUFFICES ASSUME TypeInv, EnrollmentHoldsLease, [Next]_vars
             PROVE  EnrollmentHoldsLease'
  OBVIOUS
<1> USE DEF resources, worker, EnrollmentHoldsLease
<1>1. /\ queue \in 0..MaxOperations /\ wjob \in 0..MaxOperations
      /\ wjob # 0 <=> wpc \in InJob
      /\ Authentication \notin 0..MaxOperations
      /\ 0 \notin Ids /\ Ids \subseteq 0..MaxOperations
      /\ \A x \in 0..MaxOperations : x # 0 => x \in Ids
  BY ControlAssumption DEF TypeInv, WorkTypes, Ids
\* A submission finds the lease free, so that there is no job and no request.
<1>2. ASSUME NEW s \in Senders, SubmitEnrollment(s) PROVE EnrollmentHoldsLease'
  <2>1. UNCHANGED worker
    BY <1>2 DEF SubmitEnrollment
  <2>2. CASE Submits(call[s].id)
    <3>1. call[s].id # 0
      BY <1>2 DEF SubmitEnrollment, TypeInv, CallTypes
    <3> QED
      BY <1>1, <2>1, <2>2, <3>1 DEF Submits
  <2>3. CASE UNCHANGED resources
    BY <2>1, <2>3
  <2> QED
    BY <1>2, <2>2, <2>3 DEF SubmitEnrollment
<1>3. CASE WorkerStep
  <2>1. CASE TakeRequest \/ WorkerStops \/ DropRequest
    BY <1>1, <2>1 DEF TakeRequest, WorkerStops, DropRequest, InJob
  <2>2. CASE ~TakeRequest /\ ~WorkerStops /\ ~DropRequest
    BY <1>3, <2>2 DEF WorkerStep, WorkerChecks, WaitTimeout, BeginJob, ReportProgress,
         FinishEnroll, SaveTemplate, ReportResult
  <2> QED
    BY <2>1, <2>2
<1>4. CASE AuthenticationTakes \/ AuthenticationReturns
  BY <1>1, <1>4 DEF AuthenticationTakes, AuthenticationReturns
<1>5. CASE OtherStep
  BY <1>5, OthersKeepWork
<1> QED
  BY <1>2, <1>3, <1>4, <1>5 DEF OtherStep

\* The biometric lease covers an enrollment from the controller's submission to
\* the end of run_job, whatever callers, relay, watcher and shutdown do.
THEOREM LeaseCorrect == Spec => []EnrollmentHoldsLease
BY TypeInit, TypeNext, LeaseInit, LeaseNext, PTL DEF Spec

-------------------------------------------------------------------------------
(***************************************************************************)
(* The relay and its channel.                                              *)
(***************************************************************************)

LEMMA RelayInit == Init => RelayInv
BY DEF Init, RelayInv, IdleRelay

\* A relay that returned dropped its handle.
LEMMA ReturnedRelay ==
  ASSUME RelayReturns, controlled' = 0 \/ taken' PROVE RelayInv'
BY DEF RelayReturns, RelayInv, IdleRelay

LEMMA RelayFollowsInv ==
  ASSUME TypeInv, RelayInv, RelayFollows, relay.step = "recv", UNCHANGED controller
  PROVE  RelayInv'
<1> USE DEF controller, TypeInv, ChannelTypes, RelayInv
<1>1. CASE RelayReturns
  BY <1>1, ReturnedRelay
<1>2. CASE /\ relay' = [relay EXCEPT !.step = "emit", !.update = reply']
           /\ UNCHANGED receiver
  BY <1>2
<1>3. CASE /\ relay' = [relay EXCEPT !.step = "finish"]
           /\ UNCHANGED receiver
  BY <1>3
<1> QED
  BY <1>1, <1>2, <1>3 DEF RelayFollows

LEMMA RelayNext == TypeInv /\ RelayInv /\ [Next]_vars => RelayInv'
<1> SUFFICES ASSUME TypeInv, RelayInv, [Next]_vars PROVE RelayInv'
  OBVIOUS
<1> USE DEF controller, channel, engine
<1>1. CASE UNCHANGED <<relay, controlled, taken, receiver>>
  BY <1>1 DEF RelayInv
<1>2. ASSUME NEW s \in Senders, Submits(call[s].id), UNCHANGED relay PROVE RelayInv'
  <2>1. relay.step = "idle"
    BY <1>2 DEF Submits, RelayInv, TypeInv, ChannelTypes
  <2> QED
    BY <1>2, <2>1 DEF Submits, RelayInv
<1>3. CASE TakeHandle
  BY <1>3 DEF TakeHandle, IdleRelay, RelayInv
<1>4. CASE RelayLosesChannel \/ RelayCannotEmit \/ RelayFinishes
  <2>1. RelayReturns /\ (controlled' = 0 \/ taken')
    BY <1>4 DEF RelayLosesChannel, RelayCannotEmit, RelayFinishes, Controls, RelayInv
  <2> QED
    BY <2>1, ReturnedRelay
<1>5. CASE RelayEmits
  BY <1>5 DEF RelayEmits, RelayInv, TypeInv, ChannelTypes
<1>6. CASE RelayProgress \/ RelayCompletion
  BY <1>6, RelayFollowsInv DEF RelayProgress, RelayCompletion
<1>7. CASE \E s \in Senders : UncalledCall(s)
  BY <1>1, <1>2, <1>7 DEF UncalledCall, BeginEnrollment, AuthorizationDenied,
       SubmitEnrollment, AnnounceOperation, AnnounceFails, WithdrawFromWorker,
       CancelEnrollment, Disconnect
<1>8. CASE UncalledWatcher \/ Surroundings
  BY <1>1, <1>8 DEF UncalledWatcher, WatcherTakes, WatcherCancelsWorker,
       WatcherCannotSignal, WatcherFails, WatcherStops,
       Surroundings, AuthenticationTakes, AuthenticationReturns, Tick, RequestShutdown
<1>9. CASE WorkerStep
  BY <1>1, <1>9, WorkerUncalled
<1>10. CASE Telling /\ ~RelayEmits
  BY <1>1, <1>10 DEF Telling, SignalCancelled, WatcherSignals
<1>11. CASE Calling /\ ~RelayProgress /\ ~RelayCompletion
  BY <1>1, <1>11 DEF Calling, StartOperation, RollBack, WithdrawFromSlot,
       ConsumeCancelled, WatcherConsumes, ReapExpired
<1>12. CASE UNCHANGED vars
  BY <1>1, <1>12 DEF vars
<1> QED
  BY <1>3, <1>4, <1>5, <1>6, <1>7, <1>8, <1>9, <1>10, <1>11, <1>12, StepGroups
     DEF Silent, UncalledRelay

-------------------------------------------------------------------------------
(***************************************************************************)
(* A success is announced of a template that was written.                  *)
(***************************************************************************)

\* No success in the channel unless the template is there.
Honest(u) == \A i \in 1..Len(u) : u[i] = "Completed" => receiver \in stored

LEMMA TailHonest ==
  ASSUME NEW u \in Seq(Messages), u # <<>>, Honest(u)
  PROVE  Honest(Tail(u)) /\ (Head(u) = "Completed" => receiver \in stored)
<1>1. \A i \in 1..Len(Tail(u)) : i + 1 \in 1..Len(u) /\ Tail(u)[i] = u[i + 1]
  OBVIOUS
<1>2. 1 \in 1..Len(u) /\ Head(u) = u[1]
  OBVIOUS
<1> QED
  BY <1>1, <1>2 DEF Honest

LEMMA AppendHonest ==
  ASSUME NEW u \in Seq(Messages), NEW m \in Messages, Honest(u),
         m = "Completed" => receiver \in stored
  PROVE  Honest(Append(u, m))
<1>1. \A i \in 1..Len(Append(u, m)) :
        (i \in 1..Len(u) /\ Append(u, m)[i] = u[i]) \/ Append(u, m)[i] = m
  OBVIOUS
<1> QED
  BY <1>1 DEF Honest

LEMMA StoredInit == Init => StoredInv
BY AnswerKinds DEF Init, StoredInv, EnrolledIsStored, IdleRelay

\* The channel, the receiver and the relay as they were, and the worker's
\* success still of the operation it was of.
LEMMA StoredKept ==
  ASSUME StoredInv, UNCHANGED <<updates, receiver, relay>>, stored \subseteq stored',
         result' = "Completed" => wjob' \in stored'
  PROVE  StoredInv'
BY DEF StoredInv, EnrolledIsStored

\* An operation whose relay returns tells nothing more.
LEMMA StoredDropped ==
  ASSUME StoredInv, RelayReturns, UNCHANGED worker PROVE StoredInv'
BY AnswerKinds DEF RelayReturns, IdleRelay, StoredInv, EnrolledIsStored, worker

LEMMA RelayKeepsStored ==
  ASSUME TypeInv, RelayInv, StoredInv, RelayProgress \/ RelayCompletion
  PROVE  StoredInv'
<1>1. /\ relay.step = "recv" /\ updates # <<>> /\ RelayFollows
      /\ UNCHANGED worker /\ updates \in Seq(Messages)
      /\ relay.id = receiver
  BY DEF RelayProgress, RelayCompletion, TypeInv, ChannelTypes, RelayInv
<1>2. Honest(updates)
  BY DEF StoredInv, Honest
<1>3. Honest(Tail(updates)) /\ (Head(updates) = "Completed" => receiver \in stored)
  BY <1>1, <1>2, TailHonest
<1>4. CASE RelayReturns
  BY <1>1, <1>4, StoredDropped
<1>5. ASSUME updates' = Tail(updates), UNCHANGED receiver,
             \A o \in Ids : relay'.update = Completed(o, "Completed") => o \in stored
      PROVE  StoredInv'
  BY <1>1, <1>3, <1>5 DEF StoredInv, EnrolledIsStored, Honest, worker
<1>6. CASE /\ relay' = [relay EXCEPT !.step = "finish"]
           /\ updates' = Tail(updates) /\ UNCHANGED receiver
  <2>1. relay'.update = relay.update
    BY <1>6 DEF TypeInv, ChannelTypes
  <2> QED
    BY <1>5, <1>6, <2>1 DEF StoredInv, EnrolledIsStored
<1>7. CASE /\ reply'.kind # "Error"
           /\ relay' = [relay EXCEPT !.step = "emit", !.update = reply']
           /\ updates' = Tail(updates) /\ UNCHANGED receiver
  <2>1. relay'.update = reply'
    BY <1>7 DEF TypeInv, ChannelTypes
  <2>2. CASE reply' = Progressed(relay.id)
    BY <1>5, <1>7, <2>1, <2>2, AnswerKinds
  <2>3. ASSUME NEW r \in Results, Consumes(relay.id, r),
               r = "Completed" => Head(updates) = "Completed"
        PROVE  StoredInv'
    <3>1. ASSUME NEW o \in Ids, relay'.update = Completed(o, "Completed")
          PROVE  o \in stored
      <4>1. o = relay.id /\ r = "Completed"
        BY <2>1, <2>3, <3>1, AnswerKinds DEF Consumes
      <4> QED
        BY <1>1, <1>3, <2>3, <4>1
    <3> QED
      BY <1>5, <1>7, <3>1
  <2> QED
    BY <1>7, <2>2, <2>3, RelayAnswers
<1> QED
  BY <1>1, <1>4, <1>6, <1>7 DEF RelayFollows

LEMMA WorkerKeepsStored ==
  ASSUME TypeInv, StoredInv, WorkerStep PROVE StoredInv'
<1>1. UNCHANGED <<relay, receiver>>
  BY WorkerUncalled
<1>2. 0 \notin stored
  BY DEF TypeInv, WorkTypes, Ids
<1>3. Honest(updates) /\ updates \in Seq(Messages)
  BY DEF StoredInv, Honest, TypeInv, ChannelTypes
<1>4. ASSUME NEW m \in Messages, updates' = Append(updates, m), UNCHANGED <<stored, wjob>>,
             m = "Completed" => receiver \in stored,
             result' = result
      PROVE  StoredInv'
  BY <1>1, <1>3, <1>4, AppendHonest DEF StoredInv, EnrolledIsStored, Honest
<1>5. CASE TakeRequest
  <2>1. result # "Completed"
    BY <1>2, <1>5 DEF TakeRequest, StoredInv, TypeInv, WorkTypes, InJob
  <2> QED
    BY <1>1, <1>5, <2>1, StoredKept DEF TakeRequest, channel
<1>9. CASE WorkerChecks \/ WaitTimeout \/ WorkerStops \/ BeginJob \/ FinishEnroll
           \/ DropRequest
  BY <1>1, <1>9, StoredKept
     DEF WorkerChecks, WaitTimeout, WorkerStops, BeginJob, FinishEnroll, DropRequest,
         channel, StoredInv
<1>6. CASE SaveTemplate
  BY <1>1, <1>6, StoredKept DEF SaveTemplate, channel
<1>7. CASE ReportProgress
  <2>1. UNCHANGED <<stored, wjob>>
    BY <1>7 DEF ReportProgress
  <2>2. CASE UNCHANGED updates /\ result' \in {"Cancelled", "Failed"}
    BY <1>1, <2>1, <2>2, StoredKept
  <2>3. CASE updates' = Append(updates, Progressing) /\ result' = result
    <3>1. Progressing \in Messages /\ Progressing # "Completed"
      BY DEF Progressing, Messages
    <3> QED
      BY <1>4, <2>1, <2>3, <3>1
  <2> QED
    BY <1>7, <2>2, <2>3 DEF ReportProgress
<1>8. CASE ReportResult
  <2>1. UNCHANGED <<stored, wjob, result>> /\ result \in Messages
    BY <1>8 DEF ReportResult, TypeInv, WorkTypes, Messages
  <2>2. CASE receiver = wjob /\ updates' = Append(updates, result)
    BY <1>4, <2>1, <2>2 DEF StoredInv
  <2>3. CASE UNCHANGED updates
    BY <1>1, <2>1, <2>3, StoredKept DEF StoredInv
  <2> QED
    BY <1>8, <2>2, <2>3 DEF ReportResult
<1> QED
  BY <1>5, <1>6, <1>7, <1>8, <1>9 DEF WorkerStep

LEMMA StoredNext == TypeInv /\ RelayInv /\ StoredInv /\ [Next]_vars => StoredInv'
<1> SUFFICES ASSUME TypeInv, RelayInv, StoredInv, [Next]_vars PROVE StoredInv'
  OBVIOUS
<1> USE DEF channel, engine, worker
<1>1. CASE UNCHANGED <<worker, updates, receiver, relay>>
  BY <1>1, StoredKept DEF StoredInv
<1>2. ASSUME NEW s \in Senders, Submits(call[s].id), UNCHANGED <<worker, relay>>
      PROVE  StoredInv'
  BY <1>2 DEF Submits, StoredInv, EnrolledIsStored
<1>3. CASE TakeHandle
  BY <1>3, AnswerKinds DEF TakeHandle, IdleRelay, StoredInv, EnrolledIsStored
<1>4. CASE RelayLosesChannel \/ RelayCannotEmit \/ RelayFinishes
  BY <1>4, StoredDropped DEF RelayLosesChannel, RelayCannotEmit, RelayFinishes
<1>5. CASE RelayEmits
  <2>1. relay'.update = relay.update \/ relay'.update = NoReply
    BY <1>5 DEF RelayEmits, TypeInv, ChannelTypes
  <2> QED
    BY <1>5, <2>1, AnswerKinds DEF RelayEmits, StoredInv, EnrolledIsStored
<1>6. CASE \E s \in Senders : UncalledCall(s)
  BY <1>1, <1>2, <1>6 DEF UncalledCall, BeginEnrollment, AuthorizationDenied,
       SubmitEnrollment, AnnounceOperation, AnnounceFails, WithdrawFromWorker,
       CancelEnrollment, Disconnect
<1>7. CASE UncalledWatcher \/ Surroundings
  BY <1>1, <1>7 DEF UncalledWatcher, WatcherTakes, WatcherCancelsWorker,
       WatcherCannotSignal, WatcherFails, WatcherStops,
       Surroundings, AuthenticationTakes, AuthenticationReturns, Tick, RequestShutdown
<1>8. CASE Telling /\ ~RelayEmits
  BY <1>1, <1>8 DEF Telling, SignalCancelled, WatcherSignals
<1>9. CASE Calling /\ ~RelayProgress /\ ~RelayCompletion
  BY <1>1, <1>9 DEF Calling, StartOperation, RollBack, WithdrawFromSlot,
       ConsumeCancelled, WatcherConsumes, ReapExpired
<1>10. CASE UNCHANGED vars
  BY <1>1, <1>10 DEF vars
<1> QED
  BY <1>3, <1>4, <1>5, <1>6, <1>7, <1>8, <1>9, <1>10, RelayKeepsStored,
     WorkerKeepsStored, StepGroups DEF Silent, UncalledRelay

\* The relay reports an enrollment as completed only when save_template wrote
\* the template of that very operation.
THEOREM EnrolledCorrect == Spec => []EnrolledIsStored
<1>1. Init => TypeInv /\ RelayInv /\ StoredInv
  BY TypeInit, RelayInit, StoredInit
<1>2. TypeInv /\ RelayInv /\ StoredInv /\ [Next]_vars => TypeInv' /\ RelayInv' /\ StoredInv'
  BY TypeNext, RelayNext, StoredNext
<1>3. StoredInv => EnrolledIsStored
  BY DEF StoredInv
<1> QED
  BY <1>1, <1>2, <1>3, PTL DEF Spec

-------------------------------------------------------------------------------
(***************************************************************************)
(* A result is announced once.                                             *)
(***************************************************************************)

LEMMA TellInit == Init => TellInv
BY ControlAssumption
   DEF Init, CoordinatorInit, TellInv, ToldOnce, Undecided, Live, NoTeller, OneTeller,
       CallTells, WatcherTells, RelayTells, IdleCall, Watching, IdleRelay, Ids

\* The callers, the watcher, the relay have nothing new to tell of o.
CallsRest(o) == \A s \in Senders : CallTells(s, o)' => CallTells(s, o)
WatcherRests(o) == WatcherTells(o)' => WatcherTells(o)
RelayRests(o) == RelayTells(o)' => RelayTells(o)
SlotRests(o) == Undecided(o)' => Undecided(o)

\* The slot lets go of o to one teller.
LEMMA HandedOver ==
  ASSUME NEW o \in Ids, ToldOnce(o), UNCHANGED announced, Undecided(o), ~Undecided(o)',
         OneTeller(o)'
  PROVE  ToldOnce(o)'
BY DEF ToldOnce

\* The only teller of o tells.
LEMMA Told ==
  ASSUME TypeInv, NEW o \in Ids, ToldOnce(o), Announce(o), ~NoTeller(o), NoTeller(o)',
         SlotRests(o)
  PROVE  ToldOnce(o)'
<1>1. announced[o] = 0 /\ announced'[o] = 1 /\ ~Undecided(o)'
  BY DEF ToldOnce, Announce, SlotRests, TypeInv, CallTypes
<1> QED
  BY <1>1 DEF ToldOnce, OneTeller, NoTeller

\* Nothing is announced of the others.
LEMMA OthersUntold ==
  ASSUME TypeInv, NEW p, Announce(p), NEW o \in Ids, o # p
  PROVE  announced'[o] = announced[o]
BY DEF Announce, TypeInv, CallTypes

LEMMA UntoldRests ==
  ASSUME NEW o \in Ids, ToldOnce(o), announced'[o] = announced[o],
         CallsRest(o), WatcherRests(o), RelayRests(o), SlotRests(o)
  PROVE  ToldOnce(o)'
BY DEF ToldOnce, OneTeller, NoTeller, CallsRest, WatcherRests, RelayRests, SlotRests

LEMMA CallStepRests ==
  ASSUME TypeInv, NEW s \in Senders, NEW step, NEW p, NEW o,
         Step(s, step, p), step # "signal" \/ p # o
  PROVE  CallsRest(o)
BY DEF Step, Call, CallsRest, CallTells, TypeInv, CallTypes

LEMMA CallReturnRests ==
  ASSUME TypeInv, NEW s \in Senders, NEW o, Returns(s)
  PROVE  CallsRest(o) /\ ~CallTells(s, o)'
BY DEF Returns, IdleCall, CallsRest, CallTells, TypeInv, CallTypes

\* A call that started nothing brings no operation back.
LEMMA SlotKeepsRest == ASSUME NEW o, Keeps PROVE SlotRests(o)
BY DEF Keeps, SlotRests, Undecided, Live

LEMMA ConsumedRests ==
  ASSUME NEW o, NEW p, NEW r, Consumes(p, r) PROVE SlotRests(o)
BY DEF Consumes, SlotRests, Undecided, Live

LEMMA ConsumedIsDecided ==
  ASSUME TypeInv, NEW o, NEW r, Consumes(o, r)
  PROVE  o \in Ids /\ Undecided(o) /\ ~Undecided(o)'
BY ControlAssumption DEF TypeInv, SlotTypes, Consumes, Undecided, Live, Ids

LEMMA UnchangedRest ==
  ASSUME NEW o
  PROVE  /\ UNCHANGED call => CallsRest(o)
         /\ UNCHANGED watcher => WatcherRests(o)
         /\ UNCHANGED relay => RelayRests(o)
BY DEF CallsRest, CallTells, WatcherRests, WatcherTells, RelayRests, RelayTells

LEMMA SilentUntold ==
  ASSUME TypeInv, Silent, NEW o \in Ids, ToldOnce(o) PROVE ToldOnce(o)'
<1> USE DEF bus, calls, channel, engine
<1>1. SlotRests(o)
  BY SilentUncalled, UncalledKeeps, SlotKeepsRest
<1>2. ASSUME UNCHANGED announced, CallsRest(o), WatcherRests(o), RelayRests(o)
      PROVE  ToldOnce(o)'
  BY <1>1, <1>2, UntoldRests
<1>3. CASE \E s \in Senders : UncalledCall(s)
  <2>1. PICK s \in Senders : UncalledCall(s)
    BY <1>3
  <2>2. UNCHANGED <<announced, watcher, relay>>
    BY <2>1 DEF UncalledCall, BeginEnrollment, AuthorizationDenied, SubmitEnrollment,
         AnnounceOperation, AnnounceFails, WithdrawFromWorker, CancelEnrollment, Disconnect
  <2>3. \/ UNCHANGED call
        \/ Returns(s)
        \/ \E step \in CallSteps \ {"signal"} : \E p : Step(s, step, p)
    BY <2>1 DEF UncalledCall, BeginEnrollment, AuthorizationDenied, SubmitEnrollment,
         AnnounceOperation, AnnounceFails, WithdrawFromWorker, CancelEnrollment,
         Disconnect, CallSteps
  <2>4. CallsRest(o)
    BY <2>3, CallStepRests, CallReturnRests, UnchangedRest
  <2> QED
    BY <1>2, <2>2, <2>4, UnchangedRest
<1>4. CASE UncalledWatcher
  <2>1. UNCHANGED <<announced, call, relay>>
    BY <1>4 DEF UncalledWatcher, WatcherTakes, WatcherCancelsWorker,
       WatcherCannotSignal, WatcherFails, WatcherStops
  <2>2. watcher'.step # "signal" \/ watcher' = watcher
    BY <1>4 DEF UncalledWatcher, WatcherTakes, WatcherCancelsWorker,
       WatcherCannotSignal, WatcherFails, WatcherStops,
         WatcherFails, TypeInv, CallTypes
  <2>3. WatcherRests(o)
    BY <2>2 DEF WatcherRests, WatcherTells
  <2> QED
    BY <1>2, <2>1, <2>3, UnchangedRest
<1>5. CASE UncalledRelay
  <2>1. UNCHANGED <<announced, call, watcher>>
    BY <1>5 DEF UncalledRelay, TakeHandle, RelayLosesChannel, RelayCannotEmit, RelayFinishes
  <2>2. relay'.step # "emit"
    <3>1. CASE TakeHandle
      BY <3>1 DEF TakeHandle, IdleRelay
    <3>2. CASE relay' = IdleRelay
      BY <3>2 DEF IdleRelay
    <3> QED
      BY <1>5, <3>1, <3>2 DEF UncalledRelay, RelayLosesChannel, RelayCannotEmit,
           RelayFinishes, RelayReturns
  <2>3. RelayRests(o)
    BY <2>2 DEF RelayRests, RelayTells
  <2> QED
    BY <1>2, <2>1, <2>3, UnchangedRest
<1>6. CASE WorkerStep
  BY <1>2, <1>6, WorkerUncalled, UnchangedRest
<1>7. CASE Surroundings
  <2>1. UNCHANGED <<announced, call, watcher, relay>>
    BY <1>7 DEF Surroundings, AuthenticationTakes, AuthenticationReturns, Tick,
         RequestShutdown
  <2> QED
    BY <1>2, <2>1, UnchangedRest
<1> QED
  BY <1>3, <1>4, <1>5, <1>6, <1>7 DEF Silent

LEMMA TellingTells ==
  ASSUME TypeInv, Telling, NEW o \in Ids, ToldOnce(o) PROVE ToldOnce(o)'
<1> USE DEF bus, calls
<1>1. SlotRests(o)
  BY SilentUncalled, UncalledKeeps, SlotKeepsRest
<1>2. ASSUME NEW s \in Senders, SignalCancelled(s) PROVE ToldOnce(o)'
  <2>1. /\ Announce(call[s].id) /\ Returns(s) /\ call[s].step = "signal"
        /\ UNCHANGED <<watcher, relay>>
    BY <1>2 DEF SignalCancelled
  <2>2. CallsRest(o) /\ ~CallTells(s, o)' /\ WatcherRests(o) /\ RelayRests(o)
    BY <2>1, CallReturnRests, UnchangedRest
  <2>3. CASE call[s].id = o
    <3>1. CallTells(s, o)
      BY <2>1, <2>3 DEF CallTells
    <3>2. ~NoTeller(o) /\ NoTeller(o)'
      BY <2>2, <3>1 DEF ToldOnce, OneTeller, NoTeller, CallsRest, WatcherRests, RelayRests
    <3> QED
      BY <1>1, <2>1, <2>3, <3>2, Told
  <2>4. CASE call[s].id # o
    BY <1>1, <2>1, <2>2, <2>4, OthersUntold, UntoldRests
  <2> QED BY <2>3, <2>4
<1>3. CASE WatcherSignals
  <2>1. /\ Announce(watcher.id) /\ watcher.step = "signal" /\ watcher'.step = "watch"
        /\ UNCHANGED <<call, relay>>
    BY <1>3 DEF WatcherSignals, Watching
  <2>2. CallsRest(o) /\ ~WatcherTells(o)' /\ WatcherRests(o) /\ RelayRests(o)
    BY <2>1, UnchangedRest DEF WatcherRests, WatcherTells
  <2>3. CASE watcher.id = o
    <3>1. WatcherTells(o)
      BY <2>1, <2>3 DEF WatcherTells
    <3>2. ~NoTeller(o) /\ NoTeller(o)'
      BY <2>2, <3>1 DEF ToldOnce, OneTeller, NoTeller, CallsRest, WatcherRests, RelayRests
    <3> QED
      BY <1>1, <2>1, <2>3, <3>2, Told
  <2>4. CASE watcher.id # o
    BY <1>1, <2>1, <2>2, <2>4, OthersUntold, UntoldRests
  <2> QED BY <2>3, <2>4
<1>4. CASE RelayEmits
  <2>1. relay'.step # "emit" /\ UNCHANGED <<call, watcher>>
    BY <1>4 DEF RelayEmits, TypeInv, ChannelTypes
  <2>2. CallsRest(o) /\ WatcherRests(o) /\ ~RelayTells(o)' /\ RelayRests(o)
    BY <2>1, UnchangedRest DEF RelayRests, RelayTells
  <2>3. CASE UNCHANGED announced
    BY <1>1, <2>2, <2>3, UntoldRests
  <2>4. CASE relay.update.kind = "Completed" /\ Announce(relay.id)
    <3>1. CASE relay.id = o
      <4>1. RelayTells(o)
        BY <1>4, <2>4, <3>1 DEF RelayEmits, RelayTells
      <4>2. ~NoTeller(o) /\ NoTeller(o)'
        BY <2>2, <4>1 DEF ToldOnce, OneTeller, NoTeller, CallsRest, WatcherRests
      <4> QED
        BY <1>1, <2>4, <3>1, <4>2, Told
    <3>2. CASE relay.id # o
      BY <1>1, <2>2, <2>4, <3>2, OthersUntold, UntoldRests
    <3> QED BY <3>1, <3>2
  <2> QED
    BY <1>4, <2>3, <2>4 DEF RelayEmits
<1> QED
  BY <1>2, <1>3, <1>4 DEF Telling

\* A method call of sender s that consumed operation p tells its result later.
LEMMA CallHandsOver ==
  ASSUME TypeInv, NEW s \in Senders, NEW p, NEW r, Consumes(p, r), Step(s, "signal", p),
         UNCHANGED <<announced, watcher, relay>>, NEW o \in Ids, ToldOnce(o)
  PROVE  ToldOnce(o)'
<1>1. WatcherRests(o) /\ RelayRests(o) /\ SlotRests(o)
  BY UnchangedRest, ConsumedRests
<1>2. CASE p = o
  <2>1. Undecided(o) /\ ~Undecided(o)'
    BY <1>2, ConsumedIsDecided
  <2>2. \A t \in Senders : CallTells(t, o)' => t = s
    BY <2>1 DEF ToldOnce, NoTeller, Step, Call, CallTells, TypeInv, CallTypes
  <2>3. OneTeller(o)'
    BY <1>1, <2>1, <2>2 DEF ToldOnce, NoTeller, OneTeller, WatcherRests, RelayRests
  <2> QED
    BY <2>1, <2>3, HandedOver
<1>3. CASE p # o
  BY <1>1, <1>3, CallStepRests, UntoldRests
<1> QED BY <1>2, <1>3

LEMMA WatcherHandsOver ==
  ASSUME TypeInv, NEW r, Consumes(watcher.id, r),
         watcher' = [watcher EXCEPT !.step = "signal"],
         UNCHANGED <<announced, call, relay>>, NEW o \in Ids, ToldOnce(o)
  PROVE  ToldOnce(o)'
<1>1. CallsRest(o) /\ RelayRests(o) /\ SlotRests(o)
  BY UnchangedRest, ConsumedRests
<1>2. CASE watcher.id = o
  <2>1. Undecided(o) /\ ~Undecided(o)'
    BY <1>2, ConsumedIsDecided
  <2>2. OneTeller(o)'
    BY <1>1, <2>1 DEF ToldOnce, NoTeller, OneTeller, CallsRest, RelayRests
  <2> QED
    BY <2>1, <2>2, HandedOver
<1>3. CASE watcher.id # o
  <2>1. WatcherRests(o)
    BY <1>3 DEF WatcherRests, WatcherTells, TypeInv, CallTypes
  <2> QED
    BY <1>1, <2>1, UntoldRests
<1> QED BY <1>2, <1>3

LEMMA RelayHandsOver ==
  ASSUME TypeInv, NEW r, Consumes(relay.id, r), relay'.id = relay.id,
         UNCHANGED <<announced, call, watcher>>, NEW o \in Ids, ToldOnce(o)
  PROVE  ToldOnce(o)'
<1>1. CallsRest(o) /\ WatcherRests(o) /\ SlotRests(o)
  BY UnchangedRest, ConsumedRests
<1>2. CASE relay.id = o
  <2>1. Undecided(o) /\ ~Undecided(o)'
    BY <1>2, ConsumedIsDecided
  <2>2. OneTeller(o)'
    BY <1>1, <2>1 DEF ToldOnce, NoTeller, OneTeller, CallsRest, WatcherRests
  <2> QED
    BY <2>1, <2>2, HandedOver
<1>3. CASE relay.id # o
  <2>1. RelayRests(o)
    BY <1>3 DEF RelayRests, RelayTells
  <2> QED
    BY <1>1, <2>1, UntoldRests
<1> QED BY <1>2, <1>3

\* The deadline consumed the operation, and the daemon tells of it at once.
LEMMA ReapTells ==
  ASSUME TypeInv, ReapExpired, NEW o \in Ids, ToldOnce(o) PROVE ToldOnce(o)'
<1> USE DEF bus, calls
<1>1. CallsRest(o) /\ WatcherRests(o) /\ RelayRests(o)
  BY UnchangedRest DEF ReapExpired
<1>2. CASE Keeps /\ ~Consumed
  BY <1>1, <1>2, SlotKeepsRest, UntoldRests DEF ReapExpired
<1>3. CASE Consumes(operation.id, "TimedOut")
  <2>1. Announce(operation.id)
    BY <1>3, AnswerKinds DEF ReapExpired, Consumed, Consumes
  <2>2. CASE operation.id = o
    <3>1. Undecided(o) /\ ~Undecided(o)'
      BY <1>3, <2>2, ConsumedIsDecided
    <3>2. announced'[o] = 1 /\ NoTeller(o)'
      BY <1>1, <2>1, <2>2, <3>1
         DEF Announce, TypeInv, CallTypes, ToldOnce, NoTeller, CallsRest, WatcherRests,
             RelayRests
    <3> QED
      BY <3>1, <3>2 DEF ToldOnce, OneTeller, NoTeller
  <2>3. CASE operation.id # o
    BY <1>1, <1>3, <2>1, <2>3, ConsumedRests, OthersUntold, UntoldRests
  <2> QED BY <2>2, <2>3
<1> QED
  BY <1>2, <1>3, ExpireKinds DEF ReapExpired, Keeps, Consumed

LEMMA CallingUntold ==
  ASSUME TypeInv, Calling, NEW o \in Ids, ToldOnce(o) PROVE ToldOnce(o)'
<1> USE DEF bus, calls
<1>1. ASSUME NEW s \in Senders, StartOperation(s) PROVE ToldOnce(o)'
  <2>1. UNCHANGED <<announced, watcher, relay>>
    BY <1>1 DEF StartOperation
  <2>2. SlotRests(o)
    <3>1. CASE Keeps
      BY <3>1, SlotKeepsRest
    <3>2. CASE /\ issued' = issued + 1 /\ operation'.id = issued'
      BY <3>2 DEF SlotRests, Undecided, Live, Ids, TypeInv, SlotTypes
    <3> QED
      BY <1>1, <3>1, <3>2, StartStep
  <2>3. CallsRest(o)
    BY <1>1, StartStep, CallStepRests, CallReturnRests
  <2> QED
    BY <2>1, <2>2, <2>3, UnchangedRest, UntoldRests
<1>2. ASSUME NEW s \in Senders, RollBack(s) \/ WithdrawFromSlot(s)
      PROVE  ToldOnce(o)'
  <2>1. /\ Returns(s) /\ Cancel(UidOf[s], call[s].id, clock)
        /\ UNCHANGED <<announced, watcher, relay>>
    BY <1>2 DEF RollBack, WithdrawFromSlot
  <2>2. SlotRests(o)
    BY <2>1, CancelKinds, SlotKeepsRest, ConsumedRests
  <2> QED
    BY <2>1, <2>2, CallReturnRests, UnchangedRest, UntoldRests
<1>3. ASSUME NEW s \in Senders, ConsumeCancelled(s) PROVE ToldOnce(o)'
  <2>1. UNCHANGED <<announced, watcher, relay>>
    BY <1>3 DEF ConsumeCancelled
  <2>2. CASE Returns(s) /\ Keeps
    BY <2>1, <2>2, SlotKeepsRest, CallReturnRests, UnchangedRest, UntoldRests
  <2>3. ASSUME NEW r \in Results, Consumes(call[s].id, r), Step(s, "signal", reply'.id)
        PROVE  ToldOnce(o)'
    <3>1. reply'.id = call[s].id
      BY <2>3, AnswerKinds DEF Consumes
    <3> QED
      BY <2>1, <2>3, <3>1, CallHandsOver
  <2>4. CASE Cancel(UidOf[s], call[s].id, clock)
              /\ IF Consumed THEN Step(s, "signal", reply'.id) ELSE Returns(s)
    BY <2>2, <2>3, <2>4, CancelKinds, AnswerKinds DEF Keeps, Consumes, Consumed
  <2> QED
    BY <1>3, <2>2, <2>4, UncalledKeeps DEF ConsumeCancelled
<1>4. CASE WatcherConsumes
  <2>1. UNCHANGED <<announced, call, relay>>
    BY <1>4 DEF WatcherConsumes
  <2>2. CASE Keeps
    <3>1. WatcherRests(o)
      BY <1>4, <2>2 DEF WatcherConsumes, WatcherFails, Keeps, Consumed, WatcherRests,
           WatcherTells, TypeInv, CallTypes
    <3> QED
      BY <2>1, <2>2, <3>1, SlotKeepsRest, UnchangedRest, UntoldRests
  <2>3. ASSUME NEW r \in Results, Consumes(watcher.id, r) PROVE ToldOnce(o)'
    <3>1. watcher' = [watcher EXCEPT !.step = "signal"]
      BY <1>4, <2>3, AnswerKinds DEF WatcherConsumes, Consumes, Consumed
    <3> QED
      BY <2>1, <2>3, <3>1, WatcherHandsOver
  <2> QED
    BY <1>4, <2>2, <2>3, CancelKinds DEF WatcherConsumes
<1>5. CASE RelayProgress \/ RelayCompletion
  <2>1. UNCHANGED <<announced, call, watcher>> /\ RelayFollows
    BY <1>5 DEF RelayProgress, RelayCompletion
  <2>2. CASE Keeps /\ (reply'.kind = "Error" \/ reply' = Progressed(relay.id))
    <3>1. ~RelayTells(o)'
      <4>1. CASE relay' = IdleRelay \/ relay' = [relay EXCEPT !.step = "finish"]
        <5>1. relay'.step # "emit"
          BY <4>1 DEF IdleRelay, TypeInv, ChannelTypes
        <5> QED
          BY <5>1 DEF RelayTells
      <4>2. CASE /\ reply' = Progressed(relay.id)
                 /\ relay' = [relay EXCEPT !.step = "emit", !.update = reply']
        <5>1. relay'.update = reply' /\ reply'.kind = "Progress"
          BY <4>2, AnswerKinds DEF TypeInv, ChannelTypes
        <5> QED
          BY <5>1 DEF RelayTells
      <4> QED
        BY <2>1, <2>2, <4>1, <4>2 DEF RelayFollows, RelayReturns
    <3>2. RelayRests(o)
      BY <3>1 DEF RelayRests
    <3> QED
      BY <2>1, <2>2, <3>2, SlotKeepsRest, UnchangedRest, UntoldRests
  <2>3. ASSUME NEW r \in Results, Consumes(relay.id, r) PROVE ToldOnce(o)'
    <3>1. reply'.kind = "Completed"
      BY <2>3, AnswerKinds DEF Consumes
    <3>2. relay' = [relay EXCEPT !.step = "emit", !.update = reply']
      BY <2>1, <3>1, AnswerKinds DEF RelayFollows
    <3>3. relay'.id = relay.id
      BY <3>2 DEF TypeInv, ChannelTypes
    <3> QED
      BY <2>1, <2>3, <3>3, RelayHandsOver
  <2> QED
    BY <1>5, <2>2, <2>3, RelayAnswers
<1> QED
  BY <1>1, <1>2, <1>3, <1>4, <1>5, ReapTells DEF Calling

LEMMA TellNext == TypeInv /\ TellInv /\ [Next]_vars => TellInv'
<1> SUFFICES ASSUME TypeInv, TellInv, [Next]_vars, NEW o \in Ids PROVE ToldOnce(o)'
  BY DEF TellInv
<1>1. ToldOnce(o)
  BY DEF TellInv
<1>2. CASE UNCHANGED vars
  BY <1>1, <1>2
     DEF vars, bus, calls, manager, ToldOnce, Undecided, Live, NoTeller, OneTeller,
         CallTells, WatcherTells, RelayTells
<1> QED
  BY <1>1, <1>2, StepGroups, SilentUntold, TellingTells, CallingUntold

\* Clients see at most one terminal signal of an operation, whoever consumed it,
\* and none while the coordinator still has it.
THEOREM SignalCorrect == Spec => []OneTerminalSignal
<1>1. TypeInv /\ TellInv => OneTerminalSignal
  <2> SUFFICES ASSUME TypeInv, TellInv PROVE OneTerminalSignal
    OBVIOUS
  <2>1. operation # Idle => operation.id \in Ids /\ Undecided(operation.id)
    BY ControlAssumption DEF TypeInv, SlotTypes, Undecided, Live, Ids
  <2> QED
    BY <2>1 DEF TellInv, ToldOnce, OneTerminalSignal
<1> QED
  BY <1>1, TypeInit, TypeNext, TellInit, TellNext, PTL DEF Spec

===============================================================================
